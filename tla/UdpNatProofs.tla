---------------------------- MODULE UdpNatProofs ----------------------------
(***************************************************************************)
(* The flow table, the sockets and the authentication gate of the UDP NAT, *)
(* for any number of flow keys and workers and any limits.                 *)
(***************************************************************************)
EXTENDS UdpNat, FiniteSetTheorems, TLAPS

-----------------------------------------------------------------------------
\* The inductive invariant, on top of the two halves of TypeOK

Flags ==
    /\ authed \in BOOLEAN /\ ctxDone \in BOOLEAN /\ closed \in BOOLEAN
    /\ sock \in [Flows -> BOOLEAN] /\ fresh \in [Flows -> BOOLEAN]

Shapes ==
    /\ closing \in {"no", "mark", "wait", "done"}
    /\ rx \in [key : FlowKeys \cup {None}, flow : Flows \cup {None, "done"}]
    /\ queue \in Seq(FlowKeys) /\ Len(queue) <= QueueSize
    /\ packets \in Seq(Flows) /\ Len(packets) <= QueueSize
    /\ flows \in [FlowKeys -> Flows \cup {None}]
    /\ pending \in SUBSET FlowKeys
    /\ tokens \in 0..NewFlowsPerSecond
    /\ gauge \in Int
    /\ wpc \in [Workers -> {"idle", "send", "dial", "dialed", "done"}]
    /\ wkey \in [Workers -> FlowKeys \cup {None}]
    /\ wflow \in [Workers -> Flows \cup {None}]
    /\ pw \in Flows \cup {None, "done"}
    /\ pump \in [Flows -> {"none", "top", "read", "exit", "delete"}]

\* The receive loop holds a key unless it is done.
Listens == rx.key # None => rx.flow \in Flows \cup {None}

\* A worker that dials has its key to itself: the key is pending and has no flow.
Keys ==
    /\ \A w \in Workers : wpc[w] \in {"send", "dial", "dialed"} => wkey[w] \in FlowKeys
    /\ \A w \in Dialing : wkey[w] \in pending /\ flows[wkey[w]] = None
    /\ \A k \in pending : \E w \in Dialing : wkey[w] = k
    /\ \A v, w \in Dialing : wkey[v] = wkey[w] => v = w

\* A dialled flow object is in the hands of one worker, and has no pump yet; a flow of the table
\* belongs to one key and has its pump.
Objects ==
    /\ \A w \in Workers : wpc[w] = "dialed" => wflow[w] \in Flows /\ pump[wflow[w]] = "none"
    /\ \A w \in Workers : wpc[w] # "dialed" => wflow[w] = None
    /\ \A v, w \in Workers : wpc[v] = "dialed" /\ wflow[v] = wflow[w] => v = w
    /\ \A k \in Live : pump[flows[k]] # "none"
    /\ \A j, k \in Live : flows[j] = flows[k] => j = k
    /\ \A f \in Flows : sock[f] => pump[f] # "none" \/ \E w \in Workers : wpc[w] = "dialed" /\ wflow[w] = f
    /\ \A f \in Flows : pump[f] = "delete" => ~sock[f]

\* Before authentication nothing is queued and no worker is busy.
Gate ==
    ~authed => /\ rx.key = None /\ queue = <<>> /\ packets = <<>>
               /\ \A w \in Workers : wpc[w] \in {"idle", "done"}
               /\ \A k \in FlowKeys : flows[k] = None

\* close returns after the workers and the pumps.
Joined ==
    closing = "done" => /\ \A w \in Workers : wpc[w] = "done"
                        /\ \A f \in Flows : pump[f] = "none"

\* The table and its metric
Counts ==
    /\ Cardinality(Live) + Cardinality(pending) <= MaxFlows
    /\ gauge = Cardinality(Live)

Struct == TypeOK /\ Listens /\ Keys /\ Objects /\ Gate /\ Joined

-----------------------------------------------------------------------------
\* A new NAT is empty.
LEMMA StructInit == Init => Struct
<1> SUFFICES ASSUME Init PROVE Struct
  OBVIOUS
<1> USE NatAssumption DEF Init
<1>1. Flags
  BY Zenon DEF Flags
<1> HIDE DEF Init
<1>2. Shapes
  BY DEF Init, Shapes, Idle
<1>3. Keys /\ Objects
  BY DEF Init, Keys, Objects, Dialing, Live
<1>4. Listens /\ Gate /\ Joined
  BY DEF Init, Listens, Gate, Joined, Idle
<1>5. QED
  BY <1>1, <1>2, <1>3, <1>4, Zenon DEF Struct, TypeOK, Flags, Shapes

\* Every step keeps the types: the flags first, whose values are Boolean expressions ...
LEMMA FlagStep == Struct /\ [Next]_vars => Flags'
<1> SUFFICES ASSUME Struct, [Next]_vars PROVE Flags'
  OBVIOUS
<1> USE DEF Flags, lifeVars, rxVars, tableVars, workerVars, flowVars
<1>0. Flags
  BY DEF Struct, TypeOK
<1>1. ASSUME Authenticate \/ ConnEnds \/ CloseCancels \/ CloseMarks \/ CloseReturns PROVE Flags'
  BY <1>0, <1>1, Zenon DEF Authenticate, ConnEnds, CloseCancels, CloseMarks, CloseReturns
<1>2. CASE WritePacket
  <2>1. fresh' = fresh \/ fresh' = [fresh EXCEPT ![pw] = pump[pw] # "none"]
    BY <1>2, Zenon DEF WritePacket
  <2>2. QED
    BY <1>0, <1>2, <2>1, Zenon DEF WritePacket
<1>3. ASSUME NEW w \in Workers, SendExisting(w) PROVE Flags'
  BY <1>0, <1>3, Zenon DEF SendExisting
<1>4. ASSUME NEW w \in Workers, NEW f \in Flows, DialSucceeds(w, f) PROVE Flags'
  BY <1>0, <1>4, Zenon DEF DialSucceeds
<1>5. ASSUME NEW w \in Workers, Insert(w) PROVE Flags'
  <2>1. \/ sock' = [sock EXCEPT ![wflow[w]] = FALSE] /\ fresh' = fresh
        \/ fresh' = [fresh EXCEPT ![wflow[w]] = TRUE] /\ sock' = sock
    BY <1>5, Zenon DEF Insert
  <2>2. QED
    BY <1>0, <1>5, <2>1, Zenon DEF Insert
<1>6. ASSUME NEW f \in Flows, Pump(f) PROVE Flags'
  BY <1>0, <1>6, Zenon
     DEF Pump, PumpTop, PumpReply, PumpTimeout, PumpError, PumpCloses, PumpDeletes
<1>7. ASSUME UNCHANGED <<lifeVars, sock, fresh>> PROVE Flags'
  BY <1>0, <1>7, Zenon
<1>8. ASSUME \/ \E k \in FlowKeys : Receive(k)
             \/ Receiver \/ TakePacket \/ PacketWorkerExits \/ UNCHANGED vars
      PROVE UNCHANGED <<lifeVars, sock, fresh>>
  BY <1>8, Zenon DEF Receive, Receiver, Enqueue, ReceiverExits, TakePacket, PacketWorkerExits, vars
<1>9. ASSUME NEW w \in Workers,
             \/ TakeDatagram(w) \/ SendRefused(w) \/ DialFails(w) \/ WorkerExits(w)
             \/ \E t \in tokens..NewFlowsPerSecond : SendNew(w, t)
      PROVE UNCHANGED <<lifeVars, sock, fresh>>
  BY <1>9 DEF TakeDatagram, SendRefused, DialFails, WorkerExits, SendNew
<1> HIDE DEF Flags, lifeVars, rxVars, tableVars, workerVars, flowVars
<1>10. QED
  BY <1>1, <1>2, <1>3, <1>4, <1>5, <1>6, <1>7, <1>8, <1>9, Zenon
     DEF Next, PacketWorker, Worker, Dial, Closer

\* ... and then the rest.
LEMMA TypeStep == Struct /\ [Next]_vars => TypeOK'
<1> SUFFICES ASSUME Struct, [Next]_vars, Flags' PROVE Shapes'
  BY FlagStep DEF Flags, Shapes, TypeOK
<1>0. Shapes
  BY Zenon DEF Struct, TypeOK, Shapes
<1> USE NatAssumption DEF Shapes, lifeVars, rxVars, tableVars, workerVars, flowVars
<1>1. ASSUME Authenticate \/ ConnEnds \/ CloseCancels \/ CloseMarks \/ CloseReturns PROVE Shapes'
  BY <1>0, <1>1, Zenon DEF Authenticate, ConnEnds, CloseCancels, CloseMarks, CloseReturns
<1>2. ASSUME NEW k \in FlowKeys, Receive(k) PROVE Shapes'
  BY <1>0, <1>2, Zenon DEF Receive
<1>3. CASE Enqueue
  <2>1. rx' = Idle /\ rx.key \in FlowKeys /\ rx.flow \in Flows \cup {None, "done"}
    BY <1>0, <1>3 DEF Enqueue
  <2>2. rx' \in [key : FlowKeys \cup {None}, flow : Flows \cup {None, "done"}]
    BY <2>1 DEF Idle
  <2>3. queue' \in Seq(FlowKeys) /\ Len(queue') <= QueueSize
    BY <1>0, <1>3, <2>1, SMTT(30) DEF Enqueue
  <2>4. packets' \in Seq(Flows) /\ Len(packets') <= QueueSize
    <3>1. rx.flow = None \/ rx.flow \in Flows
      BY <1>3, Zenon DEF Enqueue, Struct, Listens
    <3>2. packets' = packets \/ (rx.flow \in Flows /\ Len(packets) < QueueSize
                                 /\ packets' = Append(packets, rx.flow))
      BY <1>3, <3>1 DEF Enqueue
    <3>3. packets \in Seq(Flows) /\ Len(packets) <= QueueSize /\ QueueSize \in Nat
      BY <1>0, Zenon
    <3> HIDE DEF Shapes
    <3>4. CASE packets' = packets
      BY <3>3, <3>4
    <3>5. CASE rx.flow \in Flows /\ Len(packets) < QueueSize /\ packets' = Append(packets, rx.flow)
      BY <3>3, <3>5
    <3>6. QED
      BY <3>2, <3>4, <3>5
  <2>5. QED
    BY <1>0, <1>3, <2>2, <2>3, <2>4, Zenon DEF Enqueue
<1>4. CASE ReceiverExits
  BY <1>0, <1>4, Zenon DEF ReceiverExits, RxDone
<1>5. CASE TakePacket
  BY <1>0, <1>5 DEF TakePacket
<1>6. CASE WritePacket
  BY <1>0, <1>6, Zenon DEF WritePacket
<1>7. CASE PacketWorkerExits
  BY <1>0, <1>7, Zenon DEF PacketWorkerExits
<1>8. ASSUME NEW w \in Workers, TakeDatagram(w) PROVE Shapes'
  <2>1. Head(queue) \in FlowKeys /\ queue' \in Seq(FlowKeys) /\ Len(queue') <= QueueSize
    BY <1>0, <1>8 DEF TakeDatagram
  <2>2. wpc' \in [Workers -> {"idle", "send", "dial", "dialed", "done"}]
        /\ wkey' \in [Workers -> FlowKeys \cup {None}]
    <3>1. \/ wpc' = wpc /\ wkey' = wkey
          \/ /\ wpc' = [wpc EXCEPT ![w] = "send"]
             /\ wkey' = [wkey EXCEPT ![w] = Head(queue)]
      BY <1>8, Zenon DEF TakeDatagram
    <3> DEFINE k == Head(queue)
    <3>2. k \in FlowKeys
      BY <2>1
    <3>3. /\ wpc \in [Workers -> {"idle", "send", "dial", "dialed", "done"}]
          /\ wkey \in [Workers -> FlowKeys \cup {None}]
      BY <1>0
    <3> HIDE DEF k, Shapes
    <3>4. QED
      BY <3>1, <3>2, <3>3 DEF k
  <2>3. QED
    BY <1>0, <1>8, <2>1, <2>2, Zenon DEF TakeDatagram
<1>9. ASSUME NEW w \in Workers, SendExisting(w) \/ SendRefused(w) PROVE Shapes'
  BY <1>0, <1>9, ZenonT(30) DEF SendExisting, SendRefused, Finish
<1>10. ASSUME NEW w \in Workers, NEW t \in tokens..NewFlowsPerSecond, SendNew(w, t) PROVE Shapes'
  <2>1. wkey[w] \in FlowKeys
    BY <1>10, Zenon DEF SendNew, Struct, Keys
  <2>2. CASE t < 1
    <3>1. Finish(w) /\ tokens' = t /\ pending' = pending
      BY <1>10, <2>2 DEF SendNew
    <3>2. tokens' \in 0..NewFlowsPerSecond
      BY <1>0, <3>1
    <3>3. QED
      BY <1>0, <1>10, <3>1, <3>2, Zenon DEF SendNew, Finish
  <2>3. CASE ~(t < 1)
    <3>1. tokens' \in 0..NewFlowsPerSecond
      BY <1>0, <1>10, <2>3 DEF SendNew
    <3>2. pending' \in SUBSET FlowKeys
          /\ wpc' \in [Workers -> {"idle", "send", "dial", "dialed", "done"}]
      BY <1>0, <1>10, <2>1, <2>3 DEF SendNew
    <3>3. QED
      BY <1>0, <1>10, <2>3, <3>1, <3>2, Zenon DEF SendNew
  <2>4. QED
    BY <2>2, <2>3, Zenon
<1>11. ASSUME NEW w \in Workers, Dial(w) PROVE Shapes'
  <2>1. CASE DialFails(w)
    BY <1>0, <2>1, Zenon DEF DialFails, Finish
  <2>2. ASSUME NEW f \in Flows, DialSucceeds(w, f) PROVE Shapes'
    BY <1>0, <2>2, Zenon DEF DialSucceeds
  <2>3. QED
    BY <1>11, <2>1, <2>2, Zenon DEF Dial
<1>12. ASSUME NEW w \in Workers, Insert(w) PROVE Shapes'
  <2>1. wkey[w] \in FlowKeys /\ wflow[w] \in Flows
    BY <1>12, Zenon DEF Insert, Struct, Keys, Objects
  <2>2. CASE closed
    BY <1>0, <1>12, <2>2, Zenon DEF Insert, Finish
  <2>3. CASE ~closed
    <3>1. /\ flows' = [flows EXCEPT ![wkey[w]] = wflow[w]]
          /\ pump' = [pump EXCEPT ![wflow[w]] = "top"]
          /\ pending' = pending \ {wkey[w]} /\ gauge' = gauge + 1 /\ Finish(w)
      BY <1>12, <2>3, Zenon DEF Insert
    <3>2. flows' \in [FlowKeys -> Flows \cup {None}]
          /\ pump' \in [Flows -> {"none", "top", "read", "exit", "delete"}]
      BY <1>0, <2>1, <3>1, Zenon
    <3>3. QED
      BY <1>0, <1>12, <3>1, <3>2 DEF Insert, Finish
  <2>4. QED
    BY <2>2, <2>3, Zenon
<1>13. ASSUME NEW w \in Workers, WorkerExits(w) PROVE Shapes'
  BY <1>0, <1>13, Zenon DEF WorkerExits
<1>14. ASSUME NEW f \in Flows, Pump(f) PROVE Shapes'
  BY <1>0, <1>14, SMTT(30) DEF Pump, PumpTop, PumpReply, PumpTimeout, PumpError, PumpCloses, PumpDeletes
<1>15. CASE UNCHANGED vars
  BY <1>0, <1>15, Zenon DEF vars
<1> HIDE DEF Shapes
<1>16. QED
  BY <1>1, <1>2, <1>3, <1>4, <1>5, <1>6, <1>7, <1>8, <1>9, <1>10, <1>11, <1>12, <1>13, <1>14, <1>15, Zenon
     DEF Next, Receiver, PacketWorker, Worker, Dial, Closer

-----------------------------------------------------------------------------
\* A key stays with its worker from SendNew to DialFails or Insert.
LEMMA KeysStep == Struct /\ [Next]_vars => Keys'
<1> SUFFICES ASSUME Struct, [Next]_vars PROVE Keys'
  BY Zenon
<1>0. Shapes /\ Keys
  BY Zenon DEF Struct, TypeOK, Shapes
<1> USE NatAssumption DEF Keys, Dialing, Shapes, tableVars, workerVars
<1>1. ASSUME UNCHANGED <<pending, flows, wpc, wkey>> PROVE Keys'
  BY <1>0, <1>1, Zenon
<1>2. ASSUME NEW w \in Workers, TakeDatagram(w) PROVE Keys'
  <2>1. Head(queue) \in FlowKeys
    BY <1>0, <1>2 DEF TakeDatagram
  <2> DEFINE k == Head(queue)
  <2>2. \/ wpc' = wpc /\ wkey' = wkey
        \/ wpc' = [wpc EXCEPT ![w] = "send"] /\ wkey' = [wkey EXCEPT ![w] = k]
    BY <1>2, Zenon DEF TakeDatagram
  <2>3. k \in FlowKeys /\ wpc[w] = "idle" /\ pending' = pending /\ flows' = flows
    BY <1>2, <2>1, Zenon DEF TakeDatagram
  <2> HIDE DEF k
  <2>4. CASE wpc' = wpc /\ wkey' = wkey
    BY <1>1, <2>3, <2>4, Zenon
  <2>5. CASE wpc' = [wpc EXCEPT ![w] = "send"] /\ wkey' = [wkey EXCEPT ![w] = k]
    <3>1. Dialing' = Dialing /\ \A v \in Dialing : wkey'[v] = wkey[v]
      BY <1>0, <2>3, <2>5
    <3>2. \A v \in Workers : wpc'[v] \in {"send", "dial", "dialed"} => wkey'[v] \in FlowKeys
      BY <1>0, <2>3, <2>5
    <3> HIDE DEF Dialing
    <3>3. /\ \A v \in Dialing : wkey[v] \in pending /\ flows[wkey[v]] = None
          /\ \A j \in pending : \E v \in Dialing : wkey[v] = j
          /\ \A u, v \in Dialing : wkey[u] = wkey[v] => u = v
      BY <1>0, Zenon
    <3>4. \A v \in Dialing' : wkey'[v] \in pending' /\ flows'[wkey'[v]] = None
      BY ONLY <2>3, <3>1, <3>3
    <3>5. \A j \in pending' : \E v \in Dialing' : wkey'[v] = j
      BY ONLY <2>3, <3>1, <3>3
    <3>6. \A u, v \in Dialing' : wkey'[u] = wkey'[v] => u = v
      BY ONLY <3>1, <3>3
    <3> QED
      BY <3>2, <3>4, <3>5, <3>6, Zenon
  <2>6. QED
    BY <2>2, <2>4, <2>5, Zenon
<1>3. ASSUME NEW w \in Workers, SendExisting(w) \/ SendRefused(w) PROVE Keys'
  <2>1. /\ wpc[w] = "send" /\ UNCHANGED <<pending, flows>>
        /\ wpc' = [wpc EXCEPT ![w] = "idle"] /\ wkey' = [wkey EXCEPT ![w] = None]
    BY <1>3, Zenon DEF SendExisting, SendRefused, Finish
  <2>2. QED
    BY <1>0, <2>1
<1>4. ASSUME NEW w \in Workers, NEW t \in tokens..NewFlowsPerSecond, SendNew(w, t) PROVE Keys'
  <2>1. CASE t < 1
    <3>1. /\ wpc[w] = "send" /\ UNCHANGED <<pending, flows>>
          /\ wpc' = [wpc EXCEPT ![w] = "idle"] /\ wkey' = [wkey EXCEPT ![w] = None]
      BY <1>4, <2>1, Zenon DEF SendNew, Finish
    <3>2. QED
      BY <1>0, <3>1
  <2>2. CASE ~(t < 1)
    <3>1. /\ wpc[w] = "send" /\ flows[wkey[w]] = None /\ wkey[w] \notin pending
          /\ wpc' = [wpc EXCEPT ![w] = "dial"] /\ pending' = pending \cup {wkey[w]}
          /\ wkey' = wkey /\ flows' = flows
      BY <1>4, <2>2, Zenon DEF SendNew, Refused
    <3>2. QED
      BY <1>0, <3>1
  <2>3. QED
    BY <2>1, <2>2, Zenon
<1>5. ASSUME NEW w \in Workers, NEW f \in Flows, DialSucceeds(w, f) PROVE Keys'
  BY <1>0, <1>5 DEF DialSucceeds
<1>6. ASSUME NEW w \in Workers, DialFails(w) PROVE Keys'
  BY <1>0, <1>6 DEF DialFails, Finish
<1>7. ASSUME NEW w \in Workers, Insert(w) PROVE Keys'
  <2>1. /\ wpc[w] = "dialed" /\ pending' = pending \ {wkey[w]}
        /\ wpc' = [wpc EXCEPT ![w] = "idle"] /\ wkey' = [wkey EXCEPT ![w] = None]
        /\ flows' = flows \/ flows' = [flows EXCEPT ![wkey[w]] = wflow[w]]
    BY <1>7, Zenon DEF Insert, Finish
  <2>2. QED
    BY <1>0, <2>1
<1>8. ASSUME NEW w \in Workers, WorkerExits(w) PROVE Keys'
  BY <1>0, <1>8 DEF WorkerExits
<1>9. ASSUME NEW f \in Flows, PumpDeletes(f) PROVE Keys'
  BY <1>0, <1>9, Zenon DEF PumpDeletes
<1>10. ASSUME NEW f \in Flows,
              PumpTop(f) \/ PumpReply(f) \/ PumpTimeout(f) \/ PumpError(f) \/ PumpCloses(f)
       PROVE UNCHANGED <<pending, flows, wpc, wkey>>
  BY <1>10, Zenon DEF PumpTop, PumpReply, PumpTimeout, PumpError, PumpCloses
<1>11. ASSUME \/ Authenticate \/ ConnEnds \/ (\E k \in FlowKeys : Receive(k)) \/ Receiver
              \/ PacketWorker \/ CloseCancels \/ Closer \/ UNCHANGED vars
       PROVE UNCHANGED <<pending, flows, wpc, wkey>>
  BY <1>11, Zenon DEF Authenticate, ConnEnds, Receive, Receiver, Enqueue, ReceiverExits, PacketWorker,
     TakePacket, WritePacket, PacketWorkerExits, CloseCancels, Closer, CloseMarks, CloseReturns, vars
<1> HIDE DEF Keys, Shapes, tableVars, workerVars
<1>12. QED
  BY <1>1, <1>2, <1>3, <1>4, <1>5, <1>6, <1>7, <1>8, <1>9, <1>10, <1>11, Zenon
     DEF Next, Worker, Dial, Pump

\* A flow object passes from the worker that dialled it to its pump, and a name is used again
\* only when neither is left.
LEMMA ObjectsStep == Struct /\ [Next]_vars => Objects'
<1> SUFFICES ASSUME Struct, [Next]_vars PROVE Objects'
  OBVIOUS
<1>0. Shapes /\ Objects /\ sock \in [Flows -> BOOLEAN]
  BY Zenon DEF Struct, TypeOK, Shapes
<1> USE NatAssumption DEF Objects, Live, Shapes, tableVars, workerVars, flowVars
<1>1. ASSUME UNCHANGED <<flows, wpc, wflow, pump, sock>> PROVE Objects'
  BY <1>0, <1>1
<1>2. ASSUME NEW w \in Workers, TakeDatagram(w) \/ WorkerExits(w) PROVE Objects'
  <2>1. /\ wpc[w] = "idle" /\ UNCHANGED <<flows, wflow, pump, sock>>
        /\ wpc' = wpc \/ wpc' = [wpc EXCEPT ![w] = "send"] \/ wpc' = [wpc EXCEPT ![w] = "done"]
    BY <1>2, Zenon DEF TakeDatagram, WorkerExits
  <2>2. QED
    BY <1>0, <2>1
<1>3. ASSUME NEW w \in Workers, SendExisting(w) \/ SendRefused(w) \/ DialFails(w) PROVE Objects'
  <2>1. /\ wpc[w] \in {"send", "dial"} /\ UNCHANGED <<flows, pump, sock>>
        /\ wpc' = [wpc EXCEPT ![w] = "idle"] /\ wflow' = [wflow EXCEPT ![w] = None]
    BY <1>3, Zenon DEF SendExisting, SendRefused, DialFails, Finish
  <2>2. QED
    BY <1>0, <2>1
<1>4. ASSUME NEW w \in Workers, NEW t \in tokens..NewFlowsPerSecond, SendNew(w, t) PROVE Objects'
  <2>1. /\ wpc[w] = "send" /\ UNCHANGED <<flows, pump, sock>>
        /\ \/ wpc' = [wpc EXCEPT ![w] = "idle"] /\ wflow' = [wflow EXCEPT ![w] = None]
           \/ wpc' = [wpc EXCEPT ![w] = "dial"] /\ wflow' = wflow
    BY <1>4, Zenon DEF SendNew, Finish
  <2>2. QED
    BY <1>0, <2>1
<1>5. ASSUME NEW w \in Workers, NEW f \in Flows, DialSucceeds(w, f) PROVE Objects'
  <2>1. /\ wpc[w] = "dial" /\ pump[f] = "none" /\ \A v \in Workers : wflow[v] # f
        /\ UNCHANGED <<flows, pump>>
        /\ wpc' = [wpc EXCEPT ![w] = "dialed"] /\ wflow' = [wflow EXCEPT ![w] = f]
        /\ sock' = [sock EXCEPT ![f] = TRUE]
    BY <1>5, Zenon DEF DialSucceeds, Unused
  <2>2. QED
    BY <1>0, <2>1
<1>6. ASSUME NEW w \in Workers, Insert(w) PROVE Objects'
  <2>1. /\ wpc[w] = "dialed" /\ wflow[w] \in Flows /\ pump[wflow[w]] = "none"
        /\ wpc' = [wpc EXCEPT ![w] = "idle"] /\ wflow' = [wflow EXCEPT ![w] = None]
    BY <1>0, <1>6, Zenon DEF Insert, Finish
  <2>2. CASE closed
    <3>1. UNCHANGED <<flows, pump>> /\ sock' = [sock EXCEPT ![wflow[w]] = FALSE]
      BY <1>6, <2>2, Zenon DEF Insert
    <3>2. QED
      BY <1>0, <2>1, <3>1
  <2>3. CASE ~closed
    <3>1. /\ flows' = [flows EXCEPT ![wkey[w]] = wflow[w]] /\ sock' = sock
          /\ pump' = [pump EXCEPT ![wflow[w]] = "top"]
      BY <1>6, <2>3, Zenon DEF Insert
    <3>2. QED
      BY <1>0, <2>1, <3>1
  <2>4. QED
    BY <2>2, <2>3, Zenon
<1>7. ASSUME NEW f \in Flows, PumpDeletes(f) PROVE Objects'
  <2>1. /\ pump[f] = "delete" /\ pump' = [pump EXCEPT ![f] = "none"]
        /\ flows' = [k \in FlowKeys |-> IF flows[k] = f THEN None ELSE flows[k]]
        /\ UNCHANGED <<wpc, wflow, sock>>
    BY <1>7, Zenon DEF PumpDeletes
  <2>2. ~sock[f]
    BY <1>0, <2>1, Zenon
  <2>3. QED
    BY <1>0, <2>1, <2>2, SMTT(30)
<1>8. ASSUME NEW f \in Flows,
             PumpTop(f) \/ PumpReply(f) \/ PumpTimeout(f) \/ PumpError(f) \/ PumpCloses(f)
      PROVE Objects'
  <2>1. /\ pump[f] # "none" /\ UNCHANGED <<flows, wpc, wflow>>
        /\ \/ /\ \E p \in {"top", "read", "exit"} : pump' = [pump EXCEPT ![f] = p]
              /\ sock' = sock
           \/ pump' = [pump EXCEPT ![f] = "delete"] /\ sock' = [sock EXCEPT ![f] = FALSE]
    BY <1>8, Zenon DEF PumpTop, PumpReply, PumpTimeout, PumpError, PumpCloses
  <2>2. QED
    BY <1>0, <2>1, SMTT(30)
<1>9. CASE CloseMarks
  BY <1>0, <1>9, SMTT(30) DEF CloseMarks
<1>10. ASSUME \/ Authenticate \/ ConnEnds \/ (\E k \in FlowKeys : Receive(k)) \/ Receiver
              \/ PacketWorker \/ CloseCancels \/ CloseReturns \/ UNCHANGED vars
       PROVE UNCHANGED <<flows, wpc, wflow, pump, sock>>
  BY <1>10, Zenon DEF Authenticate, ConnEnds, Receive, Receiver, Enqueue, ReceiverExits, PacketWorker,
     TakePacket, WritePacket, PacketWorkerExits, CloseCancels, CloseReturns, vars
<1> HIDE DEF Objects, Shapes, tableVars, workerVars, flowVars
<1>11. QED
  BY <1>1, <1>2, <1>3, <1>4, <1>5, <1>6, <1>7, <1>8, <1>9, <1>10, Zenon DEF Next, Worker, Dial, Pump, Closer

\* Only Receive lets a datagram in, and it asks for authentication.
LEMMA GateStep == Struct /\ [Next]_vars => Gate' /\ Listens'
<1> SUFFICES ASSUME Struct, [Next]_vars PROVE Gate' /\ Listens'
  BY Zenon
<1>0. Shapes /\ Gate /\ Listens
  BY Zenon DEF Struct, TypeOK, Shapes
<1> USE NatAssumption DEF Gate, Listens, lifeVars, rxVars, tableVars, workerVars
<1>1. CASE Authenticate
  BY <1>0, <1>1, Zenon DEF Authenticate
<1>2. ASSUME NEW k \in FlowKeys, Receive(k) PROVE Gate' /\ Listens'
  <2>1. flows[k] \in Flows \cup {None} /\ authed'
    BY <1>0, <1>2, Zenon DEF Receive, Shapes
  <2>2. QED
    BY <2>1, <1>2, Zenon DEF Receive
<1>3. CASE Enqueue
  BY <1>0, <1>3, Zenon DEF Enqueue, Idle
<1>4. CASE ReceiverExits
  BY <1>0, <1>4, Zenon DEF ReceiverExits, RxDone
<1>5. CASE TakePacket
  BY <1>0, <1>5, Zenon DEF TakePacket
<1>6. ASSUME NEW w \in Workers, TakeDatagram(w) PROVE Gate' /\ Listens'
  BY <1>0, <1>6, Zenon DEF TakeDatagram
<1>7. ASSUME NEW w \in Workers,
             \/ SendExisting(w) \/ SendRefused(w) \/ Insert(w) \/ Dial(w)
             \/ \E t \in tokens..NewFlowsPerSecond : SendNew(w, t)
      PROVE Gate' /\ Listens'
  <2>1. wpc[w] \in {"send", "dial", "dialed"} /\ authed' = authed /\ rx' = rx
    BY <1>7, Zenon DEF SendExisting, SendRefused, Insert, Dial, DialFails, DialSucceeds, SendNew
  <2>2. QED
    BY <1>0, <2>1, Zenon
<1>8. ASSUME NEW w \in Workers, WorkerExits(w) PROVE Gate' /\ Listens'
  BY <1>0, <1>8, Zenon DEF WorkerExits, Shapes
<1>9. ASSUME NEW f \in Flows, PumpDeletes(f) PROVE Gate' /\ Listens'
  BY <1>0, <1>9, Zenon DEF PumpDeletes
<1>10. ASSUME UNCHANGED <<authed, rx, queue, packets, wpc, flows>> PROVE Gate' /\ Listens'
  BY <1>0, <1>10
<1>11. ASSUME NEW f \in Flows,
             PumpTop(f) \/ PumpReply(f) \/ PumpTimeout(f) \/ PumpError(f) \/ PumpCloses(f)
      PROVE UNCHANGED <<authed, rx, queue, packets, wpc, flows>>
  BY <1>11, Zenon DEF PumpTop, PumpReply, PumpTimeout, PumpError, PumpCloses
<1>12. ASSUME ConnEnds \/ WritePacket \/ PacketWorkerExits \/ CloseCancels \/ Closer \/ UNCHANGED vars
       PROVE UNCHANGED <<authed, rx, queue, packets, wpc, flows>>
  BY <1>12 DEF ConnEnds, WritePacket, PacketWorkerExits, CloseCancels, Closer, CloseMarks,
     CloseReturns, vars
<1> HIDE DEF Gate, Listens, lifeVars, rxVars, tableVars, workerVars
<1>13. QED
  BY <1>1, <1>2, <1>3, <1>4, <1>5, <1>6, <1>7, <1>8, <1>9, <1>10, <1>11, <1>12, Zenon
     DEF Next, Receiver, PacketWorker, Worker, Pump

\* A worker that is done and a flow without a pump stay so once close has returned.
LEMMA JoinedStep == Struct /\ [Next]_vars => Joined'
<1> SUFFICES ASSUME Struct, [Next]_vars PROVE Joined'
  BY Zenon
<1>0. Shapes /\ Joined
  BY DEF Struct, TypeOK, Shapes
<1> USE DEF Joined, lifeVars, workerVars, flowVars
<1>1. CASE CloseReturns
  BY <1>1, Zenon DEF CloseReturns
<1>2. CASE CloseCancels \/ CloseMarks
  BY <1>2, Zenon DEF CloseCancels, CloseMarks
<1>3. ASSUME NEW w \in Workers, Worker(w) \/ Dial(w) PROVE Joined'
  <2>1. wpc[w] # "done" /\ closing' = closing
    BY <1>3, Zenon DEF Worker, Dial, TakeDatagram, SendExisting, SendRefused, SendNew, Insert, WorkerExits,
       DialFails, DialSucceeds
  <2>2. QED
    BY <1>0, <2>1, Zenon DEF Shapes
<1>4. ASSUME NEW f \in Flows, Pump(f) PROVE Joined'
  <2>1. pump[f] # "none" /\ closing' = closing
    BY <1>4 DEF Pump, PumpTop, PumpReply, PumpTimeout, PumpError, PumpCloses, PumpDeletes
  <2>2. QED
    BY <1>0, <2>1, Zenon DEF Shapes
<1>5. ASSUME UNCHANGED <<closing, wpc, pump>> PROVE Joined'
  BY <1>0, <1>5, Zenon
<1>6. ASSUME \/ Authenticate \/ ConnEnds \/ (\E k \in FlowKeys : Receive(k)) \/ Receiver
             \/ PacketWorker \/ UNCHANGED vars
      PROVE UNCHANGED <<closing, wpc, pump>>
  BY <1>6 DEF Authenticate, ConnEnds, Receive, Receiver, Enqueue, ReceiverExits, PacketWorker,
     TakePacket, WritePacket, PacketWorkerExits, vars
<1> HIDE DEF Joined, lifeVars, workerVars, flowVars
<1>7. QED
  BY <1>1, <1>2, <1>3, <1>4, <1>5, <1>6, Zenon DEF Next, Closer

\* The structural part of the invariant holds in every reachable state.
LEMMA Structure == Spec => []Struct
<1>1. Struct /\ [Next]_vars => Struct'
  BY TypeStep, KeysStep, ObjectsStep, GateStep, JoinedStep, Zenon DEF Struct
<1>2. QED
  BY <1>1, StructInit, PTL DEF Spec

-----------------------------------------------------------------------------
\* The table is counted with finite sets: a key enters pending when there is room, moves to the
\* table in one step, and the metric follows the table.
LEMMA CountsStep == Struct /\ Counts /\ [Next]_vars => Counts'
<1> SUFFICES ASSUME Struct, Counts, [Next]_vars PROVE Counts'
  BY Zenon
<1>0. Shapes /\ Keys /\ Objects
  BY Zenon DEF Struct, TypeOK, Shapes
<1>a. Live \in SUBSET FlowKeys /\ IsFiniteSet(Live) /\ IsFiniteSet(pending)
  BY <1>0, NatAssumption, FS_Subset DEF Live, Shapes
<1>b. Cardinality(Live) \in Nat /\ Cardinality(pending) \in Nat
  BY <1>a, FS_CardinalityType
<1>c. MaxFlows \in Nat
  BY NatAssumption
<1>1. ASSUME UNCHANGED <<pending, flows, gauge>> PROVE Counts'
  BY <1>1 DEF Counts, Live
<1>2. ASSUME NEW w \in Workers, NEW t \in tokens..NewFlowsPerSecond, SendNew(w, t) PROVE Counts'
  <2>1. CASE t < 1
    BY <1>1, <1>2, <2>1, Zenon DEF SendNew
  <2>2. CASE ~(t < 1)
    <3>1. /\ wkey[w] \notin pending /\ Cardinality(Live) + Cardinality(pending) < MaxFlows
          /\ pending' = pending \cup {wkey[w]} /\ flows' = flows /\ gauge' = gauge
      <4>1. /\ wkey[w] \notin pending /\ ~(Cardinality(Live) + Cardinality(pending) >= MaxFlows)
            /\ pending' = pending \cup {wkey[w]} /\ flows' = flows /\ gauge' = gauge
        BY <1>2, <2>2, Zenon DEF SendNew, Refused
      <4>2. ASSUME NEW a \in Nat, NEW b \in Nat, NEW m \in Nat, ~(a + b >= m) PROVE a + b < m
        BY ONLY <4>2
      <4>3. QED
        BY <1>b, <1>c, <4>1, <4>2, Zenon
    <3>2. Cardinality(pending') = Cardinality(pending) + 1
      BY <1>a, <3>1, FS_AddElement, Zenon
    <3>3. Live' = Live
      BY <3>1, Zenon DEF Live
    <3>4. QED
      BY <1>b, <1>c, <3>1, <3>2, <3>3 DEF Counts
  <2>3. QED
    BY <2>1, <2>2, Zenon
<1>3. ASSUME NEW w \in Workers, DialFails(w) \/ Insert(w) PROVE Counts'
  <2>1. w \in Dialing /\ wkey[w] \in pending /\ pending' = pending \ {wkey[w]}
    BY <1>0, <1>3 DEF DialFails, Insert, Dialing, Keys
  <2>2. Cardinality(pending') = Cardinality(pending) - 1
    BY <1>a, <2>1, FS_RemoveElement, Zenon
  <2>3. CASE flows' = flows /\ gauge' = gauge
    <3>1. Live' = Live
      BY <2>3, Zenon DEF Live
    <3>2. QED
      BY <1>b, <1>c, <2>2, <2>3, <3>1 DEF Counts
  <2>4. CASE wpc[w] = "dialed" /\ flows' = [flows EXCEPT ![wkey[w]] = wflow[w]] /\ gauge' = gauge + 1
    <3>1. wkey[w] \in FlowKeys /\ wkey[w] \notin Live /\ wflow[w] \in Flows
      BY <1>0, <2>1, <2>4, Zenon DEF Keys, Objects, Live
    <3>2. Live' = Live \cup {wkey[w]}
      BY <1>0, <2>4, <3>1, NatAssumption DEF Live, Shapes
    <3>3. Cardinality(Live') = Cardinality(Live) + 1
      BY <1>a, <3>1, <3>2, FS_AddElement, Zenon
    <3>4. QED
      BY <1>b, <1>c, <2>2, <2>4, <3>3 DEF Counts
  <2>5. QED
    BY <1>3, <2>3, <2>4, Zenon DEF DialFails, Insert
<1>4. ASSUME NEW f \in Flows, PumpDeletes(f) PROVE Counts'
  <2>1. /\ flows' = [k \in FlowKeys |-> IF flows[k] = f THEN None ELSE flows[k]]
        /\ gauge' = IF \E k \in FlowKeys : flows[k] = f THEN gauge - 1 ELSE gauge
        /\ pending' = pending
    BY <1>4 DEF PumpDeletes
  <2>2. CASE \A k \in FlowKeys : flows[k] # f
    <3>1. Live' = Live /\ gauge' = gauge
      BY <2>1, <2>2, Zenon DEF Live
    <3>2. QED
      BY <2>1, <3>1 DEF Counts
  <2>3. ASSUME NEW k \in FlowKeys, flows[k] = f PROVE Counts'
    <3>1. k \in Live /\ gauge' = gauge - 1
      BY <2>1, <2>3, NatAssumption, Zenon DEF Live
    <3>2. Live' = Live \ {k}
      BY <1>0, <2>1, <2>3, <3>1, Zenon DEF Live, Objects
    <3>3. Cardinality(Live') = Cardinality(Live) - 1
      BY <1>a, <3>1, <3>2, FS_RemoveElement, Zenon
    <3>4. QED
      BY <1>b, <1>c, <2>1, <3>1, <3>3 DEF Counts
  <2>4. QED
    BY <2>2, <2>3, Zenon
<1>5. ASSUME NEW w \in Workers,
             \/ TakeDatagram(w) \/ SendExisting(w) \/ SendRefused(w) \/ WorkerExits(w)
             \/ \E f \in Flows : DialSucceeds(w, f)
      PROVE Counts'
  BY <1>1, <1>5, Zenon DEF TakeDatagram, SendExisting, SendRefused, WorkerExits, DialSucceeds, tableVars
<1>6. ASSUME NEW f \in Flows,
             PumpTop(f) \/ PumpReply(f) \/ PumpTimeout(f) \/ PumpError(f) \/ PumpCloses(f)
      PROVE Counts'
  BY <1>1, <1>6, Zenon DEF PumpTop, PumpReply, PumpTimeout, PumpError, PumpCloses, tableVars
<1>7. ASSUME \/ Authenticate \/ ConnEnds \/ (\E k \in FlowKeys : Receive(k)) \/ Receiver
             \/ PacketWorker \/ CloseCancels \/ Closer \/ UNCHANGED vars
      PROVE Counts'
  BY <1>1, <1>7 DEF Authenticate, ConnEnds, Receive, Receiver, Enqueue, ReceiverExits, PacketWorker,
     TakePacket, WritePacket, PacketWorkerExits, CloseCancels, Closer, CloseMarks, CloseReturns,
     tableVars, vars
<1>8. QED
  BY <1>2, <1>3, <1>4, <1>5, <1>6, <1>7, Zenon DEF Next, Worker, Dial, Pump

\* The counts hold in every reachable state.
LEMMA Counting == Spec => []Counts
<1>1. Init => Counts
  <2> SUFFICES ASSUME Init PROVE Counts
    BY Zenon
  <2>1. Live = {} /\ pending = {} /\ gauge = 0
    BY DEF Init, Live
  <2>2. QED
    BY <2>1, FS_EmptySet, NatAssumption DEF Counts
<1>2. QED
  BY <1>1, CountsStep, Structure, PTL DEF Spec

-----------------------------------------------------------------------------
\* MaxFlows bounds the flows and the dials together, the metric counts the flows, and no key is
\* ever dialled twice at a time, although send gives up the lock for the dial: for any number of
\* flow keys and workers.
THEOREM Table == Spec => []TableExact
<1>1. Struct /\ Counts => TableExact
  <2> SUFFICES ASSUME Struct, Counts PROVE TableExact
    OBVIOUS
  <2>1. TypeOK /\ Keys
    BY Zenon DEF Struct
  <2>2. pending = {wkey[w] : w \in Dialing}
    BY <2>1 DEF Keys
  <2>3. pending \cap Live = {}
    BY <2>1 DEF Keys, Live
  <2>4. QED
    BY <2>1, <2>2, <2>3 DEF Counts, Keys, TableExact
<1>2. QED
  BY <1>1, Structure, Counting, PTL

\* No socket is ever without an owner that will close it, and none is open when close returns.
THEOREM Sockets == Spec => []SocketOwned
<1>1. Struct /\ Counts => SocketOwned
  <2> SUFFICES ASSUME Struct, Counts PROVE SocketOwned
    BY Zenon
  <2>1. Shapes /\ Keys /\ Objects /\ Joined
    BY Zenon DEF Struct, TypeOK, Shapes
  <2>2. ASSUME closing = "done"
        PROVE Live = {} /\ pending = {} /\ (\A f \in Flows : ~sock[f])
    BY <2>1, <2>2, SMTT(30) DEF Joined, Shapes, Keys, Objects, Live, Dialing
  <2>3. closing = "done" => gauge = 0
    BY <2>2, FS_EmptySet, Zenon DEF Counts
  <2>4. QED
    BY <2>1, <2>2, <2>3 DEF Objects, SocketOwned, Live
<1>2. QED
  BY <1>1, Structure, Counting, PTL

\* Nothing that arrives before authentication is queued, written or dialled.
THEOREM Gated == Spec => []NothingBeforeAuth
<1>1. Struct => NothingBeforeAuth
  <2> SUFFICES ASSUME Struct, ~authed PROVE NothingBeforeAuth
    BY DEF NothingBeforeAuth
  <2>1. Gate /\ Keys
    BY Zenon DEF Struct
  <2>2. Live = {} /\ pending = {}
    BY <2>1 DEF Gate, Keys, Live, Dialing
  <2>3. QED
    BY <2>1, <2>2, Zenon DEF Gate, NothingBeforeAuth
<1>2. QED
  BY <1>1, Structure, PTL

=============================================================================
