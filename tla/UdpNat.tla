------------------------------- MODULE UdpNat -------------------------------
(***************************************************************************)
(* The UDP NAT of one tunnel connection (server/udp.go): the DATAGRAM      *)
(* receive loop, the admission queue with its dialling workers, the queue  *)
(* of existing flows with its single worker, one reply pump per flow, and  *)
(* close. A datagram is abstracted to its flow key (session and target).   *)
(* Everything between Lock and Unlock of n.mu is one action.               *)
(***************************************************************************)
EXTENDS Integers, Sequences, FiniteSets

CONSTANTS
    FlowKeys,          \* flow keys: session id and target
    Flows,             \* names of udpFlow objects; a name is reused once nothing refers to it
    Workers,           \* the dialling workers
    None,              \* no flow, no key
    MaxFlows,          \* opt.MaxFlows
    QueueSize,         \* opt.QueueSize
    NewFlowsPerSecond  \* opt.NewFlowsPerSecond: the capacity of the token bucket

ASSUME NatAssumption ==
    /\ None \notin FlowKeys \cup Flows
    /\ IsFiniteSet(FlowKeys)
    /\ MaxFlows \in Nat \ {0}
    /\ QueueSize \in Nat \ {0}
    /\ NewFlowsPerSecond \in Nat \ {0}

VARIABLES
    authed,   \* n.auth is closed
    ctxDone,  \* n.ctx is done: the connection ended or close cancelled it
    closing,  \* progress of close
    closed,   \* n.closed
    rx,       \* the receive loop: the datagram it holds and the flow it found
    queue,    \* n.queue: keys of datagrams without a flow
    packets,  \* n.packets: flows of datagrams with one
    flows,    \* n.flows
    pending,  \* n.pending
    tokens,   \* n.tokens, in whole tokens
    gauge,    \* the active-flow metric
    wpc,      \* progress of each worker
    wkey,     \* the key a worker is busy with
    wflow,    \* the flow whose socket a worker has dialled
    pw,       \* the packet worker: None, the flow it writes to, or "done"
    pump,     \* progress of pumpReplies for each flow
    sock,     \* the flow's socket is open
    fresh     \* lastSeen moved since the pump set its read deadline

rxVars == <<rx, queue, packets>>
tableVars == <<flows, pending, tokens, gauge>>
workerVars == <<wpc, wkey, wflow>>
flowVars == <<pump, sock, fresh>>
lifeVars == <<authed, ctxDone, closing, closed>>
vars == <<authed, ctxDone, closing, closed, rx, queue, packets, flows, pending, tokens, gauge,
          wpc, wkey, wflow, pw, pump, sock, fresh>>

Idle == [key |-> None, flow |-> None]
RxDone == [key |-> None, flow |-> "done"]

\* Keys that have a flow.
Live == {k \in FlowKeys : flows[k] # None}

\* Nothing refers to the flow object any more.
Unused(f) ==
    /\ pump[f] = "none"
    /\ rx.flow # f /\ pw # f
    /\ \A i \in DOMAIN packets : packets[i] # f
    /\ \A w \in Workers : wflow[w] # f

-----------------------------------------------------------------------------
Init ==
    /\ authed = FALSE
    /\ ctxDone = FALSE
    /\ closing = "no"
    /\ closed = FALSE
    /\ rx = Idle
    /\ queue = <<>>
    /\ packets = <<>>
    /\ flows = [k \in FlowKeys |-> None]
    /\ pending = {}
    /\ tokens = NewFlowsPerSecond
    /\ gauge = 0
    /\ wpc = [w \in Workers |-> "idle"]
    /\ wkey = [w \in Workers |-> None]
    /\ wflow = [w \in Workers |-> None]
    /\ pw = None
    /\ pump = [f \in Flows |-> "none"]
    /\ sock = [f \in Flows |-> FALSE]
    /\ fresh = [f \in Flows |-> FALSE]

Authenticate ==
    /\ ~authed
    /\ authed' = TRUE
    /\ UNCHANGED <<ctxDone, closing, closed, rxVars, tableVars, workerVars, pw, flowVars>>

\* The connection ends.
ConnEnds ==
    /\ ~ctxDone
    /\ ctxDone' = TRUE
    /\ UNCHANGED <<authed, closing, closed, rxVars, tableVars, workerVars, pw, flowVars>>

-----------------------------------------------------------------------------
\* serveDatagrams and forward

\* Mutant of Receive: datagrams are queued before authentication.
ReceiveEarly(k) ==
    /\ rx = Idle
    /\ ~ctxDone
    /\ rx' = [key |-> k, flow |-> flows[k]]
    /\ UNCHANGED <<lifeVars, queue, packets, tableVars, workerVars, pw, flowVars>>

\* A datagram that arrives before authentication, or is too large or malformed, is dropped
\* and changes nothing. Otherwise forward looks its flow up under the lock ...
Receive(k) ==
    /\ rx = Idle
    /\ authed
    /\ ~ctxDone
    /\ rx' = [key |-> k, flow |-> flows[k]]
    /\ UNCHANGED <<lifeVars, queue, packets, tableVars, workerVars, pw, flowVars>>

\* ... and queues it without waiting: a full queue drops it.
Enqueue ==
    /\ rx.key # None
    /\ rx' = Idle
    /\ IF rx.flow # None
       THEN /\ packets' = IF Len(packets) < QueueSize THEN Append(packets, rx.flow) ELSE packets
            /\ UNCHANGED queue
       ELSE /\ queue' = IF Len(queue) < QueueSize THEN Append(queue, rx.key) ELSE queue
            /\ UNCHANGED packets
    /\ UNCHANGED <<lifeVars, tableVars, workerVars, pw, flowVars>>

ReceiverExits ==
    /\ rx = Idle
    /\ ctxDone
    /\ rx' = RxDone
    /\ UNCHANGED <<lifeVars, queue, packets, tableVars, workerVars, pw, flowVars>>

-----------------------------------------------------------------------------
\* packetWorker

\* Mutant of TakePacket: existing flows need an idle dialling worker.
TakePacketSharing ==
    /\ pw = None
    /\ \E w \in Workers : wpc[w] = "idle"
    /\ packets # <<>>
    /\ packets' = Tail(packets)
    /\ pw' = IF ctxDone THEN None ELSE Head(packets)
    /\ UNCHANGED <<lifeVars, rx, queue, tableVars, workerVars, flowVars>>

\* A packet taken after the context ended is discarded.
TakePacket ==
    /\ pw = None
    /\ packets # <<>>
    /\ packets' = Tail(packets)
    /\ pw' = IF ctxDone THEN None ELSE Head(packets)
    /\ UNCHANGED <<lifeVars, rx, queue, tableVars, workerVars, flowVars>>

\* write refreshes lastSeen unless the NAT is closed; the socket may be closed by then.
WritePacket ==
    /\ pw \in Flows
    /\ fresh' = IF closed THEN fresh ELSE [fresh EXCEPT ![pw] = pump[pw] # "none"]
    /\ pw' = None
    /\ UNCHANGED <<lifeVars, rxVars, tableVars, workerVars, pump, sock>>

PacketWorkerExits ==
    /\ pw = None
    /\ ctxDone
    /\ pw' = "done"
    /\ UNCHANGED <<lifeVars, rxVars, tableVars, workerVars, flowVars>>

-----------------------------------------------------------------------------
\* worker and send

TakeDatagram(w) ==
    /\ wpc[w] = "idle"
    /\ queue # <<>>
    /\ queue' = Tail(queue)
    /\ IF ctxDone \/ ~authed
       THEN UNCHANGED <<wpc, wkey>>
       ELSE /\ wpc' = [wpc EXCEPT ![w] = "send"]
            /\ wkey' = [wkey EXCEPT ![w] = Head(queue)]
    /\ UNCHANGED <<lifeVars, rx, packets, tableVars, wflow, pw, flowVars>>

\* The worker is done with its datagram.
Finish(w) ==
    /\ wpc' = [wpc EXCEPT ![w] = "idle"]
    /\ wkey' = [wkey EXCEPT ![w] = None]
    /\ wflow' = [wflow EXCEPT ![w] = None]

\* A flow appeared in the meantime: the datagram is written to it.
SendExisting(w) ==
    /\ wpc[w] = "send"
    /\ ~closed
    /\ flows[wkey[w]] # None
    /\ Finish(w)
    /\ fresh' = [fresh EXCEPT ![flows[wkey[w]]] = TRUE]
    /\ UNCHANGED <<lifeVars, rxVars, tableVars, pw, pump, sock>>

\* Mutant of Refused: dials in progress do not count.
RefusedPendingFree(k) == closed \/ k \in pending \/ Cardinality(Live) >= MaxFlows

\* The NAT is closed, the key is being dialled by another worker, or the table is full.
Refused(k) == closed \/ k \in pending \/ Cardinality(Live) + Cardinality(pending) >= MaxFlows

SendRefused(w) ==
    /\ wpc[w] = "send"
    /\ closed \/ flows[wkey[w]] = None
    /\ Refused(wkey[w])
    /\ Finish(w)
    /\ UNCHANGED <<lifeVars, rxVars, tableVars, pw, flowVars>>

\* A new flow takes a token from the bucket, which time has refilled to t.
SendNew(w, t) ==
    /\ wpc[w] = "send"
    /\ flows[wkey[w]] = None
    /\ ~Refused(wkey[w])
    /\ IF t < 1
       THEN /\ Finish(w)
            /\ tokens' = t
            /\ UNCHANGED pending
       ELSE /\ wpc' = [wpc EXCEPT ![w] = "dial"]
            /\ tokens' = t - 1
            /\ pending' = pending \cup {wkey[w]}
            /\ UNCHANGED <<wkey, wflow>>
    /\ UNCHANGED <<lifeVars, rxVars, flows, gauge, pw, flowVars>>

\* DialContext, outside the lock, opens a socket ...
DialSucceeds(w, f) ==
    /\ wpc[w] = "dial"
    /\ Unused(f)
    /\ wpc' = [wpc EXCEPT ![w] = "dialed"]
    /\ wflow' = [wflow EXCEPT ![w] = f]
    /\ sock' = [sock EXCEPT ![f] = TRUE]
    /\ UNCHANGED <<lifeVars, rxVars, tableVars, wkey, pw, pump, fresh>>

\* ... or fails: denied, no capacity, no name, or the context ended.
DialFails(w) ==
    /\ wpc[w] = "dial"
    /\ pending' = pending \ {wkey[w]}
    /\ Finish(w)
    /\ UNCHANGED <<lifeVars, rxVars, flows, tokens, gauge, pw, flowVars>>

\* Mutant of Insert: a socket dialled while the NAT closed stays open.
InsertLeaks(w) ==
    /\ wpc[w] = "dialed"
    /\ pending' = pending \ {wkey[w]}
    /\ IF closed
       THEN UNCHANGED <<flows, gauge, pump, fresh>>
       ELSE /\ flows' = [flows EXCEPT ![wkey[w]] = wflow[w]]
            /\ gauge' = gauge + 1
            /\ pump' = [pump EXCEPT ![wflow[w]] = "top"]
            /\ fresh' = [fresh EXCEPT ![wflow[w]] = TRUE]
    /\ Finish(w)
    /\ UNCHANGED <<lifeVars, rxVars, sock, tokens, pw>>

\* Under the lock again: the flow enters the table and its pump starts, unless the NAT
\* closed during the dial.
Insert(w) ==
    /\ wpc[w] = "dialed"
    /\ pending' = pending \ {wkey[w]}
    /\ IF closed
       THEN /\ sock' = [sock EXCEPT ![wflow[w]] = FALSE]
            /\ UNCHANGED <<flows, gauge, pump, fresh>>
       ELSE /\ flows' = [flows EXCEPT ![wkey[w]] = wflow[w]]
            /\ gauge' = gauge + 1
            /\ pump' = [pump EXCEPT ![wflow[w]] = "top"]
            /\ fresh' = [fresh EXCEPT ![wflow[w]] = TRUE]
            /\ UNCHANGED sock
    /\ Finish(w)
    /\ UNCHANGED <<lifeVars, rxVars, tokens, pw>>

WorkerExits(w) ==
    /\ wpc[w] = "idle"
    /\ ctxDone
    /\ wpc' = [wpc EXCEPT ![w] = "done"]
    /\ UNCHANGED <<lifeVars, rxVars, tableVars, wkey, wflow, pw, flowVars>>

-----------------------------------------------------------------------------
\* pumpReplies

\* The top of the loop sets the read deadline from lastSeen, or leaves.
PumpTop(f) ==
    /\ pump[f] = "top"
    /\ pump' = [pump EXCEPT ![f] = IF closed \/ ctxDone THEN "exit" ELSE "read"]
    /\ fresh' = [fresh EXCEPT ![f] = FALSE]
    /\ UNCHANGED <<lifeVars, rxVars, tableVars, workerVars, pw, sock>>

\* A reply is sent back, or an oversized one dropped; the loop continues.
PumpReply(f) ==
    /\ pump[f] = "read"
    /\ sock[f]
    /\ pump' = [pump EXCEPT ![f] = "top"]
    /\ UNCHANGED <<lifeVars, rxVars, tableVars, workerVars, pw, sock, fresh>>

\* The read deadline passes: the flow is kept if it was used since, and retired otherwise.
PumpTimeout(f) ==
    /\ pump[f] = "read"
    /\ sock[f]
    /\ pump' = [pump EXCEPT ![f] = IF fresh[f] /\ ~ctxDone THEN "top" ELSE "exit"]
    /\ UNCHANGED <<lifeVars, rxVars, tableVars, workerVars, pw, sock, fresh>>

\* The socket was closed, or the read failed for good.
PumpError(f) ==
    /\ pump[f] = "read"
    /\ pump' = [pump EXCEPT ![f] = "exit"]
    /\ UNCHANGED <<lifeVars, rxVars, tableVars, workerVars, pw, sock, fresh>>

\* The deferred cleanup closes the socket ...
PumpCloses(f) ==
    /\ pump[f] = "exit"
    /\ sock' = [sock EXCEPT ![f] = FALSE]
    /\ pump' = [pump EXCEPT ![f] = "delete"]
    /\ UNCHANGED <<lifeVars, rxVars, tableVars, workerVars, pw, fresh>>

\* ... and then removes the flow from the table under the lock.
PumpDeletes(f) ==
    /\ pump[f] = "delete"
    /\ pump' = [pump EXCEPT ![f] = "none"]
    /\ fresh' = [fresh EXCEPT ![f] = FALSE]
    /\ flows' = [k \in FlowKeys |-> IF flows[k] = f THEN None ELSE flows[k]]
    /\ gauge' = IF \E k \in FlowKeys : flows[k] = f THEN gauge - 1 ELSE gauge
    /\ UNCHANGED <<lifeVars, rxVars, pending, tokens, workerVars, pw, sock>>

-----------------------------------------------------------------------------
\* close, called by the deferred cleanup of handleConn

CloseCancels ==
    /\ closing = "no"
    /\ closing' = "mark"
    /\ ctxDone' = TRUE
    /\ UNCHANGED <<authed, closed, rxVars, tableVars, workerVars, pw, flowVars>>

CloseMarks ==
    /\ closing = "mark"
    /\ closing' = "wait"
    /\ closed' = TRUE
    /\ sock' = [f \in Flows |-> sock[f] /\ \A k \in FlowKeys : flows[k] # f]
    /\ UNCHANGED <<authed, ctxDone, rxVars, tableVars, workerVars, pw, pump, fresh>>

\* wg.Wait: the workers, the packet worker and every pump have returned.
CloseReturns ==
    /\ closing = "wait"
    /\ pw = "done"
    /\ \A w \in Workers : wpc[w] = "done"
    /\ \A f \in Flows : pump[f] = "none"
    /\ closing' = "done"
    /\ UNCHANGED <<authed, ctxDone, closed, rxVars, tableVars, workerVars, pw, flowVars>>

-----------------------------------------------------------------------------
Receiver == Enqueue \/ ReceiverExits
PacketWorker == TakePacket \/ WritePacket \/ PacketWorkerExits
Worker(w) ==
    \/ TakeDatagram(w) \/ SendExisting(w) \/ SendRefused(w)
    \/ (\E t \in tokens..NewFlowsPerSecond : SendNew(w, t))
    \/ Insert(w) \/ WorkerExits(w)
Dial(w) == DialFails(w) \/ \E f \in Flows : DialSucceeds(w, f)
Pump(f) ==
    \/ PumpTop(f) \/ PumpReply(f) \/ PumpTimeout(f) \/ PumpError(f)
    \/ PumpCloses(f) \/ PumpDeletes(f)
Closer == CloseMarks \/ CloseReturns

Next ==
    \/ Authenticate \/ ConnEnds \/ (\E k \in FlowKeys : Receive(k)) \/ Receiver
    \/ PacketWorker
    \/ (\E w \in Workers : Worker(w) \/ Dial(w))
    \/ (\E f \in Flows : Pump(f))
    \/ CloseCancels \/ Closer

Spec == Init /\ [][Next]_vars

\* Goroutines run and timers fire. A dial is only assumed to end once its context is done, and
\* close to be called once the connection ended. The receive loop owes nothing, and queues at most
\* the datagram it holds after the context is done, so that a worker which keeps choosing its
\* queue over the context still gets to its exit.
Fairness ==
    /\ WF_vars(PacketWorker)
    /\ \A w \in Workers : WF_vars(Worker(w) \/ (Dial(w) /\ ctxDone))
    /\ \A f \in Flows : WF_vars(Pump(f))
    /\ WF_vars((CloseCancels /\ ctxDone) \/ Closer)

FairSpec == Spec /\ Fairness

-----------------------------------------------------------------------------
\* Properties

Dialing == {w \in Workers : wpc[w] \in {"dial", "dialed"}}

\* Every variable keeps its type, and the queues and the bucket their capacity.
TypeOK ==
    /\ authed \in BOOLEAN /\ ctxDone \in BOOLEAN /\ closed \in BOOLEAN
    /\ closing \in {"no", "mark", "wait", "done"}
    /\ rx \in [key : FlowKeys \cup {None}, flow : Flows \cup {None, "done"}]
    /\ queue \in Seq(FlowKeys) /\ Len(queue) <= QueueSize
    /\ packets \in Seq(Flows) /\ Len(packets) <= QueueSize
    /\ flows \in [FlowKeys -> Flows \cup {None}]
    /\ pending \in SUBSET FlowKeys
    /\ tokens \in 0..NewFlowsPerSecond
    /\ gauge \in Int
    /\ wpc \in [Workers -> {"idle", "send", "dial", "dialed", "done"}]
    /\ wkey \in [Workers -> FlowKeys \cup {None}]
    /\ wflow \in [Workers -> Flows \cup {None}]
    /\ pw \in Flows \cup {None, "done"}
    /\ pump \in [Flows -> {"none", "top", "read", "exit", "delete"}]
    /\ sock \in [Flows -> BOOLEAN]
    /\ fresh \in [Flows -> BOOLEAN]

\* Flows and dials in progress together never exceed MaxFlows, although the dial runs outside
\* the lock; the active-flow metric counts the flows exactly, whoever removes them; and the
\* pending set is exactly the keys being dialled, each by one worker and without a flow, so that
\* datagrams racing for one key never open two sockets for it.
TableExact ==
    /\ TypeOK
    /\ Cardinality(Live) + Cardinality(pending) <= MaxFlows
    /\ gauge = Cardinality(Live)
    /\ pending = {wkey[w] : w \in Dialing}
    /\ \A v, w \in Dialing : wkey[v] = wkey[w] => v = w
    /\ pending \cap Live = {}

\* An open socket belongs to the worker that dialled it or to a running pump, which will
\* close it; a flow in the table always has a running pump, which will remove it. When close
\* returns, no socket is open, no flow or dial is left and the metric is zero, whatever was being
\* dialled when it was called.
SocketOwned ==
    /\ \A f \in Flows : sock[f] => pump[f] # "none" \/ \E w \in Workers : wpc[w] = "dialed" /\ wflow[w] = f
    /\ \A k \in FlowKeys : flows[k] # None => pump[flows[k]] # "none"
    /\ closing = "done" => /\ Live \cup pending = {}
                           /\ \A f \in Flows : ~sock[f]
                           /\ gauge = 0

\* "it must never be queued for replay after authentication": nothing is queued, written
\* or dialled before the connection is authenticated.
NothingBeforeAuth ==
    ~authed => /\ rx.key = None /\ queue = <<>> /\ packets = <<>>
               /\ Live \cup pending = {}

\* "Existing flows have a separate queue so slow DNS admissions never block them": a queue of
\* datagrams for existing flows that is full drains, also when every worker hangs in a dial. Once
\* the connection has ended, close gets past all of its workers and returns.
ServedOrClosed ==
    (Len(packets) = QueueSize \/ ctxDone)
        ~> (closing = "done" \/ (Len(packets) < QueueSize /\ ~ctxDone))

=============================================================================
