------------------------- MODULE TunnelClientProofs -------------------------
(***************************************************************************)
(* The tunnel client, for any number of callers, tunnels and sessions and  *)
(* any limits: the budgets, the wakeups of getConn, and the end of the UDP *)
(* sessions. The counters are bounded by what Budget promises.             *)
(***************************************************************************)
EXTENDS TunnelClient, FiniteSetTheorems, TLAPS

\* The types, without the bounds of the counters.
Types ==
    /\ ctxDone \in BOOLEAN
    /\ run \in {"dial", "up", "clear", "close", "join", "backoff", "stop", "stopudp", "stopped"}
    /\ current \in Tunnels \cup {NoTunnel}
    /\ live \in Tunnels \cup {NoTunnel}
    /\ stopped \in BOOLEAN
    /\ alive \in [Tunnels -> BOOLEAN]
    /\ dispatch \in {"none", "running", "done"}
    /\ session \in [Sessions -> {"none", "checked", "open", "stopped"}]
    /\ routes \subseteq Sessions
    /\ inbox \in [Sessions -> 0..RecvSize]
    /\ dest \subseteq Sessions
    /\ pc \in [Callers -> {"idle", "leased", "look", "check", "wait", "connect", "codec", "reply",
                           "return", "stream", "fail", "release"}]
    /\ tun \in [Callers -> Tunnels \cup {NoTunnel}]
    /\ chan \in [Callers -> {"none", "ready", "closed"}]
    /\ codec \in [Callers -> BOOLEAN]
    /\ released \in [Callers -> BOOLEAN]

\* Who may hold a codec, and whose release function may have run.
Holders ==
    \A o \in Callers :
        /\ codec[o] => pc[o] \in {"reply", "return", "stream", "fail", "release"}
        /\ released[o] => pc[o] \in {"return", "stream"}

\* What a captured ready channel that is still open says: neither setConn nor stop has run since.
Captured ==
    \A o \in Callers : chan[o] = "ready" =>
        /\ ~stopped
        /\ pc[o] = "check" => live \in {NoTunnel, tun[o]}
        /\ pc[o] = "wait" => live = NoTunnel \/ ~alive[live]

\* The sessions against the end of Run: stopped is set before the sessions are stopped, and an
\* open session is registered.
Ending ==
    /\ stopped <=> run \in {"stopudp", "stopped"}
    /\ \A u \in Sessions : session[u] = "open" => u \in routes
    /\ run = "stopped" => routes = {} /\ \A u \in Sessions : session[u] # "checked"

IInv == Types /\ Holders /\ Captured /\ Ending

-----------------------------------------------------------------------------
\* A client whose Run has just begun satisfies the inductive invariant.
LEMMA InitInv == Init => IInv
<1> SUFFICES ASSUME Init PROVE IInv
    OBVIOUS
<1> USE ClientAssumption DEF Init
<1>1. Types
  <2>1. ctxDone \in BOOLEAN /\ stopped \in BOOLEAN
    BY Zenon
  <2>2. inbox \in [Sessions -> 0..RecvSize]
    OBVIOUS
  <2>3. QED
    BY <2>1, <2>2 DEF Types
<1>2. Holders /\ Captured /\ Ending
  BY DEF Holders, Captured, Ending
<1>3. QED
  BY <1>1, <1>2, Zenon DEF IInv

\* The steps of Run, of the connections and of the context
LEMMA LoopInv ==
    ASSUME IInv,
           \/ Cancel \/ Loop \/ HeartbeatEnds \/ DispatcherExits \/ Finished
           \/ \E t \in Tunnels : Dies(t) \/ Connects(t)
    PROVE  IInv'
<1> USE DEF runVars, callVars, budgets, udpVars, IInv, Types, Holders, Captured, Ending
<1>1. CASE Cancel
  BY <1>1, Zenon DEF Cancel
<1>2. CASE DialFails \/ HeartbeatEnds \/ BackoffEnds
  BY <1>2 DEF DialFails, HeartbeatEnds, BackoffEnds
<1>3. CASE ClearConn
  BY <1>3 DEF ClearConn
<1>4. CASE CloseConn
  BY <1>4, ZenonT(40) DEF CloseConn
<1>5. CASE DispatcherExits \/ JoinDispatcher
  BY <1>5 DEF DispatcherExits, JoinDispatcher
<1>6. CASE Stop
  BY <1>6, Zenon DEF Stop, CloseReady
<1>7. CASE StopUDP
  BY <1>7, Zenon DEF StopUDP, UdpMuFree
<1>8. ASSUME NEW t \in Tunnels, Dies(t) PROVE IInv'
  BY <1>8 DEF Dies
<1>9. ASSUME NEW t \in Tunnels, Connects(t) PROVE IInv'
  BY <1>9, Zenon DEF Connects, CloseReady
<1>10. CASE Finished
  BY <1>10 DEF Finished, vars
<1> HIDE DEF IInv
<1>11. QED
  BY <1>1, <1>2, <1>3, <1>4, <1>5, <1>6, <1>7, <1>8, <1>9, <1>10, Zenon DEF Loop

\* The steps of OpenTCP and of the streams
LEMMA CallInv ==
    ASSUME IInv, NEW o \in Callers, Open(o) \/ Call(o) \/ ReleaseHook(o) \/ CloseStream(o)
    PROVE  IInv'
<1> USE DEF runVars, callVars, budgets, udpVars, IInv, Types, Holders, Captured, Ending, Goto
<1>1. CASE Open(o) \/ TakePending(o)
  BY <1>1 DEF Open, TakePending
<1>2. CASE Look(o)
  BY <1>2 DEF Look
<1>3. CASE Check(o)
  BY <1>3 DEF Check
<1>4. CASE Wake(o) \/ StreamOpens(o)
  BY <1>4 DEF Wake, StreamOpens
<1>5. ASSUME NEW b \in BOOLEAN, Requests(o, b) PROVE IInv'
  BY <1>5, ZenonT(40) DEF Requests
<1>6. ASSUME NEW b \in BOOLEAN, HandOff(o, b) PROVE IInv'
  <2>1. codec' = [codec EXCEPT ![o] = b] /\ pc' = [pc EXCEPT ![o] = "return"]
    BY <1>6, Zenon DEF HandOff
  <2>2. codec' \in [Callers -> BOOLEAN]
    BY <2>1, Zenon
  <2>3. \A p \in Callers \ {o} : codec'[p] = codec[p] /\ pc'[p] = pc[p]
    BY <2>1, Zenon
  <2>4. pc'[o] = "return"
    BY <2>1, Zenon
  <2>5. UNCHANGED <<ctxDone, runVars, alive, tun, chan, released, udpVars>>
    BY <1>6 DEF HandOff
  <2>6. pc' \in [Callers -> {"idle", "leased", "look", "check", "wait", "connect", "codec",
                              "reply", "return", "stream", "fail", "release"}]
    BY <2>1, Zenon
  <2>7. Holders'
    BY <2>3, <2>4, <2>5, Zenon
  <2>8. QED
    BY <2>2, <2>3, <2>4, <2>5, <2>6, <2>7
<1>7. CASE CallFails(o) \/ FreePending(o)
  BY <1>7 DEF CallFails, FreePending
<1>8. CASE ReleaseLeases(o) \/ CloseStream(o)
  <2>1. Forget(o) /\ UNCHANGED <<ctxDone, runVars, alive, udpVars>>
    BY <1>8, Zenon DEF ReleaseLeases, CloseStream
  <2>2. QED
    BY <2>1 DEF Forget
<1>9. CASE ReleaseHook(o)
  BY <1>9 DEF ReleaseHook
<1> HIDE DEF IInv
<1>10. QED
  BY <1>1, <1>2, <1>3, <1>4, <1>5, <1>6, <1>7, <1>8, <1>9, Zenon DEF Call

\* The steps of the UDP sessions
LEMMA SessionInv ==
    ASSUME IInv, NEW u \in Sessions,
           \/ NewSession(u) \/ Register(u) \/ CloseSession(u) \/ Lookup(u) \/ Deliver(u) \/ Recv(u)
    PROVE  IInv'
<1> USE ClientAssumption
        DEF runVars, callVars, budgets, udpVars, IInv, Types, Holders, Captured, Ending
<1>1. CASE NewSession(u) \/ Register(u)
  BY <1>1 DEF NewSession, Register
<1>2. CASE CloseSession(u)
  BY <1>2 DEF CloseSession
<1>3. CASE Lookup(u)
  BY <1>3, Zenon DEF Lookup
<1>4. CASE Deliver(u)
  BY <1>4 DEF Deliver
<1>5. CASE Recv(u)
  BY <1>5 DEF Recv
<1> HIDE DEF IInv
<1>6. QED
  BY <1>1, <1>2, <1>3, <1>4, <1>5, Zenon

\* Every step of the client keeps it: Run and the tunnels, the callers, the UDP sessions.
LEMMA NextInv == IInv /\ [Next]_vars => IInv'
<1>1. IInv /\ UNCHANGED vars => IInv'
  BY DEF IInv, Types, Holders, Captured, Ending, vars
<1>2. QED
  BY <1>1, LoopInv, CallInv, SessionInv, Zenon DEF Next

-----------------------------------------------------------------------------
\* The budgets: which leases a step takes or gives back

\* Open takes a stream lease; ReleaseLeases, the hook and Close give it back, whichever is first.
LEMMA ActiveStep == IInv /\ [Next]_vars => [Active!Next]_(Active!vars)
<1> SUFFICES ASSUME IInv, [Next]_vars PROVE [Active!Next]_(Active!vars)
    OBVIOUS
<1> USE DEF HoldsActive, Active!vars, runVars, callVars, budgets, udpVars, IInv, Types, Holders, Goto
<1>1. ASSUME NEW o \in Callers, Open(o) PROVE Active!Next
  <2>1. Active!TryAcquire(o)
    BY <1>1 DEF Open, Active!TryAcquire
  <2>2. QED
    BY <2>1, Zenon DEF Active!Next
<1>2. ASSUME NEW o \in Callers, ReleaseLeases(o) \/ ReleaseHook(o) \/ (CloseStream(o) /\ ~released[o])
      PROVE Active!Next
  <2>1. Active!Release(o)
    BY <1>2 DEF ReleaseLeases, ReleaseHook, CloseStream, Forget, Active!Release
  <2>2. QED
    BY <2>1, Zenon DEF Active!Next
<1>3. ASSUME NEW o \in Callers, CloseStream(o), released[o]
      PROVE UNCHANGED Active!vars
  BY <1>3, Zenon DEF CloseStream, Forget
<1>4. ASSUME NEW o \in Callers, Call(o), ~ReleaseLeases(o)
      PROVE UNCHANGED Active!vars
  BY <1>4 DEF Call, TakePending, Look, Check, Wake, StreamOpens, Requests, HandOff, CallFails,
              FreePending
<1>5. CASE \/ Cancel \/ Loop \/ HeartbeatEnds \/ DispatcherExits \/ Finished \/ UNCHANGED vars
           \/ \E t \in Tunnels : Dies(t) \/ Connects(t)
  <2>1. CASE Loop
    BY <2>1, Zenon DEF Loop, DialFails, ClearConn, CloseConn, JoinDispatcher, BackoffEnds, Stop, StopUDP
  <2>2. CASE Cancel \/ HeartbeatEnds \/ DispatcherExits \/ Finished \/ UNCHANGED vars
    BY <2>2 DEF Cancel, HeartbeatEnds, DispatcherExits, Finished, vars
  <2>3. CASE \E t \in Tunnels : Dies(t) \/ Connects(t)
    BY <2>3, Zenon DEF Dies, Connects
  <2> QED
    BY <1>5, <2>1, <2>2, <2>3, Zenon
<1>6. ASSUME NEW u \in Sessions,
             \/ NewSession(u) \/ Register(u) \/ CloseSession(u) \/ Lookup(u) \/ Deliver(u) \/ Recv(u)
      PROVE UNCHANGED Active!vars
  BY <1>6, Zenon DEF NewSession, Register, CloseSession, Lookup, Deliver, Recv
<1> HIDE DEF Active!vars, IInv
<1>7. QED
  BY <1>1, <1>2, <1>3, <1>4, <1>5, <1>6, Zenon DEF Next

\* Requests takes a codec; a declined one, a failed call, the hook and Close give it back.
LEMMA CodecStep == IInv /\ [Next]_vars => [Codecs!Next]_(Codecs!vars)
<1> SUFFICES ASSUME IInv, [Next]_vars PROVE [Codecs!Next]_(Codecs!vars)
    OBVIOUS
<1> USE DEF HoldsCodec, Codecs!vars, runVars, callVars, budgets, udpVars, Goto
<1>1. ASSUME NEW o \in Callers, codec[o], codecs' = codecs - 1, codec' = [codec EXCEPT ![o] = FALSE]
      PROVE Codecs!Next
  <2>1. HoldsCodec' = HoldsCodec \ {o} /\ o \in HoldsCodec
    BY <1>1, Zenon DEF IInv, Types
  <2>2. QED
    BY <1>1, <2>1, Zenon DEF Codecs!Release, Codecs!Next
<1>2. ASSUME NEW o \in Callers, ~codec[o], codecs' = codecs, codec' = [codec EXCEPT ![o] = FALSE]
      PROVE UNCHANGED Codecs!vars
  BY <1>2 DEF IInv, Types
<1>3. ASSUME NEW o \in Callers, ReleaseLeases(o) \/ ReleaseHook(o) \/ CloseStream(o)
      PROVE [Codecs!Next]_(Codecs!vars)
  <2>1. codec' = [codec EXCEPT ![o] = FALSE] /\ codecs' = IF codec[o] THEN codecs - 1 ELSE codecs
    BY <1>3, Zenon DEF ReleaseLeases, ReleaseHook, CloseStream, Forget
  <2>2. QED
    BY <2>1, <1>1, <1>2, Zenon
<1>4. ASSUME NEW o \in Callers, NEW b \in BOOLEAN, Requests(o, b)
      PROVE [Codecs!Next]_(Codecs!vars)
  <2>1. CASE b /\ Compression /\ codecs < MaxCompressedStreams
    <3>1. codecs' = codecs + 1 /\ codec' = [codec EXCEPT ![o] = TRUE]
      BY <1>4, <2>1, Zenon DEF Requests
    <3>2. ~codec[o] /\ codec \in [Callers -> BOOLEAN]
      BY <1>4 DEF Requests, IInv, Types, Holders
    <3>3. o \notin HoldsCodec /\ HoldsCodec' = HoldsCodec \cup {o}
      BY <3>1, <3>2, Zenon
    <3>4. QED
      BY <2>1, <3>1, <3>3, Zenon DEF Codecs!TryAcquire, Codecs!Next
  <2>2. CASE ~(b /\ Compression /\ codecs < MaxCompressedStreams)
    BY <1>4, <2>2, Zenon DEF Requests
  <2>3. QED
    BY <2>1, <2>2, Zenon
<1>5. ASSUME NEW o \in Callers, NEW b \in BOOLEAN, HandOff(o, b)
      PROVE [Codecs!Next]_(Codecs!vars)
  <2>1. codec' = [codec EXCEPT ![o] = b] /\ (b => codec[o])
        /\ codecs' = IF codec[o] /\ ~b THEN codecs - 1 ELSE codecs
    BY <1>5 DEF HandOff
  <2>2. CASE b
    <3>1. codec' = codec
      BY <2>1, <2>2 DEF IInv, Types
    <3>2. QED
      BY <2>1, <2>2, <3>1, Zenon
  <2>3. CASE ~b
    <3>1. b = FALSE
      BY <2>3, Zenon
    <3>2. QED
      BY <2>1, <3>1, <1>1, <1>2, Zenon
  <2>4. QED
    BY <2>2, <2>3, Zenon
<1>6. ASSUME NEW o \in Callers,
             \/ Open(o) \/ TakePending(o) \/ Look(o) \/ Check(o) \/ Wake(o) \/ StreamOpens(o)
             \/ CallFails(o) \/ FreePending(o)
      PROVE UNCHANGED Codecs!vars
  BY <1>6, Zenon DEF Open, TakePending, Look, Check, Wake, StreamOpens, CallFails, FreePending
<1>7. CASE \/ Cancel \/ Loop \/ HeartbeatEnds \/ DispatcherExits \/ Finished \/ UNCHANGED vars
           \/ \E t \in Tunnels : Dies(t) \/ Connects(t)
  BY <1>7, Zenon DEF Cancel, Loop, HeartbeatEnds, DispatcherExits, Finished, vars, DialFails, ClearConn,
    CloseConn, JoinDispatcher, BackoffEnds, Stop, StopUDP, Dies, Connects
<1>8. ASSUME NEW u \in Sessions,
             \/ NewSession(u) \/ Register(u) \/ CloseSession(u) \/ Lookup(u) \/ Deliver(u) \/ Recv(u)
      PROVE UNCHANGED Codecs!vars
  BY <1>8, Zenon DEF NewSession, Register, CloseSession, Lookup, Deliver, Recv
<1> HIDE DEF Codecs!vars, HoldsCodec
<1>9. QED
  BY <1>3, <1>4, <1>5, <1>6, <1>7, <1>8, Zenon DEF Next, Call

\* TakePending takes a slot of c.pending and FreePending gives it back.
LEMMA PendingStep == IInv /\ [Next]_vars => [Pending!Next]_(Pending!vars)
<1> SUFFICES ASSUME IInv, [Next]_vars PROVE [Pending!Next]_(Pending!vars)
    BY Zenon
<1> USE DEF HoldsPending, Pending!vars, runVars, callVars, budgets, udpVars, IInv, Types, Goto
<1>1. ASSUME NEW o \in Callers, TakePending(o) PROVE [Pending!Next]_(Pending!vars)
  <2>1. CASE pending < MaxPendingRequests
    <3>1. Pending!TryAcquire(o)
      BY <1>1, <2>1, Zenon DEF TakePending, Pending!TryAcquire
    <3>2. QED
      BY <3>1, Zenon DEF Pending!Next
  <2>2. CASE ~(pending < MaxPendingRequests)
    BY <1>1, <2>2, Zenon DEF TakePending
  <2>3. QED
    BY <2>1, <2>2, Zenon
<1>2. ASSUME NEW o \in Callers, FreePending(o) PROVE Pending!Next
  <2>1. Pending!Release(o)
    BY <1>2, Zenon DEF FreePending, Pending!Release
  <2>2. QED
    BY <2>1, Zenon DEF Pending!Next
<1>3. ASSUME NEW o \in Callers, Open(o) \/ ReleaseLeases(o) \/ ReleaseHook(o) \/ CloseStream(o)
      PROVE UNCHANGED Pending!vars
  BY <1>3, Zenon DEF Open, ReleaseLeases, ReleaseHook, CloseStream, Forget
<1>4. ASSUME NEW o \in Callers, Call(o), ~TakePending(o), ~FreePending(o), ~ReleaseLeases(o)
      PROVE UNCHANGED Pending!vars
  BY <1>4 DEF Call, Look, Check, Wake, StreamOpens, Requests, HandOff, CallFails
<1>5. CASE \/ Cancel \/ Loop \/ HeartbeatEnds \/ DispatcherExits \/ Finished \/ UNCHANGED vars
           \/ \E t \in Tunnels : Dies(t) \/ Connects(t)
  BY <1>5, Zenon DEF Cancel, Loop, HeartbeatEnds, DispatcherExits, Finished, vars, DialFails, ClearConn,
    CloseConn, JoinDispatcher, BackoffEnds, Stop, StopUDP, Dies, Connects
<1>6. ASSUME NEW u \in Sessions,
             \/ NewSession(u) \/ Register(u) \/ CloseSession(u) \/ Lookup(u) \/ Deliver(u) \/ Recv(u)
      PROVE UNCHANGED Pending!vars
  BY <1>6 DEF NewSession, Register, CloseSession, Lookup, Deliver, Recv
<1> HIDE DEF Pending!vars, IInv
<1>7. QED
  BY <1>1, <1>2, <1>3, <1>4, <1>5, <1>6, Zenon DEF Next

-----------------------------------------------------------------------------
\* The use that OpenTCP, its callers and the streams make of c.active, c.codecs and c.pending
\* implements Budget: no lease is lost or given back twice, although Close races with the hook on
\* the connection's context, for any number of callers and tunnels.
THEOREM Leases == Spec => UsesBudgets
<1>1. Init => Active!Init /\ Codecs!Init /\ Pending!Init
  BY DEF Init, Active!Init, Codecs!Init, Pending!Init, HoldsActive, HoldsCodec, HoldsPending
<1>2. QED
  BY <1>1, InitInv, NextInv, ActiveStep, CodecStep, PendingStep, PTL
     DEF Spec, UsesBudgets, Active!Spec, Codecs!Spec, Pending!Spec

-----------------------------------------------------------------------------
\* What Budget promises bounds the three counters.

\* The instances of Budget count as FiniteSets does.
LEMMA SameCount ==
    \A S : /\ Active!IsFiniteSet(S) <=> IsFiniteSet(S)
           /\ Codecs!IsFiniteSet(S) <=> IsFiniteSet(S)
           /\ Pending!IsFiniteSet(S) <=> IsFiniteSet(S)
           /\ Active!Cardinality(S) = Cardinality(S)
           /\ Codecs!Cardinality(S) = Cardinality(S)
           /\ Pending!Cardinality(S) = Cardinality(S)
<1>1. \A S : /\ Active!IsFiniteSet(S) <=> IsFiniteSet(S)
             /\ Codecs!IsFiniteSet(S) <=> IsFiniteSet(S)
             /\ Pending!IsFiniteSet(S) <=> IsFiniteSet(S)
  BY DEF Active!IsFiniteSet, Codecs!IsFiniteSet, Pending!IsFiniteSet, IsFiniteSet
<1>2. \A S : Active!Cardinality(S) = Cardinality(S)
  BY DEF Active!Cardinality, Cardinality
<1>3. \A S : Codecs!Cardinality(S) = Cardinality(S)
  BY DEF Codecs!Cardinality, Cardinality
<1>4. \A S : Pending!Cardinality(S) = Cardinality(S)
  BY DEF Pending!Cardinality, Cardinality
<1> QED
  BY <1>1, <1>2, <1>3, <1>4, Zenon

\* A lease is granted while there is room, or one that is held is given back: the slots channel
\* holds one entry per lease before and after.
LEMMA LeaseMoves ==
    ASSUME NEW H, IsFiniteSet(H), NEW limit \in Nat, Cardinality(H) \in 0..limit, NEW l
    PROVE  /\ l \notin H /\ Cardinality(H) < limit =>
                 /\ IsFiniteSet(H \cup {l}) /\ Cardinality(H \cup {l}) = Cardinality(H) + 1
                 /\ Cardinality(H) + 1 \in 0..limit
           /\ l \in H =>
                 /\ IsFiniteSet(H \ {l}) /\ Cardinality(H \ {l}) = Cardinality(H) - 1
                 /\ Cardinality(H) - 1 \in 0..limit
<1>1. l \notin H => IsFiniteSet(H \cup {l}) /\ Cardinality(H \cup {l}) = Cardinality(H) + 1
  BY FS_AddElement
<1>2. l \in H => IsFiniteSet(H \ {l}) /\ Cardinality(H \ {l}) = Cardinality(H) - 1
  BY FS_RemoveElement, Zenon
<1>3. l \in H => Cardinality(H \ {l}) \in Nat
  BY <1>2, FS_CardinalityType
<1> QED
  BY <1>1, <1>2, <1>3

\* c.active counts the leases held and stays within its limit.
LEMMA ActiveCounted == Active!Spec => []Active!Accounting
<1>1. Active!Init => Active!Accounting
  BY SameCount, FS_EmptySet, ClientAssumption DEF Active!Init, Active!Accounting
<1>2. ASSUME Active!Accounting, [Active!Next]_(Active!vars) PROVE Active!Accounting'
  <2>1. /\ HoldsActive \in SUBSET Callers /\ IsFiniteSet(HoldsActive)
        /\ active = Cardinality(HoldsActive)
        /\ active \in 0..MaxActiveStreams /\ MaxActiveStreams \in Nat
    BY <1>2, SameCount, ClientAssumption, Zenon DEF Active!Accounting
  <2>2. /\ HoldsActive' \in SUBSET Callers /\ IsFiniteSet(HoldsActive')
        /\ active' = Cardinality(HoldsActive') /\ active' \in 0..MaxActiveStreams
    <3>1. ASSUME NEW l \in Callers, Active!TryAcquire(l) \/ Active!Release(l)
          PROVE  /\ HoldsActive' \in SUBSET Callers /\ IsFiniteSet(HoldsActive')
                 /\ active' = Cardinality(HoldsActive') /\ active' \in 0..MaxActiveStreams
      BY <2>1, <3>1, LeaseMoves DEF Active!TryAcquire, Active!Release
    <3> QED
      BY <1>2, <2>1, <3>1, Zenon DEF Active!Next, Active!vars
  <2> QED
    BY <2>2, SameCount, Zenon DEF Active!Accounting
<1> QED
  BY <1>1, <1>2, PTL DEF Active!Spec

\* c.codecs counts the leases held and stays within its limit.
LEMMA CodecsCounted == Codecs!Spec => []Codecs!Accounting
<1>1. Codecs!Init => Codecs!Accounting
  BY SameCount, FS_EmptySet, ClientAssumption DEF Codecs!Init, Codecs!Accounting
<1>2. ASSUME Codecs!Accounting, [Codecs!Next]_(Codecs!vars) PROVE Codecs!Accounting'
  <2>1. /\ HoldsCodec \in SUBSET Callers /\ IsFiniteSet(HoldsCodec)
        /\ codecs = Cardinality(HoldsCodec)
        /\ codecs \in 0..MaxCompressedStreams /\ MaxCompressedStreams \in Nat
    BY <1>2, SameCount, ClientAssumption, Zenon DEF Codecs!Accounting
  <2>2. /\ HoldsCodec' \in SUBSET Callers /\ IsFiniteSet(HoldsCodec')
        /\ codecs' = Cardinality(HoldsCodec') /\ codecs' \in 0..MaxCompressedStreams
    <3>1. ASSUME NEW l \in Callers, Codecs!TryAcquire(l) \/ Codecs!Release(l)
          PROVE  /\ HoldsCodec' \in SUBSET Callers /\ IsFiniteSet(HoldsCodec')
                 /\ codecs' = Cardinality(HoldsCodec') /\ codecs' \in 0..MaxCompressedStreams
      BY <2>1, <3>1, LeaseMoves DEF Codecs!TryAcquire, Codecs!Release
    <3> QED
      BY <1>2, <2>1, <3>1, Zenon DEF Codecs!Next, Codecs!vars
  <2> QED
    BY <2>2, SameCount, Zenon DEF Codecs!Accounting
<1> QED
  BY <1>1, <1>2, PTL DEF Codecs!Spec

\* c.pending counts the leases held and stays within its limit.
LEMMA PendingCounted == Pending!Spec => []Pending!Accounting
<1>1. Pending!Init => Pending!Accounting
  BY SameCount, FS_EmptySet, ClientAssumption DEF Pending!Init, Pending!Accounting
<1>2. ASSUME Pending!Accounting, [Pending!Next]_(Pending!vars) PROVE Pending!Accounting'
  <2>1. /\ HoldsPending \in SUBSET Callers /\ IsFiniteSet(HoldsPending)
        /\ pending = Cardinality(HoldsPending)
        /\ pending \in 0..MaxPendingRequests /\ MaxPendingRequests \in Nat
    BY <1>2, SameCount, ClientAssumption, Zenon DEF Pending!Accounting
  <2>2. /\ HoldsPending' \in SUBSET Callers /\ IsFiniteSet(HoldsPending')
        /\ pending' = Cardinality(HoldsPending') /\ pending' \in 0..MaxPendingRequests
    <3>1. ASSUME NEW l \in Callers, Pending!TryAcquire(l) \/ Pending!Release(l)
          PROVE  /\ HoldsPending' \in SUBSET Callers /\ IsFiniteSet(HoldsPending')
                 /\ pending' = Cardinality(HoldsPending') /\ pending' \in 0..MaxPendingRequests
      BY <2>1, <3>1, LeaseMoves DEF Pending!TryAcquire, Pending!Release
    <3> QED
      BY <1>2, <2>1, <3>1, Zenon DEF Pending!Next, Pending!vars
  <2> QED
    BY <2>2, SameCount, Zenon DEF Pending!Accounting
<1> QED
  BY <1>1, <1>2, PTL DEF Pending!Spec

\* c.active, c.codecs and c.pending count the leases held exactly, and no caller is admitted
\* beyond their limits: TryAcquire and Release of admission.Budget can neither over-commit nor
\* lose a slot, for any capacities and any number of callers.
THEOREM Counting == Spec => [](Active!Accounting /\ Codecs!Accounting /\ Pending!Accounting)
  BY Leases, ActiveCounted, CodecsCounted, PendingCounted, PTL DEF UsesBudgets

\* The inductive invariant holds in every reachable state.
LEMMA Invariance == Spec => []IInv
  BY InitInv, NextInv, PTL DEF Spec

\* A caller of getConn that waits on the current ready channel has missed neither a connection nor
\* the end of the client, and every counter stays within its limit, for any number of callers.
THEOREM Wakeups == Spec => []NoLostWakeup
<1>1. IInv /\ Active!Accounting /\ Codecs!Accounting /\ Pending!Accounting => NoLostWakeup
  <2> SUFFICES ASSUME IInv, Active!Accounting, Codecs!Accounting, Pending!Accounting
               PROVE NoLostWakeup
    OBVIOUS
  <2>1. active \in 0..MaxActiveStreams /\ codecs \in 0..MaxCompressedStreams
        /\ pending \in 0..MaxPendingRequests
    BY Zenon DEF Active!Accounting, Codecs!Accounting, Pending!Accounting
  <2>2. TypeOK
    BY <2>1 DEF IInv, Types, TypeOK
  <2>3. QED
    BY <2>2 DEF IInv, Captured, NoLostWakeup
<1>2. QED
  BY <1>1, Invariance, Counting, PTL

\* No UDP session outlives Run: NewUDPSession checks stopped under c.udpMu and Run's deferred
\* function sets it before it stops the sessions, for any number of sessions.
THEOREM SessionsEnd == Spec => []NoSessionOutlivesRun
<1>1. IInv => NoSessionOutlivesRun
  BY DEF IInv, Types, Ending, NoSessionOutlivesRun
<1>2. QED
  BY <1>1, Invariance, PTL

=============================================================================
