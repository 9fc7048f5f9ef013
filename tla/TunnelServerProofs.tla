------------------------- MODULE TunnelServerProofs -------------------------
(***************************************************************************)
(* Safety of TunnelServer for any set of connections and keys, any         *)
(* capacity and any length of the clock.                                   *)
(***************************************************************************)
EXTENDS TunnelServer, TLAPS

\* A fresh server satisfies the invariant: there is no connection and no scan.
LEMMA InitIInv == Init => IInv
<1> SUFFICES ASSUME Init PROVE IInv
  OBVIOUS
<1>1. TypeOK
  <2>1. 0 \in Times
    BY ConstantsAssumption DEF ConstantsAssumption, Times
  <2> QED
    BY <2>1, Zenon DEF Init, TypeOK, KeyOrNone
<1>2. HandshakeOrder
  BY DEF Init, HandshakeOrder
<1>3. OpenIsReachable
  BY DEF Init, OpenIsReachable
<1>4. ScanDiscipline
  BY DEF Init, ScanDiscipline, Scanners
<1>5. RemovedKeyPending
  BY DEF Init, RemovedKeyPending
<1> QED
  BY <1>1, <1>2, <1>3, <1>4, <1>5 DEF IInv

\* Every step keeps the types.
LEMMA NextTypeOK == TypeOK /\ [Next]_vars => TypeOK'
<1> SUFFICES ASSUME TypeOK, [Next]_vars PROVE TypeOK'
  OBVIOUS
<1> USE DEF TypeOK, credVars, connVars, authVars, scanVars, serveVars
<1>1. CASE Tick
  BY <1>1, ConstantsAssumption DEF ConstantsAssumption, Tick, Times
<1>2. CASE Cancel
  BY <1>2 DEF Cancel
<1>3. CASE Stopping
  <2>1. CASE AcceptFails
    BY <2>1 DEF AcceptFails
  <2>2. CASE SnapshotStates
    BY <2>2 DEF SnapshotStates, Registered
  <2>3. CASE \E c \in Conns : ShutClose(c)
    BY <2>3 DEF ShutClose, Close
  <2>4. CASE ServeStops
    BY <2>4 DEF ServeStops
  <2> QED
    BY <1>3, <2>1, <2>2, <2>3, <2>4 DEF Stopping
<1>4. CASE WatcherTick \/ WatcherExits
  BY <1>4 DEF WatcherTick, WatcherExits, Scanners
<1>5. CASE Stopped \/ UNCHANGED vars
  BY <1>5 DEF Stopped, vars
<1>6. ASSUME NEW s \in Snapshots, Update(s) PROVE TypeOK'
  BY <1>6 DEF Update, Scanners
<1>7. ASSUME NEW p \in Scanners, Scan(p) PROVE TypeOK'
  <2>1. CASE LockStates(p)
    BY <2>1 DEF LockStates, Registered
  <2>2. CASE UnlockStates(p)
    BY <2>2 DEF UnlockStates
  <2>3. CASE \E c \in Conns : ScanConn(p, c)
    BY <2>3 DEF ScanConn
  <2>4. CASE \E c \in Conns : CloseDoomed(p, c)
    BY <2>4 DEF CloseDoomed, Close
  <2> HIDE DEF TypeOK, credVars, connVars, authVars, scanVars, serveVars
  <2> QED
    BY <1>7, <2>1, <2>2, <2>3, <2>4 DEF Scan
<1>8. ASSUME NEW c \in Conns, PeerCloses(c) \/ Accept(c) \/ StartControl(c) \/ ControlEnds(c)
      PROVE TypeOK'
  <2>1. CASE PeerCloses(c)
    BY <2>1 DEF PeerCloses, Close
  <2>2. CASE Accept(c)
    BY <2>2 DEF Accept
  <2>3. CASE StartControl(c)
    BY <2>3 DEF StartControl
  <2>4. CASE ControlEnds(c)
    BY <2>4 DEF ControlEnds, Close
  <2> QED
    BY <1>8, <2>1, <2>2, <2>3, <2>4
<1>9. ASSUME NEW c \in Conns, Lifecycle(c) PROVE TypeOK'
  <2>1. CASE Register(c)
    BY <2>1 DEF Register
  <2>2. CASE CancelHook(c)
    BY <2>2 DEF CancelHook, Close
  <2>3. CASE ServeReturns(c)
    BY <2>3 DEF ServeReturns, Close
  <2>4. CASE Unregister(c)
    BY <2>4 DEF Unregister, KeyOrNone
  <2>5. CASE TimerFires(c)
    BY <2>5 DEF TimerFires
  <2>6. CASE TimerCloses(c)
    BY <2>6 DEF TimerCloses, Close
  <2> HIDE DEF TypeOK, credVars, connVars, authVars, scanVars, serveVars
  <2> QED
    BY <1>9, <2>1, <2>2, <2>3, <2>4, <2>5, <2>6 DEF Lifecycle
<1>10. ASSUME NEW c \in Conns, Handshake(c) PROVE TypeOK'
  <2>1. CASE \E k \in Keys : ProofMatches(c, k)
    BY <2>1 DEF ProofMatches, KeyOrNone
  <2>2. CASE ProofFails(c)
    BY <2>2 DEF ProofFails
  <2>3. CASE StoreKey(c)
    BY <2>3 DEF StoreKey, KeyOrNone
  <2>4. CASE Recheck(c)
    BY <2>4 DEF Recheck
  <2>5. CASE Publish(c)
    BY <2>5 DEF Publish
  <2>6. CASE SendProof(c)
    BY <2>6 DEF SendProof
  <2>7. CASE SendProofFails(c)
    BY <2>7 DEF SendProofFails
  <2>8. CASE AuthFails(c)
    BY <2>8 DEF AuthFails, Close
  <2> HIDE DEF TypeOK, credVars, connVars, authVars, scanVars, serveVars
  <2> QED
    BY <1>10, <2>1, <2>2, <2>3, <2>4, <2>5, <2>6, <2>7, <2>8 DEF Handshake
<1> HIDE DEF TypeOK, credVars, connVars, authVars, scanVars, serveVars
<1> QED
  BY <1>1, <1>2, <1>3, <1>4, <1>5, <1>6, <1>7, <1>8, <1>9, <1>10 DEF Next

\* Every step of every goroutine preserves the inductive invariant, on top of the types.
LEMMA NextIInv == IInv /\ [Next]_vars => IInv'
<1> SUFFICES ASSUME IInv, [Next]_vars PROVE IInv'
  OBVIOUS
<1>0. TypeOK'
  BY NextTypeOK DEF IInv
<1> DEFINE Rest == HandshakeOrder /\ OpenIsReachable /\ ScanDiscipline /\ RemovedKeyPending
<1> SUFFICES Rest'
  BY <1>0 DEF IInv
<1> USE DEF IInv, TypeOK, HandshakeOrder, OpenIsReachable, ScanDiscipline, RemovedKeyPending,
                 RevocationPending, Registered, Removed, credVars, connVars, authVars, scanVars, serveVars
<1>1. CASE Tick
  BY <1>1 DEF Tick
<1>2. CASE Cancel
  BY <1>2 DEF Cancel
<1>3. CASE AcceptFails
  BY <1>3 DEF AcceptFails
<1>4. CASE SnapshotStates
  BY <1>4 DEF SnapshotStates
<1>5. CASE \E c \in Conns : ShutClose(c)
  BY <1>5 DEF ShutClose, Close
<1>6. CASE ServeStops
  BY <1>6 DEF ServeStops
<1>7. CASE WatcherTick
  BY <1>7 DEF WatcherTick, Scanners
<1>8. CASE WatcherExits
  BY <1>8 DEF WatcherExits, Scanners
<1>9. CASE Stopped \/ UNCHANGED vars
  BY <1>9 DEF Stopped, vars
<1>10. CASE \E s \in Snapshots : Update(s)
  BY <1>10 DEF Update, Scanners
<1>11. ASSUME NEW p \in Scanners, Scan(p) PROVE Rest'
  <2>1. CASE LockStates(p)
    BY <2>1 DEF LockStates, MuFree, Scanners
  <2>2. CASE UnlockStates(p)
    BY <2>2 DEF UnlockStates
  <2>3. CASE \E c \in Conns : ScanConn(p, c)
    BY <2>3 DEF ScanConn, Accepts
  <2>4. CASE \E c \in Conns : CloseDoomed(p, c)
    BY <2>4 DEF CloseDoomed, Close
  <2> HIDE DEF IInv, TypeOK, HandshakeOrder, OpenIsReachable, ScanDiscipline, RemovedKeyPending, Rest
  <2> QED
    BY <1>11, <2>1, <2>2, <2>3, <2>4, Zenon DEF Scan
<1>12. ASSUME NEW c \in Conns, PeerCloses(c) \/ Accept(c) \/ StartControl(c) \/ ControlEnds(c)
       PROVE Rest'
  <2>1. CASE PeerCloses(c)
    BY <2>1 DEF PeerCloses, Close
  <2>2. CASE Accept(c)
    BY <2>2 DEF Accept
  <2>3. CASE StartControl(c)
    BY <2>3 DEF StartControl
  <2>4. CASE ControlEnds(c)
    BY <2>4 DEF ControlEnds, Close
  <2> HIDE DEF IInv, TypeOK, HandshakeOrder, OpenIsReachable, ScanDiscipline, RemovedKeyPending, Rest
  <2> QED
    BY <1>12, <2>1, <2>2, <2>3, <2>4, Zenon
<1>13. ASSUME NEW c \in Conns, Lifecycle(c) PROVE Rest'
  <2>1. CASE Register(c)
    BY <2>1 DEF Register
  <2>2. CASE CancelHook(c)
    BY <2>2 DEF CancelHook, Close
  <2>3. CASE ServeReturns(c)
    BY <2>3 DEF ServeReturns, Close
  <2>4. CASE Unregister(c)
    <3>1. HandshakeOrder'
      BY <2>4 DEF Unregister, MuFree
    <3>2. OpenIsReachable'
      BY <2>4 DEF Unregister, MuFree
    <3>3. ScanDiscipline'
      BY <2>4 DEF Unregister, MuFree
    <3>4. RemovedKeyPending'
      BY <2>4 DEF Unregister, MuFree
    <3> QED
      BY <3>1, <3>2, <3>3, <3>4, Zenon
  <2>5. CASE TimerFires(c)
    BY <2>5 DEF TimerFires
  <2>6. CASE TimerCloses(c)
    BY <2>6 DEF TimerCloses, Close
  <2> HIDE DEF IInv, TypeOK, HandshakeOrder, OpenIsReachable, ScanDiscipline, RemovedKeyPending, Rest
  <2> QED
    BY <1>13, <2>1, <2>2, <2>3, <2>4, <2>5, <2>6, Zenon DEF Lifecycle
<1>14. ASSUME NEW c \in Conns, Handshake(c) PROVE Rest'
  <2>1. ASSUME NEW k \in Keys, ProofMatches(c, k) PROVE Rest'
    <3>1. HandshakeOrder'
      <4>1. k # NoKey
        BY ConstantsAssumption, Zenon DEF ConstantsAssumption
      <4>2. /\ ctl' = [ctl EXCEPT ![c] = "matched"] /\ claim' = [claim EXCEPT ![c] = k]
            /\ UNCHANGED <<phase, timer, authKey, authed, told>> /\ ctl[c] = "hello"
        BY <2>1, Zenon DEF ProofMatches
      <4> QED
        BY <4>1, <4>2
    <3>2. OpenIsReachable'
      BY <2>1 DEF ProofMatches
    <3>3. ScanDiscipline'
      BY <2>1 DEF ProofMatches
    <3>4. RemovedKeyPending'
      BY <2>1 DEF ProofMatches
    <3> QED
      BY <3>1, <3>2, <3>3, <3>4, Zenon
  <2>2. CASE ProofFails(c)
    BY <2>2 DEF ProofFails
  <2>3. CASE StoreKey(c)
    BY <2>3 DEF StoreKey
  <2>4. CASE Recheck(c)
    BY <2>4 DEF Recheck, Accepts
  <2>5. CASE Publish(c)
    <3>1. HandshakeOrder'
      BY <2>5 DEF Publish
    <3>2. OpenIsReachable'
      BY <2>5 DEF Publish
    <3>3. ScanDiscipline'
      BY <2>5 DEF Publish
    <3>4. RemovedKeyPending'
      BY <2>5 DEF Publish
    <3> QED
      BY <3>1, <3>2, <3>3, <3>4, Zenon
  <2>6. CASE SendProof(c)
    <3>1. HandshakeOrder'
      BY <2>6 DEF SendProof
    <3>2. OpenIsReachable'
      BY <2>6 DEF SendProof
    <3>3. ScanDiscipline'
      BY <2>6 DEF SendProof
    <3>4. RemovedKeyPending'
      BY <2>6 DEF SendProof
    <3> QED
      BY <3>1, <3>2, <3>3, <3>4, Zenon
  <2>7. CASE SendProofFails(c)
    BY <2>7 DEF SendProofFails
  <2>8. CASE AuthFails(c)
    BY <2>8 DEF AuthFails, Close
  <2> HIDE DEF IInv, TypeOK, HandshakeOrder, OpenIsReachable, ScanDiscipline, RemovedKeyPending, Rest
  <2> QED
    BY <1>14, <2>1, <2>2, <2>3, <2>4, <2>5, <2>6, <2>7, <2>8, Zenon DEF Handshake
<1> HIDE DEF IInv, TypeOK, HandshakeOrder, OpenIsReachable, ScanDiscipline, RemovedKeyPending, Rest
<1> QED
  BY <1>1, <1>2, <1>3, <1>4, <1>5, <1>6, <1>7, <1>8, <1>9, <1>10, <1>11, <1>12, <1>13, <1>14 DEF Next, Stopping

\* The types hold in every reachable state of the server.
THEOREM TypeCorrect == Spec => []TypeOK
<1>1. IInv => TypeOK
  BY DEF IInv
<1> QED
  BY <1>1, InitIInv, NextIInv, PTL DEF Spec

\* Once ReloadCredentials has returned, no authenticated connection is open under a key
\* that the reload removed.
THEOREM Revocation == Spec => []NoRemovedKeySession
<1>1. IInv => NoRemovedKeySession
  BY Zenon DEF IInv, TypeOK, ScanDiscipline, RemovedKeyPending, RevocationPending,
         NoRemovedKeySession, Scanners
<1> QED
  BY <1>1, InitIInv, NextIInv, PTL DEF Spec

\* A client is told that it is authenticated only after its connection is ready.
THEOREM Readiness == Spec => []ReadyBeforeReply
<1>1. IInv => ReadyBeforeReply
  BY DEF IInv, HandshakeOrder, ReadyBeforeReply
<1> QED
  BY <1>1, InitIInv, NextIInv, PTL DEF Spec

\* Apart from the newly accepted ones, every open connection is registered and has not
\* lost its control stream.
THEOREM Reachability == Spec => []OpenIsReachable
<1>1. IInv => OpenIsReachable
  BY DEF IInv
<1> QED
  BY <1>1, InitIInv, NextIInv, PTL DEF Spec

-----------------------------------------------------------------------------
\* The server implements Session

\* Closing a connection, from whichever goroutine, closes the session or is a stutter.
LEMMA CloseMapped ==
    ASSUME TypeOK, NEW c \in Conns, Close(c), UNCHANGED <<phase, authed, authKey, current, now>>
    PROVE  [Sess!Next]_(Sess!vars)
<1> DEFINE life == [x \in Conns |-> LifeOf(x)]
<1> DEFINE good == [x \in Conns |-> KeyValid(x)]
<1>1. good' = good
  BY DEF KeyValid, Accepts
<1>2. CASE LifeOf(c) = "open"
  <2>1. life' = [life EXCEPT ![c] = "closed"]
    <3>1. LifeOf(c)' = "closed"
      BY <1>2 DEF LifeOf, Close, TypeOK
    <3>2. \A x \in Conns \ {c} : LifeOf(x)' = LifeOf(x)
      BY DEF LifeOf, Close, TypeOK
    <3> QED
      BY <3>1, <3>2, Zenon
  <2>2. life[c] = "open"
    BY <1>2
  <2>3. Sess!Closes(c)
    BY <1>1, <2>1, <2>2 DEF Sess!Closes
  <2> QED
    BY <2>3 DEF Sess!Next
<1>3. CASE LifeOf(c) # "open"
  <2>1. life' = life
    BY <1>3 DEF LifeOf, Close, TypeOK
  <2> QED
    BY <1>1, <2>1 DEF Sess!vars
<1> QED
  BY <1>2, <1>3, Zenon

\* A step that leaves the phases, the open connections and the readiness alone can only
\* change which stored keys are accepted, and only of connections that exist.
LEMMA RotationMapped ==
    ASSUME IInv', UNCHANGED <<phase, open, authed>>
    PROVE  [Sess!Next]_(Sess!vars)
<1> DEFINE life == [x \in Conns |-> LifeOf(x)]
<1> DEFINE good == [x \in Conns |-> KeyValid(x)]
<1>1. life' = life
  BY DEF LifeOf
<1>2. good' \in [Conns -> BOOLEAN]
  <2>1. \A x \in Conns : KeyValid(x)' \in BOOLEAN
    BY Zenon DEF KeyValid
  <2> QED
    BY <2>1, Zenon
<1>3. \A x \in Conns : life[x] = "none" => ~good'[x]
  BY Zenon DEF LifeOf, KeyValid, IInv, HandshakeOrder, Registered
<1>4. Sess!Rotates
  BY <1>1, <1>2, <1>3 DEF Sess!Rotates
<1> QED
  BY <1>4 DEF Sess!Next

\* Register and ServeReturns change the phase of an existing connection only.
LEMMA PhaseMapped ==
    ASSUME TypeOK, NEW c \in Conns, Register(c) \/ ServeReturns(c)
    PROVE  UNCHANGED Sess!vars
<1>1. \A x \in Conns : LifeOf(x)' = LifeOf(x)
  BY DEF LifeOf, Register, ServeReturns, Close, TypeOK
<1>2. \A x \in Conns : KeyValid(x)' = KeyValid(x)
  BY DEF KeyValid, Accepts, Register, ServeReturns, credVars, authVars
<1>3. authed' = authed
  BY DEF Register, ServeReturns, authVars
<1> QED
  BY <1>1, <1>2, <1>3, Zenon DEF Sess!vars

\* Accept opens a session: its name carries nothing over from the connection before.
LEMMA AcceptMapped ==
    ASSUME TypeOK, NEW c \in Conns, Accept(c)
    PROVE  Sess!Opens(c)
<1> DEFINE life == [x \in Conns |-> LifeOf(x)]
<1>1. life[c] = "none" /\ LifeOf(c)' = "open"
  BY DEF LifeOf, Accept, TypeOK
<1>2. \A x \in Conns \ {c} : LifeOf(x)' = LifeOf(x)
  BY DEF LifeOf, Accept, TypeOK
<1>3. life' = [life EXCEPT ![c] = "open"]
  BY <1>1, <1>2, Zenon
<1>4. \A x \in Conns : KeyValid(x)' = KeyValid(x)
  BY DEF KeyValid, Accepts, Accept, credVars, authVars
<1>5. [x \in Conns |-> KeyValid(x)]' = [x \in Conns |-> KeyValid(x)]
  BY <1>4, Zenon
<1>6. authed' = authed
  BY DEF Accept, authVars
<1> QED
  BY <1>1, <1>3, <1>5, <1>6 DEF Sess!Opens

\* The ready callback makes a session ready, and does so once.
LEMMA PublishMapped ==
    ASSUME IInv, NEW c \in Conns, Publish(c)
    PROVE  Sess!Readies(c)
<1> DEFINE life == [x \in Conns |-> LifeOf(x)]
<1>1. life[c] # "none" /\ ~authed[c]
  BY DEF LifeOf, Publish, IInv, HandshakeOrder
<1>2. life' = life
  BY DEF LifeOf, Publish
<1>3. \A x \in Conns : KeyValid(x)' = KeyValid(x)
  BY DEF KeyValid, Accepts, Publish, credVars
<1>4. [x \in Conns |-> KeyValid(x)]' = [x \in Conns |-> KeyValid(x)]
  BY <1>3, Zenon
<1>5. authed' = [authed EXCEPT ![c] = TRUE]
  BY DEF Publish
<1> QED
  BY <1>1, <1>2, <1>4, <1>5, Zenon DEF Sess!Readies

\* The end of handleConn retires a session that is closed.
LEMMA UnregisterMapped ==
    ASSUME IInv, NEW c \in Conns, Unregister(c)
    PROVE  Sess!Retires(c)
<1> DEFINE life == [x \in Conns |-> LifeOf(x)]
<1> DEFINE good == [x \in Conns |-> KeyValid(x)]
<1>1. life[c] = "closed" /\ LifeOf(c)' = "none"
  BY Zenon DEF LifeOf, Unregister, IInv, TypeOK, OpenIsReachable
<1>2. \A x \in Conns \ {c} : LifeOf(x)' = LifeOf(x)
  BY DEF LifeOf, Unregister, IInv, TypeOK
<1>3. life' = [life EXCEPT ![c] = "none"]
  BY <1>1, <1>2, Zenon
<1>4. KeyValid(c)' = FALSE
  BY Zenon DEF KeyValid, Unregister, IInv, TypeOK
<1>5. \A x \in Conns \ {c} : KeyValid(x)' = KeyValid(x)
  BY DEF KeyValid, Accepts, Unregister, IInv, TypeOK, credVars
<1>6. good' = [good EXCEPT ![c] = FALSE]
  BY <1>4, <1>5, Zenon
<1>7. authed' = [authed EXCEPT ![c] = FALSE]
  BY DEF Unregister
<1> QED
  BY <1>1, <1>3, <1>6, <1>7, Zenon DEF Sess!Retires

\* Every behaviour of the server is one of Session, so that whatever holds of Session holds
\* of the connections that proxy streams and the NAT run on.
THEOREM Refinement == Spec => ImplementsSession
<1>1. Init => Sess!Init
  <2> SUFFICES ASSUME Init PROVE Sess!Init
    OBVIOUS
  <2>1. \A c \in Conns : LifeOf(c) = "none"
    BY DEF Init, LifeOf
  <2>2. \A c \in Conns : KeyValid(c) = FALSE
    BY DEF Init, KeyValid
  <2>3. authed = [c \in Conns |-> FALSE]
    BY DEF Init
  <2> QED
    BY <2>1, <2>2, <2>3, Zenon DEF Sess!Init
<1>2. IInv /\ IInv' /\ [Next]_vars => [Sess!Next]_(Sess!vars)
  <2> SUFFICES ASSUME IInv, IInv', [Next]_vars PROVE [Sess!Next]_(Sess!vars)
    OBVIOUS
  <2> USE DEF credVars, connVars, authVars, scanVars, serveVars
  <2>0. TypeOK
    BY Zenon DEF IInv
  <2>1. CASE \/ Tick \/ Cancel \/ AcceptFails \/ SnapshotStates \/ ServeStops
             \/ WatcherTick \/ WatcherExits
    BY <2>1, RotationMapped DEF Tick, Cancel, AcceptFails, SnapshotStates, ServeStops,
                                WatcherTick, WatcherExits
  <2>2. CASE Stopped \/ UNCHANGED vars
    BY <2>2, RotationMapped DEF Stopped, vars
  <2>3. ASSUME NEW s \in Snapshots, Update(s) PROVE [Sess!Next]_(Sess!vars)
    BY <2>3, RotationMapped, Zenon DEF Update
  <2>4. ASSUME NEW c \in Conns, ShutClose(c) \/ PeerCloses(c) \/ ControlEnds(c)
        PROVE  [Sess!Next]_(Sess!vars)
    BY <2>0, <2>4, CloseMapped DEF ShutClose, PeerCloses, ControlEnds
  <2>5. ASSUME NEW p \in Scanners, Scan(p) PROVE [Sess!Next]_(Sess!vars)
    <3>1. CASE LockStates(p) \/ UnlockStates(p) \/ \E c \in Conns : ScanConn(p, c)
      BY <3>1, RotationMapped DEF LockStates, UnlockStates, ScanConn
    <3>2. ASSUME NEW c \in Conns, CloseDoomed(p, c) PROVE [Sess!Next]_(Sess!vars)
      BY <2>0, <3>2, CloseMapped DEF CloseDoomed
    <3> QED
      BY <2>5, <3>1, <3>2, Zenon DEF Scan
  <2>6. ASSUME NEW c \in Conns, Accept(c) PROVE [Sess!Next]_(Sess!vars)
    BY <2>0, <2>6, AcceptMapped DEF Sess!Next
  <2>7. ASSUME NEW c \in Conns, StartControl(c) PROVE [Sess!Next]_(Sess!vars)
    BY <2>7, RotationMapped DEF StartControl
  <2>8. ASSUME NEW c \in Conns, Lifecycle(c) PROVE [Sess!Next]_(Sess!vars)
    <3>1. CASE Register(c) \/ ServeReturns(c)
      BY <2>0, <3>1, PhaseMapped, Zenon
    <3>2. CASE CancelHook(c) \/ TimerCloses(c)
      BY <2>0, <3>2, CloseMapped DEF CancelHook, TimerCloses
    <3>3. CASE Unregister(c)
      BY <3>3, UnregisterMapped, Zenon DEF Sess!Next
    <3>4. CASE TimerFires(c)
      BY <3>4, RotationMapped DEF TimerFires
    <3> QED
      BY <2>8, <3>1, <3>2, <3>3, <3>4 DEF Lifecycle
  <2>9. ASSUME NEW c \in Conns, Handshake(c) PROVE [Sess!Next]_(Sess!vars)
    <3>1. CASE \/ (\E k \in Keys : ProofMatches(c, k)) \/ ProofFails(c) \/ StoreKey(c)
               \/ Recheck(c) \/ SendProof(c) \/ SendProofFails(c)
      BY <3>1, RotationMapped DEF ProofMatches, ProofFails, StoreKey, Recheck, SendProof,
                                  SendProofFails
    <3>2. CASE Publish(c)
      BY <3>2, PublishMapped DEF Sess!Next
    <3>3. CASE AuthFails(c)
      BY <2>0, <3>3, CloseMapped DEF AuthFails
    <3> QED
      BY <2>9, <3>1, <3>2, <3>3, Zenon DEF Handshake
  <2> QED
    BY <2>1, <2>2, <2>3, <2>4, <2>5, <2>6, <2>7, <2>8, <2>9 DEF Next, Stopping
<1> QED
  BY <1>1, <1>2, InitIInv, NextIInv, PTL DEF Spec, ImplementsSession, Sess!Spec

=============================================================================
