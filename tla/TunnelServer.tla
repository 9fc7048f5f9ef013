---------------------------- MODULE TunnelServer ----------------------------
(***************************************************************************)
(* The connection side of the tunnel server: accepting QUIC connections,   *)
(* the PSK handshake on the control stream, key rotation with revocation   *)
(* of live sessions, the authentication deadline, and shutdown.            *)
(*                                                                         *)
(* Every goroutine is split at the points where another goroutine can      *)
(* observe it: atomic stores and loads, lock acquisitions, channel closes. *)
(* The mutex s.mu is held exactly while a scanner is in its "scan" phase;  *)
(* every other critical section is one action guarded by MuFree.           *)
(***************************************************************************)
EXTENDS Integers, FiniteSets

CONSTANTS
    Conns,          \* names of QUIC connections; a name is reused once its connection is gone
    Keys,           \* pre-shared keys
    NoKey,          \* absence of a key: an empty previous key, a nil authKey
    MaxConnections, \* opt.MaxConnections
    MaxOverlap,     \* longest time a previous key may stay valid (7 days in the code)
    MaxTime         \* bound of the modelled clock

ASSUME ConstantsAssumption ==
    /\ NoKey \notin Keys
    /\ MaxConnections \in Nat \ {0}
    /\ MaxOverlap \in Nat \ {0}
    /\ MaxTime \in Nat

VARIABLES
    now,        \* the clock read by time.Now
    current,    \* credentials.current: the published snapshot
    phase,      \* progress of handleConn for each connection
    open,       \* the QUIC connection is not closed
    timer,      \* cs.authTimer
    ctl,        \* progress of handleControl / Authenticate
    snap,       \* the snapshot Authenticate loaded, NoKey when it holds none
    claim,      \* the key Authenticate matched the client's proof with
    authKey,    \* cs.authKey
    authed,     \* cs.authed is closed
    told,       \* the server proof was written: the client may open streams
    scan,       \* progress of revokeUnauthorized, per caller
    todo,       \* entries of s.states the scan has not looked at yet
    doomed,     \* closeList of the scan
    serve,      \* progress of Serve
    cancelled,  \* serveCtx is done
    shutList    \* snapshot of closeConnections still to be closed

credVars == <<now, current>>
connVars == <<phase, open, timer>>
authVars == <<ctl, snap, claim, authKey, authed, told>>
scanVars == <<scan, todo, doomed>>
serveVars == <<serve, cancelled, shutList>>
vars == <<now, current, phase, open, timer, ctl, snap, claim, authKey, authed,
          told, scan, todo, doomed, serve, cancelled, shutList>>

\* Callers of revokeUnauthorized: ReloadCredentials and the one-second ticker of Serve.
Scanners == {"reload", "watcher"}

Times == 0..MaxTime
KeyOrNone == Keys \cup {NoKey}
Snapshots == [primary : Keys, previous : KeyOrNone, expires : Times]

-----------------------------------------------------------------------------
\* Credentials

\* Accepts: the primary key, or the previous key before its expiry.
Accepts(s, k) ==
    \/ k = s.primary
    \/ k = s.previous /\ k # NoKey /\ now < s.expires

\* The checks of Update: no expiry without a previous key, distinct keys, a bounded overlap.
ValidUpdate(s) ==
    IF s.previous = NoKey
    THEN s.expires = 0
    ELSE /\ s.previous # s.primary
         /\ s.expires # 0
         /\ s.expires <= now + MaxOverlap

\* Connections in s.states.
Registered == {c \in Conns : phase[c] \in {"serving", "draining"}}

\* Connections that hold an entry of s.slots.
InUse == {c \in Conns : phase[c] # "idle"}

MuFree == \A p \in Scanners : scan[p] # "scan"

\* A key that the current snapshot does not hold at all.
Removed(k) == k \notin {current.primary, current.previous}

-----------------------------------------------------------------------------
Init ==
    /\ now = 0
    /\ current \in {s \in Snapshots : ValidUpdate(s)}
    /\ phase = [c \in Conns |-> "idle"]
    /\ open = [c \in Conns |-> FALSE]
    /\ timer = [c \in Conns |-> "off"]
    /\ ctl = [c \in Conns |-> "none"]
    /\ snap = [c \in Conns |-> NoKey]
    /\ claim = [c \in Conns |-> NoKey]
    /\ authKey = [c \in Conns |-> NoKey]
    /\ authed = [c \in Conns |-> FALSE]
    /\ told = [c \in Conns |-> FALSE]
    /\ scan = [p \in Scanners |-> "idle"]
    /\ todo = [p \in Scanners |-> {}]
    /\ doomed = [p \in Scanners |-> {}]
    /\ serve = "accepting"
    /\ cancelled = FALSE
    /\ shutList = {}

-----------------------------------------------------------------------------
\* Time and the peer

Tick ==
    /\ now < MaxTime
    /\ now' = now + 1
    /\ UNCHANGED <<current, connVars, authVars, scanVars, serveVars>>

\* CloseWithError: idempotent, from any goroutine.
Close(c) == open' = [open EXCEPT ![c] = FALSE]

\* The peer closes the connection or the network loses it.
PeerCloses(c) ==
    /\ open[c]
    /\ Close(c)
    /\ UNCHANGED <<credVars, phase, timer, authVars, scanVars, serveVars>>

-----------------------------------------------------------------------------
\* Serve and handleConn

\* No goroutine still refers to the previous connection of this name.
Forgotten(c) == c \notin shutList /\ \A p \in Scanners : c \notin todo[p] \cup doomed[p]

\* Accept returns a connection and a slot is free. Accept may still win against a
\* cancelled context. Without a free slot the connection is refused and nothing changes.
\* The authentication deadline starts here.
Accept(c) ==
    /\ serve = "accepting"
    /\ phase[c] = "idle"
    /\ Forgotten(c)
    /\ Cardinality(InUse) < MaxConnections
    /\ phase' = [phase EXCEPT ![c] = "accepted"]
    /\ open' = [open EXCEPT ![c] = TRUE]
    /\ timer' = [timer EXCEPT ![c] = "armed"]
    /\ UNCHANGED <<credVars, authVars, scanVars, serveVars>>

\* handleConn publishes its connState in s.states, then serves HTTP/3 requests.
Register(c) ==
    /\ phase[c] = "accepted"
    /\ MuFree
    /\ phase' = [phase EXCEPT ![c] = "serving"]
    /\ UNCHANGED <<credVars, open, timer, authVars, scanVars, serveVars>>

\* Mutant of CancelHook: only connections that are already done are watched.
CancelHookLate(c) ==
    /\ cancelled
    /\ phase[c] = "draining"
    /\ open[c]
    /\ Close(c)
    /\ UNCHANGED <<credVars, phase, timer, authVars, scanVars, serveVars>>

\* The AfterFunc of handleConn closes the connection once serveCtx is done.
CancelHook(c) ==
    /\ cancelled
    /\ phase[c] # "idle"
    /\ open[c]
    /\ Close(c)
    /\ UNCHANGED <<credVars, phase, timer, authVars, scanVars, serveVars>>

\* ServeQUICConn returns when the connection is closed and its handlers have returned; the
\* deferred cleanup closes the connection again before it joins the NAT.
ServeReturns(c) ==
    /\ phase[c] = "serving"
    /\ ~open[c]
    /\ ctl[c] \in {"none", "done"}
    /\ phase' = [phase EXCEPT ![c] = "draining"]
    /\ Close(c)
    /\ UNCHANGED <<credVars, timer, authVars, scanVars, serveVars>>

\* Mutant of Unregister: the readiness of the old connection survives it.
UnregisterKeepsReady(c) ==
    /\ phase[c] = "draining"
    /\ MuFree
    /\ phase' = [phase EXCEPT ![c] = "idle"]
    /\ timer' = [timer EXCEPT ![c] = "off"]
    /\ ctl' = [ctl EXCEPT ![c] = "none"]
    /\ snap' = [snap EXCEPT ![c] = NoKey]
    /\ claim' = [claim EXCEPT ![c] = NoKey]
    /\ authKey' = [authKey EXCEPT ![c] = NoKey]
    /\ told' = [told EXCEPT ![c] = FALSE]
    /\ UNCHANGED <<credVars, open, authed, scanVars, serveVars>>

\* The deferred cleanup of handleConn deletes the entry of s.states; the remaining defers
\* stop the timer and free the slot, and the connState becomes garbage.
Unregister(c) ==
    /\ phase[c] = "draining"
    /\ MuFree
    /\ phase' = [phase EXCEPT ![c] = "idle"]
    /\ timer' = [timer EXCEPT ![c] = "off"]
    /\ ctl' = [ctl EXCEPT ![c] = "none"]
    /\ snap' = [snap EXCEPT ![c] = NoKey]
    /\ claim' = [claim EXCEPT ![c] = NoKey]
    /\ authKey' = [authKey EXCEPT ![c] = NoKey]
    /\ authed' = [authed EXCEPT ![c] = FALSE]
    /\ told' = [told EXCEPT ![c] = FALSE]
    /\ UNCHANGED <<credVars, open, scanVars, serveVars>>

-----------------------------------------------------------------------------
\* The authentication deadline

\* The callback of authTimer looks at cs.authed ...
TimerFires(c) ==
    /\ timer[c] = "armed"
    /\ timer' = [timer EXCEPT ![c] = IF authed[c] THEN "off" ELSE "firing"]
    /\ UNCHANGED <<credVars, phase, open, authVars, scanVars, serveVars>>

\* ... and closes the connection if it was not closed yet.
TimerCloses(c) ==
    /\ timer[c] = "firing"
    /\ timer' = [timer EXCEPT ![c] = "off"]
    /\ Close(c)
    /\ UNCHANGED <<credVars, phase, authVars, scanVars, serveVars>>

-----------------------------------------------------------------------------
\* handleControl and Authenticate

\* The first control CONNECT of a connection wins the compare-and-swap; Authenticate
\* loads the credential snapshot before it reads the client's proof.
StartControl(c) ==
    /\ phase[c] = "serving"
    /\ open[c]
    /\ ctl[c] = "none"
    /\ ctl' = [ctl EXCEPT ![c] = "hello"]
    /\ snap' = [snap EXCEPT ![c] = current]
    /\ UNCHANGED <<credVars, connVars, claim, authKey, authed, told, scanVars, serveVars>>

\* The client's proof, made with key k, matches a key of the loaded snapshot.
ProofMatches(c, k) ==
    /\ ctl[c] = "hello"
    /\ open[c]
    /\ Accepts(snap[c], k)
    /\ ctl' = [ctl EXCEPT ![c] = "matched"]
    /\ snap' = [snap EXCEPT ![c] = NoKey]
    /\ claim' = [claim EXCEPT ![c] = k]
    /\ UNCHANGED <<credVars, connVars, authKey, authed, told, scanVars, serveVars>>

\* The proof is wrong, or reading it fails or times out.
ProofFails(c) ==
    /\ ctl[c] = "hello"
    /\ ctl' = [ctl EXCEPT ![c] = "failed"]
    /\ snap' = [snap EXCEPT ![c] = NoKey]
    /\ UNCHANGED <<credVars, connVars, claim, authKey, authed, told, scanVars, serveVars>>

\* The ready callback stores the key first, so that a scan can see it ...
StoreKey(c) ==
    /\ ctl[c] = "matched"
    /\ ctl' = [ctl EXCEPT ![c] = "stored"]
    /\ authKey' = [authKey EXCEPT ![c] = claim[c]]
    /\ claim' = [claim EXCEPT ![c] = NoKey]
    /\ UNCHANGED <<credVars, connVars, snap, authed, told, scanVars, serveVars>>

\* Mutant of Recheck: the key is not compared with the snapshot that is current by now.
RecheckMissing(c) ==
    /\ ctl[c] = "stored"
    /\ ctl' = [ctl EXCEPT ![c] = "publish"]
    /\ UNCHANGED <<credVars, connVars, snap, claim, authKey, authed, told, scanVars, serveVars>>

\* ... then checks it against the snapshot that is current by now ...
Recheck(c) ==
    /\ ctl[c] = "stored"
    /\ ctl' = [ctl EXCEPT ![c] =
                  IF Accepts(current, authKey[c]) THEN "publish" ELSE "failed"]
    /\ UNCHANGED <<credVars, connVars, snap, claim, authKey, authed, told, scanVars, serveVars>>

\* Mutant of Publish: the deadline is not stopped.
PublishKeepsDeadline(c) ==
    /\ ctl[c] = "publish"
    /\ ctl' = [ctl EXCEPT ![c] = "reply"]
    /\ authed' = [authed EXCEPT ![c] = TRUE]
    /\ UNCHANGED <<credVars, connVars, snap, claim, authKey, told, scanVars, serveVars>>

\* ... and only then closes cs.authed and stops the deadline.
Publish(c) ==
    /\ ctl[c] = "publish"
    /\ ctl' = [ctl EXCEPT ![c] = "reply"]
    /\ authed' = [authed EXCEPT ![c] = TRUE]
    /\ timer' = [timer EXCEPT ![c] = IF @ = "armed" THEN "off" ELSE @]
    /\ UNCHANGED <<credVars, phase, open, snap, claim, authKey, told, scanVars, serveVars>>

\* writeProof succeeds: the client learns that it is authenticated.
SendProof(c) ==
    /\ ctl[c] = "reply"
    /\ open[c]
    /\ ctl' = [ctl EXCEPT ![c] = "ready"]
    /\ told' = [told EXCEPT ![c] = TRUE]
    /\ UNCHANGED <<credVars, connVars, snap, claim, authKey, authed, scanVars, serveVars>>

\* writeProof fails: the stream or the connection is gone, or the handshake timed out.
SendProofFails(c) ==
    /\ ctl[c] = "reply"
    /\ ctl' = [ctl EXCEPT ![c] = "failed"]
    /\ UNCHANGED <<credVars, connVars, snap, claim, authKey, authed, told, scanVars, serveVars>>

\* An authentication error closes the whole connection.
AuthFails(c) ==
    /\ ctl[c] = "failed"
    /\ ctl' = [ctl EXCEPT ![c] = "done"]
    /\ Close(c)
    /\ UNCHANGED <<credVars, phase, timer, snap, claim, authKey, authed, told, scanVars, serveVars>>

\* The ping loop ends: the stream ended, an unexpected byte came, or a deadline passed.
\* Losing the control stream closes the whole connection.
ControlEnds(c) ==
    /\ ctl[c] = "ready"
    /\ ctl' = [ctl EXCEPT ![c] = "done"]
    /\ Close(c)
    /\ UNCHANGED <<credVars, phase, timer, snap, claim, authKey, authed, told, scanVars, serveVars>>

-----------------------------------------------------------------------------
\* ReloadCredentials and revokeUnauthorized

\* SIGHUP: Update publishes a valid replacement; an invalid one changes nothing.
Update(s) ==
    /\ serve # "stopped"
    /\ scan["reload"] = "idle"
    /\ ValidUpdate(s)
    /\ current' = s
    /\ scan' = [scan EXCEPT !["reload"] = "lock"]
    /\ UNCHANGED <<now, connVars, authVars, todo, doomed, serveVars>>

\* The one-second ticker of Serve starts a scan.
WatcherTick ==
    /\ scan["watcher"] = "idle"
    /\ scan' = [scan EXCEPT !["watcher"] = "lock"]
    /\ UNCHANGED <<credVars, connVars, authVars, todo, doomed, serveVars>>

\* The watcher sees serveCtx done.
WatcherExits ==
    /\ scan["watcher"] = "idle"
    /\ cancelled
    /\ scan' = [scan EXCEPT !["watcher"] = "done"]
    /\ UNCHANGED <<credVars, connVars, authVars, todo, doomed, serveVars>>

LockStates(p) ==
    /\ scan[p] = "lock"
    /\ MuFree
    /\ scan' = [scan EXCEPT ![p] = "scan"]
    /\ todo' = [todo EXCEPT ![p] = Registered]
    /\ UNCHANGED <<credVars, connVars, authVars, doomed, serveVars>>

\* Mutant of ScanConn: expiry is not looked at.
ScanRemovedOnly(p, c) ==
    /\ c \in todo[p]
    /\ todo' = [todo EXCEPT ![p] = @ \ {c}]
    /\ doomed' = [doomed EXCEPT ![p] =
                     IF authKey[c] # NoKey /\ Removed(authKey[c])
                     THEN @ \cup {c} ELSE @]
    /\ UNCHANGED <<credVars, connVars, authVars, scan, serveVars>>

\* One iteration over s.states: load authKey, and compare it with the current snapshot.
ScanConn(p, c) ==
    /\ c \in todo[p]
    /\ todo' = [todo EXCEPT ![p] = @ \ {c}]
    /\ doomed' = [doomed EXCEPT ![p] =
                     IF authKey[c] # NoKey /\ ~Accepts(current, authKey[c])
                     THEN @ \cup {c} ELSE @]
    /\ UNCHANGED <<credVars, connVars, authVars, scan, serveVars>>

UnlockStates(p) ==
    /\ scan[p] = "scan"
    /\ todo[p] = {}
    /\ scan' = [scan EXCEPT ![p] = IF doomed[p] = {} THEN "idle" ELSE "close"]
    /\ UNCHANGED <<credVars, connVars, authVars, todo, doomed, serveVars>>

\* Connections on the list are closed after the unlock; the last one ends the scan.
CloseDoomed(p, c) ==
    /\ scan[p] = "close"
    /\ c \in doomed[p]
    /\ Close(c)
    /\ doomed' = [doomed EXCEPT ![p] = @ \ {c}]
    /\ scan' = [scan EXCEPT ![p] = IF doomed[p] = {c} THEN "idle" ELSE @]
    /\ UNCHANGED <<credVars, phase, timer, authVars, todo, serveVars>>

-----------------------------------------------------------------------------
\* Shutdown of Serve

\* The caller cancels ctx.
Cancel ==
    /\ ~cancelled
    /\ cancelled' = TRUE
    /\ UNCHANGED <<credVars, connVars, authVars, scanVars, serve, shutList>>

\* Accept returns an error, because of ctx or on its own; the deferred function
\* cancels serveCtx before anything else.
AcceptFails ==
    /\ serve = "accepting"
    /\ serve' = "closing"
    /\ cancelled' = TRUE
    /\ UNCHANGED <<credVars, connVars, authVars, scanVars, shutList>>

\* closeConnections copies the keys of s.states under the lock ...
SnapshotStates ==
    /\ serve = "closing"
    /\ MuFree
    /\ serve' = "waiting"
    /\ shutList' = Registered
    /\ UNCHANGED <<credVars, connVars, authVars, scanVars, cancelled>>

\* ... and closes them without it.
ShutClose(c) ==
    /\ c \in shutList
    /\ shutList' = shutList \ {c}
    /\ Close(c)
    /\ UNCHANGED <<credVars, phase, timer, authVars, scanVars, serve, cancelled>>

\* wg.Wait and <-watcherDone.
ServeStops ==
    /\ serve = "waiting"
    /\ shutList = {}
    /\ InUse = {}
    /\ scan["watcher"] = "done"
    /\ serve' = "stopped"
    /\ UNCHANGED <<credVars, connVars, authVars, scanVars, cancelled, shutList>>

\* The stopped server stays stopped.
Stopped ==
    /\ serve = "stopped"
    /\ scan["reload"] = "idle"
    /\ UNCHANGED vars

-----------------------------------------------------------------------------
Lifecycle(c) ==
    \/ Register(c) \/ CancelHook(c) \/ ServeReturns(c) \/ Unregister(c)
    \/ TimerFires(c) \/ TimerCloses(c)

Handshake(c) ==
    \/ (\E k \in Keys : ProofMatches(c, k))
    \/ ProofFails(c) \/ StoreKey(c) \/ Recheck(c) \/ Publish(c)
    \/ SendProof(c) \/ SendProofFails(c) \/ AuthFails(c)

Scan(p) ==
    \/ LockStates(p) \/ UnlockStates(p)
    \/ \E c \in Conns : ScanConn(p, c) \/ CloseDoomed(p, c)

Stopping == AcceptFails \/ SnapshotStates \/ (\E c \in Conns : ShutClose(c)) \/ ServeStops

Next ==
    \/ Tick \/ Cancel \/ Stopping \/ WatcherTick \/ WatcherExits \/ Stopped
    \/ \E s \in Snapshots : Update(s)
    \/ \E p \in Scanners : Scan(p)
    \/ \E c \in Conns :
          \/ PeerCloses(c) \/ Accept(c) \/ StartControl(c) \/ ControlEnds(c)
          \/ Lifecycle(c) \/ Handshake(c)

Spec == Init /\ [][Next]_vars

\* What the Go runtime and the code's deadlines guarantee, goroutine by goroutine: one that can
\* run does run, a mutex does not starve a waiter, a select with several ready cases picks at
\* random (strong fairness), and the callbacks of timers and of AfterFunc run. The peer owes
\* nothing: it need not connect, open the control stream, send a proof or close.
Fairness ==
    /\ \A c \in Conns :
          /\ SF_vars(Register(c) \/ ServeReturns(c) \/ Unregister(c))
          /\ WF_vars(CancelHook(c) \/ TimerFires(c) \/ TimerCloses(c))
          /\ WF_vars(Handshake(c) \/ (ControlEnds(c) /\ ~open[c]))
    /\ SF_vars(Scan("reload"))
    /\ SF_vars(WatcherTick \/ Scan("watcher")) /\ SF_vars(WatcherExits)
    /\ SF_vars((AcceptFails /\ cancelled) \/ SnapshotStates \/ (\E c \in Conns : ShutClose(c))
                   \/ ServeStops)

FairSpec == Spec /\ Fairness

-----------------------------------------------------------------------------
\* Properties

\* Every variable keeps its type.
TypeOK ==
    /\ now \in Times
    /\ current \in Snapshots
    /\ phase \in [Conns -> {"idle", "accepted", "serving", "draining"}]
    /\ open \in [Conns -> BOOLEAN]
    /\ timer \in [Conns -> {"off", "armed", "firing"}]
    /\ ctl \in [Conns -> {"none", "hello", "matched", "stored", "publish", "reply",
                          "ready", "failed", "done"}]
    /\ snap \in [Conns -> Snapshots \cup {NoKey}]
    /\ claim \in [Conns -> KeyOrNone]
    /\ authKey \in [Conns -> KeyOrNone]
    /\ authed \in [Conns -> BOOLEAN]
    /\ told \in [Conns -> BOOLEAN]
    /\ scan \in [Scanners -> {"idle", "lock", "scan", "close", "done"}]
    /\ todo \in [Scanners -> SUBSET Conns]
    /\ doomed \in [Scanners -> SUBSET Conns]
    /\ serve \in {"accepting", "closing", "waiting", "stopped"}
    /\ cancelled \in BOOLEAN
    /\ shutList \in SUBSET Conns

\* "Removed-key sessions are closed immediately": once ReloadCredentials has returned, no
\* authenticated connection is still open under a key the new snapshot does not hold,
\* however its handshake interleaved with the reload. Authenticate may have matched the
\* proof against a snapshot loaded before the reload.
NoRemovedKeySession ==
    scan["reload"] = "idle" =>
        \A c \in Conns : authed[c] /\ open[c] => ~Removed(authKey[c])

\* The readiness that TCP streams and datagrams are admitted by is published before the
\* client is told, so that a client never sees its first request refused; and the
\* deadline no longer runs on a connection whose client was told.
ReadyBeforeReply ==
    \A c \in Conns : told[c] => authed[c] /\ authKey[c] # NoKey /\ timer[c] # "armed"

\* A connection does not outlive its control stream, and leaves s.states closed: the only
\* open connections that no scan and no closeConnections can find are the newly accepted.
OpenIsReachable ==
    \A c \in Conns : open[c] => phase[c] \in {"accepted", "serving"} /\ ctl[c] # "done"

\* The connection's key was proved and is accepted now.
Entitled(c) == authed[c] /\ Accepts(current, authKey[c])

\* An open connection does not stay open without an accepted key: "An unauthenticated QUIC
\* connection has one authentication deadline starting at server accept", and a session whose
\* key was removed or expired is closed, unless a later reload accepts the key again.
UnacceptedExpelled ==
    \A c \in Conns : (open[c] /\ ~Entitled(c)) ~> (~open[c] \/ Entitled(c))

\* Cancellation closes the connections and joins every worker, also the ones of
\* connections accepted after the cancellation or not yet registered by it.
ShutdownCompletes == cancelled ~> (serve = "stopped")

\* The life of a connection as its request handlers observe it.
LifeOf(c) == IF phase[c] = "idle" THEN "none" ELSE IF open[c] THEN "open" ELSE "closed"
KeyValid(c) == authKey[c] # NoKey /\ Accepts(current, authKey[c])
Sess == INSTANCE Session WITH
    state <- [c \in Conns |-> LifeOf(c)],
    ready <- authed,
    valid <- [c \in Conns |-> KeyValid(c)]

\* The server implements Session: a connection becomes ready at most once and is never
\* reopened, its name is reused only after it closed, and nothing of the old session
\* (readiness, key) carries over to the next connection.
ImplementsSession == Sess!Spec

-----------------------------------------------------------------------------
\* The inductive invariant behind the safety properties

\* The control handler runs only inside handleConn's serving phase, and its progress
\* determines which of the session's fields are set.
HandshakeOrder ==
    \A c \in Conns :
        /\ ctl[c] # "none" => c \in Registered
        /\ ctl[c] \notin {"none", "done"} => phase[c] = "serving"
        /\ ctl[c] = "matched" => claim[c] # NoKey
        /\ ctl[c] \in {"stored", "publish", "reply", "ready"} => authKey[c] # NoKey
        /\ ctl[c] \in {"reply", "ready"} => authed[c]
        /\ authed[c] => /\ authKey[c] # NoKey
                        /\ ctl[c] \in {"reply", "ready", "failed", "done"}
                        /\ timer[c] # "armed"
        /\ told[c] => authed[c]
        /\ authKey[c] # NoKey => ctl[c] # "none"

\* A scan works on registered connections only, because it holds s.mu, and leaves nothing
\* behind when it ends.
ScanDiscipline ==
    \A p \in Scanners :
        /\ todo[p] \subseteq Registered
        /\ scan[p] # "scan" => todo[p] = {}
        /\ scan[p] \in {"idle", "lock", "done"} => doomed[p] = {}
        /\ \A q \in Scanners : scan[p] = "scan" /\ scan[q] = "scan" => p = q

\* The running reload will still close c.
RevocationPending(c) ==
    scan["reload"] = "lock" \/ c \in todo["reload"] \/ c \in doomed["reload"]

\* From the moment the recheck has passed, an open connection with a removed key is one
\* that the running reload will still close.
RemovedKeyPending ==
    \A c \in Conns :
        (authed[c] \/ ctl[c] = "publish") /\ open[c] /\ Removed(authKey[c])
            => RevocationPending(c)

\* The inductive invariant: the conjunction of the parts above.
IInv == TypeOK /\ HandshakeOrder /\ OpenIsReachable /\ ScanDiscipline /\ RemovedKeyPending

=============================================================================
