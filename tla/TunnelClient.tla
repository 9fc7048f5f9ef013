---------------------------- MODULE TunnelClient ----------------------------
(***************************************************************************)
(* The tunnel client (client/client.go): the reconnect loop Run, callers   *)
(* of OpenTCP that wait for a tunnel and own stream and codec leases, the  *)
(* streams they are handed, and UDP sessions.                              *)
(*                                                                         *)
(* A caller and the stream it is handed share one name. Everything under   *)
(* c.mu is one action; c.udpMu is held while a session is "checked".       *)
(***************************************************************************)
EXTENDS Integers, FiniteSets

CONSTANTS
    Callers,              \* names of OpenTCP calls and of the streams they return
    Tunnels,              \* names of authenticated connections, reused once forgotten
    Sessions,             \* names of UDP sessions
    NoTunnel,             \* nil
    MaxActiveStreams,     \* capacity of c.active
    MaxPendingRequests,   \* capacity of c.pending
    MaxCompressedStreams, \* capacity of c.codecs
    MaxUDPSessions,       \* opt.MaxUDPSessions
    RecvSize,             \* capacity of UDPSession.recv
    Compression           \* opt.Compression

ASSUME ClientAssumption ==
    /\ NoTunnel \notin Tunnels
    /\ IsFiniteSet(Callers)
    /\ MaxActiveStreams \in Nat \ {0}
    /\ MaxPendingRequests \in Nat \ {0}
    /\ MaxCompressedStreams \in Nat \ {0}
    /\ MaxUDPSessions \in Nat \ {0}
    /\ RecvSize \in Nat \ {0}
    /\ Compression \in BOOLEAN

VARIABLES
    ctxDone,   \* the context of Run is done
    run,       \* progress of Run
    current,   \* the connection Run is serving
    live,      \* c.live
    stopped,   \* c.stopped
    alive,     \* the connection's context is not done
    dispatch,  \* the datagram dispatcher of the current connection
    pc,        \* progress of OpenTCP, then the stream it returned
    tun,       \* the connection the caller looked up
    chan,      \* the ready channel the caller captured: none, c.ready, or a closed one
    codec,     \* the caller or stream holds a codec lease
    released,  \* the stream's release function ran
    active,    \* c.active.InUse()
    pending,   \* len(c.pending)
    codecs,    \* c.codecs.InUse()
    session,   \* the life of each UDP session
    routes,    \* c.udpRoutes
    inbox,     \* len(UDPSession.recv)
    dest       \* the sessions the dispatcher holds a datagram for: none or one

runVars == <<run, current, live, stopped, dispatch>>
callVars == <<pc, tun, chan, codec, released>>
budgets == <<active, pending, codecs>>
udpVars == <<session, routes, inbox, dest>>
vars == <<ctxDone, run, current, live, stopped, alive, dispatch, pc, tun, chan, codec, released,
          active, pending, codecs, session, routes, inbox, dest>>

Goto(o, l) == pc' = [pc EXCEPT ![o] = l]

UdpMuFree == \A u \in Sessions : session[u] # "checked"

\* close(c.ready); c.ready = make(chan struct{}): wakes everyone who captured the old channel.
CloseReady == chan' = [o \in Callers |-> IF chan[o] = "ready" THEN "closed" ELSE chan[o]]

HoldsActive == {o \in Callers : pc[o] # "idle" /\ ~released[o]}
HoldsPending == {o \in Callers : pc[o] \notin {"idle", "leased", "release", "stream"}}
HoldsCodec == {o \in Callers : codec[o]}

-----------------------------------------------------------------------------
Init ==
    /\ ctxDone = FALSE
    /\ run = "dial"
    /\ current = NoTunnel
    /\ live = NoTunnel
    /\ stopped = FALSE
    /\ alive = [t \in Tunnels |-> FALSE]
    /\ dispatch = "none"
    /\ pc = [o \in Callers |-> "idle"]
    /\ tun = [o \in Callers |-> NoTunnel]
    /\ chan = [o \in Callers |-> "none"]
    /\ codec = [o \in Callers |-> FALSE]
    /\ released = [o \in Callers |-> FALSE]
    /\ active = 0
    /\ pending = 0
    /\ codecs = 0
    /\ session = [u \in Sessions |-> "none"]
    /\ routes = {}
    /\ inbox = [u \in Sessions |-> 0]
    /\ dest = {}

Cancel ==
    /\ ~ctxDone
    /\ ctxDone' = TRUE
    /\ UNCHANGED <<runVars, alive, callVars, budgets, udpVars>>

\* The server or the network ends a connection, or the AfterFunc of runHeartbeat does.
Dies(t) ==
    /\ alive[t]
    /\ alive' = [alive EXCEPT ![t] = FALSE]
    /\ UNCHANGED <<ctxDone, runVars, callVars, budgets, udpVars>>

-----------------------------------------------------------------------------
\* Run

\* dialAuth succeeds; setConn publishes the connection and wakes the waiting callers.
Connects(t) ==
    /\ run = "dial"
    /\ ~ctxDone
    /\ ~alive[t]
    /\ \A o \in Callers : tun[o] # t
    /\ run' = "up"
    /\ current' = t
    /\ live' = t
    /\ alive' = [alive EXCEPT ![t] = TRUE]
    /\ dispatch' = "running"
    /\ CloseReady
    /\ UNCHANGED <<ctxDone, stopped, pc, tun, codec, released, budgets, udpVars>>

DialFails ==
    /\ run = "dial"
    /\ run' = IF ctxDone THEN "stop" ELSE "backoff"
    /\ UNCHANGED <<ctxDone, current, live, stopped, dispatch, alive, callVars, budgets, udpVars>>

\* A ping fails or times out, the connection ended, or ctx is done.
HeartbeatEnds ==
    /\ run = "up"
    /\ run' = "clear"
    /\ UNCHANGED <<ctxDone, current, live, stopped, dispatch, alive, callVars, budgets, udpVars>>

ClearConn ==
    /\ run = "clear"
    /\ run' = "close"
    /\ live' = IF live = current THEN NoTunnel ELSE live
    /\ UNCHANGED <<ctxDone, current, stopped, dispatch, alive, callVars, budgets, udpVars>>

CloseConn ==
    /\ run = "close"
    /\ run' = "join"
    /\ alive' = [alive EXCEPT ![current] = FALSE]
    /\ UNCHANGED <<ctxDone, current, live, stopped, dispatch, callVars, budgets, udpVars>>

DispatcherExits ==
    /\ dispatch = "running"
    /\ dest = {}
    /\ ~alive[current]
    /\ dispatch' = "done"
    /\ UNCHANGED <<ctxDone, run, current, live, stopped, alive, callVars, budgets, udpVars>>

\* Run joins the dispatcher before it reconnects.
JoinDispatcher ==
    /\ run = "join"
    /\ dispatch = "done"
    /\ dispatch' = "none"
    /\ current' = NoTunnel
    /\ run' = IF ctxDone THEN "stop" ELSE "backoff"
    /\ UNCHANGED <<ctxDone, live, stopped, alive, callVars, budgets, udpVars>>

BackoffEnds ==
    /\ run = "backoff"
    /\ run' = IF ctxDone THEN "stop" ELSE "dial"
    /\ UNCHANGED <<ctxDone, current, live, stopped, dispatch, alive, callVars, budgets, udpVars>>

\* The deferred function marks the client stopped and wakes the waiting callers ...
Stop ==
    /\ run = "stop"
    /\ run' = "stopudp"
    /\ stopped' = TRUE
    /\ live' = NoTunnel
    /\ CloseReady
    /\ UNCHANGED <<ctxDone, current, dispatch, alive, pc, tun, codec, released, budgets, udpVars>>

\* Mutant of StopUDP: c.udpMu is not taken.
StopUDPUnlocked ==
    /\ run = "stopudp"
    /\ run' = "stopped"
    /\ session' = [u \in Sessions |-> IF u \in routes THEN "stopped" ELSE session[u]]
    /\ routes' = {}
    /\ UNCHANGED <<ctxDone, current, live, stopped, dispatch, alive, callVars, budgets, inbox, dest>>

\* ... then stops the UDP sessions under c.udpMu.
StopUDP ==
    /\ run = "stopudp"
    /\ UdpMuFree
    /\ run' = "stopped"
    /\ session' = [u \in Sessions |-> IF u \in routes THEN "stopped" ELSE session[u]]
    /\ routes' = {}
    /\ UNCHANGED <<ctxDone, current, live, stopped, dispatch, alive, callVars, budgets, inbox, dest>>

-----------------------------------------------------------------------------
\* OpenTCP

\* c.active.TryAcquire; without room the call fails and nothing changes.
Open(o) ==
    /\ pc[o] = "idle"
    /\ active < MaxActiveStreams
    /\ active' = active + 1
    /\ Goto(o, "leased")
    /\ UNCHANGED <<ctxDone, runVars, alive, tun, chan, codec, released, pending, codecs, udpVars>>

TakePending(o) ==
    /\ pc[o] = "leased"
    /\ IF pending < MaxPendingRequests
       THEN Goto(o, "look") /\ pending' = pending + 1
       ELSE Goto(o, "release") /\ UNCHANGED pending
    /\ UNCHANGED <<ctxDone, runVars, alive, tun, chan, codec, released, active, codecs, udpVars>>

\* getConn captures c.live and c.ready in one critical section ...
Look(o) ==
    /\ pc[o] = "look"
    /\ IF stopped
       THEN Goto(o, "fail") /\ UNCHANGED <<tun, chan>>
       ELSE /\ Goto(o, "check")
            /\ tun' = [tun EXCEPT ![o] = live]
            /\ chan' = [chan EXCEPT ![o] = "ready"]
    /\ UNCHANGED <<ctxDone, runVars, alive, codec, released, budgets, udpVars>>

\* Mutant of Check: the ready channel is read after the critical section.
CheckRecaptures(o) ==
    /\ pc[o] = "check"
    /\ IF tun[o] # NoTunnel /\ alive[tun[o]]
       THEN Goto(o, "connect") /\ chan' = [chan EXCEPT ![o] = "none"] /\ UNCHANGED tun
       ELSE Goto(o, "wait") /\ tun' = [tun EXCEPT ![o] = NoTunnel]
            /\ chan' = [chan EXCEPT ![o] = "ready"]
    /\ UNCHANGED <<ctxDone, runVars, alive, codec, released, budgets, udpVars>>

\* ... and looks at the connection after it.
Check(o) ==
    /\ pc[o] = "check"
    /\ IF tun[o] # NoTunnel /\ alive[tun[o]]
       THEN Goto(o, "connect") /\ chan' = [chan EXCEPT ![o] = "none"] /\ UNCHANGED tun
       ELSE Goto(o, "wait") /\ tun' = [tun EXCEPT ![o] = NoTunnel] /\ UNCHANGED chan
    /\ UNCHANGED <<ctxDone, runVars, alive, codec, released, budgets, udpVars>>

Wake(o) ==
    /\ pc[o] = "wait"
    /\ chan[o] = "closed"
    /\ Goto(o, "look")
    /\ chan' = [chan EXCEPT ![o] = "none"]
    /\ UNCHANGED <<ctxDone, runVars, alive, tun, codec, released, budgets, udpVars>>

\* openTunnelStream: the server answered the CONNECT with 200.
StreamOpens(o) ==
    /\ pc[o] = "connect"
    /\ alive[tun[o]]
    /\ Goto(o, "codec")
    /\ UNCHANGED <<ctxDone, runVars, alive, tun, chan, codec, released, budgets, udpVars>>

\* The compression flag is requested only with a codec lease.
Requests(o, wantCompress) ==
    /\ pc[o] = "codec"
    /\ Goto(o, "reply")
    /\ IF wantCompress /\ Compression /\ codecs < MaxCompressedStreams
       THEN codec' = [codec EXCEPT ![o] = TRUE] /\ codecs' = codecs + 1
       ELSE UNCHANGED <<codec, codecs>>
    /\ UNCHANGED <<ctxDone, runVars, alive, tun, chan, released, active, pending, udpVars>>

\* The reply is good: a codec the server declined is released and the stream takes over the
\* leases. An unrequested flag fails the call instead.
HandOff(o, compressed) ==
    /\ pc[o] = "reply"
    /\ compressed => codec[o]
    /\ Goto(o, "return")
    /\ codec' = [codec EXCEPT ![o] = compressed]
    /\ codecs' = IF codec[o] /\ ~compressed THEN codecs - 1 ELSE codecs
    /\ UNCHANGED <<ctxDone, runVars, alive, tun, chan, released, active, pending, udpVars>>

\* The request timeout, the caller's context, the tunnel or the server ends the call.
CallFails(o) ==
    /\ pc[o] \in {"wait", "connect", "reply"}
    /\ Goto(o, "fail")
    /\ UNCHANGED <<ctxDone, runVars, alive, tun, chan, codec, released, budgets, udpVars>>

\* The defers: the pending slot and, when nothing was handed off, the leases after it.
FreePending(o) ==
    /\ pc[o] \in {"fail", "return"}
    /\ Goto(o, IF pc[o] = "fail" THEN "release" ELSE "stream")
    /\ pending' = pending - 1
    /\ UNCHANGED <<ctxDone, runVars, alive, tun, chan, codec, released, active, codecs, udpVars>>

\* The stream or call o ends and forgets its tunnel.
Forget(o) ==
    /\ Goto(o, "idle")
    /\ tun' = [tun EXCEPT ![o] = NoTunnel]
    /\ chan' = [chan EXCEPT ![o] = "none"]
    /\ codec' = [codec EXCEPT ![o] = FALSE]
    /\ released' = [released EXCEPT ![o] = FALSE]

ReleaseLeases(o) ==
    /\ pc[o] = "release"
    /\ active' = active - 1
    /\ codecs' = IF codec[o] THEN codecs - 1 ELSE codecs
    /\ Forget(o)
    /\ UNCHANGED <<ctxDone, runVars, alive, pending, udpVars>>

-----------------------------------------------------------------------------
\* Streams

\* The AfterFunc on the connection's context runs release when the tunnel ends.
ReleaseHook(o) ==
    /\ pc[o] \in {"return", "stream"}
    /\ ~alive[tun[o]]
    /\ ~released[o]
    /\ released' = [released EXCEPT ![o] = TRUE]
    /\ active' = active - 1
    /\ codecs' = IF codec[o] THEN codecs - 1 ELSE codecs
    /\ codec' = [codec EXCEPT ![o] = FALSE]
    /\ UNCHANGED <<ctxDone, runVars, alive, pc, tun, chan, pending, udpVars>>

\* Mutant of CloseStream: the active lease is left to the hook, which Close has stopped.
CloseStreamKeepsLease(o) ==
    /\ pc[o] = "stream"
    /\ active' = active
    /\ codecs' = IF codec[o] THEN codecs - 1 ELSE codecs
    /\ Forget(o)
    /\ UNCHANGED <<ctxDone, runVars, alive, pending, udpVars>>

\* Close stops the hook and runs release, which the hook may have run already. CloseWrite
\* only sends FIN: a half-closed stream keeps its leases.
CloseStream(o) ==
    /\ pc[o] = "stream"
    /\ active' = IF released[o] THEN active ELSE active - 1
    /\ codecs' = IF codec[o] THEN codecs - 1 ELSE codecs
    /\ Forget(o)
    /\ UNCHANGED <<ctxDone, runVars, alive, pending, udpVars>>

-----------------------------------------------------------------------------
\* UDP sessions

\* NewUDPSession takes c.udpMu and then reads c.stopped; stopped or full, it fails ...
NewSession(u) ==
    /\ session[u] = "none"
    /\ u \notin dest
    /\ UdpMuFree
    /\ ~stopped
    /\ Cardinality(routes) < MaxUDPSessions
    /\ session' = [session EXCEPT ![u] = "checked"]
    /\ UNCHANGED <<ctxDone, runVars, alive, callVars, budgets, routes, inbox, dest>>

\* ... and otherwise registers the session before it unlocks.
Register(u) ==
    /\ session[u] = "checked"
    /\ session' = [session EXCEPT ![u] = "open"]
    /\ routes' = routes \cup {u}
    /\ UNCHANGED <<ctxDone, runVars, alive, callVars, budgets, inbox, dest>>

CloseSession(u) ==
    /\ session[u] \in {"open", "stopped"}
    /\ UdpMuFree
    /\ session' = [session EXCEPT ![u] = "none"]
    /\ routes' = routes \ {u}
    /\ inbox' = [inbox EXCEPT ![u] = 0]
    /\ UNCHANGED <<ctxDone, runVars, alive, callVars, budgets, dest>>

\* dispatchDatagrams finds the session of a datagram under c.udpMu ...
Lookup(u) ==
    /\ dispatch = "running"
    /\ dest = {}
    /\ UdpMuFree
    /\ u \in routes
    /\ dest' = {u}
    /\ UNCHANGED <<ctxDone, runVars, alive, callVars, budgets, session, routes, inbox>>

\* Mutant of Deliver: the dispatcher waits for room.
DeliverBlocking(u) ==
    /\ u \in dest
    /\ session[u] = "open" => inbox[u] < RecvSize
    /\ dest' = {}
    /\ inbox' = IF session[u] = "open" /\ inbox[u] < RecvSize
                THEN [inbox EXCEPT ![u] = @ + 1] ELSE inbox
    /\ UNCHANGED <<ctxDone, runVars, alive, callVars, budgets, session, routes>>

\* ... and delivers it without waiting: a session that is done or full loses it.
Deliver(u) ==
    /\ u \in dest
    /\ dest' = {}
    /\ inbox' = IF session[u] = "open" /\ inbox[u] < RecvSize
                THEN [inbox EXCEPT ![u] = @ + 1] ELSE inbox
    /\ UNCHANGED <<ctxDone, runVars, alive, callVars, budgets, session, routes>>

\* The owner of the session receives.
Recv(u) ==
    /\ session[u] \in {"open", "stopped"}
    /\ inbox[u] > 0
    /\ inbox' = [inbox EXCEPT ![u] = @ - 1]
    /\ UNCHANGED <<ctxDone, runVars, alive, callVars, budgets, session, routes, dest>>

\* Run has returned and nobody uses the client any more.
Finished ==
    /\ run = "stopped"
    /\ \A o \in Callers : pc[o] = "idle"
    /\ UNCHANGED vars

-----------------------------------------------------------------------------
Loop ==
    \/ DialFails \/ ClearConn \/ CloseConn \/ JoinDispatcher \/ BackoffEnds \/ Stop \/ StopUDP

Call(o) ==
    \/ TakePending(o) \/ Look(o) \/ Check(o) \/ Wake(o) \/ StreamOpens(o)
    \/ (\E b \in BOOLEAN : Requests(o, b) \/ HandOff(o, b))
    \/ CallFails(o) \/ FreePending(o) \/ ReleaseLeases(o)

Next ==
    \/ Cancel \/ Loop \/ HeartbeatEnds \/ DispatcherExits \/ Finished
    \/ \E t \in Tunnels : Dies(t) \/ Connects(t)
    \/ \E o \in Callers : Open(o) \/ Call(o) \/ ReleaseHook(o) \/ CloseStream(o)
    \/ \E u \in Sessions : NewSession(u) \/ Register(u) \/ CloseSession(u)
                          \/ Lookup(u) \/ Deliver(u) \/ Recv(u)

Spec == Init /\ [][Next]_vars

\* Run keeps taking steps; a heartbeat need only end once its connection or its context is
\* done, and a dial may hang no longer than HandshakeTimeout. A call that keeps
\* waiting for tunnels runs into RequestTimeout. A dead connection has finitely many datagrams
\* left, so its dispatcher gets to the error after them.
Fairness ==
    /\ WF_vars(Loop)
    /\ SF_vars(DispatcherExits)
    /\ WF_vars(HeartbeatEnds /\ (ctxDone \/ ~alive[current]))
    /\ \A o \in Callers : WF_vars(Call(o)) /\ SF_vars(CallFails(o)) /\ WF_vars(ReleaseHook(o))
    /\ \A u \in Sessions : WF_vars(Register(u)) /\ WF_vars(Deliver(u))

FairSpec == Spec /\ Fairness

-----------------------------------------------------------------------------
\* Every variable keeps its type, and the counters and inboxes stay within their limits.
TypeOK ==
    /\ ctxDone \in BOOLEAN
    /\ run \in {"dial", "up", "clear", "close", "join", "backoff", "stop", "stopudp", "stopped"}
    /\ current \in Tunnels \cup {NoTunnel}
    /\ live \in Tunnels \cup {NoTunnel}
    /\ stopped \in BOOLEAN
    /\ alive \in [Tunnels -> BOOLEAN]
    /\ dispatch \in {"none", "running", "done"}
    /\ pc \in [Callers -> {"idle", "leased", "look", "check", "wait", "connect", "codec", "reply",
                           "return", "stream", "fail", "release"}]
    /\ tun \in [Callers -> Tunnels \cup {NoTunnel}]
    /\ chan \in [Callers -> {"none", "ready", "closed"}]
    /\ codec \in [Callers -> BOOLEAN]
    /\ released \in [Callers -> BOOLEAN]
    /\ active \in 0..MaxActiveStreams
    /\ pending \in 0..MaxPendingRequests
    /\ codecs \in 0..MaxCompressedStreams
    /\ session \in [Sessions -> {"none", "checked", "open", "stopped"}]
    /\ routes \subseteq Sessions
    /\ inbox \in [Sessions -> 0..RecvSize]
    /\ dest \subseteq Sessions

\* No lost wakeup in getConn: a caller that waits on the current ready channel has missed
\* nothing. There is no usable connection it could have taken and the client is not stopped,
\* however Run's setConn, clearConn and stop interleave with the caller's unlocked check.
NoLostWakeup ==
    /\ TypeOK
    /\ \A o \in Callers : pc[o] = "wait" /\ chan[o] = "ready" =>
        /\ ~stopped
        /\ live # NoTunnel => ~alive[live]

Active == INSTANCE Budget
    WITH Leases <- Callers, Limit <- MaxActiveStreams, inUse <- active, holders <- HoldsActive
Codecs == INSTANCE Budget
    WITH Leases <- Callers, Limit <- MaxCompressedStreams, inUse <- codecs, holders <- HoldsCodec
Pending == INSTANCE Budget
    WITH Leases <- Callers, Limit <- MaxPendingRequests, inUse <- pending, holders <- HoldsPending

\* The stream leases, the codec leases and the slots of c.pending are budgets: each is counted
\* exactly once until it is given back, through early returns, a declined codec, the hand-off to
\* the stream, and Close racing with the death of the tunnel.
UsesBudgets == Active!Spec /\ Codecs!Spec /\ Pending!Spec

\* No UDP session outlives Run: a NewUDPSession racing with the end of Run either fails or is
\* stopped by it, so no session stays registered or unstopped after Run returned.
NoSessionOutlivesRun ==
    run = "stopped" => routes = {} /\ \A u \in Sessions : session[u] \in {"none", "stopped"}

\* Leases come back when the tunnel dies, even if the owner of the stream never closes it; and a
\* cancelled Run returns, joining the dispatcher although nobody receives from the sessions.
EndsSettle ==
    /\ \A o \in Callers :
        pc[o] = "stream" /\ tun[o] # NoTunnel /\ ~alive[tun[o]] ~> released[o] \/ pc[o] = "idle"
    /\ ctxDone ~> run = "stopped"

=============================================================================
