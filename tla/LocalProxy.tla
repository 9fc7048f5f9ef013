----------------------------- MODULE LocalProxy -----------------------------
(***************************************************************************)
(* The client's two listeners (proxy/proxy.go, socks5.go, http.go): the    *)
(* connection slots and the table of tracked connections that they share,  *)
(* the accept loops, the workers, and the shutdown of each listener.       *)
(* http.Server is external: it starts a goroutine per accepted connection, *)
(* calls the handler once per request, and Serve returns when the listener *)
(* fails or is closed. The pool of outgoing streams of plain requests is   *)
(* the module HttpTransport, instantiated as T: serveHTTP closes it before *)
(* it waits for its workers. What a worker relays is the module Relay.     *)
(***************************************************************************)
EXTENDS Integers, FiniteSets

CONSTANTS
    Conns,           \* names of local connections
    MaxConnections,  \* capacity of p.slots
    Dials            \* names of DialContext calls of the transport

ASSUME LocalProxyAssumption ==
    IsFiniteSet(Conns) /\ MaxConnections \in Nat \ {0} /\ IsFiniteSet(Dials)

VARIABLES
    ctx,      \* each listener's context is done
    hook,     \* the AfterFunc of its context ran: the listener is closed
    stage,    \* progress of serveSOCKS and serveHTTP
    stopping, \* serveHTTP's gate
    owner,    \* the listener that accepted a connection
    conn,     \* progress of a connection
    open,     \* connections that are open
    tracked,  \* p.conns
    slots,    \* len(p.slots)
    remote,   \* workers that hold a tunnel stream
    closing, conns, dial, dials, streams, active, list, closer  \* of HttpTransport

proxyVars == <<ctx, hook, stage, stopping, owner, conn, open, tracked, slots, remote>>
poolVars == <<closing, conns, dial, dials, streams, active, list, closer>>
vars == <<proxyVars, poolVars>>

T == INSTANCE HttpTransport WITH open <- streams

Listeners == {"socks", "http"}

Init ==
    /\ ctx = [l \in Listeners |-> FALSE]
    /\ hook = [l \in Listeners |-> FALSE]
    /\ stage = [l \in Listeners |-> "serving"]
    /\ stopping = FALSE
    /\ owner = [c \in Conns |-> "none"]
    /\ conn = [c \in Conns |-> "none"]
    /\ open = {} /\ tracked = {} /\ slots = 0 /\ remote = {}
    /\ T!Init

\* Mutant of CloseConns: every Close gives a slot back.
CloseConnsTwice(cs) ==
    /\ open' = open \ cs
    /\ tracked' = tracked \ cs
    /\ slots' = slots - Cardinality(cs)

\* trackedConn.Close, any number of times: the connection is closed, and the first time it leaves
\* the table and gives its slot back.
CloseConns(cs) ==
    /\ open' = open \ cs
    /\ tracked' = tracked \ cs
    /\ slots' = slots - Cardinality(cs \cap open)

-----------------------------------------------------------------------------
\* Accepting: one connection at a time per listener

Accepting(l) == \E c \in Conns : owner[c] = l /\ conn[c] \in {"slotted", "tracked"}

\* Accept returned and track got a slot; a connection without a slot is closed at once.
Accept(l, c) ==
    /\ stage[l] = "serving" /\ ~hook[l] /\ ~Accepting(l)
    /\ conn[c] = "none"
    /\ slots < MaxConnections
    /\ slots' = slots + 1
    /\ owner' = [owner EXCEPT ![c] = l]
    /\ conn' = [conn EXCEPT ![c] = "slotted"]
    /\ open' = open \cup {c}
    /\ UNCHANGED <<ctx, hook, stage, stopping, tracked, remote>>

\* track enters the connection in the table.
Track(c) ==
    /\ conn[c] = "slotted"
    /\ tracked' = tracked \cup {c}
    /\ conn' = [conn EXCEPT ![c] = "tracked"]
    /\ UNCHANGED <<ctx, hook, stage, stopping, owner, open, slots, remote>>

\* serveSOCKS starts the worker, or returns because its context is done.
StartSOCKS(c) ==
    /\ conn[c] = "tracked" /\ owner[c] = "socks"
    /\ IF ctx["socks"]
       THEN /\ CloseConns({c})
            /\ conn' = [conn EXCEPT ![c] = "none"]
            /\ stage' = [stage EXCEPT !["socks"] = "leaving"]
       ELSE /\ conn' = [conn EXCEPT ![c] = "working"]
            /\ UNCHANGED <<open, tracked, slots, stage>>
    /\ UNCHANGED <<ctx, hook, stopping, owner, remote>>

\* http.Server starts serving the connection.
StartHTTP(c) ==
    /\ conn[c] = "tracked" /\ owner[c] = "http"
    /\ conn' = [conn EXCEPT ![c] = "idle"]
    /\ UNCHANGED <<ctx, hook, stage, stopping, owner, open, tracked, slots, remote>>

\* Accept fails: the listener was closed, or broke.
AcceptFails(l) ==
    /\ stage[l] = "serving" /\ ~Accepting(l)
    /\ stage' = [stage EXCEPT ![l] = "leaving"]
    /\ UNCHANGED <<ctx, hook, stopping, owner, conn, open, tracked, slots, remote>>

-----------------------------------------------------------------------------
\* Working

\* A request arrives on an HTTP connection and passes the gate; a stopping server drops it.
Request(c) ==
    /\ conn[c] = "idle" /\ c \in open
    /\ ~stopping
    /\ conn' = [conn EXCEPT ![c] = "working"]
    /\ UNCHANGED <<ctx, hook, stage, stopping, owner, open, tracked, slots, remote>>

\* dialStream succeeds: a SOCKS CONNECT or an HTTP CONNECT holds a stream.
Dialled(c) ==
    /\ conn[c] = "working" /\ c \notin remote
    /\ ~ctx[owner[c]]
    /\ remote' = remote \cup {c}
    /\ UNCHANGED <<ctx, hook, stage, stopping, owner, conn, open, tracked, slots>>

\* A worker returns, and its deferred closes run. An HTTP connection may go on to its next
\* request.
WorkEnds(c) ==
    /\ conn[c] = "working"
    /\ remote' = remote \ {c}
    /\ \/ /\ CloseConns({c})
          /\ conn' = [conn EXCEPT ![c] = "none"]
       \/ /\ owner[c] = "http" /\ c \notin remote
          /\ conn' = [conn EXCEPT ![c] = "idle"]
          /\ UNCHANGED <<open, tracked, slots>>
    /\ UNCHANGED <<ctx, hook, stage, stopping, owner>>

\* http.Server is done with a connection: it was closed, or timed out.
IdleEnds(c) ==
    /\ conn[c] = "idle"
    /\ CloseConns({c})
    /\ conn' = [conn EXCEPT ![c] = "none"]
    /\ UNCHANGED <<ctx, hook, stage, stopping, owner, remote>>

\* The context of handleSOCKS is done: its AfterFunc closes the connection.
ConnHook(c) ==
    /\ conn[c] = "working" /\ owner[c] = "socks" /\ ctx["socks"]
    /\ c \in open
    /\ CloseConns({c})
    /\ UNCHANGED <<ctx, hook, stage, stopping, owner, conn, remote>>

-----------------------------------------------------------------------------
\* Stopping

\* The client stops: both listeners' contexts derive from one.
Cancel ==
    /\ \E l \in Listeners : ~ctx[l]
    /\ ctx' = [l \in Listeners |-> TRUE]
    /\ UNCHANGED <<hook, stage, stopping, owner, conn, open, tracked, slots, remote>>

\* Mutant of Hook: a listener that still serves is not closed.
HookLate(l) ==
    /\ ctx[l] /\ ~hook[l] /\ stage[l] # "serving"
    /\ hook' = [hook EXCEPT ![l] = TRUE]
    /\ CloseConns(tracked)
    /\ UNCHANGED <<ctx, stage, stopping, owner, conn, remote>>

\* The AfterFunc of a listener's context closes the listener and every tracked connection, also
\* the other listener's.
Hook(l) ==
    /\ ctx[l] /\ ~hook[l]
    /\ hook' = [hook EXCEPT ![l] = TRUE]
    /\ CloseConns(tracked)
    /\ UNCHANGED <<ctx, stage, stopping, owner, conn, remote>>

\* The deferred function of serveHTTP first closes the gate.
CloseGate ==
    /\ stage["http"] = "leaving" /\ ~stopping
    /\ stopping' = TRUE
    /\ UNCHANGED <<ctx, hook, stage, owner, conn, open, tracked, slots, remote>>

\* Both then cancel the context and close the listener and every tracked connection.
Sweep(l) ==
    /\ stage[l] = "leaving"
    /\ l = "http" => stopping
    /\ ctx' = [ctx EXCEPT ![l] = TRUE]
    /\ CloseConns(tracked)
    /\ stage' = [stage EXCEPT ![l] = "waiting"]
    /\ UNCHANGED <<hook, stopping, owner, conn, remote>>

\* workers.Wait, for serveHTTP after closeTransport
Return(l) ==
    /\ stage[l] = "waiting"
    /\ l = "http" => closer = "returned"
    /\ \A c \in Conns : owner[c] = l => conn[c] # "working"
    /\ stage' = [stage EXCEPT ![l] = "returned"]
    /\ UNCHANGED <<ctx, hook, stopping, owner, conn, open, tracked, slots, remote>>

-----------------------------------------------------------------------------
\* The transport

\* A dial starts for a plain request that is being served, and goes on without it.
Dial(d) ==
    /\ UNCHANGED proxyVars
    /\ \/ T!Enter(d) /\ \E c \in Conns : owner[c] = "http" /\ conn[c] = "working"
       \/ T!Opens(d) \/ T!TransportCloses(d)

DialEnds(d) == T!DialSteps(d) /\ UNCHANGED proxyVars

\* closeTransport in serveHTTP's deferred function, after closeConnections
CloseTransport == stage["http"] = "waiting" /\ T!Closer /\ UNCHANGED proxyVars

-----------------------------------------------------------------------------
Listener(l) ==
    /\ \/ Sweep(l) \/ Return(l)
       \/ l = "http" /\ CloseGate
       \/ \E c \in Conns : owner[c] = l /\ (Track(c) \/ StartSOCKS(c) \/ StartHTTP(c))
    /\ UNCHANGED poolVars

Worker(c) ==
    /\ Request(c) \/ Dialled(c) \/ WorkEnds(c) \/ IdleEnds(c) \/ ConnHook(c)
    /\ UNCHANGED poolVars

Other ==
    /\ \/ \E l \in Listeners : AcceptFails(l) \/ Hook(l) \/ \E c \in Conns : Accept(l, c)
       \/ Cancel
    /\ UNCHANGED poolVars

Next ==
    \/ \E l \in Listeners : Listener(l)
    \/ \E c \in Conns : Worker(c)
    \/ \E d \in Dials : Dial(d) \/ DialEnds(d)
    \/ Other \/ CloseTransport

Spec == Init /\ [][Next]_vars

\* Goroutines run; a closed listener fails Accept; a worker returns when its connection is closed
\* or its context is done (every read, write and dial of it fails), and so does a dial of the
\* transport, by its timeout at the latest.
Fairness ==
    /\ \A l \in Listeners :
          /\ WF_vars(Listener(l))
          /\ WF_vars(UNCHANGED poolVars /\ (Hook(l) \/ (hook[l] /\ AcceptFails(l))))
    /\ \A c \in Conns :
          WF_vars(/\ UNCHANGED poolVars
                  /\ \/ ConnHook(c)
                     \/ (c \notin open \/ (owner[c] # "none" /\ ctx[owner[c]])) /\ WorkEnds(c))
    /\ WF_vars(\E d \in Dials : DialEnds(d)) /\ WF_vars(CloseTransport)

FairSpec == Spec /\ Fairness

-----------------------------------------------------------------------------
\* Properties

\* Every variable keeps its type, and the slots their limit.
TypeOK ==
    /\ ctx \in [Listeners -> BOOLEAN] /\ hook \in [Listeners -> BOOLEAN]
    /\ stage \in [Listeners -> {"serving", "leaving", "waiting", "returned"}]
    /\ stopping \in BOOLEAN
    /\ owner \in [Conns -> Listeners \cup {"none"}]
    /\ conn \in [Conns -> {"none", "slotted", "tracked", "idle", "working"}]
    /\ open \subseteq Conns /\ tracked \subseteq open /\ remote \subseteq Conns
    /\ slots \in 0..MaxConnections

\* The slots that both listeners share are taken exactly by the open connections, whichever of
\* the closers of a connection comes first and however often it is closed.
SlotsExact == TypeOK /\ slots = Cardinality(open)

\* "Shutdown cancels listeners, pending opens, streams and UDP workers and waits for them to
\* exit": no connection of a listener outlives its sweep, and when the listener returned, no
\* worker of it runs or holds a tunnel stream, and none starts later; nor does the HTTP
\* listener leave a pooled stream or a dial of its transport behind (ClosedForGood).
ReturnLeavesNothing ==
    /\ T!ClosedForGood /\ (stage["http"] = "returned" => closer = "returned")
    /\ \A c \in Conns : owner[c] \in Listeners =>
          /\ stage[owner[c]] \in {"waiting", "returned"} => c \notin open
          /\ stage[owner[c]] = "returned" => c \notin remote /\ conn[c] # "working"

\* When the client stops, or a listener breaks, the listener returns.
ListenersReturn ==
    \A l \in Listeners : (ctx[l] \/ stage[l] # "serving") ~> (stage[l] = "returned")

=============================================================================
