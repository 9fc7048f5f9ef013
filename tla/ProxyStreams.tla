---------------------------- MODULE ProxyStreams ----------------------------
(***************************************************************************)
(* Proxied TCP streams on the server: the proxy branch of serveHTTP and    *)
(* handleProxy. A stream passes authentication, the process-wide stream    *)
(* budget and the per-connection limit, reads its request, dials, may take *)
(* a codec from a second budget, answers, and relays until either side or  *)
(* the tunnel ends it. The deferred releases run in reverse order.         *)
(***************************************************************************)
EXTENDS Integers, FiniteSets

CONSTANTS
    Conns,                   \* names of QUIC connections
    Streams,                 \* names of proxy CONNECT requests
    NoConn,                  \* a stream name that is not in use
    MaxActiveStreams,        \* capacity of s.active
    MaxStreamsPerConnection, \* capacity of cs.streams
    MaxCompressedStreams,    \* capacity of s.codecs
    Compression              \* opt.Compression

ASSUME ProxyAssumption ==
    /\ NoConn \notin Conns
    /\ IsFiniteSet(Streams)
    /\ MaxActiveStreams \in Nat \ {0}
    /\ MaxStreamsPerConnection \in Nat \ {0}
    /\ MaxCompressedStreams \in Nat \ {0}
    /\ Compression \in BOOLEAN

VARIABLES
    state, ready, valid,  \* the connections, see Session
    pc,      \* progress of the handler of each stream
    on,      \* the connection of the stream
    wants,   \* the request asks for compression
    remote,  \* the dialled TCP connection is open
    codec,   \* the handler holds a codec lease and answered with FlagCompress
    active,  \* s.active.InUse()
    perConn, \* len(cs.streams)
    codecs   \* s.codecs.InUse()

connVars == <<state, ready, valid>>
budgets == <<active, perConn, codecs>>
streamVars == <<pc, on, wants, remote, codec, active, perConn, codecs>>
vars == <<state, ready, valid, pc, on, wants, remote, codec, active, perConn, codecs>>

Conn == INSTANCE Session

Goto(s, l) == pc' = [pc EXCEPT ![s] = l]

\* Streams whose handler holds the lease, the connection slot, the codec.
HoldsActive == {s \in Streams : pc[s] \notin {"idle", "asked", "checked"}}
HoldsSlot(c) == {s \in HoldsActive : on[s] = c /\ pc[s] \notin {"leased", "release"}}
HoldsCodec == {s \in Streams : codec[s]}

Alive(s) == state[on[s]] = "open"

-----------------------------------------------------------------------------
Init ==
    /\ Conn!Init
    /\ pc = [s \in Streams |-> "idle"]
    /\ on = [s \in Streams |-> NoConn]
    /\ wants = [s \in Streams |-> FALSE]
    /\ remote = [s \in Streams |-> FALSE]
    /\ codec = [s \in Streams |-> FALSE]
    /\ active = 0
    /\ perConn = [c \in Conns |-> 0]
    /\ codecs = 0

\* A step of the connections. ServeQUICConn joins the handlers of a connection before
\* handleConn returns.
ConnStep ==
    /\ Conn!Next
    /\ \A c \in Conns : state[c] # "none" /\ state'[c] = "none" => \A s \in Streams : on[s] # c
    /\ UNCHANGED streamVars

\* The peer opens a CONNECT request for the proxy authority.
Request(s, c) ==
    /\ pc[s] = "idle"
    /\ state[c] = "open"
    /\ Goto(s, "asked")
    /\ on' = [on EXCEPT ![s] = c]
    /\ UNCHANGED <<connVars, wants, remote, codec, budgets>>

\* The handler returns without holding anything.
Return(s) ==
    /\ Goto(s, "idle")
    /\ on' = [on EXCEPT ![s] = NoConn]

\* Mutant of CheckAuth: cs.authed is not waited for.
CheckAuthKeyOnly(s) ==
    /\ pc[s] = "asked"
    /\ IF valid[on[s]]
       THEN Goto(s, "checked") /\ UNCHANGED on
       ELSE Return(s)
    /\ UNCHANGED <<connVars, wants, remote, codec, budgets>>

\* Readiness and the stored key are checked; 403 otherwise.
CheckAuth(s) ==
    /\ pc[s] = "asked"
    /\ IF ready[on[s]] /\ valid[on[s]]
       THEN Goto(s, "checked") /\ UNCHANGED on
       ELSE Return(s)
    /\ UNCHANGED <<connVars, wants, remote, codec, budgets>>

\* s.active.TryAcquire; 503 when the budget is used up.
AcquireActive(s) ==
    /\ pc[s] = "checked"
    /\ IF active < MaxActiveStreams
       THEN Goto(s, "leased") /\ active' = active + 1 /\ UNCHANGED on
       ELSE Return(s) /\ UNCHANGED active
    /\ UNCHANGED <<connVars, wants, remote, codec, perConn, codecs>>

\* Mutant of AcquireSlot: a refused stream keeps its lease.
AcquireSlotLeaks(s) ==
    /\ pc[s] = "leased"
    /\ IF perConn[on[s]] < MaxStreamsPerConnection
       THEN Goto(s, "request") /\ perConn' = [perConn EXCEPT ![on[s]] = @ + 1] /\ UNCHANGED on
       ELSE Return(s) /\ UNCHANGED perConn
    /\ UNCHANGED <<connVars, wants, remote, codec, active, codecs>>

\* The connection's own limit; 503 when it is reached, with the lease to give back.
AcquireSlot(s) ==
    /\ pc[s] = "leased"
    /\ IF perConn[on[s]] < MaxStreamsPerConnection
       THEN Goto(s, "request") /\ perConn' = [perConn EXCEPT ![on[s]] = @ + 1]
       ELSE Goto(s, "release") /\ UNCHANGED perConn
    /\ UNCHANGED <<connVars, on, wants, remote, codec, active, codecs>>

\* The request was read: a TCP connect, with or without the compression flag.
ReadRequest(s, w) ==
    /\ pc[s] = "request"
    /\ Alive(s)
    /\ Goto(s, "dialing")
    /\ wants' = [wants EXCEPT ![s] = w]
    /\ UNCHANGED <<connVars, on, remote, codec, budgets>>

DialSucceeds(s) ==
    /\ pc[s] = "dialing"
    /\ Goto(s, "dialed")
    /\ remote' = [remote EXCEPT ![s] = TRUE]
    /\ UNCHANGED <<connVars, on, wants, codec, budgets>>

\* The request is malformed or for another command, the dial fails or is denied, the reply
\* cannot be written, or the request timeout or the end of the tunnel cancels the context.
GivesUp(s) ==
    /\ pc[s] \in {"request", "dialing", "reply"}
    /\ Goto(s, "unwind")
    /\ UNCHANGED <<connVars, on, wants, remote, codec, budgets>>

\* A codec is leased only when both sides want compression; without one the stream
\* falls back to raw copying.
LeaseCodec(s) ==
    /\ pc[s] = "dialed"
    /\ Goto(s, "reply")
    /\ IF Compression /\ wants[s] /\ codecs < MaxCompressedStreams
       THEN codec' = [codec EXCEPT ![s] = TRUE] /\ codecs' = codecs + 1
       ELSE UNCHANGED <<codec, codecs>>
    /\ UNCHANGED <<connVars, on, wants, remote, active, perConn>>

\* The reply is written and the request timeout is unbound: the relay starts.
Reply(s) ==
    /\ pc[s] = "reply"
    /\ Goto(s, "relay")
    /\ UNCHANGED <<connVars, on, wants, remote, codec, budgets>>

\* Mutant of RelayEnds: the end of the tunnel does not abort the relay.
RelayIgnoresTunnel(s) ==
    /\ pc[s] = "relay"
    /\ Alive(s)
    /\ Goto(s, "unwind")
    /\ UNCHANGED <<connVars, on, wants, remote, codec, budgets>>

\* pipe returns: both directions ended, or an error or the end of the tunnel aborted them.
RelayEnds(s) ==
    /\ pc[s] = "relay"
    /\ Goto(s, "unwind")
    /\ UNCHANGED <<connVars, on, wants, remote, codec, budgets>>

\* The defers of handleProxy: the codec lease, then the remote connection.
Unwind(s) ==
    /\ pc[s] = "unwind"
    /\ Goto(s, "freeslot")
    /\ codec' = [codec EXCEPT ![s] = FALSE]
    /\ codecs' = IF codec[s] THEN codecs - 1 ELSE codecs
    /\ remote' = [remote EXCEPT ![s] = FALSE]
    /\ wants' = [wants EXCEPT ![s] = FALSE]
    /\ UNCHANGED <<connVars, on, active, perConn>>

\* The defers of serveHTTP: the connection slot ...
FreeSlot(s) ==
    /\ pc[s] = "freeslot"
    /\ Goto(s, "release")
    /\ perConn' = [perConn EXCEPT ![on[s]] = @ - 1]
    /\ UNCHANGED <<connVars, on, wants, remote, codec, active, codecs>>

\* ... then the lease.
ReleaseActive(s) ==
    /\ pc[s] = "release"
    /\ Return(s)
    /\ active' = active - 1
    /\ UNCHANGED <<connVars, wants, remote, codec, perConn, codecs>>

Handler(s) ==
    \/ CheckAuth(s) \/ AcquireActive(s) \/ AcquireSlot(s) \/ GivesUp(s) \/ LeaseCodec(s)
    \/ Unwind(s) \/ FreeSlot(s) \/ ReleaseActive(s)

\* What the peer and the network contribute.
Outside(s) ==
    \/ (\E c \in Conns : Request(s, c)) \/ (\E w \in BOOLEAN : ReadRequest(s, w))
    \/ DialSucceeds(s) \/ Reply(s) \/ RelayEnds(s)

Next ==
    \/ ConnStep
    \/ \E s \in Streams : Handler(s) \/ Outside(s)

Spec == Init /\ [][Next]_vars

\* The step of the connections that handleConn owes once ServeQUICConn has returned.
ConnRetires(c) == (\A s \in Streams : on[s] # c) /\ Conn!Retires(c) /\ UNCHANGED streamVars

\* Handlers run; the request timeout and the end of the tunnel let a waiting one give up, and
\* nothing else is asked of the peer and of the network. A relay is only bound to end once its tunnel is closed.
Fairness ==
    /\ \A s \in Streams : WF_vars(Handler(s) \/ (RelayEnds(s) /\ ~Alive(s)))
    /\ \A c \in Conns : WF_vars(ConnRetires(c))

FairSpec == Spec /\ Fairness

-----------------------------------------------------------------------------
\* Properties

\* Every variable keeps its type, and the counters stay within their limits.
TypeOK ==
    /\ state \in [Conns -> {"none", "open", "closed"}]
    /\ ready \in [Conns -> BOOLEAN]
    /\ valid \in [Conns -> BOOLEAN]
    /\ pc \in [Streams -> {"idle", "asked", "checked", "leased", "request", "dialing", "dialed",
                           "reply", "relay", "unwind", "freeslot", "release"}]
    /\ on \in [Streams -> Conns \cup {NoConn}]
    /\ wants \in [Streams -> BOOLEAN]
    /\ remote \in [Streams -> BOOLEAN]
    /\ codec \in [Streams -> BOOLEAN]
    /\ active \in 0..MaxActiveStreams
    /\ perConn \in [Conns -> 0..MaxStreamsPerConnection]
    /\ codecs \in 0..MaxCompressedStreams

\* What a handler holds follows from where it is: a dialled connection and a codec never
\* outlive it, and only a running handler refers to a connection, which has not been forgotten.
\* Past the authentication check this connection has authenticated, also while it closes.
HandlerOwns ==
    /\ TypeOK
    /\ \A s \in Streams :
        /\ pc[s] = "idle" <=> on[s] = NoConn
        /\ on[s] \in Conns => state[on[s]] # "none"
        /\ pc[s] \notin {"idle", "asked"} => ready[on[s]]
        /\ remote[s] => pc[s] \in {"dialed", "reply", "relay", "unwind"}
        /\ codec[s] => pc[s] \in {"reply", "relay", "unwind"} /\ remote[s] /\ wants[s] /\ Compression

Active == INSTANCE Budget WITH
    Leases <- Streams, Limit <- MaxActiveStreams, inUse <- active, holders <- HoldsActive
Codecs == INSTANCE Budget WITH
    Leases <- Streams, Limit <- MaxCompressedStreams, inUse <- codecs, holders <- HoldsCodec
Slots(c) == INSTANCE Budget WITH
    Leases <- Streams, Limit <- MaxStreamsPerConnection, inUse <- perConn[c],
    holders <- HoldsSlot(c)

\* The handlers use the stream leases of s.active, the codec leases of handleProxy and the slots
\* of every connection as Budget describes: on no path out of serveHTTP, with its fallback and
\* its early returns, is one of them lost or given back twice.
UsesBudgets ==
    /\ Active!Spec
    /\ Codecs!Spec
    /\ \A c \in Conns : Slots(c)!Init
    /\ [][\A c \in Conns : [Slots(c)!Next]_(Slots(c)!vars)]_vars

\* A closed connection is eventually gone, so its handlers all end and its slot of the
\* server is freed.
ClosedRetires == \A c \in Conns : (state[c] = "closed") ~> (state[c] = "none")

=============================================================================
