--------------------------- MODULE HttpTransport ----------------------------
(***************************************************************************)
(* proxy/http.go, httpTransport: the pool of outgoing streams that         *)
(* http.Transport dials for plain HTTP requests, and closeAll, which the   *)
(* listener calls when it stops (LocalProxy composes the two).             *)
(* http.Transport is external: it calls DialContext from goroutines of its *)
(* own, which may outlive the request, and closes pooled connections when  *)
(* it likes.                                                               *)
(***************************************************************************)
EXTENDS Integers, FiniteSets

CONSTANT Dials   \* names of DialContext calls

VARIABLES
    closing,
    conns,     \* the connections closeAll would close
    dial,      \* progress of each DialContext call
    dials,     \* the wait group
    open,      \* streams that are open
    active,    \* the gauge metrics.ActiveStreams
    list,      \* closeAll's copy of conns
    closer     \* progress of closeAll

vars == <<closing, conns, dial, dials, open, active, list, closer>>

Init ==
    /\ closing = FALSE
    /\ conns = {} /\ open = {} /\ list = {}
    /\ dial = [d \in Dials |-> "none"]
    /\ dials = 0 /\ active = 0
    /\ closer = "no"

\* trackedConn.Close around meteredConn.Close: the stream is closed, the gauge drops once, and
\* the release hook removes the connection from conns.
CloseConns(ds) ==
    /\ open' = open \ ds
    /\ active' = active - Cardinality(ds \cap open)
    /\ conns' = conns \ ds

-----------------------------------------------------------------------------
\* DialContext

Enter(d) ==
    /\ dial[d] = "none"
    /\ ~closing
    /\ dials' = dials + 1
    /\ dial' = [dial EXCEPT ![d] = "dialing"]
    /\ UNCHANGED <<closing, conns, open, active, list, closer>>

\* dialStream succeeded, the connection is wrapped and counted. The AfterFunc that cancels the
\* dial may come too late.
Opens(d) ==
    /\ dial[d] = "dialing"
    /\ dial' = [dial EXCEPT ![d] = "opened"]
    /\ open' = open \cup {d}
    /\ active' = active + 1
    /\ UNCHANGED <<closing, conns, dials, list, closer>>

\* dialStream failed: by itself, by its own timeout, or because the listener stopped.
Fails(d) ==
    /\ dial[d] = "dialing"
    /\ dial' = [dial EXCEPT ![d] = "returned"]
    /\ dials' = dials - 1
    /\ UNCHANGED <<closing, conns, open, active, list, closer>>

\* Mutant of Registers: closing is not looked at again.
RegistersAlways(d) ==
    /\ dial[d] = "opened"
    /\ dial' = [dial EXCEPT ![d] = "returned"]
    /\ conns' = conns \cup {d}
    /\ dials' = dials - 1
    /\ UNCHANGED <<closing, open, active, list, closer>>

\* Under the mutex: the connection joins the pool, unless closeAll came first.
Registers(d) ==
    /\ dial[d] = "opened"
    /\ dial' = [dial EXCEPT ![d] = IF closing THEN "late" ELSE "returned"]
    /\ conns' = IF closing THEN conns ELSE conns \cup {d}
    /\ dials' = IF closing THEN dials ELSE dials - 1
    /\ UNCHANGED <<closing, open, active, list, closer>>

\* The late connection is closed outside the mutex, before the call returns.
ClosesLate(d) ==
    /\ dial[d] = "late"
    /\ CloseConns({d})
    /\ dial' = [dial EXCEPT ![d] = "returned"]
    /\ dials' = dials - 1
    /\ UNCHANGED <<closing, list, closer>>

\* http.Transport closes a connection: idle too long, a failed request, a full pool.
TransportCloses(d) ==
    /\ d \in conns /\ dial[d] = "returned"
    /\ CloseConns({d})
    /\ UNCHANGED <<closing, dial, dials, list, closer>>

-----------------------------------------------------------------------------
\* The listener stops

StartClose ==
    /\ closer = "no"
    /\ closing' = TRUE
    /\ list' = conns
    /\ closer' = "listed"
    /\ UNCHANGED <<conns, dial, dials, open, active>>

\* The listed connections are closed; CloseIdleConnections finds nothing that is not listed.
CloseListed ==
    /\ closer = "listed"
    /\ CloseConns(list)
    /\ closer' = "waiting"
    /\ UNCHANGED <<closing, dial, dials, list>>

CloseReturns ==
    /\ closer = "waiting" /\ dials = 0
    /\ closer' = "returned"
    /\ UNCHANGED <<closing, conns, dial, dials, open, active, list>>

-----------------------------------------------------------------------------
DialSteps(d) == Fails(d) \/ Registers(d) \/ ClosesLate(d)
Closer == StartClose \/ CloseListed \/ CloseReturns

-----------------------------------------------------------------------------
\* Properties

\* Every variable keeps its type; the gauge counts the open streams and the wait group the calls
\* that have not returned.
TypeOK ==
    /\ closing \in BOOLEAN
    /\ conns \subseteq Dials /\ open \subseteq Dials /\ list \subseteq Dials
    /\ dial \in [Dials -> {"none", "dialing", "opened", "late", "returned"}]
    /\ dials = Cardinality({d \in Dials : dial[d] \notin {"none", "returned"}})
    /\ active = Cardinality(open)
    /\ closer \in {"no", "listed", "waiting", "returned"}

\* "Closing a listener cancels pending dials and closes the entire pool before returning": when
\* closeAll returned there is no open stream and no dial in progress, and there never is again.
ClosedForGood ==
    /\ TypeOK
    /\ closer = "returned" => open = {} /\ \A d \in Dials : dial[d] \in {"none", "returned"}

=============================================================================
