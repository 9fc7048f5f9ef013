------------------------------- MODULE Session -------------------------------
(***************************************************************************)
(* What the requests of a tunnel connection rely on: the life of the       *)
(* connection as a handler can observe it. TunnelServer implements this    *)
(* specification; ProxyStreams is built on it.                             *)
(***************************************************************************)
CONSTANT Conns  \* names of QUIC connections

VARIABLES
    state,  \* "none", "open", "closed"; a closed connection still has handlers to join
    ready,  \* cs.authed is closed
    valid   \* cs.authKey is set and credentials.Accepts it now

vars == <<state, ready, valid>>

Init ==
    /\ state = [c \in Conns |-> "none"]
    /\ ready = [c \in Conns |-> FALSE]
    /\ valid = [c \in Conns |-> FALSE]

Opens(c) ==
    /\ state[c] = "none"
    /\ state' = [state EXCEPT ![c] = "open"]
    /\ UNCHANGED <<ready, valid>>

Readies(c) ==
    /\ state[c] # "none"
    /\ ~ready[c]
    /\ ready' = [ready EXCEPT ![c] = TRUE]
    /\ UNCHANGED <<state, valid>>

Closes(c) ==
    /\ state[c] = "open"
    /\ state' = [state EXCEPT ![c] = "closed"]
    /\ UNCHANGED <<ready, valid>>

\* handleConn returns.
Retires(c) ==
    /\ state[c] = "closed"
    /\ state' = [state EXCEPT ![c] = "none"]
    /\ ready' = [ready EXCEPT ![c] = FALSE]
    /\ valid' = [valid EXCEPT ![c] = FALSE]

\* The control handler stores the client's key, or a reload or the passing of time changes
\* which of the stored keys are accepted.
Rotates ==
    /\ valid' \in [Conns -> BOOLEAN]
    /\ \A c \in Conns : state[c] = "none" => ~valid'[c]
    /\ UNCHANGED <<state, ready>>

Next ==
    \/ Rotates
    \/ \E c \in Conns : Opens(c) \/ Readies(c) \/ Closes(c) \/ Retires(c)

Spec == Init /\ [][Next]_vars

=============================================================================
