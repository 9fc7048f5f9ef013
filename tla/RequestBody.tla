---------------------------- MODULE RequestBody -----------------------------
(***************************************************************************)
(* proxy/http.go, progressBody: the body of a client's HTTP request, read  *)
(* by http.Transport with a deadline per read, and closed by it and by the *)
(* handler while a read may be blocked. The body of net/http underneath is *)
(* external: its Close waits for a read in progress.                       *)
(***************************************************************************)
EXTENDS Integers

VARIABLES
    whole,    \* the client has sent all of the body
    closed, eof,
    deadline, \* read deadline of the client's connection: "none", "armed" or "past"
    reader,   \* progress of Read
    closers   \* progress of the Close calls of the transport and of the handler

vars == <<whole, closed, eof, deadline, reader, closers>>

Init ==
    /\ whole = FALSE /\ closed = FALSE /\ eof = FALSE
    /\ deadline = "none" /\ reader = "none"
    /\ closers = [k \in {"transport", "handler"} |-> "no"]

SendsAll ==
    /\ ~whole
    /\ whole' = TRUE
    /\ UNCHANGED <<closed, eof, deadline, reader, closers>>

\* Mutant of ReadStarts: Read looks at nothing before it sets the deadline.
ReadStartsAnyway ==
    /\ reader = "none"
    /\ reader' = "reading" /\ deadline' = "armed"
    /\ UNCHANGED <<whole, closed, eof, closers>>

\* Read under the mutex: refused after Close, else the deadline is set.
ReadStarts ==
    /\ reader = "none"
    /\ IF closed THEN reader' = "failed" /\ UNCHANGED deadline
       ELSE reader' = "reading" /\ deadline' = "armed"
    /\ UNCHANGED <<whole, closed, eof, closers>>

\* The read below returns data; the end, once the client has sent it; or an error, when the
\* deadline passes or the client is gone.
ReadReturns ==
    /\ reader = "reading"
    /\ reader' \in {"none", "failed"} \cup (IF whole THEN {"ended"} ELSE {})
    /\ UNCHANGED <<whole, closed, eof, deadline, closers>>

\* Under the mutex again: the end is noted, and the deadline cleared unless Close has set it.
ReadEnds ==
    /\ reader = "ended"
    /\ reader' = "finished"
    /\ eof' = TRUE
    /\ deadline' = IF closed THEN deadline ELSE "none"
    /\ UNCHANGED <<whole, closed, closers>>

\* Close under the mutex: the first one expires a read that may be blocked.
CloseStarts(k) ==
    /\ closers[k] = "no"
    /\ closers' = [closers EXCEPT ![k] = IF closed THEN "returned" ELSE "waiting"]
    /\ closed' = TRUE
    /\ deadline' = IF closed \/ eof THEN deadline ELSE "past"
    /\ UNCHANGED <<whole, eof, reader>>

\* The Close below waits for a blocked read.
CloseReturns(k) ==
    /\ closers[k] = "waiting" /\ reader # "reading"
    /\ closers' = [closers EXCEPT ![k] = "returned"]
    /\ UNCHANGED <<whole, closed, eof, deadline, reader>>

\* "http.Transport can close a request body while its read is still blocked. Expire only reads":
\* a read that is blocked when the body is closed has an expired deadline, however Read and Close
\* interleave, so that nobody waits for a client that sends nothing; and a body that was read to
\* its end leaves no deadline that would cut a slow response.
NeverStuck ==
    /\ closed /\ reader = "reading" => deadline = "past"
    /\ eof => deadline # "armed" /\ (~closed => deadline = "none")

=============================================================================
