----------------------------- MODULE StreamOpen -----------------------------
(***************************************************************************)
(* The opening of one tunnel stream: the second half of OpenTCP and        *)
(* openTunnelStream (client/client.go), with the two uses of BindContext   *)
(* (tunnel/stream.go), whose callbacks abort the stream when the request's *)
(* context ends. The context also ends when OpenTCP returns. Admission and *)
(* leases are in TunnelClient.                                             *)
(***************************************************************************)
EXTENDS Integers

VARIABLES
    ctx,    \* OpenTCP's context is done
    opener, \* progress of the call; "open" when the stream is handed over
    bind,   \* the callbacks of the two BindContext calls
    reset,  \* Abort was called on the stream
    timer   \* the stream has the context's deadline

vars == <<ctx, opener, bind, reset, timer>>

Init ==
    /\ ctx = FALSE /\ opener = "start" /\ reset = FALSE /\ timer = FALSE
    /\ bind = [i \in 1..2 |-> "none"]

\* The caller cancels, or RequestTimeout passes.
Expire ==
    /\ ~ctx /\ opener \notin {"open", "failed"}
    /\ ctx' = TRUE
    /\ UNCHANGED <<opener, bind, reset, timer>>

\* BindContext
BindContext(i) ==
    /\ bind' = [bind EXCEPT ![i] = "armed"]
    /\ timer' = TRUE

\* The AfterFunc of a done context starts, in a goroutine of its own ...
CallbackStarts(i) ==
    /\ bind[i] = "armed" /\ ctx
    /\ bind' = [bind EXCEPT ![i] = "running"]
    /\ UNCHANGED <<ctx, opener, reset, timer>>

\* ... and aborts the stream.
CallbackAborts(i) ==
    /\ bind[i] = "running"
    /\ bind' = [bind EXCEPT ![i] = "ran"]
    /\ reset' = TRUE
    /\ UNCHANGED <<ctx, opener, timer>>

\* The function that BindContext returns: stops the callback, or waits for it.
Unbind(i) ==
    /\ bind[i] # "running"
    /\ bind' = [bind EXCEPT ![i] = IF @ = "armed" THEN "stopped" ELSE @]

-----------------------------------------------------------------------------
\* The call

Moves(from, to) == opener = from /\ opener' = to

\* OpenRequestStream, then the first BindContext
Start ==
    /\ Moves("start", "header") /\ BindContext(1)
    /\ UNCHANGED <<ctx, reset>>

\* The request header is sent and the response read.
Answered ==
    /\ Moves("header", "answered") /\ ~reset
    /\ UNCHANGED <<ctx, bind, reset, timer>>

\* ctx.Err is asked before the deferred unbind.
Checked ==
    /\ Moves("answered", "checked") /\ ~ctx
    /\ UNCHANGED <<ctx, bind, reset, timer>>

Unbound ==
    /\ Moves("checked", "stream") /\ Unbind(1)
    /\ UNCHANGED <<ctx, reset, timer>>

\* Back in OpenTCP: the second BindContext
Rebound ==
    /\ Moves("stream", "request") /\ BindContext(2)
    /\ UNCHANGED <<ctx, reset>>

\* The request is written and the reply read: the status is good.
Replied ==
    /\ Moves("request", "replied") /\ ~reset
    /\ UNCHANGED <<ctx, bind, reset, timer>>

Released ==
    /\ Moves("replied", "released") /\ Unbind(2)
    /\ UNCHANGED <<ctx, reset, timer>>

\* Mutant of HandsOver: ctx.Err is not asked again after unbind.
HandsOverUnasked ==
    /\ Moves("released", "open")
    /\ timer' = FALSE
    /\ ctx' = TRUE
    /\ UNCHANGED <<bind, reset>>

\* ctx.Err is asked again, the deadline cleared, the flags checked and the stream handed over;
\* the deferred cancel ends the context.
HandsOver ==
    /\ Moves("released", "open") /\ ~ctx
    /\ timer' = FALSE
    /\ ctx' = TRUE
    /\ UNCHANGED <<bind, reset>>

-----------------------------------------------------------------------------
\* Errors: an operation fails, by itself or by the abort or the deadline; a bad status; ctx.Err;
\* bad flags

\* No connection, or no stream
NoStream ==
    /\ Moves("start", "failed")
    /\ ctx' = TRUE
    /\ UNCHANGED <<bind, reset, timer>>

\* In openTunnelStream the stream is aborted first, ...
FailsInside ==
    /\ \E at \in {"header", "answered"} : Moves(at, "failing")
    /\ reset' = TRUE
    /\ UNCHANGED <<ctx, bind, timer>>

\* ... in OpenTCP it is unbound first.
FailsOutside ==
    /\ \E at \in {"request", "released"} : Moves(at, "failing")
    /\ UNCHANGED <<ctx, bind, reset, timer>>

FailsDone ==
    /\ Moves("failing", "failed")
    /\ \A i \in 1..2 : bind[i] # "running"
    /\ bind' = [i \in 1..2 |-> IF bind[i] = "armed" THEN "stopped" ELSE bind[i]]
    /\ reset' = TRUE
    /\ ctx' = TRUE
    /\ UNCHANGED timer

-----------------------------------------------------------------------------
Opener ==
    \/ Start \/ Answered \/ Checked \/ Unbound \/ Rebound \/ Replied \/ Released \/ HandsOver
    \/ NoStream \/ FailsInside \/ FailsOutside \/ FailsDone

Callback == \E i \in 1..2 : CallbackStarts(i) \/ CallbackAborts(i)

\* "Stop is idempotent and joins an already running callback before ownership is transferred to
\* another caller": the stream that is handed over was not aborted, has no deadline, and no
\* callback is left to abort it, although the context ends as the call returns; and a stream that
\* is not handed over was aborted.
HandedOverWhole ==
    /\ opener = "open" =>
          ~reset /\ ~timer /\ \A i \in 1..2 : bind[i] \notin {"armed", "running"}
    /\ opener = "failed" /\ bind[1] # "none" => reset

=============================================================================
