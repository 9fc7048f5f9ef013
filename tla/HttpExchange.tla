---------------------------- MODULE HttpExchange ----------------------------
(***************************************************************************)
(* proxy/http.go, httpHandler: one HTTP request with a body, forwarded by  *)
(* ReverseProxy over a new compressed tunnel stream. Composes the opening  *)
(* of the stream (StreamOpen), the connection over it (CompressedConn) and *)
(* the request's body (RequestBody). http.Transport, http.Server and       *)
(* ReverseProxy are external; the model has their effects on these three.  *)
(***************************************************************************)
EXTENDS CompressedConn

VARIABLES
    handler, \* progress of the handler
    gone,    \* the request is over for the transport: its context is done, or ReverseProxy is
    reuse,   \* the client's connection may carry another request
    ctx, opener, bind, reset, timer,              \* StreamOpen
    whole, closed, eof, deadline, reader, closers \* RequestBody

O == INSTANCE StreamOpen
B == INSTANCE RequestBody

openVars == <<ctx, opener, bind, reset, timer>>
bodyVars == <<whole, closed, eof, deadline, reader, closers>>
exchangeVars == <<handler, gone, reuse, openVars, bodyVars, connVars>>

ExchangeInit ==
    /\ handler = "start" /\ gone = FALSE /\ reuse = TRUE
    /\ O!Init /\ B!Init /\ ConnInit

-----------------------------------------------------------------------------
\* The handler

Ends ==
    /\ handler' = "closing"
    /\ reuse' = FALSE
    /\ gone' = TRUE
    /\ UNCHANGED <<openVars, bodyVars, connVars>>

\* rejectHTTP: the request is not valid.
Reject == handler = "start" /\ Ends

Forward ==
    /\ handler = "start"
    /\ handler' = "forwarding"
    /\ UNCHANGED <<gone, reuse, openVars, bodyVars, connVars>>

\* ErrorHandler: the stream cannot be opened, ends before the response, or the request is over.
Unavailable ==
    /\ handler = "forwarding"
    /\ opener = "failed" \/ read \in {"EOF", "error", "timeout"} \/ gone
    /\ Ends

\* The header of the response arrives.
ModifyResponse ==
    /\ handler = "forwarding" /\ got > 0
    /\ handler' = "responding"
    /\ reuse' = eof
    /\ UNCHANGED <<gone, openVars, bodyVars, connVars>>

\* The response is complete: by its length, or by the end of the stream.
Complete ==
    /\ handler = "responding"
    /\ handler' = "closing"
    /\ gone' = TRUE
    /\ UNCHANGED <<reuse, openVars, bodyVars, connVars>>

CompleteByEnd == read = "EOF" /\ Complete

\* ReverseProxy panics when the response breaks off; net/http closes the client's connection.
BreaksOff ==
    /\ handler = "responding"
    /\ read \in {"error", "timeout"} \/ gone
    /\ Ends

\* The deferred body.Close
CloseBody ==
    /\ handler = "closing"
    /\ B!CloseStarts("handler")
    /\ UNCHANGED <<handler, gone, reuse, openVars, connVars>>

Return ==
    /\ handler = "closing" /\ closers["handler"] = "returned"
    /\ handler' = "returned"
    /\ UNCHANGED <<gone, reuse, openVars, bodyVars, connVars>>

Handler ==
    \/ Reject \/ Forward \/ Unavailable \/ ModifyResponse \/ CompleteByEnd \/ BreaksOff
    \/ CloseBody \/ Return

-----------------------------------------------------------------------------
\* http.Transport and the client

\* The dial goes on when the request that wanted it is over.
OpenConn ==
    /\ O!Opener \/ O!Expire \/ O!Callback
    /\ opener = "start" => handler = "forwarding"
    /\ UNCHANGED <<handler, gone, reuse, bodyVars, connVars>>

\* The transport closes the body whenever it has no more use for it (a Close after the handler's
\* does nothing).
TransportCloses ==
    /\ handler # "start" /\ ~closed
    /\ B!CloseStarts("transport")
    /\ UNCHANGED <<handler, gone, reuse, openVars, connVars>>

BodyCloses ==
    /\ \E k \in {"transport", "handler"} : B!CloseReturns(k)
    /\ UNCHANGED <<handler, gone, reuse, openVars, connVars>>

Upload ==
    /\ opener = "open"
    /\ B!ReadStarts \/ B!ReadReturns \/ B!ReadEnds
    /\ UNCHANGED <<handler, gone, reuse, openVars, connVars>>

\* The connection works once the stream is open. The transport closes it when the upload or a read
\* fails (a write that waits has the deadline of the read), or when the request is over and it is
\* not kept as idle.
Converse ==
    /\ opener = "open"
    /\ ConnNext
    /\ close' # close => \/ close = "waiting" \/ reader = "failed" \/ gone \/ read \in {"EOF", "error", "timeout"}
    /\ UNCHANGED <<handler, gone, reuse, openVars, bodyVars>>

\* (What the client has sent matters to a read only.)
SendsAll ==
    /\ reader = "reading"
    /\ B!SendsAll
    /\ UNCHANGED <<handler, gone, reuse, openVars, connVars>>

\* The client leaves, or the listener stops: the request's context ends. The transport detaches the
\* dial from it; the dial's own context ends when the listener stops (http.go) or a timeout passes,
\* which is Expire, at any time.
Leave ==
    /\ ~gone /\ handler \in {"start", "forwarding", "responding"}
    /\ gone' = TRUE
    /\ UNCHANGED <<handler, reuse, openVars, bodyVars, connVars>>

-----------------------------------------------------------------------------
ExchangeNext ==
    \/ Handler \/ Complete \/ OpenConn \/ TransportCloses \/ BodyCloses \/ Upload \/ Converse
    \/ SendsAll \/ Leave

ExchangeSpec == ExchangeInit /\ [][ExchangeNext]_exchangeVars

\* The steps of the handler, the dial, the body and the connection that nobody outside is waited
\* for; the transport keeps reading, and closes a connection whose read timed out. Each of them
\* is taken finitely often, so that fairness of the disjunction is fairness of each.
Runs ==
    \/ Handler \/ OpenConn \/ BodyCloses
    \/ /\ Converse
       /\ Decoder \/ Encoder \/ Abort \/ Reading \/ CloseReturns \/ (Close /\ read = "timeout")

\* Goroutines run, calls of the network return, and expired reads fail. Nothing is assumed of the
\* client, of the server, or of a read before its deadline.
FairExchange ==
    /\ ExchangeSpec
    /\ WF_exchangeVars(Runs)
    /\ WF_exchangeVars(Upload /\ (reader = "reading" => deadline = "past"))

-----------------------------------------------------------------------------
\* Properties (CleanEndKept and NoFalseEOF are in CompressedConn)

\* See HandedOverWhole of StreamOpen: BindContext's callbacks, the request's timeout and the
\* client's departure never reach a stream that OpenTCP has returned.
StreamWhole == O!HandedOverWhole

\* See NeverStuck of RequestBody, for the reads and closes of this request; and "A response to an
\* incomplete upload cannot reuse this connection".
UploadSettled ==
    /\ B!NeverStuck
    /\ handler = "returned" /\ reuse => eof

\* Whatever ends the exchange (the dial fails, the stream ends or fails, the client leaves) ends
\* the handler, even while a read of the body is blocked; and the end of the stream, its failure,
\* and Close end both codec workers, so that Close returns.
ExchangeEnds ==
    /\ (handler # "start" /\ (gone \/ opener = "failed" \/ wire # "open")) ~> (handler = "returned")
    /\ (shut > 0 \/ wire # "open") ~>
          (decoder = "done" /\ encoder = "done" /\ close # "waiting")

=============================================================================
