--------------------------- MODULE CompressedConn ---------------------------
(***************************************************************************)
(* proxy/compressed_conn.go: the framed tunnel stream as a plain           *)
(* connection for http.Transport. Two workers run the codecs between the   *)
(* stream (wire) and a synchronous pipe (net.Pipe: a write returns when it *)
(* was read); whichever ends first aborts both. Frames are counted.        *)
(***************************************************************************)
EXTENDS Integers

CONSTANT MaxFrames   \* bound: frames the server sends

ASSUME CompressedConnAssumption == MaxFrames \in Nat

VARIABLES
    wire,      \* the receiving half of the stream: "open", "fin" or "cut"
    sent,      \* frames the server put on it
    got,       \* frames the application read through the pipe
    refused,   \* the server stopped reading, or the tunnel died
    encoder,   \* the CopyObserved worker
    decoder,   \* the Decopy worker
    shut,      \* what c.once has closed: 1 the application's end, 2 the bridge and the wire too
    remaining, \* c.remaining
    readEOF,   \* c.readEOF
    read,      \* the application's Read
    close      \* the application's Close

connVars == <<wire, sent, got, refused, encoder, decoder, shut, remaining, readEOF, read, close>>

ConnInit ==
    /\ wire = "open" /\ sent = 0 /\ got = 0 /\ refused = FALSE
    /\ encoder = "running" /\ decoder = "running"
    /\ shut = 0 /\ remaining = 2 /\ readEOF = FALSE
    /\ read = "called" /\ close = "no"

\* The first call of abort closes the application's end of the pipe.
CallsAbort == shut' = IF shut = 0 THEN 1 ELSE shut

-----------------------------------------------------------------------------
\* The decoding worker

\* Decopy forwards a frame: bridge.Write returns when the application has read it, and Read is
\* called again. (A stream that is cut may lose what was on its way, or not.)
Decode ==
    /\ decoder = "running" /\ shut = 0 /\ got < sent
    /\ read = "parked"
    /\ got' = got + 1
    /\ read' = "called"
    /\ UNCHANGED <<wire, sent, refused, encoder, decoder, shut, remaining, readEOF, close>>

\* Decopy returns without an error only at the end of the stream.
DecodeEOF ==
    /\ decoder = "running" /\ shut < 2 /\ wire = "fin" /\ got = sent
    /\ decoder' = "eof"
    /\ UNCHANGED <<wire, sent, got, refused, encoder, shut, remaining, readEOF, read, close>>

\* The stream fails or is closed, or there is a frame to write and the pipe is closed.
Undecodable == wire = "cut" \/ shut = 2 \/ (shut > 0 /\ got < sent)

\* Mutant of DecodeFails: an error of Decopy is taken for the end of the stream.
DecodeFailsAsEOF ==
    /\ decoder = "running" /\ Undecodable
    /\ decoder' = "eof"
    /\ UNCHANGED <<wire, sent, got, refused, encoder, shut, remaining, readEOF, read, close>>

DecodeFails ==
    /\ decoder = "running" /\ Undecodable
    /\ decoder' = "ended"
    /\ CallsAbort
    /\ UNCHANGED <<wire, sent, got, refused, encoder, remaining, readEOF, read, close>>

\* Mutant of StoreEOF: a worker that ends well leaves the other its pipe and its stream.
StoreEOFQuietly ==
    /\ decoder = "eof"
    /\ readEOF' = TRUE
    /\ decoder' = "done" /\ remaining' = remaining - 1
    /\ UNCHANGED <<wire, sent, got, refused, encoder, shut, read, close>>

StoreEOF ==
    /\ decoder = "eof"
    /\ readEOF' = TRUE
    /\ decoder' = "ended"
    /\ CallsAbort
    /\ UNCHANGED <<wire, sent, got, refused, encoder, remaining, read, close>>

\* finish, deferred: when abort returns, count down.
DecoderFinishes ==
    /\ decoder = "ended" /\ shut = 2
    /\ remaining' = remaining - 1
    /\ decoder' = "done"
    /\ UNCHANGED <<wire, sent, got, refused, encoder, shut, readEOF, read, close>>

-----------------------------------------------------------------------------
\* The encoding worker: its reads and writes move no state of interest until one fails

EncodeFails ==
    /\ encoder = "running" /\ (shut > 0 \/ refused)
    /\ encoder' = "ended"
    /\ CallsAbort
    /\ UNCHANGED <<wire, sent, got, refused, decoder, remaining, readEOF, read, close>>

EncoderFinishes ==
    /\ encoder = "ended" /\ shut = 2
    /\ remaining' = remaining - 1
    /\ encoder' = "done"
    /\ UNCHANGED <<wire, sent, got, refused, decoder, shut, readEOF, read, close>>

\* The rest of abort, by the first that called it: the bridge, then the wire (nobody can tell
\* which of the two is closed first). The others wait in c.once.
Abort ==
    /\ shut = 1
    /\ shut' = 2
    /\ UNCHANGED <<wire, sent, got, refused, encoder, decoder, remaining, readEOF, read, close>>

-----------------------------------------------------------------------------
\* The application, http.Transport. A Read of the pipe looks whether its own end is closed, then
\* whether the other end is, and then parks in a select on both; "called" is a Read that has not
\* parked, and may already have looked.

ReadParks ==
    /\ read = "called" /\ shut = 0
    /\ read' = "parked"
    /\ UNCHANGED <<wire, sent, got, refused, encoder, decoder, shut, remaining, readEOF, close>>

\* Read finds its own end closed, the first to be: the pipe's error is ErrClosedPipe ...
ReadFails ==
    /\ read \in {"called", "parked"} /\ shut > 0
    /\ read' = "pipe"
    /\ UNCHANGED <<wire, sent, got, refused, encoder, decoder, shut, remaining, readEOF, close>>

\* ... and Read then asks whether the stream had ended cleanly.
ReadReturns ==
    /\ read = "pipe"
    /\ read' = IF readEOF THEN "EOF" ELSE "error"
    /\ UNCHANGED <<wire, sent, got, refused, encoder, decoder, shut, remaining, readEOF, close>>

\* A Read that looked at its own end before it was closed finds the other end closed, or finds both
\* in the select, which then takes either: the pipe's error is io.EOF, and is returned.
ReadFarEnd ==
    /\ read = "called" /\ shut = 2
    /\ read' = "EOF"
    /\ UNCHANGED <<wire, sent, got, refused, encoder, decoder, shut, remaining, readEOF, close>>

\* The deadline that idleConn set on the pipe before the call passes.
ReadTimesOut ==
    /\ read = "parked" /\ shut = 0
    /\ read' = "timeout"
    /\ UNCHANGED <<wire, sent, got, refused, encoder, decoder, shut, remaining, readEOF, close>>

Close ==
    /\ close = "no"
    /\ close' = "waiting"
    /\ CallsAbort
    /\ UNCHANGED <<wire, sent, got, refused, encoder, decoder, remaining, readEOF, read>>

CloseReturns ==
    /\ close = "waiting" /\ remaining = 0
    /\ close' = "returned"
    /\ UNCHANGED <<wire, sent, got, refused, encoder, decoder, shut, remaining, readEOF, read>>

-----------------------------------------------------------------------------
\* The server (pipe of server.go) and the tunnel, as long as the stream is not closed

ServerSends ==
    /\ wire = "open" /\ shut = 0 /\ sent < MaxFrames
    /\ sent' = sent + 1
    /\ UNCHANGED <<wire, got, refused, encoder, decoder, shut, remaining, readEOF, read, close>>

ServerEnds ==
    /\ wire = "open" /\ shut = 0
    /\ wire' = "fin"
    /\ UNCHANGED <<sent, got, refused, encoder, decoder, shut, remaining, readEOF, read, close>>

\* The server resets the stream, or stops reading it, or the tunnel dies.
StreamFails ==
    \E cut \in BOOLEAN :
        /\ shut = 0
        /\ wire' = IF cut THEN "cut" ELSE wire
        /\ refused' = TRUE
        /\ UNCHANGED <<sent, got, encoder, decoder, shut, remaining, readEOF, read, close>>

-----------------------------------------------------------------------------
Decoder == Decode \/ DecodeEOF \/ DecodeFails \/ StoreEOF \/ DecoderFinishes
Encoder == EncodeFails \/ EncoderFinishes
Reading == ReadParks \/ ReadFails \/ ReadReturns \/ ReadFarEnd

Peer == ServerSends \/ ServerEnds \/ StreamFails

ConnNext == Decoder \/ Encoder \/ Abort \/ Reading \/ ReadTimesOut \/ Close \/ CloseReturns \/ Peer

-----------------------------------------------------------------------------
\* Properties

\* Every variable keeps its type.
ConnTypeOK ==
    /\ wire \in {"open", "fin", "cut"}
    /\ sent \in 0..MaxFrames /\ got \in 0..sent
    /\ refused \in BOOLEAN /\ readEOF \in BOOLEAN
    /\ encoder \in {"running", "ended", "done"}
    /\ decoder \in {"running", "eof", "ended", "done"}
    /\ shut \in 0..2 /\ remaining \in 0..2
    /\ read \in {"called", "parked", "pipe", "EOF", "error", "timeout"}
    /\ close \in {"no", "waiting", "returned"}

\* "A clean framed-stream EOF must remain EOF for close-delimited HTTP bodies": whoever aborts
\* first, readEOF stands for a stream that the server ended and of which every frame was delivered;
\* and as long as the stream has not failed and the application has not closed it, Read reports no
\* closed pipe, and no end but that one.
CleanEndKept ==
    /\ ConnTypeOK
    /\ readEOF => wire # "open" /\ got = sent
    /\ read = "error" => refused \/ close # "no"
    /\ read = "EOF" => readEOF \/ refused \/ close # "no"

\* "Local cancellation and malformed frames remain errors, never successful EOF": on a connection
\* that the application has not closed, Read reports the end of the stream only if the server has
\* ended it and every frame was delivered.
NoFalseEOF == read = "EOF" /\ close = "no" => wire # "open" /\ got = sent

=============================================================================
