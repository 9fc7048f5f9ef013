------------------------------- MODULE Relay --------------------------------
(***************************************************************************)
(* One proxied TCP connection end to end: the application, the client's    *)
(* relay (proxy/proxy.go), the tunnel stream, the server's pipe            *)
(* (server/server.go) and the destination. Two copiers run at each relay,  *)
(* one per direction; the relay joins them, aborts both halves on an error *)
(* and otherwise lets the other direction finish.                          *)
(*                                                                         *)
(* Bytes are counted, not named. A half of a connection is "open", "fin"   *)
(* after a half-close, or "cut": reset, cancelled or closed under its      *)
(* users. Frames of a compressed stream are written whole, so the codecs   *)
(* behave as io.Copy does here.                                            *)
(***************************************************************************)
EXTENDS Integers, Sequences

CONSTANTS
    MaxUp,     \* bound: bytes the application sends
    MaxDown,   \* bound: bytes the destination sends
    Window     \* bytes a half-connection buffers

ASSUME RelayAssumption == MaxUp \in Nat /\ MaxDown \in Nat /\ Window \in Nat \ {0}

VARIABLES
    status,    \* of each half-connection
    sent,      \* bytes written to it
    got,       \* bytes read from it
    copier,    \* "copying", or how it ended
    aborted,   \* the relay closed both of its connections
    returned,  \* relay or pipe returned
    cancelled, \* the context the relay watches is done
    fault      \* an endpoint, the tunnel or a timeout failed

relayVars == <<status, sent, got, copier, aborted, returned, cancelled, fault>>

\* The halves in the order bytes travel them, and the copiers between them.
Up == <<"appUp", "tunUp", "dstUp">>
Down == <<"dstDown", "tunDown", "appDown">>
Halves == {Up[i] : i \in 1..3} \cup {Down[i] : i \in 1..3}
Relays == {"client", "server"}
Copiers == Relays \X {"up", "down"}

src(k) == CASE k = <<"client", "up">>   -> "appUp"
           [] k = <<"server", "up">>   -> "tunUp"
           [] k = <<"server", "down">> -> "dstDown"
           [] k = <<"client", "down">> -> "tunDown"
dst(k) == CASE k = <<"client", "up">>   -> "tunUp"
            [] k = <<"server", "up">>   -> "dstUp"
            [] k = <<"server", "down">> -> "tunDown"
            [] k = <<"client", "down">> -> "appDown"
OfRelay(r) == {<<r, "up">>, <<r, "down">>}

RelayInit ==
    /\ status = [h \in Halves |-> "open"]
    /\ sent = [h \in Halves |-> 0]
    /\ got = [h \in Halves |-> 0]
    /\ copier = [k \in Copiers |-> "copying"]
    /\ aborted = [r \in Relays |-> FALSE]
    /\ returned = [r \in Relays |-> FALSE]
    /\ cancelled = [r \in Relays |-> FALSE]
    /\ fault = FALSE

Writable(h) == status[h] = "open" /\ sent[h] - got[h] < Window
Readable(h) == status[h] # "cut" /\ got[h] < sent[h]
AtEOF(h) == status[h] = "fin" /\ got[h] = sent[h]

\* The end of the stream was taken by its reader: nothing can cut it any more.
Consumed(h) ==
    /\ AtEOF(h)
    /\ \A k \in Copiers : src(k) = h => copier[k] = "eof"

Cut(hs) == [h \in Halves |-> IF h \in hs /\ ~Consumed(h) THEN "cut" ELSE status[h]]

-----------------------------------------------------------------------------
\* The copiers: io.Copy, Copy and Decopy of the compress package

CopyBlock(k) ==
    /\ copier[k] = "copying" /\ ~aborted[k[1]]
    /\ Readable(src(k)) /\ Writable(dst(k))
    /\ got' = [got EXCEPT ![src(k)] = @ + 1]
    /\ sent' = [sent EXCEPT ![dst(k)] = @ + 1]
    /\ UNCHANGED <<status, copier, aborted, returned, cancelled, fault>>

\* Mutant of CopyEOF: a cut input is taken for its end.
CopyEOFOnCut(k) ==
    /\ copier[k] = "copying" /\ ~aborted[k[1]]
    /\ (AtEOF(src(k)) \/ status[src(k)] = "cut") /\ status[dst(k)] = "open"
    /\ status' = [status EXCEPT ![dst(k)] = "fin"]
    /\ copier' = [copier EXCEPT ![k] = "eof"]
    /\ UNCHANGED <<sent, got, aborted, returned, cancelled, fault>>

\* Mutant of CopyEOF: the output is not half-closed.
CopyEOFSilent(k) ==
    /\ copier[k] = "copying" /\ ~aborted[k[1]]
    /\ AtEOF(src(k)) /\ status[dst(k)] = "open"
    /\ copier' = [copier EXCEPT ![k] = "eof"]
    /\ UNCHANGED <<status, sent, got, aborted, returned, cancelled, fault>>

\* A clean end of the input half-closes the output (CloseWrite, or Close of the stream's
\* sending side at the server).
CopyEOF(k) ==
    /\ copier[k] = "copying" /\ ~aborted[k[1]]
    /\ AtEOF(src(k)) /\ status[dst(k)] = "open"
    /\ status' = [status EXCEPT ![dst(k)] = "fin"]
    /\ copier' = [copier EXCEPT ![k] = "eof"]
    /\ UNCHANGED <<sent, got, aborted, returned, cancelled, fault>>

\* The input was cut, or the output was and there is something to write or to half-close.
CopyFails(k) ==
    /\ copier[k] = "copying"
    /\ \/ aborted[k[1]]
       \/ status[src(k)] = "cut"
       \/ status[dst(k)] = "cut" /\ (Readable(src(k)) \/ AtEOF(src(k)))
    /\ copier' = [copier EXCEPT ![k] = "error"]
    /\ UNCHANGED <<status, sent, got, aborted, returned, cancelled, fault>>

\* The client's idle deadline passes on the local connection.
IdleTimeout(k) ==
    /\ k \in OfRelay("client")
    /\ copier[k] = "copying"
    /\ copier' = [copier EXCEPT ![k] = "error"]
    /\ fault' = TRUE
    /\ UNCHANGED <<status, sent, got, aborted, returned, cancelled>>

-----------------------------------------------------------------------------
\* The relays

\* Both connections of the relay are closed: it reads no more, and what it did not half-close is
\* cut.
CloseBoth(r) ==
    Cut({src(k) : k \in OfRelay(r)} \cup {dst(k) : k \in {k \in OfRelay(r) : status[dst(k)] # "fin"}})

\* tunnel.Abort at the server, unlike Stream.Close of the client, also cancels a sending side
\* that is already closed: the cancellation may overtake its FIN.
AbortEffect(r) ==
    \/ status' = CloseBoth(r)
    \/ r = "server" /\ status' = [CloseBoth(r) EXCEPT !["tunDown"] = Cut({"tunDown"})["tunDown"]]

\* Mutant of Abort: any end of a copier aborts both directions.
AbortOnFirstEnd(r) ==
    /\ ~aborted[r] /\ ~returned[r]
    /\ cancelled[r] \/ \E k \in OfRelay(r) : copier[k] # "copying"
    /\ AbortEffect(r)
    /\ aborted' = [aborted EXCEPT ![r] = TRUE]
    /\ UNCHANGED <<sent, got, copier, returned, cancelled, fault>>

\* Mutant of Abort: the context is not watched.
AbortOnError(r) ==
    /\ ~aborted[r] /\ ~returned[r]
    /\ \E k \in OfRelay(r) : copier[k] = "error"
    /\ AbortEffect(r)
    /\ aborted' = [aborted EXCEPT ![r] = TRUE]
    /\ UNCHANGED <<sent, got, copier, returned, cancelled, fault>>

\* A copier's error reached the joining loop, or the AfterFunc of a done context runs.
Abort(r) ==
    /\ ~aborted[r] /\ ~returned[r]
    /\ cancelled[r] \/ \E k \in OfRelay(r) : copier[k] = "error"
    /\ AbortEffect(r)
    /\ aborted' = [aborted EXCEPT ![r] = TRUE]
    /\ UNCHANGED <<sent, got, copier, returned, cancelled, fault>>

\* Both copiers were joined; the deferred closes run (abort at the client, remote.Close and the
\* end of the request at the server).
RelayReturns(r) ==
    /\ ~returned[r]
    /\ \A k \in OfRelay(r) : copier[k] # "copying"
    /\ (\E k \in OfRelay(r) : copier[k] = "error") => aborted[r]
    /\ status' = CloseBoth(r)
    /\ returned' = [returned EXCEPT ![r] = TRUE]
    /\ aborted' = [aborted EXCEPT ![r] = TRUE]
    /\ UNCHANGED <<sent, got, copier, cancelled, fault>>

-----------------------------------------------------------------------------
\* The environment

EndpointWrites(h) ==
    /\ \/ h = "appUp" /\ sent[h] < MaxUp
       \/ h = "dstDown" /\ sent[h] < MaxDown
    /\ Writable(h)
    /\ sent' = [sent EXCEPT ![h] = @ + 1]
    /\ UNCHANGED <<status, got, copier, aborted, returned, cancelled, fault>>

EndpointEnds(h) ==
    /\ h \in {"appUp", "dstDown"}
    /\ status[h] = "open"
    /\ status' = [status EXCEPT ![h] = "fin"]
    /\ UNCHANGED <<sent, got, copier, aborted, returned, cancelled, fault>>

EndpointReads(h) ==
    /\ h \in {"dstUp", "appDown"}
    /\ Readable(h)
    /\ got' = [got EXCEPT ![h] = @ + 1]
    /\ UNCHANGED <<status, sent, copier, aborted, returned, cancelled, fault>>

\* The application or the destination resets its connection.
EndpointResets(hs) ==
    /\ hs \in {{"appUp", "appDown"}, {"dstUp", "dstDown"}}
    /\ Cut(hs) # status
    /\ status' = Cut(hs)
    /\ fault' = TRUE
    /\ UNCHANGED <<sent, got, copier, aborted, returned, cancelled>>

\* The QUIC connection dies: the server's pipe watches its context, the client sees the stream
\* fail.
TunnelDies ==
    /\ ~cancelled["server"]
    /\ status' = Cut({"tunUp", "tunDown"})
    /\ cancelled' = [cancelled EXCEPT !["server"] = TRUE]
    /\ fault' = TRUE
    /\ UNCHANGED <<sent, got, copier, aborted, returned>>

\* The client shuts down.
ClientCancelled ==
    /\ ~cancelled["client"]
    /\ cancelled' = [cancelled EXCEPT !["client"] = TRUE]
    /\ fault' = TRUE
    /\ UNCHANGED <<status, sent, got, copier, aborted, returned>>

-----------------------------------------------------------------------------
CopierSteps(k) == CopyBlock(k) \/ CopyEOF(k) \/ CopyFails(k)

RelayNext ==
    \/ \E k \in Copiers : CopierSteps(k) \/ IdleTimeout(k)
    \/ \E r \in Relays : Abort(r) \/ RelayReturns(r)
    \/ \E h \in Halves : EndpointWrites(h) \/ EndpointEnds(h) \/ EndpointReads(h)
    \/ \E hs \in SUBSET Halves : EndpointResets(hs)
    \/ TunnelDies \/ ClientCancelled

RelaySpec == RelayInit /\ [][RelayNext]_relayVars

\* Goroutines run. The endpoints read what arrives; nothing makes them write or end.
RelayFairness ==
    /\ \A k \in Copiers : WF_relayVars(CopierSteps(k))
    /\ \A r \in Relays : WF_relayVars(Abort(r)) /\ WF_relayVars(RelayReturns(r))
    /\ \A h \in Halves : WF_relayVars(EndpointReads(h))

FairRelay == RelaySpec /\ RelayFairness

-----------------------------------------------------------------------------
\* Properties

\* Every variable keeps its type, and no half buffers more than its window.
RelayTypeOK ==
    /\ status \in [Halves -> {"open", "fin", "cut"}]
    /\ sent \in [Halves -> Nat] /\ \A i \in 1..3 : sent[Up[i]] <= MaxUp /\ sent[Down[i]] <= MaxDown
    /\ got \in [Halves -> Nat]
    /\ \A h \in Halves : sent[h] - got[h] \in 0..Window
    /\ copier \in [Copiers -> {"copying", "eof", "error"}]
    /\ aborted \in [Relays -> BOOLEAN]
    /\ returned \in [Relays -> BOOLEAN]
    /\ cancelled \in [Relays -> BOOLEAN]
    /\ fault \in BOOLEAN

\* A half-close is end to end: whatever fails in between, a reader sees a clean end of stream on
\* a half that a relay writes only if the sender ended it and every byte was passed on. A
\* truncated transfer never ends cleanly.
CleanEndIsComplete ==
    /\ RelayTypeOK
    /\ \A path \in {Up, Down} : \A i \in 2..3 :
        status[path[i]] = "fin" => /\ status[path[i - 1]] = "fin"
                                   /\ sent[path[i]] = sent[path[i - 1]]

\* "relay preserves TCP half-closes. Only errors or cancellation abort both directions": while
\* nothing failed no half is cut, so one direction may end and the other go on.
OnlyFaultsCut == (\E h \in Halves : status[h] = "cut") => fault

\* What an endpoint ended reaches the other endpoint in the end, and stays there with its end,
\* unless something failed.
EndReaches ==
    <>[](\A path \in {Up, Down} :
            status[path[1]] = "fin" => (AtEOF(path[3]) /\ got[path[3]] = sent[path[1]]) \/ fault)

\* "tunnel cancellation aborts both halves so no blocked worker survives": each relay returns in the
\* end, with both copiers joined and nothing left open, if it was cancelled or one of its copies
\* failed, even if its other direction stays silent.
RelaysReturn ==
    <>[](\A r \in Relays :
            cancelled[r] \/ (\E k \in OfRelay(r) : copier[k] = "error") =>
                /\ returned[r]
                /\ \A k \in OfRelay(r) :
                    copier[k] # "copying" /\ "open" \notin {status[src(k)], status[dst(k)]})

=============================================================================
