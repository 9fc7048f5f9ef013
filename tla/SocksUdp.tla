------------------------------ MODULE SocksUdp ------------------------------
(***************************************************************************)
(* proxy/socks_udp.go: one SOCKS5 UDP association. Once it is set up three *)
(* workers run: one reads datagrams of the application and sends them into *)
(* the tunnel, one writes replies back, one watches the control            *)
(* connection. The first to end, or the context, ends the association. The *)
(* form of a datagram is the module Protocol.                              *)
(***************************************************************************)
EXTENDS Integers

CONSTANTS
    Ports,         \* UDP ports datagrams may come from
    RequestedPort, \* the port of the ASSOCIATE request, 0 for any
    MaxReplies     \* bound: replies waiting in the session

ASSUME SocksUdpAssumption ==
    Ports \subseteq Nat \ {0} /\ RequestedPort \in Ports \cup {0} /\ MaxReplies \in Nat

VARIABLES
    parent,    \* the listener's context is done
    udpCtx,    \* the association's context is done
    sock,      \* the UDP socket is open
    ctrl,      \* the control connection is open at this end
    left,      \* the application closed its end
    source,    \* the pinned source, 0 before the first valid datagram
    udpReader, \* progress of the reading worker
    from,      \* the source of the datagram it handles, port 0 before the first
    valid,     \* that datagram parses
    to,        \* what it loaded from source
    writer,    \* progress of the replying worker
    replyTo,   \* where its last reply went, 0 if nowhere
    inbox,     \* replies waiting in session.Recv()
    watcher,   \* the worker on the control connection
    done,      \* messages in the channel of the same name
    main,      \* progress of socksUDPAssociate, first its set-up
    workersLeft, \* remaining: the workers it has still to join
    session    \* the UDP session is registered

associationVars == <<parent, udpCtx, sock, ctrl, left, source, udpReader, from, valid, to, writer,
                     replyTo, inbox, watcher, done, main, workersLeft, session>>
endVars == <<parent, udpCtx, sock, ctrl, left>>
readVars == <<udpReader, from, valid, to>>
writeVars == <<writer, replyTo, inbox>>
joinVars == <<done, main, workersLeft, session>>

\* A source: its port, and whether its address is that of the control connection's peer.
Sources == [port : Ports, peer : BOOLEAN]

AssociationInit ==
    /\ parent = FALSE /\ udpCtx = FALSE /\ sock = FALSE /\ ctrl = TRUE /\ left = FALSE
    /\ source = 0 /\ udpReader = "none" /\ valid = FALSE /\ to = 0
    /\ from = [port |-> 0, peer |-> FALSE]
    /\ writer = "none" /\ replyTo = 0 /\ inbox = 0
    /\ watcher = "none"
    /\ done = 0 /\ main = "source" /\ workersLeft = 3 /\ session = FALSE

-----------------------------------------------------------------------------
\* The set-up: each step has a deadline, and each may fail

workers == <<source, udpReader, from, valid, to, writer, replyTo, inbox, watcher, done, workersLeft>>

\* Early return, with the deferred closes.
GiveUp == main' = "returned" /\ session' = FALSE /\ sock' = FALSE /\ udpCtx' = TRUE

\* validUDPSource: the requested address is that of the peer, as far as it can be looked up.
CheckSource ==
    /\ main = "source"
    /\ (main' = "session" /\ UNCHANGED <<udpCtx, sock, session>>) \/ GiveUp
    /\ UNCHANGED <<parent, ctrl, left, workers>>

\* newUDPSession; the client may be at its limit.
OpenSession ==
    /\ main = "session"
    /\ (main' = "listen" /\ session' = TRUE /\ UNCHANGED <<udpCtx, sock>>) \/ GiveUp
    /\ UNCHANGED <<parent, ctrl, left, workers>>

Listen ==
    /\ main = "listen"
    /\ (main' = "reply" /\ sock' = TRUE /\ UNCHANGED <<udpCtx, session>>) \/ GiveUp
    /\ UNCHANGED <<parent, ctrl, left, workers>>

\* The success reply is written, and the workers start.
WriteReply ==
    /\ main = "reply"
    /\ \/ /\ main' = "waiting"
          /\ udpReader' = "reading" /\ writer' = "waiting" /\ watcher' = "watching"
          /\ UNCHANGED <<udpCtx, sock, session>>
       \/ GiveUp /\ UNCHANGED <<udpReader, writer, watcher>>
    /\ UNCHANGED <<parent, ctrl, left, source, from, valid, to, replyTo, inbox, done, workersLeft>>

SetUp == CheckSource \/ OpenSession \/ Listen \/ WriteReply

-----------------------------------------------------------------------------
\* The reading worker

\* ReadFromUDP returns a datagram of anybody, and the pinned source is loaded.
Receive(s, ok) ==
    /\ udpReader = "reading" /\ sock
    /\ from' = s /\ valid' = ok /\ to' = source
    /\ udpReader' = "checking"
    /\ UNCHANGED <<endVars, source, writeVars, watcher, joinVars>>

Accepted ==
    /\ from.peer
    /\ RequestedPort # 0 => from.port = RequestedPort
    /\ to # 0 => from.port = to

\* A datagram of a wrong source, or one that does not parse, is dropped; the first good one pins
\* its source.
Check ==
    /\ udpReader = "checking"
    /\ udpReader' = IF Accepted /\ valid THEN "sending" ELSE "reading"
    /\ source' = IF Accepted /\ valid /\ to = 0 THEN from.port ELSE source
    /\ UNCHANGED <<endVars, from, valid, to, writeVars, watcher, joinVars>>

\* session.Send returns, by its timeout at the latest.
Sent ==
    /\ udpReader = "sending"
    /\ udpReader' = "reading"
    /\ UNCHANGED <<endVars, source, from, valid, to, writeVars, watcher, joinVars>>

\* The socket was closed, or idle until its read deadline.
SocketFails ==
    /\ udpReader = "reading"
    /\ udpReader' = "ended"
    /\ done' = done + 1
    /\ UNCHANGED <<endVars, source, from, valid, to, writeVars, watcher, main, workersLeft, session>>

-----------------------------------------------------------------------------
\* The replying worker

\* Mutant of TakeReply: the reply goes to whoever sent last.
TakeReplyToLast ==
    /\ writer = "waiting" /\ inbox > 0
    /\ inbox' = inbox - 1
    /\ replyTo' = IF sock THEN from.port ELSE 0
    /\ UNCHANGED <<endVars, source, readVars, writer, watcher, joinVars>>

\* A reply is taken from the session; it goes to the pinned source if there is one.
TakeReply ==
    /\ writer = "waiting" /\ inbox > 0
    /\ inbox' = inbox - 1
    /\ replyTo' = IF sock THEN source ELSE 0
    /\ UNCHANGED <<endVars, source, readVars, writer, watcher, joinVars>>

WriterEnds ==
    /\ writer = "waiting" /\ udpCtx
    /\ writer' = "ended"
    /\ done' = done + 1
    /\ UNCHANGED <<endVars, source, readVars, replyTo, inbox, watcher, main, workersLeft, session>>

\* The tunnel client's dispatcher delivers a reply.
Reply ==
    /\ session /\ inbox < MaxReplies
    /\ inbox' = inbox + 1
    /\ UNCHANGED <<endVars, source, readVars, writer, replyTo, watcher, joinVars>>

-----------------------------------------------------------------------------
\* The control connection

\* io.Copy on the control connection returns: the application left, or this end closed it.
WatcherEnds ==
    /\ watcher = "watching" /\ (left \/ ~ctrl)
    /\ watcher' = "ended"
    /\ done' = done + 1
    /\ UNCHANGED <<endVars, source, readVars, writeVars, main, workersLeft, session>>

ApplicationLeaves ==
    /\ ~left
    /\ left' = TRUE
    /\ UNCHANGED <<parent, udpCtx, sock, ctrl, source, readVars, writeVars, watcher, joinVars>>

\* The listener stops; the association's context derives from its context, and the AfterFunc
\* closes both ends.
ListenerStops ==
    /\ ~parent
    /\ parent' = TRUE /\ udpCtx' = TRUE
    /\ UNCHANGED <<sock, ctrl, left, source, readVars, writeVars, watcher, joinVars>>

CloseEnds == sock' = FALSE /\ ctrl' = FALSE

CloseOnDone ==
    /\ udpCtx /\ (sock \/ ctrl) /\ main \in {"waiting", "joining"}
    /\ CloseEnds
    /\ UNCHANGED <<parent, udpCtx, left, source, readVars, writeVars, watcher, joinVars>>

-----------------------------------------------------------------------------
\* socksUDPAssociate

\* Mutant of Wake: the end of a worker is not waited for.
WakeOnContext ==
    /\ main = "waiting"
    /\ \/ udpCtx /\ done > 0 /\ done' = done - 1 /\ workersLeft' = workersLeft - 1
       \/ udpCtx /\ UNCHANGED <<done, workersLeft>>
    /\ main' = "joining"
    /\ udpCtx' = TRUE
    /\ CloseEnds
    /\ UNCHANGED <<parent, left, source, readVars, writeVars, watcher, session>>

\* The select returns for a worker or for the context; everything is cancelled and closed.
Wake ==
    /\ main = "waiting"
    /\ \/ done > 0 /\ done' = done - 1 /\ workersLeft' = workersLeft - 1
       \/ udpCtx /\ UNCHANGED <<done, workersLeft>>
    /\ main' = "joining"
    /\ udpCtx' = TRUE
    /\ CloseEnds
    /\ UNCHANGED <<parent, left, source, readVars, writeVars, watcher, session>>

Join ==
    /\ main = "joining" /\ workersLeft > 0 /\ done > 0
    /\ done' = done - 1
    /\ workersLeft' = workersLeft - 1
    /\ UNCHANGED <<endVars, source, readVars, writeVars, watcher, main, session>>

\* The deferred session.Close runs last.
AssociationReturns ==
    /\ main = "joining" /\ workersLeft = 0
    /\ main' = "returned"
    /\ session' = FALSE
    /\ UNCHANGED <<endVars, source, readVars, writeVars, watcher, done, workersLeft>>

-----------------------------------------------------------------------------
Reader == Check \/ Sent
Main == SetUp \/ Wake \/ Join \/ AssociationReturns

AssociationNext ==
    \/ \E s \in Sources, ok \in BOOLEAN : Receive(s, ok)
    \/ Reader \/ SocketFails \/ TakeReply \/ WriterEnds \/ Reply
    \/ WatcherEnds \/ ApplicationLeaves \/ ListenerStops \/ CloseOnDone \/ Main

AssociationSpec == AssociationInit /\ [][AssociationNext]_associationVars

\* Goroutines run, also when their select has another choice; a read of a closed socket fails.
FairAssociation ==
    /\ AssociationSpec
    /\ WF_associationVars(Reader) /\ WF_associationVars(~sock /\ SocketFails)
    /\ SF_associationVars(WriterEnds) /\ WF_associationVars(WatcherEnds)
    /\ WF_associationVars(CloseOnDone) /\ WF_associationVars(Main)

-----------------------------------------------------------------------------
\* Properties

\* Every variable keeps its type; no worker can block on the channel done, of capacity 3.
AssociationTypeOK ==
    /\ \A b \in {parent, udpCtx, sock, ctrl, left, valid, session} : b \in BOOLEAN
    /\ source \in Ports \cup {0} /\ to \in Ports \cup {0} /\ replyTo \in Ports \cup {0}
    /\ from \in [port : Ports \cup {0}, peer : BOOLEAN]
    /\ udpReader \in {"none", "reading", "checking", "sending", "ended"}
    /\ writer \in {"none", "waiting", "ended"} /\ watcher \in {"none", "watching", "ended"}
    /\ inbox \in 0..MaxReplies /\ done \in 0..3 /\ workersLeft \in 0..3
    /\ main \in {"source", "session", "listen", "reply", "waiting", "joining", "returned"}

\* "an unspecified source port is pinned on the first valid datagram, never moved": only the
\* pinned source of the peer, with the requested port, sends into the tunnel, and a reply goes to
\* it or nowhere, although reader and writer use the source without a lock.
SourcePinned ==
    /\ [][source # 0 => source' = source]_associationVars
    /\ [](AssociationTypeOK /\ replyTo \in {0, source})
    /\ [](udpReader = "sending" => from.peer /\ from.port = source /\ RequestedPort \in {0, source})

\* The association ends when the application leaves, the listener stops or a worker ends, however
\* busy the tunnel keeps it with replies, and wherever in the set-up it happens; then its
\* session is closed and its socket too.
AssociationEnds ==
    (left \/ parent \/ udpReader = "ended") ~> (main = "returned" /\ ~session /\ ~sock)

=============================================================================
