----------------------------- MODULE SocksConn ------------------------------
(***************************************************************************)
(* proxy/socks5.go: handleSOCKS, one connection of the SOCKS5 listener     *)
(* after its handshake. CONNECT opens a stream and relays it to the end    *)
(* (Relay), UDP ASSOCIATE runs an association (SocksUdp) whose datagrams   *)
(* have the form of Protocol. The relay counts bytes and is the same for a *)
(* compressed stream; what the encoder of such a stream puts on the wire   *)
(* (BlockCodec) is followed alone.                                         *)
(***************************************************************************)
EXTENDS Relay, BlockCodec, SocksUdp, Protocol

VARIABLE command \* "none", or what became of the request: "refused", "relay", "encode" or "associate"

socksVars == <<command, relayVars, codecVars, associationVars>>

SocksInit == command = "none" /\ RelayInit /\ CodecInit /\ AssociationInit

-----------------------------------------------------------------------------
\* The request

Becomes(c) ==
    /\ command = "none"
    /\ command' = c
    /\ UNCHANGED <<relayVars, codecVars, associationVars>>

\* The handshake or the request is not valid, the command is not supported, the dial fails, or
\* the connection ends before the reply: handleSOCKS answers and closes it.
Refuse == Becomes("refused")

\* socksConnect: the stream is open and the success reply written.
Connect == Becomes("relay") \/ Becomes("encode")

Associate == Becomes("associate")

-----------------------------------------------------------------------------
\* What follows

Relaying == command = "relay" /\ RelayNext /\ UNCHANGED <<command, codecVars, associationVars>>

Encoding == command = "encode" /\ CodecNext /\ UNCHANGED <<command, relayVars, associationVars>>

Associating ==
    command = "associate" /\ AssociationNext /\ UNCHANGED <<command, relayVars, codecVars>>

SocksNext == Refuse \/ Connect \/ Associate \/ Relaying \/ Encoding \/ Associating

SocksSpec == SocksInit /\ [][SocksNext]_socksVars

\* What goroutines and endpoints do of themselves in RelayFairness. A relay takes finitely many
\* steps, so that fairness of the disjunction is fairness of each.
Copies ==
    \/ \E k \in Copiers : CopierSteps(k)
    \/ \E r \in Relays : Abort(r) \/ RelayReturns(r)
    \/ \E h \in Halves : EndpointReads(h)

RelayRuns == command = "relay" /\ Copies /\ UNCHANGED <<command, codecVars, associationVars>>
AssociationRuns(A) == command = "associate" /\ A /\ UNCHANGED <<command, relayVars, codecVars>>

\* The fairness of FairRelay and of FairAssociation; nothing is assumed of the client's request.
FairSocks ==
    /\ SocksSpec
    /\ WF_socksVars(RelayRuns)
    /\ WF_socksVars(AssociationRuns(Reader)) /\ WF_socksVars(AssociationRuns(~sock /\ SocketFails))
    /\ SF_socksVars(AssociationRuns(WriterEnds)) /\ WF_socksVars(AssociationRuns(WatcherEnds))
    /\ WF_socksVars(AssociationRuns(CloseOnDone)) /\ WF_socksVars(AssociationRuns(Main))

-----------------------------------------------------------------------------
\* Properties (the others are in the modules of the parts)

\* Whatever an association is asked to carry keeps its form (EnvelopeExact), and what does not
\* have the form is refused (RefusalExact).
DatagramsExact == command = "associate" /\ main = "source" => EnvelopeExact /\ RefusalExact

=============================================================================
