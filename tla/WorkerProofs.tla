---------------------------- MODULE WorkerProofs ----------------------------
(***************************************************************************)
(* What carries the bytes of a connection of the SOCKS5 listener           *)
(* (SocksConn), for any amounts, sizes and ports: the relays of            *)
(* a stream at both ends (Relay), the blocks of a compressed connection    *)
(* (BlockCodec), and the datagrams of a SOCKS5 UDP association (SocksUdp)  *)
(* with their addresses and envelopes (Protocol).                          *)
(*                                                                         *)
(* Each encoder of Protocol is shown to be undone by its decoder for every *)
(* address and every body that it accepts, from lemmas about the bytes it  *)
(* writes; the datagrams that SocksConn's run enumerates are instances.    *)
(***************************************************************************)
EXTENDS SocksConn, TLAPS

-----------------------------------------------------------------------------
\* Every connection of the SOCKS5 listener (handleSOCKS) is, to each of its parts, a behaviour of
\* that part, so that what is proved below of a relay, an encoder or an association holds of it.
THEOREM Parts == SocksSpec => RelaySpec /\ CodecSpec /\ AssociationSpec
<1>1. SocksInit => RelayInit /\ CodecInit /\ AssociationInit
  BY Zenon DEF SocksInit
<1>2. [SocksNext]_socksVars => /\ [RelayNext]_relayVars
                              /\ [CodecNext]_codecVars
                              /\ [AssociationNext]_associationVars
  BY Zenon DEF SocksNext, socksVars, Refuse, Connect, Associate, Becomes, Relaying, Encoding, Associating
<1> QED
  BY <1>1, <1>2, PTL DEF SocksSpec, RelaySpec, CodecSpec, AssociationSpec

-----------------------------------------------------------------------------
\* Relays: the client's relay and the server's pipe

\* The bound on what a half carries: that of the endpoint its bytes come from.
Most(h) == IF h \in {"appUp", "tunUp", "dstUp"} THEN MaxUp ELSE MaxDown

\* A copier passes on what it reads, and half-closes its output only when it has read the end of
\* its input.
Copied ==
    \A k \in Copiers :
        /\ sent[dst(k)] = got[src(k)]
        /\ status[dst(k)] = "fin" => /\ copier[k] = "eof"
                                     /\ status[src(k)] = "fin"
                                     /\ got[src(k)] = sent[src(k)]

\* Nothing fails of itself: while there was no fault, a relay is aborted only by returning, and a
\* copier that ended did so by passing on the end of its input.
Faultless ==
    \/ fault
    \/ /\ \A h \in Halves : status[h] # "cut"
       /\ \A r \in Relays : ~cancelled[r] /\ (aborted[r] => \A k \in OfRelay(r) : copier[k] # "copying")
       /\ \A k \in Copiers : copier[k] # "error" /\ (copier[k] = "eof" => status[dst(k)] = "fin")

RTypes ==
    /\ status \in [Halves -> {"open", "fin", "cut"}]
    /\ sent \in [Halves -> Nat] /\ got \in [Halves -> Nat]
    /\ \A h \in Halves : sent[h] - got[h] \in 0..Window /\ sent[h] <= Most(h)
    /\ copier \in [Copiers -> {"copying", "eof", "error"}]

RBools ==
    /\ aborted \in [Relays -> BOOLEAN] /\ returned \in [Relays -> BOOLEAN]
    /\ cancelled \in [Relays -> BOOLEAN] /\ fault \in BOOLEAN

RInv == RTypes /\ RBools /\ Copied /\ Faultless

\* How the copiers join the halves: each has an input and an output of its own, on one path.
LEMMA Wiring ==
    /\ Copiers = {<<"client", "up">>, <<"client", "down">>, <<"server", "up">>, <<"server", "down">>}
    /\ Halves = {"appUp", "tunUp", "dstUp", "dstDown", "tunDown", "appDown"}
    /\ \A k \in Copiers :
        /\ src(k) \in Halves /\ dst(k) \in Halves /\ src(k) # dst(k) /\ Most(src(k)) = Most(dst(k))
        /\ dst(k) \notin {"appUp", "dstDown"} /\ src(k) \notin {"dstUp", "appDown"}
        /\ k[1] \in Relays /\ k \in OfRelay(k[1])
    /\ \A k, l \in Copiers : (src(k) = src(l) \/ dst(k) = dst(l)) => k = l
    /\ \A r \in Relays : OfRelay(r) \subseteq Copiers
<1>1. Copiers = {<<"client", "up">>, <<"client", "down">>, <<"server", "up">>, <<"server", "down">>}
  BY DEF Copiers, Relays
<1>2. Halves = {"appUp", "tunUp", "dstUp", "dstDown", "tunDown", "appDown"}
  BY DEF Halves, Up, Down
<1>3. \A k \in Copiers :
        /\ src(k) \in Halves /\ dst(k) \in Halves /\ src(k) # dst(k) /\ Most(src(k)) = Most(dst(k))
        /\ dst(k) \notin {"appUp", "dstDown"} /\ src(k) \notin {"dstUp", "appDown"}
  BY <1>1, <1>2 DEF src, dst, Most
<1>4. \A k \in Copiers : k[1] \in Relays /\ k \in OfRelay(k[1])
  BY <1>1 DEF Relays, OfRelay
<1>5. \A k, l \in Copiers : (src(k) = src(l) \/ dst(k) = dst(l)) => k = l
  BY <1>1 DEF src, dst
<1>6. \A r \in Relays : OfRelay(r) \subseteq Copiers
  BY <1>1 DEF Relays, OfRelay
<1> QED
  BY <1>1, <1>2, <1>3, <1>4, <1>5, <1>6

\* What Cut leaves: a half stays as it is unless it is cut, and one whose end was taken stays.
LEMMA CutSpares ==
    ASSUME RInv, NEW hs
    PROVE  /\ Cut(hs) \in [Halves -> {"open", "fin", "cut"}]
           /\ \A h \in Halves : Cut(hs)[h] = status[h] \/ (h \in hs /\ Cut(hs)[h] = "cut" /\ ~Consumed(h))
  BY DEF Cut, RInv, RTypes

\* A step that only cuts halves keeps what the copiers passed on.
LEMMA CutsKeepCopied ==
    ASSUME RInv, UNCHANGED <<sent, got, copier>>,
           \A h \in Halves : status'[h] = status[h] \/ (status'[h] = "cut" /\ ~Consumed(h))
    PROVE  Copied'
<1> SUFFICES ASSUME NEW k \in Copiers
             PROVE  /\ sent[dst(k)] = got[src(k)]
                    /\ status'[dst(k)] = "fin" => /\ copier[k] = "eof"
                                                  /\ status'[src(k)] = "fin"
                                                  /\ got[src(k)] = sent[src(k)]
  BY DEF Copied
<1>1. sent[dst(k)] = got[src(k)]
  BY DEF RInv, Copied
<1>2. ASSUME status'[dst(k)] = "fin"
      PROVE  copier[k] = "eof" /\ status'[src(k)] = "fin" /\ got[src(k)] = sent[src(k)]
  <2>1. status[dst(k)] = "fin"
    BY <1>2, Wiring
  <2>2. copier[k] = "eof" /\ status[src(k)] = "fin" /\ got[src(k)] = sent[src(k)]
    BY <2>1 DEF RInv, Copied
  <2>3. Consumed(src(k))
    BY <2>2, Wiring DEF Consumed, AtEOF
  <2> QED
    BY <2>2, <2>3, Wiring
<1> QED
  BY <1>1, <1>2

\* Nothing has been sent yet and nothing failed.
LEMMA RInit == RelayInit => RInv
<1> SUFFICES ASSUME RelayInit PROVE RInv
  OBVIOUS
<1>1. RTypes
  BY RelayAssumption DEF RelayInit, RTypes, Most
<1>2. RBools
  BY Zenon DEF RelayInit, RBools
<1>3. Copied
  BY Wiring, Zenon DEF RelayInit, Copied
<1>4. Faultless
  BY Wiring DEF RelayInit, Faultless
<1> QED
  BY <1>1, <1>2, <1>3, <1>4 DEF RInv

\* A copier's step: the block it passes on, the end, or its failure.
LEMMA CopierStep ==
    ASSUME RInv, NEW k \in Copiers, CopierSteps(k) \/ IdleTimeout(k)
    PROVE  RTypes' /\ Copied' /\ Faultless'
<1> USE DEF RInv
<1>w. /\ src(k) \in Halves /\ dst(k) \in Halves /\ src(k) # dst(k) /\ Most(src(k)) = Most(dst(k))
      /\ k[1] \in Relays /\ k \in OfRelay(k[1])
      /\ \A l \in Copiers : src(l) \in Halves /\ dst(l) \in Halves
      /\ \A l \in Copiers \ {k} : src(k) # src(l) /\ dst(k) # dst(l)
  BY Wiring
<1>1. CASE CopyBlock(k)
  <2>1. /\ UNCHANGED <<status, copier, aborted, cancelled, fault>>
        /\ got' = [got EXCEPT ![src(k)] = @ + 1] /\ sent' = [sent EXCEPT ![dst(k)] = @ + 1]
        /\ got[src(k)] < sent[src(k)] /\ status[dst(k)] = "open" /\ sent[dst(k)] - got[dst(k)] < Window
    BY <1>1, Zenon DEF CopyBlock, Readable, Writable
  <2>2. sent[dst(k)] = got[src(k)]
    BY DEF Copied
  <2>3. RTypes'
    <3>1. got[src(k)] \in Nat /\ sent[dst(k)] \in Nat /\ sent[src(k)] \in Nat /\ got[dst(k)] \in Nat
          /\ sent[src(k)] <= Most(src(k)) /\ Window \in Nat /\ Most(src(k)) \in Nat
      BY <1>w, RelayAssumption DEF RTypes, Most
    <3>2. sent[dst(k)] + 1 \in Nat /\ got[src(k)] + 1 \in Nat
      BY <3>1
    <3>3. sent' \in [Halves -> Nat]
      BY <2>1, <3>2, Zenon DEF RTypes
    <3>4. got' \in [Halves -> Nat]
      BY <2>1, <3>2, Zenon DEF RTypes
    <3>5. \A h \in Halves : sent'[h] - got'[h] \in 0..Window /\ sent'[h] <= Most(h)
      <4> SUFFICES ASSUME NEW h \in Halves PROVE sent'[h] - got'[h] \in 0..Window /\ sent'[h] <= Most(h)
        OBVIOUS
      <4>0. sent[h] - got[h] \in 0..Window /\ sent[h] <= Most(h) /\ sent[h] \in Nat /\ got[h] \in Nat
        BY Zenon DEF RTypes
      <4>1. CASE h = src(k)
        BY <4>0, <4>1, <2>1, <3>1, <1>w DEF RTypes
      <4>2. CASE h = dst(k)
        BY <4>0, <4>2, <2>1, <2>2, <3>1, <1>w DEF RTypes
      <4>3. CASE h # src(k) /\ h # dst(k)
        BY <4>0, <4>3, <2>1, Zenon DEF RTypes
      <4> QED
        BY <4>1, <4>2, <4>3
    <3> QED
      BY <2>1, <3>3, <3>4, <3>5 DEF RTypes
  <2>4. Copied'
    <3> SUFFICES ASSUME NEW l \in Copiers
                 PROVE  /\ sent'[dst(l)] = got'[src(l)]
                        /\ status[dst(l)] = "fin" => /\ copier[l] = "eof" /\ status[src(l)] = "fin"
                                                     /\ got'[src(l)] = sent'[src(l)]
      BY <2>1, Zenon DEF Copied
    <3>1. /\ sent[dst(l)] = got[src(l)]
          /\ status[dst(l)] = "fin" => /\ copier[l] = "eof" /\ status[src(l)] = "fin"
                                       /\ got[src(l)] = sent[src(l)]
      BY Zenon DEF Copied
    <3>2. sent'[dst(l)] = got'[src(l)]
      BY <3>1, <2>1, <2>2, <1>w, Zenon DEF RTypes
    <3>3. status[dst(l)] = "fin" => got'[src(l)] = sent'[src(l)]
      BY <3>1, <2>1, <1>w, Zenon DEF RTypes
    <3> QED
      BY <3>1, <3>2, <3>3, Zenon
  <2>5. Faultless'
    BY <2>1 DEF Faultless
  <2> QED
    BY <2>3, <2>4, <2>5
<1>2. CASE CopyEOF(k)
  <2>1. /\ UNCHANGED <<sent, got, aborted, cancelled, fault>>
        /\ status' = [status EXCEPT ![dst(k)] = "fin"] /\ copier' = [copier EXCEPT ![k] = "eof"]
        /\ status[src(k)] = "fin" /\ got[src(k)] = sent[src(k)] /\ status[dst(k)] = "open"
    BY <1>2, Zenon DEF CopyEOF, AtEOF
  <2>2. RTypes'
    BY <2>1, <1>w, Zenon DEF RTypes
  <2>3. Copied'
    BY <2>1, <1>w, Zenon DEF RTypes, Copied
  <2>4. Faultless'
    BY <2>1, <1>w, Wiring DEF RTypes, Faultless
  <2> QED
    BY <2>2, <2>3, <2>4, Zenon
<1>3. CASE CopyFails(k) \/ IdleTimeout(k)
  <2>1. /\ UNCHANGED <<status, sent, got, aborted, cancelled>>
        /\ copier[k] = "copying" /\ copier' = [copier EXCEPT ![k] = "error"]
    BY <1>3 DEF CopyFails, IdleTimeout
  <2>2. fault'
    <3>1. CASE IdleTimeout(k)
      BY <3>1, Zenon DEF IdleTimeout
    <3>2. CASE CopyFails(k)
      BY <3>2, <1>w DEF CopyFails, Faultless
    <3> QED
      BY <1>3, <3>1, <3>2
  <2>3. RTypes'
    BY <2>1, Zenon DEF RTypes
  <2>4. Copied'
    BY <2>1, <1>w, Zenon DEF RTypes, Copied
  <2>5. Faultless'
    BY <2>2 DEF Faultless
  <2> QED
    BY <2>3, <2>4, <2>5, Zenon
<1> QED
  BY <1>1, <1>2, <1>3 DEF CopierSteps

\* A step of a relay: it aborts, or returns with both copiers joined.
LEMMA RelayStep ==
    ASSUME RInv, NEW r \in Relays, Abort(r) \/ RelayReturns(r)
    PROVE  RTypes' /\ Copied' /\ Faultless'
<1> USE DEF RInv
<1>1. UNCHANGED <<sent, got, copier, cancelled, fault>>
  BY Zenon DEF Abort, RelayReturns
<1>2. /\ status' \in [Halves -> {"open", "fin", "cut"}]
      /\ \A h \in Halves : status'[h] = status[h] \/ (status'[h] = "cut" /\ ~Consumed(h))
  <2>1. CASE status' = CloseBoth(r)
    BY <2>1, CutSpares DEF CloseBoth
  <2>2. CASE status' = [CloseBoth(r) EXCEPT !["tunDown"] = Cut({"tunDown"})["tunDown"]]
    <3>1. "tunDown" \in Halves
      BY Wiring, Zenon
    <3>2. /\ CloseBoth(r) \in [Halves -> {"open", "fin", "cut"}]
          /\ \A h \in Halves : CloseBoth(r)[h] = status[h] \/ (CloseBoth(r)[h] = "cut" /\ ~Consumed(h))
      BY CutSpares DEF CloseBoth
    <3>3. /\ Cut({"tunDown"})["tunDown"] \in {"open", "fin", "cut"}
          /\ \/ Cut({"tunDown"})["tunDown"] = status["tunDown"]
             \/ Cut({"tunDown"})["tunDown"] = "cut" /\ ~Consumed("tunDown")
      BY <3>1, CutSpares
    <3> HIDE DEF RInv
    <3> QED
      BY <2>2, <3>1, <3>2, <3>3
  <2> QED
    BY <2>1, <2>2, Zenon DEF Abort, RelayReturns, AbortEffect
<1>3. RTypes'
  BY <1>1, <1>2 DEF RTypes
<1>4. Copied'
  BY <1>1, <1>2, CutsKeepCopied, Zenon
<1>5. Faultless'
  <2> SUFFICES ASSUME ~fault PROVE Faultless'
    BY <1>1, Zenon DEF Faultless
  <2>1. /\ \A h \in Halves : status[h] # "cut"
        /\ \A k \in Copiers : copier[k] # "error" /\ (copier[k] = "eof" => status[dst(k)] = "fin")
    BY Zenon DEF Faultless
  <2>2. RelayReturns(r) /\ \A k \in OfRelay(r) : copier[k] = "eof" /\ status[dst(k)] = "fin"
    <3>1. RelayReturns(r) /\ OfRelay(r) \subseteq Copiers
      BY Wiring, Zenon DEF Faultless, Abort
    <3>2. \A k \in OfRelay(r) : copier[k] # "copying"
      BY <3>1, Zenon DEF RelayReturns
    <3>3. \A k \in Copiers : copier[k] \in {"copying", "eof", "error"}
      BY Zenon DEF RTypes
    <3> QED
      BY <2>1, <3>1, <3>2, <3>3, Zenon
  <2>3. \A k \in OfRelay(r) : Consumed(src(k))
    BY <2>2, Wiring DEF Copied, Consumed, AtEOF
  <2>4. \A h \in Halves : status'[h] = status[h]
    BY <2>1, <2>2, <2>3 DEF RelayReturns, CloseBoth, Cut
  <2>5. \A s \in Relays \ {r} : aborted'[s] = aborted[s]
    BY <2>2, Zenon DEF RelayReturns, RBools
  <2>6. \A s \in Relays : ~cancelled'[s] /\ (aborted'[s] => \A k \in OfRelay(s) : copier'[k] # "copying")
    BY <1>1, <2>2, <2>5, Zenon DEF Faultless
  <2>7. \A k \in Copiers : copier'[k] # "error" /\ (copier'[k] = "eof" => status'[dst(k)] = "fin")
    <3>1. \A k \in Copiers : dst(k) \in Halves
      BY Wiring, Zenon
    <3> QED
      BY <1>1, <2>4, <3>1, Zenon DEF Faultless
  <2> QED
    BY <2>1, <2>4, <2>6, <2>7, Zenon DEF Faultless
<1> QED
  BY <1>3, <1>4, <1>5, Zenon

\* A step of the application, of the destination, of the network or of the client's shutdown.
LEMMA EnvironmentStep ==
    ASSUME RInv,
           \/ \E h \in Halves : EndpointWrites(h) \/ EndpointEnds(h) \/ EndpointReads(h)
           \/ \E hs \in SUBSET Halves : EndpointResets(hs)
           \/ TunnelDies \/ ClientCancelled
    PROVE  RTypes' /\ Copied' /\ Faultless'
<1> USE DEF RInv
<1>1. ASSUME NEW h \in Halves, EndpointWrites(h)
      PROVE  RTypes' /\ Copied' /\ Faultless'
  <2>1. /\ UNCHANGED <<status, got, copier, aborted, cancelled, fault>>
        /\ sent' = [sent EXCEPT ![h] = @ + 1] /\ status[h] = "open"
        /\ sent[h] - got[h] < Window /\ sent[h] < Most(h) /\ h \in {"appUp", "dstDown"}
    BY <1>1 DEF EndpointWrites, Writable, Most
  <2>2. RTypes'
    <3>1. sent[h] + 1 \in Nat
      BY DEF RTypes
    <3>2. sent' \in [Halves -> Nat]
      BY <2>1, <3>1, Zenon DEF RTypes
    <3>3. \A g \in Halves : sent'[g] - got'[g] \in 0..Window /\ sent'[g] <= Most(g)
      BY <2>1, RelayAssumption DEF RTypes, Most
    <3> QED
      BY <2>1, <3>2, <3>3 DEF RTypes
  <2>3. Copied'
    BY <2>1, Wiring DEF Copied, RTypes
  <2>4. Faultless'
    BY <2>1, Zenon DEF Faultless
  <2> QED
    BY <2>2, <2>3, <2>4
<1>2. ASSUME NEW h \in Halves, EndpointEnds(h)
      PROVE  RTypes' /\ Copied' /\ Faultless'
  <2>1. /\ UNCHANGED <<sent, got, copier, aborted, cancelled, fault>>
        /\ status' = [status EXCEPT ![h] = "fin"] /\ status[h] = "open" /\ h \in {"appUp", "dstDown"}
    BY <1>2 DEF EndpointEnds
  <2>2. RTypes'
    BY <2>1, Zenon DEF RTypes
  <2>3. Copied'
    BY <2>1, Wiring DEF Copied, RTypes
  <2>4. Faultless'
    BY <2>1, Wiring DEF Faultless, RTypes
  <2> QED
    BY <2>2, <2>3, <2>4
<1>3. ASSUME NEW h \in Halves, EndpointReads(h)
      PROVE  RTypes' /\ Copied' /\ Faultless'
  <2>1. /\ UNCHANGED <<status, sent, copier, aborted, cancelled, fault>>
        /\ got' = [got EXCEPT ![h] = @ + 1] /\ got[h] < sent[h] /\ h \in {"dstUp", "appDown"}
    BY <1>3 DEF EndpointReads, Readable
  <2>2. RTypes'
    <3>1. got[h] + 1 \in Nat
      BY DEF RTypes
    <3>2. got' \in [Halves -> Nat]
      BY <2>1, <3>1, Zenon DEF RTypes
    <3>3. \A g \in Halves : sent'[g] - got'[g] \in 0..Window
      BY <2>1, RelayAssumption DEF RTypes
    <3> QED
      BY <2>1, <3>2, <3>3 DEF RTypes
  <2>3. Copied'
    BY <2>1, Wiring DEF Copied, RTypes
  <2>4. Faultless'
    BY <2>1, Zenon DEF Faultless
  <2> QED
    BY <2>2, <2>3, <2>4
<1>4. ASSUME NEW hs, status' = Cut(hs), fault', UNCHANGED <<sent, got, copier>>
      PROVE  RTypes' /\ Copied' /\ Faultless'
  <2>1. RTypes'
    BY <1>4, CutSpares DEF RTypes
  <2>2. Copied'
    BY <1>4, CutSpares, CutsKeepCopied, Zenon
  <2> QED
    BY <1>4, <2>1, <2>2, Zenon DEF Faultless
<1>5. CASE TunnelDies \/ \E hs \in SUBSET Halves : EndpointResets(hs)
  BY <1>4, <1>5, Zenon DEF TunnelDies, EndpointResets
<1>6. CASE ClientCancelled
  <2>1. UNCHANGED <<status, sent, got, copier>> /\ fault'
    BY <1>6 DEF ClientCancelled
  <2> QED
    BY <2>1, Zenon DEF RTypes, Copied, Faultless
<1> QED
  BY <1>1, <1>2, <1>3, <1>5, <1>6, Zenon

\* Every step of the relays, of the endpoints and of the network keeps the invariant.
LEMMA RNext == RInv /\ [RelayNext]_relayVars => RInv'
<1> SUFFICES ASSUME RInv, [RelayNext]_relayVars PROVE RInv'
  OBVIOUS
<1>1. RBools'
  BY Zenon DEF RInv, RBools, RelayNext, relayVars, CopierSteps, CopyBlock, CopyEOF, CopyFails, IdleTimeout,
    Abort, RelayReturns, EndpointWrites, EndpointEnds, EndpointReads, EndpointResets, TunnelDies,
    ClientCancelled
<1>2. RTypes' /\ Copied' /\ Faultless'
  <2>1. CASE UNCHANGED relayVars
    BY <2>1 DEF relayVars, RInv, RTypes, Copied, Faultless
  <2> QED
    BY <2>1, CopierStep, RelayStep, EnvironmentStep, Zenon DEF RelayNext
<1> QED
  BY <1>1, <1>2 DEF RInv

\* The relays keep their invariant for good.
LEMMA RInvariant == RelaySpec => []RInv
  BY RInit, RNext, PTL DEF RelaySpec

\* A clean end of a direction (relay in proxy.go, pipe in server.go) means that every byte before
\* it arrived, at either end of the tunnel, for any amounts of data and any window: a copier
\* half-closes only after it has passed on everything, and a cut never turns into a clean end.
THEOREM CleanEnd == RelaySpec => []CleanEndIsComplete
<1>1. RInv => CleanEndIsComplete
  <2> SUFFICES ASSUME RInv PROVE CleanEndIsComplete
    BY Zenon
  <2>1. RelayTypeOK
    BY Wiring DEF RInv, RTypes, RBools, RelayTypeOK, Most, Up, Down
  <2>2. \A path \in {Up, Down} : \A i \in 2..3 :
            \E k \in Copiers : src(k) = path[i - 1] /\ dst(k) = path[i]
    BY Wiring DEF Up, Down, src, dst
  <2>3. ASSUME NEW path \in {Up, Down}, NEW i \in 2..3, status[path[i]] = "fin"
        PROVE  status[path[i - 1]] = "fin" /\ sent[path[i]] = sent[path[i - 1]]
    <3>1. PICK k \in Copiers : src(k) = path[i - 1] /\ dst(k) = path[i]
      BY <2>2, Zenon
    <3> QED
      BY <2>3, <3>1 DEF RInv, Copied
  <2> QED
    BY <2>1, <2>3, Zenon DEF CleanEndIsComplete
<1> QED
  BY <1>1, RInvariant, PTL

\* A relay cuts a connection, or drops bytes, only after a fault: while the endpoints, the tunnel
\* and the timeouts behave, neither abortStream nor the closes at the end of relay and pipe cut
\* short what the other direction still carries.
THEOREM FaultsCut == RelaySpec => []OnlyFaultsCut
<1>1. RInv => OnlyFaultsCut
  BY DEF RInv, Faultless, OnlyFaultsCut
<1> QED
  BY <1>1, RInvariant, PTL

-----------------------------------------------------------------------------
\* The blocks of a compressed connection

\* The inductive invariant. The last conjunct is what makes the back-off work: the bytes that
\* are still to be skipped and those read since the last miss make up the window.
CodecInv ==
    /\ CodecTypeOK
    /\ FramesDecode
    /\ misses = 3 => skipBytes + since >= SkipWindow

\* A length that fits 16 bits survives the frame header.
LEMMA FitsHeader == \A n \in Nat : n < 65536 => Uint16(n) = n
  BY SMT DEF Uint16

\* A frame of a raw block passes the validation of Decopy and yields the block.
LEMMA RawDecodes ==
    ASSUME NEW n \in 1..BlockSize
    PROVE  DecodeFrame(Frame("raw", n, n)) = n /\ Frame("raw", n, n).payload.length = n
  <1>1. n \in Nat /\ n < 65536
    BY CodecAssumption
  <1>2. Uint16(n) = n
    BY <1>1, FitsHeader
  <1> QED
    BY <1>2 DEF DecodeFrame, Frame

\* So does a frame of a compressed block, if the encoding is worth sending.
LEMMA FlateDecodes ==
    ASSUME NEW n \in 1..BlockSize, NEW k \in Nat \ {0}, Worthwhile(k, n)
    PROVE  DecodeFrame(Frame("flate", n, k)) = n /\ Frame("flate", n, k).payload.length <= n
  <1>1. k \in 1..BlockSize /\ k <= n
    BY CodecAssumption DEF Worthwhile
  <1>2. n \in Nat /\ n < 65536 /\ k \in Nat /\ k < 65536
    BY <1>1, CodecAssumption
  <1>3. Uint16(n) = n /\ Uint16(k) = k
    BY <1>2, FitsHeader
  <1> QED
    BY <1>1, <1>3 DEF DecodeFrame, Frame

\* A fresh encoder satisfies the inductive invariant.
LEMMA CodecInvInit == CodecInit => CodecInv
  <1> SUFFICES ASSUME CodecInit PROVE CodecInv
    OBVIOUS
  <1>1. 1 \in 1..BlockSize
    BY CodecAssumption
  <1>2. CodecTypeOK
    BY <1>1, CodecAssumption DEF CodecInit, CodecTypeOK
  <1>3. FramesDecode
    BY <1>1, RawDecodes DEF CodecInit, FramesDecode
  <1> QED
    BY <1>2, <1>3 DEF CodecInit, CodecInv

\* Every step of the block encoder keeps it, one step per action.
LEMMA CodecInvNext == CodecInv /\ [CodecNext]_codecVars => CodecInv'
  <1> SUFFICES ASSUME CodecInv, [CodecNext]_codecVars PROVE CodecInv'
    OBVIOUS
  <1>a. CodecTypeOK /\ FramesDecode /\ (misses = 3 => skipBytes + since >= SkipWindow)
    BY DEF CodecInv
  <1>b. /\ SkipWindow \in Nat /\ MinBlock \in Nat
        /\ MaxEmptyReads \in Nat \ {0} /\ BlockSize \in Nat \ {0}
    BY CodecAssumption
  <1>1. ASSUME NEW n \in Blocks, Skip(n) PROVE CodecInv'
    <2>1. n \in 1..BlockSize
      BY CodecAssumption
    <2>2. CodecTypeOK'
      BY <1>a, <1>b, <1>1, <2>1 DEF Skip, CodecTypeOK, Passed
    <2>3. FramesDecode'
      BY <1>1, <2>1, RawDecodes DEF Skip, FramesDecode
    <2>4. (misses = 3 => skipBytes + since >= SkipWindow)'
      BY <1>a, <1>b, <1>1, <2>1 DEF Skip, CodecTypeOK, Passed
    <2> QED
      BY <2>2, <2>3, <2>4 DEF CodecInv
  <1>2. ASSUME NEW n \in Blocks, NEW k \in Encodings, Compress(n, k) PROVE CodecInv'
    <2>1. n \in 1..BlockSize /\ k \in Nat \ {0} /\ Worthwhile(k, n)
      BY <1>2, CodecAssumption DEF Compress
    <2>2. CodecTypeOK'
      BY <1>a, <1>b, <1>2, <2>1 DEF Compress, CodecTypeOK, Passed
    <2>3. FramesDecode'
      BY <1>2, <2>1, FlateDecodes, Zenon DEF Compress, FramesDecode
    <2>4. misses' # 3
      BY <1>2 DEF Compress
    <2> QED
      BY <2>2, <2>3, <2>4 DEF CodecInv
  <1>3. ASSUME NEW n \in Blocks, NEW k \in Encodings, Miss(n, k) PROVE CodecInv'
    <2>1. n \in 1..BlockSize
      BY CodecAssumption
    <2>2. CodecTypeOK'
      BY <1>a, <1>b, <1>3, <2>1 DEF Miss, CodecTypeOK
    <2>3. FramesDecode'
      BY <1>3, <2>1, RawDecodes DEF Miss, FramesDecode
    <2>4. (misses = 3 => skipBytes + since >= SkipWindow)'
      BY <1>a, <1>b, <1>3 DEF Miss, CodecTypeOK
    <2> QED
      BY <2>2, <2>3, <2>4 DEF CodecInv
  <1>4. CASE EmptyRead
    <2>1. UNCHANGED <<misses, skipBytes, block, frame, since>> /\ state = "copying"
      BY <1>4 DEF EmptyRead
    <2>2. emptyReads' \in 0..MaxEmptyReads /\ (emptyReads' = MaxEmptyReads <=> state' = "stalled")
      <3>1. emptyReads \in 0..MaxEmptyReads /\ (emptyReads = MaxEmptyReads <=> state = "stalled")
        BY <1>a DEF CodecTypeOK
      <3>2. emptyReads # MaxEmptyReads
        BY <2>1, <3>1
      <3>a. emptyReads' = emptyReads + 1
        BY <1>4 DEF EmptyRead
      <3>b. MaxEmptyReads \in Nat
        BY <1>b
      <3>c. emptyReads \in 0..MaxEmptyReads
        BY <3>1
      <3>3. emptyReads' \in 0..MaxEmptyReads
        BY <3>a, <3>b, <3>c, <3>2
      <3>4. emptyReads' >= MaxEmptyReads <=> emptyReads' = MaxEmptyReads
        BY <1>b, <3>3
      <3>5. state' = IF emptyReads' >= MaxEmptyReads THEN "stalled" ELSE "copying"
        BY <1>4 DEF EmptyRead
      <3> QED
        BY <3>3, <3>4, <3>5
    <2>3. state' \in {"copying", "stalled"}
      BY <1>4 DEF EmptyRead
    <2>4. CodecTypeOK'
      BY <1>a, <2>1, <2>2, <2>3, Zenon DEF CodecTypeOK
    <2>5. FramesDecode'
      BY <1>a, <2>1, Zenon DEF FramesDecode
    <2> QED
      BY <1>a, <2>1, <2>4, <2>5 DEF CodecInv
  <1>5. CASE Returns
    BY <1>5, <1>a, <1>b, Zenon DEF Returns, CodecInv, CodecTypeOK, FramesDecode
  <1>6. CASE UNCHANGED codecVars
    BY <1>6, <1>a DEF codecVars, CodecInv, CodecTypeOK, FramesDecode
  <1> QED
    BY <1>1, <1>2, <1>3, <1>4, <1>5, <1>6 DEF CodecNext

\* Whatever is read, every frame that CopyObserved writes is accepted by Decopy and yields the
\* block that was read, and is longer than it by its header at most.
THEOREM Decoding == CodecSpec => []FramesDecode
  <1>1. CodecInv => FramesDecode
    BY DEF CodecInv
  <1> QED
    BY <1>1, CodecInvInit, CodecInvNext, PTL DEF CodecSpec

\* After three misses in a row the encoder lets a whole window pass before it probes again.
THEOREM BackOff == CodecSpec => BacksOff
  <1>1. CodecInv =>
            [(\E n \in Blocks, k \in Encodings : Compress(n, k) \/ Miss(n, k))
                => misses < 3 \/ since = SkipWindow]_codecVars
    <2> SUFFICES ASSUME CodecInv, NEW n \in Blocks, NEW k \in Encodings, Compress(n, k) \/ Miss(n, k)
                 PROVE  misses < 3 \/ since = SkipWindow
      OBVIOUS
    <2>1. skipBytes = 0
      BY Zenon DEF Compress, Miss
    <2>2. misses \in 0..3 /\ since \in 0..SkipWindow /\ (misses = 3 => skipBytes + since >= SkipWindow)
      BY DEF CodecInv, CodecTypeOK
    <2>3. SkipWindow \in Nat
      BY CodecAssumption
    <2> QED
      BY <2>1, <2>2, <2>3
  <1> QED
    BY <1>1, CodecInvInit, CodecInvNext, PTL DEF CodecSpec, BacksOff

-----------------------------------------------------------------------------
\* The UDP association

Ended(w) == IF w = "ended" THEN 1 ELSE 0

\* done and remaining account for the workers that ended; the reader checks a datagram against
\* the pinned source as it still is.
Association ==
    /\ main \in {"source", "session", "listen", "reply"} => {udpReader, writer, watcher} = {"none"}
    /\ done + 3 = workersLeft + Ended(udpReader) + Ended(writer) + Ended(watcher)
    /\ udpReader = "checking" => to = source
    /\ udpReader = "sending" => from.peer /\ from.port = source /\ RequestedPort \in {0, source}
    /\ replyTo \in {0, source}

AssociationTypes ==
    /\ source \in Ports \cup {0} /\ to \in Ports \cup {0}
    /\ from \in [port : Ports \cup {0}, peer : BOOLEAN]
    /\ udpReader \in {"none", "reading", "checking", "sending", "ended"}
    /\ writer \in {"none", "waiting", "ended"} /\ watcher \in {"none", "watching", "ended"}
    /\ inbox \in 0..MaxReplies /\ done \in Nat /\ workersLeft \in Int /\ workersLeft <= 3
    /\ main \in {"source", "session", "listen", "reply", "waiting", "joining", "returned"}

AssociationBools ==
    /\ parent \in BOOLEAN /\ udpCtx \in BOOLEAN /\ sock \in BOOLEAN /\ ctrl \in BOOLEAN
    /\ left \in BOOLEAN /\ valid \in BOOLEAN /\ session \in BOOLEAN

AssociationInv == AssociationTypes /\ AssociationBools /\ Association

\* Nothing runs before the set-up is done.
LEMMA AssociationStarts == AssociationInit => AssociationInv
<1> SUFFICES ASSUME AssociationInit PROVE AssociationInv
  OBVIOUS
<1>1. AssociationBools
  BY Zenon DEF AssociationInit, AssociationBools
<1>2. AssociationTypes /\ Association
  BY SocksUdpAssumption DEF AssociationInit, AssociationTypes, Association, Ended
<1> QED
  BY <1>1, <1>2 DEF AssociationInv

\* A step of the set-up, of one of the three workers or of the function that joins them.
LEMMA AssociationKept ==
    ASSUME AssociationInv, AssociationNext
    PROVE  AssociationInv' /\ (source # 0 => source' = source)
<1> DEFINE Goal == AssociationInv' /\ (source # 0 => source' = source)
<1>1. AssociationTypes /\ AssociationBools /\ Association
  BY DEF AssociationInv
<1> USE DEF endVars, readVars, writeVars, joinVars, workers
<1>2. CASE SetUp
  <2>1. UNCHANGED <<source, from, to, replyTo, inbox, done, workersLeft, valid, parent, ctrl, left>>
    BY <1>2 DEF SetUp, CheckSource, OpenSession, Listen, WriteReply
  <2>2. \/ UNCHANGED <<udpReader, writer, watcher>> /\ main' # "waiting"
        \/ main' = "waiting" /\ udpReader' = "reading" /\ writer' = "waiting" /\ watcher' = "watching"
    BY <1>2, Zenon DEF SetUp, CheckSource, OpenSession, Listen, WriteReply, GiveUp
  <2>3. main' \in {"session", "listen", "reply", "waiting", "returned"}
    BY <1>2 DEF SetUp, CheckSource, OpenSession, Listen, WriteReply, GiveUp
  <2>4. AssociationBools'
    BY <1>1, <1>2, <2>1, Zenon DEF SetUp, CheckSource, OpenSession, Listen, WriteReply, GiveUp, AssociationBools
  <2>5. udpReader = "none" /\ writer = "none" /\ watcher = "none"
    BY <1>1, <1>2, Zenon DEF SetUp, CheckSource, OpenSession, Listen, WriteReply, Association
  <2> QED
    BY <1>1, <2>1, <2>2, <2>3, <2>4, <2>5, Zenon DEF AssociationInv, AssociationTypes, Association, Ended
<1>3. ASSUME NEW s \in Sources, NEW ok \in BOOLEAN, Receive(s, ok) PROVE Goal
  <2>1. /\ from' = s /\ to' = source /\ udpReader = "reading" /\ udpReader' = "checking"
        /\ UNCHANGED <<source, replyTo, inbox, writer, watcher, done, main, workersLeft>>
    BY <1>3, Zenon DEF Receive
  <2>2. AssociationBools'
    BY <1>1, <1>3 DEF Receive, AssociationBools
  <2> QED
    BY <1>1, <2>1, <2>2 DEF AssociationInv, AssociationTypes, Association, Ended, Sources
<1>4. CASE Check
  <2>1. /\ udpReader = "checking"
        /\ UNCHANGED <<from, to, replyTo, inbox, writer, watcher, done, main, workersLeft>>
    BY <1>4, Zenon DEF Check
  <2>2. \/ udpReader' = "reading" /\ source' = source
        \/ /\ udpReader' = "sending" /\ from.peer /\ (RequestedPort # 0 => from.port = RequestedPort)
           /\ (to # 0 => from.port = to) /\ source' = IF to = 0 THEN from.port ELSE source
    BY <1>4, Zenon DEF Check, Accepted
  <2>3. AssociationBools'
    BY <1>1, <1>4 DEF Check, AssociationBools
  <2>4. from.port \in Ports \cup {0}
    BY <1>1, Zenon DEF AssociationTypes
  <2> QED
    BY <1>1, <2>1, <2>2, <2>3, <2>4 DEF AssociationInv, AssociationTypes, Association, Ended
<1>5. CASE Sent \/ TakeReply \/ Reply
  <2>1. /\ UNCHANGED <<source, from, to, writer, watcher, done, main, workersLeft>>
        /\ udpReader' = udpReader \/ (udpReader = "sending" /\ udpReader' = "reading")
        /\ replyTo' \in {0, source, replyTo} /\ inbox' \in 0..MaxReplies
    BY <1>1, <1>5, SocksUdpAssumption DEF Sent, TakeReply, Reply, AssociationTypes
  <2>2. AssociationBools'
    BY <1>1, <1>5, Zenon DEF Sent, TakeReply, Reply, AssociationBools
  <2>3. AssociationTypes'
    BY <1>1, <2>1 DEF AssociationTypes
  <2>4. Association'
    BY <1>1, <2>1, Zenon DEF AssociationTypes, Association, Ended
  <2> QED
    BY <2>1, <2>2, <2>3, <2>4, Zenon DEF AssociationInv
<1>6. CASE SocketFails \/ WriterEnds \/ WatcherEnds
  <2>1. /\ UNCHANGED <<source, from, to, replyTo, inbox, main, workersLeft>> /\ done' = done + 1
        /\ \/ udpReader = "reading" /\ udpReader' = "ended" /\ UNCHANGED <<writer, watcher>>
           \/ writer = "waiting" /\ writer' = "ended" /\ UNCHANGED <<udpReader, watcher>>
           \/ watcher = "watching" /\ watcher' = "ended" /\ UNCHANGED <<udpReader, writer>>
    BY <1>6, Zenon DEF SocketFails, WriterEnds, WatcherEnds
  <2>2. AssociationBools'
    BY <1>1, <1>6, Zenon DEF SocketFails, WriterEnds, WatcherEnds, AssociationBools
  <2>3. AssociationTypes'
    BY <1>1, <2>1 DEF AssociationTypes
  <2>4. Association'
    BY <1>1, <2>1 DEF AssociationTypes, Association, Ended
  <2> QED
    BY <2>1, <2>2, <2>3, <2>4, Zenon DEF AssociationInv
<1>7. CASE ApplicationLeaves \/ ListenerStops \/ CloseOnDone
  <2>1. UNCHANGED <<source, from, to, replyTo, inbox, udpReader, writer, watcher, done, main, workersLeft>>
    BY <1>7, Zenon DEF ApplicationLeaves, ListenerStops, CloseOnDone
  <2>2. AssociationBools'
    BY <1>1, <1>7, Zenon DEF ApplicationLeaves, ListenerStops, CloseOnDone, CloseEnds, AssociationBools
  <2>3. AssociationTypes'
    BY <1>1, <2>1 DEF AssociationTypes
  <2>4. Association'
    BY <1>1, <2>1 DEF AssociationTypes, Association, Ended
  <2> QED
    BY <2>1, <2>2, <2>3, <2>4, Zenon DEF AssociationInv
<1>8. CASE Wake \/ Join \/ AssociationReturns
  <2>1. /\ UNCHANGED <<source, from, to, replyTo, inbox, udpReader, writer, watcher>>
        /\ main' \in {main, "joining", "returned"}
        /\ \/ done > 0 /\ done' = done - 1 /\ workersLeft' = workersLeft - 1
           \/ UNCHANGED <<done, workersLeft>>
    BY <1>8, Zenon DEF Wake, Join, AssociationReturns
  <2>2. AssociationBools'
    BY <1>1, <1>8, Zenon DEF Wake, Join, AssociationReturns, CloseEnds, AssociationBools
  <2>3. AssociationTypes'
    BY <1>1, <2>1 DEF AssociationTypes
  <2>4. Association'
    BY <1>1, <2>1 DEF AssociationTypes, Association, Ended
  <2> QED
    BY <2>1, <2>2, <2>3, <2>4, Zenon DEF AssociationInv
<1> QED
  BY <1>2, <1>3, <1>4, <1>5, <1>6, <1>7, <1>8, Zenon DEF AssociationNext, Reader, Main

\* The source of an association (socks_udp.go) is pinned once and never moved, whatever arrives
\* between the load, the check and the store that nothing guards, and for any set of ports: what
\* is sent into the tunnel comes from it, what comes back goes to it. No worker blocks on done.
THEOREM Pinning == AssociationSpec => SourcePinned
<1>1. AssociationInv /\ UNCHANGED associationVars => AssociationInv'
  BY DEF AssociationInv, AssociationTypes, AssociationBools, Association, Ended, associationVars
<1>2. AssociationInv /\ [AssociationNext]_associationVars
        => AssociationInv' /\ [source # 0 => source' = source]_associationVars
  BY <1>1, AssociationKept
<1>3. ASSUME AssociationInv
      PROVE  /\ AssociationTypeOK /\ replyTo \in {0, source}
             /\ udpReader = "sending" => from.peer /\ from.port = source /\ RequestedPort \in {0, source}
  <2>1. AssociationTypes /\ AssociationBools /\ Association
    BY <1>3 DEF AssociationInv
  <2>2. done \in 0..3 /\ workersLeft \in 0..3
    BY <2>1 DEF AssociationTypes, Association, Ended
  <2>3. \A b \in {parent, udpCtx, sock, ctrl, left, valid, session} : b \in BOOLEAN
    BY <2>1 DEF AssociationBools
  <2>4. replyTo \in Ports \cup {0}
    BY <2>1, Zenon DEF AssociationTypes, Association
  <2>5. AssociationTypeOK
    BY <2>1, <2>2, <2>3, <2>4 DEF AssociationTypeOK, AssociationTypes
  <2> QED
    BY <2>1, <2>5, Zenon DEF Association
<1> QED
  BY <1>2, <1>3, AssociationStarts, PTL DEF AssociationSpec, SourcePinned

-----------------------------------------------------------------------------
\* The form of addresses and datagrams

Byte == 0..255

\* The addresses that Encode gives a form: those of a known type whose host has the length of the
\* type, and a name at most the length that a byte holds.
Addresses ==
    {a \in [atyp : {AtypIPv4, AtypDomain, AtypIPv6}, host : Seq(Byte), port : Nat] :
        /\ a.port \div 256 \in Byte
        /\ a.atyp = AtypIPv4 => Len(a.host) = 4
        /\ a.atyp = AtypIPv6 => Len(a.host) = 16
        /\ a.atyp = AtypDomain => Len(a.host) <= 255}

\* Where the host of an address of type t begins
HostAt(t) == IF t = AtypDomain THEN 2 ELSE 1

\* A byte of a buffer is a small natural number.
LEMMA ByteNat == \A x \in Byte : x \in Nat /\ x < 256
  BY DEF Byte

\* The two bytes of a port give it back.
LEMMA PortBytes ==
    ASSUME NEW p \in Nat
    PROVE  /\ p % 256 \in Byte /\ 256 * (p \div 256) + (p % 256) = p
  BY DEF Byte

\* e is s, t, u and v, one after the other.
Joins(e, s, t, u, v) ==
    /\ e \in Seq(Byte) /\ Len(e) = Len(s) + Len(t) + Len(u) + Len(v)
    /\ \A i \in 1..Len(s) : e[i] = s[i]
    /\ \A i \in 1..Len(t) : e[Len(s) + i] = t[i]
    /\ \A i \in 1..Len(u) : e[Len(s) + Len(t) + i] = u[i]
    /\ \A i \in 1..Len(v) : e[Len(s) + Len(t) + Len(u) + i] = v[i]

\* Four sequences joined by \o are found again at their places.
LEMMA FourParts ==
    ASSUME NEW s \in Seq(Byte), NEW t \in Seq(Byte), NEW u \in Seq(Byte), NEW v \in Seq(Byte)
    PROVE  Joins(s \o t \o u \o v, s, t, u, v)
<1> DEFINE x == s \o t
           y == x \o u
           z == y \o v
<1>1. /\ x \in Seq(Byte) /\ Len(x) = Len(s) + Len(t) /\ \A i \in 1..Len(s) : x[i] = s[i]
      /\ \A i \in 1..Len(t) : x[Len(s) + i] = t[i]
  BY ONLY TRUE
<1>a. x \in Seq(Byte)
  BY <1>1, Zenon
<1> HIDE DEF x
<1>2. /\ y \in Seq(Byte) /\ Len(y) = Len(x) + Len(u) /\ \A i \in 1..Len(x) : y[i] = x[i]
      /\ \A i \in 1..Len(u) : y[Len(x) + i] = u[i]
  BY ONLY <1>a
<1>b. y \in Seq(Byte)
  BY <1>2, Zenon
<1> HIDE DEF y
<1>3. /\ z \in Seq(Byte) /\ Len(z) = Len(y) + Len(v) /\ \A i \in 1..Len(y) : z[i] = y[i]
      /\ \A i \in 1..Len(v) : z[Len(y) + i] = v[i]
  BY ONLY <1>b
<1> HIDE DEF z
<1>4. s \o t \o u \o v = z
  BY DEF x, y, z
<1>5. Len(s) \in Nat /\ Len(t) \in Nat /\ Len(u) \in Nat /\ Len(v) \in Nat
  BY ONLY TRUE
<1>6. ASSUME NEW i \in 1..Len(t) PROVE z[Len(s) + i] = t[i]
  <2>1. Len(s) + i \in 1..Len(x) /\ Len(s) + i \in 1..Len(y)
    BY <1>1, <1>2, <1>5
  <2> QED
    BY <1>1, <1>2, <1>3, <2>1, Zenon
<1>7. ASSUME NEW i \in 1..Len(u) PROVE z[Len(s) + Len(t) + i] = u[i]
  <2>1. Len(x) + i \in 1..Len(y) /\ Len(x) + i = Len(s) + Len(t) + i
    BY <1>1, <1>2, <1>5
  <2>2. z[Len(x) + i] = u[i]
    BY <1>2, <1>3, <2>1, Zenon
  <2> QED
    BY <2>1, <2>2, Zenon
<1>8. ASSUME NEW i \in 1..Len(s) PROVE z[i] = s[i]
  <2>1. i \in 1..Len(x) /\ i \in 1..Len(y)
    BY <1>1, <1>2, <1>5
  <2> QED
    BY <1>1, <1>2, <1>3, <2>1, Zenon
<1>9. Len(y) = Len(s) + Len(t) + Len(u)
  BY <1>1, <1>2, Zenon
<1> QED
  BY <1>3, <1>4, <1>6, <1>7, <1>8, <1>9, Zenon DEF Joins

\* The buffer b holds a type t and, for a name, its length; n is the length of the host.
Typed(b, t, n) ==
    /\ b # <<>> /\ b[1] = t
    /\ t = AtypIPv4 => n = 4
    /\ t = AtypIPv6 => n = 16
    /\ t = AtypDomain => Len(b) >= 2 /\ b[2] = n

\* The address after them, and what a decoder makes of it.
AddressIn(b, at, n) ==
    [atyp |-> b[1], host |-> SubSeq(b, at + 1, at + n), port |-> 256 * b[at + n + 1] + b[at + n + 2]]

DecodedAs(b, at, n) ==
    IF Len(b) < at + n + 2 \/ ~Validate(AddressIn(b, at, n)) THEN Fail
    ELSE [ok |-> TRUE, addr |-> AddressIn(b, at, n), used |-> at + n + 2]

\* decodeAddress decodes that address.
LEMMA DecodeTyped ==
    ASSUME NEW b \in Seq(Byte), NEW t \in {AtypIPv4, AtypDomain, AtypIPv6}, NEW n \in Nat, Typed(b, t, n)
    PROVE  DecodeAddress(b) = DecodedAs(b, HostAt(t), n)
<1> DEFINE named == b # <<>> /\ b[1] = AtypDomain
           off == IF named THEN 2 ELSE 1
           size == IF b = <<>> THEN -1
                   ELSE CASE b[1] = AtypIPv4 -> 4
                          [] b[1] = AtypIPv6 -> 16
                          [] named /\ Len(b) >= 2 -> b[2]
                          [] OTHER -> -1
<1>1. off = HostAt(t)
  BY Zenon DEF HostAt, Typed
<1>2. size = n
  BY DEF Typed, AtypIPv4, AtypIPv6, AtypDomain
<1>3. ~(size < 0)
  BY <1>2
<1> DEFINE end == off + size
           a == [atyp |-> b[1], host |-> SubSeq(b, off + 1, end), port |-> 256 * b[end + 1] + b[end + 2]]
<1>4. DecodeAddress(b) = IF size < 0 \/ Len(b) < end + 2 \/ ~Validate(a) THEN Fail
                         ELSE [ok |-> TRUE, addr |-> a, used |-> end + 2]
  BY Zenon DEF DecodeAddress
<1> HIDE DEF size, off
<1>5. end = HostAt(t) + n /\ a = AddressIn(b, HostAt(t), n)
  BY <1>1, <1>2, Zenon DEF AddressIn
<1> HIDE DEF end, a
<1>6. DecodeAddress(b) = IF Len(b) < end + 2 \/ ~Validate(a) THEN Fail
                         ELSE [ok |-> TRUE, addr |-> a, used |-> end + 2]
  BY ONLY <1>3, <1>4, Zenon
<1> QED
  BY ONLY <1>5, <1>6, Zenon DEF DecodedAs

\* A buffer without a type, or without the length of its name, is refused.
LEMMA DecodeUntyped ==
    ASSUME NEW b \in Seq(Byte),
           \/ b = <<>>
           \/ b[1] = AtypDomain /\ Len(b) < 2
           \/ b[1] \notin {AtypIPv4, AtypDomain, AtypIPv6}
    PROVE  DecodeAddress(b) = Fail
<1> DEFINE named == b # <<>> /\ b[1] = AtypDomain
           size == IF b = <<>> THEN -1
                   ELSE CASE b[1] = AtypIPv4 -> 4
                          [] b[1] = AtypIPv6 -> 16
                          [] named /\ Len(b) >= 2 -> b[2]
                          [] OTHER -> -1
<1>1. size = -1
  <2>1. CASE b = <<>>
    BY <2>1
  <2>2. CASE b # <<>> /\ b[1] = AtypDomain /\ Len(b) < 2
    BY <2>2 DEF AtypIPv4, AtypIPv6, AtypDomain
  <2>3. CASE b # <<>> /\ b[1] \notin {AtypIPv4, AtypDomain, AtypIPv6}
    BY <2>3
  <2> QED
    BY <2>1, <2>2, <2>3
<1>2. size < 0
  BY <1>1
<1> QED
  BY <1>2, Zenon DEF DecodeAddress

\* e is the form of a on the wire, its host of length n beginning after the first at bytes.
Encoded(e, a, at, n) ==
    /\ e \in Seq(Byte) /\ Len(e) = at + n + 2
    /\ e[1] = a.atyp /\ (a.atyp = AtypDomain => e[2] = n)
    /\ \A i \in 1..n : e[at + i] = a.host[i]
    /\ e[at + n + 1] = a.port \div 256 /\ e[at + n + 2] = a.port % 256

\* Address.Encode writes that form.
LEMMA EncodeShape ==
    ASSUME NEW a \in Addresses
    PROVE  Encoded(Encode(a), a, HostAt(a.atyp), Len(a.host))
<1> DEFINE at == HostAt(a.atyp)
           n == Len(a.host)
           t == <<a.atyp>>
           l == IF a.atyp = AtypDomain THEN <<n % 256>> ELSE <<>>
           p == AppendUint16(a.port)
<1>1. a.atyp \in Byte /\ a.host \in Seq(Byte) /\ a.port \in Nat /\ a.port \div 256 \in Byte /\ n \in Nat
  BY DEF Addresses, AtypIPv4, AtypIPv6, AtypDomain, Byte
<1>2. t \in Seq(Byte) /\ Len(t) = 1 /\ t[1] = a.atyp
  BY <1>1
<1>3. /\ l \in Seq(Byte) /\ Len(l) = at - 1 /\ at \in {1, 2}
      /\ a.atyp = AtypDomain => at = 2 /\ l[1] = n
  <2>1. CASE a.atyp = AtypDomain
    <3>1. n <= 255
      BY <2>1, Zenon DEF Addresses
    <3>2. l = <<n % 256>> /\ at = 2
      BY <2>1, Zenon DEF HostAt
    <3> HIDE DEF n, l, at
    <3>3. n % 256 = n /\ n \in Byte
      BY <1>1, <3>1 DEF Byte
    <3> QED
      BY <3>2, <3>3
  <2>2. CASE a.atyp # AtypDomain
    BY <2>2 DEF HostAt
  <2> QED
    BY <2>1, <2>2, Zenon
<1>4. p \in Seq(Byte) /\ Len(p) = 2 /\ p[1] = a.port \div 256 /\ p[2] = a.port % 256
  BY <1>1, PortBytes DEF AppendUint16
<1> DEFINE e == Encode(a)
<1>5. e = t \o l \o a.host \o p
  BY Zenon DEF Encode
<1> HIDE DEF e, t, l, p, at
<1>6. /\ e \in Seq(Byte) /\ Len(e) = Len(t) + Len(l) + Len(a.host) + Len(p)
      /\ \A i \in 1..Len(t) : e[i] = t[i]
      /\ \A i \in 1..Len(l) : e[Len(t) + i] = l[i]
      /\ \A i \in 1..Len(a.host) : e[Len(t) + Len(l) + i] = a.host[i]
      /\ \A i \in 1..Len(p) : e[Len(t) + Len(l) + Len(a.host) + i] = p[i]
  <2>1. t \in Seq(Byte) /\ l \in Seq(Byte) /\ a.host \in Seq(Byte) /\ p \in Seq(Byte)
    BY <1>1, <1>2, <1>3, <1>4, Zenon
  <2>2. Joins(e, t, l, a.host, p)
    BY ONLY <1>5, <2>1, FourParts, Zenon
  <2> QED
    BY <2>2, Zenon DEF Joins
<1>7. Len(t) + Len(l) = at /\ Len(t) + Len(l) + n = at + n
  BY <1>1, <1>2, <1>3
<1>8. \A i \in 1..n : e[at + i] = a.host[i]
  BY <1>6, <1>7, Zenon
<1>9. /\ 1 \in 1..Len(t) /\ 1 \in 1..Len(p) /\ 2 \in 1..Len(p) /\ Len(e) = at + n + 2
      /\ a.atyp = AtypDomain => 1 \in 1..Len(l) /\ Len(t) + 1 = 2
  <2> HIDE DEF n
  <2> QED
    BY <1>1, <1>2, <1>3, <1>4, <1>6, <1>7 DEF n
<1> HIDE DEF n
<1>10. e[at + n + 1] = p[1] /\ e[at + n + 2] = p[2] /\ e[1] = t[1]
  BY <1>6, <1>7, <1>9, Zenon DEF n
<1>11. a.atyp = AtypDomain => e[2] = l[1]
  BY <1>6, <1>9, Zenon
<1>12. Encoded(e, a, at, n)
  BY <1>2, <1>3, <1>4, <1>6, <1>8, <1>9, <1>10, <1>11, Zenon DEF Encoded
<1> QED
  BY <1>12, Zenon DEF e, n, at

\* b begins with e.
Front(b, e) == Len(b) >= Len(e) /\ \A i \in 1..Len(e) : b[i] = e[i]

\* What a decoder returns for a valid address.
Decoded(a) == [ok |-> TRUE, addr |-> a, used |-> HostAt(a.atyp) + Len(a.host) + 2]

\* The address at the front of a buffer is decoded if it is valid, whatever follows.
LEMMA DecodeFront ==
    ASSUME NEW a \in Addresses, NEW b \in Seq(Byte), Front(b, Encode(a))
    PROVE  DecodeAddress(b) = IF Validate(a) THEN Decoded(a) ELSE Fail
<1> DEFINE e == Encode(a)
           t == a.atyp
           n == Len(a.host)
           at == HostAt(t)
           end == at + n
           c == AddressIn(b, at, n)
<1>1. /\ Len(e) = end + 2 /\ e[1] = t /\ (t = AtypDomain => e[2] = n)
      /\ \A i \in 1..n : e[at + i] = a.host[i]
      /\ e[end + 1] = a.port \div 256 /\ e[end + 2] = a.port % 256
  <2>1. Encoded(e, a, at, n)
    BY EncodeShape, Zenon
  <2> QED
    BY ONLY <2>1, Zenon DEF Encoded
<1>2. /\ t \in {AtypIPv4, AtypDomain, AtypIPv6} /\ a.host \in Seq(Byte) /\ a.port \in Nat
      /\ (t = AtypIPv4 => n = 4) /\ (t = AtypIPv6 => n = 16)
  BY Zenon DEF Addresses
<1>a. a = [atyp |-> t, host |-> a.host, port |-> a.port]
  BY ONLY a \in Addresses, Zenon DEF Addresses
<1>3. at \in {1, 2} /\ (t = AtypDomain => at = 2)
  BY Zenon DEF HostAt
<1>4. Len(b) >= Len(e) /\ \A i \in 1..Len(e) : b[i] = e[i]
  BY Zenon DEF Front
<1>5. n \in Nat /\ Len(b) \in Nat
  BY <1>2
<1> HIDE DEF e, t, n, at
<1>6. /\ 1 \in 1..Len(e) /\ 2 \in 1..Len(e) /\ end + 1 \in 1..Len(e) /\ end + 2 \in 1..Len(e)
      /\ \A i \in 1..n : at + i \in 1..Len(e)
      /\ Len(b) >= 2 /\ ~(Len(b) < end + 2) /\ b # <<>>
  BY ONLY <1>1, <1>3, <1>4, <1>5
<1>7. b[1] = t /\ (t = AtypDomain => b[2] = n) /\ Typed(b, t, n)
  BY <1>1, <1>2, <1>4, <1>6, Zenon DEF Typed
<1>8. DecodeAddress(b) = DecodedAs(b, at, n)
  BY DecodeTyped, <1>2, <1>5, <1>7, Zenon DEF at
<1>9. SubSeq(b, at + 1, end) = a.host
  <2> DEFINE h == SubSeq(b, at + 1, end)
  <2>1. h \in Seq(Byte) /\ Len(h) = n /\ \A i \in 1..n : h[i] = b[at + i]
    BY ONLY <1>1, <1>3, <1>4, <1>5, <1>6
  <2> HIDE DEF h
  <2>2. ASSUME NEW i \in 1..n PROVE h[i] = a.host[i]
    <3>1. at + i \in 1..Len(e)
      BY <1>6, Zenon
    <3>2. b[at + i] = e[at + i]
      BY <1>4, <3>1, Zenon
    <3> QED
      BY <1>1, <2>1, <3>2, Zenon
  <2>3. Len(a.host) = n
    BY Zenon DEF n
  <2>4. h = a.host
    BY ONLY <1>2, <2>1, <2>2, <2>3
  <2> QED
    BY <2>4, Zenon DEF h
<1>10. 256 * b[end + 1] + b[end + 2] = a.port
  <2>1. b[end + 1] = a.port \div 256 /\ b[end + 2] = a.port % 256
    BY <1>1, <1>4, <1>6, Zenon
  <2>2. 256 * (a.port \div 256) + (a.port % 256) = a.port
    BY <1>2, PortBytes
  <2> QED
    BY <2>1, <2>2, Zenon
<1>11. c = a
  BY <1>a, <1>7, <1>9, <1>10, Zenon DEF AddressIn
<1>12. DecodedAs(b, at, n) = IF Validate(a) THEN [ok |-> TRUE, addr |-> a, used |-> end + 2] ELSE Fail
  <2> HIDE DEF end
  <2>1. Len(b) < at + n + 2 <=> FALSE
    BY <1>6, Zenon DEF end
  <2>2. at + n + 2 = end + 2
    BY Zenon DEF end
  <2> QED
    BY ONLY <1>11, <2>1, <2>2, Zenon DEF DecodedAs
<1> QED
  BY <1>8, <1>12, Zenon DEF Decoded, at, n, t

\* A buffer that ends within the address is refused.
LEMMA DecodeCut ==
    ASSUME NEW a \in Addresses, NEW b \in Seq(Byte), Front(Encode(a), b), Len(b) < Len(Encode(a))
    PROVE  DecodeAddress(b) = Fail
<1> DEFINE e == Encode(a)
           t == a.atyp
           n == Len(a.host)
           end == HostAt(t) + n
<1>1. /\ Len(e) = end + 2 /\ e[1] = t /\ (t = AtypDomain => e[2] = n)
  BY EncodeShape, Zenon DEF Encoded
<1>2. /\ t \in {AtypIPv4, AtypDomain, AtypIPv6} /\ a.host \in Seq(Byte)
      /\ (t = AtypIPv4 => n = 4) /\ (t = AtypIPv6 => n = 16)
  BY Zenon DEF Addresses
<1>3. n \in Nat
  BY <1>2
<1>4. \A i \in 1..Len(b) : b[i] = e[i]
  BY Zenon DEF Front
<1>5. Len(b) < end + 2
  BY <1>1, Zenon
<1>6. CASE b = <<>> \/ (t = AtypDomain /\ Len(b) < 2)
  <2>1. CASE b = <<>>
    BY <2>1, DecodeUntyped, Zenon
  <2>2. CASE b # <<>> /\ t = AtypDomain /\ Len(b) < 2
    <3>1. 1 \in 1..Len(b)
      BY ONLY <2>2
    <3>2. b[1] = AtypDomain
      BY <1>1, <1>4, <2>2, <3>1, Zenon
    <3> QED
      BY <2>2, <3>2, DecodeUntyped, Zenon
  <2> QED
    BY <1>6, <2>1, <2>2, Zenon
<1>7. CASE b # <<>> /\ (t = AtypDomain => ~(Len(b) < 2))
  <2>1. 1 \in 1..Len(b) /\ (t = AtypDomain => Len(b) >= 2 /\ 2 \in 1..Len(b))
    BY ONLY <1>7
  <2>2. b[1] = t /\ (t = AtypDomain => Len(b) >= 2 /\ b[2] = n)
    BY <1>1, <1>4, <2>1, Zenon
  <2> QED
    <3>1. Typed(b, t, n)
      BY <1>2, <1>7, <2>2, Zenon DEF Typed
    <3>2. DecodeAddress(b) = DecodedAs(b, HostAt(t), n)
      BY <1>2, <1>3, <3>1, DecodeTyped, Zenon
    <3> QED
      BY ONLY <1>5, <3>2, Zenon DEF DecodedAs
<1> QED
  BY <1>6, <1>7, Zenon

\* ReadAddress, which reads a stream field by field, and decodeAddress, which cuts a buffer
\* (internal/protocol/address.go), agree about every sequence of bytes: they take the same
\* addresses, the same number of bytes, and refuse the same.
THEOREM DecodersAgree == \A b \in Seq(Byte) : ReadAddress(b) = DecodeAddress(b)
<1> SUFFICES ASSUME NEW b \in Seq(Byte) PROVE ReadAddress(b) = DecodeAddress(b)
  BY Zenon
<1> DEFINE Rest(at, n) ==
              IF ~(Len(b) >= at + n + 2) THEN Fail
              ELSE IF Validate(AddressIn(b, at, n))
                   THEN [ok |-> TRUE, addr |-> AddressIn(b, at, n), used |-> at + n + 2] ELSE Fail
<1>1. ReadAddress(b) = IF ~(Len(b) >= 1) THEN Fail
                       ELSE CASE b[1] = AtypIPv4 -> Rest(1, 4)
                              [] b[1] = AtypIPv6 -> Rest(1, 16)
                              [] b[1] = AtypDomain -> IF Len(b) >= 2 THEN Rest(2, b[2]) ELSE Fail
                              [] OTHER -> Fail
  BY Zenon DEF ReadAddress, AddressIn
<1>2. AtypIPv4 # AtypIPv6 /\ AtypIPv4 # AtypDomain /\ AtypIPv6 # AtypDomain
  BY DEF AtypIPv4, AtypIPv6, AtypDomain
<1>3. Len(b) \in Nat /\ (b = <<>> <=> ~(Len(b) >= 1))
  BY ONLY TRUE
<1>4. ASSUME NEW n \in Nat, NEW t \in {AtypIPv4, AtypDomain, AtypIPv6}, Typed(b, t, n)
      PROVE  DecodeAddress(b) = Rest(HostAt(t), n)
  <2>1. DecodeAddress(b) = DecodedAs(b, HostAt(t), n)
    BY <1>4, DecodeTyped, Zenon
  <2>2. Len(b) < HostAt(t) + n + 2 <=> ~(Len(b) >= HostAt(t) + n + 2)
    <3>1. HostAt(t) \in Nat
      BY DEF HostAt
    <3> QED
      BY <1>3, <3>1
  <2> QED
    BY ONLY <2>1, <2>2, Zenon DEF DecodedAs
<1> HIDE DEF Rest
<1>5. CASE b = <<>>
  BY <1>1, <1>3, <1>5, DecodeUntyped, Zenon
<1>6. CASE b # <<>> /\ b[1] = AtypIPv4
  <2>1. DecodeAddress(b) = Rest(1, 4)
    <3>1. Typed(b, AtypIPv4, 4) /\ HostAt(AtypIPv4) = 1
      BY <1>2, <1>6, Zenon DEF Typed, HostAt
    <3>2. DecodeAddress(b) = Rest(HostAt(AtypIPv4), 4)
      BY <1>4, <3>1
    <3> QED
      BY <3>1, <3>2, Zenon
  <2> QED
    BY <1>1, <1>2, <1>3, <1>6, <2>1, Zenon
<1>7. CASE b # <<>> /\ b[1] = AtypIPv6
  <2>1. DecodeAddress(b) = Rest(1, 16)
    <3>1. Typed(b, AtypIPv6, 16) /\ HostAt(AtypIPv6) = 1
      BY <1>2, <1>7, Zenon DEF Typed, HostAt
    <3>2. DecodeAddress(b) = Rest(HostAt(AtypIPv6), 16)
      BY <1>4, <3>1
    <3> QED
      BY <3>1, <3>2, Zenon
  <2> QED
    BY <1>1, <1>2, <1>3, <1>7, <2>1, Zenon
<1>8. CASE b # <<>> /\ b[1] = AtypDomain /\ Len(b) >= 2
  <2>0. b[2] \in Nat
    <3>1. 2 \in 1..Len(b)
      BY ONLY <1>3, <1>8
    <3>2. b[2] \in Byte
      BY ONLY <3>1, b \in Seq(Byte)
    <3> QED
      BY ONLY <3>2, ByteNat, Zenon
  <2>1. DecodeAddress(b) = Rest(2, b[2])
    <3>1. Typed(b, AtypDomain, b[2]) /\ HostAt(AtypDomain) = 2
      BY <1>2, <1>8, Zenon DEF Typed, HostAt
    <3>2. DecodeAddress(b) = Rest(HostAt(AtypDomain), b[2])
      BY <1>4, <2>0, <3>1, Zenon
    <3> QED
      BY <3>1, <3>2, Zenon
  <2> QED
    BY <1>1, <1>2, <1>3, <1>8, <2>1, Zenon
<1>9. CASE b # <<>> /\ b[1] = AtypDomain /\ ~(Len(b) >= 2)
  <2>1. Len(b) < 2
    BY <1>3, <1>9
  <2> QED
    BY <1>1, <1>2, <1>3, <1>9, <2>1, DecodeUntyped, Zenon
<1>10. CASE b # <<>> /\ b[1] \notin {AtypIPv4, AtypDomain, AtypIPv6}
  BY <1>1, <1>3, <1>10, DecodeUntyped, Zenon
<1> QED
  BY <1>5, <1>6, <1>7, <1>8, <1>9, <1>10, Zenon

-----------------------------------------------------------------------------
\* Session ids, as the digits of a uint64 at base 128: at most ten, the tenth at most 1.
Digit == 0..127

Ids == {s \in Seq(Digit) : Len(s) \in 1..10 /\ (Len(s) = 10 => s[10] <= 1)}

\* u is the form of the id s: all its bytes but the last have the high bit.
IdForm(u, s) ==
    /\ u \in Seq(Byte) /\ Len(u) = Len(s)
    /\ \A i \in 1..Len(s) : IF i < Len(s) THEN u[i] >= 128 /\ u[i] % 128 = s[i] ELSE u[i] = s[i]

\* binary.AppendUvarint writes that form.
LEMMA AppendForm ==
    ASSUME NEW s \in Ids
    PROVE  IdForm(AppendUvarint(s), s)
<1> DEFINE u == AppendUvarint(s)
<1>1. s \in Seq(Digit) /\ Len(s) \in Nat /\ \A i \in 1..Len(s) : s[i] \in Digit
  <2>1. s \in Seq(Digit)
    BY Zenon DEF Ids
  <2> QED
    BY ONLY <2>1
<1>2. u = [i \in 1..Len(s) |-> IF i < Len(s) THEN 128 + s[i] ELSE s[i]]
  BY Zenon DEF AppendUvarint
<1>3. \A x \in Digit : x \in Byte /\ 128 + x \in Byte /\ 128 + x >= 128 /\ (128 + x) % 128 = x
  BY DEF Byte, Digit
<1> HIDE DEF u
<1>4. \A i \in 1..Len(s) : u[i] = IF i < Len(s) THEN 128 + s[i] ELSE s[i]
  BY <1>2, Zenon
<1>5. ASSUME NEW i \in 1..Len(s) PROVE u[i] \in Byte
  <2>1. s[i] \in Digit
    BY <1>1, Zenon
  <2>2. s[i] \in Byte /\ 128 + s[i] \in Byte
    BY <1>3, <2>1, Zenon
  <2> QED
    BY <1>4, <2>2, Zenon
<1>6. u \in Seq(Byte) /\ Len(u) = Len(s)
  BY ONLY <1>1, <1>2, <1>5
<1>7. ASSUME NEW i \in 1..Len(s)
      PROVE  IF i < Len(s) THEN u[i] >= 128 /\ u[i] % 128 = s[i] ELSE u[i] = s[i]
  <2>1. s[i] \in Digit
    BY <1>1, Zenon
  <2>2. 128 + s[i] >= 128 /\ (128 + s[i]) % 128 = s[i]
    BY <1>3, <2>1, Zenon
  <2> QED
    BY <1>4, <2>2, Zenon
<1>8. IdForm(u, s)
  BY <1>6, <1>7, Zenon DEF IdForm
<1> QED
  BY <1>8, Zenon DEF u

\* binary.Uvarint reads the id at the front of a buffer, whatever follows.
LEMMA UvarintFront ==
    ASSUME NEW s \in Ids, NEW b \in Seq(Byte), Front(b, AppendUvarint(s))
    PROVE  Uvarint(b) = [ok |-> TRUE, sid |-> s, used |-> Len(s)]
<1> DEFINE n == Len(s)
           u == AppendUvarint(s)
           ends == {i \in 1..Len(b) : i <= 10 /\ b[i] < 128 /\ \A j \in 1..(i - 1) : b[j] >= 128}
           m == CHOOSE i \in ends : TRUE
<1>1. s \in Seq(Digit) /\ n \in 1..10 /\ (n = 10 => s[10] <= 1) /\ \A i \in 1..n : s[i] \in Digit
  <2>1. s \in Seq(Digit) /\ n \in 1..10 /\ (n = 10 => s[10] <= 1)
    BY Zenon DEF Ids
  <2>2. \A i \in 1..n : s[i] \in Digit
    BY ONLY <2>1
  <2> QED
    BY <2>1, <2>2, Zenon
<1>2. Len(u) = n /\ \A i \in 1..n : IF i < n THEN u[i] >= 128 /\ u[i] % 128 = s[i] ELSE u[i] = s[i]
  BY AppendForm, Zenon DEF IdForm
<1>3. Len(b) >= n /\ \A i \in 1..n : b[i] = u[i]
  BY <1>2, Zenon DEF Front
<1> HIDE DEF u
<1>4. Len(b) \in Nat /\ \A i \in 1..Len(b) : b[i] \in Nat
  <2>1. Len(b) \in Nat /\ \A i \in 1..Len(b) : b[i] \in Byte
    BY ONLY TRUE
  <2> QED
    BY <2>1, ByteNat, Zenon
<1> HIDE DEF n
<1>5. n \in 1..n /\ n \in 1..Len(b) /\ n <= 10 /\ ~(n < n) /\ n \in Nat
  BY ONLY <1>1, <1>3, <1>4
<1>6. b[n] = s[n] /\ b[n] < 128 /\ b[n] % 128 = s[n]
  <2>1. b[n] = s[n] /\ s[n] \in Digit
    BY <1>1, <1>2, <1>3, <1>5, Zenon
  <2>2. \A x \in Digit : x < 128 /\ x % 128 = x
    BY DEF Digit
  <2> QED
    BY <2>1, <2>2, Zenon
<1>7. \A j \in 1..(n - 1) : j \in 1..n /\ j < n
  BY ONLY <1>5
<1>8. \A j \in 1..(n - 1) : b[j] >= 128 /\ b[j] % 128 = s[j]
  BY <1>2, <1>3, <1>7, Zenon
<1>9. n \in ends
  BY <1>5, <1>6, <1>8, Zenon
<1>10. ASSUME NEW i \in ends PROVE i = n
  <2>1. i \in 1..Len(b) /\ b[i] < 128 /\ \A j \in 1..(i - 1) : b[j] >= 128
    BY Zenon
  <2>2. ~(i \in 1..(n - 1))
    BY ONLY <1>4, <1>8, <2>1
  <2>3. ~(n \in 1..(i - 1))
    BY ONLY <1>4, <1>5, <1>6, <2>1
  <2> QED
    BY ONLY <1>4, <1>5, <2>1, <2>2, <2>3
<1> HIDE DEF ends
<1>11. m = n /\ ends # {}
  BY <1>9, <1>10, Zenon
<1>12. ~(n = 10 /\ b[n] > 1)
  BY ONLY <1>1, <1>4, <1>5, <1>6
<1>13. [i \in 1..n |-> b[i] % 128] = s
  <2>1. ASSUME NEW i \in 1..n PROVE b[i] % 128 = s[i]
    <3>1. i = n \/ i \in 1..(n - 1)
      BY ONLY <1>5, i \in 1..n
    <3> QED
      BY <1>6, <1>8, <3>1, Zenon
  <2>2. s = [i \in 1..n |-> s[i]]
    BY ONLY <1>1 DEF n
  <2> QED
    BY <2>1, <2>2, Zenon
<1>14. Uvarint(b) = IF ends = {} \/ (m = 10 /\ b[m] > 1) THEN Fail
                    ELSE [ok |-> TRUE, sid |-> [i \in 1..m |-> b[i] % 128], used |-> m]
  BY Zenon DEF Uvarint, ends
<1> HIDE DEF m
<1> QED
  BY <1>11, <1>12, <1>13, <1>14, Zenon DEF n

\* An id that is cut is refused.
LEMMA UvarintCut ==
    ASSUME NEW s \in Ids, NEW b \in Seq(Byte), Front(AppendUvarint(s), b), Len(b) < Len(s)
    PROVE  Uvarint(b) = Fail
<1> DEFINE n == Len(s)
           u == AppendUvarint(s)
           ends == {i \in 1..Len(b) : i <= 10 /\ b[i] < 128 /\ \A j \in 1..(i - 1) : b[j] >= 128}
<1>1. n \in Nat /\ Len(b) < n /\ Len(b) \in Nat
  BY DEF Ids
<1>2. \A i \in 1..n : i < n => u[i] >= 128
  BY AppendForm, Zenon DEF IdForm
<1>3. \A i \in 1..Len(b) : b[i] = u[i]
  BY Zenon DEF Front
<1> HIDE DEF n
<1>4. \A i \in 1..Len(b) : i \in 1..n /\ i < n
  BY ONLY <1>1
<1>5. \A i \in 1..Len(b) : b[i] \in Nat
  <2>1. \A i \in 1..Len(b) : b[i] \in Byte
    BY ONLY TRUE
  <2> QED
    BY <2>1, ByteNat, Zenon
<1>6. \A i \in 1..Len(b) : b[i] >= 128
  BY <1>2, <1>3, <1>4, Zenon
<1>7. \A i \in 1..Len(b) : ~(b[i] < 128)
  BY ONLY <1>5, <1>6
<1>8. ends = {}
  BY <1>7, Zenon
<1> QED
  BY <1>8, Zenon DEF Uvarint

-----------------------------------------------------------------------------
\* The largest envelope is that of an id of 10 bytes and a name of 254, with the largest payload.
LEMMA Sizes ==
    /\ MaxUDPPayload \in Nat /\ MaxUDPDatagramSize \in Nat /\ MaxUDPDatagramSize >= 2
    /\ 1 + 10 + (1 + 1 + 254 + 2) + MaxUDPPayload <= MaxUDPDatagramSize
  BY SMT DEF MaxUDPPayload, MaxUDPDatagramSize

\* r is the rest of b from its place m on.
Remains(r, b, m) ==
    r \in Seq(Byte) /\ Len(r) = Len(b) - m + 1 /\ \A i \in 1..Len(r) : r[i] = b[m - 1 + i]

\* SubSeq cuts that rest.
LEMMA RestOf ==
    ASSUME NEW b \in Seq(Byte), NEW m \in Nat \ {0}, m <= Len(b) + 1
    PROVE  Remains(SubSeq(b, m, Len(b)), b, m)
  BY DEF Remains

\* r is the address a and after it the bytes p.
Holds(r, a, p) ==
    /\ Front(r, Encode(a)) /\ Len(r) = Len(Encode(a)) + Len(p)
    /\ \A i \in 1..Len(p) : r[Len(Encode(a)) + i] = p[i]

\* The decoder returns a if it is valid, and p is what it leaves.
Parsed(r, a, p) ==
    /\ DecodeAddress(r) = IF Validate(a) THEN Decoded(a) ELSE Fail
    /\ Len(r) - Decoded(a).used = Len(p)
    /\ SubSeq(r, Decoded(a).used + 1, Len(r)) = p

\* An address and the bytes after it are told apart.
LEMMA HoldsParsed ==
    ASSUME NEW r \in Seq(Byte), NEW a \in Addresses, NEW p \in Seq(Byte), Holds(r, a, p)
    PROVE  Parsed(r, a, p)
<1> DEFINE k == Len(Encode(a))
<1>1. DecodeAddress(r) = IF Validate(a) THEN Decoded(a) ELSE Fail
  BY DecodeFront, Zenon DEF Holds
<1>2. Encode(a) \in Seq(Byte) /\ k = Decoded(a).used
  <2>1. Encoded(Encode(a), a, HostAt(a.atyp), Len(a.host))
    BY EncodeShape, Zenon
  <2> QED
    BY ONLY <2>1, Zenon DEF Encoded, Decoded
<1>3. k \in Nat
  BY ONLY <1>2
<1>4. Len(r) = k + Len(p) /\ \A i \in 1..Len(p) : r[k + i] = p[i]
  BY Zenon DEF Holds
<1> HIDE DEF k
<1>5. Len(r) - k = Len(p)
  BY ONLY <1>3, <1>4
<1>6. SubSeq(r, k + 1, Len(r)) = p
  <2> DEFINE h == SubSeq(r, k + 1, Len(r))
  <2>1. h \in Seq(Byte) /\ Len(h) = Len(p) /\ \A i \in 1..Len(p) : h[i] = r[k + i]
    BY ONLY <1>3, <1>4
  <2> HIDE DEF h
  <2>2. h = p
    BY ONLY <1>4, <2>1
  <2> QED
    BY <2>2, Zenon DEF h
<1> QED
  BY <1>1, <1>2, <1>5, <1>6, Zenon DEF Parsed

\* What DecodeDatagram makes of what follows the id.
Opened(s, r) ==
    LET d == DecodeAddress(r)
    IN  IF ~d.ok \/ Len(r) - d.used > MaxUDPPayload THEN Fail
        ELSE [ok |-> TRUE, sid |-> s, addr |-> d.addr, payload |-> SubSeq(r, d.used + 1, Len(r))]

\* They are taken if the address is valid and the payload is not too long, and only then.
LEMMA OpenedHolds ==
    ASSUME NEW s, NEW r \in Seq(Byte), NEW a \in Addresses, NEW p \in Seq(Byte), Holds(r, a, p)
    PROVE  Opened(s, r) = IF Validate(a) /\ ~(Len(p) > MaxUDPPayload)
                          THEN [ok |-> TRUE, sid |-> s, addr |-> a, payload |-> p] ELSE Fail
<1>1. Parsed(r, a, p)
  BY HoldsParsed, Zenon
<1>2. Decoded(a).ok /\ Decoded(a).addr = a /\ ~Fail.ok
  BY Zenon DEF Decoded, Fail
<1>3. CASE Validate(a)
  <2>1. DecodeAddress(r) = Decoded(a)
    BY <1>1, <1>3, Zenon DEF Parsed
  <2> QED
    BY ONLY <1>1, <1>2, <1>3, <2>1, Zenon DEF Opened, Parsed
<1>4. CASE ~Validate(a)
  <2>1. DecodeAddress(r) = Fail
    BY <1>1, <1>4, Zenon DEF Parsed
  <2> QED
    BY ONLY <1>2, <1>4, <2>1, Zenon DEF Opened
<1> QED
  BY <1>3, <1>4, Zenon

\* A buffer that begins with the version and an id
Titled(b, s) == b # <<>> /\ b[1] = Version /\ Front(Tail(b), AppendUvarint(s))

\* After the version and the id DecodeDatagram looks at the rest, if the whole is not too long.
LEMMA DatagramOpens ==
    ASSUME NEW b \in Seq(Byte), NEW s \in Ids, Titled(b, s)
    PROVE  DecodeDatagram(b) = IF Len(b) > MaxUDPDatagramSize THEN Fail
                               ELSE Opened(s, SubSeq(b, 2 + Len(s), Len(b)))
<1>1. Tail(b) \in Seq(Byte) /\ Len(Tail(b)) = Len(b) - 1 /\ Len(b) \in Nat
  BY Titled(b, s) DEF Titled
<1>2. Uvarint(Tail(b)) = [ok |-> TRUE, sid |-> s, used |-> Len(s)]
  BY <1>1, UvarintFront, Zenon DEF Titled
<1>3. Len(Tail(b)) >= Len(s) /\ Len(s) >= 1 /\ Len(s) \in Nat
  <2>1. Len(AppendUvarint(s)) = Len(s) /\ Len(s) \in 1..10
    BY AppendForm, Zenon DEF IdForm, Ids
  <2>2. Len(Tail(b)) >= Len(AppendUvarint(s))
    BY Zenon DEF Titled, Front
  <2> QED
    BY ONLY <2>1, <2>2
<1>4. Len(b) \notin 2..MaxUDPDatagramSize <=> Len(b) > MaxUDPDatagramSize
  BY ONLY <1>1, <1>3, Sizes
<1>5. b[1] = Version
  BY Zenon DEF Titled
<1>6. Uvarint(Tail(b)).ok /\ Uvarint(Tail(b)).sid = s /\ Uvarint(Tail(b)).used = Len(s)
  BY ONLY <1>2
<1> QED
  BY ONLY <1>4, <1>5, <1>6, Zenon DEF DecodeDatagram, Opened

\* The name that stands for IP literals has two bytes.
LEMMA IPLength == \A x \in Seq(Byte) : IsIP(x) => Len(x) = 2
  BY DEF IsIP, Colon

\* A sequence without its last byte is one shorter.
LEMMA ButLast == \A x \in Seq(Byte) : x # <<>> => Len(SubSeq(x, 1, Len(x) - 1)) = Len(x) - 1
<1> SUFFICES ASSUME NEW x \in Seq(Byte), x # <<>> PROVE Len(SubSeq(x, 1, Len(x) - 1)) = Len(x) - 1
  BY Zenon
<1>1. Len(x) \in Nat /\ Len(x) >= 1
  OBVIOUS
<1> DEFINE k == Len(x) - 1
<1>2. k \in Nat /\ k <= Len(x)
  BY ONLY <1>1
<1> HIDE DEF k
<1>3. Len(SubSeq(x, 1, k)) = k
  BY ONLY <1>1, <1>2, x \in Seq(Byte)
<1> QED
  BY <1>3, Zenon DEF k

\* A valid name has at most 254 bytes, its last dot included.
LEMMA ValidLength ==
    ASSUME NEW a \in Addresses, Validate(a)
    PROVE  Len(a.host) \in 0..254
<1> DEFINE x == a.host
           h == IF x # <<>> /\ x[Len(x)] = Dot THEN SubSeq(x, 1, Len(x) - 1) ELSE x
<1>1. x \in Seq(Byte)
  BY Zenon DEF Addresses
<1>2. \/ Len(x) = 4
      \/ Len(x) = 16
      \/ IsIP(x)
      \/ ValidName(x)
  BY Zenon DEF Validate
<1>3. ValidName(x) => Len(h) \in 1..253
  BY Zenon DEF ValidName
<1> HIDE DEF x
<1>4. Len(x) \in Nat
  BY ONLY <1>1
<1>5. x # <<>> => Len(SubSeq(x, 1, Len(x) - 1)) = Len(x) - 1
  BY <1>1, ButLast, Zenon
<1>6. Len(h) = Len(x) \/ Len(h) = Len(x) - 1
  BY <1>5, Zenon
<1>7. IsIP(x) => Len(x) = 2
  BY <1>1, IPLength, Zenon
<1> HIDE DEF h
<1> DEFINE n == Len(x)
           m == Len(h)
<1>8. n \in Nat /\ (m = n \/ m = n - 1) /\ (n = 4 \/ n = 16 \/ n = 2 \/ m \in 1..253)
  BY <1>2, <1>3, <1>4, <1>6, <1>7, Zenon
<1> HIDE DEF n, m
<1>9. n \in 0..254
  BY ONLY <1>8
<1> QED
  BY <1>9, Zenon DEF n, x

\* The form of an envelope
Envelope(w, s, a, p) ==
    /\ w \in Seq(Byte) /\ Len(w) = 1 + Len(s) + Len(Encode(a)) + Len(p)
    /\ w[1] = Version
    /\ \A i \in 1..Len(s) : w[1 + i] = AppendUvarint(s)[i]
    /\ \A i \in 1..Len(Encode(a)) : w[1 + Len(s) + i] = Encode(a)[i]
    /\ Titled(w, s) /\ Holds(SubSeq(w, 2 + Len(s), Len(w)), a, p)

\* EncodeDatagram writes that form.
LEMMA EnvelopeForm ==
    ASSUME NEW s \in Ids, NEW a \in Addresses, NEW p \in Seq(Byte)
    PROVE  Envelope(EncodeDatagram(s, a, p), s, a, p)
<1> DEFINE w == EncodeDatagram(s, a, p)
           v == <<Version>>
           u == AppendUvarint(s)
           e == Encode(a)
           r == SubSeq(w, 2 + Len(s), Len(w))
<1>1. v \in Seq(Byte) /\ Len(v) = 1 /\ v[1] = Version
  BY DEF Version, Byte
<1>2. u \in Seq(Byte) /\ Len(u) = Len(s)
  BY AppendForm, Zenon DEF IdForm
<1>3. e \in Seq(Byte)
  BY EncodeShape, Zenon DEF Encoded
<1>4. w = v \o u \o e \o p
  BY Zenon DEF EncodeDatagram
<1> HIDE DEF w, v, u, e
<1>5. Joins(w, v, u, e, p)
  BY <1>1, <1>2, <1>3, <1>4, FourParts, Zenon
<1>6. /\ w \in Seq(Byte) /\ Len(w) = Len(v) + Len(u) + Len(e) + Len(p)
      /\ \A i \in 1..Len(v) : w[i] = v[i]
      /\ \A i \in 1..Len(u) : w[Len(v) + i] = u[i]
      /\ \A i \in 1..Len(e) : w[Len(v) + Len(u) + i] = e[i]
      /\ \A i \in 1..Len(p) : w[Len(v) + Len(u) + Len(e) + i] = p[i]
  BY <1>5, Zenon DEF Joins
<1>7. Len(u) \in Nat /\ Len(e) \in Nat /\ Len(p) \in Nat /\ Len(s) \in Nat
  BY ONLY <1>2, <1>3, p \in Seq(Byte)
<1>8. Titled(w, s)
  <2>1. w # <<>> /\ 1 \in 1..Len(v)
    BY ONLY <1>1, <1>6, <1>7
  <2>2. Len(Tail(w)) >= Len(u) /\ \A i \in 1..Len(u) : Tail(w)[i] = w[1 + i]
    BY ONLY <1>1, <1>6, <1>7, <2>1
  <2>3. \A i \in 1..Len(u) : Tail(w)[i] = u[i]
    BY <1>1, <1>6, <2>2, Zenon
  <2>4. Front(Tail(w), u)
    BY <2>2, <2>3, Zenon DEF Front
  <2> QED
    BY <1>1, <1>6, <2>1, <2>4, Zenon DEF Titled, u
<1>9. /\ r \in Seq(Byte) /\ Len(r) = Len(e) + Len(p)
      /\ \A i \in 1..(Len(e) + Len(p)) : r[i] = w[Len(v) + Len(u) + i]
  <2> DEFINE m == 2 + Len(s)
  <2>1. m \in Nat \ {0} /\ m <= Len(w) + 1 /\ m - 1 = Len(v) + Len(u) /\ Len(w) - m + 1 = Len(e) + Len(p)
    BY ONLY <1>1, <1>2, <1>6, <1>7
  <2>2. r = SubSeq(w, m, Len(w))
    BY Zenon
  <2> HIDE DEF r, m
  <2>3. Remains(r, w, m)
    BY <1>6, <2>1, <2>2, RestOf, Zenon
  <2>4. Len(r) = Len(e) + Len(p)
    BY <2>1, <2>3, Zenon DEF Remains
  <2> QED
    BY <2>1, <2>3, <2>4, Zenon DEF Remains
<1> HIDE DEF r
<1>10. Holds(r, a, p)
  <2>1. \A i \in 1..Len(e) : i \in 1..(Len(e) + Len(p))
    BY ONLY <1>7
  <2>2. \A i \in 1..Len(p) : /\ Len(e) + i \in 1..(Len(e) + Len(p))
                             /\ Len(v) + Len(u) + (Len(e) + i) = Len(v) + Len(u) + Len(e) + i
    BY ONLY <1>1, <1>7
  <2>3. \A i \in 1..Len(e) : r[i] = e[i]
    BY <1>6, <1>9, <2>1, Zenon
  <2>4. ASSUME NEW i \in 1..Len(p) PROVE r[Len(e) + i] = p[i]
    <3>1. r[Len(e) + i] = w[Len(v) + Len(u) + (Len(e) + i)]
      BY <1>9, <2>2, Zenon
    <3> QED
      BY <1>6, <2>2, <3>1, Zenon
  <2>5. Len(r) >= Len(e)
    BY ONLY <1>7, <1>9
  <2> QED
    BY <1>9, <2>3, <2>4, <2>5, Zenon DEF Holds, Front, e
<1>11. /\ Len(w) = 1 + Len(s) + Len(e) + Len(p) /\ w[1] = Version
       /\ \A i \in 1..Len(s) : w[1 + i] = u[i]
       /\ \A i \in 1..Len(e) : w[1 + Len(s) + i] = e[i]
  <2>1. 1 \in 1..1
    OBVIOUS
  <2> QED
    BY <1>1, <1>2, <1>6, <2>1, Zenon
<1>12. Envelope(w, s, a, p)
  BY <1>6, <1>8, <1>10, <1>11, Zenon DEF Envelope, u, e, r
<1> QED
  BY <1>12, Zenon DEF w

\* What DecodeDatagram (frame.go) returns for what EncodeDatagram wrote, exactly: the same session,
\* address and payload if the address is valid and the payload has at most MaxUDPPayload bytes, an
\* error otherwise. MaxUDPDatagramSize is enough for every valid address and every uint64 id.
THEOREM EnvelopeRoundTrip ==
    \A s \in Ids, a \in Addresses, p \in Seq(Byte) :
        DecodeDatagram(EncodeDatagram(s, a, p)) =
            IF Validate(a) /\ ~(Len(p) > MaxUDPPayload)
            THEN [ok |-> TRUE, sid |-> s, addr |-> a, payload |-> p] ELSE Fail
<1> SUFFICES ASSUME NEW s \in Ids, NEW a \in Addresses, NEW p \in Seq(Byte)
             PROVE  DecodeDatagram(EncodeDatagram(s, a, p)) =
                       IF Validate(a) /\ ~(Len(p) > MaxUDPPayload)
                       THEN [ok |-> TRUE, sid |-> s, addr |-> a, payload |-> p] ELSE Fail
  BY Zenon
<1> DEFINE w == EncodeDatagram(s, a, p)
           r == SubSeq(w, 2 + Len(s), Len(w))
<1>1. /\ w \in Seq(Byte) /\ Len(w) = 1 + Len(s) + Len(Encode(a)) + Len(p)
      /\ Titled(w, s) /\ Holds(r, a, p)
  <2>1. Envelope(w, s, a, p)
    BY EnvelopeForm, Zenon
  <2> QED
    BY ONLY <2>1, Zenon DEF Envelope
<1>2. r \in Seq(Byte)
  BY ONLY <1>1
<1>3. DecodeDatagram(w) = IF Len(w) > MaxUDPDatagramSize THEN Fail ELSE Opened(s, r)
  BY <1>1, DatagramOpens, Zenon
<1>4. Opened(s, r) = IF Validate(a) /\ ~(Len(p) > MaxUDPPayload)
                     THEN [ok |-> TRUE, sid |-> s, addr |-> a, payload |-> p] ELSE Fail
  BY <1>1, <1>2, OpenedHolds, Zenon
<1>5. ASSUME Validate(a), ~(Len(p) > MaxUDPPayload) PROVE ~(Len(w) > MaxUDPDatagramSize)
  <2> DEFINE n == Len(a.host)
             at == HostAt(a.atyp)
             k == Len(Encode(a))
             i == Len(s)
             q == Len(p)
             all == Len(w)
  <2>1. n \in 0..254
    BY <1>5, ValidLength, Zenon
  <2>2. at \in {1, 2}
    BY Zenon DEF HostAt
  <2>3. k = at + n + 2
    BY EncodeShape, Zenon DEF Encoded
  <2>4. i \in 1..10
    BY Zenon DEF Ids
  <2>5. q \in Nat
    BY ONLY p \in Seq(Byte)
  <2>6. all = 1 + i + k + q /\ ~(q > MaxUDPPayload)
    BY <1>1, <1>5, Zenon
  <2> HIDE DEF n, at, k, i, q, all
  <2>7. ~(all > MaxUDPDatagramSize)
    BY ONLY <2>1, <2>2, <2>3, <2>4, <2>5, <2>6, Sizes
  <2> QED
    BY <2>7, Zenon DEF all
<1> HIDE DEF w, r
<1>6. DecodeDatagram(w) = IF Validate(a) /\ ~(Len(p) > MaxUDPPayload)
                          THEN [ok |-> TRUE, sid |-> s, addr |-> a, payload |-> p] ELSE Fail
  BY ONLY <1>3, <1>4, <1>5, Zenon
<1> QED
  BY <1>6, Zenon DEF w

\* An envelope that is cut anywhere before its payload is refused, whatever it would have carried.
THEOREM CutEnvelopeRefused ==
    \A s \in Ids, a \in Addresses, p \in Seq(Byte) : \A k \in 0..(Len(s) + Len(Encode(a))) :
        DecodeDatagram(SubSeq(EncodeDatagram(s, a, p), 1, k)) = Fail
<1> SUFFICES ASSUME NEW s \in Ids, NEW a \in Addresses, NEW p \in Seq(Byte),
                    NEW k \in 0..(Len(s) + Len(Encode(a)))
             PROVE  DecodeDatagram(SubSeq(EncodeDatagram(s, a, p), 1, k)) = Fail
  BY Zenon
<1> DEFINE w == EncodeDatagram(s, a, p)
           b == SubSeq(w, 1, k)
           n == Len(s)
           u == AppendUvarint(s)
           e == Encode(a)
           z == Len(e)
<1>1. /\ w \in Seq(Byte) /\ Len(w) = 1 + n + z + Len(p) /\ w[1] = Version
      /\ \A i \in 1..n : w[1 + i] = u[i]
      /\ \A i \in 1..z : w[1 + n + i] = e[i]
  <2>1. Envelope(w, s, a, p)
    BY EnvelopeForm, Zenon
  <2> QED
    BY ONLY <2>1, Zenon DEF Envelope
<1>2. n \in 1..10 /\ Len(u) = n
  BY AppendForm, Zenon DEF IdForm, Ids
<1>3. e \in Seq(Byte)
  BY EncodeShape, Zenon DEF Encoded
<1>4. z \in Nat /\ Len(p) \in Nat
  BY ONLY <1>3, p \in Seq(Byte)
<1>5. k \in 0..(n + z)
  BY Zenon
<1> HIDE DEF w, n, u, e, z
<1>6. b \in Seq(Byte) /\ Len(b) = k /\ \A i \in 1..k : b[i] = w[i]
  <2>1. k \in Nat /\ k <= Len(w)
    BY ONLY <1>1, <1>2, <1>4, <1>5
  <2> QED
    BY ONLY <1>1, <2>1
<1> HIDE DEF b
<1>7. CASE k < 2
  <2>1. Len(b) \notin 2..MaxUDPDatagramSize
    BY ONLY <1>5, <1>6, <1>7, Sizes
  <2> QED
    BY <2>1, Zenon DEF DecodeDatagram, b, w
<1>8. ASSUME k >= 2
      PROVE  /\ b # <<>> /\ b[1] = Version
             /\ Tail(b) \in Seq(Byte) /\ Len(Tail(b)) = k - 1
             /\ \A i \in 1..(k - 1) : Tail(b)[i] = w[1 + i]
  <2>1. b # <<>> /\ 1 \in 1..k
    BY ONLY <1>5, <1>6, <1>8
  <2>2. Tail(b) \in Seq(Byte) /\ Len(Tail(b)) = k - 1 /\ \A i \in 1..(k - 1) : Tail(b)[i] = b[1 + i]
    BY ONLY <1>5, <1>6, <1>8, <2>1
  <2>3. \A i \in 1..(k - 1) : 1 + i \in 1..k
    BY ONLY <1>5
  <2> QED
    BY <1>1, <1>6, <2>1, <2>2, <2>3, Zenon
<1>9. CASE k >= 2 /\ k - 1 < n
  <2>1. \A i \in 1..(k - 1) : i \in 1..n
    BY ONLY <1>2, <1>5, <1>9
  <2>2. \A i \in 1..(k - 1) : u[i] = Tail(b)[i]
    BY <1>1, <1>8, <1>9, <2>1, Zenon
  <2>3. Len(u) >= Len(Tail(b)) /\ Len(Tail(b)) < n
    BY ONLY <1>2, <1>8, <1>9
  <2>4. Front(u, Tail(b))
    BY <1>8, <1>9, <2>2, <2>3, Zenon DEF Front
  <2>5. Uvarint(Tail(b)) = Fail
    BY <1>8, <1>9, <2>3, <2>4, UvarintCut, Zenon DEF u, n
  <2>6. ~Uvarint(Tail(b)).ok
    BY ONLY <2>5 DEF Fail
  <2> QED
    BY <2>6, Zenon DEF DecodeDatagram, b, w
<1>10. CASE k >= 2 /\ k - 1 >= n
  <2> DEFINE m == 2 + n
             r == SubSeq(b, m, Len(b))
  <2>1. \A i \in 1..n : i \in 1..(k - 1)
    BY ONLY <1>2, <1>5, <1>10
  <2>2. \A i \in 1..n : Tail(b)[i] = u[i]
    BY <1>1, <1>8, <1>10, <2>1, Zenon
  <2>3. Front(Tail(b), u)
    BY <1>2, <1>8, <1>10, <2>2, Zenon DEF Front
  <2>4. Titled(b, s)
    BY <1>8, <1>10, <2>3, Zenon DEF Titled, u
  <2>5. DecodeDatagram(b) = IF Len(b) > MaxUDPDatagramSize THEN Fail ELSE Opened(s, r)
    BY <1>6, <2>4, DatagramOpens, Zenon DEF n
  <2>6. m \in Nat \ {0} /\ m <= Len(b) + 1 /\ Len(b) - m + 1 < z /\ m - 1 = 1 + n
    BY ONLY <1>2, <1>4, <1>5, <1>6, <1>10
  <2> HIDE DEF m
  <2>7. Remains(r, b, m)
    BY <1>6, <2>6, RestOf, Zenon
  <2> HIDE DEF r
  <2>8. /\ r \in Seq(Byte) /\ Len(r) = Len(b) - m + 1
        /\ \A i \in 1..Len(r) : r[i] = b[m - 1 + i]
    BY ONLY <2>7, Zenon DEF Remains
  <2>9. \A i \in 1..Len(r) : i \in 1..z /\ 1 + n + i \in 1..k
    BY ONLY <1>2, <1>4, <1>5, <1>6, <1>10, <2>6, <2>8
  <2>10. ASSUME NEW i \in 1..Len(r) PROVE e[i] = r[i]
    <3>1. r[i] = b[1 + n + i]
      BY <2>6, <2>8, Zenon
    <3>2. b[1 + n + i] = w[1 + n + i]
      BY <1>6, <2>9, Zenon
    <3> QED
      BY <1>1, <2>9, <3>1, <3>2, Zenon
  <2>11. Len(e) >= Len(r) /\ Len(r) < Len(e)
    <3>1. z >= Len(r) /\ Len(r) < z
      BY ONLY <1>4, <1>6, <1>2, <1>5, <2>6, <2>8
    <3> QED
      BY <3>1, Zenon DEF z
  <2>12. Front(e, r)
    BY <2>10, <2>11, Zenon DEF Front
  <2>13. DecodeAddress(r) = Fail
    BY <2>8, <2>11, <2>12, DecodeCut, Zenon DEF e
  <2>14. ~DecodeAddress(r).ok
    BY ONLY <2>13 DEF Fail
  <2>15. Opened(s, r) = Fail
    BY <2>14, Zenon DEF Opened
  <2> QED
    BY <2>5, <2>15, Zenon DEF b, w
<1> QED
  <2>1. k < 2 \/ (k >= 2 /\ k - 1 < n) \/ (k >= 2 /\ k - 1 >= n)
    BY ONLY <1>2, <1>4, <1>5
  <2> QED
    BY <1>7, <1>9, <1>10, <2>1, Zenon

-----------------------------------------------------------------------------
\* b is a head of three bytes, the address a and the bytes p.
Behind(b, h, a, p) ==
    /\ b \in Seq(Byte) /\ Len(b) >= 4 /\ SubSeq(b, 1, 3) = h
    /\ \A i \in 1..3 : b[i] = h[i]
    /\ SubSeq(b, 4, Len(b)) \in Seq(Byte) /\ Holds(SubSeq(b, 4, Len(b)), a, p)

\* The address and the bytes after a head of three are found again.
LEMMA BehindHead ==
    ASSUME NEW h \in Seq(Byte), Len(h) = 3, NEW a \in Addresses, NEW p \in Seq(Byte)
    PROVE  Behind(h \o Encode(a) \o p, h, a, p)
<1> DEFINE e == Encode(a)
           b == h \o e \o p
           r == SubSeq(b, 4, Len(b))
           o == <<>>
<1>1. e \in Seq(Byte) /\ Len(e) >= 1
  <2>1. e \in Seq(Byte) /\ Len(e) = HostAt(a.atyp) + Len(a.host) + 2 /\ a.host \in Seq(Byte)
    BY EncodeShape, Zenon DEF Encoded, Addresses
  <2> DEFINE at == HostAt(a.atyp)
             x == a.host
  <2>2. Len(e) = at + Len(x) + 2 /\ x \in Seq(Byte)
    BY <2>1, Zenon
  <2>3. at \in {1, 2}
    BY Zenon DEF HostAt
  <2> HIDE DEF at, e, x
  <2>4. Len(e) >= 1
    BY ONLY <2>2, <2>3
  <2> QED
    BY <2>1, <2>4, Zenon
<1>2. o \in Seq(Byte) /\ Len(o) = 0
  BY ONLY TRUE
<1> HIDE DEF e
<1>3. b = h \o e \o p \o o
  <2> DEFINE q == h \o e \o p
  <2>1. q \in Seq(Byte)
    BY ONLY <1>1, h \in Seq(Byte), p \in Seq(Byte)
  <2> HIDE DEF q
  <2>2. q = q \o <<>>
    BY ONLY <2>1
  <2> QED
    BY <2>2, Zenon DEF q
<1> HIDE DEF b, o
<1>4. Joins(b, h, e, p, o)
  BY <1>1, <1>2, <1>3, FourParts, Zenon
<1>5. /\ b \in Seq(Byte) /\ Len(b) = Len(h) + Len(e) + Len(p) + Len(o)
      /\ \A i \in 1..Len(h) : b[i] = h[i]
      /\ \A i \in 1..Len(e) : b[Len(h) + i] = e[i]
      /\ \A i \in 1..Len(p) : b[Len(h) + Len(e) + i] = p[i]
  BY ONLY <1>4, Zenon DEF Joins
<1>6. Len(h) = 3 /\ Len(e) \in Nat /\ Len(p) \in Nat
  BY ONLY <1>1, p \in Seq(Byte), Len(h) = 3
<1>7. /\ Len(b) >= 4 /\ 4 <= Len(b) + 1 /\ 4 \in Nat \ {0} /\ 4 - 1 = 3
      /\ Len(b) - 4 + 1 = Len(e) + Len(p)
  BY ONLY <1>1, <1>2, <1>5, <1>6
<1>8. SubSeq(b, 1, 3) = h
  <2> DEFINE g == SubSeq(b, 1, 3)
  <2>1. g \in Seq(Byte) /\ Len(g) = 3 /\ \A i \in 1..3 : g[i] = b[i]
    BY ONLY <1>5, <1>7
  <2> HIDE DEF g
  <2>2. \A i \in 1..3 : g[i] = h[i]
    BY <1>5, <1>6, <2>1, Zenon
  <2>3. g = h
    BY ONLY <1>6, <2>1, <2>2, h \in Seq(Byte)
  <2> QED
    BY <2>3, Zenon DEF g
<1>9. /\ r \in Seq(Byte) /\ Len(r) = Len(e) + Len(p)
      /\ \A i \in 1..(Len(e) + Len(p)) : r[i] = b[3 + i]
  <2>1. Remains(r, b, 4)
    BY <1>5, <1>7, RestOf, Zenon
  <2>2. r \in Seq(Byte) /\ Len(r) = Len(b) - 4 + 1 /\ \A i \in 1..Len(r) : r[i] = b[4 - 1 + i]
    BY ONLY <2>1, Zenon DEF Remains
  <2> HIDE DEF r
  <2> QED
    BY <1>7, <2>2, Zenon
<1> HIDE DEF r
<1>10. Holds(r, a, p)
  <2>1. \A i \in 1..Len(e) : i \in 1..(Len(e) + Len(p))
    BY ONLY <1>6
  <2>2. \A i \in 1..Len(p) : Len(e) + i \in 1..(Len(e) + Len(p)) /\ 3 + (Len(e) + i) = 3 + Len(e) + i
    BY ONLY <1>6
  <2>3. \A i \in 1..Len(e) : r[i] = e[i]
    BY <1>5, <1>6, <1>9, <2>1, Zenon
  <2>4. ASSUME NEW i \in 1..Len(p) PROVE r[Len(e) + i] = p[i]
    <3>1. r[Len(e) + i] = b[3 + (Len(e) + i)]
      BY <1>9, <2>2, Zenon
    <3> QED
      BY <1>5, <1>6, <2>2, <3>1, Zenon
  <2>5. Len(r) >= Len(e)
    BY ONLY <1>6, <1>9
  <2> QED
    BY <1>9, <2>3, <2>4, <2>5, Zenon DEF Holds, Front, e
<1>11. Behind(b, h, a, p)
  BY <1>5, <1>6, <1>7, <1>8, <1>9, <1>10, Zenon DEF Behind, r
<1> QED
  BY <1>11, Zenon DEF b, e

\* What parseSOCKSUDP (socks_udp.go) returns for what buildSOCKSUDP wrote, exactly: the address and
\* the payload, unless the address is not valid, its port is 0 or the payload is too long.
THEOREM SocksRoundTrip ==
    \A a \in Addresses, p \in Seq(Byte) :
        ParseSOCKSUDP(BuildSOCKSUDP(a, p)) =
            IF Validate(a) /\ ~(Len(p) > MaxUDPPayload) /\ a.port # 0
            THEN [ok |-> TRUE, addr |-> a, payload |-> p] ELSE Fail
<1> SUFFICES ASSUME NEW a \in Addresses, NEW p \in Seq(Byte)
             PROVE  ParseSOCKSUDP(BuildSOCKSUDP(a, p)) =
                       IF Validate(a) /\ ~(Len(p) > MaxUDPPayload) /\ a.port # 0
                       THEN [ok |-> TRUE, addr |-> a, payload |-> p] ELSE Fail
  BY Zenon
<1> DEFINE h == <<0, 0, 0>>
           b == BuildSOCKSUDP(a, p)
           r == SubSeq(b, 4, Len(b))
           d == ReadAddress(r)
<1>1. h \in Seq(Byte) /\ Len(h) = 3
  BY ONLY TRUE DEF Byte
<1>2. b = h \o Encode(a) \o p
  BY Zenon DEF BuildSOCKSUDP
<1> HIDE DEF h, b
<1>3. Behind(b, h, a, p)
  BY <1>1, <1>2, BehindHead, Zenon
<1>4. b \in Seq(Byte) /\ Len(b) >= 4 /\ SubSeq(b, 1, 3) = h /\ r \in Seq(Byte) /\ Holds(r, a, p)
  BY ONLY <1>3, Zenon DEF Behind
<1>5. ~(Len(b) < 4 \/ SubSeq(b, 1, 3) # <<0, 0, 0>>)
  <2>1. ~(Len(b) < 4)
    BY ONLY <1>4
  <2> QED
    BY <1>4, <2>1, Zenon DEF h
<1>6. ParseSOCKSUDP(b) = IF ~d.ok \/ Len(r) - d.used > MaxUDPPayload THEN Fail
                         ELSE IF d.addr.port = 0 THEN Fail
                         ELSE [ok |-> TRUE, addr |-> d.addr, payload |-> SubSeq(r, d.used + 1, Len(r))]
  BY <1>5, Zenon DEF ParseSOCKSUDP
<1>7. d = DecodeAddress(r) /\ Parsed(r, a, p)
  BY <1>4, DecodersAgree, HoldsParsed, Zenon
<1> HIDE DEF d, r
<1>8. Decoded(a).ok /\ Decoded(a).addr = a /\ ~Fail.ok
  BY Zenon DEF Decoded, Fail
<1>9. CASE Validate(a)
  <2>1. d = Decoded(a)
    BY <1>7, <1>9, Zenon DEF Parsed
  <2>2. d.ok /\ d.addr = a /\ Len(r) - d.used = Len(p) /\ SubSeq(r, d.used + 1, Len(r)) = p
    BY ONLY <1>7, <1>8, <2>1, Zenon DEF Parsed
  <2> QED
    BY <1>6, <1>9, <2>2, Zenon DEF b
<1>10. CASE ~Validate(a)
  <2>1. d = Fail
    BY <1>7, <1>10, Zenon DEF Parsed
  <2> QED
    BY <1>6, <1>8, <1>10, <2>1, Zenon DEF b
<1> QED
  BY <1>9, <1>10, Zenon

\* ReadStreamRequest (frame.go) returns the command, flags and address that StreamRequest.WriteTo
\* wrote, for every valid address.
THEOREM RequestRoundTrip ==
    \A c \in Byte, f \in Byte, a \in Addresses :
        Validate(a) => ReadStreamRequest(WriteRequest(c, f, a)) = [ok |-> TRUE, cmd |-> c, flags |-> f, addr |-> a]
<1> SUFFICES ASSUME NEW c \in Byte, NEW f \in Byte, NEW a \in Addresses, Validate(a)
             PROVE  ReadStreamRequest(WriteRequest(c, f, a)) = [ok |-> TRUE, cmd |-> c, flags |-> f, addr |-> a]
  BY Zenon
<1> DEFINE h == <<Version, c, f>>
           o == <<>>
           e == Encode(a)
           b == WriteRequest(c, f, a)
           r == SubSeq(b, 4, Len(b))
<1>0. Version \in Byte
  BY DEF Version, Byte
<1>1. h \in Seq(Byte) /\ Len(h) = 3 /\ h[1] = Version /\ h[2] = c /\ h[3] = f /\ o \in Seq(Byte)
  BY ONLY <1>0, c \in Byte, f \in Byte
<1>2. e \in Seq(Byte)
  BY EncodeShape, Zenon DEF Encoded
<1>3. b = h \o e
  BY Zenon DEF WriteRequest
<1> HIDE DEF h, e, b
<1>4. h \o e = h \o e \o o
  BY ONLY <1>1, <1>2
<1> HIDE DEF o
<1>5. Behind(b, h, a, o)
  BY <1>1, <1>3, <1>4, BehindHead, Zenon DEF e
<1>6. /\ Len(b) >= 4 /\ b \in Seq(Byte) /\ \A i \in 1..3 : b[i] = h[i]
      /\ r \in Seq(Byte) /\ Holds(r, a, o)
  BY ONLY <1>5, Zenon DEF Behind
<1>7. ~(Len(b) < 3) /\ 1 \in 1..3 /\ 2 \in 1..3 /\ 3 \in 1..3
  BY ONLY <1>6
<1>8. b[1] = Version /\ b[2] = c /\ b[3] = f
  BY <1>1, <1>6, <1>7, Zenon
<1>9. ReadAddress(r) = Decoded(a)
  <2>1. ReadAddress(r) = DecodeAddress(r) /\ Parsed(r, a, o)
    BY <1>1, <1>6, DecodersAgree, HoldsParsed, Zenon
  <2> QED
    BY <2>1, Zenon DEF Parsed
<1>10. ReadAddress(r).ok /\ ReadAddress(r).addr = a
  <2>1. Decoded(a).ok /\ Decoded(a).addr = a
    BY Zenon DEF Decoded
  <2> QED
    BY <1>9, <2>1, Zenon
<1>11. ReadStreamRequest(b) = [ok |-> TRUE, cmd |-> c, flags |-> f, addr |-> a]
  BY <1>7, <1>8, <1>10, Zenon DEF ReadStreamRequest
<1> QED
  BY <1>11, Zenon DEF b

-----------------------------------------------------------------------------
\* What Validate asks of a name without its last dot: Cuts are the ends of its labels.
Cuts(h) == {0, Len(h) + 1} \cup {i \in DOMAIN h : h[i] = Dot}

Label(h, d, e) == e - d - 1 \in 1..63 /\ h[d + 1] # Dash /\ h[e - 1] # Dash

Labels(h) ==
    /\ Len(h) \in 1..253
    /\ \A i \in DOMAIN h : h[i] \in {Letter, Dot, Dash}
    /\ \A d, e \in Cuts(h) : d < e /\ ~(\E f \in Cuts(h) : d < f /\ f < e) => Label(h, d, e)

\* A name without its last dot.
Bare(x) == IF x # <<>> /\ x[Len(x)] = Dot THEN SubSeq(x, 1, Len(x) - 1) ELSE x

\* Validate looks at the labels of the name without its last dot.
LEMMA NameLabelled == \A x : ValidName(x) <=> Labels(Bare(x))
  BY Zenon DEF ValidName, Labels, Label, Cuts, Bare

\* A name that does not end in a dot has no dot to drop.
LEMMA Undotted ==
    ASSUME NEW x, x # <<>> => x[Len(x)] # Dot
    PROVE  ValidName(x) <=> Labels(x)
<1>1. Bare(x) = x
  BY Zenon DEF Bare
<1> QED
  BY <1>1, NameLabelled, Zenon

\* The dot that may end a name changes nothing.
LEMMA Dotted ==
    ASSUME NEW x \in Seq(Byte)
    PROVE  ValidName(Append(x, Dot)) <=> Labels(x)
<1> DEFINE y == Append(x, Dot)
<1>1. y # <<>> /\ y[Len(y)] = Dot /\ SubSeq(y, 1, Len(y) - 1) = x
  BY DEF Dot, Byte
<1> HIDE DEF y
<1>2. Bare(y) = x
  BY <1>1, Zenon DEF Bare
<1> QED
  BY <1>2, NameLabelled, Zenon DEF y

\* The characters differ, and each is a byte.
LEMMA Chars ==
    /\ Letter \in Byte /\ Dot \in Byte /\ Dash \in Byte /\ Space \in Byte /\ Colon \in Byte
    /\ Letter # Dot /\ Letter # Dash /\ Dot # Dash /\ Space \notin {Letter, Dot, Dash}
    /\ Colon \notin {Letter, Dot, Dash}
  BY DEF Letter, Dot, Dash, Space, Colon, Byte

\* Multiples of 64 are 64 apart.
LEMMA By64 ==
    \A d \in Nat : /\ d % 64 = 0 => (d + 64) % 64 = 0 /\ (d + 1) % 64 # 0
                   /\ 0 % 64 = 0
  OBVIOUS

\* x is a name of n bytes in labels of 63.
Named(x, n) == x \in Seq(Byte) /\ Len(x) = n /\ \A i \in 1..n : x[i] = IF i % 64 = 0 THEN Dot ELSE Letter

\* Name(n) is one.
LEMMA NameIs ==
    ASSUME NEW n \in Nat
    PROVE  Named(Name(n), n)
<1> DEFINE x == Name(n)
<1>1. x = [i \in 1..n |-> IF i % 64 = 0 THEN Dot ELSE Letter]
  BY Zenon DEF Name
<1>2. \A i \in 1..n : x[i] \in Byte /\ x[i] = IF i % 64 = 0 THEN Dot ELSE Letter
  BY <1>1, Chars, Zenon
<1> HIDE DEF x
<1>3. x \in Seq(Byte) /\ Len(x) = n
  BY ONLY <1>1, <1>2
<1>4. Named(x, n)
  BY <1>2, <1>3, Zenon DEF Named
<1> QED
  BY <1>4, Zenon DEF x

\* The lengths at which such a name is valid: at most 253, and not ending in a dot.
Lengths == {n \in 1..253 : n % 64 # 0}

\* All its labels are valid.
LEMMA NameLabels ==
    ASSUME NEW n \in Lengths, NEW x, Named(x, n)
    PROVE  Labels(x) /\ x[Len(x)] # Dot
<1>0. n \in 1..253 /\ n % 64 # 0
  BY Zenon DEF Lengths
<1>1. x \in Seq(Byte) /\ Len(x) = n /\ \A i \in 1..n : x[i] = IF i % 64 = 0 THEN Dot ELSE Letter
  BY Zenon DEF Named
<1>2. DOMAIN x = 1..n /\ n \in 1..n
  BY ONLY <1>1, <1>0
<1>3. \A i \in 1..n : x[i] \in {Letter, Dot} /\ x[i] # Dash /\ (x[i] = Dot <=> i % 64 = 0)
  BY <1>1, Chars, Zenon
<1>4. x[Len(x)] # Dot
  BY <1>0, <1>1, <1>2, <1>3, Zenon
<1>5. \A c : c \in Cuts(x) <=> c = 0 \/ c = n + 1 \/ (c \in 1..n /\ c % 64 = 0)
  BY <1>1, <1>2, <1>3, Zenon DEF Cuts
<1>6. ASSUME NEW d \in Cuts(x), NEW e \in Cuts(x), d < e, ~(\E f \in Cuts(x) : d < f /\ f < e)
      PROVE  Label(x, d, e)
  <2>1. d \in Nat /\ e \in Nat /\ e <= n + 1 /\ d <= n /\ d % 64 = 0 /\ (e = n + 1 \/ e % 64 = 0)
    <3>1. d = 0 \/ d = n + 1 \/ (d \in 1..n /\ d % 64 = 0)
      BY <1>5, Zenon
    <3>2. e = 0 \/ e = n + 1 \/ (e \in 1..n /\ e % 64 = 0)
      BY <1>5, Zenon
    <3> QED
      BY ONLY <1>6, <3>1, <3>2, <1>0, By64
  <2>2. ~(d + 64 < e)
    <3>1. SUFFICES ASSUME d + 64 < e PROVE FALSE
      BY Zenon
    <3>2. d + 64 \in 1..n /\ (d + 64) % 64 = 0 /\ d < d + 64
      BY ONLY <2>1, <3>1, By64, <1>0
    <3>3. d + 64 \in Cuts(x)
      BY <1>5, <3>2, Zenon
    <3> QED
      BY <1>6, <3>1, <3>2, <3>3, Zenon
  <2>3. e # d + 1
    BY ONLY <2>1, By64, <1>0
  <2>4. e - d - 1 \in 1..63 /\ d + 1 \in 1..n /\ e - 1 \in 1..n
    BY ONLY <1>6, <2>1, <2>2, <2>3, <1>0
  <2> QED
    BY <1>3, <2>4, Zenon DEF Label
<1>7. \A i \in DOMAIN x : x[i] \in {Letter, Dot, Dash}
  BY <1>2, <1>3, Zenon
<1> QED
  BY <1>0, <1>1, <1>4, <1>6, <1>7, Zenon DEF Labels

\* Names that Validate takes, and names that it refuses; all have a form on the wire.
Short(x) == x \in Seq(Byte) /\ Len(x) <= 255
Good(x) == Short(x) /\ ValidName(x)
Bad(x) == Short(x) /\ ~ValidName(x) /\ ~IsIP(x)

\* Names of these lengths are valid, with and without a dot at the end.
LEMMA NameGood ==
    ASSUME NEW n \in Lengths
    PROVE  Good(Name(n)) /\ Good(Append(Name(n), Dot))
<1> DEFINE x == Name(n)
           y == Append(x, Dot)
<1>1. n \in Nat /\ n <= 253
  BY DEF Lengths
<1>2. Named(x, n)
  BY <1>1, NameIs, Zenon
<1> HIDE DEF x
<1>3. Labels(x) /\ x[Len(x)] # Dot
  BY <1>2, NameLabels, Zenon
<1>4. x \in Seq(Byte) /\ Len(x) = n
  BY <1>2, Zenon DEF Named
<1>5. ValidName(x) /\ ValidName(y)
  BY <1>3, <1>4, Undotted, Dotted, Zenon
<1>6. Short(x) /\ Short(y)
  BY ONLY <1>1, <1>4, Chars DEF Short
<1> HIDE DEF y
<1>7. Good(x) /\ Good(y)
  BY ONLY <1>5, <1>6, Zenon DEF Good
<1> QED
  BY <1>7, Zenon DEF x, y

\* A dash within a label is valid.
LEMMA DashedGood == Good(<<Letter, Dash, Letter, Dot>>)
<1> DEFINE y == <<Letter, Dash, Letter>>
           x == <<Letter, Dash, Letter, Dot>>
<1>1. y \in Seq(Byte) /\ Len(y) = 3 /\ y[1] = Letter /\ y[2] = Dash /\ y[3] = Letter
  BY ONLY Chars
<1>2. x = Append(y, Dot) /\ Short(x)
  BY ONLY Chars DEF Short
<1> HIDE DEF x, y
<1>4. DOMAIN y = 1..3 /\ 1..3 = {1, 2, 3} /\ Len(y) \in 1..253
  BY ONLY <1>1
<1>5. \A i \in DOMAIN y : y[i] \in {Letter, Dot, Dash} /\ y[i] # Dot
  BY <1>1, <1>4, Chars, Zenon
<1>6. Cuts(y) = {0, 4}
  <2>1. Len(y) + 1 = 4
    BY ONLY <1>1
  <2> QED
    BY <1>5, <2>1, Zenon DEF Cuts
<1>7. ASSUME NEW d \in Cuts(y), NEW e \in Cuts(y), d < e PROVE Label(y, d, e)
  <2>1. d = 0 /\ e = 4
    BY ONLY <1>6, <1>7
  <2>2. e - d - 1 \in 1..63 /\ d + 1 = 1 /\ e - 1 = 3
    BY ONLY <2>1
  <2> QED
    BY <1>1, <2>2, Chars, Zenon DEF Label
<1>8. Labels(y)
  BY <1>4, <1>5, <1>7, Zenon DEF Labels
<1>9. Good(x)
  BY <1>1, <1>2, <1>8, Dotted, Zenon DEF Good
<1> QED
  BY <1>9, Zenon DEF x

\* A name that is too long is refused.
LEMMA LongBad ==
    ASSUME NEW n \in Nat, n > 253, n < 255, n % 64 # 0
    PROVE  Bad(Name(n)) /\ Bad(Append(Name(n), Dot))
<1> DEFINE x == Name(n)
           y == Append(x, Dot)
<1>1. Named(x, n)
  BY NameIs, Zenon
<1> HIDE DEF x
<1>2. x \in Seq(Byte) /\ Len(x) = n /\ x[n] = Letter
  <2>1. n \in 1..n
    BY ONLY n > 253
  <2> QED
    BY <1>1, <2>1, Zenon DEF Named
<1>3. Len(x) \notin 1..253 /\ Short(x) /\ Short(y) /\ ~(Len(x) = 2) /\ ~(Len(y) = 2) /\ y \in Seq(Byte)
  BY ONLY <1>2, Chars, n > 253, n < 255 DEF Short
<1>4. ~Labels(x)
  BY <1>3, Zenon DEF Labels
<1>5. ~ValidName(x)
  BY <1>2, <1>4, Chars, Undotted, Zenon
<1>6. ~ValidName(y)
  BY <1>2, <1>4, Dotted, Zenon
<1> HIDE DEF y
<1>7. ~IsIP(x) /\ ~IsIP(y)
  BY <1>2, <1>3, IPLength, Zenon
<1>8. Bad(x) /\ Bad(y)
  BY ONLY <1>3, <1>5, <1>6, <1>7, Zenon DEF Bad
<1> QED
  BY <1>8, Zenon DEF x, y

\* The name that stands for IP literals begins with a colon.
LEMMA Colons == \A x : IsIP(x) => x[1] = Colon
  BY DEF IsIP

\* A name with a bad label is refused.
LEMMA LabelBad ==
    ASSUME NEW x, Short(x), x[1] # Colon, x[Len(x)] # Dot,
           NEW d \in Cuts(x), NEW e \in Cuts(x), d < e, \A f \in Cuts(x) : ~(d < f /\ f < e), ~Label(x, d, e)
    PROVE  Bad(x)
<1>1. ~Labels(x)
  BY Zenon DEF Labels
<1>2. ~ValidName(x)
  BY <1>1, Undotted, Zenon
<1>3. ~IsIP(x)
  BY Colons, Zenon
<1> QED
  BY <1>2, <1>3, Zenon DEF Bad

\* So is one that is a single label and a bad one.
LEMMA WordBad ==
    ASSUME NEW x, NEW n \in Nat \ {0}, Short(x), Len(x) = n, x[1] # Colon, \A i \in 1..n : x[i] # Dot,
           ~Label(x, 0, n + 1)
    PROVE  Bad(x)
<1>1. DOMAIN x = 1..n /\ n \in 1..n /\ 0 < n + 1
  <2>1. x \in Seq(Byte)
    BY Zenon DEF Short
  <2> QED
    BY ONLY <2>1, Len(x) = n, n \in Nat \ {0}
<1>2. Cuts(x) = {0, n + 1}
  BY <1>1, Zenon DEF Cuts
<1>3. \A f \in Cuts(x) : ~(0 < f /\ f < n + 1)
  BY ONLY <1>2, n \in Nat \ {0}
<1>4. x[Len(x)] # Dot
  BY <1>1, Zenon
<1> QED
  BY <1>1, <1>2, <1>3, <1>4, LabelBad, Zenon

\* A name without a label is refused.
LEMMA EmptyBad == Bad(<<>>) /\ Bad(<<Dot>>)
<1> DEFINE x == <<>>
           y == <<Dot>>
<1>1. x \in Seq(Byte) /\ Len(x) = 0 /\ y = Append(x, Dot) /\ y[1] = Dot /\ Short(x) /\ Short(y)
  BY ONLY Chars DEF Short
<1>2. ~(Len(x) \in 1..253) /\ ~(Len(x) = 2)
  BY ONLY <1>1
<1>3. ~Labels(x)
  BY <1>2, Zenon DEF Labels
<1>4. ~ValidName(x)
  BY <1>3, Undotted, Zenon
<1> HIDE DEF x, y
<1>5. ~ValidName(y)
  BY <1>1, <1>3, Dotted, Zenon
<1>6. ~IsIP(x)
  BY <1>1, <1>2, IPLength, Zenon
<1>7. ~IsIP(y)
  BY <1>1, Colons, Chars, Zenon
<1>8. Bad(x) /\ Bad(y)
  BY ONLY <1>1, <1>4, <1>5, <1>6, <1>7, Zenon DEF Bad
<1> QED
  BY <1>8, Zenon DEF x, y

\* A dash at an end of a label is refused.
LEMMA DashBad == Bad(<<Dash, Letter>>) /\ Bad(<<Letter, Dash>>)
<1> DEFINE x == <<Dash, Letter>>
           y == <<Letter, Dash>>
<1>1. /\ Short(x) /\ Len(x) = 2 /\ x[1] = Dash /\ x[2] = Letter
      /\ Short(y) /\ Len(y) = 2 /\ y[1] = Letter /\ y[2] = Dash
  BY ONLY Chars DEF Short
<1> HIDE DEF x, y
<1>2. 2 \in Nat \ {0} /\ 1..2 = {1, 2} /\ 0 + 1 = 1 /\ 2 + 1 - 1 = 2
  OBVIOUS
<1>3. ~Label(x, 0, 2 + 1) /\ ~Label(y, 0, 2 + 1)
  BY ONLY <1>1 DEF Label
<1>4. (\A i \in 1..2 : x[i] # Dot) /\ (\A i \in 1..2 : y[i] # Dot) /\ x[1] # Colon /\ y[1] # Colon
  BY <1>1, <1>2, Chars, Zenon
<1>5. Bad(x)
  BY ONLY <1>1, <1>2, <1>3, <1>4, WordBad, Zenon
<1>6. Bad(y)
  BY ONLY <1>1, <1>2, <1>3, <1>4, WordBad, Zenon
<1> QED
  BY <1>5, <1>6, Zenon DEF x, y

\* A character that is not one of a name is refused.
LEMMA SpaceBad == Bad(<<Letter, Space>>)
<1> DEFINE x == <<Letter, Space>>
<1>1. /\ Short(x) /\ Len(x) = 2 /\ x[1] = Letter /\ x[2] = Space /\ 2 \in DOMAIN x
  BY ONLY Chars DEF Short
<1> HIDE DEF x
<1>2. ~Labels(x) /\ x[Len(x)] # Dot
  BY <1>1, Chars, Zenon DEF Labels
<1>3. ~ValidName(x) /\ ~IsIP(x)
  BY <1>1, <1>2, Undotted, Colons, Chars, Zenon
<1>4. Bad(x)
  BY ONLY <1>1, <1>3, Zenon DEF Bad
<1> QED
  BY <1>4, Zenon DEF x

\* An empty label is refused.
LEMMA DotsBad == Bad(<<Letter, Dot, Dot, Letter>>)
<1> DEFINE x == <<Letter, Dot, Dot, Letter>>
<1>1. Short(x) /\ Len(x) = 4 /\ x[1] = Letter /\ x[2] = Dot /\ x[3] = Dot /\ x[4] = Letter /\ DOMAIN x = 1..4
  BY ONLY Chars DEF Short
<1> HIDE DEF x
<1>2. 2 \in 1..4 /\ 3 \in 1..4 /\ 2 < 3 /\ ~(3 - 2 - 1 \in 1..63)
  OBVIOUS
<1>3. 2 \in Cuts(x) /\ 3 \in Cuts(x)
  BY <1>1, <1>2, Zenon DEF Cuts
<1>4. ASSUME NEW f \in Cuts(x) PROVE ~(2 < f /\ f < 3)
  <2>1. f = 0 \/ f = Len(x) + 1 \/ f \in 1..4
    BY <1>1, Zenon DEF Cuts
  <2> QED
    BY ONLY <1>1, <2>1
<1>5. ~Label(x, 2, 3)
  BY <1>2, Zenon DEF Label
<1>6. x[1] # Colon /\ x[Len(x)] # Dot
  BY <1>1, Chars, Zenon
<1>7. Bad(x)
  BY ONLY <1>1, <1>2, <1>3, <1>4, <1>5, <1>6, LabelBad, Zenon
<1> QED
  BY <1>7, Zenon DEF x

\* A label of 64 bytes is refused.
LEMMA LongLabelBad == Bad([i \in 1..64 |-> Letter])
<1> DEFINE n == 64
           x == [i \in 1..n |-> Letter]
<1>1. n \in Nat \ {0} /\ n <= 255 /\ 1 \in 1..n /\ ~(n + 1 - 0 - 1 \in 1..63)
  OBVIOUS
<1> HIDE DEF n
<1>2. \A i \in 1..n : x[i] = Letter
  BY Zenon
<1>3. Short(x) /\ Len(x) = n
  BY ONLY <1>1, Chars DEF Short
<1> HIDE DEF x
<1>4. ~Label(x, 0, n + 1)
  BY ONLY <1>1 DEF Label
<1>5. x[1] # Colon /\ \A i \in 1..n : x[i] # Dot
  BY <1>1, <1>2, Chars, Zenon
<1>6. Bad(x)
  BY ONLY <1>1, <1>3, <1>4, <1>5, WordBad, Zenon
<1> QED
  BY <1>6, Zenon DEF x, n

-----------------------------------------------------------------------------
\* The addresses that the run checks are among those: GoodAddresses are valid, BadAddresses not.

Portlike(p) == p \in Nat /\ p \div 256 \in Byte /\ p # 0

\* Ports at the edges of their two bytes.
LEMMA PortsAre == \A p \in {1, 255, 256, 443, 256 * 256 - 1} : Portlike(p)
  BY DEF Portlike, Byte

Fits(a) == a \in Addresses /\ a.port # 0

\* A name of at most 255 bytes with such a port has a form on the wire.
LEMMA NameFits ==
    ASSUME NEW h, Short(h), NEW p, Portlike(p)
    PROVE  LET a == Address(AtypDomain, h, p) IN Fits(a) /\ a.host = h /\ a.atyp = AtypDomain
<1> DEFINE a == Address(AtypDomain, h, p)
<1>1. a = [atyp |-> AtypDomain, host |-> h, port |-> p]
  BY Zenon DEF Address
<1>2. a.atyp = AtypDomain /\ a.host = h /\ a.port = p
  BY ONLY <1>1
<1>3. AtypIPv4 # AtypIPv6 /\ AtypIPv4 # AtypDomain /\ AtypIPv6 # AtypDomain
  BY DEF AtypIPv4, AtypIPv6, AtypDomain
<1>4. a \in [atyp : {AtypIPv4, AtypDomain, AtypIPv6}, host : Seq(Byte), port : Nat]
  <2>1. h \in Seq(Byte) /\ p \in Nat
    BY Zenon DEF Short, Portlike
  <2> QED
    BY ONLY <1>1, <2>1
<1> HIDE DEF a
<1>5. Fits(a)
  BY <1>2, <1>3, <1>4, Zenon DEF Fits, Addresses, Short, Portlike
<1> QED
  BY <1>2, <1>5, Zenon DEF a

\* An IP of either type with such a port is valid and has one.
LEMMA IPFits ==
    ASSUME NEW t \in {AtypIPv4, AtypIPv6}, NEW h \in Seq(Byte), NEW p, Portlike(p),
           t = AtypIPv4 => Len(h) = 4, t = AtypIPv6 => Len(h) = 16
    PROVE  Fits(Address(t, h, p)) /\ Validate(Address(t, h, p))
<1> DEFINE a == Address(t, h, p)
<1>1. a = [atyp |-> t, host |-> h, port |-> p]
  BY Zenon DEF Address
<1>2. a.atyp = t /\ a.host = h /\ a.port = p
  BY ONLY <1>1
<1>3. AtypIPv4 # AtypIPv6 /\ AtypIPv4 # AtypDomain /\ AtypIPv6 # AtypDomain
  BY DEF AtypIPv4, AtypIPv6, AtypDomain
<1>4. a \in [atyp : {AtypIPv4, AtypDomain, AtypIPv6}, host : Seq(Byte), port : Nat]
  <2>1. p \in Nat
    BY Zenon DEF Portlike
  <2> QED
    BY ONLY <1>1, <2>1, t \in {AtypIPv4, AtypIPv6}, h \in Seq(Byte)
<1> HIDE DEF a
<1>5. Fits(a) /\ Validate(a)
  BY <1>2, <1>3, <1>4, Zenon DEF Fits, Addresses, Portlike, Validate
<1> QED
  BY <1>5, Zenon DEF a

GoodNames ==
    {Name(1), Name(63), Name(253), Append(Name(253), Dot), <<Colon, Colon>>, <<Letter, Dash, Letter, Dot>>}

Taken(h) == Short(h) /\ (IsIP(h) \/ ValidName(h))

\* Validate takes the names of GoodAddresses.
LEMMA NamesGood == \A h \in GoodNames : Taken(h)
<1>1. 1 \in Lengths /\ 63 \in Lengths /\ 253 \in Lengths
  BY DEF Lengths
<1>2. \A n \in Lengths : Taken(Name(n)) /\ Taken(Append(Name(n), Dot))
  BY NameGood, Zenon DEF Good, Taken
<1>3. Short(<<Colon, Colon>>)
  BY Chars DEF Short
<1>4. Taken(<<Colon, Colon>>) /\ Taken(<<Letter, Dash, Letter, Dot>>)
  BY <1>3, DashedGood, Zenon DEF Good, Taken, IsIP
<1> DEFINE x == Name(1)
           y == Name(63)
           z == Name(253)
           w == Append(z, Dot)
<1>5. Taken(x) /\ Taken(y) /\ Taken(z) /\ Taken(w)
  BY ONLY <1>1, <1>2
<1>6. GoodNames = {x, y, z, w, <<Colon, Colon>>, <<Letter, Dash, Letter, Dot>>}
  BY ONLY Zenon DEF GoodNames
<1> HIDE DEF x, y, z, w
<1> QED
  BY ONLY <1>4, <1>5, <1>6, Zenon

\* Validate takes GoodAddresses, and they have a form on the wire.
LEMMA AddressesGood == \A a \in GoodAddresses : Fits(a) /\ Validate(a)
<1>1. ASSUME NEW p \in {1, 255, 256, 256 * 256 - 1}
      PROVE  LET a == Address(AtypIPv4, <<127, 0, 0, 1>>, p) IN Fits(a) /\ Validate(a)
  <2>1. Portlike(p)
    BY PortsAre
  <2>2. <<127, 0, 0, 1>> \in Seq(Byte) /\ Len(<<127, 0, 0, 1>>) = 4
    BY ONLY TRUE DEF Byte
  <2>3. AtypIPv4 # AtypIPv6
    BY DEF AtypIPv4, AtypIPv6
  <2> QED
    BY <2>1, <2>2, <2>3, IPFits, Zenon
<1>2. LET a == Address(AtypIPv6, [i \in 1..16 |-> 15 * i], 256) IN Fits(a) /\ Validate(a)
  <2> DEFINE h == [i \in 1..16 |-> 15 * i]
  <2>1. \A i \in 1..16 : 15 * i \in Byte
    BY DEF Byte
  <2>2. h \in Seq(Byte) /\ Len(h) = 16
    BY ONLY <2>1
  <2> HIDE DEF h
  <2>3. AtypIPv4 # AtypIPv6 /\ Portlike(256)
    BY PortsAre DEF AtypIPv4, AtypIPv6
  <2>4. \A p : Portlike(p) => Fits(Address(AtypIPv6, h, p)) /\ Validate(Address(AtypIPv6, h, p))
    BY <2>2, <2>3, IPFits, Zenon
  <2> QED
    BY ONLY <2>3, <2>4 DEF h
<1>3. ASSUME NEW h \in GoodNames
      PROVE  LET a == Address(AtypDomain, h, 443) IN Fits(a) /\ Validate(a)
  <2>1. Short(h) /\ (IsIP(h) \/ ValidName(h))
    BY NamesGood, Zenon DEF Taken
  <2>2. Portlike(443)
    BY PortsAre
  <2> QED
    BY <2>1, <2>2, NameFits DEF Validate
<1> QED
  BY <1>1, <1>2, <1>3 DEF GoodAddresses, GoodNames

\* Validate refuses the names of BadNames.
LEMMA NamesBad == \A h \in BadNames : Bad(h)
<1> DEFINE n == 254
           x == Name(n)
           y == Append(x, Dot)
           z == [i \in 1..64 |-> Letter]
<1>1. n \in Nat /\ n > 253 /\ n < 255 /\ n % 64 # 0
  OBVIOUS
<1>2. BadNames = {<<>>, <<Dot>>, <<Dash, Letter>>, <<Letter, Dash>>, <<Letter, Dot, Dot, Letter>>,
                  <<Letter, Space>>, z, x, y}
  BY ONLY Zenon DEF BadNames
<1>3. Bad(z)
  BY ONLY LongLabelBad, Zenon
<1> HIDE DEF n
<1>4. Bad(x) /\ Bad(y)
  BY ONLY <1>1, LongBad, Zenon
<1> HIDE DEF x, y, z
<1> QED
  BY ONLY <1>2, <1>3, <1>4, EmptyBad, DashBad, SpaceBad, DotsBad, Zenon

BadAddresses == {Address(AtypDomain, h, 443) : h \in BadNames}

\* Validate refuses addresses with them, although they have a form on the wire.
LEMMA AddressesBad == \A a \in BadAddresses : Fits(a) /\ ~Validate(a)
<1> DEFINE q == 443
<1>1. Portlike(q)
  BY PortsAre
<1>2. BadAddresses = {Address(AtypDomain, h, q) : h \in BadNames}
  BY ONLY Zenon DEF BadAddresses
<1> HIDE DEF q
<1>3. AtypIPv4 # AtypDomain /\ AtypIPv6 # AtypDomain
  BY DEF AtypIPv4, AtypIPv6, AtypDomain
<1>4. ASSUME NEW h \in BadNames PROVE Fits(Address(AtypDomain, h, q)) /\ ~Validate(Address(AtypDomain, h, q))
  <2> DEFINE a == Address(AtypDomain, h, q)
  <2>1. Bad(h)
    BY NamesBad, Zenon
  <2>2. Fits(a) /\ a.host = h /\ a.atyp = AtypDomain
    BY <1>1, <2>1, NameFits, Zenon DEF Bad
  <2> HIDE DEF a
  <2>3. ~Validate(a)
    BY <1>3, <2>1, <2>2, Zenon DEF Bad, Validate
  <2> QED
    BY <2>2, <2>3, Zenon DEF a
<1> QED
  BY <1>2, <1>4, Zenon

\* SessionIds are ids.
LEMMA IdsAre == SessionIds \subseteq Ids
<1>1. <<0>> \in Ids /\ <<127>> \in Ids /\ <<0, 1>> \in Ids
  BY DEF Ids, Digit
<1>2. ASSUME NEW m \in Digit PROVE [i \in 1..10 |-> IF i = 10 THEN 1 ELSE m] \in Ids
  <2> DEFINE s == [i \in 1..10 |-> IF i = 10 THEN 1 ELSE m]
  <2>1. 1 \in Digit /\ 10 \in 1..10
    BY DEF Digit
  <2>2. \A i \in 1..10 : s[i] \in Digit
    BY <2>1, Zenon
  <2>3. s[10] = 1
    BY <2>1, Zenon
  <2>4. s \in Seq(Digit) /\ Len(s) = 10
    BY ONLY <2>1, m \in Digit
  <2> HIDE DEF s
  <2>5. Len(s) \in 1..10 /\ s[10] <= 1
    BY ONLY <2>3, <2>4
  <2>6. s \in Ids
    BY <2>4, <2>5, Zenon DEF Ids
  <2> QED
    BY <2>6, Zenon DEF s
<1>3. 0 \in Digit /\ 127 \in Digit
  BY DEF Digit
<1> QED
  BY <1>1, <1>2, <1>3 DEF SessionIds

\* A payload of n bytes.
LEMMA PayloadIs == \A n \in Nat : Payload(n) \in Seq(Byte) /\ Len(Payload(n)) = n
  BY DEF Payload, Byte

\* The payloads that may pass, and one that is a byte too long.
LEMMA PayloadSizes ==
    /\ \A n \in {0, 1, 850} : n \in Nat /\ ~(n > MaxUDPPayload)
    /\ 851 \in Nat /\ 851 > MaxUDPPayload
  BY SMT DEF MaxUDPPayload

\* EnvelopeExact, from the round trips.
LEMMA EnvelopesExact == EnvelopeExact
<1>1. ASSUME NEW s \in SessionIds, NEW a \in GoodAddresses, NEW n \in Nat, ~(n > MaxUDPPayload)
      PROVE  LET p == Payload(n)
                 socks == ParseSOCKSUDP(BuildSOCKSUDP(a, p))
             IN  /\ socks = [ok |-> TRUE, addr |-> a, payload |-> p]
                 /\ DecodeDatagram(EncodeDatagram(s, socks.addr, socks.payload))
                       = [ok |-> TRUE, sid |-> s, addr |-> a, payload |-> p]
  <2> DEFINE p == Payload(n)
             socks == ParseSOCKSUDP(BuildSOCKSUDP(a, p))
  <2>2. p \in Seq(Byte) /\ ~(Len(p) > MaxUDPPayload)
    BY ONLY <1>1, PayloadIs, Zenon
  <2>3. a \in Addresses /\ a.port # 0 /\ Validate(a) /\ s \in Ids
    BY ONLY a \in GoodAddresses, s \in SessionIds, AddressesGood, IdsAre, Zenon DEF Fits
  <2> HIDE DEF p
  <2>4. socks = [ok |-> TRUE, addr |-> a, payload |-> p]
    BY ONLY <2>2, <2>3, SocksRoundTrip, Zenon
  <2> HIDE DEF socks
  <2>5. socks.addr = a /\ socks.payload = p
    BY ONLY <2>4
  <2>6. DecodeDatagram(EncodeDatagram(s, a, p)) = [ok |-> TRUE, sid |-> s, addr |-> a, payload |-> p]
    BY ONLY <2>2, <2>3, EnvelopeRoundTrip, Zenon
  <2> QED
    BY ONLY <2>4, <2>5, <2>6, Zenon DEF socks, p
<1> DEFINE sizes == {0, 1, 850}
<1>2. \A n \in sizes : n \in Nat /\ ~(n > MaxUDPPayload)
  BY PayloadSizes
<1>3. EnvelopeExact <=>
         \A s \in SessionIds, a \in GoodAddresses, n \in sizes :
            LET p == Payload(n)
                socks == ParseSOCKSUDP(BuildSOCKSUDP(a, p))
            IN  /\ socks = [ok |-> TRUE, addr |-> a, payload |-> p]
                /\ DecodeDatagram(EncodeDatagram(s, socks.addr, socks.payload))
                      = [ok |-> TRUE, sid |-> s, addr |-> a, payload |-> p]
  BY ONLY Zenon DEF EnvelopeExact
<1> HIDE DEF sizes
<1> QED
  BY ONLY <1>1, <1>2, <1>3, Zenon

\* RefusalExact, from the round trips, the cut envelopes and the two decoders.
LEMMA RefusalsExact == RefusalExact
<1>1. ~Fail.ok
  BY Zenon DEF Fail
<1>2. ASSUME NEW a \in GoodAddresses
      PROVE  /\ ~DecodeDatagram(EncodeDatagram(<<0>>, a, Payload(851))).ok
             /\ ~ParseSOCKSUDP(BuildSOCKSUDP(a, Payload(851))).ok
             /\ \A k \in 0..(2 + Len(Encode(a))) :
                   ~DecodeDatagram(SubSeq(EncodeDatagram(<<0, 1>>, a, <<>>), 1, k)).ok
             /\ ReadStreamRequest(WriteRequest(1, 1, a)) = [ok |-> TRUE, cmd |-> 1, flags |-> 1, addr |-> a]
  <2>1. a \in Addresses /\ Validate(a)
    BY AddressesGood, Zenon DEF Fits
  <2>2. ASSUME NEW p \in Seq(Byte), Len(p) > MaxUDPPayload
        PROVE  /\ ~DecodeDatagram(EncodeDatagram(<<0>>, a, p)).ok
               /\ ~ParseSOCKSUDP(BuildSOCKSUDP(a, p)).ok
    <3>1. <<0>> \in Ids
      BY IdsAre, Zenon DEF SessionIds
    <3>2. DecodeDatagram(EncodeDatagram(<<0>>, a, p)) = Fail
      BY <2>1, <2>2, <3>1, EnvelopeRoundTrip, Zenon
    <3>3. ParseSOCKSUDP(BuildSOCKSUDP(a, p)) = Fail
      BY <2>1, <2>2, SocksRoundTrip, Zenon
    <3> QED
      BY <1>1, <3>2, <3>3, Zenon
  <2>3. Payload(851) \in Seq(Byte) /\ Len(Payload(851)) > MaxUDPPayload
    BY PayloadIs, PayloadSizes
  <2>4. ASSUME NEW k \in 0..(2 + Len(Encode(a)))
        PROVE  ~DecodeDatagram(SubSeq(EncodeDatagram(<<0, 1>>, a, <<>>), 1, k)).ok
    <3>1. <<0, 1>> \in Ids
      BY IdsAre, Zenon DEF SessionIds
    <3>2. Len(<<0, 1>>) = 2 /\ <<>> \in Seq(Byte)
      OBVIOUS
    <3>3. DecodeDatagram(SubSeq(EncodeDatagram(<<0, 1>>, a, <<>>), 1, k)) = Fail
      BY <2>1, <3>1, <3>2, CutEnvelopeRefused, Zenon
    <3> QED
      BY <1>1, <3>3, Zenon
  <2>5. 1 \in Byte
    BY DEF Byte
  <2>6. ReadStreamRequest(WriteRequest(1, 1, a)) = [ok |-> TRUE, cmd |-> 1, flags |-> 1, addr |-> a]
    BY <2>1, <2>5, RequestRoundTrip, Zenon
  <2> QED
    BY <2>2, <2>3, <2>4, <2>6
<1>3. ASSUME NEW a \in GoodAddresses \cup BadAddresses,
             NEW k \in 0..Len(Encode(a))
      PROVE  LET b == SubSeq(Encode(a), 1, k)
             IN  /\ ReadAddress(b) = DecodeAddress(b)
                 /\ DecodeAddress(b).ok <=> k = Len(Encode(a)) /\ a \in GoodAddresses
  <2> DEFINE e == Encode(a)
             b == SubSeq(e, 1, k)
  <2>1. a \in Addresses /\ (Validate(a) <=> a \in GoodAddresses)
    <3>1. CASE a \in GoodAddresses
      BY <3>1, AddressesGood, Zenon DEF Fits
    <3>2. CASE a \in BadAddresses
      BY <3>2, AddressesGood, AddressesBad, Zenon DEF Fits
    <3> QED
      BY <3>1, <3>2, Zenon
  <2>2. e \in Seq(Byte) /\ k \in 0..Len(e)
    BY <2>1, EncodeShape, Zenon DEF Encoded
  <2> HIDE DEF e
  <2>3. b \in Seq(Byte) /\ Len(b) = k /\ \A i \in 1..k : b[i] = e[i]
    BY ONLY <2>2
  <2> HIDE DEF b
  <2>4. ReadAddress(b) = DecodeAddress(b)
    BY <2>3, DecodersAgree, Zenon
  <2>5. CASE k = Len(e)
    <3>1. Len(b) >= Len(e)
      BY ONLY <2>2, <2>3, <2>5
    <3>2. Front(b, Encode(a))
      BY <2>3, <2>5, <3>1, Zenon DEF Front, e
    <3>3. DecodeAddress(b) = IF Validate(a) THEN Decoded(a) ELSE Fail
      BY <2>1, <2>3, <3>2, DecodeFront, Zenon
    <3>4. Decoded(a).ok
      BY Zenon DEF Decoded
    <3>5. DecodeAddress(b).ok <=> k = Len(e) /\ a \in GoodAddresses
      BY <1>1, <2>1, <2>5, <3>3, <3>4, Zenon
    <3> QED
      BY <2>4, <3>5, Zenon DEF b, e
  <2>6. CASE k # Len(e)
    <3>1. Len(b) < Len(e) /\ Len(e) >= Len(b)
      BY ONLY <2>2, <2>3, <2>6
    <3>2. Front(Encode(a), b) /\ Len(b) < Len(Encode(a))
      BY <2>3, <3>1, Zenon DEF Front, e
    <3>3. DecodeAddress(b) = Fail
      BY <2>1, <2>3, <3>2, DecodeCut, Zenon
    <3>4. ~DecodeAddress(b).ok
      BY <1>1, <3>3, Zenon
    <3> QED
      BY <2>4, <2>6, <3>4, Zenon DEF b, e
  <2> QED
    BY <2>5, <2>6, Zenon
<1> QED
  BY ONLY <1>2, <1>3, Zenon DEF RefusalExact, BadAddresses

\* DatagramsExact: whatever an association carries keeps its form and what has not the form is
\* refused. The run evaluates it on a few addresses; here it follows from the theorems above,
\* which hold for every address, id and payload.
THEOREM DatagramForms == AssociationSpec => []DatagramsExact
<1>1. DatagramsExact
  BY EnvelopesExact, RefusalsExact, Zenon DEF DatagramsExact
<1> QED
  BY <1>1, PTL

=============================================================================
