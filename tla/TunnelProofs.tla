---------------------------- MODULE TunnelProofs ----------------------------
(***************************************************************************)
(* The two ends of a tunnel, and a request through it. The configuration   *)
(* files of both ends, for any text and any numbers in them (Config). The  *)
(* rotation of their credentials, for any number of clients and any length *)
(* of time (Rotation): the files that are in force, read and asked for     *)
(* serve every client (RotationInv), so none is locked out.                *)
(*                                                                         *)
(* And a forwarded HTTP request (HttpExchange), for any number of frames   *)
(* and any sizes. Its three parts, the opening of the stream, the          *)
(* connection over it and the request's body, share no variables: each has *)
(* an inductive invariant, kept by its own steps, and a step of the        *)
(* composition is a step of one of them and leaves the others alone.       *)
(***************************************************************************)
EXTENDS Rotation, HttpExchange, TLAPS

-----------------------------------------------------------------------------
\* Configuration files

\* The table of limits is in order: every least value is positive, every default in its range.
LEMMA BoundsOrdered ==
    \A f \in ServerLimits \cup ClientLimits :
        /\ Bounds[f][1] \in Int /\ Bounds[f][2] \in Int /\ Bounds[f][3] \in Int
        /\ 1 <= Bounds[f][2] /\ Bounds[f][2] <= Bounds[f][1] /\ Bounds[f][1] <= Bounds[f][3]
  BY DEF ServerLimits, ClientLimits, CommonLimits, Bounds

LEMMA BoundsUsed ==
    /\ Bounds["MaxCompressedStreams"][2] = 1 /\ Bounds["MaxCompressedStreams"][3] = 128
    /\ Bounds["MaxActiveStreams"][1] = 128
    /\ Bounds["MaxActiveStreams"][2] = 1 /\ Bounds["MaxActiveStreams"][3] = 4096
    /\ Bounds["IdleTimeoutSec"][2] = 5
  BY DEF Bounds

\* The numbers of a file, filled in: loaded again they stay; zero may replace any of them.
LEMMA FilledTwice ==
    ASSUME NEW L \in SUBSET (ServerLimits \cup ClientLimits), NEW lim \in [L -> Int],
           CommonLimits \subseteq L, ValidLimits(Filled(lim))
    PROVE  /\ Filled(lim) \in [L -> Int] /\ Filled(Filled(lim)) = Filled(lim)
           /\ \A f \in L : Filled(lim)[f] >= Bounds[f][2]
<1>1. Filled(lim) = [f \in L |-> Filled(lim)[f]]
  BY DEF Filled
<1>2. ASSUME NEW f \in L PROVE Filled(lim)[f] \in Int /\ Filled(lim)[f] >= Bounds[f][2] /\ Filled(lim)[f] # 0
  BY <1>1, BoundsOrdered DEF ValidLimits, InRange
<1>3. ASSUME NEW f \in L PROVE Filled(Filled(lim))[f] = Filled(lim)[f]
  <2> DEFINE m == Filled(lim)
  <2>1. m \in [L -> Int] /\ m[f] # 0
    BY <1>1, <1>2
  <2> HIDE DEF m
  <2> QED
    BY <2>1 DEF Filled, Or, m
<1>4. Filled(Filled(lim)) = [f \in L |-> Filled(Filled(lim))[f]]
  <2> DEFINE m == Filled(lim)
  <2>1. DOMAIN m = L
    BY <1>1
  <2> HIDE DEF m
  <2> QED
    BY <2>1 DEF Filled, m
<1> QED
  BY <1>1, <1>2, <1>3, <1>4

\* What Filled makes of each number.
LEMMA FilledAt ==
    ASSUME NEW L, NEW m, DOMAIN m = L, CommonLimits \subseteq L
    PROVE  /\ DOMAIN Filled(m) = L
           /\ Filled(m)["MaxActiveStreams"] = Or(m["MaxActiveStreams"], 128)
           /\ Filled(m)["MaxCompressedStreams"] =
                 Or(m["MaxCompressedStreams"], Least(16, Filled(m)["MaxActiveStreams"]))
           /\ \A f \in L \ {"MaxCompressedStreams"} : Filled(m)[f] = Or(m[f], Bounds[f][1])
<1>1. "MaxActiveStreams" \in L /\ "MaxCompressedStreams" \in L
  BY DEF CommonLimits
<1> QED
  BY <1>1, BoundsUsed DEF Filled

LEMMA FilledFromZero ==
    ASSUME NEW L \in SUBSET (ServerLimits \cup ClientLimits), NEW lim \in [L -> Int],
           CommonLimits \subseteq L, ValidLimits(Filled(lim)), NEW z \in L
    PROVE  ValidLimits(Filled([lim EXCEPT ![z] = 0]))
<1> DEFINE m == [lim EXCEPT ![z] = 0]
<1>1. /\ m \in [L -> Int] /\ m[z] = 0 /\ \A f \in L \ {z} : m[f] = lim[f]
      /\ "MaxActiveStreams" \in L /\ "MaxCompressedStreams" \in L
  BY DEF CommonLimits
<1> HIDE DEF m
<1>2. \A f \in L : Filled(lim)[f] \in Bounds[f][2]..Bounds[f][3]
  <2>1. DOMAIN Filled(lim) = L
    BY FilledAt
  <2> QED
    BY <2>1, Zenon DEF ValidLimits, InRange
<1>3. ASSUME NEW f \in L \ {"MaxCompressedStreams"}
      PROVE  Filled(m)[f] \in {Filled(lim)[f], Bounds[f][1]}
  <2>1. Filled(m)[f] = Or(m[f], Bounds[f][1]) /\ Filled(lim)[f] = Or(lim[f], Bounds[f][1])
    BY <1>1, FilledAt
  <2> QED
    BY <1>1, <2>1 DEF Or
<1> DEFINE most == Filled(lim)["MaxActiveStreams"]
           coded == Filled(lim)["MaxCompressedStreams"]
<1>4. most \in Int /\ 1 <= most /\ coded \in 1..128 /\ coded <= most
  <2>1. /\ most \in Bounds["MaxActiveStreams"][2]..Bounds["MaxActiveStreams"][3]
        /\ coded \in Bounds["MaxCompressedStreams"][2]..Bounds["MaxCompressedStreams"][3]
        /\ coded <= most
    BY <1>1, <1>2, Zenon DEF ValidLimits
  <2> HIDE DEF most, coded
  <2>2. most \in Int /\ 1 <= most
    <3>1. ASSUME NEW a, NEW b \in Int, a = 1, NEW x \in a..b PROVE x \in Int /\ 1 <= x
      BY <3>1
    <3>2. Bounds["MaxActiveStreams"][2] = 1 /\ Bounds["MaxActiveStreams"][3] \in Int
      BY BoundsUsed
    <3> QED
      BY <2>1, <3>1, <3>2, Zenon
  <2>3. coded \in 1..128
    <3>1. Bounds["MaxCompressedStreams"][2] = 1 /\ Bounds["MaxCompressedStreams"][3] = 128
      BY BoundsUsed
    <3> QED
      BY <2>1, <3>1, Zenon
  <2> QED
    BY <2>1, <2>2, <2>3, Zenon
<1>5. /\ Filled(m)["MaxActiveStreams"] \in Int
      /\ Filled(m)["MaxActiveStreams"] = most \/ Filled(m)["MaxActiveStreams"] = 128
  <2>1. Filled(m)["MaxActiveStreams"] \in {most, Bounds["MaxActiveStreams"][1]}
    BY <1>1, <1>3, Zenon
  <2> HIDE DEF most
  <2> QED
    BY <1>4, <2>1, BoundsUsed
<1>6. /\ Filled(m)["MaxCompressedStreams"] \in Int
      /\ \/ Filled(m)["MaxCompressedStreams"] = coded
         \/ Filled(m)["MaxCompressedStreams"] = Least(16, Filled(m)["MaxActiveStreams"])
  <2>1. /\ Filled(m)["MaxCompressedStreams"] =
              Or(m["MaxCompressedStreams"], Least(16, Filled(m)["MaxActiveStreams"]))
        /\ coded = Or(lim["MaxCompressedStreams"], Least(16, most))
    BY <1>1, FilledAt
  <2> HIDE DEF coded
  <2> QED
    BY <1>1, <1>4, <1>5, <2>1 DEF Or, Least
<1>7. /\ Filled(m)["MaxCompressedStreams"] \in 1..128
      /\ Filled(m)["MaxCompressedStreams"] <= Filled(m)["MaxActiveStreams"]
  <2> HIDE DEF most, coded
  <2> QED
    BY <1>4, <1>5, <1>6 DEF Least
<1>8. ASSUME NEW f \in L PROVE Filled(m)[f] \in Bounds[f][2]..Bounds[f][3]
  <2>1. CASE f = "MaxCompressedStreams"
    BY <1>7, <2>1, BoundsUsed
  <2>2. CASE f # "MaxCompressedStreams"
    BY <1>2, <1>3, <2>2, BoundsOrdered
  <2> QED
    BY <2>1, <2>2
<1> QED
  <2>1. DOMAIN m = L
    BY <1>1
  <2>2. DOMAIN Filled(m) = L
    BY <2>1, FilledAt, Zenon
  <2> QED
    BY <1>7, <1>8, <2>2, Zenon DEF ValidLimits, InRange, m

\* A file without numbers has valid ones.
LEMMA DefaultsValid ==
    ASSUME NEW L \in SUBSET (ServerLimits \cup ClientLimits), CommonLimits \subseteq L
    PROVE  ValidLimits(Filled([f \in L |-> 0]))
<1> DEFINE m == [f \in L |-> 0]
<1>1. /\ DOMAIN m = L /\ \A f \in L : m[f] = 0
      /\ "MaxActiveStreams" \in L /\ "MaxCompressedStreams" \in L
  BY DEF CommonLimits
<1> HIDE DEF m
<1>2. /\ DOMAIN Filled(m) = L /\ Filled(m)["MaxCompressedStreams"] = 16
      /\ Filled(m)["MaxActiveStreams"] = 128
      /\ \A f \in L \ {"MaxCompressedStreams"} : Filled(m)[f] = Bounds[f][1]
  BY <1>1, BoundsUsed DEF Filled, Or, Least
<1>3. ASSUME NEW f \in L PROVE Filled(m)[f] \in Bounds[f][2]..Bounds[f][3]
  <2>1. CASE f = "MaxCompressedStreams"
    BY <1>2, <2>1, BoundsUsed
  <2>2. CASE f # "MaxCompressedStreams"
    BY <1>2, <2>2, BoundsOrdered
  <2> QED
    BY <2>1, <2>2
<1> QED
  BY <1>2, <1>3 DEF ValidLimits, InRange, m

-----------------------------------------------------------------------------
\* Every file of a server and of a client that decodes: any numbers, and texts of any set.
ServerFiles(Texts) ==
    [yaml : Texts, psk : Texts, previous : Texts, previousExpires : Int, listen : Texts,
     metrics : Texts, alpn : Texts, cert : Texts, key : Texts, ephemeral : BOOLEAN,
     decoy : Texts, decoyDir : Texts, decoyUpstream : Texts, ports : SUBSET Int, congestion : Texts,
     lim : [ServerLimits -> Int], streamWindow : Int, connWindow : Int]

ClientFiles(Texts) ==
    [yaml : Texts, server : Texts, psk : Texts, pin : Texts, next : Texts,
     nextExpires : Int, metrics : Texts, alpn : Texts, socks : Texts, http : Texts,
     remote : BOOLEAN, congestion : Texts, compression : BOOLEAN,
     lim : [ClientLimits -> Int], streamWindow : Int, connWindow : Int]

\* What the numbers of a loaded file promise to the constructors.
LEMMA ServerNumbers ==
    ASSUME NEW lim \in [ServerLimits -> Int], ValidLimits(Filled(lim))
    PROVE  /\ Filled(lim) \in [ServerLimits -> Int] /\ Filled(Filled(lim)) = Filled(lim)
           /\ Least(Filled(lim)["Workers"], Filled(lim)["MaxFlows"]) \in 1..Filled(lim)["MaxFlows"]
           /\ Filled(lim)["IdleTimeoutSec"] >= 5
           /\ \A f \in ServerLimits : ValidLimits(Filled([lim EXCEPT ![f] = 0]))
<1>1. /\ ServerLimits \in SUBSET (ServerLimits \cup ClientLimits) /\ CommonLimits \subseteq ServerLimits
      /\ {"Workers", "MaxFlows", "IdleTimeoutSec"} \subseteq ServerLimits
  BY DEF ServerLimits, CommonLimits
<1>2. \A f \in ServerLimits : ValidLimits(Filled([lim EXCEPT ![f] = 0]))
  BY <1>1, FilledFromZero, Zenon
<1>3. /\ Filled(lim) \in [ServerLimits -> Int] /\ Filled(Filled(lim)) = Filled(lim)
      /\ \A f \in ServerLimits : Filled(lim)[f] >= Bounds[f][2]
  BY <1>1, FilledTwice, Zenon
<1>4. Filled(lim)["Workers"] >= 1 /\ Filled(lim)["MaxFlows"] >= 1 /\ Filled(lim)["IdleTimeoutSec"] >= 5
  BY <1>1, <1>3, BoundsOrdered, BoundsUsed
<1> QED
  BY <1>1, <1>2, <1>3, <1>4 DEF Least

LEMMA ClientNumbers ==
    ASSUME NEW lim \in [ClientLimits -> Int], ValidLimits(Filled(lim))
    PROVE  /\ Filled(lim) \in [ClientLimits -> Int] /\ Filled(Filled(lim)) = Filled(lim)
           /\ Filled(lim)["MaxActiveStreams"] >= 1 /\ Filled(lim)["MaxCompressedStreams"] >= 1
           /\ \A f \in ClientLimits : ValidLimits(Filled([lim EXCEPT ![f] = 0]))
<1>1. /\ ClientLimits \in SUBSET (ServerLimits \cup ClientLimits) /\ CommonLimits \subseteq ClientLimits
      /\ {"MaxActiveStreams", "MaxCompressedStreams"} \subseteq ClientLimits
  BY DEF ClientLimits, CommonLimits
<1>2. \A f \in ClientLimits : ValidLimits(Filled([lim EXCEPT ![f] = 0]))
  BY <1>1, FilledFromZero, Zenon
<1>3. /\ Filled(lim) \in [ClientLimits -> Int] /\ Filled(Filled(lim)) = Filled(lim)
      /\ \A f \in ClientLimits : Filled(lim)[f] >= Bounds[f][2]
  BY <1>1, FilledTwice, Zenon
<1> QED
  BY <1>1, <1>2, <1>3, BoundsUsed

-----------------------------------------------------------------------------
\* Two files that differ in what LoadServer fills in, or in their numbers, load alike.
LEMMA ServerLoadsToo ==
    ASSUME NEW c, NEW d, NEW t, NEW w, LoadServer(c, t, w), ValidLimits(LoadedServer(d).lim),
           d.yaml = c.yaml, d.psk = c.psk, d.previous = c.previous,
           d.previousExpires = c.previousExpires, d.metrics = c.metrics, d.alpn = c.alpn,
           d.ephemeral = c.ephemeral, d.decoyUpstream = c.decoyUpstream, d.ports = c.ports,
           (d.cert = "none") <=> (c.cert = "none"), (d.key = "none") <=> (c.key = "none"),
           LoadedServer(d).decoyDir = LoadedServer(c).decoyDir,
           d.streamWindow = c.streamWindow, d.connWindow = c.connWindow,
           LoadedServer(d).listen = LoadedServer(c).listen,
           LoadedServer(d).decoy = LoadedServer(c).decoy,
           LoadedServer(d).congestion = LoadedServer(c).congestion
    PROVE  LoadServer(d, t, w)
<1>1. ValidateCommon(d)
  <2>1. ValidateCommon(c)
    BY Zenon DEF LoadServer
  <2> QED
    BY <2>1 DEF ValidateCommon
<1> QED
  BY <1>1, Zenon DEF LoadServer

\* A name that is joined is absolute, and a name is empty before it is joined or never.
LEMMA Joins ==
    ASSUME NEW p
    PROVE  /\ Join(Join(p)) = Join(p) /\ (Join(p) = "none" <=> p = "none")
           /\ Join(p) \in {p, "dir/v1", "dir/v2", "dir/site"}
  BY DEF Join, Joined

\* LoadedServer changes seven fields.
LEMMA ServerLoaded ==
    ASSUME NEW Texts, NEW c \in ServerFiles(Texts)
    PROVE  LET l == LoadedServer(c) IN
           /\ DOMAIN l = DOMAIN c
           /\ l.listen = (IF c.listen = "none" THEN "good" ELSE c.listen)
           /\ l.decoy = (IF c.decoy = "none" THEN "off" ELSE c.decoy)
           /\ l.congestion = (IF c.congestion = "none" THEN "reno" ELSE c.congestion)
           /\ l.lim = Filled(c.lim)
           /\ l.yaml = c.yaml /\ l.psk = c.psk /\ l.previous = c.previous
           /\ l.previousExpires = c.previousExpires /\ l.metrics = c.metrics /\ l.alpn = c.alpn
           /\ l.cert = Join(c.cert) /\ l.key = Join(c.key) /\ l.decoyDir = Join(c.decoyDir)
           /\ l.ephemeral = c.ephemeral /\ l.decoyUpstream = c.decoyUpstream /\ l.ports = c.ports
           /\ l.streamWindow = c.streamWindow /\ l.connWindow = c.connWindow
  BY DEF ServerFiles, LoadedServer

LEMMA WindowsValid ==
    ASSUME NEW c, c.streamWindow \in Int, c.connWindow \in Int, ValidateCommon(c)
    PROVE  /\ c.streamWindow \in Nat /\ c.connWindow \in Nat
           /\ Or(c.connWindow, 24) >= Or(c.streamWindow, 16)
  BY DEF ValidateCommon

\* The QUIC windows and times of a valid file are in order, whichever of them are left out.
LEMMA QUICInOrder ==
    ASSUME NEW l, l.streamWindow \in Nat, l.connWindow \in Nat,
           Or(l.connWindow, 24) >= Or(l.streamWindow, 16),
           l.lim.IdleTimeoutSec \in Int, l.lim.IdleTimeoutSec >= 5
    PROVE  LET q == NewQUICConfig(l)
           IN  /\ q.initialStream <= q.maxStream /\ q.maxStream <= q.maxConn
               /\ q.initialStream <= q.initialConn /\ q.initialConn <= q.maxConn
               /\ q.keepAlive \in 1..(q.idle - 1)
<1> DEFINE stream == Or(l.streamWindow, 16)
           conn == Or(l.connWindow, 24)
           q == NewQUICConfig(l)
<1>1. stream \in Int /\ conn \in Int /\ 1 <= stream /\ stream <= conn
  <2>1. \A v \in Nat : Or(v, 16) \in Int /\ 1 <= Or(v, 16) /\ Or(v, 24) \in Int
    BY DEF Or
  <2> QED
    BY <2>1
<1>2. /\ q.maxStream = 1024 * stream /\ q.maxConn = 1024 * conn
      /\ q.initialStream = Least(512, 1024 * stream) /\ q.initialConn = Least(768, 1024 * conn)
      /\ q.idle = l.lim.IdleTimeoutSec /\ q.keepAlive = l.lim.IdleTimeoutSec \div 3
  BY DEF NewQUICConfig
<1> HIDE DEF stream, conn, q
<1>3. /\ Least(512, 1024 * stream) <= 1024 * stream /\ 1024 * stream <= 1024 * conn
      /\ Least(512, 1024 * stream) <= Least(768, 1024 * conn)
      /\ Least(768, 1024 * conn) <= 1024 * conn
  BY <1>1 DEF Least
<1>4. l.lim.IdleTimeoutSec \div 3 \in 1..(l.lim.IdleTimeoutSec - 1)
  OBVIOUS
<1> QED
  BY <1>2, <1>3, <1>4 DEF q

\* What LoadServer makes of any file, on any day: ServerSound.
THEOREM ServerFilesSound ==
    ASSUME NEW Texts, {"good", "off", "reno", "dir/v1", "dir/v2", "dir/site"} \subseteq Texts
    PROVE  \A c \in ServerFiles(Texts) : \A t, w \in Int : ServerSound(c, t, w)
<1> SUFFICES ASSUME NEW c \in ServerFiles(Texts), NEW t \in Int, NEW w \in Int, LoadServer(c, t, w)
             PROVE  LET l == LoadedServer(c)
                        q == NewQUICConfig(l)
                    IN  /\ LoadServer(l, t, w) /\ LoadedServer(l) = l
                        /\ \A f \in DOMAIN c.lim : LoadServer([c EXCEPT !.lim[f] = 0], t, w)
                        /\ Workers(l) \in 1..l.lim.MaxFlows
                        /\ q.initialStream <= q.maxStream /\ q.maxStream <= q.maxConn
                        /\ q.initialStream <= q.initialConn /\ q.initialConn <= q.maxConn
                        /\ q.keepAlive \in 1..(q.idle - 1)
  BY Zenon DEF ServerSound
<1> DEFINE l == LoadedServer(c)
           q == NewQUICConfig(l)
<1>1. c.lim \in [ServerLimits -> Int] /\ c.streamWindow \in Int /\ c.connWindow \in Int
  BY DEF ServerFiles
<1>2. ValidLimits(Filled(c.lim)) /\ ValidateCommon(c)
  BY ServerLoaded, Zenon DEF LoadServer
<1>3. l \in ServerFiles(Texts) /\ Filled(l.lim) = l.lim
  <2>1. Filled(c.lim) \in [ServerLimits -> Int] /\ Filled(Filled(c.lim)) = Filled(c.lim)
    BY <1>1, <1>2, ServerNumbers, Zenon
  <2>2. l \in ServerFiles(Texts)
    <3> DEFINE listen == IF c.listen = "none" THEN "good" ELSE c.listen
               decoy == IF c.decoy = "none" THEN "off" ELSE c.decoy
               congestion == IF c.congestion = "none" THEN "reno" ELSE c.congestion
               lim == Filled(c.lim)
               cert == Join(c.cert)
               key == Join(c.key)
               dir == Join(c.decoyDir)
    <3>1. l = [c EXCEPT !.listen = listen, !.cert = cert, !.key = key, !.decoyDir = dir,
                        !.decoy = decoy, !.congestion = congestion, !.lim = lim]
      BY DEF LoadedServer
    <3>2. listen \in Texts /\ decoy \in Texts /\ congestion \in Texts
      BY Zenon DEF ServerFiles
    <3>3. cert \in Texts /\ key \in Texts /\ dir \in Texts
      <4>1. \A p \in Texts : Join(p) \in Texts
        BY Joins
      <4> QED
        BY <4>1, Zenon DEF ServerFiles
    <3> HIDE DEF listen, decoy, congestion, lim, cert, key, dir, l
    <3> QED
      BY <2>1, <3>1, <3>2, <3>3, Zenon DEF ServerFiles, lim
  <2> QED
    BY <2>1, <2>2, ServerLoaded, Zenon
<1>4. LoadedServer(l) = l
  <2>1. l.listen # "none" /\ l.decoy # "none" /\ l.congestion # "none"
    BY ServerLoaded
  <2>2. Join(l.cert) = l.cert /\ Join(l.key) = l.key /\ Join(l.decoyDir) = l.decoyDir
    <3>1. l.cert = Join(c.cert) /\ l.key = Join(c.key) /\ l.decoyDir = Join(c.decoyDir)
      BY ServerLoaded, Zenon
    <3>2. \A p : Join(Join(p)) = Join(p)
      BY Joins, Zenon
    <3> HIDE DEF l
    <3> QED
      BY <3>1, <3>2, Zenon
  <2> HIDE DEF l
  <2> QED
    BY <1>3, <2>1, <2>2, Zenon DEF ServerFiles, LoadedServer
<1>5. LoadServer(l, t, w)
  <2>1. ValidLimits(LoadedServer(l).lim)
    BY <1>2, <1>4, ServerLoaded, Zenon
  <2>2. /\ l.yaml = c.yaml /\ l.psk = c.psk /\ l.previous = c.previous
        /\ l.previousExpires = c.previousExpires /\ l.metrics = c.metrics /\ l.alpn = c.alpn
        /\ l.ephemeral = c.ephemeral
        /\ l.decoyUpstream = c.decoyUpstream /\ l.ports = c.ports
        /\ l.streamWindow = c.streamWindow /\ l.connWindow = c.connWindow
    BY ServerLoaded, Zenon
  <2>3. (l.cert = "none" <=> c.cert = "none") /\ (l.key = "none" <=> c.key = "none")
    <3>1. l.cert = Join(c.cert) /\ l.key = Join(c.key)
      BY ServerLoaded, Zenon
    <3> HIDE DEF l
    <3> QED
      BY <3>1, Joins, Zenon
  <2>4. /\ LoadedServer(l).listen = l.listen /\ LoadedServer(l).decoy = l.decoy
        /\ LoadedServer(l).congestion = l.congestion /\ LoadedServer(l).decoyDir = l.decoyDir
    BY <1>4, Zenon
  <2> QED
    BY <2>1, <2>2, <2>3, <2>4, ServerLoadsToo, Zenon
<1>6. ASSUME NEW f \in DOMAIN c.lim PROVE LoadServer([c EXCEPT !.lim[f] = 0], t, w)
  <2> DEFINE d == [c EXCEPT !.lim[f] = 0]
  <2>1. d \in ServerFiles(Texts) /\ d.lim = [c.lim EXCEPT ![f] = 0] /\ f \in ServerLimits
    BY <1>1 DEF ServerFiles
  <2>2. /\ d.yaml = c.yaml /\ d.psk = c.psk /\ d.previous = c.previous /\ d.listen = c.listen
        /\ d.previousExpires = c.previousExpires /\ d.metrics = c.metrics /\ d.alpn = c.alpn
        /\ d.cert = c.cert /\ d.key = c.key /\ d.ephemeral = c.ephemeral /\ d.decoy = c.decoy
        /\ d.decoyDir = c.decoyDir /\ d.decoyUpstream = c.decoyUpstream
        /\ d.ports = c.ports /\ d.congestion = c.congestion
        /\ d.streamWindow = c.streamWindow /\ d.connWindow = c.connWindow
    BY DEF ServerFiles
  <2> HIDE DEF d
  <2>3. ValidLimits(LoadedServer(d).lim)
    <3>1. LoadedServer(d).lim = Filled(d.lim)
      BY <2>1, ServerLoaded, Zenon
    <3>2. ValidLimits(Filled([c.lim EXCEPT ![f] = 0]))
      BY <1>1, <1>2, <2>1, ServerNumbers, Zenon
    <3> QED
      BY <2>1, <3>1, <3>2, Zenon
  <2>4. LoadServer(d, t, w)
    <3>1. /\ LoadedServer(d).listen = LoadedServer(c).listen
          /\ LoadedServer(d).decoy = LoadedServer(c).decoy
          /\ LoadedServer(d).congestion = LoadedServer(c).congestion
          /\ LoadedServer(d).decoyDir = LoadedServer(c).decoyDir
      <4>1. /\ LoadedServer(c).listen = (IF c.listen = "none" THEN "good" ELSE c.listen)
            /\ LoadedServer(c).decoy = (IF c.decoy = "none" THEN "off" ELSE c.decoy)
            /\ LoadedServer(c).congestion = (IF c.congestion = "none" THEN "reno" ELSE c.congestion)
            /\ LoadedServer(c).decoyDir = Join(c.decoyDir)
        BY ServerLoaded, Zenon
      <4>2. /\ LoadedServer(d).listen = (IF d.listen = "none" THEN "good" ELSE d.listen)
            /\ LoadedServer(d).decoy = (IF d.decoy = "none" THEN "off" ELSE d.decoy)
            /\ LoadedServer(d).congestion = (IF d.congestion = "none" THEN "reno" ELSE d.congestion)
            /\ LoadedServer(d).decoyDir = Join(d.decoyDir)
        <5>1. d \in ServerFiles(Texts)
          BY <2>1, Zenon
        <5> QED
          BY ONLY <5>1, ServerLoaded, Zenon
      <4> QED
        BY <2>2, <4>1, <4>2, Zenon
    <3> QED
      BY <2>2, <2>3, <3>1, ServerLoadsToo, Zenon
  <2> QED
    BY <2>4 DEF d
<1>7. Workers(l) \in 1..l.lim.MaxFlows /\ l.lim.IdleTimeoutSec \in Int /\ l.lim.IdleTimeoutSec >= 5
  <2>1. l.lim = Filled(c.lim)
    BY ServerLoaded, Zenon
  <2>2. /\ Filled(c.lim) \in [ServerLimits -> Int]
        /\ Least(Filled(c.lim)["Workers"], Filled(c.lim)["MaxFlows"]) \in 1..Filled(c.lim)["MaxFlows"]
        /\ Filled(c.lim)["IdleTimeoutSec"] >= 5
    BY <1>1, <1>2, ServerNumbers, Zenon
  <2>3. "IdleTimeoutSec" \in ServerLimits
    BY DEF ServerLimits, CommonLimits
  <2> HIDE DEF l
  <2> QED
    BY <2>1, <2>2, <2>3, Zenon DEF Workers
<1>8. /\ l.streamWindow \in Nat /\ l.connWindow \in Nat
      /\ Or(l.connWindow, 24) >= Or(l.streamWindow, 16)
  <2>1. l.streamWindow = c.streamWindow /\ l.connWindow = c.connWindow
    BY ServerLoaded, Zenon
  <2> QED
    BY <1>1, <1>2, <2>1, WindowsValid, Zenon
<1>9. /\ q.initialStream <= q.maxStream /\ q.maxStream <= q.maxConn
      /\ q.initialStream <= q.initialConn /\ q.initialConn <= q.maxConn
      /\ q.keepAlive \in 1..(q.idle - 1)
  <2> HIDE DEF l
  <2> QED
    BY <1>7, <1>8, QUICInOrder
<1> QED
  BY <1>4, <1>5, <1>6, <1>7, <1>9, Zenon

\* The same for the client's file.
LEMMA ClientLoadsToo ==
    ASSUME NEW c, NEW d, NEW t, NEW w, LoadClient(c, t, w), ValidLimits(LoadedClient(d).lim),
           d.yaml = c.yaml, d.server = c.server, d.psk = c.psk, d.pin = c.pin, d.next = c.next,
           d.nextExpires = c.nextExpires, d.metrics = c.metrics, d.alpn = c.alpn,
           d.remote = c.remote, d.streamWindow = c.streamWindow, d.connWindow = c.connWindow,
           LoadedClient(d).socks = LoadedClient(c).socks, LoadedClient(d).http = LoadedClient(c).http,
           LoadedClient(d).congestion = LoadedClient(c).congestion
    PROVE  LoadClient(d, t, w)
<1>1. ValidateCommon(d)
  <2>1. ValidateCommon(c)
    BY Zenon DEF LoadClient
  <2> QED
    BY <2>1 DEF ValidateCommon
<1> QED
  BY <1>1, Zenon DEF LoadClient

LEMMA ClientLoaded ==
    ASSUME NEW Texts, NEW c \in ClientFiles(Texts)
    PROVE  LET l == LoadedClient(c) IN
           /\ l.socks = (IF c.socks = "none" /\ c.http = "none" THEN "loopback:1080" ELSE c.socks)
           /\ l.congestion = (IF c.congestion = "none" THEN "reno" ELSE c.congestion)
           /\ l.lim = Filled(c.lim)
           /\ l.yaml = c.yaml /\ l.server = c.server /\ l.psk = c.psk /\ l.pin = c.pin
           /\ l.next = c.next /\ l.nextExpires = c.nextExpires
           /\ l.metrics = c.metrics /\ l.alpn = c.alpn /\ l.http = c.http /\ l.remote = c.remote
           /\ l.compression = c.compression
           /\ l.streamWindow = c.streamWindow /\ l.connWindow = c.connWindow
  BY DEF ClientFiles, LoadedClient

\* What LoadClient makes of any file, on any day: ClientSound.
THEOREM ClientFilesSound ==
    ASSUME NEW Texts, {"loopback:1080", "reno"} \subseteq Texts
    PROVE  \A c \in ClientFiles(Texts) : \A t, w \in Int : ClientSound(c, t, w)
<1> SUFFICES ASSUME NEW c \in ClientFiles(Texts), NEW t \in Int, NEW w \in Int, LoadClient(c, t, w)
             PROVE  LET l == LoadedClient(c) IN
                    /\ LoadClient(l, t, w) /\ LoadedClient(l) = l
                    /\ \A f \in DOMAIN c.lim : LoadClient([c EXCEPT !.lim[f] = 0], t, w)
                    /\ HTTPIdleCapacity(l) < l.lim.MaxActiveStreams
                    /\ c.compression => HTTPIdleCapacity(l) < l.lim.MaxCompressedStreams
  BY Zenon DEF ClientSound
<1> DEFINE l == LoadedClient(c)
<1>1. c.lim \in [ClientLimits -> Int]
  BY DEF ClientFiles
<1>2. ValidLimits(Filled(c.lim))
  BY ClientLoaded, Zenon DEF LoadClient
<1>3. l \in ClientFiles(Texts) /\ Filled(l.lim) = l.lim
  <2>1. Filled(c.lim) \in [ClientLimits -> Int] /\ Filled(Filled(c.lim)) = Filled(c.lim)
    BY <1>1, <1>2, ClientNumbers, Zenon
  <2>2. l \in ClientFiles(Texts)
    <3> DEFINE socks == IF c.socks = "none" /\ c.http = "none" THEN "loopback:1080" ELSE c.socks
               congestion == IF c.congestion = "none" THEN "reno" ELSE c.congestion
               lim == Filled(c.lim)
    <3>1. l = [c EXCEPT !.socks = socks, !.congestion = congestion, !.lim = lim]
      BY DEF LoadedClient
    <3>2. socks \in Texts /\ congestion \in Texts
      BY Zenon DEF ClientFiles
    <3> HIDE DEF socks, congestion, lim, l
    <3> QED
      BY <2>1, <3>1, <3>2, Zenon DEF ClientFiles, lim
  <2> QED
    BY <2>1, <2>2, ClientLoaded, Zenon
<1>4. LoadedClient(l) = l
  <2>1. ~(l.socks = "none" /\ l.http = "none") /\ l.congestion # "none"
    BY ClientLoaded
  <2> HIDE DEF l
  <2> QED
    BY <1>3, <2>1, Zenon DEF ClientFiles, LoadedClient
<1>5. LoadClient(l, t, w)
  <2>1. ValidLimits(LoadedClient(l).lim)
    BY <1>2, <1>4, ClientLoaded, Zenon
  <2>2. /\ l.yaml = c.yaml /\ l.server = c.server /\ l.psk = c.psk /\ l.pin = c.pin
        /\ l.next = c.next /\ l.nextExpires = c.nextExpires
        /\ l.metrics = c.metrics /\ l.alpn = c.alpn /\ l.remote = c.remote
        /\ l.streamWindow = c.streamWindow /\ l.connWindow = c.connWindow
    BY ClientLoaded, Zenon
  <2> QED
    BY <1>4, <2>1, <2>2, ClientLoadsToo, Zenon
<1>6. ASSUME NEW f \in DOMAIN c.lim PROVE LoadClient([c EXCEPT !.lim[f] = 0], t, w)
  <2> DEFINE d == [c EXCEPT !.lim[f] = 0]
  <2>1. d \in ClientFiles(Texts) /\ d.lim = [c.lim EXCEPT ![f] = 0] /\ f \in ClientLimits
    BY <1>1 DEF ClientFiles
  <2>2. /\ d.yaml = c.yaml /\ d.server = c.server /\ d.psk = c.psk /\ d.pin = c.pin
        /\ d.next = c.next /\ d.nextExpires = c.nextExpires /\ d.metrics = c.metrics
        /\ d.alpn = c.alpn /\ d.socks = c.socks /\ d.http = c.http /\ d.remote = c.remote
        /\ d.congestion = c.congestion
        /\ d.streamWindow = c.streamWindow /\ d.connWindow = c.connWindow
    BY DEF ClientFiles
  <2> HIDE DEF d
  <2>3. ValidLimits(LoadedClient(d).lim)
    <3>1. LoadedClient(d).lim = Filled(d.lim)
      BY <2>1, ClientLoaded, Zenon
    <3>2. ValidLimits(Filled([c.lim EXCEPT ![f] = 0]))
      BY <1>1, <1>2, <2>1, ClientNumbers, Zenon
    <3> QED
      BY <2>1, <3>1, <3>2, Zenon
  <2>4. LoadClient(d, t, w)
    <3>1. /\ LoadedClient(d).socks = LoadedClient(c).socks /\ LoadedClient(d).http = LoadedClient(c).http
          /\ LoadedClient(d).congestion = LoadedClient(c).congestion
      <4>1. /\ LoadedClient(c).socks =
                  (IF c.socks = "none" /\ c.http = "none" THEN "loopback:1080" ELSE c.socks)
            /\ LoadedClient(c).http = c.http
            /\ LoadedClient(c).congestion = (IF c.congestion = "none" THEN "reno" ELSE c.congestion)
        BY ClientLoaded, Zenon
      <4>2. /\ LoadedClient(d).socks =
                  (IF d.socks = "none" /\ d.http = "none" THEN "loopback:1080" ELSE d.socks)
            /\ LoadedClient(d).http = d.http
            /\ LoadedClient(d).congestion = (IF d.congestion = "none" THEN "reno" ELSE d.congestion)
        BY <2>1, ClientLoaded, Zenon
      <4> QED
        BY <2>2, <4>1, <4>2, Zenon
    <3> QED
      BY <2>2, <2>3, <3>1, ClientLoadsToo, Zenon
  <2> QED
    BY <2>4 DEF d
<1>7. /\ HTTPIdleCapacity(l) < l.lim.MaxActiveStreams
      /\ c.compression => HTTPIdleCapacity(l) < l.lim.MaxCompressedStreams
  <2> DEFINE most == l.lim.MaxActiveStreams
             coded == l.lim.MaxCompressedStreams
  <2>1. most \in Int /\ coded \in Int /\ 1 <= most /\ 1 <= coded
    <3>1. l.lim = Filled(c.lim)
      BY ClientLoaded, Zenon
    <3>2. /\ Filled(c.lim) \in [ClientLimits -> Int]
          /\ Filled(c.lim)["MaxActiveStreams"] >= 1 /\ Filled(c.lim)["MaxCompressedStreams"] >= 1
      BY <1>1, <1>2, ClientNumbers, Zenon
    <3>3. {"MaxActiveStreams", "MaxCompressedStreams"} \subseteq ClientLimits
      BY DEF ClientLimits, CommonLimits
    <3> HIDE DEF l
    <3> QED
      BY <3>1, <3>2, <3>3
  <2>2. l.compression = c.compression
    BY ClientLoaded, Zenon
  <2>3. HTTPIdleCapacity(l) = IF l.compression THEN Least(most \div 2, coded \div 2) ELSE most \div 2
    BY Zenon DEF HTTPIdleCapacity
  <2> HIDE DEF l, most, coded
  <2>4. /\ most \div 2 < most /\ Least(most \div 2, coded \div 2) < most
        /\ Least(most \div 2, coded \div 2) < coded
    BY <2>1 DEF Least
  <2> QED
    BY <2>2, <2>3, <2>4, Zenon DEF most, coded
<1> QED
  BY <1>4, <1>5, <1>6, <1>7, Zenon

\* EdgesSound, of which TLC evaluates every instance, is part of both theorems.
THEOREM EdgesLoadSound == EdgesSound
<1> DEFINE Texts == {"none", "good", "bad", "off", "reno", "old", "v1", "loopback:1080", "builtin",
                     "dir", "proxy", "site", "dir/v1", "dir/v2", "dir/site"}
<1>1. \A f \in ServerLimits \cup ClientLimits : Edge(f) \subseteq Int
  BY BoundsOrdered DEF Edge
<1>2. BaseServer \in ServerFiles(Texts)
  BY DEF BaseServer, ServerFiles
<1>3. BaseClient \in ClientFiles(Texts)
  BY DEF BaseClient, ClientFiles
<1>4. {"good", "off", "reno", "dir/v1", "dir/v2", "dir/site"} \subseteq Texts /\ {"loopback:1080", "reno"} \subseteq Texts
  OBVIOUS
<1>5. 0 \in Int /\ 7 \in Int
  OBVIOUS
<1> HIDE DEF Texts
<1>6. ASSUME NEW f \in ServerLimits, NEW g \in ServerLimits, NEW v \in Edge(f), NEW w \in Edge(g)
      PROVE  ServerSound([BaseServer EXCEPT !.lim[f] = v, !.lim[g] = w], 0, 7)
  <2>1. v \in Int /\ w \in Int
    BY <1>1
  <2>2. [BaseServer EXCEPT !.lim[f] = v, !.lim[g] = w] \in ServerFiles(Texts)
    BY <1>2, <2>1, Zenon DEF ServerFiles
  <2> QED
    BY <1>4, <1>5, <2>2, ServerFilesSound, Zenon
<1>7. ASSUME NEW f \in ClientLimits, NEW g \in ClientLimits, NEW v \in Edge(f), NEW w \in Edge(g)
      PROVE  ClientSound([BaseClient EXCEPT !.lim[f] = v, !.lim[g] = w], 0, 7)
  <2>1. v \in Int /\ w \in Int
    BY <1>1
  <2>2. [BaseClient EXCEPT !.lim[f] = v, !.lim[g] = w] \in ClientFiles(Texts)
    BY <1>3, <2>1, Zenon DEF ClientFiles
  <2> QED
    BY <1>4, <1>5, <2>2, ClientFilesSound, Zenon
<1>8. ASSUME NEW s \in Int, NEW n \in Int
      PROVE  ServerSound([BaseServer EXCEPT !.streamWindow = s, !.connWindow = n], 0, 7)
  <2>1. [BaseServer EXCEPT !.streamWindow = s, !.connWindow = n] \in ServerFiles(Texts)
    BY <1>2, Zenon DEF ServerFiles
  <2> QED
    BY <1>4, <1>5, <2>1, ServerFilesSound, Zenon
<1>9. ASSUME NEW m \in {"none", "off", "builtin", "dir", "proxy", "bad"},
             NEW d \in {"none", "site", "dir/site"}, NEW u \in {"none", "bad", "good"}
      PROVE  ServerSound([BaseServer EXCEPT !.decoy = m, !.decoyDir = d, !.decoyUpstream = u], 0, 7)
  <2>1. m \in Texts /\ d \in Texts /\ u \in Texts
    BY DEF Texts
  <2>2. [BaseServer EXCEPT !.decoy = m, !.decoyDir = d, !.decoyUpstream = u] \in ServerFiles(Texts)
    BY <1>2, <2>1, Zenon DEF ServerFiles
  <2> QED
    BY <1>4, <1>5, <2>2, ServerFilesSound, Zenon
<1> QED
  <2> DEFINE S == {-1, 0, 1, 16, 24, 25, 256, 257}
             N == {-1, 0, 1, 15, 16, 24, 256, 1024, 1025}
  <2>1. S \subseteq Int /\ N \subseteq Int
    OBVIOUS
  <2> HIDE DEF S, N
  <2>2. \A s \in S, n \in N :
          ServerSound([BaseServer EXCEPT !.streamWindow = s, !.connWindow = n], 0, 7)
    BY <1>8, <2>1, Zenon
  <2>3. \A f, g \in ServerLimits : \A v \in Edge(f), w \in Edge(g) :
          ServerSound([BaseServer EXCEPT !.lim[f] = v, !.lim[g] = w], 0, 7)
    BY <1>6, Zenon
  <2>4. \A f, g \in ClientLimits : \A v \in Edge(f), w \in Edge(g) :
          ClientSound([BaseClient EXCEPT !.lim[f] = v, !.lim[g] = w], 0, 7)
    BY <1>7, Zenon
  <2> QED
    BY <1>9, <2>2, <2>3, <2>4, Zenon DEF EdgesSound, S, N

-----------------------------------------------------------------------------
\* Rotation of credentials

\* With the configurations k every client has the next pin or the new key; all have the new key.
Ready(k) == \A c \in Clients : k[c].next = "new" \/ k[c].psk = "new"
AllNew(k) == \A c \in Clients : k[c].psk = "new"

\* On day t a server with the file f serves every client of k.
Safe(f, k, t) ==
    \/ f = StartFile
    \/ Ready(k) /\ \E e \in Int : f = OverlapFile(e) /\ (AllNew(k) \/ t < e)
    \/ AllNew(k) /\ f = FinalFile

\* The certificate that a file names, once it is read and once its pair is put together.
Read(f) == IF f = StartFile THEN {"old"} ELSE {"empty", "new"}
Made(f) == IF f = StartFile THEN {"old"} ELSE {"generated", "new"}

\* Once the new key is in force nothing older is asked for, by the file or by a reload under way,
\* and the certificate in force is the one that the configuration in force names.
Files ==
    /\ file \in Slips \/ Safe(file, conf, now)
    /\ Safe(next, conf, now) /\ Safe(current, conf, now)
    /\ watcher \in {"main", "select", "cert", "key", "publish"}
    /\ watcher = "main" => file = StartFile
    /\ current # StartFile /\ watcher \in {"cert", "key", "publish"} => next # StartFile
    /\ current # StartFile \/ next # StartFile => file # StartFile
    /\ pair \in [cert : {"none", "empty", "new"}, key : {"none", "empty", "new"}]
    /\ watcher = "key" => pem \in Read(next)
    /\ watcher = "publish" => pem \in Made(next)
    /\ snapshot.cert \in Made(current) /\ snapshot = Credentials(current, snapshot.cert)

\* The configurations of clients along the procedure
PinClient(e) == [StartClient EXCEPT !.next = "new", !.nextExpires = e]
NewClient == [StartClient EXCEPT !.psk = "new", !.pin = "new"]

\* A client's configuration is that of a step of the procedure, with the next pin still valid,
\* and its key is one of those of the snapshot that Authenticate loaded.
ClientOK(c) ==
    /\ \/ conf[c] = StartClient
       \/ \E e \in 1..(now + Week) : now < e /\ conf[c] = PinClient(e)
       \/ conf[c] = NewClient /\ current # StartFile
    /\ dial[c] = "proving" =>
          \/ seen[c].primary = conf[c].psk
          \/ conf[c].psk = "old" /\ seen[c].previous = "old" /\ now < seen[c].expires

RotationInv ==
    /\ now \in Nat /\ Files
    /\ DOMAIN conf = Clients /\ DOMAIN dial = Clients /\ DOMAIN seen = Clients
    /\ \A c \in Clients : ClientOK(c)

-----------------------------------------------------------------------------
\* The fields that tell the files and the clients' configurations apart.
LEMMA Fields ==
    /\ StartFile.psk = "old" /\ StartFile.previous = "none" /\ StartFile.cert = "v1" /\ StartFile.key = "v1"
    /\ FinalFile.psk = "new" /\ FinalFile.previous = "none" /\ FinalFile.cert = "v2" /\ FinalFile.key = "v2"
    /\ \A e : /\ OverlapFile(e).psk = "new" /\ OverlapFile(e).previous = "old"
              /\ OverlapFile(e).previousExpires = e
              /\ OverlapFile(e).cert = "v2" /\ OverlapFile(e).key = "v2"
    /\ \A f \in Slips : f.psk = "new" /\ (f.cert = "none" \/ f.previous = "new")
  BY DEF StartFile, FinalFile, OverlapFile, Slips

LEMMA ClientFields ==
    /\ StartClient.psk = "old" /\ StartClient.pin = "old" /\ StartClient.next = "none"
    /\ StartClient.nextExpires = 0
    /\ NewClient.psk = "new" /\ NewClient.pin = "new" /\ NewClient.next = "none"
    /\ NewClient.nextExpires = 0
    /\ \A e : /\ PinClient(e).psk = "old" /\ PinClient(e).pin = "old" /\ PinClient(e).next = "new"
              /\ PinClient(e).nextExpires = e
  BY DEF StartClient, NewClient, PinClient

\* What is safe for some clients stays so while they follow the procedure, if an overlap that some
\* client needs has not expired.
LEMMA SafeKept ==
    ASSUME NEW f, NEW k, NEW l, NEW t, NEW u, Safe(f, k, t),
           Ready(k) => Ready(l), AllNew(k) => AllNew(l),
           f.previous = "old" /\ ~AllNew(l) => u < f.previousExpires
    PROVE  Safe(f, l, u)
  BY Fields, Zenon DEF Safe

\* A slip is never loaded: LoadServer refuses an overlap with the key itself, and Load a file
\* without a certificate.
LEMMA SlipsRefused == ASSUME NEW f \in Slips, Loads(f) PROVE f.cert = "none"
<1>1. Server(f).psk = f.psk /\ Server(f).previous = f.previous
  BY DEF Server, BaseServer
<1>2. Server(f).previous # "none" => Server(f).previous # Server(f).psk
  BY Zenon DEF Loads, LoadServer
<1> QED
  BY <1>1, <1>2, Fields

-----------------------------------------------------------------------------
\* A step of the server's process: nothing is put in force that is not safe.
LEMMA ServerSteps ==
    ASSUME RotationInv, Start \/ Watch
    PROVE  Files' /\ UNCHANGED <<now, clientVars>> /\ (current # StartFile => current' # StartFile)
<1>0. Safe(next, conf, now)
  BY Zenon DEF RotationInv, Files
<1>1. CASE Start
  <2>1. /\ watcher = "main" /\ current' = file /\ watcher' = "select"
        /\ UNCHANGED <<now, file, pair, next, pem, snapshot, conf, dial, seen>>
    BY <1>1, Zenon DEF Start, clientVars
  <2>2. file = StartFile /\ current = StartFile
    BY <2>1, Zenon DEF RotationInv, Files
  <2> QED
    BY <2>1, <2>2, Zenon DEF RotationInv, Files, clientVars
<1>2. CASE Load
  <2>1. /\ watcher = "select" /\ UNCHANGED <<now, file, pair, pem, current, snapshot, conf, dial, seen>>
        /\ \/ watcher' = "cert" /\ next' = file /\ Loads(file) /\ file.cert # "none"
           \/ UNCHANGED <<watcher, next>>
    BY <1>2, Zenon DEF Load, clientVars
  <2>2. CASE watcher' = "cert" /\ next' = file /\ Loads(file) /\ file.cert # "none"
    <3>1. Safe(file, conf, now)
      BY <2>2, SlipsRefused, Zenon DEF RotationInv, Files
    <3> QED
      BY <2>1, <2>2, <3>1, Zenon DEF RotationInv, Files, clientVars
  <2>3. CASE UNCHANGED <<watcher, next>>
    BY <2>1, <2>3, Zenon DEF RotationInv, Files, clientVars
  <2> QED
    BY <2>1, <2>2, <2>3, Zenon
<1>3. ASSUME Finish, UNCHANGED <<now, file, pair, current, snapshot, clientVars>>
      PROVE  Files'
  <2>1. Safe(StartFile, conf, now)
    BY Zenon DEF Safe
  <2> QED
    BY <1>3, <2>1, Zenon DEF Finish, clientVars, RotationInv, Files
<1>4. CASE ReadCert
  <2>1. watcher = "cert" /\ UNCHANGED <<now, file, pair, current, snapshot, conf, dial, seen>>
    BY <1>4, Zenon DEF ReadCert, clientVars
  <2>2. CASE Finish
    BY <1>3, <2>1, <2>2, Zenon DEF clientVars
  <2>3. CASE watcher' = "key" /\ pem' = CertAt(next.cert) /\ next' = next /\ CertAt(next.cert) # "none"
    <3>1. CertAt(next.cert) \in Read(next)
      <4>1. next = StartFile \/ next.cert = "v2"
        BY <1>0, Fields DEF Safe
      <4> QED
        BY <2>3, <4>1, Fields DEF RotationInv, Files, CertAt, Read, Join, Joined
    <3>2. next' # StartFile \/ current' = StartFile
      BY <2>1, <2>3, Zenon DEF RotationInv, Files
    <3> QED
      BY <2>1, <2>3, <3>1, <3>2, Zenon DEF RotationInv, Files, clientVars
  <2> QED
    BY <1>4, <2>1, <2>2, <2>3, Zenon DEF ReadCert, clientVars
<1>5. CASE ReadKey
  <2>1. watcher = "key" /\ UNCHANGED <<now, file, pair, current, snapshot, conf, dial, seen>>
    BY <1>5, Zenon DEF ReadKey, clientVars
  <2>2. CASE Finish
    BY <1>3, <2>1, <2>2, Zenon DEF clientVars
  <2>3. CASE /\ watcher' = "publish" /\ pem' = LoadOrCreateCert(pem, KeyAt(next.key)) /\ next' = next
             /\ LoadOrCreateCert(pem, KeyAt(next.key)) # "none"
    <3>1. pem' \in Made(next)
      <4>1. next = StartFile \/ next.key = "v2"
        BY <1>0, Fields DEF Safe
      <4>2. pem \in Read(next)
        BY <2>1, Zenon DEF RotationInv, Files
      <4> QED
        BY <2>3, <4>1, <4>2, Fields DEF RotationInv, Files, KeyAt, Read, Made, LoadOrCreateCert, Join, Joined
    <3>2. next' # StartFile \/ current' = StartFile
      BY <2>1, <2>3, Zenon DEF RotationInv, Files
    <3> QED
      BY <2>1, <2>3, <3>1, <3>2, Zenon DEF RotationInv, Files, clientVars
  <2> QED
    BY <1>5, <2>1, <2>2, <2>3, Zenon DEF ReadKey, clientVars
<1>6. CASE Update
  <2>1. watcher = "publish" /\ Finish /\ UNCHANGED <<now, file, pair, conf, dial, seen>>
    BY <1>6, Zenon DEF Update, clientVars
  <2>2. CASE UNCHANGED <<snapshot, current>>
    BY <1>3, <2>1, <2>2, Zenon DEF clientVars
  <2>3. CASE snapshot' = Credentials(next, pem) /\ current' = next
    <3>1. snapshot'.cert = pem /\ pem \in Made(next)
      BY <2>1, <2>3, Zenon DEF Credentials, RotationInv, Files
    <3>2. current' # StartFile => file # StartFile
      BY <2>3, Zenon DEF RotationInv, Files
    <3>3. Safe(StartFile, conf, now)
      BY Zenon DEF Safe
    <3> QED
      BY <2>1, <2>3, <3>1, <3>2, <3>3, Zenon DEF RotationInv, Files, clientVars, Finish
  <2> QED
    BY <1>6, <2>1, <2>2, <2>3, Zenon DEF Update, clientVars
<1> QED
  BY <1>1, <1>2, <1>4, <1>5, <1>6, Zenon DEF Watch

-----------------------------------------------------------------------------
\* A client keeps its configuration while the day and the configuration in force stay.
LEMMA ClientStays ==
    ASSUME RotationInv, NEW c \in Clients, UNCHANGED now, current # StartFile => current' # StartFile,
           conf'[c] = conf[c], dial'[c] = dial[c], seen'[c] = seen[c]
    PROVE  ClientOK(c)'
  BY Zenon DEF RotationInv, ClientOK

\* The operator writes a file: one that is safe or one of Slips, never the first one again.
LEMMA OperatorSteps ==
    ASSUME RotationInv, watcher # "main", Slip \/ Step2 \/ Step4 \/ WritePair \/ Signal
    PROVE  Files' /\ UNCHANGED <<now, current, clientVars>>
<1>1. ASSUME NEW f, Edit(f), f # StartFile, f \in Slips \/ Safe(f, conf, now)
      PROVE  Files' /\ UNCHANGED <<now, current, clientVars>>
  BY <1>1, Zenon DEF Edit, serverVars, clientVars, RotationInv, Files
<1>2. CASE Slip
  BY <1>1, <1>2, Fields, Zenon DEF Slip
<1>3. CASE Step2
  <2>1. PICK e \in (now + 1)..Least(now + Week + 1, MaxTime + Week) : Edit(OverlapFile(e))
    BY <1>3, Zenon DEF Step2
  <2>2. e \in Int /\ now < e
    BY <2>1, RotationAssumption DEF RotationInv, Least
  <2>3. Safe(OverlapFile(e), conf, now)
    BY <1>3, <2>2, Zenon DEF Step2, Safe, Ready
  <2> QED
    BY <1>1, <2>1, <2>3, Fields, Zenon
<1>4. CASE Step4
  <2>1. Safe(FinalFile, conf, now)
    BY <1>4, Zenon DEF Step4, Safe, AllNew
  <2> QED
    BY <1>1, <1>4, <2>1, Fields, Zenon DEF Step4
<1>5. CASE WritePair
  <2>1. UNCHANGED <<now, file, watcher, next, pem, current, snapshot, conf, dial, seen>>
    BY <1>5, Zenon DEF WritePair, serverVars, clientVars
  <2>2. pair' \in [cert : {"none", "empty", "new"}, key : {"none", "empty", "new"}]
    <3>1. pair \in [cert : {"none", "empty", "new"}, key : {"none", "empty", "new"}]
      BY Zenon DEF RotationInv, Files
    <3>2. \/ pair' = [cert |-> "empty", key |-> "empty"]
          \/ \E f \in {"cert", "key"} : pair' = [pair EXCEPT ![f] = "new"]
      BY <1>5, Zenon DEF WritePair
    <3> QED
      BY <3>1, <3>2
  <2> QED
    BY <2>1, <2>2, Zenon DEF RotationInv, Files, clientVars
<1>6. CASE Signal
  BY <1>6, Zenon DEF Signal, clientVars, RotationInv, Files
<1> QED
  BY <1>2, <1>3, <1>4, <1>5, <1>6, Zenon

\* The snapshot in force holds the keys of the configuration in force.
LEMMA SnapshotFields ==
    ASSUME RotationInv
    PROVE  /\ snapshot.primary = current.psk /\ snapshot.previous = current.previous
           /\ snapshot.expires = current.previousExpires
<1>1. snapshot = Credentials(current, snapshot.cert)
  BY Zenon DEF RotationInv, Files
<1>2. \A s : /\ Credentials(current, s).primary = current.psk
             /\ Credentials(current, s).previous = current.previous
             /\ Credentials(current, s).expires = current.previousExpires
  BY DEF Credentials
<1> QED
  BY <1>1, <1>2, Zenon

\* A client restarts with the next configuration of the procedure.
LEMMA RestartSteps ==
    ASSUME RotationInv, NEW c \in Clients, Step1(c) \/ Step3(c)
    PROVE  RotationInv'
<1>1. ASSUME NEW f, Restart(c, f), f.next = "new" \/ f.psk = "new", conf[c].psk = "new" => f.psk = "new",
             \/ \E e \in 1..(now + Week) : now < e /\ f = PinClient(e)
             \/ f = NewClient /\ current # StartFile
      PROVE  RotationInv'
  <2>1. /\ UNCHANGED <<now, file, pair, watcher, next, pem, current, snapshot>>
        /\ conf'[c] = f /\ dial'[c] = "idle"
        /\ \A d \in Clients \ {c} : conf'[d] = conf[d] /\ dial'[d] = dial[d] /\ seen'[d] = seen[d]
        /\ DOMAIN conf' = Clients /\ DOMAIN dial' = Clients /\ DOMAIN seen' = Clients
    BY <1>1 DEF Restart, serverVars, RotationInv
  <2>2. (Ready(conf) => Ready(conf')) /\ (AllNew(conf) => AllNew(conf'))
    BY <1>1, <2>1, Zenon DEF Ready, AllNew
  <2>3. ASSUME NEW g, Safe(g, conf, now) PROVE Safe(g, conf', now)
    <3>1. g.previous = "old" /\ ~AllNew(conf') => now < g.previousExpires
      BY <2>2, <2>3, Fields, Zenon DEF Safe
    <3> QED
      BY <2>2, <2>3, <3>1, SafeKept, Zenon
  <2>4. Files'
    BY <2>1, <2>3, Zenon DEF RotationInv, Files
  <2>5. ClientOK(c)'
    BY <1>1, <2>1, Zenon DEF ClientOK
  <2>6. \A d \in Clients \ {c} : ClientOK(d)'
    BY <2>1, ClientStays, Zenon
  <2> QED
    BY <2>1, <2>4, <2>5, <2>6, Zenon DEF RotationInv
<1>2. CASE Step1(c)
  <2>1. PICK e \in (now + 1)..Least(now + Week, MaxTime + 1) : Restart(c, PinClient(e))
    BY <1>2, Zenon DEF Step1, PinClient
  <2>2. e \in 1..(now + Week) /\ now < e
    BY <2>1, RotationAssumption DEF RotationInv, Least
  <2>3. conf[c].psk = "old"
    BY <1>2, Zenon DEF Step1
  <2> QED
    <3>1. PinClient(e).next = "new" /\ ~(conf[c].psk = "new")
      BY <2>3, ClientFields, Zenon
    <3> QED
      BY <1>1, <2>1, <2>2, <3>1, Zenon
<1>3. CASE Step3(c)
  <2>1. current # StartFile
    BY <1>3, Fields, SnapshotFields, Zenon DEF Step3
  <2> QED
    <3>1. Restart(c, NewClient) /\ NewClient.psk = "new"
      BY <1>3, ClientFields, Zenon DEF Step3, NewClient
    <3> QED
      BY <1>1, <2>1, <3>1, Zenon
<1> QED
  BY <1>2, <1>3, Zenon

\* A day passes, but not past an expiry that a client still needs.
LEMMA DayPasses == ASSUME RotationInv, NextDay PROVE RotationInv'
<1>1. /\ now' = now + 1 /\ UNCHANGED <<file, pair, watcher, next, pem, current, snapshot, conf, dial, seen>>
      /\ \A c \in Clients : conf[c].psk = "old" =>
          /\ conf[c].next # "none" => now' < conf[c].nextExpires
          /\ \A f \in {file, next, current} : f.previous = "old" => now' < f.previousExpires
          /\ seen[c].previous = "old" => now' < seen[c].expires
  BY Zenon DEF NextDay, serverVars, clientVars
<1>2. \A c \in Clients : conf[c].psk \in {"old", "new"}
  BY ClientFields, Zenon DEF RotationInv, ClientOK
<1>3. ASSUME NEW f \in {file, next, current}, Safe(f, conf, now) PROVE Safe(f, conf, now')
  <2>1. f.previous = "old" /\ ~AllNew(conf) => now' < f.previousExpires
    BY <1>1, <1>2, Zenon DEF AllNew
  <2> QED
    BY <1>3, <2>1, SafeKept, Zenon
<1>4. Files'
  BY <1>1, <1>3, Zenon DEF RotationInv, Files
<1>5. ASSUME NEW c \in Clients PROVE ClientOK(c)'
  <2>1. \/ conf[c] = StartClient
        \/ \E e \in 1..(now + Week) : now < e /\ conf[c] = PinClient(e)
        \/ conf[c] = NewClient /\ current # StartFile
    BY Zenon DEF RotationInv, ClientOK
  <2>2. ASSUME NEW e \in 1..(now + Week), conf[c] = PinClient(e) PROVE e \in 1..(now' + Week) /\ now' < e
    <3>1. now' < e
      <4>1. conf[c].psk = "old" /\ conf[c].next # "none" /\ conf[c].nextExpires = e
        BY <2>2, ClientFields, Zenon
      <4> QED
        BY <1>1, <4>1, Zenon
    <3>2. now' = now + 1 /\ now \in Nat /\ Week \in Nat
      BY <1>1, RotationAssumption, Zenon DEF RotationInv
    <3> QED
      BY <3>1, <3>2
  <2>3. dial'[c] = "proving" =>
          \/ seen'[c].primary = conf'[c].psk
          \/ conf'[c].psk = "old" /\ seen'[c].previous = "old" /\ now' < seen'[c].expires
    BY <1>1, Zenon DEF RotationInv, ClientOK
  <2> QED
    BY <1>1, <2>1, <2>2, <2>3, Zenon DEF ClientOK
<1>6. now' \in Nat /\ DOMAIN conf' = Clients /\ DOMAIN dial' = Clients /\ DOMAIN seen' = Clients
  <2>1. now' = now + 1 /\ now \in Nat
    BY <1>1, Zenon DEF RotationInv
  <2>2. now' \in Nat
    BY <2>1
  <2> QED
    BY <1>1, <2>2, Zenon DEF RotationInv
<1> QED
  BY <1>4, <1>5, <1>6, Zenon DEF RotationInv

\* A client's key is in the snapshot in force, while that is safe.
LEMMA KeyInForce ==
    ASSUME RotationInv, NEW c \in Clients
    PROVE  \/ snapshot.primary = conf[c].psk
           \/ conf[c].psk = "old" /\ snapshot.previous = "old" /\ now < snapshot.expires
<1>1. /\ snapshot.primary = current.psk /\ snapshot.previous = current.previous
      /\ snapshot.expires = current.previousExpires
  BY SnapshotFields, Zenon
<1>2. conf[c].psk = "old" \/ (conf[c].psk = "new" /\ current # StartFile)
  BY ClientFields, Zenon DEF RotationInv, ClientOK
<1>3. Safe(current, conf, now)
  BY Zenon DEF RotationInv, Files
<1> QED
  <2>1. CASE current = StartFile
    BY <1>1, <1>2, <2>1, Fields, Zenon
  <2>2. ASSUME NEW e \in Int, current = OverlapFile(e), AllNew(conf) \/ now < e
        PROVE  \/ current.psk = conf[c].psk
               \/ conf[c].psk = "old" /\ current.previous = "old" /\ now < current.previousExpires
    BY <1>2, <2>2, Fields, Zenon DEF AllNew
  <2>3. CASE AllNew(conf) /\ current = FinalFile
    BY <1>1, <2>3, Fields, Zenon DEF AllNew
  <2> QED
    BY <1>1, <1>3, <2>1, <2>2, <2>3, Zenon DEF Safe

\* A client connects: Authenticate loads the snapshot in force.
LEMMA ConnectSteps ==
    ASSUME RotationInv, NEW c \in Clients, Handshake(c) \/ Authenticate(c) \/ Prove(c)
    PROVE  RotationInv'
<1>1. /\ UNCHANGED <<now, file, pair, watcher, next, pem, current, snapshot, conf>>
      /\ \A d \in Clients \ {c} : dial'[d] = dial[d] /\ seen'[d] = seen[d]
      /\ DOMAIN dial' = Clients /\ DOMAIN seen' = Clients
      /\ \/ dial'[c] \in {"pinned", "idle"}
         \/ dial'[c] = "proving" /\ seen'[c] = [snapshot EXCEPT !.cert = "none"]
  BY DEF Handshake, Authenticate, Prove, serverVars, RotationInv
<1>2. Files'
  BY <1>1, Zenon DEF RotationInv, Files
<1>3. ClientOK(c)'
  <2>1. [snapshot EXCEPT !.cert = "none"].primary = snapshot.primary
        /\ [snapshot EXCEPT !.cert = "none"].previous = snapshot.previous
        /\ [snapshot EXCEPT !.cert = "none"].expires = snapshot.expires
    <3>1. snapshot = Credentials(current, snapshot.cert)
      BY Zenon DEF RotationInv, Files
    <3> QED
      BY <3>1 DEF Credentials
  <2>2. \/ conf[c] = StartClient
        \/ \E e \in 1..(now + Week) : now < e /\ conf[c] = PinClient(e)
        \/ conf[c] = NewClient /\ current # StartFile
    BY Zenon DEF RotationInv, ClientOK
  <2>3. CASE dial'[c] = "proving" /\ seen'[c] = [snapshot EXCEPT !.cert = "none"]
    BY <1>1, <2>1, <2>2, <2>3, KeyInForce, Zenon DEF ClientOK
  <2>4. CASE dial'[c] \in {"pinned", "idle"}
    BY <1>1, <2>2, <2>4, Zenon DEF ClientOK
  <2> QED
    BY <1>1, <2>3, <2>4, Zenon
<1>4. \A d \in Clients \ {c} : ClientOK(d)'
  BY <1>1, ClientStays, Zenon
<1> QED
  BY <1>1, <1>2, <1>3, <1>4, Zenon DEF RotationInv

\* A client's file of the procedure loads (LoadClient).
LEMMA ClientLoads ==
    ASSUME NEW f, NEW t \in Nat, f.psk \in {"old", "new"}, f.pin \in {"old", "new"},
           \/ f.next = "none" /\ f.nextExpires = 0
           \/ f.next = "new" /\ f.pin = "old" /\ f.nextExpires \in 1..(t + Week)
    PROVE  LoadClient(Client(f), t, Week)
<1> DEFINE d == Client(f)
           l == LoadedClient(d)
<1>1. /\ d.yaml = "good" /\ d.server = "good" /\ d.psk = f.psk /\ d.pin = f.pin
      /\ d.next = f.next /\ d.nextExpires = f.nextExpires /\ d.metrics = "none" /\ d.alpn = "none"
      /\ d.socks = "none" /\ d.http = "none" /\ d.congestion = "none"
      /\ d.streamWindow = 0 /\ d.connWindow = 0
  BY DEF Client, BaseClient
<1>2. l.socks = "loopback:1080" /\ l.http = "none" /\ l.congestion = "reno"
  BY DEF Client, BaseClient, LoadedClient
<1>3. l.lim = Filled([g \in ClientLimits |-> 0])
  BY DEF Client, BaseClient, LoadedClient
<1>4. ValidLimits(l.lim)
  <2>1. ClientLimits \in SUBSET (ServerLimits \cup ClientLimits) /\ CommonLimits \subseteq ClientLimits
    BY Zenon DEF ClientLimits
  <2> QED
    BY <1>3, <2>1, DefaultsValid, Zenon
<1> HIDE DEF d, l
<1>5. ValidateCommon(d)
  <2>1. d.alpn \in {"none", "h3"} /\ d.metrics # "bad"
    BY <1>1, Zenon
  <2>2. /\ 0 <= d.streamWindow /\ d.streamWindow <= 256 /\ 0 <= d.connWindow /\ d.connWindow <= 1024
        /\ Or(d.connWindow, 24) >= Or(d.streamWindow, 16)
    <3>1. d.streamWindow = 0 /\ d.connWindow = 0
      BY <1>1, Zenon
    <3> QED
      BY ONLY <3>1 DEF Or
  <2> QED
    BY ONLY <2>1, <2>2 DEF ValidateCommon
<1>6. ValidateOverlap(d.next, d.nextExpires, t, Week)
  BY <1>1, RotationAssumption DEF ValidateOverlap
<1>7. Decodes(d.server) /\ Decodes(d.pin) /\ Decodes(d.psk)
      /\ (d.next # "none" => Decodes(d.next) /\ d.next # d.pin)
  BY <1>1, Zenon DEF Decodes
<1>8. \A a \in {l.socks, l.http} \ {"none"} :
        a # "bad" /\ (d.remote \/ a \in {"loopback:1080", "loopback:8080"})
  BY <1>2, Zenon
<1>9. d.yaml # "bad" /\ (l.socks # "none" => l.socks # l.http) /\ l.congestion \in {"reno", "bbr"}
  BY <1>1, <1>2, Zenon
<1> QED
  BY <1>4, <1>5, <1>6, <1>7, <1>8, <1>9, Zenon DEF LoadClient, d, l

\* Whatever the operator, the watcher and the clients do in turn, the files stay safe.
LEMMA RotationKept == RotationInv /\ [RotationNext]_rotationVars => RotationInv'
<1> SUFFICES ASSUME RotationInv, [RotationNext]_rotationVars PROVE RotationInv'
  BY Zenon
<1>1. ASSUME Files', UNCHANGED <<now, clientVars>>, current # StartFile => current' # StartFile
      PROVE  RotationInv'
  BY <1>1, ClientStays, Zenon DEF RotationInv, clientVars
<1>2. CASE Start \/ Watch
  BY <1>1, <1>2, ServerSteps, Zenon
<1>3. CASE watcher # "main" /\ (Slip \/ Step2 \/ Step4 \/ WritePair \/ Signal)
  BY <1>1, <1>3, OperatorSteps, Zenon
<1>4. CASE UNCHANGED rotationVars
  BY <1>1, <1>4, Zenon DEF rotationVars, serverVars, clientVars, RotationInv, Files
<1> QED
  BY <1>2, <1>3, <1>4, RestartSteps, DayPasses, ConnectSteps, Zenon DEF RotationNext, Operate, Connect

\* "For rotation without stopping every client together" (docs/operations.md), for any number of
\* clients, any longest overlap and any length of time: NoLockout.
THEOREM RotationLocksNobodyOut == RotationSpec => []NoLockout
<1>1. RotationInit => RotationInv
  <2> SUFFICES ASSUME RotationInit PROVE RotationInv
    BY Zenon
  <2>1. Files
    BY Fields DEF RotationInit, Files, Safe, Made, Credentials
  <2> QED
    BY <2>1 DEF RotationInit, RotationInv, ClientOK
<1>2. RotationInv => NoLockout
  <2> SUFFICES ASSUME RotationInv, NEW c \in Clients
               PROVE  /\ LoadClient(Client(conf[c]), now, Week)
                      /\ VerifyConnection(conf[c], snapshot.cert) \/ snapshot.cert = "generated"
                      /\ dial[c] = "proving" =>
                            Accepts(seen[c], conf[c].psk) /\ Accepts(snapshot, conf[c].psk)
    BY Zenon DEF NoLockout
  <2>1. \/ conf[c] = StartClient
        \/ \E e \in 1..(now + Week) : now < e /\ conf[c] = PinClient(e)
        \/ conf[c] = NewClient /\ current # StartFile
    BY Zenon DEF RotationInv, ClientOK
  <2>2. now \in Nat
    BY Zenon DEF RotationInv
  <2>3. LoadClient(Client(conf[c]), now, Week)
    BY <2>1, <2>2, ClientFields, ClientLoads, Zenon
  <2>4. VerifyConnection(conf[c], snapshot.cert) \/ snapshot.cert = "generated"
    <3>1. snapshot.cert \in Made(current) /\ Safe(current, conf, now)
      BY Zenon DEF RotationInv, Files
    <3>2. conf[c] = StartClient => current = StartFile
      BY <3>1, ClientFields, Zenon DEF Safe, Ready, AllNew
    <3> QED
      BY <2>1, <3>1, <3>2, ClientFields, Zenon DEF VerifyConnection, Made
  <2>5. dial[c] = "proving" => Accepts(seen[c], conf[c].psk) /\ Accepts(snapshot, conf[c].psk)
    BY KeyInForce, Zenon DEF RotationInv, ClientOK, Accepts
  <2> QED
    BY <2>3, <2>4, <2>5, Zenon
<1> QED
  BY <1>1, <1>2, RotationKept, PTL DEF RotationSpec

\* Whatever the two programs are started with: LoadedIsSound.
THEOREM RotationLoadsSound == RotationSpec => []LoadedIsSound
<1>1. LoadedIsSound
  BY EdgesLoadSound, Zenon DEF LoadedIsSound
<1> QED
  BY <1>1, PTL

-----------------------------------------------------------------------------
\* The compressed connection

Bools == refused \in BOOLEAN /\ readEOF \in BOOLEAN

\* Why Read is right: abort is called only for a reason, and readEOF is stored before the call.
Reasons ==
    /\ wire \in {"open", "fin", "cut"} /\ sent \in 0..MaxFrames /\ got \in 0..sent
    /\ encoder \in {"running", "ended", "done"} /\ decoder \in {"running", "eof", "ended", "done"}
    /\ shut \in 0..2
    /\ read \in {"called", "parked", "pipe", "EOF", "error", "timeout"}
    /\ close \in {"no", "waiting", "returned"}
    /\ remaining = (IF decoder = "done" THEN 0 ELSE 1) + (IF encoder = "done" THEN 0 ELSE 1)
    /\ decoder = "eof" \/ readEOF => got = sent /\ wire # "open"
    /\ wire = "cut" => refused
    /\ shut > 0 => readEOF \/ refused \/ close # "no"
    /\ read = "pipe" => shut > 0
    /\ read = "error" => refused \/ close # "no"
    /\ read = "EOF" => readEOF \/ refused \/ close # "no"

ConnInv == Bools /\ Reasons

\* A step of compressed_conn.go, of its application or of its peer keeps ConnInv.
LEMMA ConnStep == ConnInv /\ [ConnNext]_connVars => ConnInv'
<1> SUFFICES ASSUME ConnInv, [ConnNext]_connVars PROVE ConnInv'
    OBVIOUS
<1>1. Bools'
  BY Zenon DEF ConnInv, Bools, ConnNext, connVars, Decoder, Decode, DecodeEOF, DecodeFails,
    StoreEOF, DecoderFinishes, Encoder, EncodeFails, EncoderFinishes, Abort, Reading, ReadParks,
    ReadFails, ReadReturns, ReadFarEnd, ReadTimesOut, Close, CloseReturns, Peer, ServerSends,
    ServerEnds, StreamFails
<1>2. Reasons'
  <2> USE CompressedConnAssumption DEF ConnInv, Reasons
  <2>1. CASE Decode
    BY <2>1 DEF Decode
  <2>2. CASE DecodeEOF \/ DecodeFails \/ StoreEOF
    BY <2>2 DEF DecodeEOF, DecodeFails, Undecodable, StoreEOF, CallsAbort
  <2>3. CASE DecoderFinishes
    BY <2>3 DEF DecoderFinishes
  <2>4. CASE Encoder
    BY <2>4 DEF Encoder, EncodeFails, EncoderFinishes, CallsAbort
  <2>5. CASE Abort \/ Reading \/ ReadTimesOut
    BY <2>5 DEF Abort, Reading, ReadParks, ReadFails, ReadReturns, ReadFarEnd, ReadTimesOut
  <2>9. CASE Close \/ CloseReturns
    BY <2>9 DEF Close, CloseReturns, CallsAbort
  <2>6. CASE Peer
    BY <2>6 DEF Peer, ServerSends, ServerEnds, StreamFails
  <2>7. CASE UNCHANGED connVars
    BY <2>7 DEF connVars
  <2> HIDE DEF Reasons
  <2>8. QED
    BY <2>1, <2>2, <2>3, <2>4, <2>5, <2>6, <2>7, <2>9 DEF ConnNext, Decoder
<1>3. QED
  BY <1>1, <1>2 DEF ConnInv

-----------------------------------------------------------------------------
\* The opening of the stream

Settled(i) == bind[i] \notin {"armed", "running"}

\* Why the stream is whole: only a done context aborts it, and unbind has settled both callbacks
\* before the context is asked for the last time.
OpenInv ==
    /\ bind \in [1..2 -> {"none", "armed", "running", "ran", "stopped"}]
    /\ opener \in {"start", "header", "answered", "checked", "stream", "request", "replied",
                   "released", "open", "failing", "failed"}
    /\ \A i \in 1..2 : bind[i] \in {"running", "ran"} => ctx
    /\ reset => ctx \/ opener \in {"failing", "failed"}
    /\ opener = "start" => bind[1] = "none"
    /\ opener \in {"start", "header", "answered", "checked", "stream"} => bind[2] = "none"
    /\ opener \in {"stream", "request", "replied", "released", "open"} => Settled(1)
    /\ opener \in {"released", "open"} => Settled(2)
    /\ O!HandedOverWhole

\* A step of openTunnelStream, of OpenTCP or of a callback of BindContext keeps OpenInv.
LEMMA OpenStep ==
    OpenInv /\ (O!Opener \/ O!Expire \/ O!Callback \/ UNCHANGED openVars) => OpenInv'
<1> SUFFICES ASSUME OpenInv, O!Opener \/ O!Expire \/ O!Callback \/ UNCHANGED openVars
             PROVE OpenInv'
    OBVIOUS
<1> USE DEF OpenInv, Settled, O!HandedOverWhole, O!Moves
<1>1. CASE O!Start \/ O!Answered \/ O!Checked
  BY <1>1 DEF O!Start, O!Answered, O!Checked, O!BindContext
<1>2. CASE O!Unbound \/ O!Rebound
  BY <1>2 DEF O!Unbound, O!Rebound, O!BindContext, O!Unbind
<1>3. CASE O!Replied \/ O!Released \/ O!HandsOver
  BY <1>3 DEF O!Replied, O!Released, O!HandsOver, O!Unbind
<1>4. CASE O!NoStream \/ O!FailsInside \/ O!FailsOutside
  BY <1>4 DEF O!NoStream, O!FailsInside, O!FailsOutside
<1>5. CASE O!FailsDone
  BY <1>5 DEF O!FailsDone
<1>6. CASE O!Expire
  BY <1>6 DEF O!Expire
<1>7. ASSUME NEW i \in 1..2, O!CallbackStarts(i) \/ O!CallbackAborts(i)
      PROVE OpenInv'
  BY <1>7 DEF O!CallbackStarts, O!CallbackAborts
<1>8. CASE UNCHANGED openVars
  BY <1>8 DEF openVars
<1>9. QED
  BY <1>1, <1>2, <1>3, <1>4, <1>5, <1>6, <1>7, <1>8 DEF O!Opener, O!Callback

-----------------------------------------------------------------------------
\* The body and the handler

\* Why no read is stuck: eof is what the reader has seen, and nobody sets a deadline after Close.
BodyInv ==
    /\ eof <=> reader = "finished"
    /\ closed /\ ~eof => deadline = "past"
    /\ B!NeverStuck
    /\ handler \in {"responding", "closing", "returned"} /\ reuse => eof

\* A step of progressBody keeps BodyInv, whatever the handler is doing.
LEMMA BodyStep ==
    ASSUME BodyInv, UNCHANGED <<handler, reuse>>,
           \/ B!SendsAll \/ B!ReadStarts \/ B!ReadReturns \/ B!ReadEnds
           \/ \E k \in {"transport", "handler"} : B!CloseStarts(k) \/ B!CloseReturns(k)
    PROVE  BodyInv'
<1> USE DEF BodyInv, B!NeverStuck
<1>1. CASE B!SendsAll \/ B!ReadStarts \/ B!ReadReturns \/ B!ReadEnds
  BY <1>1 DEF B!SendsAll, B!ReadStarts, B!ReadReturns, B!ReadEnds
<1>2. ASSUME NEW k \in {"transport", "handler"}, B!CloseStarts(k) \/ B!CloseReturns(k)
      PROVE BodyInv'
  <2>1. CASE B!CloseStarts(k)
    BY <2>1 DEF B!CloseStarts
  <2>2. CASE B!CloseReturns(k)
    BY <2>2 DEF B!CloseReturns
  <2>3. QED
    BY <1>2, <2>1, <2>2, Zenon
<1>3. QED
  BY <1>1, <1>2, Zenon

-----------------------------------------------------------------------------
ExchangeInv == ConnInv /\ OpenInv /\ BodyInv

\* A request that has not started satisfies the invariants of all three components.
LEMMA ExchangeStarts == ExchangeInit => ExchangeInv
<1> SUFFICES ASSUME ExchangeInit PROVE ExchangeInv
    OBVIOUS
<1>1. ConnInv
  <2>1. Bools
    BY Zenon DEF ExchangeInit, ConnInit, Bools
  <2>2. Reasons
    BY CompressedConnAssumption DEF ExchangeInit, ConnInit, Reasons
  <2>3. QED
    BY <2>1, <2>2 DEF ConnInv
<1>2. OpenInv
  BY DEF ExchangeInit, O!Init, OpenInv, Settled, O!HandedOverWhole
<1>3. BodyInv
  BY DEF ExchangeInit, B!Init, BodyInv, B!NeverStuck
<1>4. QED
  BY <1>1, <1>2, <1>3 DEF ExchangeInv

\* A step of the composition is a step of one component; the others keep their variables.
LEMMA ExchangeKeeps == ExchangeInv /\ [ExchangeNext]_exchangeVars => ExchangeInv'
<1> SUFFICES ASSUME ExchangeInv, [ExchangeNext]_exchangeVars PROVE ExchangeInv'
    OBVIOUS
<1> USE DEF ExchangeInv
<1>1. CASE Handler \/ Complete
  <2>1. [ConnNext]_connVars /\ UNCHANGED openVars
    BY <1>1 DEF Handler, Complete, CompleteByEnd, Reject, Forward, Unavailable, ModifyResponse,
                BreaksOff, CloseBody, Return, Ends
  <2>2. BodyInv'
    <3>1. CASE CloseBody
      BY <3>1, BodyStep, Zenon DEF CloseBody
    <3>2. CASE ~CloseBody
      BY <1>1, <3>2 DEF Handler, Complete, CompleteByEnd, Reject, Forward, Unavailable,
                        ModifyResponse, BreaksOff, Return, Ends, BodyInv, B!NeverStuck, bodyVars
    <3>3. QED
      BY <3>1, <3>2
  <2>3. QED
    BY <2>1, <2>2, ConnStep, OpenStep, Zenon
<1>2. CASE OpenConn
  <2>1. [ConnNext]_connVars /\ UNCHANGED <<handler, reuse, bodyVars>>
    BY <1>2 DEF OpenConn
  <2>2. BodyInv'
    BY <2>1 DEF BodyInv, B!NeverStuck, bodyVars
  <2>3. OpenInv'
    BY <1>2, OpenStep DEF OpenConn
  <2>4. QED
    BY <2>1, <2>2, <2>3, ConnStep
<1>3. CASE TransportCloses \/ BodyCloses \/ Upload \/ SendsAll
  <2>1. [ConnNext]_connVars /\ UNCHANGED openVars
    BY <1>3 DEF TransportCloses, BodyCloses, Upload, SendsAll
  <2>2. BodyInv'
    BY <1>3, BodyStep DEF TransportCloses, BodyCloses, Upload, SendsAll
  <2>3. QED
    BY <2>1, <2>2, ConnStep, OpenStep
<1>4. CASE Converse
  <2>1. ConnNext /\ UNCHANGED <<handler, reuse, openVars, bodyVars>>
    BY <1>4 DEF Converse, ConnNext
  <2>2. BodyInv'
    BY <2>1 DEF BodyInv, B!NeverStuck, bodyVars
  <2>3. QED
    BY <2>1, <2>2, ConnStep, OpenStep
<1>5. CASE Leave
  <2>1. [ConnNext]_connVars /\ UNCHANGED <<reuse, handler, openVars, bodyVars>>
    BY <1>5 DEF Leave
  <2>2. BodyInv'
    BY <2>1, Zenon DEF BodyInv, B!NeverStuck, bodyVars
  <2>3. QED
    BY <2>1, <2>2, ConnStep, OpenStep
<1>6. CASE UNCHANGED exchangeVars
  <2>1. UNCHANGED <<handler, reuse, openVars, bodyVars, connVars>>
    BY <1>6 DEF exchangeVars
  <2>2. BodyInv'
    BY <2>1 DEF BodyInv, B!NeverStuck, bodyVars
  <2>3. QED
    BY <2>1, <2>2, ConnStep, OpenStep
<1>7. QED
  BY <1>1, <1>2, <1>3, <1>4, <1>5, <1>6 DEF ExchangeNext

\* The three component invariants hold throughout a forwarded request.
LEMMA ExchangeInvariance == ExchangeSpec => []ExchangeInv
  BY ExchangeStarts, ExchangeKeeps, PTL DEF ExchangeSpec

\* While its stream has not failed and nobody has closed it, Read of the compressed connection
\* reports no error, and the end of the stream only after every frame (compressed_conn.go),
\* whatever the exchange around it does and however many frames there are.
THEOREM CleanEOF == ExchangeSpec => []CleanEndKept
<1>1. ExchangeInv => CleanEndKept
  BY CompressedConnAssumption DEF ExchangeInv, ConnInv, Bools, Reasons, CleanEndKept, ConnTypeOK
<1>2. QED
  BY <1>1, ExchangeInvariance, PTL

\* A stream that OpenTCP returns is not aborted, has no deadline and no callback that could abort
\* it (BindContext), and one that it does not return was aborted.
THEOREM HandOver == ExchangeSpec => []StreamWhole
<1>1. ExchangeInv => StreamWhole
  BY DEF ExchangeInv, OpenInv, StreamWhole
<1>2. QED
  BY <1>1, ExchangeInvariance, PTL

\* No read of a closed body waits for the client, no deadline survives the body's end, and no
\* response to an unfinished upload keeps the client's connection (progressBody, ModifyResponse).
THEOREM Uploads == ExchangeSpec => []UploadSettled
<1>1. ExchangeInv => UploadSettled
  BY DEF ExchangeInv, BodyInv, UploadSettled
<1>2. QED
  BY <1>1, ExchangeInvariance, PTL

=============================================================================
