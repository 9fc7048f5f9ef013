------------------------------- MODULE Config -------------------------------
(***************************************************************************)
(* internal/config: what LoadServer and LoadClient accept and which values *)
(* they fill in, and the second layer of defaults that the constructors    *)
(* apply (server.New, client.New, UDPOptions.defaults, NewQUICConfig).     *)
(*                                                                         *)
(* A configuration is a record of the decoded YAML. Its numbers are in lim *)
(* and the windows; of its texts only the class is kept that the code      *)
(* tells apart: "none" (empty), "bad" (does not parse), or a valid value.  *)
(***************************************************************************)
EXTENDS Integers

Least(a, b) == IF a < b THEN a ELSE b

\* Default, least and greatest value of each number.
Bounds ==
    [IdleTimeoutSec |-> <<60, 5, 3600>>, HandshakeTimeoutSec |-> <<10, 1, 120>>,
     RequestTimeoutSec |-> <<15, 1, 300>>,
     MaxActiveStreams |-> <<128, 1, 4096>>, MaxCompressedStreams |-> <<16, 1, 128>>,
     MaxConnections |-> <<256, 1, 65536>>,
     MaxStreamsPerConnection |-> <<128, 2, 4096>>,
     DNSTimeoutSec |-> <<5, 1, 60>>, DNSConcurrency |-> <<32, 1, 256>>,
     MaxFlows |-> <<256, 1, 65536>>, QueueSize |-> <<128, 1, 4096>>, Workers |-> <<4, 1, 64>>,
     NewFlowsPerSecond |-> <<32, 1, 4096>>, MaxPayload |-> <<850, 1, 850>>,
     UDPIdleTimeoutSec |-> <<60, 1, 3600>>,
     MaxPendingRequests |-> <<256, 1, 65536>>, MaxUDPSessions |-> <<128, 1, 65536>>,
     ProxyIdleTimeoutSec |-> <<300, 1, 86400>>,
     HTTPResponseHeaderTimeoutSec |-> <<120, 1, 3600>>, MaxHeaderBytes |-> <<65536, 1024, 1048576>>]

CommonLimits ==
    {"IdleTimeoutSec", "HandshakeTimeoutSec", "RequestTimeoutSec",
     "MaxActiveStreams", "MaxCompressedStreams", "MaxConnections"}

ServerLimits ==
    CommonLimits \cup
    {"MaxStreamsPerConnection", "DNSTimeoutSec", "DNSConcurrency", "MaxFlows", "QueueSize",
     "Workers", "NewFlowsPerSecond", "MaxPayload", "UDPIdleTimeoutSec"}

ClientLimits ==
    CommonLimits \cup
    {"MaxPendingRequests", "MaxUDPSessions", "ProxyIdleTimeoutSec", "HTTPResponseHeaderTimeoutSec",
     "MaxHeaderBytes"}

Or(v, default) == IF v = 0 THEN default ELSE v

\* Mutant of Filled: the default number of codecs ignores the limit on streams.
FilledApart(lim) == [f \in DOMAIN lim |-> Or(lim[f], Bounds[f][1])]

\* bounded, first half: zero selects the default, for codecs at most the limit on streams.
Filled(lim) ==
    [f \in DOMAIN lim |->
        Or(lim[f], IF f = "MaxCompressedStreams"
                   THEN Least(16, Or(lim["MaxActiveStreams"], 128)) ELSE Bounds[f][1])]

\* bounded, second half, on every number.
InRange(lim) == \A f \in DOMAIN lim : lim[f] \in Bounds[f][2]..Bounds[f][3]

\* All numbers in range, and no more codecs than streams.
ValidLimits(lim) == InRange(lim) /\ lim["MaxCompressedStreams"] <= lim["MaxActiveStreams"]

\* DecodePSK; the same test decides a pin's encoding.
Decodes(text) == text \notin {"none", "bad"}

\* validateOverlap: an alternate credential needs an expiry at most a week ahead, and only it.
ValidateOverlap(alternate, expires, now, week) ==
    IF alternate = "none" THEN expires = 0 ELSE expires # 0 /\ expires <= now + week

\* validateCommon
ValidateCommon(c) ==
    /\ c.alpn \in {"none", "h3"} /\ c.metrics # "bad"
    /\ 0 <= c.streamWindow /\ c.streamWindow <= 256 /\ 0 <= c.connWindow /\ c.connWindow <= 1024
    /\ Or(c.connWindow, 24) >= Or(c.streamWindow, 16)

AllPorts == 1..65535

-----------------------------------------------------------------------------
\* LoadServer: the file is accepted, and what it then holds

\* A relative name is joined to the directory of the configuration file, here an absolute one;
\* an empty or absolute name is kept.
Joined == [v1 |-> "dir/v1", v2 |-> "dir/v2", site |-> "dir/site"]
Join(name) == IF name \in DOMAIN Joined THEN Joined[name] ELSE name

LoadedServer(c) ==
    [c EXCEPT !.listen = IF @ = "none" THEN "good" ELSE @,
              !.cert = Join(@), !.key = Join(@), !.decoyDir = Join(@),
              !.decoy = IF @ = "none" THEN "off" ELSE @,
              !.congestion = IF @ = "none" THEN "reno" ELSE @,
              !.lim = Filled(@)]

LoadServer(c, now, week) ==
    LET l == LoadedServer(c) IN
    /\ c.yaml # "bad"
    /\ ValidateOverlap(c.previous, c.previousExpires, now, week)
    /\ c.previous # "none" => Decodes(c.previous) /\ c.previous # c.psk
    /\ Decodes(c.psk)
    /\ l.listen # "bad"
    /\ ValidateCommon(c)
    /\ (c.cert = "none") <=> (c.key = "none")
    /\ c.cert # "none" \/ c.ephemeral
    /\ \/ l.decoy \in {"off", "builtin"}
       \/ l.decoy = "dir" /\ l.decoyDir # "none"
       \/ l.decoy = "proxy" /\ c.decoyUpstream = "good"
    /\ c.ports \subseteq AllPorts
    /\ l.congestion \in {"reno", "bbr"}
    /\ ValidLimits(l.lim)

\* SameRuntimeSettings, on loaded configurations
SameRuntimeSettings(a, b) ==
    LET Runtime(c) == [c EXCEPT !.psk = "none", !.previous = "none", !.previousExpires = 0,
                                !.cert = "none", !.key = "none"]
    IN  Runtime(a) = Runtime(b)

-----------------------------------------------------------------------------
\* LoadClient

LoadedClient(c) ==
    [c EXCEPT !.socks = IF c.socks = "none" /\ c.http = "none" THEN "loopback:1080" ELSE @,
              !.congestion = IF @ = "none" THEN "reno" ELSE @,
              !.lim = Filled(@)]

LoadClient(c, now, week) ==
    LET l == LoadedClient(c) IN
    /\ c.yaml # "bad"
    /\ Decodes(c.server)
    /\ ValidateOverlap(c.next, c.nextExpires, now, week)
    /\ c.next # "none" => Decodes(c.next) /\ c.next # c.pin
    /\ Decodes(c.pin) /\ Decodes(c.psk)
    /\ ValidateCommon(c)
    /\ \A a \in {l.socks, l.http} \ {"none"} :
          a # "bad" /\ (c.remote \/ a \in {"loopback:1080", "loopback:8080"})
    /\ l.socks # "none" => l.socks # l.http
    /\ l.congestion \in {"reno", "bbr"}
    /\ ValidLimits(l.lim)

-----------------------------------------------------------------------------
\* What the constructors make of it

\* NewQUICConfig, windows in KiB and times in seconds
NewQUICConfig(l) ==
    LET stream == 1024 * Or(l.streamWindow, 16)
        conn == 1024 * Or(l.connWindow, 24)
    IN  [maxStream |-> stream, maxConn |-> conn,
         initialStream |-> Least(512, stream), initialConn |-> Least(768, conn),
         idle |-> l.lim.IdleTimeoutSec, keepAlive |-> l.lim.IdleTimeoutSec \div 3]

\* UDPOptions.defaults: no more workers than flows.
Workers(l) == Least(l.lim.Workers, l.lim.MaxFlows)

HTTPIdleCapacity(l) ==
    LET n == l.lim.MaxActiveStreams \div 2
    IN  IF l.compression THEN Least(n, l.lim.MaxCompressedStreams \div 2) ELSE n

-----------------------------------------------------------------------------
\* Properties

BaseServer ==
    [yaml |-> "good", psk |-> "old", previous |-> "none", previousExpires |-> 0, listen |-> "none",
     metrics |-> "none", alpn |-> "none", cert |-> "v1", key |-> "v1", ephemeral |-> FALSE,
     decoy |-> "none", decoyDir |-> "none", decoyUpstream |-> "none", ports |-> {},
     congestion |-> "none", lim |-> [f \in ServerLimits |-> 0], streamWindow |-> 0, connWindow |-> 0]

BaseClient ==
    [yaml |-> "good", server |-> "good", psk |-> "old", pin |-> "old", next |-> "none",
     nextExpires |-> 0, metrics |-> "none", alpn |-> "none", socks |-> "none", http |-> "none",
     remote |-> FALSE, congestion |-> "none", compression |-> TRUE,
     lim |-> [f \in ClientLimits |-> 0], streamWindow |-> 0, connWindow |-> 0]

\* Values at and beside the limits of a number, and 0.
Edge(f) == {0} \cup {Bounds[f][2] + d : d \in -1..1} \cup {Bounds[f][3] + d : d \in -1..1}

\* A server's file that loads: loading is idempotent, so that SameRuntimeSettings compares like
\* with like; zero may replace any number; the workers of a NAT fit its flows; and the QUIC
\* windows are in order.
ServerSound(c, now, week) ==
    LoadServer(c, now, week) =>
        LET l == LoadedServer(c)
            q == NewQUICConfig(l)
        IN  /\ LoadServer(l, now, week) /\ LoadedServer(l) = l
            /\ \A f \in DOMAIN c.lim : LoadServer([c EXCEPT !.lim[f] = 0], now, week)
            /\ Workers(l) \in 1..l.lim.MaxFlows
            /\ q.initialStream <= q.maxStream /\ q.maxStream <= q.maxConn
            /\ q.initialStream <= q.initialConn /\ q.initialConn <= q.maxConn
            /\ q.keepAlive \in 1..(q.idle - 1)

\* A client's file that loads: the same, and the idle HTTP connections that the pool keeps leave
\* room in each budget for another destination.
ClientSound(c, now, week) ==
    LoadClient(c, now, week) =>
        LET l == LoadedClient(c) IN
        /\ LoadClient(l, now, week) /\ LoadedClient(l) = l
        /\ \A f \in DOMAIN c.lim : LoadClient([c EXCEPT !.lim[f] = 0], now, week)
        /\ HTTPIdleCapacity(l) < l.lim.MaxActiveStreams
        /\ c.compression => HTTPIdleCapacity(l) < l.lim.MaxCompressedStreams

\* ServerSound and ClientSound for any two numbers of the file at or beside their limits, for
\* receive windows at theirs, and for every decoy with a relative, an absolute and no directory.
EdgesSound ==
    /\ \A f, g \in ServerLimits : \A v \in Edge(f), w \in Edge(g) :
          ServerSound([BaseServer EXCEPT !.lim[f] = v, !.lim[g] = w], 0, 7)
    /\ \A f, g \in ClientLimits : \A v \in Edge(f), w \in Edge(g) :
          ClientSound([BaseClient EXCEPT !.lim[f] = v, !.lim[g] = w], 0, 7)
    /\ \A s \in {-1, 0, 1, 16, 24, 25, 256, 257}, n \in {-1, 0, 1, 15, 16, 24, 256, 1024, 1025} :
          ServerSound([BaseServer EXCEPT !.streamWindow = s, !.connWindow = n], 0, 7)
    /\ \A m \in {"none", "off", "builtin", "dir", "proxy", "bad"}, d \in {"none", "site", "dir/site"},
          u \in {"none", "bad", "good"} :
          ServerSound([BaseServer EXCEPT !.decoy = m, !.decoyDir = d, !.decoyUpstream = u], 0, 7)

=============================================================================
