---------------------------- MODULE StreamProofs ----------------------------
(***************************************************************************)
(* A tunnel at its server. Its timers, for any rates and delays: the       *)
(* bucket that limits new UDP flows and the heartbeat (Timers). And the    *)
(* handlers of its streams (ProxyStreams), for any number of connections   *)
(* and streams and any limits: what a handler holds follows from its       *)
(* progress (Struct); so each step takes or gives back at most one lease,  *)
(* which is the refinement of Budget, and the counters are exact.          *)
(***************************************************************************)
EXTENDS Timers, ProxyStreams, TLAPS

-----------------------------------------------------------------------------
\* The bucket

\* A whole second refills the bucket, so that a lag beyond MaxLag adds nothing.
LEMMA SecondFills ==
    ASSUME NEW l \in Nat, l >= Second
    PROVE  /\ Full \in Nat
           /\ l * NewFlowsPerSecond \in Nat
           /\ l * NewFlowsPerSecond >= Full
<1> DEFINE d == l - Second
<1>1. d \in Nat /\ l = Second + d
  BY BucketAssumption
<1>2. l * NewFlowsPerSecond = Second * NewFlowsPerSecond + d * NewFlowsPerSecond
  BY <1>1, BucketAssumption
<1> HIDE DEF d
<1>3. d * NewFlowsPerSecond \in Nat /\ Second * NewFlowsPerSecond \in Nat
  BY <1>1, BucketAssumption
<1> QED
  BY <1>1, <1>2, <1>3, BucketAssumption DEF Full

\* The lazy bucket of send (server/udp.go) holds at every moment exactly what the ideal leaky
\* bucket leaves free, whatever the rate and the spacing of the requests and the refusals.
THEOREM Exactness == BucketSpec => []RateExact
<1> DEFINE r == NewFlowsPerSecond
<1>0. Full \in Nat /\ Second <= Full /\ r \in Nat
  <2> DEFINE k == r - 1
  <2>1. k \in Nat /\ r = k + 1
    BY BucketAssumption
  <2> HIDE DEF k
  <2>2. k * Second \in Nat /\ (k + 1) * Second = k * Second + Second
    BY <2>1, BucketAssumption
  <2> QED
    BY <2>1, <2>2, BucketAssumption DEF Full
<1>1. BucketInit => RateExact
  BY <1>0, BucketAssumption DEF BucketInit, RateExact, BucketTypeOK, Refilled, Min
<1>2. RateExact /\ BucketTick => RateExact'
  <2> SUFFICES ASSUME RateExact, BucketTick PROVE RateExact'
    OBVIOUS
  <2> USE DEF RateExact, BucketTypeOK
  <2>1. lag * r \in Nat /\ (lag + 1) * r = lag * r + r /\ (lag + 1) * r \in Nat
    BY <1>0, BucketAssumption
  <2>2. level' \in 0..Full /\ lag' \in 0..MaxLag /\ tokens' = tokens
    BY <1>0, BucketAssumption DEF BucketTick, Min
  <2>3. CASE lag + 1 <= MaxLag
    <3>1. lag' = lag + 1
      BY <2>3, BucketAssumption DEF BucketTick, Min
    <3>2. lag' * r = lag * r + r
      BY <2>1, <3>1
    <3> HIDE DEF r
    <3>3. /\ tokens \in Nat /\ level \in Nat
          /\ Full - level = IF Full < tokens + lag * r THEN Full ELSE tokens + lag * r
      BY <1>0 DEF Refilled, Min, r
    <3>4. level' = IF level < r THEN 0 ELSE level - r
      BY DEF BucketTick, r
    <3>5. (IF Full < tokens + (lag * r + r) THEN Full ELSE tokens + (lag * r + r)) = Full - level'
      BY <1>0, <2>1, <3>3, <3>4
    <3>6. Refilled' = IF Full < tokens + lag' * r THEN Full ELSE tokens + lag' * r
      BY <2>2 DEF Refilled, Min, Full, r
    <3> QED
      BY <2>2, <3>2, <3>5, <3>6 DEF Full
  <2>4. CASE lag + 1 > MaxLag
    <3>1. lag' = MaxLag /\ lag = MaxLag
      BY <2>4, BucketAssumption DEF BucketTick, Min
    <3>2. lag * r \in Nat /\ lag * r >= Full
      BY <3>1, SecondFills, BucketAssumption
    <3>3. Refilled = Full /\ Refilled' = Full
      BY <1>0, <2>2, <3>1, <3>2 DEF Refilled, Min, Full
    <3>4. level = 0 /\ level' = 0
      BY <1>0, <3>3 DEF BucketTick
    <3> QED
      BY <1>0, <2>2, <3>3, <3>4 DEF Full
  <2> QED
    BY <2>3, <2>4, BucketAssumption
<1>3. RateExact /\ Ask => RateExact'
  <2> SUFFICES ASSUME RateExact, Ask PROVE RateExact'
    OBVIOUS
  <2>1. Refilled \in 0..Full
    BY <1>0 DEF RateExact, BucketTypeOK
  <2>2. lag' = 0 /\ lag' * r = 0
    BY <1>0 DEF Ask
  <2>3. tokens' \in 0..Full /\ level' \in 0..Full /\ tokens' = Full - level'
    BY <1>0, <2>1, BucketAssumption DEF RateExact, BucketTypeOK, Ask
  <2>4. Refilled' = tokens'
    BY <1>0, <2>2, <2>3 DEF Refilled, Min, Full
  <2>5. level' \in Nat /\ lag' \in 0..MaxLag
    BY <1>0, <2>2, <2>3, BucketAssumption
  <2>6. BucketTypeOK'
    BY <2>3, <2>5 DEF BucketTypeOK, Full
  <2> QED
    BY <2>3, <2>4, <2>6 DEF RateExact, Full
<1>4. RateExact /\ UNCHANGED bucketVars => RateExact'
  BY DEF RateExact, BucketTypeOK, bucketVars, Refilled, Min, Full
<1> QED
  BY <1>1, <1>2, <1>3, <1>4, PTL DEF BucketSpec, BucketNext

-----------------------------------------------------------------------------
\* The heartbeat

\* The ping interval and the read timeout that the client derives from its idle timeout.
I == H!Interval(idle[1])
W == H!Timeout(idle[1])

Tolerant == H!Tolerates(idle)

\* While the path works, the next ping reaches the server before its deadline and the pong
\* the client before its own.
Working ==
    /\ client \in {"auth", "select", "pong"} /\ server = "reading"
    /\ client = "auth" => /\ wire = "reply" /\ age <= Delay /\ ~due /\ ticker = I
                          /\ deadline >= Delay - age + 1 /\ expiry = idle[2] - age
    /\ client = "select" => /\ wire = "none" /\ age = 0
                            /\ ~due => expiry >= ticker + Delay + 1
                            /\ due => expiry >= Delay + 1
    /\ client = "pong" => wire \in {"ping", "pong"} /\ age <= Delay
    /\ wire = "ping" => deadline = W - age /\ expiry >= Delay - age + 1
    /\ wire = "pong" => /\ deadline >= W - Delay - age /\ expiry = idle[2] - age
                        /\ ~due => expiry >= ticker + Delay + 1

\* Once it is cut, the deadlines run out: what is left of them and the silence make up no more
\* than the two timeouts.
Silent ==
    /\ client = "auth" => silence + deadline <= Handshake
    /\ client = "select" => silence <= I /\ (~due => silence + ticker <= I)
    /\ client = "pong" => silence + deadline <= I + W
    /\ server = "reading" => silence + expiry <= idle[2]

BeatTypes ==
    /\ idle \in Idles
    /\ client \in {"auth", "select", "pong", "left"} /\ server \in {"reading", "left"}
    /\ ticker \in 1..I /\ deadline \in Nat /\ expiry \in 0..idle[2]
    /\ client = "auth" => deadline <= Handshake
    /\ client = "pong" => deadline <= W
    /\ wire \in {"none", "reply", "ping", "pong"} /\ age \in Nat
    /\ silence \in Nat \cup {-1}

BeatInv ==
    /\ BeatTypes /\ due \in BOOLEAN
    /\ silence < 0 /\ Tolerant => Working
    /\ silence >= 0 => Silent

\* The timeouts leave room: for a ping between two ticks, and together for 25s and five sixths of
\* IdleTimeout.
LEMMA Room ==
    ASSUME NEW i \in Idles
    PROVE  /\ Delay \in Nat /\ i[1] \in Nat /\ i[2] \in Nat
           /\ H!Interval(i[1]) \in Nat \ {0} /\ H!Timeout(i[1]) \in Nat
           /\ 2 * Delay < H!Timeout(i[1]) => Delay <= H!Interval(i[1])
           /\ H!Interval(i[1]) + H!Timeout(i[1]) <= 25 * Second
           /\ 6 * (H!Interval(i[1]) + H!Timeout(i[1])) <= 5 * i[1]
<1>1. /\ Delay \in Nat /\ i[1] \in Nat /\ i[1] >= 3 /\ i[2] \in Nat /\ Second \in Nat \ {0}
  BY TimersAssumption, BucketAssumption
<1> DEFINE t == i[1] \div 3
           h == i[1] \div 2
<1>2. t \in Nat /\ h \in Nat /\ 3 * t <= i[1] /\ 2 * h <= i[1] /\ i[1] < 3 * t + 3
  BY <1>1
<1> HIDE DEF t, h
<1>3. /\ H!Interval(i[1]) = IF 10 * Second < t THEN 10 * Second ELSE t
      /\ H!Timeout(i[1]) = IF 15 * Second < h THEN 15 * Second ELSE h
  BY DEF H!Interval, H!Timeout, H!Least, t, h
<1> QED
  BY <1>1, <1>2, <1>3

\* A new tunnel is in order.
LEMMA BeatInit == TimersInit => BeatInv
<1> SUFFICES ASSUME TimersInit PROVE BeatInv
  OBVIOUS
<1>1. /\ idle \in Idles /\ client = "auth" /\ ticker = I /\ ~due
      /\ deadline \in (Delay + 1)..Handshake
      /\ server = "reading" /\ expiry = idle[2] /\ wire = "reply" /\ age = 0 /\ silence = -1
  BY DEF TimersInit, H!Init, I
<1>2. /\ I \in Nat \ {0} /\ W \in Nat /\ Delay \in Nat /\ Handshake \in Nat /\ idle[2] \in Nat
  BY <1>1, Room, TimersAssumption DEF I, W
<1>3. due \in BOOLEAN
  BY Zenon DEF TimersInit, H!Init
<1> QED
  BY <1>1, <1>2, <1>3 DEF BeatInv, BeatTypes, Working, Silent

\* Neither end gives a working tunnel up, and a byte on its way is in time.
LEMMA BeatStep ==
    ASSUME BeatInv, H!Next
    PROVE  BeatInv'
<1>1. BeatTypes /\ due \in BOOLEAN /\ (silence < 0 /\ Tolerant => Working) /\ (silence >= 0 => Silent)
  BY DEF BeatInv
<1>2. /\ Delay \in Nat /\ Handshake \in Nat /\ idle[2] \in Nat /\ I \in Nat \ {0} /\ W \in Nat
      /\ Tolerant => 2 * Delay < W /\ I + 2 * Delay < idle[2] /\ Delay <= I
  BY <1>1, Room, TimersAssumption DEF I, W, BeatTypes, Tolerant, H!Tolerates
<1>3. idle' = idle /\ I' = I /\ W' = W /\ Tolerant' = Tolerant
  <2>1. idle' = idle
    BY DEF H!Next, H!ReplyArrives, H!Ping, H!PongArrives, H!ClientLeaves, H!PingArrives,
           H!ServerLeaves, H!Cut, H!Tick
  <2> QED
    BY <2>1 DEF I, W, Tolerant
<1> USE <1>1, <1>2, <1>3
<1>11. CASE H!ReplyArrives
  <2>1. /\ client = "auth" /\ wire = "reply" /\ silence < 0 /\ client' = "select" /\ deadline' = 0
        /\ wire' = "none" /\ age' = 0 /\ UNCHANGED <<ticker, due, server, expiry, silence>>
    BY <1>11 DEF H!ReplyArrives
  <2> QED
    BY <2>1 DEF BeatInv, BeatTypes, Working, Silent
<1>4. CASE H!Ping
  <2>1. /\ client = "select" /\ due /\ ~due' /\ deadline' = W /\ client' = "pong"
        /\ wire' = "ping" /\ age' = 0 /\ UNCHANGED <<ticker, server, expiry, silence>>
    BY <1>4 DEF H!Ping, W
  <2>2. due' \in BOOLEAN
    BY <1>4, Zenon DEF H!Ping
  <2> QED
    BY <2>1, <2>2 DEF BeatInv, BeatTypes, Working, Silent
<1>5. CASE H!PongArrives
  <2>1. /\ client = "pong" /\ wire = "pong" /\ silence < 0 /\ client' = "select"
        /\ wire' = "none" /\ age' = 0 /\ UNCHANGED <<ticker, due, deadline, server, expiry, silence>>
    BY <1>5 DEF H!PongArrives
  <2> QED
    BY <2>1 DEF BeatInv, BeatTypes, Working, Silent
<1>6. CASE H!ClientLeaves
  <2>1. /\ client' = "left" /\ UNCHANGED <<ticker, due, deadline, server, expiry, wire, age, silence>>
    BY <1>6 DEF H!ClientLeaves, H!wireVars
  <2>2. ~(silence < 0 /\ Tolerant)
    BY <1>6 DEF H!ClientLeaves, H!ClientDone, Working, BeatTypes
  <2> QED
    BY <2>1, <2>2 DEF BeatInv, BeatTypes, Working, Silent
<1>7. CASE H!PingArrives
  <2>1. /\ server = "reading" /\ wire = "ping" /\ silence < 0 /\ wire' = "pong" /\ age' = 0
        /\ expiry' = idle[2] /\ UNCHANGED <<client, ticker, due, deadline, server, silence>>
    BY <1>7 DEF H!PingArrives, H!clientVars
  <2> QED
    BY <2>1 DEF BeatInv, BeatTypes, Working, Silent
<1>8. CASE H!ServerLeaves
  <2>1. /\ server' = "left" /\ UNCHANGED <<client, ticker, due, deadline, expiry, wire, age, silence>>
    BY <1>8 DEF H!ServerLeaves, H!wireVars, H!clientVars
  <2>2. ~(silence < 0 /\ Tolerant)
    BY <1>8 DEF H!ServerLeaves, H!ServerDone, Working, BeatTypes
  <2> QED
    BY <2>1, <2>2 DEF BeatInv, BeatTypes, Working, Silent
<1>9. CASE H!Cut
  <2>1. /\ silence' = 0 /\ UNCHANGED <<client, ticker, due, deadline, server, expiry, wire, age>>
    BY <1>9 DEF H!Cut, H!wireVars, H!clientVars
  <2> QED
    BY <2>1 DEF BeatInv, BeatTypes, Working, Silent
<1>10. CASE H!Tick
  <2>1. /\ ticker' = IF client = "auth" THEN ticker ELSE IF ticker = 1 THEN I ELSE ticker - 1
        /\ deadline' = IF deadline = 0 THEN 0 ELSE deadline - 1
        /\ expiry' = IF expiry = 0 THEN 0 ELSE expiry - 1
        /\ age' = IF wire = "none" \/ silence >= 0 \/ age = Delay THEN age ELSE age + 1
        /\ silence' = IF silence < 0 \/ {client, server} = {"left"} THEN silence ELSE silence + 1
        /\ UNCHANGED <<client, server, wire>>
        /\ ~(client = "select" /\ due) /\ ~(client \in {"auth", "pong"} /\ deadline = 0)
        /\ ~(server = "reading" /\ expiry = 0)
        /\ ~(silence < 0 /\ wire # "none" /\ age = Delay /\ client # "left" /\ server # "left")
    BY <1>10 DEF H!Tick, H!Countdown, H!Urgent, H!ClientDone, H!ServerDone, I
  <2>2. BeatTypes'
    BY <2>1 DEF BeatTypes
  <2>3. due' \in BOOLEAN /\ (due' <=> due \/ (client # "auth" /\ ticker = 1))
    BY <1>10, Zenon DEF H!Tick
  <2>4. silence' < 0 <=> silence < 0
    <3>1. silence \in Nat \cup {-1}
      BY DEF BeatTypes
    <3> QED
      BY ONLY <2>1, <3>1
  <2>5. ASSUME silence < 0, Tolerant PROVE Working'
    BY <2>1, <2>3, <2>5 DEF BeatTypes, Working
  <2>6. ASSUME silence >= 0 PROVE Silent'
    <3>1. client # "left" \/ server # "left" => silence' = silence + 1
      <4>1. {client, server} = {"left"} => client = "left" /\ server = "left"
        OBVIOUS
      <4> QED
        BY <2>1, <2>6, <4>1 DEF BeatTypes
    <3>5. client' = "auth" => silence' + deadline' <= Handshake
      BY <2>1, <2>6, <3>1 DEF BeatTypes, Silent
    <3>2. server' = "reading" => silence' + expiry' <= idle[2]
      BY <2>1, <2>6, <3>1 DEF BeatTypes, Silent
    <3>3. client' = "pong" => silence' + deadline' <= I + W
      BY <2>1, <2>6, <3>1 DEF BeatTypes, Silent
    <3>4. client' = "select" => silence' <= I /\ (~due' => silence' + ticker' <= I)
      BY <2>1, <2>3, <2>6, <3>1 DEF BeatTypes, Silent
    <3> QED
      BY <3>2, <3>3, <3>4, <3>5 DEF Silent
  <2> QED
    BY <2>2, <2>3, <2>4, <2>5, <2>6 DEF BeatInv, BeatTypes
<1> QED
  BY <1>4, <1>5, <1>6, <1>7, <1>8, <1>9, <1>10, <1>11 DEF H!Next

\* From the reply of the authentication on, an idle tunnel over a working path is kept by both ends
\* (runHeartbeat in client.go, handleControl in server.go) if their IdleTimeouts leave room for the
\* delays of the path, and a silent path is noticed by each within its own timeouts, whatever the
\* two IdleTimeouts are.
THEOREM Detection == TimersSpec => []DetectorExact
<1>1. BeatInv /\ [TimersNext]_allVars => BeatInv'
  <2> SUFFICES ASSUME BeatInv, [TimersNext]_allVars PROVE BeatInv'
    OBVIOUS
  <2>1. CASE H!Next
    BY <2>1, BeatStep
  <2>2. CASE UNCHANGED beatVars
    BY <2>2 DEF beatVars, BeatInv, BeatTypes, Working, Silent, I, W, Tolerant
  <2> QED
    BY <2>1, <2>2 DEF TimersNext, Beat, Opens, Passes, H!Next, allVars
<1>2. ASSUME BeatInv PROVE DetectorExact
  <2>1. BeatTypes /\ (silence < 0 /\ Tolerant => Working) /\ (silence >= 0 => Silent)
    BY <1>2 DEF BeatInv
  <2>2. /\ idle[1] \in Nat /\ idle[2] \in Nat /\ I \in Nat \ {0} /\ W \in Nat /\ Second \in Nat
        /\ I + W <= 25 * Second /\ 6 * (I + W) <= 5 * idle[1]
    BY <2>1, Room, BucketAssumption DEF I, W, BeatTypes
  <2>3. H!HealthyStaysUp
    BY <2>1 DEF Working, BeatTypes, H!HealthyStaysUp, Tolerant
  <2>7. client = "auth" => silence <= Handshake
    BY <2>1, TimersAssumption DEF BeatTypes, Silent
  <2>4. client \in {"select", "pong"} => silence <= I + W
    BY <2>1, <2>2 DEF BeatTypes, Silent
  <2>5. server # "left" => silence <= idle[2]
    BY <2>1, <2>2 DEF BeatTypes, Silent
  <2>6. H!SilenceNoticed
    BY <2>1, <2>2, <2>4, <2>5, <2>7 DEF BeatTypes, H!SilenceNoticed
  <2> QED
    BY <2>3, <2>6 DEF DetectorExact
<1> QED
  BY <1>1, <1>2, BeatInit, PTL DEF TimersSpec

-----------------------------------------------------------------------------
\* Handlers: what they hold

\* HandlerOwns without the bounds of the counters.
Struct ==
    /\ state \in [Conns -> {"none", "open", "closed"}]
    /\ ready \in [Conns -> BOOLEAN]
    /\ valid \in [Conns -> BOOLEAN]
    /\ pc \in [Streams -> {"idle", "asked", "checked", "leased", "request", "dialing", "dialed",
                           "reply", "relay", "unwind", "freeslot", "release"}]
    /\ on \in [Streams -> Conns \cup {NoConn}]
    /\ wants \in [Streams -> BOOLEAN]
    /\ remote \in [Streams -> BOOLEAN]
    /\ codec \in [Streams -> BOOLEAN]
    /\ perConn \in [Conns -> Int]
    /\ \A s \in Streams :
        /\ pc[s] = "idle" <=> on[s] = NoConn
        /\ on[s] \in Conns => state[on[s]] # "none"
        /\ pc[s] \notin {"idle", "asked"} => ready[on[s]]
        /\ remote[s] => pc[s] \in {"dialed", "reply", "relay", "unwind"}
        /\ pc[s] \in {"dialed", "reply", "relay"} => remote[s]
        /\ codec[s] => pc[s] \in {"reply", "relay", "unwind"} /\ remote[s] /\ wants[s] /\ Compression

-----------------------------------------------------------------------------
\* Before any stream is accepted no handler holds a lease.
LEMMA StructInit == Init => Struct
  BY ProxyAssumption DEF Init, Conn!Init, Struct

\* The steps of the abstract tunnels (Session) keep Struct.
LEMMA StructConn == Struct /\ ConnStep => Struct'
<1> SUFFICES ASSUME Struct, ConnStep PROVE Struct'
    OBVIOUS
<1> USE ProxyAssumption DEF Struct, ConnStep, streamVars
<1>1. CASE Conn!Rotates
  BY <1>1 DEF Conn!Rotates
<1>2. ASSUME NEW c \in Conns, Conn!Opens(c) PROVE Struct'
  BY <1>2 DEF Conn!Opens
<1>3. ASSUME NEW c \in Conns, Conn!Readies(c) PROVE Struct'
  BY <1>3 DEF Conn!Readies
<1>4. ASSUME NEW c \in Conns, Conn!Closes(c) PROVE Struct'
  BY <1>4 DEF Conn!Closes
<1>5. ASSUME NEW c \in Conns, Conn!Retires(c) PROVE Struct'
  BY <1>5 DEF Conn!Retires
<1>6. QED
  BY <1>1, <1>2, <1>3, <1>4, <1>5, Zenon DEF Conn!Next

\* The steps of a handler, and those around it (peer, dialer), keep Struct.
LEMMA StructStream ==
    ASSUME Struct, NEW s \in Streams, Handler(s) \/ Outside(s)
    PROVE  Struct'
<1> USE ProxyAssumption DEF Struct, connVars, budgets, Goto, Return
<1>1. CASE CheckAuth(s)
  BY <1>1 DEF CheckAuth
<1>2. CASE AcquireActive(s)
  BY <1>2 DEF AcquireActive
<1>3. CASE AcquireSlot(s)
  BY <1>3 DEF AcquireSlot
<1>4. CASE GivesUp(s)
  BY <1>4 DEF GivesUp
<1>5. CASE LeaseCodec(s)
  <2>1. CASE Compression /\ wants[s] /\ codecs < MaxCompressedStreams
    <3>1. codec' = [codec EXCEPT ![s] = TRUE] /\ pc' = [pc EXCEPT ![s] = "reply"]
      BY <1>5, <2>1 DEF LeaseCodec
    <3>2. codec' \in [Streams -> BOOLEAN]
      BY <3>1, Zenon
    <3>3. remote[s] /\ wants[s] /\ Compression /\ on[s] # NoConn
      BY <1>5, <2>1, Zenon DEF LeaseCodec
    <3>4. UNCHANGED <<state, ready, valid, on, wants, remote, perConn>>
      BY <1>5 DEF LeaseCodec
    <3>5. QED
      BY <1>5, <3>1, <3>2, <3>3, <3>4 DEF LeaseCodec
  <2>2. CASE ~(Compression /\ wants[s] /\ codecs < MaxCompressedStreams)
    BY <1>5, <2>2 DEF LeaseCodec
  <2>3. QED
    BY <2>1, <2>2, Zenon
<1>6. CASE Unwind(s)
  BY <1>6 DEF Unwind
<1>7. CASE FreeSlot(s)
  BY <1>7 DEF FreeSlot
<1>8. CASE ReleaseActive(s)
  BY <1>8 DEF ReleaseActive
<1>9. ASSUME NEW c \in Conns, Request(s, c) PROVE Struct'
  BY <1>9 DEF Request
<1>10. ASSUME NEW w \in BOOLEAN, ReadRequest(s, w) PROVE Struct'
  BY <1>10 DEF ReadRequest
<1>11. CASE DialSucceeds(s)
  BY <1>11 DEF DialSucceeds
<1>12. CASE Reply(s) \/ RelayEnds(s)
  BY <1>12 DEF Reply, RelayEnds
<1> HIDE DEF Struct
<1>13. QED
  BY <1>1, <1>2, <1>3, <1>4, <1>5, <1>6, <1>7, <1>8, <1>9, <1>10, <1>11, <1>12, Zenon
     DEF Handler, Outside

\* Every step keeps Struct.
LEMMA StructStep == Struct /\ [Next]_vars => Struct'
<1>1. Struct /\ UNCHANGED vars => Struct'
  BY DEF Struct, vars
<1>2. QED
  BY <1>1, StructConn, StructStream, Zenon DEF Next

-----------------------------------------------------------------------------
\* The three budgets: which leases a step takes or gives back

\* Only AcquireActive and ReleaseActive touch the stream leases, each for its own stream.
LEMMA ActiveStep == Struct /\ [Next]_vars => [Active!Next]_(Active!vars)
<1> SUFFICES ASSUME Struct, [Next]_vars PROVE [Active!Next]_(Active!vars)
    OBVIOUS
<1> USE DEF Active!vars, HoldsActive, Struct
<1>1. CASE ConnStep \/ UNCHANGED vars
  BY <1>1 DEF ConnStep, streamVars, vars
<1>2. ASSUME NEW s \in Streams, AcquireActive(s)
      PROVE [Active!Next]_(Active!vars)
  <2>1. CASE active < MaxActiveStreams
    <3>1. Active!TryAcquire(s)
      BY <1>2, <2>1 DEF AcquireActive, Goto, Active!TryAcquire
    <3>2. QED
      BY <3>1 DEF Active!Next
  <2>2. CASE ~(active < MaxActiveStreams)
    BY <1>2, <2>2 DEF AcquireActive, Goto, Return
  <2>3. QED
    BY <2>1, <2>2
<1>3. ASSUME NEW s \in Streams, ReleaseActive(s)
      PROVE [Active!Next]_(Active!vars)
  <2>1. Active!Release(s)
    BY <1>3, Zenon DEF ReleaseActive, Goto, Return, Active!Release
  <2>2. QED
    BY <2>1 DEF Active!Next
<1>4. ASSUME NEW s \in Streams, CheckAuth(s) \/ AcquireSlot(s) \/ GivesUp(s) \/ LeaseCodec(s)
      PROVE UNCHANGED Active!vars
  BY <1>4 DEF CheckAuth, AcquireSlot, GivesUp, LeaseCodec, Goto, Return, budgets
<1>5. ASSUME NEW s \in Streams, Unwind(s) \/ FreeSlot(s)
      PROVE UNCHANGED Active!vars
  BY <1>5 DEF Unwind, FreeSlot, Goto
<1>6. ASSUME NEW s \in Streams, Outside(s)
      PROVE UNCHANGED Active!vars
  BY <1>6 DEF Outside, Request, ReadRequest, DialSucceeds, Reply, RelayEnds, Goto, budgets
<1> HIDE DEF Active!vars, Struct
<1>7. QED
  BY <1>1, <1>2, <1>3, <1>4, <1>5, <1>6, Zenon DEF Next, Handler

\* Only LeaseCodec and Unwind touch the codec leases.
LEMMA CodecStep == Struct /\ [Next]_vars => [Codecs!Next]_(Codecs!vars)
<1> SUFFICES ASSUME Struct, [Next]_vars PROVE [Codecs!Next]_(Codecs!vars)
    OBVIOUS
<1> USE DEF Codecs!vars, HoldsCodec
<1>1. ASSUME NEW s \in Streams, LeaseCodec(s)
      PROVE [Codecs!Next]_(Codecs!vars)
  <2>1. CASE Compression /\ wants[s] /\ codecs < MaxCompressedStreams
    <3>1. codecs' = codecs + 1 /\ codec' = [codec EXCEPT ![s] = TRUE]
      BY <1>1, <2>1, Zenon DEF LeaseCodec
    <3>2. ~codec[s] /\ codec \in [Streams -> BOOLEAN]
      BY <1>1 DEF LeaseCodec, Struct
    <3>3. s \notin HoldsCodec /\ HoldsCodec' = HoldsCodec \cup {s}
      BY <3>1, <3>2, Zenon
    <3>4. Codecs!TryAcquire(s)
      BY <2>1, <3>1, <3>3, Zenon DEF Codecs!TryAcquire
    <3>5. QED
      BY <3>4 DEF Codecs!Next
  <2>2. CASE ~(Compression /\ wants[s] /\ codecs < MaxCompressedStreams)
    BY <1>1, <2>2 DEF LeaseCodec
  <2>3. QED
    BY <2>1, <2>2
<1>2. ASSUME NEW s \in Streams, Unwind(s)
      PROVE [Codecs!Next]_(Codecs!vars)
  <2>1. codec' = [codec EXCEPT ![s] = FALSE] /\ codec \in [Streams -> BOOLEAN]
    BY <1>2 DEF Unwind, Struct
  <2>2. HoldsCodec' = HoldsCodec \ {s}
    BY <2>1
  <2>3. CASE codec[s]
    <3>1. Codecs!Release(s)
      BY <1>2, <2>2, <2>3, Zenon DEF Unwind, Codecs!Release
    <3>2. QED
      BY <3>1 DEF Codecs!Next
  <2>4. CASE ~codec[s]
    <3>1. HoldsCodec' = HoldsCodec /\ codecs' = codecs
      BY <1>2, <2>2, <2>4, Zenon DEF Unwind
    <3>2. QED
      BY <3>1
  <2>5. QED
    BY <2>3, <2>4, Zenon
<1>3. ASSUME NEW s \in Streams,
             \/ CheckAuth(s) \/ AcquireActive(s) \/ AcquireSlot(s) \/ GivesUp(s) \/ FreeSlot(s)
             \/ ReleaseActive(s) \/ Outside(s)
      PROVE UNCHANGED Codecs!vars
  BY <1>3, Zenon DEF CheckAuth, AcquireActive, AcquireSlot, GivesUp, FreeSlot, ReleaseActive, Outside,
              Request, ReadRequest, DialSucceeds, Reply, RelayEnds, budgets
<1>4. CASE ConnStep \/ UNCHANGED vars
  BY <1>4 DEF ConnStep, streamVars, vars
<1> HIDE DEF Codecs!vars, HoldsCodec
<1>5. QED
  BY <1>1, <1>2, <1>3, <1>4, Zenon DEF Next, Handler

\* Only AcquireSlot and FreeSlot touch the slots of a connection, and only those of their own.
LEMMA SlotStep ==
    ASSUME Struct, [Next]_vars, NEW c \in Conns
    PROVE  [Slots(c)!Next]_(Slots(c)!vars)
<1> USE DEF Slots!vars, HoldsSlot, HoldsActive, Struct
<1>1. ASSUME NEW s \in Streams, AcquireSlot(s)
      PROVE [Slots(c)!Next]_(Slots(c)!vars)
  <2>1. CASE on[s] = c /\ perConn[c] < MaxStreamsPerConnection
    <3>1. Slots(c)!TryAcquire(s)
      BY <1>1, <2>1 DEF AcquireSlot, Goto, Slots!TryAcquire
    <3>2. QED
      BY <3>1, Zenon DEF Slots!Next
  <2>2. CASE ~(on[s] = c /\ perConn[c] < MaxStreamsPerConnection)
    BY <1>1, <2>2 DEF AcquireSlot, Goto
  <2>3. QED
    BY <2>1, <2>2, Zenon
<1>2. ASSUME NEW s \in Streams, FreeSlot(s)
      PROVE [Slots(c)!Next]_(Slots(c)!vars)
  <2>1. CASE on[s] = c
    <3>1. Slots(c)!Release(s)
      BY <1>2, <2>1, Zenon DEF FreeSlot, Goto, Slots!Release
    <3>2. QED
      BY <3>1, Zenon DEF Slots!Next
  <2>2. CASE on[s] # c
    BY <1>2, <2>2 DEF FreeSlot, Goto
  <2>3. QED
    BY <2>1, <2>2, Zenon
<1>3. ASSUME NEW s \in Streams, CheckAuth(s) \/ AcquireActive(s) \/ ReleaseActive(s)
      PROVE UNCHANGED Slots(c)!vars
  BY <1>3, ProxyAssumption DEF CheckAuth, AcquireActive, ReleaseActive, Goto, Return, budgets
<1>4. ASSUME NEW s \in Streams, GivesUp(s) \/ LeaseCodec(s) \/ Unwind(s)
      PROVE UNCHANGED Slots(c)!vars
  BY <1>4 DEF GivesUp, LeaseCodec, Unwind, Goto, budgets
<1>5. ASSUME NEW s \in Streams, Outside(s)
      PROVE UNCHANGED Slots(c)!vars
  BY <1>5 DEF Outside, Request, ReadRequest, DialSucceeds, Reply, RelayEnds, Goto, budgets
<1>6. CASE ConnStep \/ UNCHANGED vars
  BY <1>6 DEF ConnStep, streamVars, vars
<1> HIDE DEF Slots!vars, Struct
<1>7. QED
  BY <1>1, <1>2, <1>3, <1>4, <1>5, <1>6, Zenon DEF Next, Handler

\* The use that the handlers make of the three kinds of leases (s.active, s.codecs, cs.streams)
\* implements Budget: no path through serveHTTP and handleProxy loses a lease or gives one back
\* twice, however many connections, streams and leases there are.
THEOREM Leases == Spec => UsesBudgets
<1>1. Init => Active!Init /\ Codecs!Init /\ \A c \in Conns : Slots(c)!Init
  BY DEF Init, Active!Init, Codecs!Init, Slots!Init, HoldsActive, HoldsCodec, HoldsSlot
<1>2. Struct /\ [Next]_vars => [\A c \in Conns : [Slots(c)!Next]_(Slots(c)!vars)]_vars
  BY SlotStep
<1>3. QED
  BY <1>1, <1>2, StructInit, StructStep, ActiveStep, CodecStep, PTL
     DEF Spec, UsesBudgets, Active!Spec, Codecs!Spec

-----------------------------------------------------------------------------
\* The counters

LOCAL INSTANCE FiniteSetTheorems

Counts(n, Held, limit) == IsFiniteSet(Held) /\ n = Cardinality(Held) /\ n <= limit

\* A counter that follows the leases one by one keeps counting them, within its limit.
LEMMA CountStep ==
    ASSUME NEW n, NEW Held, NEW m, NEW K, NEW limit \in Nat, Counts(n, Held, limit),
           \/ \E l : l \notin Held /\ n < limit /\ m = n + 1 /\ K = Held \cup {l}
           \/ \E l : l \in Held /\ m = n - 1 /\ K = Held \ {l}
           \/ m = n /\ K = Held
    PROVE  Counts(m, K, limit)
<1> USE DEF Counts
<1>1. Cardinality(Held) \in Nat
  BY FS_CardinalityType
<1>2. ASSUME NEW l, l \notin Held, n < limit, m = n + 1, K = Held \cup {l}
      PROVE Counts(m, K, limit)
  BY <1>1, <1>2, FS_AddElement
<1>3. ASSUME NEW l, l \in Held, m = n - 1, K = Held \ {l}
      PROVE Counts(m, K, limit)
  BY <1>1, <1>3, FS_RemoveElement
<1>4. QED
  BY <1>2, <1>3, Zenon

Counted ==
    /\ Counts(active, HoldsActive, MaxActiveStreams)
    /\ Counts(codecs, HoldsCodec, MaxCompressedStreams)
    /\ \A c \in Conns : Counts(perConn[c], HoldsSlot(c), MaxStreamsPerConnection)

\* At the start the counters and the holders are both zero.
LEMMA CountedInit == Init => Counted
<1> SUFFICES ASSUME Init PROVE Counted
    BY Zenon
<1>1. HoldsActive = {} /\ HoldsCodec = {} /\ \A c \in Conns : HoldsSlot(c) = {}
  BY DEF Init, HoldsActive, HoldsCodec, HoldsSlot
<1>2. QED
  BY <1>1, FS_EmptySet, ProxyAssumption DEF Init, Counted, Counts

\* A step changes a counter exactly when it changes the set of its holders.
LEMMA CountedStep == Struct /\ Counted /\ [Next]_vars => Counted'
<1> SUFFICES ASSUME Struct, Counted, [Next]_vars PROVE Counted'
    OBVIOUS
<1>1. Counts(active', HoldsActive', MaxActiveStreams)
  <2>1. [Active!Next]_(Active!vars)
    BY ActiveStep
  <2>2. QED
    BY <2>1, CountStep, ProxyAssumption, Zenon
       DEF Counted, Active!Next, Active!TryAcquire, Active!Release, Active!vars
<1>2. Counts(codecs', HoldsCodec', MaxCompressedStreams)
  <2>1. [Codecs!Next]_(Codecs!vars)
    BY CodecStep, Zenon
  <2>2. QED
    BY <2>1, CountStep, ProxyAssumption, Zenon
       DEF Counted, Codecs!Next, Codecs!TryAcquire, Codecs!Release, Codecs!vars
<1>3. ASSUME NEW c \in Conns
      PROVE Counts(perConn'[c], HoldsSlot(c)', MaxStreamsPerConnection)
  <2>1. [Slots(c)!Next]_(Slots(c)!vars)
    BY SlotStep
  <2>2. QED
    BY <2>1, CountStep, ProxyAssumption, Zenon
       DEF Counted, Slots!Next, Slots!TryAcquire, Slots!Release, Slots!vars
<1>4. QED
  BY <1>1, <1>2, <1>3 DEF Counted, Counts

\* What a handler of a proxied stream holds follows from where it is, it serves an authenticated
\* connection that is not forgotten, and no limit is exceeded (serveHTTP, handleProxy), for any
\* number of connections, streams and leases.
THEOREM Ownership == Spec => []HandlerOwns
<1>1. Struct /\ Counted => HandlerOwns
  <2> SUFFICES ASSUME Struct, Counted PROVE HandlerOwns
    OBVIOUS
  <2>1. active \in 0..MaxActiveStreams /\ codecs \in 0..MaxCompressedStreams
    BY FS_CardinalityType, ProxyAssumption DEF Counted, Counts
  <2>2. \A c \in Conns : perConn[c] \in 0..MaxStreamsPerConnection
    BY FS_CardinalityType, ProxyAssumption DEF Counted, Counts
  <2>3. QED
    BY <2>1, <2>2 DEF Struct, HandlerOwns, TypeOK
<1>2. QED
  BY <1>1, StructInit, StructStep, CountedInit, CountedStep, PTL DEF Spec

=============================================================================
