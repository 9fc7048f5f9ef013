----------------------------- MODULE Heartbeat ------------------------------
(***************************************************************************)
(* The ping loop on the control stream: runHeartbeat (client/client.go)    *)
(* and the loop of handleControl (server/server.go), by the clock, from    *)
(* the reply on that ends the authentication: the server's deadline runs   *)
(* from when it is sent, the client's ticker from when it has arrived.     *)
(* Goroutines are quick: time passes only when none has a step to take.    *)
(* QUIC is external: a byte arrives within Delay ticks, or, once the path  *)
(* is cut, never.                                                          *)
(***************************************************************************)
EXTENDS Integers

CONSTANTS
    Second, \* ticks of a second
    Idles,  \* pairs of IdleTimeouts, in ticks: the client's and the server's
    Delay,  \* longest one-way delay of a working path
    Handshake \* HandshakeTimeout of the client, in ticks

VARIABLES
    idle,     \* the two IdleTimeouts
    client,   \* runHeartbeat: "select", "pong" (reading) or "left"; before it, "auth"
    ticker,   \* ticks until the ticker fires
    due,      \* the ticker's channel holds a tick
    deadline, \* ticks until the client's deadline on the control stream
    server,   \* the server's loop: "reading" or "left"
    expiry,   \* ticks until the server's read deadline
    wire,     \* the byte on its way: "none", "reply", "ping" or "pong"
    age,      \* ticks it has been on its way
    silence   \* ticks since the path was cut, -1 if it works

vars == <<idle, client, ticker, due, deadline, server, expiry, wire, age, silence>>
clientVars == <<client, ticker, due, deadline>>
wireVars == <<wire, age>>

Least(a, b) == IF a < b THEN a ELSE b

\* The constants heartbeatInterval and heartbeatTimeout.
Interval(i) == Least(10 * Second, i \div 3)

Timeout(i) == Least(15 * Second, i \div 2)

\* The server has accepted the client's proof, sent its reply and begun to wait for a ping. The
\* client waits for the reply, and a working path brings it before the end of HandshakeTimeout
\* (a handshake that comes too late is one of the failures of Dial in TunnelClient).
Init ==
    /\ idle \in Idles
    /\ client = "auth" /\ ticker = Interval(idle[1]) /\ due = FALSE
    /\ deadline \in (Delay + 1)..Handshake
    /\ server = "reading" /\ expiry = idle[2]
    /\ wire = "reply" /\ age = 0 /\ silence = -1

-----------------------------------------------------------------------------
\* The client

\* ClientAuth returns, the deadline is cleared, and runHeartbeat starts its ticker.
ReplyArrives ==
    /\ client = "auth" /\ wire = "reply" /\ silence < 0
    /\ client' = "select"
    /\ deadline' = 0
    /\ wire' = "none" /\ age' = 0
    /\ UNCHANGED <<idle, ticker, due, server, expiry, silence>>

\* Mutant of Ping: the deadline of the first ping stays.
PingOnce ==
    /\ client = "select" /\ due
    /\ due' = FALSE
    /\ deadline' = IF deadline = 0 THEN Timeout(idle[1]) ELSE deadline
    /\ client' = "pong"
    /\ wire' = "ping" /\ age' = 0
    /\ UNCHANGED <<idle, ticker, server, expiry, silence>>

Ping ==
    /\ client = "select" /\ due
    /\ due' = FALSE
    /\ deadline' = Timeout(idle[1])
    /\ client' = "pong"
    /\ wire' = "ping" /\ age' = 0
    /\ UNCHANGED <<idle, ticker, server, expiry, silence>>

PongArrives ==
    /\ client = "pong" /\ wire = "pong" /\ silence < 0
    /\ client' = "select"
    /\ wire' = "none" /\ age' = 0
    /\ UNCHANGED <<idle, ticker, due, deadline, server, expiry, silence>>

\* The deadline has passed, or the server has closed the connection.
ClientDone ==
    \/ client \in {"auth", "pong"} /\ deadline = 0
    \/ client # "left" /\ server = "left" /\ silence < 0

\* dialAuth or runHeartbeat returns, and the connection is closed.
ClientLeaves ==
    /\ ClientDone
    /\ client' = "left"
    /\ UNCHANGED <<idle, ticker, due, deadline, server, expiry, wireVars, silence>>

-----------------------------------------------------------------------------
\* The server

\* The ping is answered, and the next one has IdleTimeout to come.
PingArrives ==
    /\ server = "reading" /\ wire = "ping" /\ silence < 0
    /\ wire' = "pong" /\ age' = 0
    /\ expiry' = idle[2]
    /\ UNCHANGED <<idle, clientVars, server, silence>>

\* The read deadline has passed, or the client has closed the connection.
ServerDone == server = "reading" /\ (expiry = 0 \/ (client = "left" /\ silence < 0))

ServerLeaves ==
    /\ ServerDone
    /\ server' = "left"
    /\ UNCHANGED <<idle, clientVars, expiry, wireVars, silence>>

-----------------------------------------------------------------------------
\* The path and the clock

Cut ==
    /\ silence < 0
    /\ silence' = 0
    /\ UNCHANGED <<idle, clientVars, server, expiry, wireVars>>

Urgent ==
    \/ client = "select" /\ due
    \/ ClientDone \/ ServerDone
    \/ silence < 0 /\ wire # "none" /\ age = Delay /\ "left" \notin {client, server}

Countdown(n) == IF n = 0 THEN 0 ELSE n - 1

Tick ==
    /\ ~Urgent
    /\ ticker' = IF client = "auth" THEN ticker
                 ELSE IF ticker = 1 THEN Interval(idle[1]) ELSE ticker - 1
    /\ due' = (due \/ (client # "auth" /\ ticker = 1))
    /\ deadline' = Countdown(deadline)
    /\ expiry' = Countdown(expiry)
    /\ age' = IF wire = "none" \/ silence >= 0 \/ age = Delay THEN age ELSE age + 1
    /\ silence' = IF silence < 0 \/ {client, server} = {"left"} THEN silence ELSE silence + 1
    /\ UNCHANGED <<idle, client, server, wire>>

Next ==
    \/ ReplyArrives \/ Ping \/ PongArrives \/ ClientLeaves \/ PingArrives \/ ServerLeaves \/ Cut \/ Tick

Spec == Init /\ [][Next]_vars

-----------------------------------------------------------------------------
\* Properties

\* The path leaves room: a pong comes within the client's timeout, and the first ping, which waits
\* for the reply and for the ticker, within the server's. validate does not ask for it.
Tolerates(i) == 2 * Delay < Timeout(i[1]) /\ Interval(i[1]) + 2 * Delay < i[2]

\* An idle tunnel over a working path that the timeouts tolerate is kept: neither end gives it up,
\* although each measures the other by a timeout of its own and pings only go one way.
HealthyStaysUp == silence < 0 /\ Tolerates(idle) => client # "left" /\ server # "left"

\* A silent peer is noticed by both ends, whatever the timeouts: "default heartbeat detection
\* permits 10s interval +15s response deadline before reconnect", by the client always before its
\* idle timeout (or the end of its handshake), and by the server within its own.
SilenceNoticed ==
    /\ client = "auth" => silence <= Handshake
    /\ client \in {"select", "pong"} => silence <= 25 * Second /\ 6 * silence <= 5 * idle[1]
    /\ server # "left" => silence <= idle[2]

=============================================================================
