------------------------------- MODULE Timers -------------------------------
(***************************************************************************)
(* The two parts of a server's tunnel that measure time, by one clock: the *)
(* bucket that limits the new UDP flows of a connection (TokenBucket) and  *)
(* the heartbeat that keeps the connection (Heartbeat). When the server    *)
(* leaves the heartbeat the connection is closed, and no flow asks again.  *)
(***************************************************************************)
EXTENDS TokenBucket

CONSTANTS Idles, Delay, Handshake

VARIABLES idle, client, ticker, due, deadline, server, expiry, wire, age, silence

H == INSTANCE Heartbeat

\* (validate accepts no IdleTimeout below 5s, and relates neither of the two to the other.)
ASSUME TimersAssumption ==
    /\ Delay \in Nat /\ Handshake \in Nat /\ Delay < Handshake
    /\ Idles \subseteq (Nat \ 0..2) \X Nat

beatVars == <<idle, client, ticker, due, deadline, server, expiry, wire, age, silence>>
allVars == <<bucketVars, beatVars>>

TimersInit == BucketInit /\ H!Init

\* A step of the heartbeat that takes no time.
Beat ==
    /\ \/ H!ReplyArrives \/ H!Ping \/ H!PongArrives \/ H!ClientLeaves
       \/ H!PingArrives \/ H!ServerLeaves \/ H!Cut
    /\ UNCHANGED bucketVars

Opens ==
    /\ server = "reading"
    /\ Ask
    /\ UNCHANGED beatVars

Passes == H!Tick /\ BucketTick

TimersNext == Beat \/ Opens \/ Passes

TimersSpec == TimersInit /\ [][TimersNext]_allVars

-----------------------------------------------------------------------------
\* The IdleTimeouts of the instance: the defaults, short ones on one side or both, and a server
\* whose timeout is just long enough for the first ping, just too short, and shorter than the
\* client's interval.
IdlePairs == {<<60 * Second, 60 * Second>>, <<6 * Second, 6 * Second>>,
              <<6 * Second, 60 * Second>>, <<60 * Second, 12 * Second>>,
              <<60 * Second, 11 * Second>>, <<60 * Second, 5 * Second>>}

\* Properties

\* The heartbeat is an accurate and complete detector of failures (HealthyStaysUp and
\* SilenceNoticed of Heartbeat): an idle tunnel over a working path that their timeouts tolerate is
\* kept by both ends, and a silent path is noticed by both in time (runHeartbeat, handleControl).
DetectorExact == H!HealthyStaysUp /\ H!SilenceNoticed

=============================================================================
