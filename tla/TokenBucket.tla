---------------------------- MODULE TokenBucket -----------------------------
(***************************************************************************)
(* server/udp.go, send: the rate at which a NAT opens new flows. The code  *)
(* keeps a number of tokens and the time they were last counted, and       *)
(* refills them when the next new flow asks. Time passes in ticks, Second  *)
(* of them a second; tokens are counted in parts of one Second-th, so that *)
(* the refill is exact. (The code uses floating point.)                    *)
(***************************************************************************)
EXTENDS Integers

CONSTANTS
    NewFlowsPerSecond, \* opt.NewFlowsPerSecond
    Second,            \* ticks of a second, and parts of a token
    MaxLag             \* bound: a longer lag is not told from this one

ASSUME BucketAssumption ==
    /\ NewFlowsPerSecond \in Nat \ {0}
    /\ Second \in Nat \ {0}
    /\ MaxLag \in Nat /\ MaxLag >= Second

VARIABLES
    tokens, \* n.tokens
    lag,    \* now - n.tokenTime
    level   \* observer: the ideal leaky bucket, see RateExact

bucketVars == <<tokens, lag, level>>

Min(a, b) == IF a < b THEN a ELSE b

\* A second's worth of flows.
Full == NewFlowsPerSecond * Second

BucketInit ==
    /\ tokens = Full /\ lag = 0
    /\ level = 0

BucketTick ==
    /\ lag' = Min(lag + 1, MaxLag)
    /\ level' = IF level < NewFlowsPerSecond THEN 0 ELSE level - NewFlowsPerSecond
    /\ UNCHANGED tokens

Refilled == Min(Full, tokens + lag * NewFlowsPerSecond)

\* Mutant of Ask: a refusal restarts the clock without crediting the time that passed.
AskForfeits ==
    /\ lag' = 0
    /\ IF Refilled < Second
       THEN UNCHANGED <<tokens, level>>
       ELSE tokens' = Refilled - Second /\ level' = level + Second

\* A new flow asks: without a whole token it is dropped, but the refill counts either way.
Ask ==
    /\ lag' = 0
    /\ IF Refilled < Second
       THEN tokens' = Refilled /\ UNCHANGED level
       ELSE tokens' = Refilled - Second /\ level' = level + Second

BucketNext == BucketTick \/ Ask

BucketSpec == BucketInit /\ [][BucketNext]_bucketVars

-----------------------------------------------------------------------------
\* Properties

\* Every variable keeps its type.
BucketTypeOK == tokens \in 0..Full /\ lag \in 0..MaxLag /\ level \in Nat

\* The lazy refill is exact. level rises by one flow's worth with each admitted flow and drains
\* at the allowed rate: it is the most by which any window of time up to now has exceeded the
\* rate. The bucket holds exactly what is missing to a full second's burst: never more, so that
\* any window of t seconds admits at most (t + 1) * NewFlowsPerSecond flows, and never less, so
\* that no flow within the rate is dropped, however requests and refusals are spaced.
RateExact == BucketTypeOK /\ level \in 0..Full /\ Refilled = Full - level

=============================================================================
