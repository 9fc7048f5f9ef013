------------------------------- MODULE Budget -------------------------------
(***************************************************************************)
(* What an admission.Budget promises: a bounded number of leases, granted  *)
(* without waiting, each of them given back once. Server and client are    *)
(* shown to use their stream and codec budgets as this module describes.   *)
(***************************************************************************)
EXTENDS Integers, FiniteSets

CONSTANTS
    Leases,  \* holders of a lease
    Limit    \* capacity of the slots channel

VARIABLES
    inUse,   \* len(b.slots)
    holders  \* leases granted and not yet released

vars == <<inUse, holders>>

Init == inUse = 0 /\ holders = {}

\* TryAcquire finds room in the channel; a full channel refuses at once and changes nothing.
TryAcquire(l) ==
    /\ l \notin holders
    /\ inUse < Limit
    /\ inUse' = inUse + 1
    /\ holders' = holders \cup {l}

\* The first Release of a lease; later ones are stopped by the lease's sync.Once.
Release(l) ==
    /\ l \in holders
    /\ inUse' = inUse - 1
    /\ holders' = holders \ {l}

Next == \E l \in Leases : TryAcquire(l) \/ Release(l)

Spec == Init /\ [][Next]_vars

-----------------------------------------------------------------------------
\* The channel holds one entry per lease in use, and never more than its capacity.
Accounting ==
    /\ holders \in SUBSET Leases
    /\ IsFiniteSet(holders)
    /\ inUse = Cardinality(holders)
    /\ inUse \in 0..Limit

=============================================================================
