------------------------------ MODULE Resolver ------------------------------
(***************************************************************************)
(* The server's resolver (acl/acl.go): the destination policy, name        *)
(* resolution bounded by a budget of lookups, and the dial that races the  *)
(* two address families. A rule is the set of hosts it matches: a CIDR     *)
(* covers addresses, a domain covers itself and its subdomains.            *)
(***************************************************************************)
EXTENDS Integers, Sequences, FiniteSets, Functions

CONSTANTS
    Calls,      \* names of DialContext calls
    Names,      \* domain names, canonical
    IP4, IP6,   \* addresses, canonical: IPv4-mapped IPv6 is IPv4
    Ports,
    Policies,   \* records of allowHosts, denyHosts (sets of rules), allowPorts, denyPorts
    Answers,    \* sequences of addresses that a lookup may return
    Networks,   \* "tcp", "udp"
    MaxLookups  \* capacity of r.slots

ASSUME ResolverAssumption ==
    /\ Names \cap (IP4 \cup IP6) = {} /\ IP4 \cap IP6 = {}
    /\ IsFiniteSet(Calls)
    /\ Answers \subseteq Seq(IP4 \cup IP6)
    /\ MaxLookups \in Nat \ {0}

VARIABLES
    policy,   \* the List; it never changes
    pc,       \* progress of DialContext
    target,   \* its destination: host, port and network
    done,     \* the context of the call is done
    failed,   \* firstErr is set
    addrs,    \* the addresses each branch has still to try
    branch,   \* the goroutine of each address family; "primary" is inline when there is no race
    open,     \* the branch's connection is open
    result,   \* the branch whose connection the caller got
    slots     \* len(r.slots)

vars == <<policy, pc, target, done, failed, addrs, branch, open, result, slots>>

IPs == IP4 \cup IP6
Branches == {"primary", "fallback"}
Targets == [host : Names \cup IPs, port : Ports, network : Networks]

-----------------------------------------------------------------------------
\* Policy

portsAllowed(p) ==
    /\ p \notin policy.denyPorts
    /\ policy.allowPorts = {} \/ p \in policy.allowPorts

matchAny(rules, h) == \E r \in rules : h \in r

\* Allowed: a literal address, without resolution.
Allowed(t) ==
    /\ portsAllowed(t.port)
    /\ ~matchAny(policy.denyHosts, t.host)
    /\ policy.allowHosts = {} \/ matchAny(policy.allowHosts, t.host)

\* Mutant of resolvedAllowed: a denied address passes if its name does.
resolvedAllowedByName(t, ip) ==
    /\ portsAllowed(t.port)
    /\ ~matchAny(policy.denyHosts, t.host)
    /\ \/ policy.allowHosts = {}
       \/ matchAny(policy.allowHosts, t.host)
       \/ matchAny(policy.allowHosts, ip)

\* The name and the address it resolved to: either may be denied, either may be allowed.
resolvedAllowed(t, ip) ==
    /\ portsAllowed(t.port)
    /\ ~matchAny(policy.denyHosts, t.host) /\ ~matchAny(policy.denyHosts, ip)
    /\ \/ policy.allowHosts = {}
       \/ matchAny(policy.allowHosts, t.host)
       \/ matchAny(policy.allowHosts, ip)

\* The loops over addresses: those of a list that are in A, in its order and without duplicates
\* (an approved list has none, so that splitting it into families drops nothing).
Keep(list, A) ==
    LET kept[n \in 0..Len(list)] ==
            IF n = 0 THEN <<>>
            ELSE IF list[n] \in A \ Range(kept[n - 1]) THEN Append(kept[n - 1], list[n])
            ELSE kept[n - 1]
    IN  kept[Len(list)]

\* The addresses of an answer that may be dialled.
Approved(t, answer) == Keep(answer, {ip \in IPs : resolvedAllowed(t, ip)})

\* The addresses of one Atyp.
Family(ip) == IF ip \in IP4 THEN IP4 ELSE IP6

-----------------------------------------------------------------------------
Init ==
    /\ policy \in Policies
    /\ pc = [c \in Calls |-> "idle"]
    /\ target \in [Calls -> Targets]
    /\ done = [c \in Calls |-> FALSE]
    /\ failed = [c \in Calls |-> FALSE]
    /\ addrs = [c \in Calls |-> [b \in Branches |-> <<>>]]
    /\ branch = [c \in Calls |-> [b \in Branches |-> "none"]]
    /\ open = [c \in Calls |-> [b \in Branches |-> FALSE]]
    /\ result = [c \in Calls |-> "none"]
    /\ slots = 0

\* DialContext with the addresses that Resolve approved: one list, tried in order, unless TCP
\* has two families to race. The branch of the first family starts at once.
StartDial(c, list) ==
    LET first == Keep(list, Family(list[1]))
        second == Keep(list, IPs \ Family(list[1]))
        races == target[c].network = "tcp" /\ second # <<>>
    IN  /\ pc' = [pc EXCEPT ![c] = IF races THEN "race" ELSE "inline"]
        /\ addrs' = [addrs EXCEPT ![c] = [primary |-> IF races THEN first ELSE list,
                                          fallback |-> IF races THEN second ELSE <<>>]]
        /\ branch' = [branch EXCEPT ![c] = [primary |-> "dialing", fallback |-> "none"]]

\* The call returns without a connection.
Fails(c) ==
    /\ pc' = [pc EXCEPT ![c] = "returned"]
    /\ UNCHANGED <<addrs, branch>>

\* Resolve: a literal is checked, a name that is not denied needs a lookup slot. The select may
\* take a free slot although the context is done.
Resolve(c) ==
    /\ pc[c] = "idle"
    /\ IF ~portsAllowed(target[c].port)
       THEN Fails(c) /\ UNCHANGED slots
       ELSE IF target[c].host \in IPs
       THEN /\ IF Allowed(target[c]) THEN StartDial(c, <<target[c].host>>) ELSE Fails(c)
            /\ UNCHANGED slots
       ELSE IF matchAny(policy.denyHosts, target[c].host)
       THEN Fails(c) /\ UNCHANGED slots
       ELSE \/ /\ done[c] \/ slots = MaxLookups
               /\ Fails(c)
               /\ UNCHANGED slots
            \/ /\ slots < MaxLookups
               /\ pc' = [pc EXCEPT ![c] = "lookup"]
               /\ slots' = slots + 1
               /\ UNCHANGED <<addrs, branch>>
    /\ UNCHANGED <<policy, target, done, failed, open, result>>

\* The lookup answers once; what it returned is what is dialled.
LookupAnswers(c, answer) ==
    /\ pc[c] = "lookup"
    /\ slots' = slots - 1
    /\ IF Approved(target[c], answer) = <<>>
       THEN Fails(c)
       ELSE StartDial(c, Approved(target[c], answer))
    /\ UNCHANGED <<policy, target, done, failed, open, result>>

LookupFails(c) ==
    /\ pc[c] = "lookup"
    /\ slots' = slots - 1
    /\ Fails(c)
    /\ UNCHANGED <<policy, target, done, failed, open, result>>

\* The caller's context ends, or its deadline passes.
Cancelled(c) ==
    /\ pc[c] \in {"idle", "lookup", "inline", "race"}
    /\ ~done[c]
    /\ done' = [done EXCEPT ![c] = TRUE]
    /\ UNCHANGED <<policy, pc, target, failed, addrs, branch, open, result, slots>>

-----------------------------------------------------------------------------
\* dialAddresses

Connects(c, b) ==
    /\ branch[c][b] = "dialing"
    /\ ~done[c]
    /\ branch' = [branch EXCEPT ![c][b] = "connected"]
    /\ open' = [open EXCEPT ![c][b] = TRUE]
    /\ UNCHANGED <<policy, pc, target, done, failed, addrs, result, slots>>

\* The attempt fails or times out; the next address is tried, unless the context is done.
Refused(c, b) ==
    /\ branch[c][b] = "dialing"
    /\ addrs' = [addrs EXCEPT ![c][b] = Tail(@)]
    /\ branch' = [branch EXCEPT ![c][b] = IF done[c] \/ Len(addrs[c][b]) = 1 THEN "failed" ELSE @]
    /\ UNCHANGED <<policy, pc, target, done, failed, open, result, slots>>

-----------------------------------------------------------------------------
\* The race

FallbackTimer(c) ==
    /\ pc[c] = "race"
    /\ branch[c]["fallback"] = "none"
    /\ branch' = [branch EXCEPT ![c]["fallback"] = "dialing"]
    /\ UNCHANGED <<policy, pc, target, done, failed, addrs, open, result, slots>>

\* The select, or the inline call, takes a connection; returning cancels the other branch.
Wins(c, b) ==
    /\ pc[c] \in {"inline", "race"}
    /\ branch[c][b] = "connected"
    /\ pc' = [pc EXCEPT ![c] = "returned"]
    /\ done' = [done EXCEPT ![c] = TRUE]
    /\ branch' = [branch EXCEPT ![c][b] = "done"]
    /\ result' = [result EXCEPT ![c] = b]
    /\ UNCHANGED <<policy, target, failed, addrs, open, slots>>

\* The select takes an error: the first one starts the fallback, the second one is final.
Loses(c, b) ==
    /\ pc[c] = "race"
    /\ branch[c][b] = "failed"
    /\ failed' = [failed EXCEPT ![c] = TRUE]
    /\ pc' = [pc EXCEPT ![c] = IF failed[c] THEN "returned" ELSE "race"]
    /\ done' = [done EXCEPT ![c] = failed[c] \/ @]
    /\ branch' = [branch EXCEPT ![c] =
                     [x \in Branches |-> IF x = b THEN "done"
                                         ELSE IF @[x] = "none" THEN "dialing" ELSE @[x]]]
    /\ UNCHANGED <<policy, target, addrs, open, result, slots>>

InlineFails(c) ==
    /\ pc[c] = "inline"
    /\ branch[c]["primary"] = "failed"
    /\ pc' = [pc EXCEPT ![c] = "returned"]
    /\ branch' = [branch EXCEPT ![c]["primary"] = "done"]
    /\ done' = [done EXCEPT ![c] = TRUE]
    /\ UNCHANGED <<policy, target, failed, addrs, open, result, slots>>

\* Mutant of GivesUp: the select watches the context only after a first error.
GivesUpAfterFailure(c) ==
    /\ pc[c] = "race"
    /\ done[c] /\ failed[c]
    /\ pc' = [pc EXCEPT ![c] = "returned"]
    /\ UNCHANGED <<policy, target, done, failed, addrs, branch, open, result, slots>>

\* The select sees the context done.
GivesUp(c) ==
    /\ pc[c] = "race"
    /\ done[c]
    /\ pc' = [pc EXCEPT ![c] = "returned"]
    /\ UNCHANGED <<policy, target, done, failed, addrs, branch, open, result, slots>>

\* Mutant of Abandons: the surplus connection is not closed.
AbandonsOpen(c, b) ==
    /\ pc[c] # "inline"
    /\ branch[c][b] \in {"connected", "failed"}
    /\ done[c]
    /\ branch' = [branch EXCEPT ![c][b] = "done"]
    /\ UNCHANGED <<policy, pc, target, done, failed, addrs, open, result, slots>>

\* A racing branch nobody listens to any more closes what it dialled.
Abandons(c, b) ==
    /\ pc[c] # "inline"
    /\ branch[c][b] \in {"connected", "failed"}
    /\ done[c]
    /\ branch' = [branch EXCEPT ![c][b] = "done"]
    /\ open' = [open EXCEPT ![c][b] = FALSE]
    /\ UNCHANGED <<policy, pc, target, done, failed, addrs, result, slots>>

\* The caller closes the connection it was given and dials again.
CallerCloses(c, t) ==
    /\ pc[c] = "returned"
    /\ \A b \in Branches : branch[c][b] \in {"none", "done"}
    /\ pc' = [pc EXCEPT ![c] = "idle"]
    /\ target' = [target EXCEPT ![c] = t]
    /\ done' = [done EXCEPT ![c] = FALSE]
    /\ failed' = [failed EXCEPT ![c] = FALSE]
    /\ addrs' = [addrs EXCEPT ![c] = [b \in Branches |-> <<>>]]
    /\ branch' = [branch EXCEPT ![c] = [b \in Branches |-> "none"]]
    /\ open' = [open EXCEPT ![c] = [b \in Branches |-> IF b = result[c] THEN FALSE ELSE @[b]]]
    /\ result' = [result EXCEPT ![c] = "none"]
    /\ UNCHANGED <<policy, slots>>

-----------------------------------------------------------------------------
Dialer(c, b) == Connects(c, b) \/ Refused(c, b) \/ Abandons(c, b)

Select(c) ==
    \/ FallbackTimer(c) \/ InlineFails(c) \/ GivesUp(c)
    \/ \E b \in Branches : Wins(c, b) \/ Loses(c, b)

Next == \E c \in Calls :
    \/ Resolve(c) \/ LookupFails(c) \/ Cancelled(c) \/ Select(c)
    \/ \E answer \in Answers : LookupAnswers(c, answer)
    \/ \E b \in Branches : Dialer(c, b)
    \/ \E t \in Targets : CallerCloses(c, t)

Spec == Init /\ [][Next]_vars

\* Goroutines run; lookups and dials have timeouts.
Fairness == \A c \in Calls :
    /\ WF_vars(Resolve(c)) /\ WF_vars(LookupFails(c)) /\ WF_vars(Select(c))
    /\ \A b \in Branches : WF_vars(Refused(c, b)) /\ WF_vars(Abandons(c, b))

FairSpec == Spec /\ Fairness

-----------------------------------------------------------------------------
\* Properties

\* Every variable keeps its type, and lookups their limit.
TypeOK ==
    /\ policy \in Policies
    /\ pc \in [Calls -> {"idle", "lookup", "inline", "race", "returned"}]
    /\ target \in [Calls -> Targets]
    /\ done \in [Calls -> BOOLEAN]
    /\ failed \in [Calls -> BOOLEAN]
    /\ addrs \in [Calls -> [Branches -> Seq(IPs)]]
    /\ branch \in [Calls -> [Branches -> {"none", "dialing", "connected", "failed", "done"}]]
    /\ open \in [Calls -> [Branches -> BOOLEAN]]
    /\ result \in [Calls -> Branches \cup {"none"}]
    /\ slots \in 0..MaxLookups

\* What the operator configured: a denied port, name or address is never reached, and with an
\* allow list the port, and the name or the address, must be on it.
Permitted(t, ip) ==
    /\ t.port \notin policy.denyPorts
    /\ policy.allowPorts # {} => t.port \in policy.allowPorts
    /\ \A r \in policy.denyHosts : r \cap {t.host, ip} = {}
    /\ policy.allowHosts # {} => \E r \in policy.allowHosts : r \cap {t.host, ip} # {}

\* "DialContext connects only to the numeric endpoints approved by Resolve": on every path, and
\* whatever the lookup returned, no address is tried that the configuration does not permit,
\* and no two attempts of a call are for one address.
OnlyPermittedDialled ==
    \A c \in Calls :
        /\ \A b \in Branches : \A ip \in Range(addrs[c][b]) : Permitted(target[c], ip)
        /\ \A b \in Branches : IsInjective(addrs[c][b])
        /\ Range(addrs[c]["primary"]) \cap Range(addrs[c]["fallback"]) = {}

\* Every open connection has an owner that will close it: the branch that dialled it, while it
\* can still hand it over or close it, or the caller it was returned to.
ConnectionOwned ==
    /\ TypeOK
    /\ \A c \in Calls, b \in Branches :
        open[c][b] => \/ result[c] = b
                      \/ branch[c][b] = "connected" /\ (pc[c] = "returned" => done[c])

Lookups == INSTANCE Budget WITH
    Leases <- Calls, Limit <- MaxLookups, inUse <- slots,
    holders <- {c \in Calls : pc[c] = "lookup"}

\* A call returns although every lookup and every dial may hang until its timeout, and leaves no
\* goroutine and no surplus connection behind: the losing branch ends and closes what it dialled,
\* although nobody receives its result. The lookups in progress are counted exactly, and bounded
\* without waiting.
DialEnds ==
    /\ Lookups!Spec
    /\ \A c \in Calls : (pc[c] # "idle") ~>
        /\ pc[c] = "returned"
        /\ \A b \in Branches : branch[c][b] \in {"none", "done"} /\ (open[c][b] => result[c] = b)

=============================================================================
