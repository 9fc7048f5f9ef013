--------------------------- MODULE ResolverProofs ---------------------------
(***************************************************************************)
(* Resolve and DialContext of acl.go, for any number of calls, policies,   *)
(* targets and answers. The loops over addresses come first: what they     *)
(* compute is shown by induction over a set of naturals, since the least   *)
(* element of a set is a first-order fact.                                 *)
(***************************************************************************)
EXTENDS Resolver, FiniteSetTheorems, WellFoundedInduction, TLAPS

\* The least-element principle of the naturals as induction over a set.
LEMMA SetInduction ==
  ASSUME NEW S, 0 \in S, \A n \in Nat : n \in S => n + 1 \in S
  PROVE  Nat \subseteq S
<1> SUFFICES ASSUME Nat \ S # {} PROVE FALSE
  OBVIOUS
<1> DEFINE T == Nat \ S
<1>1. PICK x \in T : \A y \in T : ~ (<<y, x>> \in OpToRel(<, Nat))
  <2>1. T \subseteq Nat /\ T # {}
    OBVIOUS
  <2> HIDE DEF T
  <2> QED
    BY <2>1, WFMin, NatLessThanWellFounded
<1>2. x # 0 /\ x - 1 \in Nat /\ x \in Nat
  OBVIOUS
<1>3. x - 1 \in S
  <2> SUFFICES ASSUME x - 1 \notin S PROVE FALSE
    OBVIOUS
  <2>1. x - 1 \in T
    BY <1>2
  <2>2. <<x - 1, x>> \in OpToRel(<, Nat)
    BY <1>2 DEF OpToRel
  <2> QED
    BY <1>1, <2>1, <2>2
<1> QED
  BY <1>2, <1>3

\* One turn of the loop: what is kept of the first n addresses, given what is kept of fewer.
Turn(list, A, f, n) ==
    IF n = 0 THEN <<>>
    ELSE IF list[n] \in A \ Range(f[n - 1]) THEN Append(f[n - 1], list[n])
    ELSE f[n - 1]

\* The loop computes something: a function that meets the recursive definition of Keep exists.
LEMMA KeepExists ==
    ASSUME NEW S, NEW list \in Seq(S), NEW A
    PROVE  \E f : f = [n \in 0..Len(list) |-> Turn(list, A, f, n)]
<1> DEFINE Upto(m, f) == \A n \in 0..m : f[n] = Turn(list, A, f, n)
           Built == {m \in Nat : \E f \in [0..m -> Seq(S)] : m <= Len(list) => Upto(m, f)}
<1>1. 0 \in Built
  <2>1. [n \in 0..0 |-> <<>>] \in [0..0 -> Seq(S)] /\ Upto(0, [n \in 0..0 |-> <<>>])
    BY DEF Turn
  <2> QED
    BY <2>1
<1>2. ASSUME NEW m \in Nat, m \in Built PROVE m + 1 \in Built
  <2>1. PICK f \in [0..m -> Seq(S)] : m <= Len(list) => Upto(m, f)
    BY <1>2
  <2> DEFINE g == [n \in 0..(m + 1) |->
                    IF n = m + 1
                    THEN IF m + 1 <= Len(list) THEN Turn(list, A, f, m + 1) ELSE <<>>
                    ELSE f[n]]
  <2>2. m + 1 <= Len(list) => Turn(list, A, f, m + 1) \in Seq(S)
    <3> SUFFICES ASSUME m + 1 <= Len(list) PROVE Turn(list, A, f, m + 1) \in Seq(S)
      OBVIOUS
    <3>1. f[m] \in Seq(S) /\ list[m + 1] \in S /\ (m + 1) - 1 = m /\ m + 1 # 0
      OBVIOUS
    <3>2. Append(f[m], list[m + 1]) \in Seq(S)
      BY <3>1
    <3> QED
      BY <3>1, <3>2 DEF Turn
  <2>3. g \in [0..(m + 1) -> Seq(S)]
    BY <2>2
  <2>4. m + 1 <= Len(list) => Upto(m + 1, g)
    <3> SUFFICES ASSUME m + 1 <= Len(list), NEW n \in 0..(m + 1) PROVE g[n] = Turn(list, A, g, n)
      OBVIOUS
    <3>1. n # 0 => g[n - 1] = f[n - 1]
      OBVIOUS
    <3>2. Turn(list, A, g, n) = Turn(list, A, f, n)
      BY <3>1 DEF Turn
    <3>3. n # m + 1 => f[n] = Turn(list, A, f, n)
      BY <2>1
    <3> QED
      BY <3>2, <3>3
  <2> HIDE DEF g
  <2> QED
    BY <2>3, <2>4
<1>3. Len(list) \in Built
  <2> HIDE DEF Built
  <2> QED
    BY <1>1, <1>2, SetInduction
<1>4. PICK f \in [0..Len(list) -> Seq(S)] : Upto(Len(list), f)
  BY <1>3
<1>5. f = [n \in 0..Len(list) |-> Turn(list, A, f, n)]
  BY <1>4
<1> QED
  BY <1>5

\* What the loops over addresses keep: the members of A on the list, each of them once.
LEMMA KeepFacts ==
    ASSUME NEW S, NEW list \in Seq(S), NEW A
    PROVE  /\ Keep(list, A) \in Seq(S)
           /\ Range(Keep(list, A)) = A \cap Range(list)
           /\ IsInjective(Keep(list, A))
<1> DEFINE kept == CHOOSE f : f = [n \in 0..Len(list) |-> Turn(list, A, f, n)]
<1>1. Keep(list, A) = kept[Len(list)]
  BY DEF Keep, Turn
<1>2. kept = [n \in 0..Len(list) |-> Turn(list, A, kept, n)]
  BY KeepExists
<1> HIDE DEF kept
<1> DEFINE Right(n) == /\ kept[n] \in Seq(S)
                       /\ Range(kept[n]) = A \cap {list[i] : i \in 1..n}
                       /\ IsInjective(kept[n])
           Rights == {n \in Nat : n <= Len(list) => Right(n)}
<1>3. 0 \in Rights
  <2>1. kept[0] = <<>>
    BY <1>2 DEF Turn
  <2>2. Range(<<>>) = {} /\ IsInjective(<<>>) /\ <<>> \in Seq(S) /\ 1..0 = {}
    BY DEF Range, IsInjective
  <2> QED
    BY <2>1, <2>2, Zenon
<1>4. ASSUME NEW m \in Nat, m \in Rights PROVE m + 1 \in Rights
  <2> SUFFICES ASSUME m + 1 <= Len(list) PROVE Right(m + 1)
    OBVIOUS
  <2>1. Right(m)
    BY <1>4
  <2>2. m + 1 \in 0..Len(list) /\ (m + 1) - 1 = m /\ m + 1 # 0 /\ list[m + 1] \in S
    OBVIOUS
  <2>3. kept[m + 1] = IF list[m + 1] \in A \ Range(kept[m])
                      THEN Append(kept[m], list[m + 1])
                      ELSE kept[m]
    BY <1>2, <2>2, Zenon DEF Turn
  <2>4. {list[i] : i \in 1..(m + 1)} = {list[i] : i \in 1..m} \cup {list[m + 1]}
    OBVIOUS
  <2> HIDE DEF Rights
  <2>5. CASE list[m + 1] \in A \ Range(kept[m])
    <3> DEFINE x == list[m + 1]
               q == kept[m]
    <3>1. q \in Seq(S) /\ x \in S /\ x \notin Range(q) /\ x \in A /\ IsInjective(q)
      BY <2>1, <2>2, <2>5, Zenon
    <3>2. kept[m + 1] = Append(q, x)
      BY <2>3, <2>5
    <3> HIDE DEF x, q
    <3>3. /\ Append(q, x) \in Seq(S) /\ Len(Append(q, x)) = Len(q) + 1
          /\ DOMAIN q = 1..Len(q) /\ DOMAIN Append(q, x) = 1..(Len(q) + 1) /\ Len(q) \in Nat
          /\ \A i \in 1..Len(q) : Append(q, x)[i] = q[i]
          /\ Append(q, x)[Len(q) + 1] = x
      BY <3>1
    <3>4. Range(Append(q, x)) = Range(q) \cup {x}
      <4>1. ASSUME NEW y \in Range(q) PROVE y \in Range(Append(q, x))
        BY <3>3 DEF Range
      <4> QED
        BY <4>1, <3>3 DEF Range
    <3>5. IsInjective(Append(q, x))
      <4> SUFFICES ASSUME NEW i \in 1..(Len(q) + 1), NEW j \in 1..(Len(q) + 1),
                          Append(q, x)[i] = Append(q, x)[j]
                   PROVE  i = j
        BY <3>3 DEF IsInjective
      <4>1. \A l \in 1..Len(q) : q[l] # x
        BY <3>1, <3>3 DEF Range
      <4>2. CASE i \in 1..Len(q) /\ j \in 1..Len(q)
        BY <4>2, <3>1, <3>3, Zenon DEF IsInjective
      <4> QED
        BY <4>1, <4>2, <3>3
    <3> QED
      BY <3>1, <3>2, <3>3, <3>4, <3>5, <2>1, <2>4 DEF x, q
  <2>6. CASE list[m + 1] \notin A \ Range(kept[m])
    BY <2>1, <2>3, <2>4, <2>6, Zenon
  <2> QED
    BY <2>5, <2>6
<1>5. Len(list) \in Rights
  <2> HIDE DEF Rights
  <2> QED
    BY <1>3, <1>4, SetInduction
<1>6. Range(list) = {list[i] : i \in 1..Len(list)}
  BY DEF Range
<1> QED
  BY <1>1, <1>5, <1>6

-----------------------------------------------------------------------------
\* Dials: Resolve and the race of the address families

\* The state of one call. A branch dials only while it has an address left; its connection is
\* its own until the select takes it or the context is done; a call returns with branches behind
\* it only once its context is done.
DialState(c) ==
    /\ pc[c] # "returned" => result[c] = "none"
    /\ pc[c] \in {"idle", "lookup"} => \A b \in Branches : branch[c][b] = "none"
    /\ pc[c] \in {"inline", "race"} => branch[c]["primary"] # "none"
    /\ pc[c] = "race" /\ branch[c]["fallback"] = "none" => addrs[c]["fallback"] # <<>>
    /\ pc[c] = "returned" => done[c] \/ \A b \in Branches : branch[c][b] = "none"
    /\ \A b \in Branches : branch[c][b] = "dialing" => addrs[c][b] # <<>>
    /\ \A b \in Branches :
        open[c][b] => \/ result[c] = b
                      \/ branch[c][b] = "connected" /\ (pc[c] = "returned" => done[c])

\* The addresses a call has still to try.
DialList(t, a) ==
    /\ \A b \in Branches : \A ip \in Range(a[b]) : Permitted(t, ip)
    /\ \A b \in Branches : IsInjective(a[b])
    /\ Range(a["primary"]) \cap Range(a["fallback"]) = {}

DialTypes ==
    /\ policy \in Policies
    /\ pc \in [Calls -> {"idle", "lookup", "inline", "race", "returned"}]
    /\ target \in [Calls -> Targets]
    /\ addrs \in [Calls -> [Branches -> Seq(IPs)]]
    /\ branch \in [Calls -> [Branches -> {"none", "dialing", "connected", "failed", "done"}]]
    /\ result \in [Calls -> Branches \cup {"none"}]

DialBools ==
    /\ done \in [Calls -> BOOLEAN] /\ failed \in [Calls -> BOOLEAN]
    /\ open \in [Calls -> [Branches -> BOOLEAN]]

DialInv ==
    /\ DialTypes
    /\ DialBools
    /\ \A c \in Calls : DialState(c) /\ DialList(target[c], addrs[c])
    /\ Lookups!Accounting

\* What Resolve approves is what the operator configured, for a literal and for an answer.
LEMMA PolicyPermits ==
    ASSUME NEW t, NEW ip, resolvedAllowed(t, ip) \/ (Allowed(t) /\ ip = t.host)
    PROVE  Permitted(t, ip)
  BY Zenon DEF resolvedAllowed, Allowed, Permitted, portsAllowed, matchAny

\* A dial starts with the approved addresses, each in one branch, and none of the branches that
\* may start is without one.
LEMMA DialStarts ==
    ASSUME DialInv, NEW c \in Calls, NEW list \in Seq(IPs), list # <<>>, IsInjective(list),
           \A ip \in Range(list) : Permitted(target[c], ip),
           StartDial(c, list)
    PROVE  /\ pc' \in [Calls -> {"idle", "lookup", "inline", "race", "returned"}]
           /\ pc'[c] \in {"inline", "race"}
           /\ addrs' \in [Calls -> [Branches -> Seq(IPs)]]
           /\ addrs'[c]["primary"] # <<>>
           /\ pc'[c] = "race" => addrs'[c]["fallback"] # <<>>
           /\ DialList(target[c], addrs'[c])
           /\ branch' \in [Calls -> [Branches -> {"none", "dialing", "connected", "failed", "done"}]]
           /\ branch'[c]["primary"] = "dialing" /\ branch'[c]["fallback"] = "none"
           /\ \A d \in Calls \ {c} : pc'[d] = pc[d] /\ addrs'[d] = addrs[d] /\ branch'[d] = branch[d]
<1> DEFINE fam == Family(list[1])
           first == Keep(list, fam)
           second == Keep(list, IPs \ fam)
           races == target[c].network = "tcp" /\ second # <<>>
           one == IF races THEN first ELSE list
           two == IF races THEN second ELSE <<>>
<1>1. /\ pc' = [pc EXCEPT ![c] = IF races THEN "race" ELSE "inline"]
      /\ addrs' = [addrs EXCEPT ![c] = [primary |-> one, fallback |-> two]]
      /\ branch' = [branch EXCEPT ![c] = [primary |-> "dialing", fallback |-> "none"]]
  BY DEF StartDial
<1>2. /\ first \in Seq(IPs) /\ Range(first) = fam \cap Range(list) /\ IsInjective(first)
      /\ second \in Seq(IPs) /\ Range(second) = (IPs \ fam) \cap Range(list) /\ IsInjective(second)
  BY KeepFacts
<1>3. first # <<>>
  <2>1. list[1] \in IPs /\ list[1] \in Range(list)
    BY DEF Range
  <2>2. list[1] \in fam
    BY <2>1 DEF Family, IPs
  <2>3. Range(<<>>) = {}
    BY DEF Range
  <2> QED
    BY <1>2, <2>1, <2>2, <2>3, Zenon
<1>4. Range(<<>>) = {} /\ IsInjective(<<>>) /\ <<>> \in Seq(IPs)
  BY DEF Range, IsInjective
<1> HIDE DEF first, second, fam
<1>5. /\ one \in Seq(IPs) /\ two \in Seq(IPs) /\ one # <<>> /\ (races => two # <<>>)
      /\ Range(one) \subseteq Range(list) /\ Range(two) \subseteq Range(list)
      /\ Range(one) \cap Range(two) = {} /\ IsInjective(one) /\ IsInjective(two)
  BY <1>2, <1>3, <1>4, Zenon
<1> HIDE DEF one, two, races
<1>6. /\ addrs' \in [Calls -> [Branches -> Seq(IPs)]]
      /\ addrs'[c]["primary"] = one /\ addrs'[c]["fallback"] = two
  BY <1>1, <1>5 DEF Branches, DialInv, DialTypes
<1>7. DialList(target[c], addrs'[c])
  BY <1>5, <1>6, Zenon DEF DialList, Branches
<1>8. /\ branch' \in [Calls -> [Branches -> {"none", "dialing", "connected", "failed", "done"}]]
      /\ branch'[c]["primary"] = "dialing" /\ branch'[c]["fallback"] = "none"
  BY <1>1 DEF Branches, DialInv, DialTypes
<1>9. /\ pc' \in [Calls -> {"idle", "lookup", "inline", "race", "returned"}]
      /\ pc'[c] = IF races THEN "race" ELSE "inline"
  BY <1>1, Zenon DEF DialInv, DialTypes
<1>10. \A d \in Calls \ {c} : pc'[d] = pc[d] /\ addrs'[d] = addrs[d] /\ branch'[d] = branch[d]
  BY <1>1 DEF DialInv, DialTypes
<1> QED
  BY <1>5, <1>6, <1>7, <1>8, <1>9, <1>10, Zenon

\* A call that a step leaves alone stays as it should be.
LEMMA OthersKeep ==
    ASSUME DialInv, NEW d \in Calls, policy' = policy,
           pc'[d] = pc[d], target'[d] = target[d], done'[d] = done[d], addrs'[d] = addrs[d],
           branch'[d] = branch[d], open'[d] = open[d], result'[d] = result[d]
    PROVE  DialState(d)' /\ DialList(target[d], addrs[d])'
<1>1. DialState(d) /\ DialList(target[d], addrs[d])
  BY Zenon DEF DialInv
<1>2. DialState(d)'
  BY <1>1, Zenon DEF DialState
<1>3. DialList(target[d], addrs[d])'
  <2>1. ASSUME NEW ip PROVE Permitted(target[d], ip)' <=> Permitted(target[d], ip)
    BY Zenon DEF Permitted
  <2> QED
    BY <1>1, <2>1, Zenon DEF DialList
<1> QED
  BY <1>2, <1>3, Zenon

\* The rest of an answer is still approved, and in order.
LEMMA TailFacts ==
    ASSUME NEW S, NEW q \in Seq(S), q # <<>>
    PROVE  /\ Tail(q) \in Seq(S) /\ Range(Tail(q)) \subseteq Range(q)
           /\ IsInjective(q) => IsInjective(Tail(q))
           /\ Len(q) # 1 => Tail(q) # <<>>
<1>1. /\ Tail(q) \in Seq(S) /\ Len(Tail(q)) = Len(q) - 1 /\ Len(q) \in Nat /\ Len(q) # 0
      /\ DOMAIN q = 1..Len(q) /\ DOMAIN Tail(q) = 1..(Len(q) - 1)
      /\ \A i \in 1..(Len(q) - 1) : Tail(q)[i] = q[i + 1]
  OBVIOUS
<1>2. Range(Tail(q)) \subseteq Range(q)
  BY <1>1 DEF Range
<1>3. IsInjective(q) => IsInjective(Tail(q))
  BY <1>1 DEF IsInjective
<1>4. Len(q) # 1 => Tail(q) # <<>>
  <2>1. Len(<<>>) = 0
    BY Zenon
  <2> QED
    BY <1>1, <2>1
<1> QED
  BY <1>1, <1>2, <1>3, <1>4

\* Resolve and its lookup: the call returns, waits for an answer, or starts to dial what was approved.
LEMMA ResolveStep ==
    ASSUME ResolverAssumption, DialInv, NEW c \in Calls,
           Resolve(c) \/ LookupFails(c) \/ \E answer \in Answers : LookupAnswers(c, answer)
    PROVE  DialTypes' /\ \A d \in Calls : DialState(d)' /\ DialList(target[d], addrs[d])'
<1>1. UNCHANGED <<policy, target, done, failed, open, result>> /\ pc[c] \in {"idle", "lookup"}
  BY Zenon DEF Resolve, LookupFails, LookupAnswers
<1>2. /\ DialState(c) /\ DialList(target[c], addrs[c]) /\ result[c] = "none"
      /\ \A b \in Branches : branch[c][b] = "none" /\ ~open[c][b]
  BY <1>1, Zenon DEF DialInv, DialState, Branches
<1>3. CASE UNCHANGED <<addrs, branch>> /\ \E p \in {"lookup", "returned"} : pc' = [pc EXCEPT ![c] = p]
  <2>1. DialTypes'
    BY <1>1, <1>3, Zenon DEF DialInv, DialTypes
  <2>2. \A d \in Calls \ {c} : DialState(d)' /\ DialList(target[d], addrs[d])'
    BY <1>1, <1>3, OthersKeep, Zenon DEF DialInv, DialTypes
  <2>3. pc'[c] \in {"lookup", "returned"}
    BY <1>3, Zenon DEF DialInv, DialTypes
  <2>4. DialState(c)'
    BY <1>1, <1>2, <1>3, <2>3, Zenon DEF DialState, Branches
  <2>5. DialList(target[c], addrs[c])'
    BY <1>1, <1>2, <1>3, Zenon DEF DialList, Permitted
  <2> QED
    BY <2>1, <2>2, <2>4, <2>5, Zenon
<1>4. ASSUME NEW list \in Seq(IPs), list # <<>>, IsInjective(list), StartDial(c, list),
             \A ip \in Range(list) : Permitted(target[c], ip)
      PROVE  DialTypes' /\ \A d \in Calls : DialState(d)' /\ DialList(target[d], addrs[d])'
  <2>1. /\ pc' \in [Calls -> {"idle", "lookup", "inline", "race", "returned"}]
        /\ pc'[c] \in {"inline", "race"}
        /\ addrs' \in [Calls -> [Branches -> Seq(IPs)]]
        /\ addrs'[c]["primary"] # <<>>
        /\ pc'[c] = "race" => addrs'[c]["fallback"] # <<>>
        /\ DialList(target[c], addrs'[c])
        /\ branch' \in [Calls -> [Branches -> {"none", "dialing", "connected", "failed", "done"}]]
        /\ branch'[c]["primary"] = "dialing" /\ branch'[c]["fallback"] = "none"
        /\ \A d \in Calls \ {c} : pc'[d] = pc[d] /\ addrs'[d] = addrs[d] /\ branch'[d] = branch[d]
    BY <1>4, DialStarts, Zenon
  <2>2. DialTypes'
    BY <1>1, <2>1, Zenon DEF DialInv, DialTypes
  <2>3. \A d \in Calls \ {c} : DialState(d)' /\ DialList(target[d], addrs[d])'
    BY <1>1, <2>1, OthersKeep, Zenon
  <2>4. DialState(c)'
    BY <1>1, <1>2, <2>1, Zenon DEF DialState, Branches
  <2>5. DialList(target[c], addrs[c])'
    BY <1>1, <2>1, Zenon DEF DialList, Permitted
  <2> QED
    BY <2>2, <2>3, <2>4, <2>5, Zenon
<1>5. ASSUME Allowed(target[c]), target[c].host \in IPs, StartDial(c, <<target[c].host>>)
      PROVE  DialTypes' /\ \A d \in Calls : DialState(d)' /\ DialList(target[d], addrs[d])'
  <2> DEFINE l == <<target[c].host>>
  <2>1. l \in Seq(IPs) /\ l # <<>> /\ IsInjective(l) /\ Range(l) = {target[c].host}
    BY <1>5 DEF IsInjective, Range
  <2>2. Permitted(target[c], target[c].host)
    BY <1>5, PolicyPermits, Zenon
  <2> HIDE DEF l
  <2> QED
    BY <1>4, <1>5, <2>1, <2>2, Zenon DEF l
<1>6. ASSUME NEW answer \in Answers, Approved(target[c], answer) # <<>>,
             StartDial(c, Approved(target[c], answer))
      PROVE  DialTypes' /\ \A d \in Calls : DialState(d)' /\ DialList(target[d], addrs[d])'
  <2> DEFINE l == Approved(target[c], answer)
  <2>1. answer \in Seq(IPs)
    BY DEF ResolverAssumption, IPs
  <2>2. /\ l \in Seq(IPs) /\ IsInjective(l)
        /\ Range(l) = {ip \in IPs : resolvedAllowed(target[c], ip)} \cap Range(answer)
    BY <2>1, KeepFacts, Zenon DEF Approved
  <2>3. \A ip \in Range(l) : Permitted(target[c], ip)
    BY <2>2, PolicyPermits, Zenon
  <2> HIDE DEF l
  <2> QED
    BY <1>4, <1>6, <2>2, <2>3, Zenon DEF l
<1>7. CASE Resolve(c)
  BY <1>3, <1>5, <1>7, Zenon DEF Resolve, Fails
<1>8. CASE LookupFails(c)
  BY <1>3, <1>8, Zenon DEF LookupFails, Fails
<1>9. ASSUME NEW answer \in Answers, LookupAnswers(c, answer)
      PROVE  DialTypes' /\ \A d \in Calls : DialState(d)' /\ DialList(target[d], addrs[d])'
  BY <1>3, <1>6, <1>9, Zenon DEF LookupAnswers, Fails
<1> QED
  BY <1>7, <1>8, <1>9, Zenon

\* The select, the branches and the caller: every other step of a call.
LEMMA RaceStep ==
    ASSUME DialInv, NEW c \in Calls,
           \/ Cancelled(c) \/ Select(c)
           \/ \E b \in Branches : Dialer(c, b)
           \/ \E t \in Targets : CallerCloses(c, t)
    PROVE  DialTypes' /\ \A d \in Calls : DialState(d)' /\ DialList(target[d], addrs[d])'
<1> DEFINE Goal == DialTypes' /\ \A d \in Calls : DialState(d)' /\ DialList(target[d], addrs[d])'
<1>1. DialState(c) /\ DialList(target[c], addrs[c]) /\ DialTypes /\ DialBools
  BY Zenon DEF DialInv
<1>2. \A d \in Calls \ {c} : DialState(d)' /\ DialList(target[d], addrs[d])'
  <2> SUFFICES ASSUME NEW d \in Calls \ {c} PROVE DialState(d)' /\ DialList(target[d], addrs[d])'
    OBVIOUS
  <2>1. /\ policy' = policy
        /\ pc'[d] = pc[d] /\ target'[d] = target[d] /\ done'[d] = done[d] /\ addrs'[d] = addrs[d]
        /\ branch'[d] = branch[d] /\ open'[d] = open[d] /\ result'[d] = result[d]
    BY <1>1, ZenonT(40) DEF DialTypes, DialBools, Cancelled, Select, FallbackTimer, InlineFails,
      GivesUp, Wins, Loses, Dialer, Connects, Refused, Abandons, CallerCloses
  <2> QED
    BY <2>1, OthersKeep, Zenon
<1>3. ASSUME UNCHANGED <<policy, target, addrs>> PROVE DialList(target[c], addrs[c])'
  BY <1>1, <1>3, Zenon DEF DialList, Permitted
<1>4. CASE Cancelled(c)
  <2>1. DialTypes'
    BY <1>1, <1>4, Zenon DEF Cancelled, DialTypes
  <2>2. DialState(c)'
    BY <1>1, <1>4, Zenon DEF Cancelled, DialTypes, DialBools, DialState
  <2> QED
    BY <1>2, <1>3, <1>4, <2>1, <2>2, Zenon DEF Cancelled
<1>5. CASE FallbackTimer(c)
  <2>1. DialTypes'
    BY <1>1, <1>5, Zenon DEF FallbackTimer, DialTypes, Branches
  <2>2. DialState(c)'
    BY <1>1, <1>5, Zenon DEF FallbackTimer, DialTypes, DialState, Branches
  <2> QED
    BY <1>2, <1>3, <1>5, <2>1, <2>2, Zenon DEF FallbackTimer
<1>6. CASE InlineFails(c)
  <2>1. DialTypes'
    BY <1>1, <1>6, Zenon DEF InlineFails, DialTypes, Branches
  <2>2. DialState(c)'
    BY <1>1, <1>6, Zenon DEF InlineFails, DialTypes, DialBools, DialState, Branches
  <2> QED
    BY <1>2, <1>3, <1>6, <2>1, <2>2, Zenon DEF InlineFails
<1>7. CASE GivesUp(c)
  <2>1. DialTypes'
    BY <1>1, <1>7, Zenon DEF GivesUp, DialTypes
  <2>2. DialState(c)'
    BY <1>1, <1>7, Zenon DEF GivesUp, DialTypes, DialState
  <2> QED
    BY <1>2, <1>3, <1>7, <2>1, <2>2, Zenon DEF GivesUp
<1>8. ASSUME NEW b \in Branches, Wins(c, b) PROVE Goal
  <2>1. DialTypes'
    BY <1>1, <1>8, Zenon DEF Wins, DialTypes
  <2>2. DialState(c)'
    BY <1>1, <1>8 DEF Wins, DialTypes, DialBools, DialState, Branches
  <2> QED
    BY <1>2, <1>3, <1>8, <2>1, <2>2, Zenon DEF Wins
<1>9. ASSUME NEW b \in Branches, Loses(c, b) PROVE Goal
  <2>1. /\ branch' = [branch EXCEPT ![c] = [x \in Branches |-> IF x = b THEN "done"
                            ELSE IF branch[c][x] = "none" THEN "dialing" ELSE branch[c][x]]]
        /\ pc[c] = "race" /\ branch[c][b] = "failed"
        /\ pc' = [pc EXCEPT ![c] = IF failed[c] THEN "returned" ELSE "race"]
        /\ done' = [done EXCEPT ![c] = failed[c] \/ @]
        /\ UNCHANGED <<policy, target, addrs, open, result>>
    BY <1>9, Zenon DEF Loses
  <2>2. DialTypes'
    BY <1>1, <2>1, Zenon DEF DialTypes
  <2>3. \A x \in Branches : branch'[c][x] = IF x = b THEN "done"
                            ELSE IF branch[c][x] = "none" THEN "dialing" ELSE branch[c][x]
    BY <1>1, <2>1, Zenon DEF DialTypes
  <2>4. pc'[c] = "race" \/ (pc'[c] = "returned" /\ done'[c])
    BY <1>1, <2>1, Zenon DEF DialTypes, DialBools
  <2>5. DialState(c)'
    <3>1. /\ addrs' = addrs /\ open' = open /\ result' = result
          /\ pc[c] = "race" /\ branch[c][b] = "failed" /\ DialState(c)
      BY <1>1, <2>1, Zenon
    <3> QED
      BY ONLY <2>3, <2>4, <3>1, b \in Branches DEF DialState, Branches
  <2> QED
    BY <1>2, <1>3, <2>1, <2>2, <2>5, Zenon
<1>10. ASSUME NEW b \in Branches, Connects(c, b) PROVE Goal
  <2>1. DialTypes'
    BY <1>1, <1>10, Zenon DEF Connects, DialTypes
  <2>2. DialState(c)'
    BY <1>1, <1>10 DEF Connects, DialTypes, DialBools, DialState, Branches
  <2> QED
    BY <1>2, <1>3, <1>10, <2>1, <2>2, Zenon DEF Connects
<1>11. ASSUME NEW b \in Branches, Refused(c, b) PROVE Goal
  <2> DEFINE q == addrs[c][b]
  <2>1. q \in Seq(IPs) /\ q # <<>>
    BY <1>1, <1>11, Zenon DEF Refused, DialTypes, DialState
  <2>2. /\ Tail(q) \in Seq(IPs) /\ Range(Tail(q)) \subseteq Range(q)
        /\ IsInjective(q) => IsInjective(Tail(q))
        /\ Len(q) # 1 => Tail(q) # <<>>
    BY <2>1, TailFacts, Zenon
  <2>3. /\ addrs' = [addrs EXCEPT ![c][b] = Tail(q)]
        /\ branch' = [branch EXCEPT ![c][b] = IF done[c] \/ Len(q) = 1 THEN "failed" ELSE @]
        /\ branch[c][b] = "dialing"
        /\ UNCHANGED <<policy, pc, target, done, open, result>>
    BY <1>11, Zenon DEF Refused
  <2> HIDE DEF q
  <2>4. DialTypes'
    BY <1>1, <2>2, <2>3, Zenon DEF DialTypes
  <2>5. DialState(c)'
    <3>1. /\ addrs'[c][b] = Tail(q) /\ branch'[c][b] \in {"failed", "dialing"}
          /\ branch'[c][b] = "dialing" => Tail(q) # <<>>
          /\ \A x \in Branches \ {b} : addrs'[c][x] = addrs[c][x] /\ branch'[c][x] = branch[c][x]
      BY <1>1, <2>2, <2>3, Zenon DEF DialTypes
    <3>2. pc'[c] = pc[c] /\ done'[c] = done[c] /\ open'[c] = open[c] /\ result'[c] = result[c]
      BY <2>3, Zenon
    <3> QED
      BY <1>1, <2>3, <3>1, <3>2 DEF DialState, Branches
  <2>6. DialList(target[c], addrs[c])'
    <3>1. DialList(target[c], addrs'[c])
      <4>1. addrs'[c][b] = Tail(q) /\ \A x \in Branches \ {b} : addrs'[c][x] = addrs[c][x]
        BY <1>1, <2>3, Zenon DEF DialTypes
      <4> QED
        BY <1>1, <2>2, <4>1, Zenon DEF DialList, Branches, q
    <3> QED
      BY <3>1, <2>3, Zenon DEF DialList, Permitted
  <2> QED
    BY <1>2, <2>4, <2>5, <2>6, Zenon
<1>12. ASSUME NEW b \in Branches, Abandons(c, b) PROVE Goal
  <2>1. DialTypes'
    BY <1>1, <1>12, Zenon DEF Abandons, DialTypes
  <2>2. DialState(c)'
    BY <1>1, <1>12 DEF Abandons, DialTypes, DialBools, DialState, Branches
  <2> QED
    BY <1>2, <1>3, <1>12, <2>1, <2>2, Zenon DEF Abandons
<1>13. ASSUME NEW t \in Targets, CallerCloses(c, t) PROVE Goal
  <2>1. /\ pc' = [pc EXCEPT ![c] = "idle"] /\ target' = [target EXCEPT ![c] = t]
        /\ addrs' = [addrs EXCEPT ![c] = [b \in Branches |-> <<>>]]
        /\ branch' = [branch EXCEPT ![c] = [b \in Branches |-> "none"]]
        /\ result' = [result EXCEPT ![c] = "none"] /\ UNCHANGED policy
    BY <1>13, Zenon DEF CallerCloses
  <2>2. DialTypes'
    BY <1>1, <2>1 DEF DialTypes
  <2>3. \A b \in Branches : ~open'[c][b]
    <3> SUFFICES ASSUME NEW b \in Branches PROVE ~open'[c][b]
      BY Zenon
    <3>1. open'[c][b] = IF b = result[c] THEN FALSE ELSE open[c][b]
      BY <1>1, <1>13, Zenon DEF CallerCloses, DialBools
    <3>2. branch[c][b] \in {"none", "done"}
      BY <1>13, Zenon DEF CallerCloses
    <3> QED
      BY <1>1, <3>1, <3>2, Zenon DEF DialState
  <2>4. /\ pc'[c] = "idle" /\ result'[c] = "none"
        /\ \A b \in Branches : branch'[c][b] = "none" /\ addrs'[c][b] = <<>>
    BY <1>1, <2>1, Zenon DEF DialTypes
  <2>5. DialState(c)'
    BY <2>3, <2>4, Zenon DEF DialState
  <2>6. DialList(target[c], addrs[c])'
    <3>1. Range(<<>>) = {} /\ IsInjective(<<>>)
      BY DEF Range, IsInjective
    <3> QED
      BY <2>4, <3>1, Zenon DEF DialList, Branches
  <2> QED
    BY <1>2, <2>2, <2>5, <2>6, Zenon
<1> QED
  BY <1>4, <1>5, <1>6, <1>7, <1>8, <1>9, <1>10, <1>11, <1>12, <1>13, Zenon DEF Select, Dialer

\* Every step of the dials takes a lookup slot, gives one back or leaves the slots alone.
LEMMA LookupStep == DialTypes /\ [Next]_vars => [Lookups!Next]_(Lookups!vars)
<1> SUFFICES ASSUME DialTypes, [Next]_vars PROVE [Lookups!Next]_(Lookups!vars)
  OBVIOUS
<1> DEFINE looking == {c \in Calls : pc[c] = "lookup"}
<1>1. ASSUME UNCHANGED slots, \A c \in Calls : pc'[c] = "lookup" <=> pc[c] = "lookup"
      PROVE  UNCHANGED Lookups!vars
  <2>1. looking' = looking
    BY <1>1, Zenon
  <2> QED
    BY <1>1, <2>1 DEF Lookups!vars
<1>2. ASSUME NEW c \in Calls, pc[c] = "lookup", slots' = slots - 1,
             pc'[c] # "lookup", \A d \in Calls \ {c} : pc'[d] = pc[d]
      PROVE  Lookups!Next
  <2>1. looking' = looking \ {c} /\ c \in looking
    BY <1>2, Zenon
  <2> QED
    BY <1>2, <2>1, Zenon DEF Lookups!Next, Lookups!Release
<1>3. ASSUME NEW c \in Calls, pc[c] # "lookup", slots < MaxLookups, slots' = slots + 1,
             pc'[c] = "lookup", \A d \in Calls \ {c} : pc'[d] = pc[d]
      PROVE  Lookups!Next
  <2>1. looking' = looking \cup {c} /\ c \notin looking
    BY <1>3
  <2> QED
    BY <1>3, <2>1, Zenon DEF Lookups!Next, Lookups!TryAcquire
<1>4. CASE UNCHANGED vars
  BY <1>1, <1>4, Zenon DEF vars
<1>5. ASSUME NEW c \in Calls, Resolve(c) PROVE [Lookups!Next]_(Lookups!vars)
  <2>1. CASE slots' = slots /\ \E p \in {"inline", "race", "returned"} : pc' = [pc EXCEPT ![c] = p]
    <3>1. pc[c] = "idle"
      BY <1>5, Zenon DEF Resolve
    <3>2. \A d \in Calls : pc'[d] = "lookup" <=> pc[d] = "lookup"
      BY <2>1, <3>1, Zenon DEF DialTypes
    <3> QED
      BY <1>1, <2>1, <3>2, Zenon
  <2>2. CASE slots < MaxLookups /\ pc' = [pc EXCEPT ![c] = "lookup"] /\ slots' = slots + 1
    BY <1>3, <1>5, <2>2, Zenon DEF Resolve, DialTypes
  <2> QED
    BY <1>5, <2>1, <2>2, Zenon DEF Resolve, Fails, StartDial
<1>6. ASSUME NEW c \in Calls, LookupFails(c) \/ \E answer \in Answers : LookupAnswers(c, answer)
      PROVE  Lookups!Next
  <2>1. \E p \in {"inline", "race", "returned"} : pc' = [pc EXCEPT ![c] = p]
    BY <1>6, Zenon DEF LookupFails, LookupAnswers, Fails, StartDial
  <2>2. pc[c] = "lookup" /\ slots' = slots - 1
    BY <1>6, Zenon DEF LookupFails, LookupAnswers
  <2> QED
    BY <1>2, <2>1, <2>2, Zenon DEF DialTypes
<1>7. ASSUME NEW c \in Calls,
             \/ Cancelled(c) \/ Select(c)
             \/ \E b \in Branches : Dialer(c, b)
             \/ \E t \in Targets : CallerCloses(c, t)
      PROVE  UNCHANGED Lookups!vars
  <2>1. UNCHANGED slots
    BY <1>7, Zenon DEF Cancelled, Select, FallbackTimer, InlineFails, GivesUp, Wins, Loses,
      Dialer, Connects, Refused, Abandons, CallerCloses
  <2>2. \/ UNCHANGED pc
        \/ pc[c] # "lookup" /\ \E p \in {"idle", "race", "returned"} : pc' = [pc EXCEPT ![c] = p]
    BY <1>7, Zenon DEF Cancelled, Select, FallbackTimer, InlineFails, GivesUp, Wins, Loses,
      Dialer, Connects, Refused, Abandons, CallerCloses
  <2>3. \A d \in Calls : pc'[d] = "lookup" <=> pc[d] = "lookup"
    BY <2>2 DEF DialTypes
  <2> QED
    BY <1>1, <2>1, <2>3, Zenon
<1> QED
  BY <1>4, <1>5, <1>6, <1>7, Zenon DEF Next

\* The instance of Budget counts as FiniteSets does.
LEMMA SameCount ==
    \A S : /\ Lookups!IsFiniteSet(S) <=> IsFiniteSet(S)
           /\ Lookups!Cardinality(S) = Cardinality(S)
<1>1. \A S : Lookups!IsFiniteSet(S) <=> IsFiniteSet(S)
  BY DEF Lookups!IsFiniteSet, IsFiniteSet
<1>2. \A S : Lookups!Cardinality(S) = Cardinality(S)
  BY DEF Lookups!Cardinality, Cardinality
<1> QED
  BY <1>1, <1>2, Zenon

\* The slots are counted exactly as the lookups come and go.
LEMMA SlotsCounted ==
    ASSUME ResolverAssumption, Lookups!Accounting, [Lookups!Next]_(Lookups!vars)
    PROVE  Lookups!Accounting'
<1> DEFINE H == {c \in Calls : pc[c] = "lookup"}
<1>1. /\ IsFiniteSet(H) /\ slots = Cardinality(H) /\ slots \in 0..MaxLookups /\ Cardinality(H) \in Nat
      /\ MaxLookups \in Nat
  BY FS_CardinalityType, SameCount, Zenon DEF Lookups!Accounting, ResolverAssumption
<1>2. H' \in SUBSET Calls
  BY Zenon
<1>3. ASSUME NEW c \in Calls, Lookups!TryAcquire(c) PROVE Lookups!Accounting'
  <2>1. c \notin H /\ slots < MaxLookups /\ slots' = slots + 1 /\ H' = H \cup {c}
    BY <1>3, Zenon DEF Lookups!TryAcquire
  <2> HIDE DEF H
  <2>2. IsFiniteSet(H \cup {c}) /\ Cardinality(H \cup {c}) = Cardinality(H) + 1
    BY <1>1, <2>1, FS_AddElement, Zenon
  <2>3. IsFiniteSet(H') /\ slots' = Cardinality(H') /\ slots' \in 0..MaxLookups
    BY <1>1, <2>1, <2>2
  <2> QED
    BY <1>2, <2>3, SameCount, Zenon DEF Lookups!Accounting, H
<1>4. ASSUME NEW c \in Calls, Lookups!Release(c) PROVE Lookups!Accounting'
  <2>1. c \in H /\ slots' = slots - 1 /\ H' = H \ {c}
    BY <1>4, Zenon DEF Lookups!Release
  <2> HIDE DEF H
  <2>2. IsFiniteSet(H \ {c}) /\ Cardinality(H \ {c}) = Cardinality(H) - 1 /\ Cardinality(H \ {c}) \in Nat
    BY <1>1, <2>1, FS_RemoveElement, FS_CardinalityType, Zenon
  <2>3. IsFiniteSet(H') /\ slots' = Cardinality(H') /\ slots' \in 0..MaxLookups
    BY <1>1, <2>1, <2>2
  <2> QED
    BY <1>2, <2>3, SameCount, Zenon DEF Lookups!Accounting, H
<1>5. CASE UNCHANGED Lookups!vars
  BY <1>5, Zenon DEF Lookups!vars, Lookups!Accounting
<1> QED
  BY <1>3, <1>4, <1>5, Zenon DEF Lookups!Next

\* No call has been made yet.
LEMMA DialInit == ResolverAssumption /\ Init => DialInv
<1> SUFFICES ASSUME ResolverAssumption, Init PROVE DialInv
  BY Zenon
<1>1. DialTypes /\ DialBools
  BY DEF Init, DialTypes, DialBools
<1>2. ASSUME NEW c \in Calls PROVE DialState(c) /\ DialList(target[c], addrs[c])
  <2>1. Range(<<>>) = {} /\ IsInjective(<<>>)
    BY DEF Range, IsInjective
  <2>2. DialState(c)
    BY Zenon DEF Init, DialState, Branches
  <2>3. DialList(target[c], addrs[c])
    BY <2>1, Zenon DEF Init, DialList, Branches
  <2> QED
    BY <2>2, <2>3, Zenon
<1>3. Lookups!Accounting
  <2> DEFINE H == {c \in Calls : pc[c] = "lookup"}
  <2>1. H = {} /\ slots = 0
    BY DEF Init
  <2>2. IsFiniteSet({}) /\ Cardinality({}) = 0
    BY FS_EmptySet
  <2> HIDE DEF H
  <2>3. H \in SUBSET Calls /\ Lookups!IsFiniteSet(H) /\ slots = Lookups!Cardinality(H)
    BY <2>1, <2>2, SameCount
  <2>4. slots \in 0..MaxLookups
    BY <2>1 DEF ResolverAssumption
  <2> QED
    BY <2>3, <2>4, Zenon DEF Lookups!Accounting, H
<1> QED
  BY <1>1, <1>2, <1>3, Zenon DEF DialInv

\* Every step of a call, of its branches, of the resolver and of the caller keeps the invariant.
LEMMA DialNext == ResolverAssumption /\ DialInv /\ [Next]_vars => DialInv'
<1> SUFFICES ASSUME ResolverAssumption, DialInv, [Next]_vars PROVE DialInv'
  OBVIOUS
<1>1. DialBools'
  <2>1. DialBools
    BY DEF DialInv
  <2>2. done' \in [Calls -> BOOLEAN]
    BY <2>1, ZenonT(40) DEF DialBools, Next, vars, Resolve, LookupFails, LookupAnswers, Cancelled, Select,
      FallbackTimer, InlineFails, GivesUp, Wins, Loses, Dialer, Connects, Refused, Abandons, CallerCloses
  <2>3. failed' \in [Calls -> BOOLEAN]
    BY <2>1, ZenonT(40) DEF DialBools, Next, vars, Resolve, LookupFails, LookupAnswers, Cancelled, Select,
      FallbackTimer, InlineFails, GivesUp, Wins, Loses, Dialer, Connects, Refused, Abandons, CallerCloses
  <2>4. open' \in [Calls -> [Branches -> BOOLEAN]]
    <3>1. ASSUME NEW c \in Calls, NEW b \in Branches, Connects(c, b) \/ Abandons(c, b)
          PROVE  open' \in [Calls -> [Branches -> BOOLEAN]]
      <4>1. \E v \in BOOLEAN : open' = [open EXCEPT ![c][b] = v]
        BY <3>1, Zenon DEF Connects, Abandons
      <4> QED
        BY <2>1, <4>1 DEF DialBools
    <3>2. ASSUME NEW c \in Calls, NEW t \in Targets, CallerCloses(c, t)
          PROVE  open' \in [Calls -> [Branches -> BOOLEAN]]
      <4>1. [b \in Branches |-> IF b = result[c] THEN FALSE ELSE open[c][b]] \in [Branches -> BOOLEAN]
        BY <2>1, Zenon DEF DialBools
      <4>2. open' = [open EXCEPT ![c] = [b \in Branches |-> IF b = result[c] THEN FALSE ELSE open[c][b]]]
        BY <3>2, Zenon DEF CallerCloses
      <4> QED
        BY <2>1, <4>1, <4>2, Zenon DEF DialBools
    <3>3. CASE UNCHANGED open
      BY <2>1, <3>3, Zenon DEF DialBools
    <3> QED
      BY <3>1, <3>2, <3>3, Zenon DEF Next, vars, Resolve, LookupFails, LookupAnswers, Cancelled, Select,
        FallbackTimer, InlineFails, GivesUp, Wins, Loses, Dialer, Refused
  <2> QED
    BY <2>2, <2>3, <2>4, Zenon DEF DialBools
<1>2. DialTypes' /\ \A d \in Calls : DialState(d)' /\ DialList(target[d], addrs[d])'
  <2>1. CASE UNCHANGED vars
    <3>1. DialTypes'
      BY <2>1, Zenon DEF vars, DialInv, DialTypes
    <3> QED
      BY <2>1, <3>1, OthersKeep, Zenon DEF vars
  <2> QED
    BY <2>1, ResolveStep, RaceStep, Zenon DEF Next
<1>3. Lookups!Accounting'
  BY LookupStep, SlotsCounted DEF DialInv
<1> QED
  BY <1>1, <1>2, <1>3, Zenon DEF DialInv

\* The calls keep their invariant for good.
LEMMA DialInvariant == Spec => []DialInv
  BY ResolverAssumption, DialInit, DialNext, PTL DEF Spec

\* Whatever the resolver answers and however the race of the address families goes, a call dials
\* only what Resolve approved, each address once, and that is what the operator's configuration
\* permits (ACL.Resolve, DialContext): for any policy, any answers and any number of calls.
THEOREM Approval == Spec => []OnlyPermittedDialled
<1>1. DialInv => OnlyPermittedDialled
  BY DEF DialInv, DialList, OnlyPermittedDialled
<1> QED
  BY <1>1, DialInvariant, PTL

\* An open connection of the race has an owner: the caller it was returned to, or the branch that
\* dialled it, which can still hand it over or sees the cancelled context and closes it once the
\* call has returned (the goroutines and the select of DialContext), for any number of calls.
THEOREM Ownership == Spec => []ConnectionOwned
<1>1. DialInv => ConnectionOwned
  BY DEF DialInv, DialTypes, DialBools, DialState, Lookups!Accounting, TypeOK, ConnectionOwned
<1> QED
  BY <1>1, DialInvariant, PTL

\* The slots of the resolver implement Budget and count the lookups under way exactly, on every
\* path out of Resolve, for any limit and any number of calls.
THEOREM LookupSlots == Spec => Lookups!Spec /\ []Lookups!Accounting
<1>1. Init => Lookups!Init
  BY DEF Init, Lookups!Init
<1>2. DialInv => DialTypes /\ Lookups!Accounting
  BY DEF DialInv
<1> QED
  BY <1>1, <1>2, LookupStep, DialInvariant, PTL DEF Spec, Lookups!Spec

=============================================================================
