-------------------------- MODULE LocalProxyProofs --------------------------
(***************************************************************************)
(* The listeners of the client's local proxy, for any number of            *)
(* connections and dials and any limits: their shared slots, and what they *)
(* leave behind when they return (LocalProxy, with the pool of             *)
(* HttpTransport).                                                         *)
(***************************************************************************)
EXTENDS LocalProxy, FiniteSetTheorems, TLAPS

-----------------------------------------------------------------------------
\* The transport

Pending == {d \in Dials : dial[d] \notin {"none", "returned"}}

\* A stream that is open is in the pool, or its call has not registered it yet; once closeAll
\* started no call registers, so the list it copied is all there is to close.
Pool ==
    /\ closing <=> closer # "no"
    /\ \A d \in Dials : dial[d] = "late" => closer # "no"
    /\ \A d \in conns : dial[d] = "returned"
    /\ \A d \in streams : d \in conns \/ dial[d] \in {"opened", "late"}
    /\ closer = "listed" => conns \subseteq list
    /\ closer \in {"waiting", "returned"} => conns = {}
    /\ closer = "returned" => Pending = {}

PoolTypes ==
    /\ conns \subseteq Dials /\ streams \subseteq Dials /\ list \subseteq Dials
    /\ dial \in [Dials -> {"none", "dialing", "opened", "late", "returned"}]
    /\ dials = Cardinality(Pending) /\ active = Cardinality(streams)
    /\ closer \in {"no", "listed", "waiting", "returned"}

PoolInv == closing \in BOOLEAN /\ PoolTypes /\ Pool

\* The instance of HttpTransport counts as FiniteSets does.
LEMMA PoolCount == \A S : T!Cardinality(S) = Cardinality(S)
  BY Zenon DEF T!Cardinality, Cardinality

\* Dials and the streams they open are finitely many.
LEMMA PoolFinite ==
    ASSUME PoolTypes
    PROVE  /\ IsFiniteSet(Pending) /\ IsFiniteSet(streams)
           /\ Cardinality(Pending) \in Nat /\ Cardinality(streams) \in Nat
<1>1. Pending \in SUBSET Dials /\ streams \in SUBSET Dials /\ IsFiniteSet(Dials)
  BY LocalProxyAssumption DEF PoolTypes, Pending
<1>2. IsFiniteSet(Pending) /\ IsFiniteSet(streams)
  BY <1>1, FS_Subset
<1> QED
  BY <1>2, FS_CardinalityType

\* Closing streams, whichever of them are open, keeps the gauge exact.
LEMMA PoolCloses ==
    ASSUME PoolTypes, NEW ds, T!CloseConns(ds)
    PROVE  /\ streams' = streams \ ds /\ conns' = conns \ ds
           /\ active' = Cardinality(streams')
<1>1. streams' = streams \ ds /\ conns' = conns \ ds /\ active' = active - Cardinality(ds \cap streams)
  BY PoolCount DEF T!CloseConns
<1>2. Cardinality(streams \ ds) = Cardinality(streams) - Cardinality(streams \cap ds)
  BY PoolFinite, FS_Difference, Zenon
<1>3. ds \cap streams = streams \cap ds
  OBVIOUS
<1> QED
  BY <1>1, <1>2, <1>3 DEF PoolTypes

\* A call enters or leaves the wait group.
LEMMA PendingMoves ==
    ASSUME PoolTypes, NEW d \in Dials,
           NEW v \in {"none", "dialing", "opened", "late", "returned"}, dial' = [dial EXCEPT ![d] = v]
    PROVE  /\ v \notin {"none", "returned"} => Pending' = Pending \cup {d}
           /\ v \in {"none", "returned"} => Pending' = Pending \ {d}
           /\ Cardinality(Pending \cup {d}) = IF d \in Pending THEN dials ELSE dials + 1
           /\ Cardinality(Pending \ {d}) = IF d \in Pending THEN dials - 1 ELSE dials
<1>1. \A e \in Dials : dial'[e] = IF e = d THEN v ELSE dial[e]
  BY Zenon DEF PoolTypes
<1>2. v \notin {"none", "returned"} => Pending' = Pending \cup {d}
  BY <1>1 DEF Pending
<1>3. v \in {"none", "returned"} => Pending' = Pending \ {d}
  BY <1>1 DEF Pending
<1>4. /\ Cardinality(Pending \cup {d}) = IF d \in Pending THEN dials ELSE dials + 1
      /\ Cardinality(Pending \ {d}) = IF d \in Pending THEN dials - 1 ELSE dials
  BY PoolFinite, FS_AddElement, FS_RemoveElement, Zenon DEF PoolTypes
<1> QED
  BY <1>2, <1>3, <1>4

\* A step of the transport, of one of its dials or of closeAll.
LEMMA PoolStep ==
    ASSUME PoolInv,
           \/ \E d \in Dials : T!Enter(d) \/ T!Opens(d) \/ T!TransportCloses(d) \/ T!DialSteps(d)
           \/ T!Closer
    PROVE  PoolInv' /\ (closer = "returned" => closer' = "returned")
<1> DEFINE Goal == PoolInv' /\ (closer = "returned" => closer' = "returned")
<1>1. PoolTypes /\ Pool /\ closing \in BOOLEAN
  BY Zenon DEF PoolInv
<1>2. ASSUME NEW d \in Dials, T!Enter(d) PROVE Goal
  <2>1. /\ dial' = [dial EXCEPT ![d] = "dialing"] /\ dials' = dials + 1 /\ dial[d] = "none" /\ ~closing
        /\ UNCHANGED <<closing, conns, streams, active, list, closer>>
    BY <1>2, Zenon DEF T!Enter
  <2>2. d \notin Pending /\ Pending' = Pending \cup {d} /\ Cardinality(Pending \cup {d}) = dials + 1
    BY <1>1, <2>1, PendingMoves, Zenon DEF Pending
  <2>3. PoolTypes'
    BY <1>1, <2>1, <2>2, Zenon DEF PoolTypes
  <2>4. Pool'
    BY <1>1, <2>1, <2>2, Zenon DEF PoolTypes, Pool
  <2> QED
    BY <1>1, <2>1, <2>3, <2>4 DEF PoolInv
<1>3. ASSUME NEW d \in Dials, T!Opens(d) PROVE Goal
  <2>1. /\ dial' = [dial EXCEPT ![d] = "opened"] /\ dial[d] = "dialing"
        /\ streams' = streams \cup {d} /\ active' = active + 1
        /\ UNCHANGED <<closing, conns, dials, list, closer>>
    BY <1>3, Zenon DEF T!Opens
  <2>2. d \in Pending /\ Pending' = Pending \cup {d} /\ Cardinality(Pending \cup {d}) = dials
    BY <1>1, <2>1, PendingMoves, Zenon DEF Pending
  <2>3. d \notin streams
    BY <1>1, <2>1 DEF Pool
  <2>4. Cardinality(streams \cup {d}) = Cardinality(streams) + 1
    BY <1>1, <2>3, PoolFinite, FS_AddElement, Zenon
  <2>5. PoolTypes'
    BY <1>1, <2>1, <2>2, <2>4, Zenon DEF PoolTypes
  <2>6. Pool'
    BY <1>1, <2>1, <2>2, Zenon DEF PoolTypes, Pool
  <2> QED
    BY <1>1, <2>1, <2>5, <2>6, Zenon DEF PoolInv
<1>4. ASSUME NEW d \in Dials, T!TransportCloses(d) PROVE Goal
  <2>1. T!CloseConns({d}) /\ UNCHANGED <<closing, dial, dials, list, closer>>
    BY <1>4 DEF T!TransportCloses
  <2>2. streams' = streams \ {d} /\ conns' = conns \ {d} /\ active' = Cardinality(streams')
    BY <1>1, <2>1, PoolCloses
  <2>3. Pending' = Pending
    BY <2>1 DEF Pending
  <2>4. PoolTypes'
    BY <1>1, <2>1, <2>2, <2>3, Zenon DEF PoolTypes
  <2>5. Pool'
    BY <1>1, <2>1, <2>2, <2>3 DEF Pool
  <2> QED
    BY <1>1, <2>1, <2>4, <2>5 DEF PoolInv
<1>5. ASSUME NEW d \in Dials, T!Fails(d) PROVE Goal
  <2>1. /\ dial' = [dial EXCEPT ![d] = "returned"] /\ dial[d] = "dialing" /\ dials' = dials - 1
        /\ UNCHANGED <<closing, conns, streams, active, list, closer>>
    BY <1>5, Zenon DEF T!Fails
  <2>2. d \in Pending /\ Pending' = Pending \ {d} /\ Cardinality(Pending \ {d}) = dials - 1
    BY <1>1, <2>1, PendingMoves, Zenon DEF Pending
  <2>3. PoolTypes'
    BY <1>1, <2>1, <2>2 DEF PoolTypes
  <2>4. Pool'
    BY <1>1, <2>1, <2>2, Zenon DEF PoolTypes, Pool
  <2> QED
    BY <1>1, <2>1, <2>3, <2>4 DEF PoolInv
<1>6. ASSUME NEW d \in Dials, T!Registers(d) PROVE Goal
  <2>1. /\ dial[d] = "opened" /\ dial' = [dial EXCEPT ![d] = IF closing THEN "late" ELSE "returned"]
        /\ conns' = IF closing THEN conns ELSE conns \cup {d}
        /\ dials' = IF closing THEN dials ELSE dials - 1
        /\ UNCHANGED <<closing, streams, active, list, closer>>
    BY <1>6 DEF T!Registers
  <2>2. d \in Pending
    BY <2>1 DEF Pending
  <2>3. CASE closing
    <3>1. Pending' = Pending \cup {d} /\ Cardinality(Pending \cup {d}) = dials
      BY <1>1, <2>1, <2>2, <2>3, PendingMoves, Zenon
    <3>2. PoolTypes'
      BY <1>1, <2>1, <2>3, <3>1 DEF PoolTypes
    <3>3. Pool'
      BY <1>1, <2>1, <2>2, <2>3, <3>1, Zenon DEF PoolTypes, Pool
    <3> QED
      BY <1>1, <2>1, <3>2, <3>3 DEF PoolInv
  <2>4. CASE ~closing
    <3>1. Pending' = Pending \ {d} /\ Cardinality(Pending \ {d}) = dials - 1
      BY <1>1, <2>1, <2>2, <2>4, PendingMoves, Zenon
    <3>2. PoolTypes'
      BY <1>1, <2>1, <2>4, <3>1, Zenon DEF PoolTypes
    <3>3. Pool'
      BY <1>1, <2>1, <2>4, <3>1, Zenon DEF PoolTypes, Pool
    <3> QED
      BY <1>1, <2>1, <3>2, <3>3, Zenon DEF PoolInv
  <2> QED
    BY <2>3, <2>4
<1>7. ASSUME NEW d \in Dials, T!ClosesLate(d) PROVE Goal
  <2>1. /\ T!CloseConns({d}) /\ dial' = [dial EXCEPT ![d] = "returned"] /\ dial[d] = "late"
        /\ dials' = dials - 1 /\ UNCHANGED <<closing, list, closer>>
    BY <1>7 DEF T!ClosesLate
  <2>2. streams' = streams \ {d} /\ conns' = conns \ {d} /\ active' = Cardinality(streams')
    BY <1>1, <2>1, PoolCloses
  <2>3. d \in Pending /\ Pending' = Pending \ {d} /\ Cardinality(Pending \ {d}) = dials - 1
    BY <1>1, <2>1, PendingMoves, Zenon DEF Pending
  <2>4. PoolTypes'
    BY <1>1, <2>1, <2>2, <2>3, Zenon DEF PoolTypes
  <2>5. Pool'
    BY <1>1, <2>1, <2>2, <2>3, Zenon DEF PoolTypes, Pool
  <2> QED
    BY <1>1, <2>1, <2>4, <2>5 DEF PoolInv
<1>8. CASE T!StartClose
  <2>1. /\ closer = "no" /\ closing' = TRUE /\ list' = conns /\ closer' = "listed"
        /\ UNCHANGED <<conns, dial, dials, streams, active>>
    BY <1>8 DEF T!StartClose
  <2>2. Pending' = Pending
    BY <2>1 DEF Pending
  <2> QED
    BY <1>1, <2>1, <2>2 DEF PoolInv, PoolTypes, Pool
<1>9. CASE T!CloseListed
  <2>1. /\ T!CloseConns(list) /\ closer = "listed" /\ closer' = "waiting"
        /\ UNCHANGED <<closing, dial, dials, list>>
    BY <1>9, Zenon DEF T!CloseListed
  <2>2. streams' = streams \ list /\ conns' = conns \ list /\ active' = Cardinality(streams')
    BY <1>1, <2>1, PoolCloses
  <2>3. Pending' = Pending
    BY <2>1 DEF Pending
  <2>4. PoolTypes'
    BY <1>1, <2>1, <2>2, <2>3, Zenon DEF PoolTypes
  <2>5. Pool'
    BY <1>1, <2>1, <2>2, <2>3, Zenon DEF Pool
  <2> QED
    BY <1>1, <2>1, <2>4, <2>5 DEF PoolInv
<1>10. CASE T!CloseReturns
  <2>1. /\ closer = "waiting" /\ dials = 0 /\ closer' = "returned"
        /\ UNCHANGED <<closing, conns, dial, dials, streams, active, list>>
    BY <1>10, Zenon DEF T!CloseReturns
  <2>2. Pending' = Pending
    BY <2>1 DEF Pending
  <2>3. Pending = {}
    BY <1>1, <2>1, PoolFinite, FS_EmptySet, Zenon DEF PoolTypes
  <2> QED
    BY <1>1, <2>1, <2>2, <2>3, Zenon DEF PoolInv, PoolTypes, Pool
<1> QED
  BY <1>2, <1>3, <1>4, <1>5, <1>6, <1>7, <1>8, <1>9, <1>10, Zenon DEF T!DialSteps, T!Closer

\* When closeAll returned, nothing is open or being dialled.
LEMMA PoolCloseable == PoolInv => T!ClosedForGood
<1> SUFFICES ASSUME PoolInv PROVE T!ClosedForGood
  OBVIOUS
<1>1. T!TypeOK
  BY PoolCount DEF PoolInv, PoolTypes, Pending, T!TypeOK
<1>2. ASSUME closer = "returned"
      PROVE  streams = {} /\ \A d \in Dials : dial[d] \in {"none", "returned"}
  BY <1>2 DEF PoolInv, PoolTypes, Pool, Pending
<1> QED
  BY <1>1, <1>2, Zenon DEF T!ClosedForGood

-----------------------------------------------------------------------------
\* The listeners

Handed(c) == conn[c] \in {"slotted", "tracked"}

\* A connection that is handed over belongs to a listener that serves; one of a listener that has
\* swept is closed, and one of a listener that has returned has no worker.
Entry(c) ==
    /\ conn[c] = "none" => c \notin open
    /\ conn[c] # "none" => owner[c] \in Listeners
    /\ conn[c] = "slotted" => c \in open
    /\ c \in tracked <=> c \in open /\ conn[c] # "slotted"
    /\ Handed(c) => stage[owner[c]] = "serving"
    /\ c \in remote => conn[c] = "working"
    /\ owner[c] \in Listeners /\ stage[owner[c]] \in {"waiting", "returned"} => c \notin open
    /\ owner[c] \in Listeners /\ stage[owner[c]] = "returned" => conn[c] # "working"

OneHanded == \A c, d \in Conns : Handed(c) /\ Handed(d) /\ owner[c] = owner[d] => c = d

Table == OneHanded /\ \A c \in Conns : Entry(c)

TableTypes ==
    /\ stage \in [Listeners -> {"serving", "leaving", "waiting", "returned"}]
    /\ owner \in [Conns -> Listeners \cup {"none"}]
    /\ conn \in [Conns -> {"none", "slotted", "tracked", "idle", "working"}]
    /\ open \subseteq Conns /\ tracked \subseteq Conns /\ remote \subseteq Conns

TableBools == ctx \in [Listeners -> BOOLEAN] /\ hook \in [Listeners -> BOOLEAN] /\ stopping \in BOOLEAN

TableInv ==
    /\ TableTypes /\ TableBools /\ Table
    /\ slots = Cardinality(open) /\ slots \in 0..MaxConnections
    /\ stage["http"] = "returned" => closer = "returned"

\* Closing connections, whichever of them are open, gives back exactly their slots.
LEMMA TableCloses ==
    ASSUME TableInv, NEW cs, CloseConns(cs)
    PROVE  /\ open' = open \ cs /\ tracked' = tracked \ cs
           /\ slots' = Cardinality(open') /\ slots' \in 0..MaxConnections
<1>1. open' = open \ cs /\ tracked' = tracked \ cs /\ slots' = slots - Cardinality(cs \cap open)
  BY DEF CloseConns
<1>2. /\ open \in SUBSET Conns /\ IsFiniteSet(open)
      /\ slots = Cardinality(open) /\ slots \in 0..MaxConnections
  BY LocalProxyAssumption, FS_Subset DEF TableInv, TableTypes
<1>3. Cardinality(open \ cs) = Cardinality(open) - Cardinality(open \cap cs)
  BY <1>2, FS_Difference, Zenon
<1>4. cs \cap open = open \cap cs /\ open \ cs \in SUBSET open
  OBVIOUS
<1>5. Cardinality(open \ cs) \in Nat /\ Cardinality(open \ cs) <= Cardinality(open)
  BY <1>2, <1>4, FS_Subset, FS_CardinalityType, Zenon
<1>6. slots' = Cardinality(open \ cs)
  BY <1>1, <1>2, <1>3, <1>4, Zenon
<1>7. Cardinality(open \ cs) \in 0..MaxConnections
  BY <1>2, <1>5, LocalProxyAssumption
<1> QED
  BY <1>1, <1>6, <1>7, Zenon

\* A connection enters the table, or one is handed to its worker.
LEMMA AcceptStep ==
    ASSUME TableInv, UNCHANGED poolVars, NEW c \in Conns,
           \/ \E l \in Listeners : Accept(l, c)
           \/ Track(c) \/ StartSOCKS(c) \/ StartHTTP(c)
    PROVE  TableInv'
<1>1. TableTypes /\ TableBools /\ Table /\ closer' = closer
  BY Zenon DEF TableInv, poolVars
<1>2. ASSUME NEW l \in Listeners, Accept(l, c) PROVE TableInv'
  <2>1. /\ stage[l] = "serving" /\ conn[c] = "none" /\ slots < MaxConnections /\ slots' = slots + 1
        /\ owner' = [owner EXCEPT ![c] = l] /\ conn' = [conn EXCEPT ![c] = "slotted"]
        /\ open' = open \cup {c} /\ UNCHANGED <<ctx, hook, stage, stopping, tracked, remote>>
        /\ \A d \in Conns : ~(owner[d] = l /\ Handed(d))
    BY <1>2, Zenon DEF Accept, Accepting, Handed
  <2>2. TableTypes' /\ TableBools'
    BY <1>1, <2>1, Zenon DEF TableTypes, TableBools
  <2>3. \A d \in Conns : /\ conn'[d] = IF d = c THEN "slotted" ELSE conn[d]
                         /\ owner'[d] = IF d = c THEN l ELSE owner[d]
    BY <1>1, <2>1 DEF TableTypes
  <2>4. Table'
    <3>1. ASSUME NEW e \in Conns PROVE Entry(e)'
      <4>1. Entry(e)
        BY <1>1, Zenon DEF Table
      <4> QED
        BY <1>1, <2>1, <2>3, <4>1, Zenon DEF Entry, Handed
    <3>2. OneHanded'
      BY <1>1, <2>1, <2>3 DEF Table, OneHanded, Handed
    <3> QED
      BY <3>1, <3>2, Zenon DEF Table
  <2>5. c \notin open /\ IsFiniteSet(open)
    BY <1>1, <2>1, LocalProxyAssumption, FS_Subset, Zenon DEF Table, Entry, TableTypes
  <2>6. Cardinality(open \cup {c}) = Cardinality(open) + 1
    BY <2>5, FS_AddElement, Zenon
  <2> QED
    BY <1>1, <2>1, <2>2, <2>4, <2>6, LocalProxyAssumption DEF TableInv
<1>3. CASE Track(c)
  <2>1. /\ conn[c] = "slotted" /\ tracked' = tracked \cup {c} /\ conn' = [conn EXCEPT ![c] = "tracked"]
        /\ UNCHANGED <<ctx, hook, stage, stopping, owner, open, slots, remote>>
    BY <1>3, Zenon DEF Track
  <2>2. TableTypes' /\ TableBools'
    BY <1>1, <2>1, Zenon DEF TableTypes, TableBools
  <2>3. \A d \in Conns : conn'[d] = IF d = c THEN "tracked" ELSE conn[d]
    BY <1>1, <2>1, Zenon DEF TableTypes
  <2>4. Table'
    <3>1. ASSUME NEW e \in Conns PROVE Entry(e)'
      <4>1. Entry(e)
        BY <1>1, Zenon DEF Table
      <4> QED
        BY <1>1, <2>1, <2>3, <4>1 DEF Entry, Handed
    <3>2. OneHanded'
      BY <1>1, <2>1, <2>3 DEF Table, OneHanded, Handed
    <3> QED
      BY <3>1, <3>2 DEF Table
  <2> QED
    BY <1>1, <2>1, <2>2, <2>4, Zenon DEF TableInv
<1>4. CASE StartSOCKS(c) /\ ctx["socks"]
  <2>1. /\ conn[c] = "tracked" /\ owner[c] = "socks" /\ CloseConns({c})
        /\ conn' = [conn EXCEPT ![c] = "none"] /\ stage' = [stage EXCEPT !["socks"] = "leaving"]
        /\ UNCHANGED <<ctx, hook, stopping, owner, remote>>
    BY <1>4 DEF StartSOCKS
  <2>2. /\ open' = open \ {c} /\ tracked' = tracked \ {c}
        /\ slots' = Cardinality(open') /\ slots' \in 0..MaxConnections
    BY <2>1, TableCloses, Zenon
  <2>3. TableTypes' /\ TableBools'
    BY <1>1, <2>1, <2>2, Zenon DEF TableTypes, TableBools, Listeners
  <2>4. /\ \A d \in Conns : conn'[d] = IF d = c THEN "none" ELSE conn[d]
        /\ \A l \in Listeners : stage'[l] = IF l = "socks" THEN "leaving" ELSE stage[l]
    BY <1>1, <2>1 DEF TableTypes
  <2>5. Table'
    <3>1. ASSUME NEW e \in Conns PROVE Entry(e)'
      <4>1. Entry(e)
        BY <1>1 DEF Table
      <4>2. Handed(e) /\ owner[e] = "socks" => e = c
        BY <1>1, <2>1, Zenon DEF Table, OneHanded, Handed
      <4> QED
        BY <1>1, <2>1, <2>2, <2>4, <4>1, <4>2 DEF Entry, Handed, Listeners
    <3>2. OneHanded'
      BY <1>1, <2>1, <2>2, <2>4 DEF Table, OneHanded, Handed
    <3> QED
      BY <3>1, <3>2, Zenon DEF Table
  <2> QED
    BY <1>1, <2>1, <2>2, <2>3, <2>4, <2>5, Zenon DEF TableInv, Listeners
<1>5. CASE (StartSOCKS(c) /\ ~ctx["socks"]) \/ StartHTTP(c)
  <2>1. PICK v \in {"working", "idle"} :
            /\ conn[c] = "tracked" /\ conn' = [conn EXCEPT ![c] = v]
            /\ UNCHANGED <<ctx, hook, stage, stopping, owner, open, tracked, slots, remote>>
    BY <1>5, Zenon DEF StartSOCKS, StartHTTP
  <2>2. TableTypes' /\ TableBools'
    BY <1>1, <2>1, Zenon DEF TableTypes, TableBools
  <2>3. \A d \in Conns : conn'[d] = IF d = c THEN v ELSE conn[d]
    BY <1>1, <2>1, Zenon DEF TableTypes
  <2>4. c \notin remote /\ stage[owner[c]] = "serving" /\ owner[c] \in Listeners
    BY <1>1, <2>1 DEF Table, Entry, Handed
  <2>5. Table'
    <3>1. ASSUME NEW e \in Conns PROVE Entry(e)'
      <4>1. Entry(e)
        BY <1>1, Zenon DEF Table
      <4> QED
        BY <1>1, <2>1, <2>3, <2>4, <4>1, Zenon DEF Entry, Handed
    <3>2. OneHanded'
      BY <1>1, <2>1, <2>3, <2>4 DEF Table, OneHanded, Handed
    <3> QED
      BY <3>1, <3>2, Zenon DEF Table
  <2> QED
    BY <1>1, <2>1, <2>2, <2>5, Zenon DEF TableInv
<1> QED
  BY <1>2, <1>3, <1>4, <1>5, Zenon

\* A worker takes a request, dials, returns, or has its connection closed.
LEMMA WorkStep ==
    ASSUME TableInv, UNCHANGED poolVars, NEW c \in Conns,
           Request(c) \/ Dialled(c) \/ WorkEnds(c) \/ IdleEnds(c) \/ ConnHook(c)
    PROVE  TableInv'
<1>1. TableTypes /\ TableBools /\ Table /\ closer' = closer
  BY DEF TableInv, poolVars
<1>2. CASE Request(c)
  <2>1. /\ conn[c] = "idle" /\ c \in open /\ conn' = [conn EXCEPT ![c] = "working"]
        /\ UNCHANGED <<ctx, hook, stage, stopping, owner, open, tracked, slots, remote>>
    BY <1>2, Zenon DEF Request
  <2>2. TableTypes' /\ TableBools'
    BY <1>1, <2>1, Zenon DEF TableTypes, TableBools
  <2>3. \A d \in Conns : conn'[d] = IF d = c THEN "working" ELSE conn[d]
    BY <1>1, <2>1 DEF TableTypes
  <2>4. Table'
    <3>1. ASSUME NEW e \in Conns PROVE Entry(e)'
      <4>1. Entry(e)
        BY <1>1, Zenon DEF Table
      <4> QED
        BY <1>1, <2>1, <2>3, <4>1 DEF Entry, Handed
    <3>2. OneHanded'
      BY <1>1, <2>1, <2>3 DEF Table, OneHanded, Handed
    <3> QED
      BY <3>1, <3>2, Zenon DEF Table
  <2> QED
    BY <1>1, <2>1, <2>2, <2>4, Zenon DEF TableInv
<1>3. CASE Dialled(c)
  <2>1. /\ conn[c] = "working" /\ remote' = remote \cup {c}
        /\ UNCHANGED <<ctx, hook, stage, stopping, owner, conn, open, tracked, slots>>
    BY <1>3, Zenon DEF Dialled
  <2>2. TableTypes' /\ TableBools'
    BY <1>1, <2>1, Zenon DEF TableTypes, TableBools
  <2>3. Table'
    <3>1. ASSUME NEW e \in Conns PROVE Entry(e)'
      <4>1. Entry(e)
        BY <1>1, Zenon DEF Table
      <4> QED
        BY <1>1, <2>1, <4>1, Zenon DEF Entry, Handed
    <3>2. OneHanded'
      BY <1>1, <2>1, Zenon DEF Table, OneHanded, Handed
    <3> QED
      BY <3>1, <3>2, Zenon DEF Table
  <2> QED
    BY <1>1, <2>1, <2>2, <2>3, Zenon DEF TableInv
<1>4. CASE (WorkEnds(c) /\ CloseConns({c}) /\ conn' = [conn EXCEPT ![c] = "none"]) \/ IdleEnds(c)
  <2>1. /\ CloseConns({c}) /\ conn' = [conn EXCEPT ![c] = "none"]
        /\ remote' = remote \ {c}
        /\ UNCHANGED <<ctx, hook, stage, stopping, owner>>
    BY <1>1, <1>4, Zenon DEF WorkEnds, IdleEnds, Table, Entry
  <2>2. /\ open' = open \ {c} /\ tracked' = tracked \ {c}
        /\ slots' = Cardinality(open') /\ slots' \in 0..MaxConnections
    BY <2>1, TableCloses, Zenon
  <2>3. TableTypes' /\ TableBools'
    BY <1>1, <2>1, <2>2, Zenon DEF TableTypes, TableBools
  <2>4. \A d \in Conns : conn'[d] = IF d = c THEN "none" ELSE conn[d]
    BY <1>1, <2>1, Zenon DEF TableTypes
  <2>5. Table'
    <3>1. ASSUME NEW e \in Conns PROVE Entry(e)'
      <4>1. Entry(e)
        BY <1>1, Zenon DEF Table
      <4> QED
        BY <1>1, <2>1, <2>2, <2>4, <4>1, SMTT(30) DEF Entry, Handed
    <3>2. OneHanded'
      BY <1>1, <2>1, <2>2, <2>4 DEF Table, OneHanded, Handed
    <3> QED
      BY <3>1, <3>2, Zenon DEF Table
  <2> QED
    BY <1>1, <2>1, <2>2, <2>3, <2>5, Zenon DEF TableInv
<1>5. CASE WorkEnds(c) /\ conn' = [conn EXCEPT ![c] = "idle"] /\ UNCHANGED <<open, tracked, slots>>
  <2>1. /\ conn[c] = "working" /\ conn' = [conn EXCEPT ![c] = "idle"]
        /\ remote' = remote \ {c}
        /\ UNCHANGED <<ctx, hook, stage, stopping, owner, open, tracked, slots>>
    BY <1>5, Zenon DEF WorkEnds
  <2>2. TableTypes' /\ TableBools'
    BY <1>1, <2>1, Zenon DEF TableTypes, TableBools
  <2>3. \A d \in Conns : conn'[d] = IF d = c THEN "idle" ELSE conn[d]
    BY <1>1, <2>1, Zenon DEF TableTypes
  <2>4. Table'
    <3>1. ASSUME NEW e \in Conns PROVE Entry(e)'
      <4>1. Entry(e)
        BY <1>1, Zenon DEF Table
      <4> QED
        BY <1>1, <2>1, <2>3, <4>1 DEF Entry, Handed
    <3>2. OneHanded'
      BY <1>1, <2>1, <2>3 DEF Table, OneHanded, Handed
    <3> QED
      BY <3>1, <3>2, Zenon DEF Table
  <2> QED
    BY <1>1, <2>1, <2>2, <2>4, Zenon DEF TableInv
<1>6. CASE ConnHook(c)
  <2>1. /\ CloseConns({c}) /\ conn[c] = "working"
        /\ UNCHANGED <<ctx, hook, stage, stopping, owner, conn, remote>>
    BY <1>6, Zenon DEF ConnHook
  <2>2. /\ open' = open \ {c} /\ tracked' = tracked \ {c}
        /\ slots' = Cardinality(open') /\ slots' \in 0..MaxConnections
    BY <2>1, TableCloses, Zenon
  <2>3. TableTypes' /\ TableBools'
    BY <1>1, <2>1, <2>2, Zenon DEF TableTypes, TableBools
  <2>4. Table'
    <3>1. ASSUME NEW e \in Conns PROVE Entry(e)'
      <4>1. Entry(e)
        BY <1>1, Zenon DEF Table
      <4> QED
        BY <1>1, <2>1, <2>2, <4>1, Zenon DEF Entry, Handed
    <3>2. OneHanded'
      BY <1>1, <2>1, <2>2, Zenon DEF Table, OneHanded, Handed
    <3> QED
      BY <3>1, <3>2, Zenon DEF Table
  <2> QED
    BY <1>1, <2>1, <2>2, <2>3, <2>4, Zenon DEF TableInv
<1> QED
  BY <1>2, <1>3, <1>4, <1>5, <1>6, Zenon DEF WorkEnds

\* A listener stops: its accept loop ends, it closes what is tracked, and it waits.
LEMMA StopStep ==
    ASSUME TableInv, UNCHANGED poolVars,
           \/ Cancel \/ CloseGate
           \/ \E l \in Listeners : AcceptFails(l) \/ Hook(l) \/ Sweep(l) \/ Return(l)
    PROVE  TableInv'
<1>1. TableTypes /\ TableBools /\ Table /\ closer' = closer
  BY DEF TableInv, poolVars
<1>2. CASE Cancel \/ CloseGate
  <2>1. UNCHANGED <<hook, stage, owner, conn, open, tracked, slots, remote>>
    BY <1>2, Zenon DEF Cancel, CloseGate
  <2>2. TableBools'
    BY <1>1, <1>2, Zenon DEF TableBools, Cancel, CloseGate
  <2>3. TableTypes' /\ Table'
    BY <1>1, <2>1, Zenon DEF TableTypes, Table, OneHanded, Entry, Handed
  <2> QED
    BY <1>1, <2>1, <2>2, <2>3, Zenon DEF TableInv
<1>3. ASSUME NEW l \in Listeners, AcceptFails(l) PROVE TableInv'
  <2>1. /\ stage[l] = "serving" /\ stage' = [stage EXCEPT ![l] = "leaving"]
        /\ UNCHANGED <<ctx, hook, stopping, owner, conn, open, tracked, slots, remote>>
        /\ \A d \in Conns : ~(owner[d] = l /\ Handed(d))
    BY <1>3, Zenon DEF AcceptFails, Accepting, Handed
  <2>2. TableTypes' /\ TableBools'
    BY <1>1, <2>1, Zenon DEF TableTypes, TableBools
  <2>3. \A m \in Listeners : stage'[m] = IF m = l THEN "leaving" ELSE stage[m]
    BY <1>1, <2>1, Zenon DEF TableTypes
  <2>4. Table'
    <3>1. ASSUME NEW e \in Conns PROVE Entry(e)'
      <4>1. Entry(e)
        BY <1>1, Zenon DEF Table
      <4> QED
        BY <1>1, <2>1, <2>3, <4>1 DEF Entry, Handed
    <3>2. OneHanded'
      BY <1>1, <2>1, <2>3, Zenon DEF Table, OneHanded, Handed
    <3> QED
      BY <3>1, <3>2 DEF Table
  <2> QED
    BY <1>1, <2>1, <2>2, <2>3, <2>4 DEF TableInv, Listeners
<1>4. ASSUME NEW l \in Listeners, Hook(l) PROVE TableInv'
  <2>1. /\ CloseConns(tracked) /\ hook' = [hook EXCEPT ![l] = TRUE]
        /\ UNCHANGED <<ctx, stage, stopping, owner, conn, remote>>
    BY <1>4, Zenon DEF Hook
  <2>2. /\ open' = open \ tracked /\ tracked' = tracked \ tracked
        /\ slots' = Cardinality(open') /\ slots' \in 0..MaxConnections
    BY <2>1, TableCloses, Zenon
  <2>3. TableTypes' /\ TableBools'
    BY <1>1, <2>1, <2>2 DEF TableTypes, TableBools
  <2>4. Table'
    <3>1. ASSUME NEW e \in Conns PROVE Entry(e)'
      <4>1. Entry(e)
        BY <1>1, Zenon DEF Table
      <4> QED
        BY <1>1, <2>1, <2>2, <4>1, Zenon DEF Entry, Handed
    <3>2. OneHanded'
      BY <1>1, <2>1, <2>2, Zenon DEF Table, OneHanded, Handed
    <3> QED
      BY <3>1, <3>2, Zenon DEF Table
  <2> QED
    BY <1>1, <2>1, <2>2, <2>3, <2>4, Zenon DEF TableInv
<1>5. ASSUME NEW l \in Listeners, Sweep(l) PROVE TableInv'
  <2>1. /\ CloseConns(tracked) /\ stage[l] = "leaving"
        /\ ctx' = [ctx EXCEPT ![l] = TRUE] /\ stage' = [stage EXCEPT ![l] = "waiting"]
        /\ UNCHANGED <<hook, stopping, owner, conn, remote>>
    BY <1>5, Zenon DEF Sweep
  <2>2. /\ open' = open \ tracked /\ tracked' = tracked \ tracked
        /\ slots' = Cardinality(open') /\ slots' \in 0..MaxConnections
    BY <2>1, TableCloses, Zenon
  <2>3. TableTypes' /\ TableBools'
    BY <1>1, <2>1, <2>2, Zenon DEF TableTypes, TableBools
  <2>4. \A m \in Listeners : stage'[m] = IF m = l THEN "waiting" ELSE stage[m]
    BY <1>1, <2>1 DEF TableTypes
  <2>5. Table'
    <3>1. ASSUME NEW e \in Conns PROVE Entry(e)'
      <4>1. Entry(e)
        BY <1>1, Zenon DEF Table
      <4> QED
        BY <1>1, <2>1, <2>2, <2>4, <4>1 DEF Entry, Handed
    <3>2. OneHanded'
      BY <1>1, <2>1, <2>2, <2>4, Zenon DEF Table, OneHanded, Handed
    <3> QED
      BY <3>1, <3>2, Zenon DEF Table
  <2> QED
    BY <1>1, <2>1, <2>2, <2>3, <2>4, <2>5 DEF TableInv, Listeners
<1>6. ASSUME NEW l \in Listeners, Return(l) PROVE TableInv'
  <2>1. /\ stage[l] = "waiting" /\ (l = "http" => closer = "returned")
        /\ \A c \in Conns : owner[c] = l => conn[c] # "working"
        /\ stage' = [stage EXCEPT ![l] = "returned"]
        /\ UNCHANGED <<ctx, hook, stopping, owner, conn, open, tracked, slots, remote>>
    BY <1>6, Zenon DEF Return
  <2>2. TableTypes' /\ TableBools'
    BY <1>1, <2>1, Zenon DEF TableTypes, TableBools
  <2>3. \A m \in Listeners : stage'[m] = IF m = l THEN "returned" ELSE stage[m]
    BY <1>1, <2>1, Zenon DEF TableTypes
  <2>4. Table'
    <3>1. ASSUME NEW e \in Conns PROVE Entry(e)'
      <4>1. Entry(e)
        BY <1>1, Zenon DEF Table
      <4> QED
        BY <1>1, <2>1, <2>3, <4>1, Zenon DEF Entry, Handed
    <3>2. OneHanded'
      BY <1>1, <2>1, <2>3, Zenon DEF Table, OneHanded, Handed
    <3> QED
      BY <3>1, <3>2, Zenon DEF Table
  <2> QED
    BY <1>1, <2>1, <2>2, <2>3, <2>4, Zenon DEF TableInv, Listeners
<1> QED
  BY <1>2, <1>3, <1>4, <1>5, <1>6, Zenon

-----------------------------------------------------------------------------
\* Together

LocalInv == PoolInv /\ TableInv

\* Both listeners start with an empty table and an empty pool.
LEMMA LocalInit == Init => LocalInv
<1> SUFFICES ASSUME Init PROVE LocalInv
  OBVIOUS
<1>1. Cardinality({}) = 0
  BY FS_EmptySet
<1>2. /\ conns = {} /\ streams = {} /\ list = {} /\ dials = 0 /\ active = 0 /\ closer = "no"
      /\ closing = FALSE /\ dial = [d \in Dials |-> "none"]
  BY DEF Init, T!Init
<1>3. Pending = {}
  BY <1>2, Zenon DEF Pending
<1>4. PoolInv
  BY <1>1, <1>2, <1>3, Zenon DEF PoolInv, PoolTypes, Pool
<1>5. TableTypes /\ TableBools
  BY Zenon DEF Init, TableTypes, TableBools
<1>6. Table
  BY Zenon DEF Init, Table, OneHanded, Entry, Handed, Listeners
<1> QED
  BY <1>1, <1>4, <1>5, <1>6, LocalProxyAssumption DEF LocalInv, TableInv, Init, Listeners

\* Every step of the listeners, their workers and the transport keeps the invariant.
LEMMA LocalNext == LocalInv /\ [Next]_vars => LocalInv'
<1> SUFFICES ASSUME LocalInv, [Next]_vars PROVE LocalInv'
  BY Zenon
<1> USE DEF LocalInv
<1>1. ASSUME UNCHANGED poolVars PROVE PoolInv'
  BY <1>1, Zenon DEF poolVars, PoolInv, PoolTypes, Pool, Pending
<1>2. ASSUME UNCHANGED proxyVars, closer = "returned" => closer' = "returned" PROVE TableInv'
  BY <1>2, Zenon DEF proxyVars, TableInv, TableTypes, TableBools, Table, OneHanded, Entry, Handed
<1>3. ASSUME NEW l \in Listeners, Listener(l) PROVE LocalInv'
  BY <1>1, <1>3, AcceptStep, StopStep, Zenon DEF Listener
<1>4. ASSUME NEW c \in Conns, Worker(c) PROVE LocalInv'
  BY <1>1, <1>4, WorkStep, Zenon DEF Worker
<1>5. ASSUME NEW d \in Dials, Dial(d) \/ DialEnds(d) PROVE LocalInv'
  <2>1. PoolInv' /\ (closer = "returned" => closer' = "returned") /\ UNCHANGED proxyVars
    BY <1>5, PoolStep, Zenon DEF Dial, DialEnds
  <2> QED
    BY <1>2, <2>1, Zenon
<1>6. CASE Other
  BY <1>1, <1>6, AcceptStep, StopStep, Zenon DEF Other
<1>7. CASE CloseTransport
  <2>1. PoolInv' /\ (closer = "returned" => closer' = "returned") /\ UNCHANGED proxyVars
    BY <1>7, PoolStep, Zenon DEF CloseTransport
  <2> QED
    BY <1>2, <2>1, Zenon
<1>8. CASE UNCHANGED vars
  BY <1>1, <1>2, <1>8, Zenon DEF vars, proxyVars, poolVars
<1> QED
  BY <1>3, <1>4, <1>5, <1>6, <1>7, <1>8 DEF Next

\* The listeners' table and the transport's pool keep their invariants for good.
LEMMA LocalInvariant == Spec => []LocalInv
  BY LocalInit, LocalNext, PTL DEF Spec

\* The slots both listeners share (proxy.go, track and trackedConn.Close) are taken exactly by the
\* open connections, for any number of connections and any capacity: neither the repeated closes
\* of a connection nor the sweeps of two listeners give a slot back twice.
THEOREM Slots == Spec => []SlotsExact
<1>1. LocalInv => SlotsExact
  BY DEF LocalInv, TableInv, TableTypes, TableBools, Table, Entry, SlotsExact, TypeOK
<1> QED
  BY <1>1, LocalInvariant, PTL

\* When serveSOCKS or serveHTTP returned, no connection, worker, tunnel stream, pooled stream or
\* dial of it is left, and none appears later, for any number of each.
THEOREM Shutdown == Spec => []ReturnLeavesNothing
<1>1. ASSUME LocalInv PROVE ReturnLeavesNothing
  <2>1. TableInv /\ T!ClosedForGood
    BY <1>1, PoolCloseable DEF LocalInv
  <2> QED
    BY <2>1 DEF TableInv, Table, Entry, ReturnLeavesNothing
<1> QED
  BY <1>1, LocalInvariant, PTL

=============================================================================
