---------------------------- MODULE WindowProofs ----------------------------
(***************************************************************************)
(* What the bounded window of the store is good for, in two parts.         *)
(*                                                                         *)
(* The store keeps its contract: for every set of users and transactions,  *)
(* every window size and any number of calls, a history is the newest      *)
(* arrivals.                                                               *)
(*                                                                         *)
(* The detectors read that window as the statements of Evaluation say, for *)
(* every set of templates and any length of the data.  While the data are  *)
(* played the window holds the newest purchases in their order, so what is *)
(* counted in it is counted in the data (SameCount, SameCountAll).  In the *)
(* calibration, which plays them again, it holds what is left of the first *)
(* round and all of the second (Rotated), so that no purchase is ever      *)
(* missing.  One statement needs no history: a vote of a detector that     *)
(* fires weighs more than its abstention, whatever the others say.  What a *)
(* loop or a sort arrives at rests on the least of a set of numbers        *)
(* (LeastNat).                                                             *)
(***************************************************************************)
EXTENDS StoreContract, Evaluation, MemStoreProofs, FiniteSetTheorems, FunctionTheorems,
        WellFoundedInduction, TLAPS

-----------------------------------------------------------------------------
(* The contract of the store. *)

\* The window, the seen set and the counters, together with their types; each
\* conjunct is inductive given the first.
StoreInv ==
    /\ StoreTypeOK
    /\ HistoryIsNewestArrivals
    /\ SeenIsEverRecorded
    /\ CountersAgree

\* An empty store keeps the contract.
LEMMA StoreInitInv == ContractInit => StoreInv
<1> SUFFICES ASSUME ContractInit PROVE StoreInv
  OBVIOUS
<1> USE DEF ContractInit, NewStore
<1>1. StoreTypeOK
  BY DEF StoreTypeOK, Severities
<1>2. HistoryIsNewestArrivals
  BY MaxHistoryAssumption DEF HistoryIsNewestArrivals, Newest
<1>3. SeenIsEverRecorded
  BY DEF SeenIsEverRecorded
<1>4. CountersAgree
  BY DEF CountersAgree, Severities
<1> QED BY <1>1, <1>2, <1>3, <1>4 DEF StoreInv

\* What Add and Seed have in common, by appendLocked and MarkSeen.
LEMMA ArrivalKeepsInv ==
    ASSUME StoreInv, NEW tx \in Txs, appendLocked(tx), MarkSeen(tx), Arrive(tx)
    PROVE  /\ history' \in [Users -> Seq(Txs)]
           /\ arrivals' \in [Users -> Seq(Txs)]
           /\ seenIDs' \subseteq {t.id : t \in Txs} \ {NoID}
           /\ calls' \in Nat
           /\ HistoryIsNewestArrivals'
           /\ SeenIsEverRecorded'
<1> USE DEF StoreInv, StoreTypeOK
<1>1. tx.user \in Users
  BY CallersAssumption
<1>2. arrivals' = [arrivals EXCEPT ![tx.user] = Append(arrivals[tx.user], tx)]
  BY DEF Arrive
<1>3. history' = [history EXCEPT ![tx.user] =
                     Newest(Append(history[tx.user], tx), MaxHistory)]
  BY DEF appendLocked
<1>4. arrivals' \in [Users -> Seq(Txs)]
  BY <1>1, <1>2
<1>5. history' \in [Users -> Seq(Txs)]
  <2>1. Append(history[tx.user], tx) \in Seq(Txs)
    BY <1>1
  <2>2. Newest(Append(history[tx.user], tx), MaxHistory) \in Seq(Txs)
    BY <2>1, NewestType, MaxHistoryAssumption
  <2> QED BY <1>1, <1>3, <2>2
<1>6. HistoryIsNewestArrivals'
  <2> SUFFICES ASSUME NEW u \in Users
               PROVE  history'[u] = Newest(arrivals'[u], MaxHistory)
    BY DEF HistoryIsNewestArrivals, Newest
  <2>1. history[u] = Newest(arrivals[u], MaxHistory)
    BY DEF HistoryIsNewestArrivals
  <2>2. CASE u = tx.user
    <3>1. arrivals[u] \in Seq(Txs)
      OBVIOUS
    <3>2. Newest(Append(Newest(arrivals[u], MaxHistory), tx), MaxHistory)
              = Newest(Append(arrivals[u], tx), MaxHistory)
      BY <3>1, NewestAppend, MaxHistoryAssumption
    <3> QED BY <1>1, <1>2, <1>3, <2>1, <2>2, <3>2
  <2>3. CASE u # tx.user
    BY <1>1, <1>2, <1>3, <2>1, <2>3
  <2> QED BY <2>2, <2>3
<1>7. SeenIsEverRecorded'
  <2> DEFINE ids(u) == {arrivals[u][i].id : i \in DOMAIN arrivals[u]}
  <2>1. \A u \in Users : {arrivals'[u][i].id : i \in DOMAIN arrivals'[u]} =
            IF u = tx.user THEN ids(u) \cup {tx.id} ELSE ids(u)
    <3> SUFFICES ASSUME NEW u \in Users
                 PROVE  {arrivals'[u][i].id : i \in DOMAIN arrivals'[u]} =
                            IF u = tx.user THEN ids(u) \cup {tx.id} ELSE ids(u)
      OBVIOUS
    <3>1. CASE u # tx.user
      BY <3>1, <1>1, <1>2
    <3>2. CASE u = tx.user
      <4> DEFINE s == arrivals[u]
      <4>1. s \in Seq(Txs) /\ arrivals'[u] = Append(s, tx)
        BY <3>2, <1>1, <1>2
      <4> HIDE DEF s
      <4>2. /\ DOMAIN Append(s, tx) = 1..(Len(s) + 1) /\ DOMAIN s = 1..Len(s)
            /\ \A i \in 1..Len(s) : Append(s, tx)[i] = s[i]
            /\ Append(s, tx)[Len(s) + 1] = tx
            /\ Len(s) \in Nat
        BY <4>1
      <4>3. 1..(Len(s) + 1) = (1..Len(s)) \cup {Len(s) + 1}
        BY <4>2
      <4>4. {Append(s, tx)[i].id : i \in DOMAIN Append(s, tx)} =
               {s[i].id : i \in DOMAIN s} \cup {tx.id}
        BY <4>2, <4>3
      <4> QED BY <3>2, <4>1, <4>4 DEF s
    <3> QED BY <3>1, <3>2
  <2>2. UNION {{arrivals'[u][i].id : i \in DOMAIN arrivals'[u]} : u \in Users}
            = (UNION {ids(u) : u \in Users}) \cup {tx.id}
    <3> DEFINE jds(u) == {arrivals'[u][i].id : i \in DOMAIN arrivals'[u]}
    <3>1. \A u \in Users : jds(u) = IF u = tx.user THEN ids(u) \cup {tx.id} ELSE ids(u)
      BY <2>1
    <3> HIDE DEF ids, jds
    <3>2. UNION {jds(u) : u \in Users} = (UNION {ids(u) : u \in Users}) \cup {tx.id}
      BY <3>1, <1>1
    <3> QED BY <3>2 DEF jds
  <2>3. seenIDs = (UNION {ids(u) : u \in Users}) \ {NoID}
    <3>1. SeenIsEverRecorded
      OBVIOUS
    <3> QED BY <3>1, Zenon DEF SeenIsEverRecorded
  <2>4. seenIDs' = ((UNION {ids(u) : u \in Users}) \cup {tx.id}) \ {NoID}
    <3> HIDE DEF ids
    <3> QED BY <2>3 DEF MarkSeen
  <2> HIDE DEF ids
  <2>5. seenIDs' = (UNION {{arrivals'[u][i].id : i \in DOMAIN arrivals'[u]} : u \in Users}) \ {NoID}
    BY <2>2, <2>4, Zenon
  <2> QED BY <2>5, Zenon DEF SeenIsEverRecorded
<1>8. seenIDs' \subseteq {t.id : t \in Txs} \ {NoID}
  BY DEF MarkSeen
<1>9. calls' \in Nat
  BY DEF Arrive
<1> QED BY <1>4, <1>5, <1>6, <1>7, <1>8, <1>9

\* Every call keeps the contract.
LEMMA StoreNextInv == StoreInv /\ [ContractNext]_contractVars => StoreInv'
<1> SUFFICES ASSUME StoreInv, [ContractNext]_contractVars PROVE StoreInv'
  OBVIOUS
<1>1. CASE UNCHANGED contractVars
  BY <1>1 DEF StoreInv, contractVars, storeVars, StoreTypeOK, HistoryIsNewestArrivals,
              SeenIsEverRecorded, CountersAgree
<1>2. ASSUME NEW tx \in Txs, DoSeed(tx)
      PROVE  StoreInv'
  <2>1. appendLocked(tx) /\ MarkSeen(tx) /\ Arrive(tx)
        /\ UNCHANGED <<totalScored, totalFlagged, bySeverity>>
    BY <1>2 DEF DoSeed, Seed
  <2>2. StoreTypeOK'
    BY <2>1, ArrivalKeepsInv DEF StoreTypeOK, StoreInv
  <2>3. CountersAgree'
    BY <2>1 DEF CountersAgree, StoreInv
  <2> QED BY <2>1, <2>2, <2>3, ArrivalKeepsInv DEF StoreInv
<1>3. ASSUME NEW tx \in Txs, NEW risk \in Risks, DoAdd(tx, risk)
      PROVE  StoreInv'
  <2>1. appendLocked(tx) /\ MarkSeen(tx) /\ Arrive(tx)
    BY <1>3 DEF DoAdd, Add
  <2>2. risk \in RiskScore /\ risk.severity = SeverityFromScore(risk.score) /\ Add(tx, risk)
    BY <1>3, CallersAssumption DEF DoAdd
  <2>3. StoreCounters /\ CountersAgree
    BY DEF StoreInv, StoreTypeOK, StoreCounters
  <2>4. StoreCounters' /\ CountersAgree'
    BY <2>2, <2>3, AddCounts
  <2>6. StoreTypeOK'
    BY <2>1, <2>4, ArrivalKeepsInv DEF StoreTypeOK, StoreInv, StoreCounters
  <2>7. CountersAgree'
    BY <2>4
  <2> QED BY <2>1, <2>6, <2>7, ArrivalKeepsInv DEF StoreInv
<1> QED
  BY <1>1, <1>2, <1>3 DEF ContractNext

\* The strengthened invariant holds throughout.
THEOREM StoreInvHolds == ContractSpec => []StoreInv
BY StoreInitInv, StoreNextInv, PTL DEF ContractSpec

\* The store keeps the shape of its state; the empty id is never marked as seen.
THEOREM StoreTypeTheorem == ContractSpec => []StoreTypeOK
<1>1. StoreInv => StoreTypeOK
  BY DEF StoreInv
<1> QED BY <1>1, StoreInvHolds, PTL

\* A user's history is its newest MaxHistory arrivals, whatever was called.
THEOREM WindowTheorem == ContractSpec => []HistoryIsNewestArrivals
<1>1. StoreInv => HistoryIsNewestArrivals
  BY DEF StoreInv
<1> QED BY <1>1, StoreInvHolds, PTL

\* SeenBefore never forgets, not even what the window has dropped.
THEOREM SeenTheorem == ContractSpec => []SeenIsEverRecorded
<1>1. StoreInv => SeenIsEverRecorded
  BY DEF StoreInv
<1> QED BY <1>1, StoreInvHolds, PTL

\* The aggregate counters agree with the severity buckets.
THEOREM CountersTheorem == ContractSpec => []CountersAgree
<1>1. StoreInv => CountersAgree
  BY DEF StoreInv
<1> QED BY <1>1, StoreInvHolds, PTL

-----------------------------------------------------------------------------
(* The shape of the data and of the histories filled with them. *)

\* The data are numbered; scores are at hand only while the data are played for the first time.
DataShape ==
    /\ phase \in {"evaluate", "calibrate", "fitted"}
    /\ data \in Seq(Transaction)
    /\ \A i \in DOMAIN data : data[i].id = i
    /\ \A i \in DOMAIN data : \E t \in Templates : data[i].country = t.country
    /\ next \in Nat \ {0} /\ pairs \in Seq(BOOLEAN)
    /\ phase = "evaluate" => next = 1 /\ pairs = <<>>
    /\ phase # "evaluate" => last = None

\* What the store keeps of a user are purchases of that user in the data.
HistoryShape ==
    /\ history \in [Users -> Seq(Transaction)]
    /\ \A u \in Users : Len(history[u]) <= MaxHistory
    /\ \A u \in Users : \A p \in DOMAIN history[u] :
          /\ history[u][p].id \in DOMAIN data
          /\ history[u][p] = data[history[u][p].id]
          /\ history[u][p].user = u

\* While the data are being played, the store keeps them in their order, and what
\* it does not keep is older than a full window.
Recent(u) ==
    /\ \A p, q \in DOMAIN history[u] : p < q => history[u][p].id < history[u][q].id
    /\ \A i \in DOMAIN data : data[i].user = u =>
          \/ \E p \in DOMAIN history[u] : history[u][p].id = i
          \/ /\ Len(history[u]) = MaxHistory
             /\ \A p \in DOMAIN history[u] : i < history[u][p].id
RecentInv == phase = "evaluate" => \A u \in Users : Recent(u)

Shape == DataShape /\ HistoryShape

-----------------------------------------------------------------------------
(* The data played so far, as Own and Kept will see them after the next step. *)
Bought(u) == {i \in DOMAIN data : data[i].user = u}
Held(u) == {i \in Bought(u) : Cardinality({j \in Bought(u) : j > i}) < MaxHistory}

\* The types of a transaction's fields.
LEMMA TransactionFields ==
    ASSUME NEW x \in Transaction
    PROVE  /\ x.id \in Nat /\ x.time \in Nat /\ x.user \in Users /\ x.amount \in Nat
           /\ x.merchant \in DOMAIN KeysIn
BY DEF Transaction

\* A user's purchases are finitely many positions.
LEMMA BoughtFinite ==
    ASSUME Shape, NEW u, NEW T \in SUBSET Bought(u)
    PROVE  IsFiniteSet(T) /\ Cardinality(T) \in Nat /\ T \subseteq Nat
<1>1. T \subseteq 1..Len(data) /\ Len(data) \in Nat
  BY DEF Bought, Shape, DataShape
<1>2. IsFiniteSet(1..Len(data))
  BY <1>1, FS_Interval
<1>3. IsFiniteSet(T)
  BY <1>1, <1>2, FS_Subset
<1>4. Cardinality(T) \in Nat
  BY <1>3, FS_CardinalityType
<1> QED BY <1>1, <1>3, <1>4

\* The window holds a purchase exactly when fewer than MaxHistory are later.
LEMMA HeldIsKept ==
    ASSUME Shape, NEW u \in Users, Recent(u)
    PROVE  Held(u) = {history[u][p].id : p \in DOMAIN history[u]}
<1> DEFINE h == history[u]
           f == [p \in DOMAIN h |-> h[p].id]
<1>1. /\ h \in Seq(Transaction) /\ Len(h) \in Nat /\ DOMAIN h = 1..Len(h) /\ Len(h) <= MaxHistory
      /\ \A p \in DOMAIN h : h[p].id \in Bought(u)
      /\ \A p, q \in DOMAIN h : p < q => h[p].id < h[q].id
  BY DEF Shape, HistoryShape, Recent, Bought
<1>4. /\ Bought(u) \subseteq Nat
      /\ \A p \in DOMAIN h : h[p].id \in Nat
      /\ \A j \in Bought(u) : \/ \E q \in DOMAIN h : h[q].id = j
                             \/ \A q \in DOMAIN h : j < h[q].id
  <2>1. Bought(u) \subseteq Nat
    BY DEF Bought, Shape, DataShape
  <2>2. ASSUME NEW j \in Bought(u)
        PROVE  (\E q \in DOMAIN h : h[q].id = j) \/ (\A q \in DOMAIN h : j < h[q].id)
    BY DEF Recent, Bought
  <2>3. \A p \in DOMAIN h : h[p].id \in Nat
    BY <1>1, <2>1
  <2> QED BY <2>1, <2>2, <2>3
<1>2. ASSUME NEW p \in DOMAIN h PROVE h[p].id \in Held(u)
  <2> DEFINE later == {j \in Bought(u) : j > h[p].id}
  <2>1. \A j \in later : \E q \in (p + 1)..Len(h) : h[q].id = j
    <3> TAKE j \in later
    <3>1. j \in Bought(u) /\ j \in Nat /\ h[p].id \in Nat /\ j > h[p].id
      BY <1>2, <1>4
    <3> HIDE DEF later, h
    <3>2. PICK q \in DOMAIN h : h[q].id = j
      BY <3>1, <1>2, <1>4
    <3>3. q < p => h[q].id < h[p].id
      BY <1>1, <1>2, <3>2
    <3>4. ~(q < p) /\ q # p
      BY <3>1, <3>2, <3>3
    <3>5. q \in 1..Len(h) /\ p \in 1..Len(h) /\ Len(h) \in Nat
      BY <1>1, <1>2, <3>2
    <3> QED BY <3>2, <3>4, <3>5
  <2>2. IsFiniteSet((p + 1)..Len(h)) /\ Cardinality((p + 1)..Len(h)) < MaxHistory
    <3>1. p \in Nat \ {0} /\ p <= Len(h) /\ Len(h) \in Nat /\ Len(h) <= MaxHistory
      BY <1>1, <1>2
    <3> HIDE DEF h
    <3>2. /\ IsFiniteSet((p + 1)..Len(h))
          /\ Cardinality((p + 1)..Len(h)) = IF p + 1 > Len(h) THEN 0 ELSE Len(h) - (p + 1) + 1
      <4>1. p + 1 \in Int /\ Len(h) \in Int
        BY <3>1
      <4> QED BY <4>1, FS_Interval
    <3> DEFINE c == Cardinality((p + 1)..Len(h))
    <3>3. c = IF p + 1 > Len(h) THEN 0 ELSE Len(h) - (p + 1) + 1
      BY <3>2
    <3> HIDE DEF c
    <3>4. c < MaxHistory
      BY <3>1, <3>3, MaxHistoryAssumption
    <3> QED BY <3>2, <3>4 DEF c
  <2> DEFINE g == [q \in (p + 1)..Len(h) |-> h[q].id]
  <2>3. later \subseteq {g[q] : q \in (p + 1)..Len(h)}
    BY <2>1
  <2>4. \A q \in (p + 1)..Len(h) : q \in DOMAIN h /\ h[q].id > h[p].id /\ h[q].id \in Bought(u)
    <3> TAKE q \in (p + 1)..Len(h)
    <3>1. q \in DOMAIN h /\ p < q
      BY <1>1, <1>2
    <3>2. h[p].id < h[q].id /\ h[q].id \in Bought(u) /\ h[p].id \in Bought(u)
      BY <3>1, <1>1, <1>2
    <3>3. h[p].id \in Nat /\ h[q].id \in Nat
      BY <1>4, <3>1, <1>2
    <3> QED BY <3>1, <3>2, <3>3
  <2>5. g \in Surjection((p + 1)..Len(h), later)
    <3>1. g \in [(p + 1)..Len(h) -> later]
      BY <2>4
    <3>2. \A j \in later : \E q \in (p + 1)..Len(h) : g[q] = j
      BY <2>1
    <3> HIDE DEF g, later
    <3> QED BY <3>1, <3>2, Fun_IsSurj
  <2>6. Cardinality(later) <= Cardinality((p + 1)..Len(h))
    <3> HIDE DEF g, later
    <3> QED BY <2>2, <2>5, FS_Surjection
  <2>7. Cardinality(later) \in Nat /\ Cardinality((p + 1)..Len(h)) \in Nat
    <3>1. later \in SUBSET Bought(u)
      OBVIOUS
    <3>2. Cardinality(later) \in Nat
      BY <3>1, BoughtFinite
    <3> HIDE DEF later
    <3> QED BY <3>2, <2>2, FS_CardinalityType
  <2>8. Cardinality(later) < MaxHistory
    <3> HIDE DEF later
    <3> QED BY <2>2, <2>6, <2>7, MaxHistoryAssumption
  <2> QED BY <1>1, <1>2, <2>8 DEF Held
<1>3. ASSUME NEW i \in Held(u) PROVE \E p \in DOMAIN h : h[p].id = i
  <2>1. SUFFICES ASSUME ~ \E p \in DOMAIN h : h[p].id = i PROVE FALSE
    OBVIOUS
  <2>2. i \in Bought(u) /\ i \in DOMAIN data /\ data[i].user = u
    BY <1>3 DEF Held, Bought
  <2>3. Len(h) = MaxHistory /\ \A p \in DOMAIN h : i < h[p].id
    BY <2>1, <2>2 DEF Recent
  <2> DEFINE later == {j \in Bought(u) : j > i}
  <2>4. f \in [DOMAIN h -> later]
    <3>1. \A p \in DOMAIN h : h[p].id \in Bought(u) /\ h[p].id > i
      BY <1>1, <1>4, <2>3, <2>2
    <3> QED BY <3>1
  <2>5. \A p, q \in DOMAIN h : f[p] = f[q] => p = q
    <3> TAKE p, q \in DOMAIN h
    <3>1. h[p].id \in Nat /\ h[q].id \in Nat /\ p \in Nat /\ q \in Nat
      BY <1>1, <1>4
    <3>2. (p < q => h[p].id < h[q].id) /\ (q < p => h[q].id < h[p].id)
      BY <1>1
    <3>3. f[p] = h[p].id /\ f[q] = h[q].id
      OBVIOUS
    <3> HIDE DEF f, h
    <3> QED BY <3>1, <3>2, <3>3
  <2>6. IsFiniteSet(DOMAIN h) /\ Cardinality(DOMAIN h) = MaxHistory
    BY <1>1, <2>3, FS_Interval, MaxHistoryAssumption
  <2>7. IsFiniteSet(later) /\ Cardinality(later) \in Nat /\ Cardinality(later) < MaxHistory
    BY <1>3, BoughtFinite DEF Held
  <2>8. f \in Injection(DOMAIN h, later)
    <3> HIDE DEF f, later
    <3> QED BY <2>4, <2>5, Fun_IsInj
  <2>9. Cardinality(DOMAIN h) <= Cardinality(later)
    <3> HIDE DEF f, later
    <3> QED BY <2>7, <2>8, FS_Injection
  <2> QED BY <2>6, <2>7, <2>9, MaxHistoryAssumption
<1> QED BY <1>2, <1>3

\* What is counted in a history is finite.
LEMMA CountType ==
    ASSUME Shape, NEW u \in Users, NEW T \in SUBSET DOMAIN history[u]
    PROVE  IsFiniteSet(T) /\ Cardinality(T) \in Nat
<1> DEFINE n == Len(history[u])
<1>1. T \subseteq 1..n /\ n \in Nat
  BY DEF Shape, HistoryShape
<1> HIDE DEF n
<1>2. IsFiniteSet(1..n)
  BY <1>1, FS_Interval
<1>3. IsFiniteSet(T)
  BY <1>1, <1>2, FS_Subset
<1> QED BY <1>3, FS_CardinalityType

\* So whatever is counted in a history can be counted in the data.
LEMMA SameCount ==
    ASSUME Shape, NEW u \in Users, Recent(u), NEW S
    PROVE  Cardinality({p \in DOMAIN history[u] : history[u][p] \in S})
             = Cardinality({i \in Held(u) : data[i] \in S})
<1> DEFINE h == history[u]
           A == {p \in DOMAIN h : h[p] \in S}
           B == {i \in Held(u) : data[i] \in S}
           f == [p \in A |-> h[p].id]
<1>1. /\ h \in Seq(Transaction) /\ Len(h) \in Nat /\ DOMAIN h = 1..Len(h)
      /\ \A p \in DOMAIN h : h[p].id \in DOMAIN data /\ h[p] = data[h[p].id]
      /\ \A p, q \in DOMAIN h : p < q => h[p].id < h[q].id
  BY DEF Shape, HistoryShape, Recent
<1>2. Held(u) = {h[p].id : p \in DOMAIN h}
  BY HeldIsKept
<1>3. f \in [A -> B]
  BY <1>1, <1>2
<1>4. \A i \in B : \E p \in A : f[p] = i
  BY <1>1, <1>2
<1>5. \A p, q \in A : f[p] = f[q] => p = q
  <2> TAKE p, q \in A
  <2>1. p \in DOMAIN h /\ q \in DOMAIN h /\ p \in Nat /\ q \in Nat
    BY <1>1
  <2>2. h[p].id \in DOMAIN data /\ h[q].id \in DOMAIN data
    BY <1>1, <2>1
  <2>3. DOMAIN data \subseteq Nat
    BY DEF Shape, DataShape
  <2>4. (p < q => h[p].id < h[q].id) /\ (q < p => h[q].id < h[p].id)
    BY <1>1, <2>1
  <2>5. f[p] = h[p].id /\ f[q] = h[q].id
    OBVIOUS
  <2> HIDE DEF A, f, h
  <2> QED BY <2>1, <2>2, <2>3, <2>4, <2>5
<1>6. IsFiniteSet(A)
  <2>1. A \in SUBSET DOMAIN history[u]
    OBVIOUS
  <2> HIDE DEF A
  <2> QED BY <2>1, CountType
<1>7. f \in Bijection(A, B)
  <2> HIDE DEF f, A, B
  <2> QED BY <1>3, <1>4, <1>5, Fun_IsBij
<1>8. ExistsBijection(A, B)
  <2> HIDE DEF f, A, B
  <2> QED BY <1>7 DEF ExistsBijection
<1>9. Cardinality(A) = Cardinality(B)
  <2> HIDE DEF A, B
  <2> QED BY <1>6, <1>8, FS_Bijection
<1> QED BY <1>9

-----------------------------------------------------------------------------
(* What Evaluate adds to the data and to the history. *)
Made(t) == [t EXCEPT !.id = Len(data) + 1]

\* Evaluate makes a transaction, numbered next.
LEMMA MadeType ==
    ASSUME Shape, NEW t \in Templates
    PROVE  LET tx == Made(t)
           IN  /\ tx \in Transaction
               /\ tx.id = Len(data) + 1
               /\ tx.country = t.country
<1>1. t \in Transaction
  BY EvaluationAssumption
<1>2. Len(data) + 1 \in Nat
  BY DEF Shape, DataShape
<1> QED BY <1>1, <1>2 DEF Made, Transaction

\* One more transaction in a window: the oldest leaves when it was full.
LEMMA SeedEffect ==
    ASSUME Shape, NEW tx \in Transaction, Seed(tx)
    PROVE  LET h == history[tx.user]
               k == history'[tx.user]
           IN  /\ history' \in [Users -> Seq(Transaction)]
               /\ \A u \in Users : u # tx.user => history'[u] = history[u]
               /\ Len(h) \in 0..MaxHistory
               /\ Len(h) < MaxHistory =>
                     /\ Len(k) = Len(h) + 1 /\ k[Len(k)] = tx
                     /\ \A p \in 1..Len(h) : k[p] = h[p]
               /\ Len(h) = MaxHistory =>
                     /\ Len(k) = MaxHistory /\ k[Len(k)] = tx
                     /\ \A p \in 1..(Len(k) - 1) : k[p] = h[p + 1]
<1> DEFINE h == history[tx.user]
           a == Append(h, tx)
           k == Newest(a, MaxHistory)
<1>1. tx.user \in Users /\ history \in [Users -> Seq(Transaction)]
      /\ h \in Seq(Transaction) /\ Len(h) \in Nat /\ Len(h) <= MaxHistory
  <2>1. tx.user \in Users
    BY TransactionFields
  <2> QED BY <2>1 DEF Shape, HistoryShape
<1>2. history' = [history EXCEPT ![tx.user] = k]
  BY DEF Seed, appendLocked
<1>3. /\ a \in Seq(Transaction) /\ Len(a) = Len(h) + 1 /\ a[Len(h) + 1] = tx
      /\ \A p \in 1..Len(h) : a[p] = h[p]
  BY <1>1
<1> HIDE DEF a
<1>4. /\ k \in Seq(Transaction)
      /\ Len(k) = IF Len(a) > MaxHistory THEN MaxHistory ELSE Len(a)
      /\ \A i \in 1..Len(k) : k[i] = a[IF Len(a) > MaxHistory THEN Len(a) - MaxHistory + i ELSE i]
  BY <1>3, NewestType, MaxHistoryAssumption
<1> HIDE DEF k
<1>5. history' \in [Users -> Seq(Transaction)] /\ history'[tx.user] = k
      /\ \A u \in Users : u # tx.user => history'[u] = history[u]
  BY <1>1, <1>2, <1>4
<1> HIDE DEF h
<1>6. ASSUME Len(h) < MaxHistory
      PROVE  Len(k) = Len(h) + 1 /\ k[Len(k)] = tx /\ \A p \in 1..Len(h) : k[p] = h[p]
  <2>0. ~(Len(a) > MaxHistory)
    BY <1>6, <1>1, <1>3, MaxHistoryAssumption
  <2>1. Len(k) = Len(h) + 1 /\ \A i \in 1..Len(k) : k[i] = a[i]
    BY <2>0, <1>3, <1>4
  <2> QED BY <2>1, <1>1, <1>3
<1>7. ASSUME Len(h) = MaxHistory
      PROVE  Len(k) = MaxHistory /\ k[Len(k)] = tx /\ \A p \in 1..(Len(k) - 1) : k[p] = h[p + 1]
  <2>0. Len(a) > MaxHistory /\ Len(a) - MaxHistory = 1
    BY <1>7, <1>1, <1>3, MaxHistoryAssumption
  <2>1. Len(k) = MaxHistory /\ \A i \in 1..Len(k) : k[i] = a[1 + i]
    BY <2>0, <1>4
  <2>2. k[Len(k)] = tx
    BY <2>1, <1>1, <1>3, <1>7, MaxHistoryAssumption
  <2>3. \A p \in 1..(Len(k) - 1) : k[p] = h[p + 1]
    <3> TAKE p \in 1..(Len(k) - 1)
    <3>1. p \in 1..Len(k) /\ 1 + p \in 1..Len(h) /\ 1 + p = p + 1
      BY <2>1, <1>7, <1>1, MaxHistoryAssumption
    <3> QED BY <3>1, <2>1, <1>3
  <2> QED BY <2>1, <2>2, <2>3
<1> QED BY <1>1, <1>5, <1>6, <1>7 DEF h

\* Every new entry is the new transaction or an old entry.
LEMMA SeedEntries ==
    ASSUME Shape, NEW tx \in Transaction, Seed(tx), NEW u \in Users,
           NEW p \in DOMAIN history'[u]
    PROVE  \/ u = tx.user /\ p = Len(history'[u]) /\ history'[u][p] = tx
           \/ \E q \in DOMAIN history[u] : history'[u][p] = history[u][q]
<1>1. DOMAIN history[u] = 1..Len(history[u]) /\ DOMAIN history'[u] = 1..Len(history'[u])
      /\ Len(history[u]) \in Nat /\ Len(history'[u]) \in Nat
  BY SeedEffect DEF Shape, HistoryShape
<1>2. CASE u # tx.user
  BY <1>2, <1>1, SeedEffect
<1>3. CASE u = tx.user
  <2>1. CASE Len(history[u]) < MaxHistory
    BY <2>1, <1>1, <1>3, SeedEffect
  <2>2. CASE Len(history[u]) = MaxHistory
    <3>1. p = Len(history'[u]) \/ p \in 1..(Len(history'[u]) - 1)
      BY <1>1
    <3>2. p \in 1..(Len(history'[u]) - 1) => p + 1 \in DOMAIN history[u]
      BY <2>2, <1>1, <1>3, SeedEffect
    <3> QED BY <2>2, <3>1, <3>2, <1>3, SeedEffect
  <2> QED BY <2>1, <2>2, <1>3, SeedEffect, MaxHistoryAssumption
<1> QED BY <1>2, <1>3

\* Seeding a transaction of the data keeps the history a selection of the data.
LEMMA SeedShape ==
    ASSUME Shape, NEW tx \in Transaction, Seed(tx),
           tx.id \in DOMAIN data', data'[tx.id] = tx,
           \A i \in DOMAIN data : i \in DOMAIN data' /\ data'[i] = data[i]
    PROVE  HistoryShape'
<1>1. history' \in [Users -> Seq(Transaction)]
  BY SeedEffect
<1>2. \A u \in Users : Len(history'[u]) <= MaxHistory
  <2> TAKE u \in Users
  <2>1. Len(history[u]) \in Nat /\ Len(history[u]) <= MaxHistory
    BY DEF Shape, HistoryShape
  <2>2. u = tx.user => Len(history'[u]) = Len(history[u]) + 1 \/ Len(history'[u]) = MaxHistory
    BY <2>1, SeedEffect, MaxHistoryAssumption
  <2>3. u = tx.user /\ Len(history[u]) < MaxHistory => Len(history'[u]) = Len(history[u]) + 1
    BY SeedEffect
  <2>4. u = tx.user /\ Len(history[u]) = MaxHistory => Len(history'[u]) = MaxHistory
    BY SeedEffect
  <2>5. u # tx.user => history'[u] = history[u]
    BY SeedEffect
  <2> QED BY <2>1, <2>3, <2>4, <2>5, MaxHistoryAssumption
<1>3. ASSUME NEW u \in Users, NEW p \in DOMAIN history'[u]
      PROVE  /\ history'[u][p].id \in DOMAIN data'
             /\ history'[u][p] = data'[history'[u][p].id]
             /\ history'[u][p].user = u
  <2>1. CASE u = tx.user /\ history'[u][p] = tx
    BY <2>1
  <2>2. CASE \E q \in DOMAIN history[u] : history'[u][p] = history[u][q]
    <3>1. PICK q \in DOMAIN history[u] : history'[u][p] = history[u][q]
      BY <2>2
    <3>2. /\ history[u][q].id \in DOMAIN data /\ history[u][q] = data[history[u][q].id]
          /\ history[u][q].user = u
      BY <3>1 DEF Shape, HistoryShape
    <3>3. history[u][q].id \in DOMAIN data'
      BY <3>2
    <3> QED BY <3>1, <3>2, <3>3
  <2> QED BY <2>1, <2>2, SeedEntries
<1> QED BY <1>1, <1>2, <1>3 DEF HistoryShape

-----------------------------------------------------------------------------
\* A step of Evaluate, field by field.
LEMMA EvaluateFacts ==
    ASSUME Shape, NEW t \in Templates, Evaluate(t)
    PROVE  LET tx == Made(t)
           IN  /\ phase = "evaluate" /\ phase' = "evaluate"
               /\ last' \in Votes(tx) /\ Seed(tx)
               /\ data' = Append(data, tx) /\ data' \in Seq(Transaction)
               /\ Len(data') = Len(data) + 1 /\ Len(data) \in Nat
               /\ DOMAIN data = 1..Len(data) /\ DOMAIN data' = 1..(Len(data) + 1)
               /\ data'[Len(data) + 1] = tx
               /\ \A i \in DOMAIN data : data'[i] = data[i]
               /\ next' = next /\ pairs' = pairs
<1>1. /\ phase = "evaluate" /\ phase' = phase /\ next' = next /\ pairs' = pairs
      /\ last' \in Votes(Made(t)) /\ Seed(Made(t))
      /\ data' = Append(data, Made(t))
  BY DEF Evaluate, Made
<1>2. Made(t) \in Transaction /\ data \in Seq(Transaction)
  BY MadeType DEF Shape, DataShape
<1> DEFINE tx == Made(t)
<1> HIDE DEF tx
<1>3. /\ data' \in Seq(Transaction)
      /\ Len(data') = Len(data) + 1 /\ Len(data) \in Nat
      /\ DOMAIN data = 1..Len(data) /\ DOMAIN data' = 1..(Len(data) + 1)
      /\ data'[Len(data) + 1] = tx
      /\ \A i \in DOMAIN data : data'[i] = data[i]
  <2>1. tx \in Transaction /\ data' = Append(data, tx)
    BY <1>1, <1>2 DEF tx
  <2> QED BY <1>2, <2>1
<1> QED BY <1>1, <1>3 DEF tx

\* A step of Evaluate keeps the shape.
LEMMA EvaluateShape ==
    ASSUME Shape, NEW t \in Templates, Evaluate(t)
    PROVE  Shape'
<1> DEFINE tx == Made(t)
<1>1. tx \in Transaction /\ tx.id = Len(data) + 1 /\ tx.country = t.country
  BY MadeType
<1>2. /\ phase = "evaluate" /\ phase' = "evaluate" /\ Seed(tx)
      /\ data' \in Seq(Transaction)
      /\ Len(data) \in Nat
      /\ DOMAIN data = 1..Len(data) /\ DOMAIN data' = 1..(Len(data) + 1)
      /\ data'[Len(data) + 1] = tx
      /\ \A i \in DOMAIN data : data'[i] = data[i]
      /\ next' = next /\ pairs' = pairs
  BY EvaluateFacts
<1> HIDE DEF tx
<1>3. \A i \in DOMAIN data' : i = Len(data) + 1 \/ i \in DOMAIN data
  BY <1>2
<1>4. DataShape'
  <2>1. \A i \in DOMAIN data' : data'[i].id = i /\ \E s \in Templates : data'[i].country = s.country
    <3> TAKE i \in DOMAIN data'
    <3>1. CASE i \in DOMAIN data
      BY <3>1, <1>2 DEF Shape, DataShape
    <3>2. CASE i = Len(data) + 1
      BY <3>2, <1>1, <1>2
    <3> QED BY <3>1, <3>2, <1>3
  <2>3. phase' = phase /\ phase = "evaluate"
    BY <1>2
  <2> QED BY <2>1, <2>3, <1>2 DEF Shape, DataShape
<1>5. HistoryShape'
  <2>1. tx.id \in DOMAIN data' /\ data'[tx.id] = tx
    BY <1>1, <1>2
  <2> QED BY <2>1, <1>1, <1>2, SeedShape
<1> QED BY <1>4, <1>5 DEF Shape

\* A step of Evaluate keeps the newest purchases, in their order.
LEMMA EvaluateRecent ==
    ASSUME Shape, RecentInv, NEW t \in Templates, Evaluate(t)
    PROVE  RecentInv'
<1> DEFINE tx == Made(t)
<1>1. tx \in Transaction /\ tx.id = Len(data) + 1
  BY MadeType
<1>2. /\ phase = "evaluate" /\ phase' = "evaluate" /\ Seed(tx)
      /\ Len(data) \in Nat
      /\ DOMAIN data = 1..Len(data) /\ DOMAIN data' = 1..(Len(data) + 1)
      /\ data'[Len(data) + 1] = tx
      /\ \A i \in DOMAIN data : data'[i] = data[i]
  BY EvaluateFacts
<1> HIDE DEF tx
<1>3. SUFFICES ASSUME NEW u \in Users PROVE Recent(u)'
  BY DEF RecentInv
<1>4. Recent(u)
  BY <1>2 DEF RecentInv
<1> DEFINE h == history[u]
           k == history'[u]
<1>5. /\ DOMAIN h = 1..Len(h) /\ DOMAIN k = 1..Len(k) /\ Len(h) \in Nat /\ Len(k) \in Nat
      /\ Len(h) <= MaxHistory
      /\ \A p \in DOMAIN h : h[p].id \in 1..Len(data)
  BY <1>1, <1>2, SeedEffect DEF Shape, HistoryShape
<1>6. CASE u # tx.user
  <2>1. k = h
    BY <1>1, <1>2, <1>6, SeedEffect
  <2>2. \A p, q \in DOMAIN k : p < q => k[p].id < k[q].id
    BY <2>1, <1>4 DEF Recent
  <2>3. ASSUME NEW i \in DOMAIN data', data'[i].user = u
        PROVE  \/ \E p \in DOMAIN k : k[p].id = i
               \/ Len(k) = MaxHistory /\ \A p \in DOMAIN k : i < k[p].id
    <3>1. i \in DOMAIN data /\ data[i].user = u
      BY <2>3, <1>2, <1>6
    <3> QED BY <3>1, <2>1, <1>4 DEF Recent
  <2> QED BY <2>2, <2>3 DEF Recent
<1>7. CASE u = tx.user /\ Len(h) < MaxHistory
  <2>1. Len(k) = Len(h) + 1 /\ k[Len(k)] = tx /\ \A p \in 1..Len(h) : k[p] = h[p]
    BY <1>1, <1>2, <1>7, SeedEffect
  <2> HIDE DEF h, k
  <2>2. ASSUME NEW p \in DOMAIN k, NEW q \in DOMAIN k, p < q PROVE k[p].id < k[q].id
    <3>1. p \in 1..Len(h)
      BY <2>1, <2>2, <1>5
    <3>2. CASE q \in 1..Len(h)
      BY <3>1, <3>2, <2>1, <2>2, <1>4, <1>5 DEF Recent, h
    <3>3. CASE q = Len(k)
      BY <3>1, <3>3, <2>1, <1>1, <1>2, <1>5
    <3> QED BY <3>2, <3>3, <2>1, <1>5
  <2>3. ASSUME NEW i \in DOMAIN data', data'[i].user = u
        PROVE  \E p \in DOMAIN k : k[p].id = i
    <3>1. CASE i = Len(data) + 1
      BY <3>1, <2>1, <1>1, <1>5
    <3>2. CASE i \in DOMAIN data
      <4>1. \E p \in DOMAIN h : h[p].id = i
        BY <3>2, <2>3, <1>2, <1>4, <1>7, <1>5 DEF Recent, h
      <4> QED BY <4>1, <2>1, <1>5
    <3> QED BY <3>1, <3>2, <1>2
  <2> QED BY <2>2, <2>3 DEF Recent, k
<1>8. CASE u = tx.user /\ Len(h) = MaxHistory
  <2>1. Len(k) = MaxHistory /\ k[Len(k)] = tx /\ \A p \in 1..(Len(k) - 1) : k[p] = h[p + 1]
    BY <1>1, <1>2, <1>8, SeedEffect
  <2>2. \A p, q \in DOMAIN h : p < q => h[p].id < h[q].id
    BY <1>4 DEF Recent
  <2>3. \A i \in DOMAIN data : data[i].user = u =>
            (\E p \in DOMAIN h : h[p].id = i) \/ (\A p \in DOMAIN h : i < h[p].id)
    BY <1>4 DEF Recent
  <2> HIDE DEF h, k
  <2>4. \A p \in 1..(Len(k) - 1) : p + 1 \in DOMAIN h
    BY <2>1, <1>5, <1>8, MaxHistoryAssumption
  <2>5. ASSUME NEW p \in DOMAIN k, NEW q \in DOMAIN k, p < q PROVE k[p].id < k[q].id
    <3>1. p \in 1..(Len(k) - 1) /\ (q = Len(k) \/ q \in 1..(Len(k) - 1))
      BY <2>5, <1>5
    <3>2. CASE q \in 1..(Len(k) - 1)
      <4>1. p + 1 < q + 1
        BY <2>5, <3>1, <1>5
      <4> QED BY <4>1, <3>1, <3>2, <2>1, <2>2, <2>4
    <3>3. CASE q = Len(k)
      <4>1. h[p + 1].id \in 1..Len(data)
        BY <3>1, <2>4, <1>5
      <4> QED BY <4>1, <3>1, <3>3, <2>1, <1>1, <1>2
    <3> QED BY <3>1, <3>2, <3>3
  <2>6. ASSUME NEW i \in DOMAIN data', data'[i].user = u
        PROVE  (\E p \in DOMAIN k : k[p].id = i) \/ (\A p \in DOMAIN k : i < k[p].id)
    <3>1. CASE i = Len(data) + 1
      BY <3>1, <2>1, <1>1, <1>5, MaxHistoryAssumption
    <3>2. CASE i \in DOMAIN data /\ \E p \in 2..Len(h) : h[p].id = i
      <4>1. PICK p \in 2..Len(h) : h[p].id = i
        BY <3>2
      <4>2. p - 1 \in 1..(Len(k) - 1) /\ p - 1 \in DOMAIN k /\ (p - 1) + 1 = p
        BY <2>1, <1>5, <1>8, MaxHistoryAssumption
      <4>3. k[p - 1] = h[p]
        BY <4>2, <2>1
      <4> QED BY <4>1, <4>2, <4>3
    <3>3. CASE i \in DOMAIN data /\ \A p \in 2..Len(h) : i < h[p].id
      <4>1. ASSUME NEW p \in DOMAIN k PROVE i < k[p].id
        <5>1. CASE p = Len(k)
          BY <5>1, <3>3, <2>1, <1>1, <1>2
        <5>2. CASE p \in 1..(Len(k) - 1)
          <6>1. p + 1 \in 2..Len(h)
            BY <5>2, <2>4, <1>5
          <6> QED BY <6>1, <5>2, <3>3, <2>1
        <5> QED BY <5>1, <5>2, <1>5
      <4> QED BY <4>1
    <3>4. CASE i \in DOMAIN data /\ h[1].id = i
      <4>1. \A p \in 2..Len(h) : 1 \in DOMAIN h /\ p \in DOMAIN h /\ 1 < p
        BY <1>5
      <4>2. \A p \in 2..Len(h) : i < h[p].id
        BY <4>1, <3>4, <2>2
      <4> QED BY <3>3, <3>4, <4>2
    <3>5. CASE i \in DOMAIN data
      <4>1. data[i].user = u
        BY <3>5, <2>6, <1>2
      <4>2. \A p \in DOMAIN h : p = 1 \/ p \in 2..Len(h)
        BY <1>5
      <4>3. \A p \in 2..Len(h) : p \in DOMAIN h
        BY <1>5
      <4> QED BY <4>1, <4>2, <4>3, <3>2, <3>3, <3>4, <3>5, <2>3
    <3> QED BY <3>1, <3>5, <1>2
  <2> QED BY <2>1, <2>5, <2>6 DEF Recent, k
<1> QED BY <1>5, <1>6, <1>7, <1>8, MaxHistoryAssumption

-----------------------------------------------------------------------------
(* What the detectors may say. *)
\* The Z-score is a NaN or one of its three scores.
LEMMA ZScoreRange == ASSUME NEW tx, NEW v \in ZScore(tx) PROVE v \in {NaN, 0, 50, 100}
BY DEF ZScore, Clean, Scale

\* The scores of the quartile detector.
LEMMA IQRRange == ASSUME NEW tx, NEW v \in IQR(tx) PROVE v \in {0, 40, 50, 90, 100}
BY DEF IQR, Clean, Scale

\* A burst is above the allowance, and scores 0.5 or more.
LEMMA VelocityRange ==
    ASSUME NEW n \in Nat, NEW v \in VelocityOf(n)
    PROVE  /\ v = 0 \/ v \in 50..100
           /\ v # Clean <=> n > MaxTransactions
<1>1. MaxTransactions \in Nat
  BY DetectorsAssumption
<1>2. CASE n <= MaxTransactions
  BY <1>1, <1>2 DEF VelocityOf, Clean
<1>3. CASE n > MaxTransactions
  <2> DEFINE s == 50 + 10 * (n - MaxTransactions)
  <2>1. s \in Nat /\ s >= 60 /\ ~(n <= MaxTransactions)
    BY <1>1, <1>3
  <2>2. v = Capped(s)
    BY <2>1 DEF VelocityOf
  <2> HIDE DEF s
  <2>3. v \in 50..100 /\ v # 0
    BY <2>1, <2>2 DEF Capped, Scale
  <2> QED BY <2>3, <1>3 DEF Clean
<1> QED BY <1>1, <1>2, <1>3

\* A score for a distance is 0.5 or more.
LEMMA GeoRange ==
    ASSUME Shape, NEW tx \in Transaction, NEW t \in Templates, tx.country = t.country,
           NEW v \in GeoDistance(tx)
    PROVE  v = 0 \/ v \in 50..100
<1> DEFINE h == GetUserHistory(tx.user)
<1>1. CASE modalCountry(h) = {}
  BY <1>1 DEF GeoDistance, Clean
<1>2. CASE modalCountry(h) # {}
  <2>1. PICK home \in modalCountry(h) :
            LET k == Distance[<<home, tx.country>>]
            IN  v = IF tx.country \in {NotGiven, home} \/ k < ThresholdKm THEN Clean
                    ELSE Capped(50 + (50 * (k - ThresholdKm)) \div (SaturateKm - ThresholdKm))
    BY <1>2 DEF GeoDistance
  <2>2. PICK i \in DOMAIN h : home = h[i].country /\ home # NotGiven
    BY DEF modalCountry
  <2>3. PICK s \in Templates : h[i].country = s.country
    <3>1. tx.user \in Users
      BY TransactionFields
    <3>2. h[i].id \in DOMAIN data /\ h[i] = data[h[i].id]
      BY <3>1, <2>2 DEF Shape, HistoryShape, GetUserHistory
    <3> QED BY <3>2 DEF Shape, DataShape
  <2> DEFINE k == Distance[<<home, tx.country>>]
             x == 50 * (k - ThresholdKm)
             y == SaturateKm - ThresholdKm
             z == x \div y
  <2>4. k \in Nat
    BY <2>2, <2>3, EvaluationAssumption, GeoAssumption
  <2>5. v = IF tx.country \in {NotGiven, home} \/ k < ThresholdKm THEN Clean ELSE Capped(50 + z)
    BY <2>1
  <2> HIDE DEF k
  <2>6. ThresholdKm \in Nat /\ y \in Nat \ {0} /\ (~(k < ThresholdKm) => x \in Nat)
    BY <2>4, GeoAssumption
  <2> HIDE DEF x, y
  <2>7. ~(k < ThresholdKm) => z \in Nat
    BY <2>6
  <2> HIDE DEF z
  <2>8. ~(k < ThresholdKm) => Capped(50 + z) \in 50..100
    BY <2>7 DEF Capped, Scale
  <2> QED BY <2>5, <2>8 DEF Clean
<1> QED BY <1>1, <1>2

\* A device scores 0.4 at most.
LEMMA DeviceRange == ASSUME NEW tx, NEW v \in DeviceFingerprint(tx) PROVE v \in {0, 30, 40}
BY DEF DeviceFingerprint, Clean

\* A risky merchant has a score of the registry.
LEMMA MerchantRange ==
    ASSUME NEW tx \in Transaction, NEW v \in MerchantRisk(tx)
    PROVE  v = 0 \/ v \in 70..98
<1>1. KeysIn[tx.merchant] \subseteq DOMAIN merchantRegistry
  BY RegistryAssumption, TransactionFields
<1> QED BY <1>1, RegistryAssumption DEF MerchantRisk, Clean

\* An unusual hour scores 0.5 at most.
LEMMA BehavioralRange == ASSUME NEW tx, NEW v \in BehavioralAnomaly(tx) PROVE v \in {0, 30, 35, 50}
BY DEF BehavioralAnomaly, Clean

\* The shape of seven votes.
Ballot(v) ==
    /\ DOMAIN v = 1..7
    /\ v[1] \in {NaN, 0, 50, 100}
    /\ v[2] \in {0, 40, 50, 90, 100}
    /\ v[3] = 0 \/ v[3] \in 50..100
    /\ v[4] = 0 \/ v[4] \in 50..100
    /\ v[5] \in {0, 30, 40}
    /\ v[6] = 0 \/ v[6] \in 70..98
    /\ v[7] \in {0, 30, 35, 50}

\* What the seven detectors say is a ballot.
LEMMA VotesRange ==
    ASSUME Shape, NEW tx \in Transaction, NEW t \in Templates, tx.country = t.country,
           NEW v \in Votes(tx)
    PROVE  Ballot(v)
<1>1. /\ DOMAIN v = 1..7
      /\ v[1] \in ZScore(tx) /\ v[2] \in IQR(tx) /\ v[3] \in Velocity(tx)
      /\ v[4] \in GeoDistance(tx) /\ v[5] \in DeviceFingerprint(tx)
      /\ v[6] \in MerchantRisk(tx) /\ v[7] \in BehavioralAnomaly(tx)
  BY DEF Votes
<1>2. v[3] = 0 \/ v[3] \in 50..100
  <2> DEFINE T == {i \in DOMAIN GetUserHistory(tx.user) :
                     /\ tx.time - Window <= GetUserHistory(tx.user)[i].time
                     /\ GetUserHistory(tx.user)[i].time <= tx.time}
  <2>1. Velocity(tx) = VelocityOf(Cardinality(T))
    BY DEF Velocity, Count
  <2>2. tx.user \in Users /\ T \in SUBSET DOMAIN history[tx.user]
    BY TransactionFields DEF GetUserHistory
  <2>3. Cardinality(T) \in Nat
    <3> HIDE DEF T
    <3> QED BY <2>2, CountType
  <2> HIDE DEF T
  <2> QED BY <1>1, <2>1, <2>3, VelocityRange
<1> QED BY <1>1, <1>2, ZScoreRange, IQRRange, GeoRange, DeviceRange, MerchantRange,
           BehavioralRange DEF Ballot

\* Only the first of seven votes can be a NaN.
LEMMA BallotNaN ==
    ASSUME NEW v, Ballot(v)
    PROVE  /\ \A i \in DOMAIN v : v[i] = NaN => i = 1
           /\ IsNaN(v) <=> v[1] = NaN
<1>1. DOMAIN v = 1..7 /\ \A i \in 2..7 : v[i] \in Int
  <2>1. v[2] \in Int /\ v[3] \in Int /\ v[4] \in Int /\ v[5] \in Int /\ v[6] \in Int /\ v[7] \in Int
    BY DEF Ballot
  <2> QED BY <2>1 DEF Ballot
<1>2. \A i \in 1..7 : i = 1 \/ i \in 2..7
  OBVIOUS
<1> QED BY <1>1, <1>2, NaNAssumption DEF IsNaN

-----------------------------------------------------------------------------
(* The arithmetic of the ensemble. *)
\* A detector that has not fired abstains with the logit of 0.1.
LEMMA SilentLogit == LogitOf(0) = -2197
BY DEF LogitOf, Clean, abstainLogit

\* A score above 0.1 has a logit above the one of abstaining.
LEMMA LogitRange ==
    ASSUME NEW s \in Int, s > 10, s <= 100
    PROVE  LogitOf(s) \in Int /\ LogitOf(s) > -2197
<1>1. s \in 1..Scale /\ 10 \in 1..Scale
  BY DEF Scale
<1>2. LogitOf(s) = Logit[s]
  <2>1. ~(s <= 0)
    OBVIOUS
  <2> QED BY <2>1 DEF LogitOf, Clean
<1>3. Logit[s] \in Int /\ Logit[10] < Logit[s] /\ Logit[10] = -2197
  BY <1>1, LogitAssumption
<1> QED BY <1>2, <1>3

\* The weighted sum, written out.
LEMMA CombinedSum ==
    ASSUME NEW v
    PROVE  Combined(v) = 20 * LogitOf(v[1]) + 17 * LogitOf(v[2]) + 12 * LogitOf(v[3])
                         + 12 * LogitOf(v[4]) + 10 * LogitOf(v[5]) + 15 * LogitOf(v[6])
                         + 14 * LogitOf(v[7])
BY DEF Combined, Weights

\* What each detector can add to the sum.
LEMMA BallotLogits ==
    ASSUME NEW v, Ballot(v), v[1] # NaN, NEW i \in 1..7
    PROVE  /\ LogitOf(v[i]) \in Int
           /\ v[i] # 0 => LogitOf(v[i]) > -2197
<1>1. i = 1 \/ i = 2 \/ i = 3 \/ i = 4 \/ i = 5 \/ i = 6 \/ i = 7
  OBVIOUS
<1>2. v[i] = 0 \/ (v[i] \in Int /\ v[i] > 10 /\ v[i] <= 100)
  BY <1>1 DEF Ballot
<1>3. CASE v[i] = 0
  BY <1>3, SilentLogit
<1>4. CASE v[i] # 0
  BY <1>2, <1>4, LogitRange
<1> QED BY <1>3, <1>4

\* One detector's abstention in place of its vote makes the sum smaller.
LEMMA AbstentionLowers ==
    ASSUME NEW v, Ballot(v), v[1] # NaN, NEW i \in Fired(v)
    PROVE  Combined([v EXCEPT ![i] = Clean]) < Combined(v)
<1> DEFINE w == [v EXCEPT ![i] = Clean]
           l(j) == LogitOf(v[j])
           k(j) == LogitOf(w[j])
<1>1. i \in 1..7 /\ v[i] # 0
  BY DEF Fired, Ballot, Clean
<1>2. \A j \in 1..7 : w[j] = IF j = i THEN 0 ELSE v[j]
  BY DEF Ballot, Clean
<1>3. \A j \in 1..7 : l(j) \in Int /\ k(j) = IF j = i THEN -2197 ELSE l(j)
  BY <1>2, BallotLogits, SilentLogit
<1>4. l(i) > -2197
  BY <1>1, BallotLogits
<1>5. Combined(v) = 20 * l(1) + 17 * l(2) + 12 * l(3) + 12 * l(4)
                    + 10 * l(5) + 15 * l(6) + 14 * l(7)
  BY CombinedSum
<1>6. Combined(w) = 20 * k(1) + 17 * k(2) + 12 * k(3) + 12 * k(4)
                    + 10 * k(5) + 15 * k(6) + 14 * k(7)
  BY CombinedSum
<1> HIDE DEF w, l, k
<1>7. i = 1 \/ i = 2 \/ i = 3 \/ i = 4 \/ i = 5 \/ i = 6 \/ i = 7
  BY <1>1
<1>8. Combined(w) < Combined(v)
  <2>1. CASE i = 1
    BY <2>1, <1>3, <1>4, <1>5, <1>6
  <2>2. CASE i = 2
    BY <2>2, <1>3, <1>4, <1>5, <1>6
  <2>3. CASE i = 3
    BY <2>3, <1>3, <1>4, <1>5, <1>6
  <2>4. CASE i = 4
    BY <2>4, <1>3, <1>4, <1>5, <1>6
  <2>5. CASE i = 5
    BY <2>5, <1>3, <1>4, <1>5, <1>6
  <2>6. CASE i = 6
    BY <2>6, <1>3, <1>4, <1>5, <1>6
  <2>7. CASE i = 7
    BY <2>7, <1>3, <1>4, <1>5, <1>6
  <2> QED BY <1>7, <2>1, <2>2, <2>3, <2>4, <2>5, <2>6, <2>7
<1> QED BY <1>8 DEF w

-----------------------------------------------------------------------------
(* After a step of Evaluate, Own and Kept are what there was before it. *)
\* The properties speak of the data before the last; a step adds that last.
LEMMA KeptStep ==
    ASSUME Shape, NEW t \in Templates, Evaluate(t)
    PROVE  /\ Subject' = Made(t)
           /\ \A u : Own(u)' = Bought(u)
           /\ \A u : Kept(u)' = Held(u)
           /\ \A u : \A i \in Bought(u) : data'[i] = data[i]
<1> DEFINE n == Len(data)
<1>1. /\ n \in Nat /\ Len(data') = n + 1 /\ DOMAIN data = 1..n
      /\ data'[n + 1] = Made(t)
      /\ \A i \in DOMAIN data : data'[i] = data[i]
  BY EvaluateFacts
<1>2. Subject' = Made(t)
  BY <1>1 DEF Subject, Last
<1>3. Len(data') - 1 = n
  BY <1>1
<1>4. ASSUME NEW u PROVE Own(u)' = Bought(u)
  <2>1. Own(u)' = {i \in 1..(Len(data') - 1) : data'[i].user = u}
    BY DEF Own
  <2>2. Own(u)' = {i \in DOMAIN data : data'[i].user = u}
    BY <2>1, <1>1, <1>3
  <2> QED BY <2>2, <1>1 DEF Bought
<1>5. ASSUME NEW u PROVE Kept(u)' = Held(u)
  <2>1. Kept(u)' = {i \in Own(u)' : Cardinality({j \in Own(u)' : j > i}) < MaxHistory}
    BY DEF Kept
  <2> QED BY <2>1, <1>4 DEF Held
<1>6. \A u : \A i \in Bought(u) : data'[i] = data[i]
  BY <1>1 DEF Bought
<1> QED BY <1>2, <1>4, <1>5, <1>6

\* What Evaluate scores is a ballot.
LEMMA BallotStep ==
    ASSUME Shape, NEW t \in Templates, Evaluate(t)
    PROVE  Ballot(last')
<1>1. Made(t) \in Transaction /\ Made(t).country = t.country
      /\ last' \in Votes(Made(t))
  BY MadeType, EvaluateFacts
<1> QED BY <1>1, VotesRange

\* In a step of Evaluate whoever fires raises the sum.
LEMMA FiringStep ==
    ASSUME Shape, NEW t \in Templates, Evaluate(t)
    PROVE  FiringRaises'
<1> DEFINE v == last'
<1>1. Ballot(v)
  BY BallotStep
<1>2. ASSUME Sound' PROVE v[1] # NaN
  BY <1>1, <1>2, BallotNaN DEF Sound, IsNaN
<1>3. ASSUME Sound', NEW i \in Fired(v)
      PROVE  Combined([v EXCEPT ![i] = Clean]) < Combined(v)
  BY <1>1, <1>2, <1>3, AbstentionLowers
<1> QED BY <1>3 DEF FiringRaises, Fired, Combined, LogitOf

-----------------------------------------------------------------------------
\* What is hidden from a count in the window arrived before all that is in it: if
\* at most n of the window are members, the rest of a full window came after.
LEMMA HiddenMembers ==
    ASSUME Shape, NEW u \in Users, Recent(u), NEW S, NEW n \in Nat,
           Cardinality({p \in DOMAIN history[u] : history[u][p] \in S}) <= n,
           Cardinality({i \in Bought(u) : data[i] \in S}) > n
    PROVE  \E i \in Bought(u) :
               /\ data[i] \in S
               /\ Cardinality({j \in Bought(u) : data[j] \notin S /\ j > i}) >= MaxHistory - n
<1> DEFINE h == history[u]
           T == {p \in DOMAIN h : h[p] \in S}
           K == {i \in Held(u) : data[i] \in S}
           B == {i \in Bought(u) : data[i] \in S}
           R == {i \in Held(u) : data[i] \notin S}
<1>1. Cardinality(T) = Cardinality(K) /\ Cardinality(K) <= n /\ Cardinality(B) > n
  BY SameCount
<1>2. K \subseteq B /\ K \cup R = Held(u) /\ K \cap R = {}
  BY DEF Held
<1>3. K \in SUBSET Bought(u) /\ B \in SUBSET Bought(u) /\ R \in SUBSET Bought(u)
      /\ Held(u) \in SUBSET Bought(u)
  BY DEF Held
<1>4. PICK i \in B : i \notin K
  <2> HIDE DEF K, B
  <2>1. Cardinality(K) \in Nat /\ Cardinality(B) \in Nat
    BY <1>3, BoughtFinite
  <2>2. K # B
    BY <1>1, <2>1
  <2> QED BY <1>2, <2>2
<1>5. i \in DOMAIN data /\ data[i].user = u /\ i \notin Held(u) /\ data[i] \in S /\ i \in Bought(u)
  BY <1>4 DEF Bought
<1>6. Len(h) = MaxHistory /\ \A p \in DOMAIN h : i < h[p].id
  <2>1. ~ \E p \in DOMAIN h : h[p].id = i
    BY <1>5, HeldIsKept
  <2> QED BY <1>5, <2>1 DEF Recent
<1>7. \A j \in Held(u) : i < j
  BY <1>6, HeldIsKept
<1>8. Cardinality(Held(u)) = MaxHistory
  <2>1. Cardinality({p \in DOMAIN history[u] : history[u][p] \in Transaction})
          = Cardinality({j \in Held(u) : data[j] \in Transaction})
    BY SameCount
  <2>2. {p \in DOMAIN history[u] : history[u][p] \in Transaction} = 1..MaxHistory
    <3>1. DOMAIN h = 1..Len(h) /\ \A p \in DOMAIN h : h[p] \in Transaction
      BY DEF Shape, HistoryShape
    <3> QED BY <3>1, <1>6
  <2>3. {j \in Held(u) : data[j] \in Transaction} = Held(u)
    BY DEF Held, Bought, Shape, DataShape
  <2>4. Cardinality(1..MaxHistory) = MaxHistory
    BY FS_Interval, MaxHistoryAssumption
  <2> QED BY <2>1, <2>2, <2>3, <2>4
<1> DEFINE F == {j \in Bought(u) : data[j] \notin S /\ j > i}
<1>9. R \subseteq F /\ F \in SUBSET Bought(u)
  <2>1. \A j \in R : j \in Bought(u) /\ data[j] \notin S /\ i < j /\ j \in Nat /\ i \in Nat
    BY <1>5, <1>7 DEF Held, Bought, Shape, DataShape
  <2> QED BY <2>1
<1> HIDE DEF K, R, F
<1>10. /\ IsFiniteSet(K) /\ Cardinality(K) \in Nat /\ IsFiniteSet(R) /\ Cardinality(R) \in Nat
       /\ IsFiniteSet(F) /\ Cardinality(F) \in Nat
  BY <1>3, <1>9, BoughtFinite
<1>11. Cardinality(K \cup R) = Cardinality(K) + Cardinality(R) - Cardinality(K \cap R)
  BY <1>10, FS_Union
<1>12. Cardinality(K \cap R) = 0
  BY <1>2, FS_EmptySet
<1>13. Cardinality(R) <= Cardinality(F)
  BY <1>9, <1>10, FS_Subset
<1>14. Cardinality(F) >= MaxHistory - n
  <2>0. Cardinality(K \cup R) = MaxHistory
    BY <1>2, <1>8
  <2>1. Cardinality(K) + Cardinality(R) = MaxHistory
    BY <2>0, <1>10, <1>11, <1>12
  <2>2. Cardinality(K) <= n /\ MaxHistory \in Nat
    BY <1>1, MaxHistoryAssumption
  <2> QED BY <1>10, <1>13, <2>1, <2>2
<1> QED BY <1>5, <1>14 DEF F

\* What the velocity detector counts are the members of the burst in the window.
LEMMA VelocityVote ==
    ASSUME Shape, NEW tx \in Transaction, NEW v \in Velocity(tx)
    PROVE  LET S == {x \in Transaction : x.time \in (tx.time - Window)..tx.time}
               T == {p \in DOMAIN history[tx.user] : history[tx.user][p] \in S}
           IN  Cardinality(T) \in Nat /\ (v # Clean <=> Cardinality(T) > MaxTransactions)
<1> DEFINE u == tx.user
           h == history[u]
           S == {x \in Transaction : x.time \in (tx.time - Window)..tx.time}
           T == {p \in DOMAIN h : h[p] \in S}
<1>1. u \in Users /\ tx.time \in Nat /\ Window \in Nat
  BY TransactionFields, DetectorsAssumption
<1>2. \A p \in DOMAIN h : h[p] \in Transaction /\ h[p].time \in Nat
  BY <1>1, TransactionFields DEF Shape, HistoryShape
<1>3. Velocity(tx) = VelocityOf(Cardinality(T))
  <2>1. Velocity(tx) = VelocityOf(Cardinality({p \in DOMAIN h :
            tx.time - Window <= h[p].time /\ h[p].time <= tx.time}))
    BY DEF Velocity, Count, GetUserHistory
  <2>2. T = {p \in DOMAIN h : tx.time - Window <= h[p].time /\ h[p].time <= tx.time}
    BY <1>1, <1>2
  <2> QED BY <2>1, <2>2
<1>4. Cardinality(T) \in Nat
  <2>1. T \in SUBSET DOMAIN history[u]
    OBVIOUS
  <2> HIDE DEF T
  <2> QED BY <2>1, <1>1, CountType
<1>5. v # Clean <=> Cardinality(T) > MaxTransactions
  <2> HIDE DEF T
  <2> QED BY <1>3, <1>4, VelocityRange
<1> QED BY <1>4, <1>5

\* In a step of Evaluate the detector fires on bursts, and misses but flooded ones.
LEMMA VelocityStep ==
    ASSUME Shape, RecentInv, NEW t \in Templates, Evaluate(t)
    PROVE  BurstOnlyHiddenByFlood'
<1> DEFINE tx == Made(t)
           u == tx.user
           S == {x \in Transaction : x.time \in (tx.time - Window)..tx.time}
           T == {p \in DOMAIN history[u] : history[u][p] \in S}
           B == {i \in Bought(u) : data[i] \in S}
           n == Len(data)
           burst == {n + 1} \cup B
<1>1. /\ tx \in Transaction /\ last'[3] \in Velocity(tx) /\ phase = "evaluate"
      /\ Len(data') = n + 1 /\ n \in Nat
  BY MadeType, EvaluateFacts DEF Votes
<1>2. /\ Subject' = tx /\ \A w : Own(w)' = Bought(w)
      /\ \A w : \A i \in Bought(w) : data'[i] = data[i]
  BY KeptStep
<1> HIDE DEF tx
<1>3. u \in Users /\ Recent(u)
  BY <1>1, TransactionFields DEF RecentInv
<1>4. Cardinality(T) \in Nat /\ (last'[3] # Clean <=> Cardinality(T) > MaxTransactions)
  BY <1>1, VelocityVote
<1>5. \A i \in Bought(u) : data[i] \in Transaction /\ i \in 1..n
  BY DEF Bought, Shape, DataShape
<1>6. B = {i \in Own(Subject.user)' :
              data'[i].time \in (Subject'.time - Window)..Subject'.time}
  <2>1. Own(Subject.user)' = Bought(u)
    BY <1>2 DEF Own
  <2>2. B = {i \in Bought(u) : data[i].time \in (tx.time - Window)..tx.time}
    BY <1>5
  <2> QED BY <1>2, <2>1, <2>2
<1>7. IsFiniteSet(B) /\ Cardinality(B) \in Nat /\ n + 1 \notin B
  <2>1. B \in SUBSET Bought(u) /\ n + 1 \notin B
    BY <1>1, <1>5
  <2> HIDE DEF B
  <2> QED BY <2>1, BoughtFinite
<1>8. Cardinality(burst) = Cardinality(B) + 1
  <2> HIDE DEF B
  <2>1. Cardinality(B \cup {n + 1}) = Cardinality(B) + 1
    BY <1>7, FS_AddElement
  <2>2. burst = B \cup {n + 1}
    OBVIOUS
  <2> QED BY <2>1, <2>2
<1>9. Cardinality(T) <= Cardinality(B)
  <2> DEFINE K == {i \in Held(u) : data[i] \in S}
  <2>1. Cardinality(T) = Cardinality(K)
    BY <1>3, SameCount
  <2>2. K \subseteq B
    BY DEF Held
  <2> HIDE DEF K, B, T
  <2>3. Cardinality(K) <= Cardinality(B)
    BY <1>7, <2>2, FS_Subset
  <2> QED BY <2>1, <2>3
<1>10. MaxTransactions \in Nat
  BY DetectorsAssumption
<1>11. last'[3] # Clean => Cardinality(burst) > MaxTransactions + 1
  <2> HIDE DEF T, B, burst
  <2> QED BY <1>4, <1>7, <1>8, <1>9, <1>10
<1>12. ASSUME Cardinality(burst) > MaxTransactions + 1, last'[3] = Clean
       PROVE  \E i \in burst : Cardinality({j \in Bought(u) \ burst : j > i})
                                 >= MaxHistory - MaxTransactions
  <2>1. Cardinality(T) <= MaxTransactions /\ Cardinality(B) > MaxTransactions
    <3> HIDE DEF T, B, burst
    <3> QED BY <1>4, <1>7, <1>8, <1>10, <1>12
  <2>2. PICK i \in Bought(u) :
            /\ data[i] \in S
            /\ Cardinality({j \in Bought(u) : data[j] \notin S /\ j > i})
                 >= MaxHistory - MaxTransactions
    <3> HIDE DEF S
    <3> QED BY <1>3, <1>10, <2>1, HiddenMembers
  <2>3. {j \in Bought(u) : data[j] \notin S /\ j > i} = {j \in Bought(u) \ burst : j > i}
    <3>1. \A j \in Bought(u) : j # n + 1
      BY <1>1, <1>5
    <3> QED BY <3>1
  <2>4. i \in burst
    BY <2>2
  <2> HIDE DEF S, burst
  <2> QED BY <2>2, <2>3, <2>4
<1>13. /\ Len(data') = n + 1
       /\ Own(Subject.user)' = Bought(u)
  BY <1>1, <1>2 DEF Own
<1> HIDE DEF S, T, B, n
<1> QED BY <1>6, <1>11, <1>12, <1>13 DEF BurstOnlyHiddenByFlood

-----------------------------------------------------------------------------
\* How many of the purchases held were made in c.
HeldIn(u, c) == Cardinality({j \in Held(u) : data[j].country = c})

\* A home that no other country of the window reaches is no distance.
LEMMA HomeVote ==
    ASSUME Shape, NEW tx \in Transaction, Recent(tx.user), NEW v \in GeoDistance(tx),
           \A i \in Held(tx.user) : data[i].country \notin {NotGiven, tx.country} =>
               HeldIn(tx.user, data[i].country) < HeldIn(tx.user, tx.country)
    PROVE  v = Clean
<1> DEFINE u == tx.user
           h == history[u]
           M(c) == Cardinality({p \in DOMAIN h : h[p].country = c})
<1>1. u \in Users /\ \A p \in DOMAIN h : h[p] \in Transaction
  BY TransactionFields DEF Shape, HistoryShape
<1>2. ASSUME NEW c PROVE M(c) = HeldIn(u, c)
  <2> DEFINE S == {x \in Transaction : x.country = c}
  <2>1. {p \in DOMAIN h : h[p].country = c} = {p \in DOMAIN h : h[p] \in S}
    BY <1>1
  <2>2. {j \in Held(u) : data[j].country = c} = {j \in Held(u) : data[j] \in S}
    BY DEF Held, Bought, Shape, DataShape
  <2>3. Cardinality({p \in DOMAIN h : h[p] \in S}) = Cardinality({j \in Held(u) : data[j] \in S})
    <3> HIDE DEF S
    <3> QED BY <1>1, SameCount
  <2> QED BY <2>1, <2>2, <2>3 DEF HeldIn
<1>3. \A c : M(c) \in Nat
  <2> TAKE c
  <2> DEFINE T == {p \in DOMAIN history[u] : history[u][p].country = c}
  <2>1. T \in SUBSET DOMAIN history[u]
    OBVIOUS
  <2>2. Cardinality(T) \in Nat
    <3> HIDE DEF T
    <3> QED BY <1>1, <2>1, CountType
  <2> QED BY <2>2
<1>4. CASE modalCountry(GetUserHistory(u)) = {}
  BY <1>4 DEF GeoDistance
<1>5. CASE modalCountry(GetUserHistory(u)) # {}
  <2>1. PICK home \in modalCountry(GetUserHistory(u)) :
            tx.country \in {NotGiven, home} => v = Clean
    BY <1>5 DEF GeoDistance
  <2>2. /\ home \in {h[p].country : p \in DOMAIN h} \ {NotGiven}
        /\ \A d \in {h[p].country : p \in DOMAIN h} \ {NotGiven} : M(d) <= M(home)
    BY DEF modalCountry, Count, GetUserHistory
  <2>3. SUFFICES ASSUME tx.country \notin {NotGiven, home} PROVE FALSE
    BY <2>1
  <2>4. PICK p \in DOMAIN h : h[p].country = home
    BY <2>2
  <2>5. h[p].id \in Held(u) /\ data[h[p].id] = h[p]
    BY <1>1, HeldIsKept DEF Shape, HistoryShape
  <2>6. M(home) < M(tx.country)
    <3>1. data[h[p].id].country \notin {NotGiven, tx.country}
      BY <2>2, <2>3, <2>4, <2>5
    <3>2. HeldIn(u, home) < HeldIn(u, tx.country)
      BY <2>4, <2>5, <3>1
    <3> HIDE DEF M
    <3> QED BY <1>2, <3>2
  <2>7. \E q \in DOMAIN h : h[q].country = tx.country
    <3>1. SUFFICES ASSUME ~ \E q \in DOMAIN h : h[q].country = tx.country PROVE FALSE
      OBVIOUS
    <3>2. M(tx.country) = 0
      <4>1. {q \in DOMAIN h : h[q].country = tx.country} = {}
        BY <3>1
      <4> QED BY <4>1, FS_EmptySet
    <3>3. M(home) \in Nat
      BY <1>3
    <3> HIDE DEF M
    <3> QED BY <2>6, <3>2, <3>3
  <2>8. M(tx.country) <= M(home)
    BY <2>2, <2>3, <2>7
  <2>9. M(tx.country) \in Nat /\ M(home) \in Nat
    BY <1>3
  <2> HIDE DEF M
  <2> QED BY <2>6, <2>8, <2>9
<1> QED BY <1>4, <1>5

\* A step of Evaluate is clean for a user at home.
LEMMA HomeStep ==
    ASSUME Shape, RecentInv, NEW t \in Templates, Evaluate(t)
    PROVE  HomeIsNotFar'
<1> DEFINE tx == Made(t)
<1>1. tx \in Transaction /\ last'[4] \in GeoDistance(tx) /\ phase = "evaluate"
  BY MadeType, EvaluateFacts DEF Votes
<1>2. /\ Subject' = tx /\ \A u : Kept(u)' = Held(u)
      /\ \A u : \A i \in Held(u) : data'[i] = data[i]
  BY KeptStep DEF Held
<1> HIDE DEF tx
<1>3. Recent(tx.user)
  BY <1>1, TransactionFields DEF RecentInv
<1>4. Known' = Held(tx.user) /\ \A i \in Held(tx.user) : data'[i] = data[i]
  BY <1>2 DEF Known
<1>5. ASSUME (\A i \in Held(tx.user) : data[i].country \notin {NotGiven, tx.country} =>
                  HeldIn(tx.user, data[i].country) < HeldIn(tx.user, tx.country))
                 => last'[4] = Clean
      PROVE  HomeIsNotFar'
  <2> DEFINE D(c) == Cardinality({j \in Known' : data'[j].country = c})
  <2>1. \A c : D(c) = HeldIn(tx.user, c)
    BY <1>4 DEF HeldIn
  <2>2. HomeIsNotFar' <=>
            ((last' # None) =>
                ((\A i \in Known' : data'[i].country \notin {NotGiven, Subject'.country} =>
                      D(data'[i].country) < D(Subject'.country))
                    => last'[4] = Clean))
    BY DEF HomeIsNotFar, Scored, None
  <2> HIDE DEF D
  <2> QED BY <1>2, <1>4, <1>5, <2>1, <2>2
<1> QED
  <2>1. ASSUME \A i \in Held(tx.user) : data[i].country \notin {NotGiven, tx.country} =>
                   HeldIn(tx.user, data[i].country) < HeldIn(tx.user, tx.country)
        PROVE  last'[4] = Clean
    BY <2>1, <1>1, <1>3, HomeVote
  <2> QED BY <2>1, <1>5

-----------------------------------------------------------------------------
(* Loops: the quiet hours. *)

\* A non-empty set of numbers has a least one; so a statement that fails somewhere
\* has a first number it fails for, which is how the loops below are proved about.
LEMMA LeastNat ==
    ASSUME NEW T \in SUBSET Nat, T # {}
    PROVE  \E x \in T : \A y \in T : x <= y
<1> DEFINE R == OpToRel(<, Nat)
<1>1. IsWellFoundedOn(R, Nat)
  BY NatLessThanWellFounded
<1>2. R = {ss \in Nat \X Nat : ss[1] < ss[2]}
  BY DEF OpToRel
<1>3. ASSUME NEW x \in Nat, NEW y \in Nat, y < x PROVE <<y, x>> \in R
  <2>1. <<y, x>> \in Nat \X Nat /\ <<y, x>>[1] = y /\ <<y, x>>[2] = x
    OBVIOUS
  <2>2. <<y, x>>[1] < <<y, x>>[2]
    BY <1>3
  <2> HIDE DEF R
  <2> QED BY <2>1, <2>2, <1>2
<1> HIDE DEF R
<1>4. PICK x \in T : \A y \in T : ~(<<y, x>> \in R)
  BY <1>1, WFMin
<1>5. ASSUME NEW y \in T PROVE x <= y
  <2>1. x \in Nat /\ y \in Nat /\ ~(<<y, x>> \in R)
    BY <1>4
  <2>2. ~(y < x)
    BY <2>1, <1>3
  <2> QED BY <2>1, <2>2
<1> QED BY <1>4, <1>5

\* The best start so far, after each round of the loop of findQuietestHour.
Scan(sum, n, f) ==
    f = [start \in 0..n |-> IF start = 0 THEN 0
                            ELSE IF sum[start] < sum[f[start - 1]] THEN start ELSE f[start - 1]]

\* The loop comes to an end with some start in hand, however many rounds it makes.
LEMMA ScanExists ==
    ASSUME NEW n \in Nat, NEW sum
    PROVE  \E f : Scan(sum, n, f)
<1> DEFINE T == {k \in Nat : ~ \E f : Scan(sum, k, f)}
<1>1. SUFFICES ASSUME T # {} PROVE FALSE
  OBVIOUS
<1>2. PICK k \in T : \A j \in T : k <= j
  <2>1. T \in SUBSET Nat
    OBVIOUS
  <2> HIDE DEF T
  <2> QED BY <1>1, <2>1, LeastNat
<1>3. CASE k = 0
  <2> DEFINE f == [start \in 0..0 |-> 0]
  <2>1. Scan(sum, 0, f)
    BY DEF Scan
  <2> QED BY <1>2, <1>3, <2>1
<1>4. CASE k # 0
  <2>1. k \in Nat /\ k - 1 \in Nat /\ ~(k <= k - 1)
    BY <1>2, <1>4
  <2>2. PICK g : Scan(sum, k - 1, g)
    BY <1>2, <2>1
  <2> DEFINE b == IF sum[k] < sum[g[k - 1]] THEN k ELSE g[k - 1]
             f == [start \in 0..k |-> IF start = k THEN b ELSE g[start]]
  <2>3. \A start \in 0..(k - 1) : f[start] = g[start]
    BY <2>1
  <2>4. \A start \in 0..(k - 1) :
            g[start] = IF start = 0 THEN 0
                       ELSE IF sum[start] < sum[g[start - 1]] THEN start ELSE g[start - 1]
    BY <2>2 DEF Scan
  <2>5. ASSUME NEW start \in 0..k
        PROVE  f[start] = IF start = 0 THEN 0
                          ELSE IF sum[start] < sum[f[start - 1]] THEN start ELSE f[start - 1]
    <3>1. CASE start = k
      <4>1. k - 1 \in 0..(k - 1) /\ f[k - 1] = g[k - 1] /\ f[k] = b
        BY <2>1, <2>3
      <4> HIDE DEF f
      <4> QED BY <3>1, <4>1, <1>4
    <3>2. CASE start \in 0..(k - 1)
      <4>1. start # 0 => start - 1 \in 0..(k - 1)
        BY <3>2, <2>1
      <4> HIDE DEF f
      <4> QED BY <3>2, <4>1, <2>3, <2>4
    <3> QED BY <3>1, <3>2, <2>1
  <2>6. Scan(sum, k, f)
    <3>1. f = [start \in 0..k |-> f[start]]
      OBVIOUS
    <3> HIDE DEF f
    <3> QED BY <3>1, <2>5 DEF Scan
  <2> QED BY <1>2, <2>6
<1> QED BY <1>3, <1>4

\* It is one of the rounds, and none of them had a smaller sum.
LEMMA ScanIsLeast ==
    ASSUME NEW N \in Nat, NEW sum \in [0..N -> Nat], NEW f, Scan(sum, N, f), NEW n \in 0..N
    PROVE  f[n] \in 0..n /\ \A m \in 0..n : sum[f[n]] <= sum[m]
<1> DEFINE Good(k) == f[k] \in 0..k /\ \A m \in 0..k : sum[f[k]] <= sum[m]
           T == {k \in 0..N : ~Good(k)}
<1>1. SUFFICES ASSUME T # {} PROVE FALSE
  OBVIOUS
<1>2. PICK k \in T : \A j \in T : k <= j
  <2>1. T \in SUBSET Nat
    OBVIOUS
  <2> HIDE DEF T
  <2> QED BY <1>1, <2>1, LeastNat
<1>3. /\ k \in 0..N
      /\ f[k] = IF k = 0 THEN 0 ELSE IF sum[k] < sum[f[k - 1]] THEN k ELSE f[k - 1]
  BY <1>2 DEF Scan
<1>4. CASE k = 0
  <2>1. f[0] = 0 /\ sum[0] \in Nat
    BY <1>3, <1>4
  <2>2. Good(0)
    <3>1. \A m \in 0..0 : m = 0
      OBVIOUS
    <3> QED BY <2>1, <3>1
  <2> QED BY <1>2, <1>4, <2>2
<1>5. CASE k # 0
  <2>1. k \in 1..N /\ k - 1 \in 0..N /\ ~(k <= k - 1)
    BY <1>3, <1>5
  <2>2. Good(k - 1)
    BY <1>2, <2>1
  <2> DEFINE p == f[k - 1]
  <2>3. p \in 0..(k - 1) /\ \A m \in 0..(k - 1) : sum[p] <= sum[m]
    BY <2>2
  <2>4. f[k] = IF sum[k] < sum[p] THEN k ELSE p
    BY <1>3, <1>5
  <2> HIDE DEF p
  <2>5. \A m \in 0..k : (m = k \/ m \in 0..(k - 1)) /\ sum[m] \in Nat
    BY <2>1
  <2>6. sum[p] \in Nat /\ sum[k] \in Nat
    BY <2>1, <2>3
  <2>7. CASE sum[k] < sum[p]
    <3>1. f[k] = k
      BY <2>4, <2>7
    <3>2. \A m \in 0..k : sum[k] <= sum[m]
      BY <2>3, <2>5, <2>6, <2>7
    <3>3. Good(k)
      BY <3>1, <3>2, <2>1
    <3> QED BY <3>3, <1>2
  <2>8. CASE ~(sum[k] < sum[p])
    <3>1. f[k] = p
      BY <2>4, <2>8
    <3>2. \A m \in 0..k : sum[p] <= sum[m]
      BY <2>3, <2>5, <2>6, <2>8
    <3>3. Good(k)
      BY <3>1, <3>2, <2>1, <2>3
    <3> QED BY <3>3, <1>2
  <2> QED BY <2>7, <2>8
<1> QED BY <1>4, <1>5

\* What findQuietestHour returns.
LEMMA QuietestIsLeast ==
    ASSUME Shape, NEW u \in Users
    PROVE  LET start == findQuietestHour(history[u])
           IN  /\ start \in 0..(Hours - 1)
               /\ \A other \in 0..(Hours - 1) : Busy(history[u], start) <= Busy(history[u], other)
<1> DEFINE h == history[u]
           N == Hours - 1
           sum == [start \in 0..N |-> Busy(h, start)]
           best == CHOOSE f : f = [start \in 0..N |->
                       IF start = 0 THEN 0
                       ELSE IF sum[start] < sum[f[start - 1]] THEN start ELSE f[start - 1]]
<1>1. N \in Nat
  BY DetectorsAssumption
<1>2. findQuietestHour(h) = best[N]
  BY DEF findQuietestHour
<1>3. sum \in [0..N -> Nat]
  <2>1. ASSUME NEW start \in 0..N PROVE Busy(h, start) \in Nat
    <3> DEFINE T == {i \in DOMAIN history[u] : isInWindow(HourOf(history[u][i].time), start)}
    <3>1. T \in SUBSET DOMAIN history[u]
      OBVIOUS
    <3>2. Busy(h, start) = Cardinality(T)
      BY DEF Busy, Count
    <3> HIDE DEF T
    <3> QED BY <3>1, <3>2, CountType
  <2> QED BY <2>1
<1>4. Scan(sum, N, best)
  <2> HIDE DEF sum, N
  <2>1. \E f : Scan(sum, N, f)
    BY <1>1, ScanExists
  <2> QED BY <2>1 DEF Scan
<1>5. best[N] \in 0..N /\ \A m \in 0..N : sum[best[N]] <= sum[m]
  <2>1. N \in 0..N
    BY <1>1
  <2> HIDE DEF sum, N, best
  <2> QED BY <2>1, <1>1, <1>3, <1>4, ScanIsLeast
<1> HIDE DEF best
<1>6. \A m \in 0..N : Busy(h, best[N]) <= Busy(h, m)
  BY <1>5
<1> QED BY <1>2, <1>5, <1>6

\* A step of Evaluate holds no hour against a user but a quiet one.
LEMMA QuietStep ==
    ASSUME Shape, RecentInv, NEW t \in Templates, Evaluate(t)
    PROVE  QuietIsLeastBusy'
<1> DEFINE tx == Made(t)
           start == findQuietestHour(history[tx.user])
           D(s) == Cardinality({i \in Known' : isInWindow(HourOf(data'[i].time), s)})
<1>1. tx \in Transaction /\ last'[7] \in BehavioralAnomaly(tx) /\ phase = "evaluate"
  BY MadeType, EvaluateFacts DEF Votes
<1>2. /\ Subject' = tx /\ \A u : Kept(u)' = Held(u)
      /\ \A u : \A i \in Held(u) : data'[i] = data[i]
  BY KeptStep DEF Held
<1> HIDE DEF tx
<1>3. tx.user \in Users /\ Recent(tx.user)
  BY <1>1, TransactionFields DEF RecentInv
<1>4. Known' = Held(tx.user) /\ \A i \in Held(tx.user) : data'[i] = data[i]
  BY <1>2 DEF Known
<1>5. ASSUME NEW s PROVE D(s) = Busy(history[tx.user], s)
  <2> DEFINE S == {x \in Transaction : isInWindow(HourOf(x.time), s)}
  <2>1. \A i \in Held(tx.user) : data[i] \in Transaction
    BY DEF Held, Bought, Shape, DataShape
  <2>2. \A p \in DOMAIN history[tx.user] : history[tx.user][p] \in Transaction
    BY <1>3 DEF Shape, HistoryShape
  <2>3. D(s) = Cardinality({i \in Held(tx.user) : data[i] \in S})
    BY <1>4, <2>1
  <2>4. Busy(history[tx.user], s)
            = Cardinality({p \in DOMAIN history[tx.user] : history[tx.user][p] \in S})
    BY <2>2 DEF Busy, Count
  <2> HIDE DEF S, D
  <2> QED BY <1>3, <2>3, <2>4, SameCount
<1>6. last'[7] \in {30, 50} => isInWindow(HourOf(tx.time), start)
  BY <1>1 DEF BehavioralAnomaly, Clean, GetUserHistory
<1>7. start \in 0..(Hours - 1) /\ \A other \in 0..(Hours - 1) : D(start) <= D(other)
  <2>1. start \in 0..(Hours - 1) /\ \A other \in 0..(Hours - 1) :
            Busy(history[tx.user], start) <= Busy(history[tx.user], other)
    BY <1>3, QuietestIsLeast
  <2> HIDE DEF start, D
  <2> QED BY <2>1, <1>5
<1> HIDE DEF start
<1>8. last'[7] \in {30, 50} =>
          \E s \in 0..(Hours - 1) : /\ isInWindow(HourOf(Subject'.time), s)
                                    /\ \A other \in 0..(Hours - 1) : D(s) <= D(other)
  BY <1>2, <1>6, <1>7
<1> QED BY <1>8 DEF QuietIsLeastBusy

-----------------------------------------------------------------------------
(* Samples: the quartiles of the amounts. *)

\* A sample: finitely many entries, each with an amount.
IsSample(s) == IsFiniteSet(DOMAIN s) /\ \A e \in DOMAIN s : s[e] \in Nat

NotBelow(s, v) == {e \in DOMAIN s : s[e] >= v}

\* The half of a sample is at most a, the other half at least.
Halves(s, a) ==
    /\ 2 * Cardinality(AtMost(s, a)) >= Size(s)
    /\ 2 * Cardinality(NotBelow(s, a)) >= Size(s)

\* Parts of a sample are finite, and the larger part has more entries.
LEMMA SampleParts ==
    ASSUME NEW s, IsSample(s), NEW T \in SUBSET DOMAIN s, NEW R \in SUBSET T
    PROVE  /\ IsFiniteSet(T) /\ IsFiniteSet(R)
           /\ Cardinality(T) \in Nat /\ Cardinality(R) \in Nat /\ Size(s) \in Nat
           /\ Cardinality(R) <= Cardinality(T) /\ Cardinality(T) <= Size(s)
           /\ Cardinality(R) = Cardinality(T) => R = T
<1>1. IsFiniteSet(DOMAIN s)
  BY DEF IsSample
<1>2. IsFiniteSet(T) /\ Cardinality(T) <= Size(s)
  BY <1>1, FS_Subset DEF Size
<1>3. /\ IsFiniteSet(R) /\ Cardinality(R) <= Cardinality(T)
      /\ Cardinality(T) = Cardinality(R) => T = R
  BY <1>2, FS_Subset
<1> QED BY <1>1, <1>2, <1>3, FS_CardinalityType DEF Size

\* Among finitely many entries one is largest: the one with the most others below.
LEMMA LargestEntry ==
    ASSUME NEW s, IsSample(s), NEW T \in SUBSET DOMAIN s, T # {}
    PROVE  \E m \in T : \A e \in T : s[e] <= s[m]
<1> DEFINE U(m) == {e \in T : s[e] <= s[m]}
           R == {Cardinality(T) - Cardinality(U(m)) : m \in T}
<1>1. \A m \in T : /\ Cardinality(U(m)) \in Nat /\ Cardinality(T) \in Nat
                   /\ Cardinality(U(m)) <= Cardinality(T)
  <2> TAKE m \in T
  <2> DEFINE V == U(m)
  <2>1. V \in SUBSET T
    OBVIOUS
  <2> HIDE DEF V
  <2>2. Cardinality(V) \in Nat /\ Cardinality(T) \in Nat /\ Cardinality(V) <= Cardinality(T)
    BY <2>1, SampleParts
  <2> QED BY <2>2 DEF V
<1>2. R \in SUBSET Nat /\ R # {}
  <2> HIDE DEF U
  <2> QED BY <1>1
<1>3. PICK x \in R : \A y \in R : x <= y
  <2> HIDE DEF R
  <2> QED BY <1>2, LeastNat
<1>4. PICK m \in T : x = Cardinality(T) - Cardinality(U(m))
  OBVIOUS
<1>5. ASSUME NEW e \in T, ~(s[e] <= s[m]) PROVE FALSE
  <2>1. s[e] \in Nat /\ s[m] \in Nat /\ \A d \in T : s[d] \in Nat
    BY DEF IsSample
  <2> DEFINE V == U(m)
             W == U(e)
  <2>2. V \in SUBSET W /\ e \in W /\ e \notin V /\ W \in SUBSET DOMAIN s
    BY <2>1, <1>5
  <2> HIDE DEF V, W
  <2>3. /\ Cardinality(V) \in Nat /\ Cardinality(W) \in Nat
        /\ Cardinality(V) <= Cardinality(W) /\ Cardinality(V) # Cardinality(W)
    <3>1. V # W
      BY <2>2
    <3> QED BY <3>1, <2>2, SampleParts
  <2>4. x <= Cardinality(T) - Cardinality(U(e))
    BY <1>3
  <2>5. x = Cardinality(T) - Cardinality(V) /\ x <= Cardinality(T) - Cardinality(W)
    BY <1>4, <2>4 DEF V, W
  <2>6. Cardinality(T) \in Nat
    BY <1>1
  <2> QED BY <2>3, <2>5, <2>6
<1> QED BY <1>5

\* Each place of a sorted sample is taken.
LEMMA RankedExists ==
    ASSUME NEW s, IsSample(s), NEW i \in 1..Size(s)
    PROVE  \E v \in Range(s) : Cardinality(Below(s, v)) < i /\ Cardinality(AtMost(s, v)) >= i
<1> DEFINE T == {v \in Range(s) : Cardinality(AtMost(s, v)) >= i}
<1>1. Size(s) \in Nat /\ i \in Nat \ {0} /\ i <= Size(s)
  <2>1. {} \in SUBSET DOMAIN s
    OBVIOUS
  <2> QED BY <2>1, SampleParts
<1>2. T \in SUBSET Nat
  BY DEF Range, IsSample
<1>3. T # {}
  <2>1. DOMAIN s # {}
    BY <1>1, FS_EmptySet DEF Size
  <2>2. PICK m \in DOMAIN s : \A e \in DOMAIN s : s[e] <= s[m]
    BY <2>1, LargestEntry
  <2>3. AtMost(s, s[m]) = DOMAIN s
    BY <2>2 DEF AtMost
  <2>4. s[m] \in T
    BY <2>3, <1>1 DEF Size, Range
  <2> QED BY <2>4
<1>4. PICK v \in T : \A w \in T : v <= w
  <2> HIDE DEF T
  <2> QED BY <1>2, <1>3, LeastNat
<1>5. v \in Range(s) /\ Cardinality(AtMost(s, v)) >= i /\ v \in Nat
  BY <1>2
<1>6. Cardinality(Below(s, v)) < i
  <2>1. SUFFICES ASSUME ~(Cardinality(Below(s, v)) < i) PROVE FALSE
    OBVIOUS
  <2>2. Below(s, v) \in SUBSET DOMAIN s
    BY DEF Below
  <2>3. Cardinality(Below(s, v)) \in Nat
    BY <2>2, SampleParts
  <2>4. Below(s, v) # {}
    BY <2>1, <2>3, <1>1, FS_EmptySet
  <2>5. PICK m \in Below(s, v) : \A e \in Below(s, v) : s[e] <= s[m]
    BY <2>2, <2>4, LargestEntry
  <2>6. s[m] < v /\ s[m] \in Nat /\ s[m] \in Range(s)
    BY DEF Below, IsSample, Range
  <2>7. AtMost(s, s[m]) = Below(s, v)
    <3>1. \A e \in DOMAIN s : s[e] \in Nat
      BY DEF IsSample
    <3> QED BY <2>5, <2>6, <3>1, <1>5 DEF AtMost, Below
  <2>8. s[m] \in T
    BY <2>6, <2>7, <2>1, <2>3, <1>1
  <2> QED BY <2>8, <2>6, <1>4, <1>5
<1> QED BY <1>5, <1>6

\* What stands in place i, against any amount: at most it when so many are.
LEMMA RankedBounds ==
    ASSUME NEW s, IsSample(s), NEW i \in 1..Size(s), NEW a \in Nat
    PROVE  /\ Ranked(s, i) \in Nat
           /\ Cardinality(AtMost(s, Ranked(s, i))) >= i
           /\ Cardinality(AtMost(s, a)) >= i => Ranked(s, i) <= a
           /\ Cardinality(NotBelow(s, a)) > Size(s) - i => Ranked(s, i) >= a
<1> DEFINE v == Ranked(s, i)
<1>1. v \in Range(s) /\ Cardinality(Below(s, v)) < i /\ Cardinality(AtMost(s, v)) >= i
  BY RankedExists DEF Ranked
<1> HIDE DEF v
<1>2. v \in Nat /\ \A e \in DOMAIN s : s[e] \in Nat
  BY <1>1 DEF Range, IsSample
<1>3. /\ Below(s, v) \in SUBSET DOMAIN s /\ AtMost(s, v) \in SUBSET DOMAIN s
      /\ AtMost(s, a) \in SUBSET DOMAIN s /\ NotBelow(s, a) \in SUBSET DOMAIN s
  BY DEF Below, AtMost, NotBelow
<1>4. /\ Cardinality(Below(s, v)) \in Nat /\ Cardinality(AtMost(s, v)) \in Nat
      /\ Cardinality(AtMost(s, a)) \in Nat /\ Cardinality(NotBelow(s, a)) \in Nat
      /\ Size(s) \in Nat
  BY <1>3, SampleParts
<1>5. ASSUME a < v PROVE Cardinality(AtMost(s, a)) < i
  <2>1. AtMost(s, a) \in SUBSET Below(s, v)
    BY <1>2, <1>5 DEF AtMost, Below
  <2>2. Cardinality(AtMost(s, a)) <= Cardinality(Below(s, v))
    BY <2>1, <1>3, SampleParts
  <2> QED BY <2>2, <1>1, <1>4
<1>6. ASSUME v < a PROVE Cardinality(NotBelow(s, a)) <= Size(s) - i
  <2>1. AtMost(s, v) \cap NotBelow(s, a) = {}
    BY <1>2, <1>6 DEF AtMost, NotBelow
  <2>2. IsFiniteSet(AtMost(s, v)) /\ IsFiniteSet(NotBelow(s, a))
    BY <1>3, SampleParts
  <2>3. Cardinality(AtMost(s, v) \cup NotBelow(s, a))
            = Cardinality(AtMost(s, v)) + Cardinality(NotBelow(s, a))
    <3> DEFINE A == AtMost(s, v)
               B == NotBelow(s, a)
    <3>1. Cardinality(A \cap B) = 0 /\ Cardinality(A) \in Nat /\ Cardinality(B) \in Nat
      BY <2>1, <1>4, FS_EmptySet
    <3> HIDE DEF A, B
    <3>2. Cardinality(A \cup B) = Cardinality(A) + Cardinality(B) - Cardinality(A \cap B)
      BY <2>2, FS_Union DEF A, B
    <3> QED BY <3>1, <3>2 DEF A, B
  <2>4. Cardinality(AtMost(s, v) \cup NotBelow(s, a)) <= Size(s)
    <3>1. AtMost(s, v) \cup NotBelow(s, a) \in SUBSET DOMAIN s
      BY <1>3
    <3> QED BY <3>1, SampleParts
  <2> QED BY <2>3, <2>4, <1>1, <1>4
<1> QED BY <1>1, <1>2, <1>4, <1>5, <1>6 DEF v

\* The quartiles of a sample that has entries are numbers.
LEMMA QuartileType ==
    ASSUME NEW s, IsSample(s), Size(s) # 0
    PROVE  Quartile(1, s) \in Int /\ Quartile(3, s) \in Int
<1> DEFINE n == Size(s)
           x(i) == Ranked(s, i)
<1>1. n \in Nat \ {0}
  <2>1. {} \in SUBSET DOMAIN s
    OBVIOUS
  <2> QED BY <2>1, SampleParts
<1>2. \A i \in 1..n : x(i) \in Nat
  <2>1. 0 \in Nat
    OBVIOUS
  <2> QED BY <2>1, RankedBounds
<1>3. ASSUME NEW k \in {1, 3} PROVE Quartile(k, s) \in Int
  <2> DEFINE i == (k * n + 3) \div 4
             t == 4 * i - k * n
  <2>1. Quartile(k, s) = IF i = 1 THEN 4 * x(1) ELSE t * x(i - 1) + (4 - t) * x(i)
    BY DEF Quartile
  <2> HIDE DEF n, x
  <2>2. i \in 1..n /\ t \in Int /\ 1 \in 1..n /\ (i # 1 => i - 1 \in 1..n)
    BY <1>1
  <2> QED BY <2>1, <2>2, <1>2
<1> QED BY <1>3

\* Both quartiles of a sample, against an amount that halves it: the fences, one and
\* a half times their distance outside, leave it inside.
LEMMA FencesHoldMedian ==
    ASSUME NEW s, IsSample(s), Size(s) # 0, NEW a \in Nat, Halves(s, a)
    PROVE  /\ Quartile(1, s) \in Int /\ Quartile(3, s) \in Int
           /\ 8 * a <= 5 * Quartile(3, s) - 3 * Quartile(1, s)
           /\ 5 * Quartile(1, s) - 3 * Quartile(3, s) <= 8 * a
<1> DEFINE n == Size(s)
           x(i) == Ranked(s, i)
           lo == Cardinality(AtMost(s, a))
           hi == Cardinality(NotBelow(s, a))
<1>1. n \in Nat \ {0} /\ lo \in Nat /\ hi \in Nat /\ 2 * lo >= n /\ 2 * hi >= n
  <2>1. AtMost(s, a) \in SUBSET DOMAIN s /\ NotBelow(s, a) \in SUBSET DOMAIN s
    BY DEF AtMost, NotBelow
  <2> QED BY <2>1, SampleParts DEF Halves
<1>2. \A i \in 1..n : /\ x(i) \in Nat
                      /\ lo >= i => x(i) <= a
                      /\ hi > n - i => x(i) >= a
  BY RankedBounds
<1>3. \A i, j \in 1..n : i <= j => x(i) <= x(j)
  <2> TAKE i, j \in 1..n
  <2>1. x(i) \in Nat /\ x(j) \in Nat /\ Cardinality(AtMost(s, x(j))) >= j
    BY RankedBounds
  <2>2. Cardinality(AtMost(s, x(j))) \in Nat
    <3>1. AtMost(s, x(j)) \in SUBSET DOMAIN s
      BY DEF AtMost
    <3> QED BY <3>1, SampleParts
  <2>3. Cardinality(AtMost(s, x(j))) >= i => x(i) <= x(j)
    BY <2>1, RankedBounds
  <2> QED BY <1>1, <2>1, <2>2, <2>3
<1> DEFINE i1 == (n + 3) \div 4
           t1 == 4 * i1 - n
           i3 == (3 * n + 3) \div 4
           t3 == 4 * i3 - 3 * n
<1>4. /\ Quartile(1, s) = IF i1 = 1 THEN 4 * x(1) ELSE t1 * x(i1 - 1) + (4 - t1) * x(i1)
      /\ Quartile(3, s) = IF i3 = 1 THEN 4 * x(1) ELSE t3 * x(i3 - 1) + (4 - t3) * x(i3)
  BY <1>1 DEF Quartile
<1> DEFINE q1 == Quartile(1, s)
           q3 == Quartile(3, s)
<1> HIDE DEF n, x, lo, hi, q1, q3
<1>5. /\ i1 \in 1..n /\ t1 \in 0..3 /\ lo >= i1
      /\ i3 \in 1..n /\ t3 \in 0..3 /\ i1 <= i3
  BY <1>1
<1>6. q1 = (IF i1 = 1 THEN 4 * x(1) ELSE t1 * x(i1 - 1) + (4 - t1) * x(i1))
      /\ q3 = (IF i3 = 1 THEN 4 * x(1) ELSE t3 * x(i3 - 1) + (4 - t3) * x(i3))
  BY <1>4 DEF q1, q3
<1>7. CASE n = 1
  <2>1. i1 = 1 /\ i3 = 1 /\ 1 \in 1..n
    BY <1>7
  <2>2. x(1) \in Nat /\ x(1) = a
    BY <1>1, <1>2, <1>7, <2>1
  <2>3. q1 = 4 * a /\ q3 = 4 * a
    BY <1>6, <2>1, <2>2
  <2> QED BY <2>3 DEF q1, q3
<1>8. CASE n = 2
  <2>1. i1 = 1 /\ i3 = 2 /\ t3 = 2
    BY <1>8
  <2>2. x(1) \in Nat /\ x(2) \in Nat /\ x(1) <= a /\ a <= x(2)
    BY <1>1, <1>2, <1>8
  <2>3. q1 = 4 * x(1) /\ q3 = 2 * x(1) + 2 * x(2)
    BY <1>6, <2>1, <2>2
  <2> QED BY <2>2, <2>3 DEF q1, q3
<1>9. CASE n >= 3
  <2>1. q1 \in Int /\ q1 <= 4 * a
    <3>1. x(i1) \in Nat /\ x(i1) <= a
      BY <1>2, <1>5
    <3>2. CASE i1 = 1
      BY <3>1, <3>2, <1>6
    <3>3. CASE i1 # 1
      <4>1. i1 - 1 \in 1..n /\ i1 - 1 <= i1
        BY <1>1, <1>5, <3>3
      <4>2. x(i1 - 1) \in Nat /\ x(i1 - 1) <= x(i1)
        BY <4>1, <1>2, <1>3, <1>5
      <4>3. q1 = t1 * x(i1 - 1) + (4 - t1) * x(i1)
        BY <1>6, <3>3
      <4> DEFINE y == x(i1 - 1)
                 z == x(i1)
      <4>4. y \in Nat /\ z \in Nat /\ y <= z /\ z <= a /\ q1 = t1 * y + (4 - t1) * z
        BY <3>1, <4>2, <4>3
      <4>5. t1 = 0 \/ t1 = 1 \/ t1 = 2 \/ t1 = 3
        BY <1>5
      <4> HIDE DEF y, z, t1
      <4> QED BY <4>4, <4>5
    <3> QED BY <3>2, <3>3
  <2>2. q3 \in Int /\ q3 >= 4 * a
    <3>1. i3 # 1 /\ i3 - 1 \in 1..n /\ i3 - 1 <= i3
      BY <1>1, <1>5, <1>9
    <3>2. hi > n - i3 /\ (t3 # 0 => hi > n - (i3 - 1))
      BY <1>1, <1>9
    <3> DEFINE y == x(i3 - 1)
               z == x(i3)
    <3>3. y \in Nat /\ z \in Nat /\ z >= a /\ (t3 # 0 => y >= a)
      BY <3>1, <3>2, <1>2, <1>5
    <3>4. q3 = t3 * y + (4 - t3) * z
      BY <3>1, <1>6
    <3>5. t3 = 0 \/ t3 = 1 \/ t3 = 2 \/ t3 = 3
      BY <1>5
    <3> HIDE DEF y, z, t3
    <3> QED BY <3>3, <3>4, <3>5
  <2> QED BY <2>1, <2>2 DEF q1, q3
<1> QED BY <1>1, <1>7, <1>8, <1>9

\* A blend keeps an inequality both of its parts have, or the one that has weight.
LEMMA BlendKeeps ==
    ASSUME NEW w \in Nat, NEW r \in Nat, NEW o \in Int, NEW p \in Int, NEW a \in Int,
           w # 0 => a <= o, r # 0 => a <= p
    PROVE  (w + r) * a <= w * o + r * p
<1>1. w * a <= w * o
  BY Z3
<1>2. r * a <= r * p
  BY Z3
<1>3. (w + r) * a = w * a + r * a
  BY Z3
<1>4. w * a \in Int /\ r * a \in Int /\ w * o \in Int /\ r * p \in Int
  OBVIOUS
<1> QED BY <1>1, <1>2, <1>3, <1>4

\* The entries of the store and the purchases it holds correspond one to one.
LEMMA SameCountAll ==
    ASSUME Shape, \A u \in Users : Recent(u), NEW S
    PROVE  LET entries == UNION {{u} \X DOMAIN history[u] : u \in Users}
               found == {e \in entries : history[e[1]][e[2]] \in S}
           IN  /\ IsFiniteSet(found)
               /\ Cardinality(found)
                    = Cardinality({i \in UNION {Held(u) : u \in Users} : data[i] \in S})
<1> DEFINE entries == UNION {{u} \X DOMAIN history[u] : u \in Users}
           A == {e \in entries : history[e[1]][e[2]] \in S}
           B == {i \in UNION {Held(u) : u \in Users} : data[i] \in S}
           f == [e \in A |-> history[e[1]][e[2]].id]
<1>1. ASSUME NEW e \in entries
      PROVE  /\ e[1] \in Users /\ e[2] \in DOMAIN history[e[1]] /\ e = <<e[1], e[2]>>
             /\ history[e[1]][e[2]].id \in Held(e[1])
             /\ history[e[1]][e[2]] = data[history[e[1]][e[2]].id]
             /\ history[e[1]][e[2]].user = e[1]
  <2>1. PICK u \in Users : e \in {u} \X DOMAIN history[u]
    OBVIOUS
  <2>2. e[1] = u /\ e[2] \in DOMAIN history[u] /\ e = <<e[1], e[2]>>
    BY <2>1
  <2>3. history[u][e[2]].id \in Held(u)
    BY <2>2, HeldIsKept
  <2> QED BY <2>2, <2>3 DEF Shape, HistoryShape
<1>2. \A u \in Users : \A p \in DOMAIN history[u] : <<u, p>> \in entries
  OBVIOUS
<1>3. f \in [A -> B]
  <2>1. \A e \in A : history[e[1]][e[2]].id \in B
    <3> HIDE DEF entries
    <3> QED BY <1>1
  <2> HIDE DEF A, B
  <2> QED BY <2>1
<1>4. \A d, e \in A : f[d] = f[e] => d = e
  <2> TAKE d, e \in A
  <2>1. SUFFICES ASSUME f[d] = f[e] PROVE d = e
    OBVIOUS
  <2>2. d \in entries /\ e \in entries
    OBVIOUS
  <2>3. history[d[1]][d[2]].id = history[e[1]][e[2]].id
    BY <2>1
  <2> HIDE DEF entries, A, f
  <2>4. d[1] = e[1]
    BY <1>1, <2>2, <2>3
  <2>5. /\ d[2] \in Nat /\ d[2] \in DOMAIN history[d[1]]
        /\ e[2] \in Nat /\ e[2] \in DOMAIN history[d[1]]
        /\ history[d[1]][d[2]].id \in Nat /\ history[d[1]][e[2]].id \in Nat
    <3>1. /\ d[2] \in DOMAIN history[d[1]] /\ e[2] \in DOMAIN history[d[1]] /\ d[1] \in Users
          /\ history[d[1]][d[2]].id \in Held(d[1]) /\ history[d[1]][e[2]].id \in Held(d[1])
      BY <1>1, <2>2, <2>4
    <3>2. Held(d[1]) \subseteq Nat
      BY BoughtFinite DEF Held
    <3>3. history[d[1]] \in Seq(Transaction)
      BY <3>1 DEF Shape, HistoryShape
    <3> QED BY <3>1, <3>2, <3>3
  <2>6. \A p, q \in DOMAIN history[d[1]] : p < q => history[d[1]][p].id < history[d[1]][q].id
    BY <1>1, <2>2 DEF Recent
  <2>7. d[2] = e[2]
    BY <2>3, <2>4, <2>5, <2>6
  <2> QED BY <1>1, <2>2, <2>4, <2>7
<1>5. \A i \in B : \E e \in A : f[e] = i
  <2> TAKE i \in B
  <2>1. PICK u \in Users : i \in Held(u) /\ data[i] \in S
    OBVIOUS
  <2>2. PICK p \in DOMAIN history[u] : history[u][p].id = i /\ history[u][p] = data[i]
    BY <2>1, HeldIsKept DEF Shape, HistoryShape
  <2>3. <<u, p>> \in A
    BY <1>2, <2>1, <2>2
  <2>4. f[<<u, p>>] = i
    BY <2>2, <2>3
  <2> HIDE DEF A, f
  <2> QED BY <2>3, <2>4
<1>6. IsFiniteSet(B)
  <2>1. B \in SUBSET 1..Len(data) /\ Len(data) \in Nat
    <3>1. \A u \in Users : Held(u) \subseteq DOMAIN data
      BY DEF Held, Bought
    <3>2. DOMAIN data = 1..Len(data) /\ Len(data) \in Nat
      BY DEF Shape, DataShape
    <3> QED BY <3>1, <3>2
  <2>2. IsFiniteSet(1..Len(data))
    BY <2>1, FS_Interval
  <2> HIDE DEF B
  <2> QED BY <2>1, <2>2, FS_Subset
<1>7. f \in Injection(A, B) /\ f \in Surjection(A, B)
  <2> HIDE DEF f, A, B
  <2> QED BY <1>3, <1>4, <1>5, Fun_IsInj, Fun_IsSurj
<1>8. IsFiniteSet(A) /\ Cardinality(A) = Cardinality(B)
  <2> HIDE DEF f, A, B
  <2> QED BY <1>6, <1>7, FS_Injection
<1> QED BY <1>8

\* What a user and what the population bought of a category.
OwnHeld(u, c) == {i \in Held(u) : data[i].category = c}
AllHeld(c) == {i \in UNION {Held(u) : u \in Users} : data[i].category = c}

\* As IsMedian, of purchases before the step.
Middle(a, S) == /\ 2 * Cardinality({i \in S : data[i].amount <= a}) >= Cardinality(S)
                /\ 2 * Cardinality({i \in S : data[i].amount >= a}) >= Cardinality(S)

\* A user's sample is halved by what halves the user's purchases.
LEMMA OwnSample ==
    ASSUME Shape, NEW u \in Users, Recent(u), NEW c, NEW a \in Nat
    PROVE  LET s == Amounts(u, c)
           IN  /\ IsSample(s) /\ Size(s) = Cardinality(OwnHeld(u, c))
               /\ Middle(a, OwnHeld(u, c)) => Halves(s, a)
<1> DEFINE s == Amounts(u, c)
           h == history[u]
           D == {p \in DOMAIN h : h[p].category = c}
<1>1. /\ DOMAIN s = D /\ \A p \in D : s[p] = h[p].amount
      /\ \A p \in DOMAIN h : h[p] \in Transaction /\ h[p].amount \in Nat
      /\ \A i \in Held(u) : data[i] \in Transaction
  <2>1. DOMAIN s = D /\ \A p \in D : s[p] = h[p].amount
    BY DEF Amounts, amountsOfCategory, GetUserHistory
  <2>2. \A p \in DOMAIN h : h[p] \in Transaction
    BY DEF Shape, HistoryShape
  <2>3. \A i \in Held(u) : data[i] \in Transaction
    BY DEF Held, Bought, Shape, DataShape
  <2> QED BY <2>1, <2>2, <2>3, TransactionFields
<1>2. IsFiniteSet(D)
  <2>1. D \in SUBSET DOMAIN history[u]
    OBVIOUS
  <2> HIDE DEF D
  <2> QED BY <2>1, CountType
<1>3. Cardinality(D) = Cardinality(OwnHeld(u, c))
  <2> DEFINE S == {x \in Transaction : x.category = c}
  <2>1. D = {p \in DOMAIN history[u] : history[u][p] \in S}
    BY <1>1
  <2>2. OwnHeld(u, c) = {i \in Held(u) : data[i] \in S}
    BY <1>1 DEF OwnHeld
  <2>3. Cardinality({p \in DOMAIN history[u] : history[u][p] \in S})
          = Cardinality({i \in Held(u) : data[i] \in S})
    BY SameCount
  <2> HIDE DEF S, D
  <2> QED BY <2>1, <2>2, <2>3
<1>4. Cardinality(AtMost(s, a)) = Cardinality({i \in OwnHeld(u, c) : data[i].amount <= a})
  <2> DEFINE S == {x \in Transaction : x.category = c /\ x.amount <= a}
  <2>1. AtMost(s, a) = {p \in DOMAIN history[u] : history[u][p] \in S}
    <3> HIDE DEF s
    <3> QED BY <1>1 DEF AtMost
  <2>2. {i \in OwnHeld(u, c) : data[i].amount <= a} = {i \in Held(u) : data[i] \in S}
    BY <1>1 DEF OwnHeld
  <2>3. Cardinality({p \in DOMAIN history[u] : history[u][p] \in S})
          = Cardinality({i \in Held(u) : data[i] \in S})
    BY SameCount
  <2> HIDE DEF S, s
  <2> QED BY <2>1, <2>2, <2>3
<1>5. Cardinality(NotBelow(s, a)) = Cardinality({i \in OwnHeld(u, c) : data[i].amount >= a})
  <2> DEFINE S == {x \in Transaction : x.category = c /\ x.amount >= a}
  <2>1. NotBelow(s, a) = {p \in DOMAIN history[u] : history[u][p] \in S}
    <3> HIDE DEF s
    <3> QED BY <1>1 DEF NotBelow
  <2>2. {i \in OwnHeld(u, c) : data[i].amount >= a} = {i \in Held(u) : data[i] \in S}
    BY <1>1 DEF OwnHeld
  <2>3. Cardinality({p \in DOMAIN history[u] : history[u][p] \in S})
          = Cardinality({i \in Held(u) : data[i] \in S})
    BY SameCount
  <2> HIDE DEF S, s
  <2> QED BY <2>1, <2>2, <2>3
<1>6. IsSample(s) /\ Size(s) = Cardinality(OwnHeld(u, c))
  <2> HIDE DEF s, D
  <2>1. \A p \in D : s[p] \in Nat
    BY <1>1 DEF D
  <2> QED BY <1>1, <1>2, <1>3, <2>1 DEF IsSample, Size
<1> HIDE DEF s
<1>7. Middle(a, OwnHeld(u, c)) => Halves(s, a)
  BY <1>4, <1>5, <1>6 DEF Middle, Halves
<1> QED BY <1>6, <1>7 DEF s

\* The population's sample is halved by what halves everybody's purchases.
LEMMA AllSample ==
    ASSUME Shape, \A u \in Users : Recent(u), NEW c, NEW a \in Nat
    PROVE  LET s == Population(c)
           IN  /\ IsSample(s)
               /\ Middle(a, AllHeld(c)) => Halves(s, a)
<1> DEFINE s == Population(c)
           entries == UNION {{u} \X DOMAIN history[u] : u \in Users}
           x(e) == history[e[1]][e[2]]
           H == UNION {Held(u) : u \in Users}
           D == {e \in entries : x(e).category = c}
<1>1. /\ \A e \in entries : x(e) \in Transaction /\ x(e).amount \in Nat
      /\ \A i \in H : data[i] \in Transaction
  <2>1. \A e \in entries : e[1] \in Users /\ e[2] \in DOMAIN history[e[1]]
    OBVIOUS
  <2>2. \A e \in entries : x(e) \in Transaction
    <3> HIDE DEF entries
    <3> QED BY <2>1 DEF Shape, HistoryShape
  <2>3. \A i \in H : data[i] \in Transaction
    <3>1. \A u \in Users : Held(u) \subseteq DOMAIN data
      BY DEF Held, Bought
    <3>2. \A i \in DOMAIN data : data[i] \in Transaction
      BY DEF Shape, DataShape
    <3> QED BY <3>1, <3>2
  <2> HIDE DEF entries, H, x
  <2> QED BY <2>2, <2>3, TransactionFields
<1>2. DOMAIN s = D /\ \A e \in D : s[e] = x(e).amount
  <2> DEFINE E == UNION {{u} \X amountsOfCategory(u, c) : u \in Users}
  <2>1. s = [e \in E |-> history[e[1]][e[2]].amount]
    BY DEF Population
  <2>2. E = D
    BY DEF amountsOfCategory, GetUserHistory
  <2> HIDE DEF s, E, D
  <2> QED BY <2>1, <2>2
<1>3. IsFiniteSet(D) /\ Cardinality(D) = Cardinality(AllHeld(c))
  <2> DEFINE S == {y \in Transaction : y.category = c}
             A == {e \in entries : history[e[1]][e[2]] \in S}
             B == {i \in H : data[i] \in S}
  <2>0. IsFiniteSet(A) /\ Cardinality(A) = Cardinality(B)
    <3> HIDE DEF S
    <3> QED BY SameCountAll
  <2>1. D = A
    <3> HIDE DEF entries
    <3> QED BY <1>1
  <2>2. AllHeld(c) = B
    BY <1>1 DEF AllHeld
  <2> HIDE DEF D, A, B
  <2> QED BY <2>0, <2>1, <2>2
<1>4. Cardinality(AtMost(s, a)) = Cardinality({i \in AllHeld(c) : data[i].amount <= a})
  <2> DEFINE S == {y \in Transaction : y.category = c /\ y.amount <= a}
             A == {e \in entries : history[e[1]][e[2]] \in S}
             B == {i \in H : data[i] \in S}
             C == {i \in AllHeld(c) : data[i].amount <= a}
  <2>0. Cardinality(A) = Cardinality(B)
    <3> HIDE DEF S
    <3> QED BY SameCountAll
  <2>1. AtMost(s, a) = A
    <3>1. A = {e \in D : x(e).amount <= a}
      <4> HIDE DEF entries
      <4> QED BY <1>1
    <3>2. AtMost(s, a) = {e \in D : s[e] <= a}
      <4> HIDE DEF s, D
      <4> QED BY <1>2 DEF AtMost
    <3> HIDE DEF s, A, D, x
    <3> QED BY <1>2, <3>1, <3>2
  <2>2. C = B
    BY <1>1 DEF AllHeld
  <2> HIDE DEF A, B, C, s
  <2> QED BY <2>0, <2>1, <2>2 DEF C
<1>5. Cardinality(NotBelow(s, a)) = Cardinality({i \in AllHeld(c) : data[i].amount >= a})
  <2> DEFINE S == {y \in Transaction : y.category = c /\ y.amount >= a}
             A == {e \in entries : history[e[1]][e[2]] \in S}
             B == {i \in H : data[i] \in S}
             C == {i \in AllHeld(c) : data[i].amount >= a}
  <2>0. Cardinality(A) = Cardinality(B)
    <3> HIDE DEF S
    <3> QED BY SameCountAll
  <2>1. NotBelow(s, a) = A
    <3>1. A = {e \in D : x(e).amount >= a}
      <4> HIDE DEF entries
      <4> QED BY <1>1
    <3>2. NotBelow(s, a) = {e \in D : s[e] >= a}
      <4> HIDE DEF s, D
      <4> QED BY <1>2 DEF NotBelow
    <3> HIDE DEF s, A, D, x
    <3> QED BY <1>2, <3>1, <3>2
  <2>2. C = B
    BY <1>1 DEF AllHeld
  <2> HIDE DEF A, B, C, s
  <2> QED BY <2>0, <2>1, <2>2 DEF C
<1>6. IsSample(s) /\ Size(s) = Cardinality(AllHeld(c))
  <2>1. \A e \in D : s[e] \in Nat
    <3> HIDE DEF s, entries
    <3> QED BY <1>1, <1>2
  <2> HIDE DEF s, D
  <2> QED BY <1>2, <1>3, <2>1 DEF IsSample, Size
<1> HIDE DEF s
<1>7. Middle(a, AllHeld(c)) => Halves(s, a)
  BY <1>4, <1>5, <1>6 DEF Middle, Halves
<1> QED BY <1>6, <1>7 DEF s

\* An amount in the middle of each sample with a part in the blend is no outlier.
LEMMA MedianVote ==
    ASSUME Shape, \A u \in Users : Recent(u), NEW tx \in Transaction, NEW v \in IQR(tx),
           Middle(tx.amount, OwnHeld(tx.user, tx.category)),
           Cardinality(OwnHeld(tx.user, tx.category)) < MinHistory =>
               Middle(tx.amount, AllHeld(tx.category))
    PROVE  v = Clean
<1> DEFINE c == tx.category
           own == Amounts(tx.user, c)
           all == Population(c)
           n == Size(own)
           w == Trust(n)
           r == MinHistory - w
           a == 8 * tx.amount
           u1 == UserQuartile(1, own)
           u3 == UserQuartile(3, own)
           p1 == GlobalCategoryQuartile(1, c)
           p3 == GlobalCategoryQuartile(3, c)
           q1 == BlendOf(n, u1, p1)
           q3 == BlendOf(n, u3, p3)
           b == 4 * MinHistory * tx.amount
<1>1. tx.user \in Users /\ tx.amount \in Nat
  BY TransactionFields
<1>2. /\ IsSample(own) /\ Halves(own, tx.amount) /\ IsSample(all)
      /\ n < MinHistory => Halves(all, tx.amount)
  BY <1>1, OwnSample, AllSample
<1>3. n \in Nat /\ Size(all) \in Nat
  <2>1. {} \in SUBSET DOMAIN own /\ {} \in SUBSET DOMAIN all
    OBVIOUS
  <2> HIDE DEF own, all
  <2> QED BY <2>1, <1>2, SampleParts
<1>4. v \in (IF (n < MinHistory /\ p1 = 0 /\ p3 = 0) \/ q3 - q1 = 0 THEN {Clean}
             ELSE IF 2 * b > 2 * q3 + 3 * (q3 - q1) THEN {50, Scale}
             ELSE IF 2 * b < 2 * q1 - 3 * (q3 - q1) THEN {40, 90} ELSE {Clean})
  BY DEF IQR
<1>5. SUFFICES ASSUME ~(n < MinHistory /\ p1 = 0 /\ p3 = 0) PROVE v = Clean
  <2> HIDE DEF n, p1, p3, q1, q3, b
  <2> QED BY <1>4
<1>6. MinHistory \in Nat /\ MinPopulation \in Nat \ {0}
  BY DetectorsAssumption
<1>7. w \in Nat /\ r \in Nat /\ w + r = MinHistory /\ (w # 0 => n # 0) /\ (r # 0 => n < MinHistory)
  <2> HIDE DEF n
  <2> QED BY <1>3, <1>6 DEF Trust
<1>8. /\ u1 \in Int /\ u3 \in Int
      /\ n # 0 => a <= 5 * u3 - 3 * u1 /\ 5 * u1 - 3 * u3 <= a
  <2>1. CASE n = 0
    BY <2>1 DEF UserQuartile
  <2>2. CASE n # 0
    <3>1. u1 = Quartile(1, own) /\ u3 = Quartile(3, own)
      BY <2>2 DEF UserQuartile
    <3> HIDE DEF own, u1, u3
    <3> QED BY <3>1, <2>2, <1>1, <1>2, FencesHoldMedian
  <2> QED BY <2>1, <2>2
<1>9. /\ p1 \in Int /\ p3 \in Int
      /\ n < MinHistory => a <= 5 * p3 - 3 * p1 /\ 5 * p1 - 3 * p3 <= a
  <2>1. CASE Size(all) < MinPopulation
    <3>1. p1 = 0 /\ p3 = 0
      BY <2>1 DEF GlobalCategoryQuartile
    <3> HIDE DEF p1, p3, n
    <3> QED BY <3>1, <1>5
  <2>2. CASE ~(Size(all) < MinPopulation)
    <3>1. p1 = Quartile(1, all) /\ p3 = Quartile(3, all) /\ Size(all) # 0
      BY <2>2, <1>3, <1>6 DEF GlobalCategoryQuartile
    <3> HIDE DEF p1, p3, n, all
    <3>2. CASE n < MinHistory
      BY <3>1, <3>2, <1>1, <1>2, FencesHoldMedian
    <3>3. CASE ~(n < MinHistory)
      BY <3>1, <3>3, <1>2, QuartileType
    <3> QED BY <3>2, <3>3
  <2> QED BY <2>1, <2>2
<1>10. q1 = w * u1 + r * p1 /\ q3 = w * u3 + r * p3
  BY DEF BlendOf
<1>11. a \in Int /\ 2 * b = MinHistory * a
  <2> DEFINE m == tx.amount
  <2>1. m \in Nat /\ a = 8 * m /\ b = 4 * MinHistory * m
    BY <1>1
  <2> HIDE DEF m, a, b
  <2> QED BY <2>1, <1>6
<1> HIDE DEF n, w, r, a, u1, u3, p1, p3, q1, q3, b
<1>12. MinHistory * a <= w * (5 * u3 - 3 * u1) + r * (5 * p3 - 3 * p1)
  <2> DEFINE o == 5 * u3 - 3 * u1
             p == 5 * p3 - 3 * p1
  <2>1. o \in Int /\ p \in Int /\ (w # 0 => a <= o) /\ (r # 0 => a <= p)
    BY <1>7, <1>8, <1>9
  <2> HIDE DEF o, p
  <2>2. (w + r) * a <= w * o + r * p
    BY <2>1, <1>7, <1>11, BlendKeeps
  <2> QED BY <2>2, <1>7 DEF o, p
<1>13. MinHistory * (-a) <= w * (3 * u3 - 5 * u1) + r * (3 * p3 - 5 * p1)
  <2> DEFINE o == 3 * u3 - 5 * u1
             p == 3 * p3 - 5 * p1
  <2>1. -a \in Int /\ o \in Int /\ p \in Int /\ (w # 0 => -a <= o) /\ (r # 0 => -a <= p)
    BY <1>7, <1>8, <1>9, <1>11
  <2> HIDE DEF o, p
  <2>2. (w + r) * (-a) <= w * o + r * p
    BY <2>1, <1>7, BlendKeeps
  <2> QED BY <2>2, <1>7 DEF o, p
<1>14. /\ w * (5 * u3 - 3 * u1) + r * (5 * p3 - 3 * p1) = 5 * q3 - 3 * q1
       /\ w * (3 * u3 - 5 * u1) + r * (3 * p3 - 5 * p1) = 3 * q3 - 5 * q1
       /\ MinHistory * (-a) = -(MinHistory * a)
       /\ q1 \in Int /\ q3 \in Int /\ MinHistory * a \in Int
  BY <1>6, <1>7, <1>8, <1>9, <1>10, <1>11
<1>15. 2 * b <= 5 * q3 - 3 * q1 /\ 5 * q1 - 3 * q3 <= 2 * b /\ 2 * b \in Int
  BY <1>11, <1>12, <1>13, <1>14
<1> DEFINE d == 2 * b
<1>16. d \in Int /\ d <= 5 * q3 - 3 * q1 /\ 5 * q1 - 3 * q3 <= d
  BY <1>15
<1> HIDE DEF d
<1>17. ~(d > 2 * q3 + 3 * (q3 - q1)) /\ ~(d < 2 * q1 - 3 * (q3 - q1))
  BY <1>14, <1>16
<1> QED BY <1>4, <1>17 DEF d

\* A step of Evaluate finds an amount in the middle no outlier.
LEMMA MedianStep ==
    ASSUME Shape, RecentInv, NEW t \in Templates, Evaluate(t)
    PROVE  MedianIsClean'
<1> DEFINE tx == Made(t)
           c == tx.category
<1>1. tx \in Transaction /\ last'[2] \in IQR(tx) /\ phase = "evaluate"
  BY MadeType, EvaluateFacts DEF Votes
<1>2. /\ Subject' = tx /\ \A u : Kept(u)' = Held(u)
      /\ \A u : \A i \in Held(u) : data'[i] = data[i]
  BY KeptStep DEF Held
<1> HIDE DEF tx
<1>3. \A u \in Users : Recent(u)
  BY <1>1 DEF RecentInv
<1>4. OwnBefore' = OwnHeld(tx.user, c) /\ \A i \in OwnHeld(tx.user, c) : data'[i] = data[i]
  BY <1>2 DEF OwnBefore, OfCategory, Known, OwnHeld
<1>5. AllBefore' = AllHeld(c) /\ \A i \in AllHeld(c) : data'[i] = data[i]
  <2>1. AllBefore' = {i \in UNION {Held(u) : u \in Users} : data'[i].category = c}
    BY <1>2 DEF AllBefore, OfCategory
  <2>2. \A i \in UNION {Held(u) : u \in Users} : data'[i] = data[i]
    BY <1>2
  <2> QED BY <2>1, <2>2 DEF AllHeld
<1> DEFINE R(S) == /\ 2 * Cardinality({i \in S : data'[i].amount <= tx.amount}) >= Cardinality(S)
                   /\ 2 * Cardinality({i \in S : data'[i].amount >= tx.amount}) >= Cardinality(S)
<1>6. R(OwnHeld(tx.user, c)) <=> Middle(tx.amount, OwnHeld(tx.user, c))
  BY <1>4 DEF Middle
<1>7. R(AllHeld(c)) <=> Middle(tx.amount, AllHeld(c))
  BY <1>5 DEF Middle
<1>8. (R(OwnBefore') /\ (Cardinality(OwnBefore') < MinHistory => R(AllBefore')))
          => last'[2] = Clean
  <2>1. ASSUME Middle(tx.amount, OwnHeld(tx.user, c)),
               Cardinality(OwnHeld(tx.user, c)) < MinHistory => Middle(tx.amount, AllHeld(c))
        PROVE  last'[2] = Clean
    BY <2>1, <1>1, <1>3, MedianVote
  <2> HIDE DEF R
  <2> QED BY <2>1, <1>4, <1>5, <1>6, <1>7
<1>9. MedianIsClean' <=>
          ((/\ last' # None /\ R(OwnBefore')
            /\ Cardinality(OwnBefore') < MinHistory => R(AllBefore'))
               => last'[2] = Clean)
  BY <1>2 DEF MedianIsClean, IsMedian, Scored, None
<1> QED BY <1>8, <1>9

-----------------------------------------------------------------------------
(* Where a NaN comes from. *)
\* A deviation is a NaN or a sign, and a NaN only of a sample of one.
LEMMA DeviationType ==
    ASSUME NEW s
    PROVE  /\ StdDev(s) \in {NaN, 0, 1}
           /\ StdDev(s) = NaN => Size(s) - 1 = 0
BY NaNAssumption DEF StdDev, Over

\* A sample of one has a NaN for its deviation, any other finite one has none.
LEMMA OwnDeviation ==
    ASSUME NEW s, IsFiniteSet(DOMAIN s)
    PROVE  /\ UserStd(s) \in {NaN, 0, 1}
           /\ UserStd(s) = NaN <=> Size(s) = 1
<1>1. Size(s) \in Nat
  BY FS_CardinalityType DEF Size
<1>2. UserStd(s) \in {NaN, 0, 1} /\ (UserStd(s) = NaN => Size(s) = 1)
  BY <1>1, DeviationType, NaNAssumption DEF UserStd
<1>3. ASSUME Size(s) = 1 PROVE UserStd(s) = NaN
  <2>1. \A d, e \in DOMAIN s : d = e
    BY <1>3, FS_Singleton DEF Size
  <2>2. \A d, e \in DOMAIN s : s[d] = s[e]
    BY <2>1
  <2> QED BY <1>3, <2>2 DEF UserStd, StdDev, Over
<1> QED BY <1>2, <1>3

\* The population's deviation is never a NaN, and 0 when the amounts are equal.
LEMMA PopulationDeviation ==
    ASSUME NEW c
    PROVE  /\ GlobalCategoryStd(c) \in {0, 1}
           /\ IsFiniteSet(DOMAIN Population(c)) =>
                (GlobalCategoryStd(c) # 0 <=>
                     \E d, e \in DOMAIN Population(c) : Population(c)[d] # Population(c)[e])
<1> DEFINE s == Population(c)
<1>1. GlobalCategoryStd(c) = IF Size(s) < 2 \/ StdDev(s) = NaN THEN 0 ELSE StdDev(s)
  BY DEF GlobalCategoryStd
<1>2. GlobalCategoryStd(c) \in {0, 1}
  BY <1>1, DeviationType, NaNAssumption
<1> HIDE DEF s
<1>3. ASSUME \A d, e \in DOMAIN s : s[d] = s[e] PROVE GlobalCategoryStd(c) = 0
  BY <1>1, <1>3, NaNAssumption DEF StdDev, Over
<1>4. ASSUME NEW d \in DOMAIN s, NEW e \in DOMAIN s, s[d] # s[e], IsFiniteSet(DOMAIN s)
      PROVE  GlobalCategoryStd(c) = 1
  <2>1. StdDev(s) = 1
    BY <1>4 DEF StdDev, Over
  <2>2. Size(s) \in Nat /\ Size(s) # 0 /\ Size(s) # 1
    <3>1. d # e
      BY <1>4
    <3> QED BY <1>4, <3>1, FS_CardinalityType, FS_EmptySet, FS_Singleton DEF Size
  <2> QED BY <1>1, <2>1, <2>2, NaNAssumption
<1> QED BY <1>2, <1>3, <1>4 DEF s

\* The Z-score is a NaN for an own sample of one, unless the population abstains.
LEMMA ZScoreNaN ==
    ASSUME NEW tx, IsFiniteSet(DOMAIN Amounts(tx.user, tx.category)), NEW v \in ZScore(tx)
    PROVE  v = NaN <=> /\ Size(Amounts(tx.user, tx.category)) = 1
                       /\ GlobalCategoryStd(tx.category) # 0
<1> DEFINE own == Amounts(tx.user, tx.category)
           n == Size(own)
           user == UserStd(own)
           pop == GlobalCategoryStd(tx.category)
           std == BlendedStd(n, user, pop)
           z == IF AboveMean(tx.amount, own, Population(tx.category))
                THEN {Clean, 50, Scale} ELSE {Clean}
<1>1. ZScore(tx) = IF (n < MinHistory /\ pop = 0) \/ std = 0 THEN {Clean}
                   ELSE IF std = NaN THEN {NaN} ELSE z
  BY DEF ZScore
<1>2. NaN # Clean /\ NaN # 50 /\ NaN # Scale /\ NaN # 0 /\ NaN # 1
  BY NaNAssumption DEF Clean, Scale
<1>3. user \in {NaN, 0, 1} /\ (user = NaN <=> n = 1) /\ pop \in {0, 1}
  BY OwnDeviation, PopulationDeviation
<1>4. std = NaN <=> user = NaN
  BY <1>2, <1>3 DEF BlendedStd
<1>5. z \subseteq {Clean, 50, Scale}
  OBVIOUS
<1>6. MinHistory \in Nat /\ MinHistory > 1
  BY DetectorsAssumption
<1> HIDE DEF own, n, user, pop, std, z
<1>7. v = NaN <=> n = 1 /\ pop # 0
  BY <1>1, <1>2, <1>3, <1>4, <1>5, <1>6
<1> QED BY <1>7 DEF own, n, pop

\* Amounts that differ in the population's sample are amounts of purchases held.
LEMMA PopulationSpread ==
    ASSUME Shape, \A u \in Users : Recent(u), NEW c
    PROVE  (\E d, e \in DOMAIN Population(c) : Population(c)[d] # Population(c)[e]) <=>
               \E i, j \in AllHeld(c) : data[i].amount # data[j].amount
<1> DEFINE s == Population(c)
           E == UNION {{u} \X amountsOfCategory(u, c) : u \in Users}
<1>1. DOMAIN s = E /\ \A e \in E : s[e] = history[e[1]][e[2]].amount
  BY DEF Population
<1>2. \A u \in Users : \A p \in DOMAIN history[u] :
          history[u][p].id \in Held(u) /\ history[u][p] = data[history[u][p].id]
  BY HeldIsKept DEF Shape, HistoryShape
<1>3. \A u \in Users : \A i \in Held(u) : \E p \in DOMAIN history[u] : history[u][p] = data[i]
  BY HeldIsKept DEF Shape, HistoryShape
<1>4. ASSUME NEW e \in E PROVE \E i \in AllHeld(c) : data[i].amount = s[e]
  <2>1. /\ e[1] \in Users /\ e[2] \in DOMAIN history[e[1]]
        /\ history[e[1]][e[2]].category = c
    BY DEF amountsOfCategory, GetUserHistory
  <2>2. history[e[1]][e[2]].id \in AllHeld(c)
    BY <1>2, <2>1 DEF AllHeld
  <2> QED BY <1>1, <1>2, <2>1, <2>2
<1>5. ASSUME NEW i \in AllHeld(c) PROVE \E e \in E : s[e] = data[i].amount
  <2>1. PICK u \in Users : i \in Held(u) /\ data[i].category = c
    BY DEF AllHeld
  <2>2. PICK p \in DOMAIN history[u] : history[u][p] = data[i]
    BY <1>3, <2>1
  <2>3. p \in amountsOfCategory(u, c)
    BY <2>1, <2>2 DEF amountsOfCategory, GetUserHistory
  <2>4. <<u, p>> \in E
    BY <2>3
  <2>5. s[<<u, p>>] = history[u][p].amount
    BY <1>1, <2>4
  <2> QED BY <2>2, <2>4, <2>5
<1> HIDE DEF s, E
<1>6. (\E d, e \in DOMAIN s : s[d] # s[e]) <=>
          \E i, j \in AllHeld(c) : data[i].amount # data[j].amount
  BY <1>1, <1>4, <1>5
<1> QED BY <1>6 DEF s

\* A step of Evaluate leaves a NaN only where the history is one purchase.
LEMMA NaNStep ==
    ASSUME Shape, RecentInv, NEW t \in Templates, Evaluate(t)
    PROVE  NaNIsAHistoryOfOne'
<1> DEFINE tx == Made(t)
           c == tx.category
<1>1. /\ tx \in Transaction /\ tx.user \in Users /\ last'[1] \in ZScore(tx) /\ phase = "evaluate"
      /\ Ballot(last')
  BY MadeType, EvaluateFacts, BallotStep, TransactionFields DEF Votes
<1>2. /\ Subject' = tx /\ \A u : Kept(u)' = Held(u)
      /\ \A u : \A i \in Held(u) : data'[i] = data[i]
  BY KeptStep DEF Held
<1> HIDE DEF tx
<1>3. \A u \in Users : Recent(u)
  BY <1>1 DEF RecentInv
<1>4. OwnBefore' = OwnHeld(tx.user, c) /\ AllBefore' = AllHeld(c)
      /\ \A i \in AllHeld(c) : data'[i] = data[i]
  <2>1. OwnBefore' = OwnHeld(tx.user, c)
    BY <1>2 DEF OwnBefore, OfCategory, Known, OwnHeld
  <2>2. AllBefore' = {i \in UNION {Held(u) : u \in Users} : data'[i].category = c}
    BY <1>2 DEF AllBefore, OfCategory
  <2>3. \A i \in UNION {Held(u) : u \in Users} : data'[i] = data[i]
    BY <1>2
  <2> QED BY <2>1, <2>2, <2>3 DEF AllHeld
<1>5. /\ IsFiniteSet(DOMAIN Amounts(tx.user, c)) /\ IsFiniteSet(DOMAIN Population(c))
      /\ Size(Amounts(tx.user, c)) = Cardinality(OwnHeld(tx.user, c))
  <2>1. 0 \in Nat
    OBVIOUS
  <2>2. IsSample(Amounts(tx.user, c)) /\ IsSample(Population(c))
        /\ Size(Amounts(tx.user, c)) = Cardinality(OwnHeld(tx.user, c))
    BY <1>1, <1>3, <2>1, OwnSample, AllSample
  <2> QED BY <2>2 DEF IsSample
<1>6. last'[1] = NaN <=> Cardinality(OwnHeld(tx.user, c)) = 1 /\ GlobalCategoryStd(c) # 0
  BY <1>1, <1>5, ZScoreNaN
<1>7. GlobalCategoryStd(c) # 0 <=> \E i, j \in AllHeld(c) : data[i].amount # data[j].amount
  BY <1>3, <1>5, PopulationDeviation, PopulationSpread
<1>8. IsNaN(last)' <=> last'[1] = NaN
  BY <1>1, BallotNaN DEF IsNaN
<1>9. (\E i, j \in AllBefore : data[i].amount # data[j].amount)'
        <=> \E i, j \in AllHeld(c) : data[i].amount # data[j].amount
  BY <1>4
<1>10. Cardinality(OwnBefore)' = Cardinality(OwnHeld(tx.user, c))
  BY <1>4
<1> HIDE DEF c
<1> QED BY <1>6, <1>7, <1>8, <1>9, <1>10 DEF NaNIsAHistoryOfOne

-----------------------------------------------------------------------------
(* The calibration plays the same data again into the store they filled. *)

\* Every purchase has another of its user and category, and none is trimmed.
Plenty ==
    \A i \in DOMAIN data :
        /\ \E j \in DOMAIN data \ {i} : /\ data[j].user = data[i].user
                                        /\ data[j].category = data[i].category
        /\ Cardinality({j \in DOMAIN data : data[j].user = data[i].user}) <= MaxHistory

\* A history is what is left of the first round, then all of the second.
Rotated(u) ==
    \E s \in 0..Len(history[u]) :
        /\ \A i \in Bought(u) : i < next => \E p \in (s + 1)..Len(history[u]) : history[u][p].id = i
        /\ \A i \in Bought(u) : i >= next => \E p \in 1..s : history[u][p].id = i
        /\ \A p, q \in 1..s : p < q => history[u][p].id < history[u][q].id
RotationInv == phase # "evaluate" /\ Plenty => \A u \in Users : Rotated(u)

\* When the calibration begins the window holds all of the data.
LEMMA BeginRotation ==
    ASSUME Shape, RecentInv, BeginCalibration
    PROVE  RotationInv'
<1>1. /\ phase = "evaluate" /\ data' = data /\ history' = history /\ next' = next /\ next = 1
  BY DEF BeginCalibration, storeVars, Shape, DataShape
<1>2. SUFFICES ASSUME Plenty, NEW u \in Users PROVE Rotated(u)
  <2>1. Plenty' <=> Plenty
    BY <1>1 DEF Plenty
  <2>2. \A u \in Users : Rotated(u)' <=> Rotated(u)
    BY <1>1 DEF Rotated, Bought
  <2> QED BY <2>1, <2>2 DEF RotationInv
<1>3. Recent(u) /\ Len(history[u]) \in Nat /\ DOMAIN history[u] = 1..Len(history[u])
  BY <1>1 DEF RecentInv, Shape, HistoryShape
<1>4. ASSUME NEW i \in Bought(u) PROVE i \in Held(u)
  <2> DEFINE L == {j \in Bought(u) : j > i}
             R == Bought(u) \ {i}
  <2>1. /\ IsFiniteSet(Bought(u)) /\ Cardinality(Bought(u)) \in Nat
        /\ IsFiniteSet(R) /\ Cardinality(R) \in Nat
        /\ Cardinality(L) \in Nat
    <3>1. Bought(u) \in SUBSET Bought(u) /\ R \in SUBSET Bought(u) /\ L \in SUBSET Bought(u)
      OBVIOUS
    <3> HIDE DEF L, R
    <3> QED BY <3>1, BoughtFinite
  <2>2. Cardinality(R) = Cardinality(Bought(u)) - 1
    <3> HIDE DEF R
    <3> QED BY <2>1, <1>4, FS_RemoveElement DEF R
  <2>3. Cardinality(L) <= Cardinality(R)
    <3>1. i \in Nat
      BY <1>4 DEF Bought, Shape, DataShape
    <3>2. L \subseteq R
      BY <3>1
    <3> HIDE DEF L, R
    <3> QED BY <3>2, <2>1, FS_Subset
  <2>4. Cardinality(Bought(u)) <= MaxHistory
    BY <1>2, <1>4 DEF Plenty, Bought
  <2>5. Cardinality(L) < MaxHistory
    <3> HIDE DEF L, R
    <3> QED BY <2>1, <2>2, <2>3, <2>4, MaxHistoryAssumption
  <2> QED BY <1>4, <2>5 DEF Held
<1>5. \A i \in Bought(u) : \E p \in 1..Len(history[u]) : history[u][p].id = i
  BY <1>3, <1>4, HeldIsKept
<1>6. \A i \in Bought(u) : i \in Nat /\ i >= 1
  BY DEF Bought, Shape, DataShape
<1>7. Len(history[u]) \in 0..Len(history[u])
  BY <1>3
<1>8. \A i \in Bought(u) : ~(i < next) /\ \E p \in 1..Len(history[u]) : history[u][p].id = i
  BY <1>1, <1>5, <1>6
<1>9. \A p, q \in 1..Len(history[u]) : p < q => history[u][p].id < history[u][q].id
  BY <1>3 DEF Recent
<1> QED BY <1>7, <1>8, <1>9 DEF Rotated

\* A step of the calibration, field by field.
LEMMA CollectFacts ==
    ASSUME Shape, Collect
    PROVE  /\ phase = "calibrate" /\ phase' = "calibrate" /\ data' = data /\ last' = last
           /\ next \in DOMAIN data /\ next' = next + 1
           /\ data[next] \in Transaction /\ data[next].id = next
           /\ Seed(data[next])
           /\ \E votes \in Votes(data[next]) : pairs' = Append(pairs, IsNaN(votes))
<1>1. /\ phase = "calibrate" /\ phase' = "calibrate" /\ data' = data /\ last' = last
      /\ next \in Nat \ {0} /\ next <= Len(data) /\ next' = next + 1
      /\ Seed(data[next])
      /\ \E votes \in Votes(data[next]) : pairs' = Append(pairs, IsNaN(votes))
  BY DEF Collect, Shape, DataShape
<1>2. next \in DOMAIN data
  BY <1>1 DEF Shape, DataShape
<1> QED BY <1>1, <1>2 DEF Shape, DataShape

\* A step of the calibration keeps the shape.
LEMMA CollectShape ==
    ASSUME Shape, Collect
    PROVE  Shape'
<1>1. PICK tx : tx = data[next]
  OBVIOUS
<1>2. /\ tx \in Transaction /\ tx.id \in DOMAIN data' /\ data'[tx.id] = tx /\ Seed(tx)
      /\ data' = data
  BY <1>1, CollectFacts
<1>3. HistoryShape'
  BY <1>2, SeedShape
<1>4. next' \in Nat \ {0} /\ pairs' \in Seq(BOOLEAN)
  <2>1. PICK votes : pairs' = Append(pairs, IsNaN(votes))
    BY CollectFacts
  <2>2. IsNaN(votes) \in BOOLEAN
    BY DEF IsNaN
  <2>3. pairs \in Seq(BOOLEAN) /\ next \in Nat \ {0} /\ next' = next + 1
    BY CollectFacts DEF Shape, DataShape
  <2> QED BY <2>1, <2>2, <2>3
<1>5. DataShape'
  BY <1>4, CollectFacts DEF Shape, DataShape
<1> QED BY <1>3, <1>5 DEF Shape

\* A step of the calibration drops what it appends, or nothing.
LEMMA CollectRotation ==
    ASSUME Shape, RotationInv, Collect
    PROVE  RotationInv'
<1>1. PICK tx : tx = data[next]
  OBVIOUS
<1>2. /\ phase # "evaluate" /\ data' = data /\ next' = next + 1
      /\ next \in DOMAIN data /\ tx \in Transaction /\ tx.id = next /\ Seed(tx)
  BY <1>1, CollectFacts
<1>3. SUFFICES ASSUME Plenty, NEW u \in Users PROVE Rotated(u)'
  <2>1. Plenty' <=> Plenty
    BY <1>2 DEF Plenty
  <2> QED BY <2>1 DEF RotationInv
<1>4. Rotated(u)
  BY <1>2, <1>3 DEF RotationInv
<1> DEFINE h == history[u]
           k == history'[u]
           m == Len(h)
<1>5. PICK s \in 0..m :
          /\ \A i \in Bought(u) : i < next => \E p \in (s + 1)..m : h[p].id = i
          /\ \A i \in Bought(u) : i >= next => \E p \in 1..s : h[p].id = i
          /\ \A p, q \in 1..s : p < q => h[p].id < h[q].id
  BY <1>4 DEF Rotated
<1>6. /\ Len(h) \in Nat /\ next \in Nat
      /\ \A i \in Bought(u) : i \in Nat
      /\ \A p \in 1..m : h[p].id \in Nat
      /\ Bought(u)' = Bought(u)
  <2>1. \A p \in 1..m : h[p].id \in DOMAIN data
    BY DEF Shape, HistoryShape
  <2> QED BY <2>1, <1>2 DEF Shape, DataShape, HistoryShape, Bought
<1>10. /\ u # tx.user => k = h
       /\ u = tx.user /\ m < MaxHistory =>
             Len(k) = m + 1 /\ k[m + 1] = tx /\ \A p \in 1..m : k[p] = h[p]
       /\ u = tx.user /\ m = MaxHistory =>
             Len(k) = m /\ k[m] = tx /\ \A p \in 1..(m - 1) : k[p] = h[p + 1]
  <2>1. tx \in Transaction /\ Seed(tx) /\ Shape
    BY <1>2
  <2>2. /\ tx.user # u => history'[u] = history[u]
        /\ Len(history[tx.user]) < MaxHistory =>
              /\ Len(history'[tx.user]) = Len(history[tx.user]) + 1
              /\ history'[tx.user][Len(history'[tx.user])] = tx
              /\ \A p \in 1..Len(history[tx.user]) : history'[tx.user][p] = history[tx.user][p]
        /\ Len(history[tx.user]) = MaxHistory =>
              /\ Len(history'[tx.user]) = MaxHistory
              /\ history'[tx.user][Len(history'[tx.user])] = tx
              /\ \A p \in 1..(Len(history'[tx.user]) - 1) :
                    history'[tx.user][p] = history[tx.user][p + 1]
    BY <2>1, SeedEffect, Zenon
  <2>3. CASE u # tx.user
    BY <2>2, <2>3
  <2>4. CASE u = tx.user
    <3>1. /\ m < MaxHistory => Len(k) = m + 1 /\ k[Len(k)] = tx /\ \A p \in 1..m : k[p] = h[p]
          /\ m = MaxHistory =>
                Len(k) = MaxHistory /\ k[Len(k)] = tx /\ \A p \in 1..(Len(k) - 1) : k[p] = h[p + 1]
      BY <2>2, <2>4, Zenon
    <3> HIDE DEF k, h, m
    <3> QED BY <3>1, <2>4
  <2> QED BY <2>3, <2>4
<1>7. CASE u # tx.user
  <2>1. k = h
    BY <1>7, <1>10
  <2>2. \A i \in Bought(u) : i # next
    BY <1>1, <1>7 DEF Bought
  <2>3. \A i \in Bought(u) : (i < next' => i < next) /\ (i >= next' => i >= next)
    BY <2>2, <1>2, <1>6
  <2>4. s \in 0..Len(k)
    BY <2>1
  <2>5. \A i \in Bought(u) : i < next' => \E p \in (s + 1)..Len(k) : k[p].id = i
    BY <2>1, <2>3, <1>5
  <2>6. \A i \in Bought(u) : i >= next' => \E p \in 1..s : k[p].id = i
    BY <2>1, <2>3, <1>5
  <2>7. \A p, q \in 1..s : p < q => k[p].id < k[q].id
    BY <2>1, <1>5
  <2> QED BY <2>4, <2>5, <2>6, <2>7, <1>6 DEF Rotated
<1>8. CASE u = tx.user /\ m < MaxHistory
  <2>1. Len(k) = m + 1 /\ k[m + 1] = tx /\ \A p \in 1..m : k[p] = h[p]
    BY <1>8, <1>10
  <2> HIDE DEF h, k, m
  <2>2. s \in 0..Len(k)
    BY <2>1, <1>6 DEF m
  <2>3. ASSUME NEW i \in Bought(u), i < next' PROVE \E p \in (s + 1)..Len(k) : k[p].id = i
    <3>1. CASE i = next
      <4>1. m + 1 \in (s + 1)..Len(k)
        BY <2>1, <1>6 DEF m
      <4> QED BY <4>1, <3>1, <2>1, <1>2
    <3>2. CASE i < next
      <4>1. PICK p \in (s + 1)..m : h[p].id = i
        BY <3>2, <1>5
      <4>2. p \in (s + 1)..Len(k) /\ p \in 1..m
        BY <2>1, <1>6 DEF m
      <4> QED BY <4>1, <4>2, <2>1
    <3> QED BY <3>1, <3>2, <2>3, <1>2, <1>6
  <2>4. ASSUME NEW i \in Bought(u), i >= next' PROVE \E p \in 1..s : k[p].id = i
    <3>1. i >= next
      BY <2>4, <1>2, <1>6
    <3>2. PICK p \in 1..s : h[p].id = i
      BY <3>1, <1>5
    <3>3. p \in 1..m
      BY <1>6 DEF m
    <3> QED BY <3>2, <3>3, <2>1
  <2>5. ASSUME NEW p \in 1..s, NEW q \in 1..s, p < q PROVE k[p].id < k[q].id
    <3>1. p \in 1..m /\ q \in 1..m
      BY <1>6 DEF m
    <3> QED BY <3>1, <2>1, <2>5, <1>5
  <2> QED BY <2>2, <2>3, <2>4, <2>5, <1>6 DEF Rotated, k
<1>9. CASE u = tx.user /\ m = MaxHistory
  <2>1. Len(k) = m /\ k[m] = tx /\ \A p \in 1..(m - 1) : k[p] = h[p + 1]
    BY <1>9, <1>10
  <2>2. next \in Bought(u)
    BY <1>1, <1>2, <1>9 DEF Bought
  <2> HIDE DEF h, k, m
  <2>3. m \in Nat \ {0}
    BY <1>9, MaxHistoryAssumption
  <2>4. PICK n \in 1..s : h[n].id = next
    BY <2>2, <1>5, <1>6
  <2>5. s \in 1..m /\ (s - 1) \in 0..Len(k)
    BY <2>1, <2>3, <2>4
  \* What leaves the window is not needed in the first part any more.
  <2>6. h[1].id <= next
    <3>1. 1 \in 1..s /\ (1 < n \/ n = 1)
      BY <2>4, <2>5
    <3>2. 1 < n => h[1].id < h[n].id
      BY <3>1, <1>5
    <3>3. h[1].id \in Nat
      BY <2>5, <1>6 DEF m
    <3> QED BY <3>1, <3>2, <3>3, <2>4, <1>6
  <2>7. ASSUME NEW i \in Bought(u), i < next' PROVE \E p \in ((s - 1) + 1)..Len(k) : k[p].id = i
    <3>1. CASE i = next
      <4>1. m \in ((s - 1) + 1)..Len(k)
        BY <2>1, <2>3, <2>5
      <4> QED BY <4>1, <3>1, <2>1, <1>2
    <3>2. CASE i < next
      <4>1. PICK p \in (s + 1)..m : h[p].id = i
        BY <3>2, <1>5
      <4>2. (p - 1) \in ((s - 1) + 1)..Len(k) /\ (p - 1) \in 1..(m - 1) /\ (p - 1) + 1 = p
        BY <2>1, <2>3, <2>5
      <4>3. k[p - 1] = h[p]
        BY <4>2, <2>1
      <4> QED BY <4>1, <4>2, <4>3
    <3> QED BY <3>1, <3>2, <2>7, <1>2, <1>6
  <2>8. ASSUME NEW i \in Bought(u), i >= next' PROVE \E p \in 1..(s - 1) : k[p].id = i
    <3>1. i > next /\ i >= next
      BY <2>8, <1>2, <1>6
    <3>2. PICK p \in 1..s : h[p].id = i
      BY <3>1, <1>5
    <3>3. p # 1
      BY <3>1, <3>2, <2>6, <1>6
    <3>4. (p - 1) \in 1..(s - 1) /\ (p - 1) \in 1..(m - 1) /\ (p - 1) + 1 = p
      BY <3>2, <3>3, <2>3, <2>5
    <3>5. k[p - 1] = h[p]
      BY <3>4, <2>1
    <3> QED BY <3>2, <3>4, <3>5
  <2>9. ASSUME NEW p \in 1..(s - 1), NEW q \in 1..(s - 1), p < q PROVE k[p].id < k[q].id
    <3>1. /\ p \in 1..(m - 1) /\ q \in 1..(m - 1)
          /\ p + 1 \in 1..s /\ q + 1 \in 1..s /\ p + 1 < q + 1
      BY <2>3, <2>5, <2>9
    <3>2. h[p + 1].id < h[q + 1].id
      BY <3>1, <1>5
    <3> QED BY <3>1, <3>2, <2>1
  <2>10. PICK t : t = s - 1
    OBVIOUS
  <2>11. /\ t \in 0..Len(k)
         /\ \A i \in Bought(u)' : i < next' => \E p \in (t + 1)..Len(k) : k[p].id = i
         /\ \A i \in Bought(u)' : i >= next' => \E p \in 1..t : k[p].id = i
         /\ \A p, q \in 1..t : p < q => k[p].id < k[q].id
    BY <2>5, <2>7, <2>8, <2>9, <2>10, <1>6
  <2> QED BY <2>11 DEF Rotated, k
<1> QED
  <2>1. m \in Nat /\ m <= MaxHistory
    BY DEF Shape, HistoryShape
  <2> QED BY <2>1, <1>7, <1>8, <1>9, MaxHistoryAssumption

\* A pair of the calibration finds two purchases of its category.
LEMMA CollectFinite ==
    ASSUME Shape, RotationInv, CalibrationIsFinite, Collect
    PROVE  CalibrationIsFinite'
<1>1. PICK tx : tx = data[next]
  OBVIOUS
<1>2. /\ phase # "evaluate" /\ data' = data
      /\ next \in DOMAIN data /\ tx \in Transaction /\ tx.id = next
  BY <1>1, CollectFacts
<1>3. PICK votes \in Votes(tx) : pairs' = Append(pairs, IsNaN(votes))
  BY <1>1, CollectFacts
<1>4. SUFFICES ASSUME Plenty PROVE \A i \in DOMAIN pairs' : ~pairs'[i]
  BY <1>2 DEF CalibrationIsFinite, Plenty
<1>5. \A i \in DOMAIN pairs : ~pairs[i]
  BY <1>4 DEF CalibrationIsFinite, Plenty
<1> DEFINE u == tx.user
           c == tx.category
           S == amountsOfCategory(u, c)
<1>6. u \in Users /\ Rotated(u)
  BY <1>2, <1>4, TransactionFields DEF RotationInv
<1>7. PICK j \in DOMAIN data \ {next} : data[j].user = u /\ data[j].category = c
  BY <1>1, <1>2, <1>4 DEF Plenty
<1>8. \A i \in Bought(u) : \E p \in DOMAIN history[u] :
          history[u][p].id = i /\ history[u][p] = data[i]
  <2> TAKE i \in Bought(u)
  <2>1. /\ i \in Nat /\ next \in Nat
        /\ DOMAIN history[u] = 1..Len(history[u]) /\ Len(history[u]) \in Nat
    BY <1>6 DEF Bought, Shape, DataShape, HistoryShape
  <2>2. PICK s \in 0..Len(history[u]) :
            /\ i < next => \E p \in (s + 1)..Len(history[u]) : history[u][p].id = i
            /\ i >= next => \E p \in 1..s : history[u][p].id = i
    BY <1>6 DEF Rotated
  <2>3. \E p \in 1..Len(history[u]) : history[u][p].id = i
    BY <2>1, <2>2
  <2> QED BY <2>1, <2>3, <1>6 DEF Shape, HistoryShape
<1>9. PICK p \in DOMAIN history[u] : history[u][p].id = next /\ history[u][p].category = c
  <2>1. next \in Bought(u) /\ data[next].category = c
    BY <1>1, <1>2 DEF Bought
  <2> QED BY <2>1, <1>8
<1>10. PICK q \in DOMAIN history[u] : history[u][q].id = j /\ history[u][q].category = c
  <2>1. j \in Bought(u)
    BY <1>7 DEF Bought
  <2> QED BY <2>1, <1>7, <1>8
<1>11. p # q /\ p \in S /\ q \in S
  BY <1>7, <1>9, <1>10 DEF amountsOfCategory, GetUserHistory
<1>12. Cardinality(S) # 1
  <2>1. S \in SUBSET DOMAIN history[u]
    BY DEF amountsOfCategory, GetUserHistory
  <2> HIDE DEF S
  <2>2. IsFiniteSet(S)
    BY <2>1, <1>6, CountType
  <2> QED BY <2>2, <1>11, FS_Singleton
<1>13. votes[1] # NaN
  <2>1. votes[1] \in ZScore(tx)
    BY DEF Votes
  <2>2. DOMAIN Amounts(u, c) = S
    BY DEF Amounts
  <2>3. IsFiniteSet(S)
    BY <1>6, CountType DEF amountsOfCategory, GetUserHistory
  <2> HIDE DEF S
  <2>4. Size(Amounts(u, c)) # 1
    BY <1>12, <2>2 DEF Size
  <2> QED BY <2>1, <2>2, <2>3, <2>4, ZScoreNaN
<1>14. ~IsNaN(votes)
  <2>1. PICK t \in Templates : tx.country = t.country
    BY <1>1, <1>2 DEF Shape, DataShape
  <2>2. Ballot(votes)
    BY <2>1, <1>2, VotesRange
  <2> QED BY <2>2, <1>13, BallotNaN
<1>15. pairs \in Seq(BOOLEAN) /\ pairs' = Append(pairs, FALSE)
  <2>1. IsNaN(votes) = FALSE
    BY <1>14 DEF IsNaN
  <2> QED BY <2>1, <1>3 DEF Shape, DataShape
<1> QED BY <1>5, <1>15

-----------------------------------------------------------------------------
\* Of a score at hand the statements, of the store what they rest on.
EvaluationInv ==
    /\ Shape /\ RecentInv /\ RotationInv
    /\ NaNIsAHistoryOfOne /\ FiringRaises
    /\ BurstOnlyHiddenByFlood /\ MedianIsClean /\ HomeIsNotFar /\ QuietIsLeastBusy
    /\ CalibrationIsFinite

\* When no score is at hand nothing is claimed of it.
LEMMA Unscored ==
    ASSUME last = None
    PROVE  /\ NaNIsAHistoryOfOne /\ FiringRaises
           /\ BurstOnlyHiddenByFlood /\ MedianIsClean /\ HomeIsNotFar /\ QuietIsLeastBusy
BY DEF Scored, Sound, NaNIsAHistoryOfOne, FiringRaises,
       BurstOnlyHiddenByFlood, MedianIsClean, HomeIsNotFar, QuietIsLeastBusy

\* The boot starts in the invariant.
LEMMA EvaluationInit == Init => EvaluationInv
<1> SUFFICES ASSUME Init PROVE EvaluationInv
  OBVIOUS
<1>1. phase = "evaluate" /\ data = <<>> /\ last = None /\ next = 1 /\ pairs = <<>>
      /\ history = [u \in Users |-> <<>>]
  BY DEF Init, NewStore
<1>2. /\ DOMAIN data = {} /\ DOMAIN pairs = {}
      /\ \A u \in Users : history[u] = <<>> /\ DOMAIN history[u] = {}
  BY <1>1
<1>3. DataShape
  BY <1>1, <1>2 DEF DataShape
<1>4. HistoryShape
  <2>1. <<>> \in Seq(Transaction) /\ Len(<<>>) = 0
    OBVIOUS
  <2>2. \A u \in Users : Len(history[u]) = 0
    BY <1>2, <2>1
  <2>3. history \in [Users -> Seq(Transaction)]
    BY <1>1, <2>1
  <2> QED BY <1>2, <2>2, <2>3, MaxHistoryAssumption DEF HistoryShape
<1>5. RecentInv /\ RotationInv
  BY <1>1, <1>2 DEF RecentInv, Recent, RotationInv
<1>6. CalibrationIsFinite
  BY <1>2 DEF CalibrationIsFinite
<1> QED BY <1>1, <1>3, <1>4, <1>5, <1>6, Unscored DEF Shape, EvaluationInv

\* The rotation depends on the data, the history and the position only.
LEMMA SameRotation ==
    ASSUME data' = data, history' = history, next' = next
    PROVE  (Plenty' <=> Plenty) /\ \A u : Rotated(u)' <=> Rotated(u)
<1>1. Plenty' <=> Plenty
  BY DEF Plenty
<1>2. \A u : Rotated(u)' <=> Rotated(u)
  BY DEF Rotated, Bought
<1> QED BY <1>1, <1>2

\* Every step of the boot keeps the invariant.
LEMMA EvaluationStep == EvaluationInv /\ [Next]_vars => EvaluationInv'
<1> SUFFICES ASSUME EvaluationInv, [Next]_vars PROVE EvaluationInv'
  OBVIOUS
<1>1. Shape /\ RecentInv /\ RotationInv /\ CalibrationIsFinite
  BY DEF EvaluationInv
<1>2. ASSUME NEW t \in Templates, Evaluate(t) PROVE EvaluationInv'
  <2>1. Shape' /\ RecentInv'
    BY <1>1, <1>2, EvaluateShape, EvaluateRecent
  <2>2. phase' = "evaluate" /\ pairs' = pairs /\ pairs = <<>>
    BY <1>1, <1>2, EvaluateFacts DEF Shape, DataShape
  <2>3. RotationInv' /\ CalibrationIsFinite'
    BY <2>2 DEF RotationInv, CalibrationIsFinite
  <2>4. /\ NaNIsAHistoryOfOne' /\ BurstOnlyHiddenByFlood' /\ MedianIsClean'
        /\ HomeIsNotFar' /\ QuietIsLeastBusy'
    BY <1>1, <1>2, NaNStep, VelocityStep, MedianStep, HomeStep, QuietStep
  <2>5. FiringRaises'
    BY <1>1, <1>2, FiringStep
  <2> QED BY <2>1, <2>3, <2>4, <2>5 DEF EvaluationInv
<1>3. CASE BeginCalibration
  <2>1. /\ phase = "evaluate" /\ phase' = "calibrate" /\ last' = None
        /\ data' = data /\ history' = history /\ next' = next /\ pairs' = pairs
    BY <1>3 DEF BeginCalibration, storeVars
  <2>2. Shape' /\ RecentInv'
    BY <1>1, <2>1 DEF Shape, DataShape, HistoryShape, RecentInv
  <2>3. RotationInv'
    BY <1>1, <1>3, BeginRotation
  <2>4. CalibrationIsFinite'
    BY <1>1, <2>1 DEF CalibrationIsFinite
  <2>5. (last = None)'
    BY <2>1 DEF None
  <2>6. /\ NaNIsAHistoryOfOne' /\ FiringRaises'
        /\ BurstOnlyHiddenByFlood' /\ MedianIsClean' /\ HomeIsNotFar' /\ QuietIsLeastBusy'
    BY <2>5, Unscored, PTL
  <2> QED BY <2>2, <2>3, <2>4, <2>6 DEF EvaluationInv
<1>4. CASE Collect
  <2>1. Shape' /\ RotationInv' /\ CalibrationIsFinite'
    BY <1>1, <1>4, CollectShape, CollectRotation, CollectFinite
  <2>2. RecentInv' /\ last' = None
    BY <1>1, <1>4, CollectFacts DEF RecentInv, Shape, DataShape
  <2>3. (last = None)'
    BY <2>2 DEF None
  <2>4. /\ NaNIsAHistoryOfOne' /\ FiringRaises'
        /\ BurstOnlyHiddenByFlood' /\ MedianIsClean' /\ HomeIsNotFar' /\ QuietIsLeastBusy'
    BY <2>3, Unscored, PTL
  <2> QED BY <2>1, <2>2, <2>4 DEF EvaluationInv
<1>5. CASE Fit
  <2>1. /\ phase = "calibrate" /\ phase' = "fitted" /\ last' = last
        /\ data' = data /\ history' = history /\ next' = next /\ pairs' = pairs
    BY <1>5 DEF Fit, storeVars
  <2>2. Shape' /\ RecentInv' /\ last' = None
    BY <1>1, <2>1 DEF Shape, DataShape, HistoryShape, RecentInv
  <2>3. RotationInv' /\ CalibrationIsFinite'
    BY <1>1, <2>1, SameRotation DEF RotationInv, CalibrationIsFinite
  <2>4. (last = None)'
    BY <2>2 DEF None
  <2>5. /\ NaNIsAHistoryOfOne' /\ FiringRaises'
        /\ BurstOnlyHiddenByFlood' /\ MedianIsClean' /\ HomeIsNotFar' /\ QuietIsLeastBusy'
    BY <2>4, Unscored, PTL
  <2> QED BY <2>2, <2>3, <2>5 DEF EvaluationInv
<1>6. CASE UNCHANGED vars
  <2>1. /\ phase' = phase /\ last' = last
        /\ data' = data /\ history' = history /\ next' = next /\ pairs' = pairs
    BY <1>6 DEF vars, storeVars
  <2>2. Shape' /\ RecentInv'
    BY <1>1, <2>1 DEF Shape, DataShape, HistoryShape, RecentInv, Recent
  <2>3. RotationInv' /\ CalibrationIsFinite'
    BY <1>1, <2>1, SameRotation DEF RotationInv, CalibrationIsFinite
  <2>4. NaNIsAHistoryOfOne'
    <3>1. OwnBefore' = OwnBefore /\ AllBefore' = AllBefore
      BY <2>1 DEF OwnBefore, AllBefore, OfCategory, Known, Kept, Own, Subject
    <3>2. Cardinality(OwnBefore)' = Cardinality(OwnBefore)
      BY <3>1
    <3> QED BY <2>1, <3>1, <3>2 DEF EvaluationInv, NaNIsAHistoryOfOne, Scored, None
  <2>5. FiringRaises'
    BY <2>1 DEF EvaluationInv, FiringRaises, Sound, Scored, None
  <2>6. BurstOnlyHiddenByFlood'
    BY <2>1 DEF EvaluationInv, BurstOnlyHiddenByFlood, Scored, Own, Subject, None
  <2>7. MedianIsClean'
    <3>1. OwnBefore' = OwnBefore /\ AllBefore' = AllBefore /\ Subject' = Subject
      BY <2>1 DEF OwnBefore, AllBefore, OfCategory, Known, Kept, Own, Subject
    <3> QED BY <2>1, <3>1 DEF EvaluationInv, MedianIsClean, IsMedian, Scored, None
  <2>8. HomeIsNotFar'
    <3>1. Known' = Known /\ Subject' = Subject
      BY <2>1 DEF Known, Kept, Own, Subject
    <3> QED BY <2>1, <3>1 DEF EvaluationInv, HomeIsNotFar, Scored, None
  <2>9. QuietIsLeastBusy'
    <3>1. Known' = Known /\ Subject' = Subject
      BY <2>1 DEF Known, Kept, Own, Subject
    <3>2. QuietIsLeastBusy' <=> QuietIsLeastBusy
      BY <2>1, <3>1 DEF QuietIsLeastBusy, Scored, None
    <3> QED BY <3>2 DEF EvaluationInv
  <2> QED BY <2>2, <2>3, <2>4, <2>5, <2>6, <2>7, <2>8, <2>9 DEF EvaluationInv
<1> QED BY <1>2, <1>3, <1>4, <1>5, <1>6 DEF Next

\* The invariant holds throughout.
LEMMA EvaluationInvariance == Spec => []EvaluationInv
BY EvaluationInit, EvaluationStep, PTL DEF Spec

\* Whatever the history, no detector lowers the score by firing.
THEOREM FiringTheorem == Spec => []FiringRaises
<1>1. EvaluationInv => FiringRaises
  BY DEF EvaluationInv
<1> QED BY <1>1, EvaluationInvariance, PTL

\* A score is a NaN for who has one purchase of the category in the window, and for
\* nobody else, wherever the own and the population's deviations are blended.
THEOREM HistoryOfOneTheorem == Spec => []NaNIsAHistoryOfOne
<1>1. EvaluationInv => NaNIsAHistoryOfOne
  BY DEF EvaluationInv
<1> QED BY <1>1, EvaluationInvariance, PTL

\* Whatever the timestamps, the velocity detector fires on bursts only, and a burst
\* it misses was trimmed by a flood of transactions stamped outside of it.
THEOREM VelocityTheorem == Spec => []BurstOnlyHiddenByFlood
<1>1. EvaluationInv => BurstOnlyHiddenByFlood
  BY DEF EvaluationInv
<1> QED BY <1>1, EvaluationInvariance, PTL

\* An amount in the middle of what it is compared with is no outlier, however the own
\* and the population's quartiles are blended.
THEOREM MedianTheorem == Spec => []MedianIsClean
<1>1. EvaluationInv => MedianIsClean
  BY DEF EvaluationInv
<1> QED BY <1>1, EvaluationInvariance, PTL

\* Who is where the window's purchases were mostly made is not far from home.
THEOREM HomeTheorem == Spec => []HomeIsNotFar
<1>1. EvaluationInv => HomeIsNotFar
  BY DEF EvaluationInv
<1> QED BY <1>1, EvaluationInvariance, PTL

\* An hour held against a user lies in a window of hours that is quietest.
THEOREM QuietTheorem == Spec => []QuietIsLeastBusy
<1>1. EvaluationInv => QuietIsLeastBusy
  BY DEF EvaluationInv
<1> QED BY <1>1, EvaluationInvariance, PTL

\* With two purchases of each category used and none trimmed, no pair is NaN.
THEOREM CalibrationTheorem == Spec => []CalibrationIsFinite
<1>1. EvaluationInv => CalibrationIsFinite
  BY DEF EvaluationInv
<1> QED BY <1>1, EvaluationInvariance, PTL
=============================================================================
