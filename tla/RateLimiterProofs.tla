------------------------- MODULE RateLimiterProofs -------------------------
(***************************************************************************)
(* What the limiter keeps for any number of clients, handlers and buckets, *)
(* any rate and any age: a bucket is one client's, its requests share it,  *)
(* no client gets more in a second than a full bucket and what it earns    *)
(* meanwhile, and a client that loses a bucket in use to the sweep gets at *)
(* most as much again.                                                     *)
(*                                                                         *)
(* The argument is about ages.  A bucket that has been idle for MaxAge is  *)
(* full, because a request spends from it long before: so evicting it      *)
(* gives nothing away.  A bucket made after one in use was lost is younger *)
(* than the one lost as long as that one is spent from, and than a second  *)
(* more afterwards: so the sweep cannot take it within the same second.    *)
(***************************************************************************)
EXTENDS RateLimiter, FiniteSetTheorems, TLAPS

\* A function has at most as many values as arguments.
LEMMA ImageCardinality ==
    ASSUME NEW S, IsFiniteSet(S), NEW T, NEW f \in [S -> T]
    PROVE  /\ IsFiniteSet({f[x] : x \in S})
           /\ Cardinality({f[x] : x \in S}) <= Cardinality(S)
<1> DEFINE R == {f[x] : x \in S}
<1>1. f \in [S -> R]
  OBVIOUS
<1>2. f \in Surjection(S, R)
  BY <1>1 DEF Surjection
<1> QED
  BY <1>2, FS_Surjection

\* There is always a bucket that nobody uses.
LEMMA SomeFresh == ASSUME TypeOK PROVE \E b \in Buckets : Fresh(b)
<1> DEFINE Mapped == {buckets[ip] : ip \in IPs}
           Held == {held[h] : h \in Handlers}
<1>1. /\ IsFiniteSet(IPs) /\ IsFiniteSet(Handlers) /\ IsFiniteSet(Buckets)
      /\ Cardinality(Buckets) > Cardinality(Handlers) + Cardinality(IPs)
  BY LimiterAssumption
<1>2. IsFiniteSet(Mapped) /\ Cardinality(Mapped) <= Cardinality(IPs)
  <2>1. PICK T : buckets \in [IPs -> T]
    BY DEF TypeOK
  <2> QED BY <1>1, <2>1, ImageCardinality
<1>3. IsFiniteSet(Held) /\ Cardinality(Held) <= Cardinality(Handlers)
  <2>1. PICK T : held \in [Handlers -> T]
    BY DEF TypeOK
  <2> QED BY <1>1, <2>1, ImageCardinality
<1> HIDE DEF Mapped, Held
<1>4. /\ IsFiniteSet(Mapped \cup Held)
      /\ Cardinality(Mapped \cup Held) =
            Cardinality(Mapped) + Cardinality(Held) - Cardinality(Mapped \cap Held)
  BY <1>2, <1>3, FS_Union
<1>5. IsFiniteSet(Mapped \cap Held)
  BY <1>2, FS_Subset
<1>6. /\ Cardinality(Mapped) \in Nat /\ Cardinality(Held) \in Nat
      /\ Cardinality(Mapped \cap Held) \in Nat /\ Cardinality(IPs) \in Nat
      /\ Cardinality(Handlers) \in Nat /\ Cardinality(Buckets) \in Nat
      /\ Cardinality(Mapped \cup Held) \in Nat
  BY <1>1, <1>2, <1>3, <1>4, <1>5, FS_CardinalityType
<1>7. Cardinality(Mapped \cup Held) < Cardinality(Buckets)
  BY <1>1, <1>2, <1>3, <1>4, <1>6
<1>8. ~(Buckets \subseteq Mapped \cup Held)
  BY <1>4, <1>6, <1>7, FS_Subset
<1> QED
  BY <1>8 DEF Fresh, Holds, Mapped, Held

-----------------------------------------------------------------------------
(* The shape of the state. *)

\* The initial state has its types.
LEMMA LimiterTypeInit == Init => TypeOK
<1> SUFFICES ASSUME Init PROVE TypeOK
  OBVIOUS
<1>1. PerSecond \in 0..PerSecond /\ 0 \in 0..(MaxAge + 1) /\ 0 \in 0..PerSecond
  BY LimiterAssumption
<1> QED
  BY <1>1 DEF Init, TypeOK

\* get, in both of its outcomes, ends with a handler holding bucket b.
Got(h, ip, b) ==
    /\ pc[h] # "allow" /\ ip \in IPs /\ b \in Buckets
    /\ pc' = [pc EXCEPT ![h] = "allow"]
    /\ client' = [client EXCEPT ![h] = ip] /\ held' = [held EXCEPT ![h] = b]
    /\ age' = [age EXCEPT ![b] = 0]
    /\ touched' = (touched \/ (doomed # None /\ buckets[doomed] = b))
    /\ UNCHANGED <<toVisit, doomed, elapsed, admitted, wasted, lost>>
    /\ \/ buckets[ip] = b /\ UNCHANGED <<buckets, tokens>>
       \/ /\ buckets[ip] = None /\ Fresh(b)
          /\ buckets' = [buckets EXCEPT ![ip] = b]
          /\ tokens' = [tokens EXCEPT ![b] = PerSecond]

\* A handler that is not idle serves a client, and one that asks holds a bucket.
Busy ==
    \A h \in Handlers : /\ pc[h] # "idle" => client[h] \in IPs
                        /\ pc[h] = "allow" <=> held[h] # None

\* Finding a bucket and storing one both end with the handler holding the one in the map.
LEMMA BothGet ==
    ASSUME TypeOK, Busy, NEW h \in Handlers,
           LoadOrStore(h) \/ \E ip \in IPs : LoadHit(h, ip)
    PROVE  \E ip \in IPs, b \in Buckets : Got(h, ip, b)
<1> USE DEF TypeOK, Busy, sweepVars, secondVars
<1>0. None \notin Buckets
  BY LimiterAssumption
<1>1. ASSUME NEW ip \in IPs, LoadHit(h, ip) PROVE \E b \in Buckets : Got(h, ip, b)
  <2>1. buckets[ip] \in Buckets
    BY <1>0, <1>1 DEF LoadHit
  <2>2. Got(h, ip, buckets[ip])
    BY <1>1, <2>1 DEF LoadHit, Got, Touch
  <2> QED
    BY <2>1, <2>2
<1>2. CASE LoadOrStore(h)
  <2> DEFINE fresh == CHOOSE b \in Buckets : Fresh(b)
             b == IF buckets[client[h]] # None THEN buckets[client[h]] ELSE fresh
  <2>0. client[h] \in IPs /\ client' = [client EXCEPT ![h] = client[h]]
    BY <1>2 DEF LoadOrStore
  <2>1. fresh \in Buckets /\ Fresh(fresh)
    BY SomeFresh
  <2>2. /\ pc[h] = "store"
        /\ buckets' = [buckets EXCEPT ![client[h]] = b]
        /\ tokens' = IF buckets[client[h]] # None THEN tokens ELSE [tokens EXCEPT ![b] = PerSecond]
        /\ held' = [held EXCEPT ![h] = b] /\ Touch(b)
        /\ pc' = [pc EXCEPT ![h] = "allow"]
        /\ UNCHANGED <<toVisit, doomed, elapsed, admitted, wasted, lost>>
    BY <1>2 DEF LoadOrStore
  <2> HIDE DEF fresh
  <2>3. CASE buckets[client[h]] # None
    <3>1. b = buckets[client[h]] /\ b \in Buckets
      BY <2>0, <1>0, <2>3
    <3>2. buckets' = buckets
      BY <2>0, <2>2, <3>1
    <3>3. Got(h, client[h], b)
      BY <2>0, <2>2, <2>3, <3>1, <3>2 DEF Got, Touch
    <3> QED
      BY <2>0, <3>1, <3>3
  <2>4. CASE buckets[client[h]] = None
    <3>1. b = fresh
      BY <2>4
    <3>2. Got(h, client[h], b)
      BY <2>0, <2>1, <2>2, <2>4, <3>1 DEF Got, Touch
    <3> QED
      BY <2>0, <2>1, <3>1, <3>2
  <2> QED
    BY <2>3, <2>4
<1> QED
  BY <1>1, <1>2

-----------------------------------------------------------------------------
(* Whose bucket it is. *)

\* The map is injective, a held bucket is under no other client, and who asks
\* holds what the map has or the bucket its client lost.
Ownership ==
    /\ Busy
    /\ \A i, j \in IPs : buckets[i] = buckets[j] /\ buckets[i] # None => i = j
    /\ \A h \in Handlers, i \in IPs : pc[h] = "allow" /\ buckets[i] = held[h] => client[h] = i
    /\ \A g, h \in Handlers :
          pc[g] = "allow" /\ pc[h] = "allow" /\ held[g] = held[h] => client[g] = client[h]
    /\ \A h \in Handlers :
          pc[h] = "allow" => held[h] = buckets[client[h]] \/ held[h] = lost[client[h]]

\* It is about to spend from a bucket that its client has lost.
Strays(h) == pc[h] = "allow" /\ held[h] # buckets[client[h]]

\* What a client can still spend; a bucket it has yet to get will be full.
Left(ip) == IF buckets[ip] = None THEN PerSecond ELSE tokens[buckets[ip]]

\* Neither a client's bucket nor the one it lost gives more in the measured second
\* than it could hold and has earned since the second began.
Budget ==
    /\ \A ip \in IPs : admitted[ip] + Left(ip) <= PerSecond + elapsed
    /\ \A h \in Handlers : Strays(h) => wasted[client[h]] + tokens[held[h]] <= PerSecond + elapsed
    /\ \A ip \in IPs : wasted[ip] <= 2 * PerSecond /\ (lost[ip] = None => wasted[ip] = 0)

\* Who holds a bucket asks it a second before it could be idle; what an idle
\* bucket has spent is earned again; the sweep is right about a bucket it found
\* idle unless it was touched.
Idleness ==
    /\ \A h \in Handlers : pc[h] = "allow" => age[held[h]] + PerSecond <= MaxAge
    /\ \A b \in Buckets : tokens[b] = PerSecond \/ age[b] + PerSecond <= tokens[b] + MaxAge
    /\ doomed # None => /\ buckets[doomed] # None
                        /\ ~touched => age[buckets[doomed]] > MaxAge

\* A client that has lost a bucket has a young one, if it has one again.
Youth ==
    /\ \A ip \in IPs : lost[ip] # None =>
          /\ doomed # ip
          /\ buckets[ip] # None => age[buckets[ip]] + PerSecond <= MaxAge + elapsed
    /\ \A h \in Handlers :
          Strays(h) /\ buckets[client[h]] # None => age[buckets[client[h]]] <= age[held[h]]

LimiterInv == TypeOK /\ Ownership /\ Budget /\ Idleness /\ Youth

\* The invariant holds at first.
LEMMA LimiterInit == Init => LimiterInv
<1> SUFFICES ASSUME Init PROVE LimiterInv
  OBVIOUS
<1>1. TypeOK
  BY LimiterTypeInit
<1>2. PerSecond \in Nat /\ 0 + PerSecond <= 0 + MaxAge + PerSecond
  BY LimiterAssumption
<1>3. Ownership /\ Idleness /\ Youth
  BY LimiterAssumption DEF Init, Ownership, Busy, Idleness, Youth, Strays
<1>4. Budget
  BY <1>2 DEF Init, Budget, Left, Strays
<1> QED
  BY <1>1, <1>3, <1>4 DEF LimiterInv

\* The facts about numbers that the steps below rest on.
LEMMA Numbers ==
    ASSUME TypeOK
    PROVE  /\ PerSecond \in Nat /\ PerSecond > 0 /\ MaxAge \in Nat /\ MaxAge > PerSecond
           /\ None \notin Buckets /\ None \notin IPs
           /\ elapsed \in Nat /\ elapsed <= PerSecond
           /\ \A ip \in IPs : admitted[ip] \in Nat /\ wasted[ip] \in Nat
           /\ \A b \in Buckets : /\ tokens[b] \in Nat /\ tokens[b] <= PerSecond
                                 /\ age[b] \in Nat /\ age[b] <= MaxAge + 1
BY LimiterAssumption DEF TypeOK

\* Getting a bucket, found or fresh, keeps the invariant.
LEMMA GotKeeps ==
    ASSUME LimiterInv, NEW h \in Handlers, NEW ip \in IPs, NEW b \in Buckets, Got(h, ip, b)
    PROVE  LimiterInv'
<1> USE DEF LimiterInv
<1>0. /\ PerSecond \in Nat /\ PerSecond > 0 /\ MaxAge \in Nat /\ MaxAge > PerSecond
      /\ None \notin Buckets /\ None \notin IPs /\ elapsed \in Nat /\ 0 \in 0..(MaxAge + 1)
      /\ PerSecond \in 0..PerSecond
  BY Numbers
<1>1. /\ pc[h] # "allow"
      /\ pc' = [pc EXCEPT ![h] = "allow"]
      /\ client' = [client EXCEPT ![h] = ip] /\ held' = [held EXCEPT ![h] = b]
      /\ age' = [age EXCEPT ![b] = 0]
      /\ touched' = (touched \/ (doomed # None /\ buckets[doomed] = b))
      /\ UNCHANGED <<toVisit, doomed, elapsed, admitted, wasted, lost>>
      /\ \/ buckets[ip] = b /\ UNCHANGED <<buckets, tokens>>
         \/ /\ buckets[ip] = None /\ Fresh(b)
            /\ buckets' = [buckets EXCEPT ![ip] = b]
            /\ tokens' = [tokens EXCEPT ![b] = PerSecond]
  BY DEF Got
<1>2. TypeOK'
  BY <1>0, <1>1 DEF TypeOK
<1>3. buckets'[ip] = b /\ \A i \in IPs \ {ip} : buckets'[i] = buckets[i]
  BY <1>1 DEF TypeOK
<1>4. /\ held'[h] = b /\ pc'[h] = "allow" /\ client'[h] = ip
      /\ \A g \in Handlers \ {h} : held'[g] = held[g] /\ pc'[g] = pc[g] /\ client'[g] = client[g]
  BY <1>1 DEF TypeOK
\* What it has got is its client's bucket, or nobody's.
<1>5. /\ \A i \in IPs : buckets[i] = b => i = ip
      /\ \A g \in Handlers : pc[g] = "allow" /\ held[g] = b => client[g] = ip /\ buckets[ip] = b
  BY <1>0, <1>1 DEF Ownership, Fresh, Holds
<1>6. /\ age'[b] = 0 /\ \A c \in Buckets : c # b => age'[c] = age[c] /\ tokens'[c] = tokens[c]
      /\ (buckets[ip] = b /\ tokens'[b] = tokens[b]) \/ (buckets[ip] = None /\ tokens'[b] = PerSecond)
  BY <1>1 DEF TypeOK
<1>7. \A g \in Handlers : pc[g] = "allow" => held[g] \in Buckets /\ client[g] \in IPs
  BY DEF Ownership, Busy, TypeOK
<1>8. \A i \in IPs : buckets[i] # None => buckets[i] \in Buckets
  BY DEF TypeOK
<1>9. Ownership'
  <2>1. Busy'
    BY <1>0, <1>4 DEF Ownership, Busy
  <2>2. (\A i, j \in IPs : buckets[i] = buckets[j] /\ buckets[i] # None => i = j)'
    BY <1>3, <1>5 DEF Ownership
  <2>3. (\A g \in Handlers, i \in IPs : pc[g] = "allow" /\ buckets[i] = held[g] => client[g] = i)'
    BY <1>3, <1>4, <1>5 DEF Ownership
  <2>4. (\A f, g \in Handlers :
            pc[f] = "allow" /\ pc[g] = "allow" /\ held[f] = held[g] => client[f] = client[g])'
    BY <1>4, <1>5 DEF Ownership
  <2>5. ASSUME NEW g \in Handlers, pc'[g] = "allow"
        PROVE  held'[g] = buckets'[client'[g]] \/ held'[g] = lost[client'[g]]
    <3>1. CASE g = h
      BY <3>1, <1>3, <1>4
    <3>2. CASE g # h
      <4>1. /\ pc[g] = "allow" /\ client'[g] = client[g] /\ held'[g] = held[g]
            /\ client[g] \in IPs /\ held[g] # None
        BY <3>2, <2>5, <1>4 DEF Ownership, Busy
      <4>2. held[g] = buckets[client[g]] \/ held[g] = lost[client[g]]
        BY <4>1 DEF Ownership
      <4>3. held[g] = buckets[client[g]] => buckets'[client[g]] = buckets[client[g]]
        BY <4>1, <1>3, <1>6
      <4> QED
        BY <4>1, <4>2, <4>3
    <3> QED
      BY <3>1, <3>2
  <2> QED
    BY <2>1, <2>2, <2>3, <2>4, <2>5, <1>1 DEF Ownership
\* Only handlers that strayed before stray now, and what they hold is untouched.
<1>10. ASSUME NEW g \in Handlers, Strays(g)'
       PROVE  /\ Strays(g) /\ client'[g] = client[g] /\ held'[g] = held[g] /\ held[g] # b
              /\ held[g] \in Buckets /\ client[g] \in IPs
              /\ tokens'[held[g]] = tokens[held[g]] /\ age'[held[g]] = age[held[g]]
  <2>1. g # h /\ pc[g] = "allow" /\ client'[g] = client[g] /\ held'[g] = held[g]
    BY <1>3, <1>4, <1>10 DEF Strays
  <2>2. held[g] # b
    BY <2>1, <1>3, <1>5, <1>10 DEF Strays
  <2>3. Strays(g)
    BY <2>1, <2>2, <1>3, <1>6, <1>7, <1>10, <1>0 DEF Strays
  <2> QED
    BY <2>1, <2>2, <2>3, <1>6, <1>7
<1>11. ASSUME NEW i \in IPs PROVE admitted[i] + Left(i)' <= PerSecond + elapsed
  <2>1. admitted[i] + Left(i) <= PerSecond + elapsed
    BY DEF Budget
  <2>2. Left(i)' = Left(i)
    <3>1. CASE i = ip
      BY <3>1, <1>0, <1>3, <1>6 DEF Left
    <3>2. CASE i # ip
      BY <3>2, <1>0, <1>3, <1>5, <1>6, <1>8 DEF Left
    <3> QED
      BY <3>1, <3>2
  <2> QED
    BY <2>1, <2>2
<1>12. Budget'
  <2>1. ASSUME NEW g \in Handlers, Strays(g)'
        PROVE  wasted[client'[g]] + tokens'[held'[g]] <= PerSecond + elapsed
    BY <1>10, <2>1 DEF Budget
  <2> QED
    BY <1>1, <1>11, <2>1 DEF Budget
<1>13. Idleness'
  <2>1. ASSUME NEW g \in Handlers, pc'[g] = "allow" PROVE age'[held'[g]] + PerSecond <= MaxAge
    <3>1. CASE held'[g] = b
      BY <3>1, <1>0, <1>6
    <3>2. CASE held'[g] # b
      BY <3>2, <2>1, <1>4, <1>6, <1>7 DEF Idleness
    <3> QED
      BY <3>1, <3>2
  <2>2. ASSUME NEW c \in Buckets
        PROVE  tokens'[c] = PerSecond \/ age'[c] + PerSecond <= tokens'[c] + MaxAge
    <3>1. CASE c = b
      <4>1. tokens[b] \in Nat /\ tokens'[b] \in Nat
        BY <1>0, <1>6, Numbers
      <4> QED
        BY <3>1, <4>1, <1>0, <1>6
    <3>2. CASE c # b
      BY <3>2, <1>6 DEF Idleness
    <3> QED
      BY <3>1, <3>2
  <2>3. ASSUME doomed # None
        PROVE  buckets'[doomed] # None /\ (~touched' => age'[buckets'[doomed]] > MaxAge)
    <3>1. doomed \in IPs /\ buckets[doomed] \in Buckets
      BY <2>3, <1>8 DEF Idleness, TypeOK
    <3>2. buckets'[doomed] = buckets[doomed]
      BY <3>1, <1>0, <1>3, <1>6
    <3>3. ~touched' => ~touched /\ buckets[doomed] # b
      BY <2>3, <1>1
    <3> QED
      BY <2>3, <3>1, <3>2, <3>3, <1>0, <1>6 DEF Idleness
  <2> QED
    BY <2>1, <2>2, <2>3, <1>1 DEF Idleness
<1>14. Youth'
  <2>1. ASSUME NEW i \in IPs, lost[i] # None
        PROVE  doomed # i /\ (buckets'[i] # None => age'[buckets'[i]] + PerSecond <= MaxAge + elapsed)
    <3>1. CASE i = ip
      BY <3>1, <2>1, <1>0, <1>3, <1>6 DEF Youth
    <3>2. CASE i # ip
      BY <3>2, <2>1, <1>3, <1>5, <1>6, <1>8 DEF Youth
    <3> QED
      BY <3>1, <3>2
  <2>2. ASSUME NEW g \in Handlers, Strays(g)', buckets'[client'[g]] # None
        PROVE  age'[buckets'[client'[g]]] <= age'[held'[g]]
    <3>1. /\ Strays(g) /\ client'[g] = client[g] /\ held'[g] = held[g] /\ client[g] \in IPs
          /\ age'[held[g]] = age[held[g]] /\ age[held[g]] \in Nat
      BY <1>10, <2>2, Numbers
    <3>2. CASE client[g] = ip
      BY <3>1, <3>2, <1>3, <1>6
    <3>3. CASE client[g] # ip
      <4>1. buckets'[client[g]] = buckets[client[g]] /\ buckets[client[g]] # b
        BY <3>1, <3>3, <1>3, <1>5
      <4>2. age'[buckets[client[g]]] = age[buckets[client[g]]]
        BY <2>2, <3>1, <4>1, <1>6, <1>8
      <4> QED
        BY <2>2, <3>1, <4>1, <4>2 DEF Youth
    <3> QED
      BY <3>2, <3>3
  <2> QED
    BY <2>1, <2>2, <1>1 DEF Youth
<1> QED
  BY <1>2, <1>9, <1>12, <1>13, <1>14

\* The handler takes a token of its bucket or of the one its client lost.
LEMMA AllowKeeps ==
    ASSUME LimiterInv, NEW h \in Handlers, Allow(h)
    PROVE  LimiterInv'
<1> USE DEF LimiterInv
<1>0. /\ PerSecond \in Nat /\ PerSecond > 0 /\ MaxAge \in Nat /\ elapsed \in Nat
      /\ client[h] \in IPs /\ held[h] \in Buckets /\ None \notin Buckets /\ None \notin IPs
  BY Numbers DEF Allow, Ownership, Busy, TypeOK
<1>1. /\ pc[h] = "allow"
      /\ pc' = [pc EXCEPT ![h] = "idle"]
      /\ client' = [client EXCEPT ![h] = None] /\ held' = [held EXCEPT ![h] = None]
      /\ UNCHANGED <<buckets, age, toVisit, doomed, elapsed, touched, lost>>
  BY DEF Allow, sweepVars
<1>2. \/ /\ tokens[held[h]] > 0
         /\ tokens' = [tokens EXCEPT ![held[h]] = tokens[held[h]] - 1]
         /\ held[h] = buckets[client[h]]
         /\ admitted' = [admitted EXCEPT ![client[h]] = admitted[client[h]] + 1]
         /\ wasted' = wasted
      \/ /\ tokens[held[h]] > 0
         /\ tokens' = [tokens EXCEPT ![held[h]] = tokens[held[h]] - 1]
         /\ held[h] # buckets[client[h]]
         /\ wasted' = [wasted EXCEPT ![client[h]] = wasted[client[h]] + 1]
         /\ admitted' = admitted
      \/ UNCHANGED <<tokens, admitted, wasted>>
  BY DEF Allow
<1>3. \A b \in Buckets : tokens[b] \in Nat /\ tokens[b] <= PerSecond
  BY Numbers
<1>4. /\ tokens' \in [Buckets -> 0..PerSecond]
      /\ admitted' \in [IPs -> Nat] /\ wasted' \in [IPs -> Nat]
  BY <1>0, <1>2 DEF TypeOK
<1>5. TypeOK'
  BY <1>0, <1>1, <1>4 DEF TypeOK
<1>6. \A g \in Handlers : g # h => pc'[g] = pc[g] /\ client'[g] = client[g] /\ held'[g] = held[g]
  BY <1>1 DEF TypeOK
<1>7. pc'[h] = "idle" /\ held'[h] = None
  BY <1>1 DEF TypeOK
<1>8. Ownership'
  BY <1>1, <1>6, <1>7 DEF Ownership, Busy
<1>9. \A g \in Handlers : Strays(g)' => /\ g # h /\ Strays(g) /\ client[g] \in IPs
                                       /\ held[g] \in Buckets
                                       /\ client'[g] = client[g] /\ held'[g] = held[g]
  BY <1>1, <1>6, <1>7 DEF Strays, Ownership, Busy, TypeOK
<1>10. Youth'
  BY <1>1, <1>9 DEF Youth
<1>11. \A ip \in IPs : buckets[ip] # None => buckets[ip] \in Buckets
  BY DEF TypeOK
<1>12. Idleness'
  <2>1. ASSUME NEW b \in Buckets
        PROVE  tokens'[b] = PerSecond \/ age[b] + PerSecond <= tokens'[b] + MaxAge
    <3>1. CASE b = held[h]
      <4>1. age[b] + PerSecond <= MaxAge /\ tokens'[b] \in Nat /\ age[b] \in Nat
        BY <3>1, <1>1, <1>4, Numbers DEF Idleness
      <4> QED
        BY <4>1, <1>0
    <3>2. CASE b # held[h]
      <4>1. tokens'[b] = tokens[b]
        BY <3>2, <1>2 DEF TypeOK
      <4> QED
        BY <4>1 DEF Idleness
    <3> QED
      BY <3>1, <3>2
  <2> QED
    BY <2>1, <1>1, <1>6, <1>7 DEF Idleness
<1>13. Budget'
  <2>0. /\ \A ip \in IPs : admitted[ip] \in Nat /\ wasted[ip] \in Nat /\ Left(ip) \in Nat
        /\ \A ip \in IPs : admitted[ip] + Left(ip) <= PerSecond + elapsed
        /\ \A g \in Handlers :
              Strays(g) => wasted[client[g]] + tokens[held[g]] <= PerSecond + elapsed
        /\ \A ip \in IPs : wasted[ip] <= 2 * PerSecond /\ (lost[ip] = None => wasted[ip] = 0)
        /\ elapsed <= PerSecond
    BY <1>0, <1>3, <1>11, Numbers DEF Budget, Left
  <2>1. CASE UNCHANGED <<tokens, admitted, wasted>>
    BY <2>1, <1>1, <1>9 DEF Budget, Left
  <2>2. CASE /\ tokens[held[h]] > 0
             /\ tokens' = [tokens EXCEPT ![held[h]] = tokens[held[h]] - 1]
             /\ held[h] = buckets[client[h]]
             /\ admitted' = [admitted EXCEPT ![client[h]] = admitted[client[h]] + 1]
             /\ wasted' = wasted
    <3>1. ASSUME NEW ip \in IPs PROVE admitted'[ip] + Left(ip)' <= PerSecond + elapsed
      <4>1. CASE ip = client[h]
        <5>1. /\ admitted'[ip] = admitted[ip] + 1 /\ tokens'[held[h]] = tokens[held[h]] - 1
              /\ buckets'[ip] = held[h] /\ held[h] # None
          BY <4>1, <2>2, <1>0, <1>1 DEF TypeOK
        <5>2. Left(ip) = tokens[held[h]] /\ Left(ip)' = tokens[held[h]] - 1
          BY <4>1, <2>2, <5>1 DEF Left
        <5> QED
          BY <5>1, <5>2, <2>0, <1>0, <1>3
      <4>2. CASE ip # client[h]
        <5>1. buckets[ip] # held[h] /\ admitted'[ip] = admitted[ip]
          BY <4>2, <2>2, <1>1 DEF Ownership, TypeOK
        <5>2. Left(ip)' = Left(ip)
          BY <5>1, <2>2, <1>1, <1>11 DEF Left, TypeOK
        <5> QED
          BY <5>1, <5>2, <2>0
      <4> QED
        BY <4>1, <4>2
    <3>2. ASSUME NEW g \in Handlers, Strays(g)'
          PROVE  wasted'[client'[g]] + tokens'[held'[g]] <= PerSecond + elapsed
      <4>1. /\ Strays(g) /\ client'[g] = client[g] /\ held'[g] = held[g] /\ held[g] \in Buckets
            /\ client[g] \in IPs
        BY <1>9, <3>2
      <4>2. held[g] # held[h]
        BY <4>1, <2>2, <1>1 DEF Strays, Ownership
      <4>3. tokens'[held[g]] = tokens[held[g]]
        BY <4>1, <4>2, <2>2 DEF TypeOK
      <4> QED
        BY <4>1, <4>3, <2>0, <2>2
    <3> QED
      BY <3>1, <3>2, <2>0, <2>2, <1>1 DEF Budget
  <2>3. CASE /\ tokens[held[h]] > 0
             /\ tokens' = [tokens EXCEPT ![held[h]] = tokens[held[h]] - 1]
             /\ held[h] # buckets[client[h]]
             /\ wasted' = [wasted EXCEPT ![client[h]] = wasted[client[h]] + 1]
             /\ admitted' = admitted
    <3>0. /\ wasted'[client[h]] = wasted[client[h]] + 1
          /\ tokens'[held[h]] = tokens[held[h]] - 1
          /\ \A b \in Buckets : b # held[h] => tokens'[b] = tokens[b]
          /\ \A ip \in IPs : ip # client[h] => wasted'[ip] = wasted[ip]
          /\ Strays(h)
      BY <2>3, <1>0, <1>1 DEF TypeOK, Strays
    <3>1. ASSUME NEW ip \in IPs PROVE admitted'[ip] + Left(ip)' <= PerSecond + elapsed
      <4>1. buckets[ip] # held[h]
        BY <2>3, <1>1 DEF Ownership
      <4>2. Left(ip)' = Left(ip)
        BY <4>1, <3>0, <1>1, <1>11 DEF Left
      <4> QED
        BY <4>2, <2>0, <2>3
    <3>2. ASSUME NEW g \in Handlers, Strays(g)'
          PROVE  wasted'[client'[g]] + tokens'[held'[g]] <= PerSecond + elapsed
      <4>1. /\ Strays(g) /\ client'[g] = client[g] /\ held'[g] = held[g] /\ held[g] \in Buckets
            /\ client[g] \in IPs /\ tokens[held[g]] \in Nat /\ wasted[client[g]] \in Nat
            /\ wasted[client[g]] + tokens[held[g]] <= PerSecond + elapsed
        BY <1>3, <1>9, <2>0, <3>2
\* Two requests that stray from one client hold the one bucket it has lost.
      <4>2. client[g] = client[h] <=> held[g] = held[h]
        BY <4>1, <3>0, <1>1 DEF Strays, Ownership
      <4>3. CASE client[g] = client[h]
        BY <4>1, <4>2, <4>3, <3>0, <1>0
      <4>4. CASE client[g] # client[h]
        BY <4>1, <4>2, <4>4, <3>0
      <4> QED
        BY <4>3, <4>4
    <3>3. ASSUME NEW ip \in IPs
          PROVE  wasted'[ip] <= 2 * PerSecond /\ (lost[ip] = None => wasted'[ip] = 0)
      <4>1. CASE ip = client[h]
        <5>1. lost[ip] # None
          BY <4>1, <3>0, <1>0 DEF Strays, Ownership
        <5>2. wasted[ip] + tokens[held[h]] <= PerSecond + elapsed
          BY <4>1, <3>0, <2>0
        <5>3. wasted'[ip] <= PerSecond + elapsed
          BY <4>1, <5>2, <3>0, <2>0, <2>3, <1>0, <1>3
        <5> QED
          BY <4>1, <5>1, <5>3, <3>0, <2>0, <1>0
      <4>2. CASE ip # client[h]
        BY <4>2, <3>0, <2>0
      <4> QED
        BY <4>1, <4>2
    <3> QED
      BY <3>1, <3>2, <3>3, <1>1 DEF Budget
  <2> QED
    BY <2>1, <2>2, <2>3, <1>2
<1> QED
  BY <1>5, <1>8, <1>10, <1>12, <1>13

\* The sweep deletes a bucket: a full one, or one in use, which is then the only
\* one its client has lost.
LEMMA EvictKeeps ==
    ASSUME LimiterInv, Evict
    PROVE  LimiterInv'
<1> USE DEF LimiterInv
<1> DEFINE b == buckets[doomed]
<1>0. /\ PerSecond \in Nat /\ PerSecond > 0 /\ MaxAge \in Nat /\ elapsed \in Nat
      /\ elapsed <= PerSecond /\ None \notin Buckets /\ None \notin IPs
  BY Numbers
<1>1. /\ doomed \in IPs /\ doomed # None
      /\ buckets' = [buckets EXCEPT ![doomed] = None]
      /\ doomed' = None /\ touched' = FALSE
      /\ UNCHANGED <<tokens, age, pc, client, held, toVisit, elapsed>>
  BY DEF Evict, TypeOK, handlerVars
<1>2. b \in Buckets /\ lost[doomed] = None /\ wasted[doomed] = 0
  BY <1>0, <1>1 DEF Idleness, Youth, Budget, TypeOK
<1>3. \/ /\ lost' = [lost EXCEPT ![doomed] = b]
         /\ wasted' = [wasted EXCEPT ![doomed] = wasted[doomed] + admitted[doomed]]
         /\ admitted' = [admitted EXCEPT ![doomed] = 0]
      \/ /\ ~touched /\ \A h \in Handlers : held[h] # b
         /\ UNCHANGED <<lost, wasted, admitted>>
  BY DEF Evict, Holds
<1> HIDE DEF b
<1>4. TypeOK'
  <2>1. /\ admitted' \in [IPs -> Nat] /\ wasted' \in [IPs -> Nat]
        /\ lost' \in [IPs -> Buckets \cup {None}]
    BY <1>2, <1>3 DEF TypeOK
  <2> QED
    BY <1>1, <2>1 DEF TypeOK
<1>5. buckets'[doomed] = None /\ \A i \in IPs : i # doomed => buckets'[i] = buckets[i]
  BY <1>1 DEF TypeOK
<1>6. \A i \in IPs : i # doomed => /\ lost'[i] = lost[i] /\ wasted'[i] = wasted[i]
                                  /\ admitted'[i] = admitted[i]
  BY <1>1, <1>3 DEF TypeOK
\* Every request of this client that holds a bucket held the one under its key.
<1>7. \A h \in Handlers :
         pc[h] = "allow" /\ client[h] = doomed => held[h] = b /\ lost'[doomed] = b
  <2> SUFFICES ASSUME NEW h \in Handlers, pc[h] = "allow", client[h] = doomed
               PROVE  held[h] = b /\ lost'[doomed] = b
    OBVIOUS
  <2>1. held[h] = b
    BY <1>2 DEF b, Ownership, Busy
  <2> QED
    BY <2>1, <1>1, <1>3 DEF TypeOK
<1>8. \A h \in Handlers : pc[h] = "allow" => client[h] \in IPs /\ held[h] \in Buckets
  BY DEF Ownership, Busy, TypeOK
<1>9. Ownership'
  <2>1. ASSUME NEW h \in Handlers, pc[h] = "allow"
        PROVE  held[h] = buckets'[client[h]] \/ held[h] = lost'[client[h]]
    BY <2>1, <1>5, <1>6, <1>7, <1>8 DEF Ownership
  <2>2. ASSUME NEW h \in Handlers, NEW i \in IPs, pc[h] = "allow", buckets'[i] = held[h]
        PROVE  client[h] = i
    BY <2>2, <1>0, <1>5, <1>8 DEF Ownership
  <2>3. (\A i, j \in IPs : buckets[i] = buckets[j] /\ buckets[i] # None => i = j)'
    BY <1>5 DEF Ownership
  <2> QED
    BY <2>1, <2>2, <2>3, <1>1 DEF Ownership, Busy
<1>10. admitted[doomed] \in Nat /\ tokens[b] \in Nat /\ tokens[b] <= PerSecond
       /\ admitted[doomed] + tokens[b] <= PerSecond + elapsed /\ age[b] \in Nat
  BY <1>0, <1>1, <1>2, Numbers DEF Budget, Left, b
<1>11. Budget'
  <2>1. ASSUME NEW ip \in IPs PROVE admitted'[ip] + Left(ip)' <= PerSecond + elapsed
    <3>1. CASE ip = doomed
      <4>1. Left(ip)' = PerSecond
        BY <3>1, <1>5 DEF Left
      <4>2. CASE admitted' = [admitted EXCEPT ![doomed] = 0]
        BY <3>1, <4>1, <4>2, <1>0 DEF TypeOK
      <4>3. CASE ~touched /\ UNCHANGED <<lost, wasted, admitted>>
        <5>1. tokens[b] = PerSecond
          BY <4>3, <1>0, <1>1, <1>2, <1>10 DEF Idleness, b
        <5> QED
          BY <3>1, <4>1, <4>3, <5>1, <1>10
      <4> QED
        BY <4>2, <4>3, <1>3
    <3>2. CASE ip # doomed
      BY <3>2, <1>1, <1>5, <1>6 DEF Budget, Left
    <3> QED
      BY <3>1, <3>2
  <2>2. ASSUME NEW h \in Handlers, Strays(h)'
        PROVE  wasted'[client[h]] + tokens[held[h]] <= PerSecond + elapsed
    <3>1. pc[h] = "allow"
      BY <2>2, <1>1 DEF Strays
    <3>2. CASE client[h] = doomed
      <4>1. held[h] = b /\ lost'[doomed] = b
        BY <3>1, <3>2, <1>7
      <4>2. wasted'[doomed] = admitted[doomed]
        BY <4>1, <1>1, <1>2, <1>3, <1>10, <3>1 DEF TypeOK
      <4> QED
        BY <3>2, <4>1, <4>2, <1>10
    <3>3. CASE client[h] # doomed
      <4>1. Strays(h)
        BY <2>2, <3>1, <3>3, <1>1, <1>5, <1>8 DEF Strays
      <4> QED
        BY <4>1, <3>1, <3>3, <1>6, <1>8 DEF Budget
    <3> QED
      BY <3>2, <3>3
  <2>3. ASSUME NEW ip \in IPs
        PROVE  wasted'[ip] <= 2 * PerSecond /\ (lost'[ip] = None => wasted'[ip] = 0)
    <3>1. CASE ip = doomed
      <4>1. CASE UNCHANGED <<lost, wasted, admitted>>
        BY <4>1, <3>1 DEF Budget
      <4>2. CASE /\ lost' = [lost EXCEPT ![doomed] = b]
                 /\ wasted' = [wasted EXCEPT ![doomed] = wasted[doomed] + admitted[doomed]]
        <5>1. lost'[ip] = b /\ wasted'[ip] = admitted[doomed]
          BY <3>1, <4>2, <1>2, <1>10 DEF TypeOK
        <5> QED
          BY <5>1, <1>0, <1>2, <1>10
      <4> QED
        BY <4>1, <4>2, <1>3
    <3>2. CASE ip # doomed
      BY <3>2, <1>6 DEF Budget
    <3> QED
      BY <3>1, <3>2
  <2> QED
    BY <2>1, <2>2, <2>3, <1>1 DEF Budget
<1>12. Idleness'
  BY <1>1 DEF Idleness
<1>13. Youth'
  <2>1. ASSUME NEW ip \in IPs, lost'[ip] # None
        PROVE  /\ doomed' # ip
               /\ buckets'[ip] # None => age[buckets'[ip]] + PerSecond <= MaxAge + elapsed
    BY <2>1, <1>0, <1>1, <1>5, <1>6 DEF Youth
  <2>2. ASSUME NEW h \in Handlers, Strays(h)', buckets'[client[h]] # None
        PROVE  age[buckets'[client[h]]] <= age[held[h]]
    BY <2>2, <1>1, <1>5, <1>8 DEF Youth, Strays
  <2> QED
    BY <2>1, <2>2, <1>1 DEF Youth
<1> QED
  BY <1>4, <1>9, <1>11, <1>12, <1>13

\* Time passes, with or without requests being counted anew.
LEMMA TickKeeps ==
    ASSUME LimiterInv, Tick
    PROVE  LimiterInv'
<1> USE DEF LimiterInv
<1>0. /\ PerSecond \in Nat /\ PerSecond > 0 /\ MaxAge \in Nat /\ MaxAge > PerSecond
      /\ elapsed \in Nat /\ elapsed <= PerSecond /\ None \notin Buckets /\ None \notin IPs
  BY Numbers
<1>1. /\ \A h \in Handlers : held[h] # None => age[held[h]] + PerSecond < MaxAge
      /\ tokens' = [b \in Buckets |-> IF Fresh(b) \/ tokens[b] = PerSecond
                                      THEN PerSecond ELSE tokens[b] + 1]
      /\ age' = [b \in Buckets |-> CASE Fresh(b) -> 0
                                    [] ~Fresh(b) /\ age[b] > MaxAge -> age[b]
                                    [] OTHER -> age[b] + 1]
      /\ UNCHANGED <<buckets, pc, client, held, toVisit, doomed, touched>>
  BY DEF Tick, handlerVars, sweepVars
<1>2. \/ /\ elapsed < PerSecond /\ elapsed' = elapsed + 1
         /\ UNCHANGED <<admitted, wasted, lost>>
      \/ /\ elapsed' = 0
         /\ admitted' = [ip \in IPs |-> 0] /\ wasted' = [ip \in IPs |-> 0]
         /\ lost' = [ip \in IPs |-> IF Orphaned(ip) THEN lost[ip] ELSE None]
  BY DEF Tick
<1>3. ASSUME NEW b \in Buckets
      PROVE  /\ age'[b] \in Nat /\ age'[b] <= MaxAge + 1 /\ age'[b] <= age[b] + 1
             /\ age[b] > MaxAge /\ ~Fresh(b) => age'[b] = age[b]
             /\ age[b] < MaxAge /\ ~Fresh(b) => age'[b] = age[b] + 1
             /\ tokens'[b] \in Nat /\ tokens'[b] <= PerSecond /\ tokens'[b] >= tokens[b]
             /\ ~Fresh(b) => tokens'[b] <= tokens[b] + 1
             /\ tokens'[b] = PerSecond \/ age'[b] + PerSecond <= tokens'[b] + MaxAge
  <2>1. age[b] \in Nat /\ age[b] <= MaxAge + 1 /\ tokens[b] \in Nat /\ tokens[b] <= PerSecond
    BY Numbers
  <2>2. tokens[b] = PerSecond \/ age[b] + PerSecond <= tokens[b] + MaxAge
    BY DEF Idleness
  <2>3. CASE Fresh(b)
    <3>1. age'[b] = 0 /\ tokens'[b] = PerSecond
      BY <2>3, <1>1
    <3> QED
      BY <2>1, <2>3, <3>1, <1>0
  <2>4. CASE ~Fresh(b)
    <3>1. tokens'[b] = IF tokens[b] = PerSecond THEN PerSecond ELSE tokens[b] + 1
      BY <2>4, <1>1
    <3>2. CASE age[b] > MaxAge
      <4>1. age'[b] = age[b]
        BY <2>4, <3>2, <1>1
      <4> QED
        BY <2>1, <2>2, <2>4, <3>1, <3>2, <4>1, <1>0
    <3>3. CASE ~(age[b] > MaxAge)
      <4>1. age'[b] = age[b] + 1
        BY <2>4, <3>3, <1>1
      <4> QED
        BY <2>1, <2>2, <2>4, <3>1, <3>3, <4>1, <1>0
    <3> QED
      BY <3>2, <3>3
  <2> QED
    BY <2>3, <2>4
<1>4. TypeOK'
  <2>1. age' \in [Buckets -> 0..(MaxAge + 1)] /\ tokens' \in [Buckets -> 0..PerSecond]
    <3>1. \A b \in Buckets : age'[b] \in 0..(MaxAge + 1) /\ tokens'[b] \in 0..PerSecond
      BY <1>0, <1>3
    <3> QED
      BY <1>1, <3>1
  <2>2. /\ elapsed' \in 0..PerSecond /\ admitted' \in [IPs -> Nat] /\ wasted' \in [IPs -> Nat]
        /\ lost' \in [IPs -> Buckets \cup {None}]
    BY <1>0, <1>2 DEF TypeOK
  <2> QED
    BY <1>1, <2>1, <2>2 DEF TypeOK
<1>5. \A h \in Handlers : pc[h] = "allow" => /\ held[h] \in Buckets /\ client[h] \in IPs
                                            /\ ~Fresh(held[h]) /\ held[h] # None
                                            /\ age[held[h]] + PerSecond < MaxAge
                                            /\ age[held[h]] \in Nat /\ tokens[held[h]] \in Nat
                                            /\ age'[held[h]] = age[held[h]] + 1
                                            /\ tokens'[held[h]] \in Nat
                                            /\ tokens'[held[h]] <= PerSecond
                                            /\ tokens'[held[h]] <= tokens[held[h]] + 1
  <2> SUFFICES ASSUME NEW h \in Handlers, pc[h] = "allow"
               PROVE  /\ held[h] \in Buckets /\ client[h] \in IPs
                      /\ ~Fresh(held[h]) /\ held[h] # None
                      /\ age[held[h]] + PerSecond < MaxAge
                      /\ age[held[h]] \in Nat /\ tokens[held[h]] \in Nat
                      /\ age'[held[h]] = age[held[h]] + 1
                      /\ tokens'[held[h]] \in Nat
                      /\ tokens'[held[h]] <= PerSecond
                      /\ tokens'[held[h]] <= tokens[held[h]] + 1
    OBVIOUS
  <2>1. held[h] \in Buckets /\ client[h] \in IPs /\ held[h] # None
    BY <1>0 DEF Ownership, Busy, TypeOK
  <2>2. ~Fresh(held[h])
    BY DEF Fresh, Holds
  <2>3. age[held[h]] + PerSecond < MaxAge
    BY <1>1, <2>1
  <2>4. age[held[h]] \in Nat /\ tokens[held[h]] \in Nat
    BY <2>1, Numbers
  <2>5. age[held[h]] < MaxAge
    BY <2>3, <2>4, <1>0
  <2> QED
    BY <1>3, <2>1, <2>2, <2>3, <2>4, <2>5
<1>6. \A ip \in IPs : buckets[ip] # None => buckets[ip] \in Buckets /\ ~Fresh(buckets[ip])
  BY DEF TypeOK, Fresh
<1>7. \A ip \in IPs : lost'[ip] # None => lost'[ip] = lost[ip]
  BY <1>2 DEF TypeOK
<1>8. \A h \in Handlers : Strays(h) => Orphaned(client[h]) /\ lost'[client[h]] = lost[client[h]]
  BY <1>2, <1>5 DEF Strays, Orphaned
<1>9. \A h \in Handlers : pc[h] = "allow" /\ ~Strays(h) => held[h] = buckets[client[h]]
  BY DEF Strays
<1>10. Ownership'
  <2>1. ASSUME NEW h \in Handlers, pc[h] = "allow"
        PROVE  held[h] = buckets[client[h]] \/ held[h] = lost'[client[h]]
    BY <2>1, <1>8, <1>9 DEF Ownership
  <2> QED
    BY <2>1, <1>1 DEF Ownership, Busy
<1>11. \A h \in Handlers : Strays(h)' <=> Strays(h)
  BY <1>1 DEF Strays
<1>12. Budget'
  <2>1. ASSUME NEW ip \in IPs PROVE admitted'[ip] + Left(ip)' <= PerSecond + elapsed'
    <3>1. /\ admitted[ip] \in Nat /\ Left(ip) \in Nat /\ Left(ip)' \in Nat
          /\ admitted[ip] + Left(ip) <= PerSecond + elapsed
      BY <1>0, <1>1, <1>3, <1>6, Numbers DEF Budget, Left
    <3>2. Left(ip)' <= PerSecond /\ Left(ip)' <= Left(ip) + 1
      <4>1. CASE buckets[ip] = None
        BY <4>1, <1>0, <1>1 DEF Left
      <4>2. CASE buckets[ip] # None
        BY <4>2, <1>1, <1>3, <1>6 DEF Left
      <4> QED
        BY <4>1, <4>2
    <3>3. CASE elapsed < PerSecond /\ elapsed' = elapsed + 1 /\ UNCHANGED <<admitted, wasted, lost>>
      BY <3>1, <3>2, <3>3, <1>0
    <3>4. CASE elapsed' = 0 /\ admitted' = [i \in IPs |-> 0]
      BY <3>1, <3>2, <3>4, <1>0
    <3> QED
      BY <3>3, <3>4, <1>2
  <2>2. ASSUME NEW h \in Handlers, Strays(h)'
        PROVE  wasted'[client[h]] + tokens'[held[h]] <= PerSecond + elapsed'
    <3>1. Strays(h) /\ pc[h] = "allow" /\ client[h] \in IPs
      BY <2>2, <1>5, <1>11 DEF Strays
    <3>2. /\ wasted[client[h]] \in Nat /\ tokens[held[h]] \in Nat /\ tokens'[held[h]] \in Nat
          /\ wasted[client[h]] + tokens[held[h]] <= PerSecond + elapsed
          /\ tokens'[held[h]] <= PerSecond /\ tokens'[held[h]] <= tokens[held[h]] + 1
      BY <3>1, <1>5, Numbers DEF Budget
    <3>3. CASE elapsed < PerSecond /\ elapsed' = elapsed + 1 /\ UNCHANGED <<admitted, wasted, lost>>
      BY <3>2, <3>3, <1>0
    <3>4. CASE elapsed' = 0 /\ wasted' = [i \in IPs |-> 0]
      BY <3>1, <3>2, <3>4, <1>0
    <3> QED
      BY <3>3, <3>4, <1>2
  <2>3. ASSUME NEW ip \in IPs
        PROVE  wasted'[ip] <= 2 * PerSecond /\ (lost'[ip] = None => wasted'[ip] = 0)
    BY <1>0, <1>2 DEF Budget
  <2> QED
    BY <2>1, <2>2, <2>3, <1>1 DEF Budget
<1>13. Idleness'
  <2>1. ASSUME NEW h \in Handlers, pc[h] = "allow" PROVE age'[held[h]] + PerSecond <= MaxAge
    BY <2>1, <1>0, <1>5
  <2>2. ASSUME doomed # None
        PROVE  buckets[doomed] # None /\ (~touched => age'[buckets[doomed]] > MaxAge)
    BY <2>2, <1>3, <1>6 DEF Idleness, TypeOK
  <2> QED
    BY <2>1, <2>2, <1>1, <1>3 DEF Idleness
<1>14. Youth'
  <2>1. ASSUME NEW ip \in IPs, lost'[ip] # None
        PROVE  /\ doomed # ip
               /\ buckets[ip] # None => age'[buckets[ip]] + PerSecond <= MaxAge + elapsed'
    <3>1. lost[ip] # None
      BY <2>1, <1>7
    <3>2. doomed # ip /\ (buckets[ip] # None => age[buckets[ip]] + PerSecond <= MaxAge + elapsed)
      BY <3>1 DEF Youth
    <3>3. ASSUME buckets[ip] # None PROVE age'[buckets[ip]] + PerSecond <= MaxAge + elapsed'
      <4>1. /\ age[buckets[ip]] \in Nat /\ age'[buckets[ip]] \in Nat
            /\ age'[buckets[ip]] <= age[buckets[ip]] + 1
        BY <3>3, <1>3, <1>6, Numbers
      <4>2. CASE elapsed' = elapsed + 1
        BY <3>2, <3>3, <4>1, <4>2, <1>0
\* Counting starts anew while a request still strays: it is older than the new bucket.
      <4>3. CASE elapsed' = 0 /\ Orphaned(ip)
        <5>1. PICK h \in Handlers : client[h] = ip /\ held[h] # None /\ held[h] # buckets[ip]
          BY <4>3 DEF Orphaned
        <5>2. Strays(h) /\ pc[h] = "allow"
          BY <5>1 DEF Strays, Ownership, Busy
        <5>3. age[buckets[ip]] <= age[held[h]]
          BY <3>3, <5>1, <5>2 DEF Youth
        <5>4. age[held[h]] + PerSecond < MaxAge /\ age[held[h]] \in Nat
          BY <5>2, <1>5
        <5> QED
          BY <4>1, <4>3, <5>3, <5>4, <1>0
      <4> QED
        BY <4>2, <4>3, <1>2, <2>1
    <3> QED
      BY <3>2, <3>3
  <2>2. ASSUME NEW h \in Handlers, Strays(h)', buckets[client[h]] # None
        PROVE  age'[buckets[client[h]]] <= age'[held[h]]
    <3>1. Strays(h) /\ pc[h] = "allow" /\ client[h] \in IPs
      BY <2>2, <1>5, <1>11 DEF Strays
    <3>2. age[buckets[client[h]]] <= age[held[h]] /\ age'[held[h]] = age[held[h]] + 1
          /\ age[held[h]] \in Nat
      BY <2>2, <3>1, <1>5 DEF Youth
    <3>3. /\ age'[buckets[client[h]]] <= age[buckets[client[h]]] + 1
          /\ age[buckets[client[h]]] \in Nat /\ age'[buckets[client[h]]] \in Nat
      BY <2>2, <3>1, <1>3, <1>6, Numbers
    <3> QED
      BY <3>2, <3>3
  <2> QED
    BY <2>1, <2>2, <1>1 DEF Youth
<1> QED
  BY <1>4, <1>10, <1>12, <1>13, <1>14

\* A step that moves nothing but a handler that found no bucket, or the sweep to
\* its next key.
LEMMA OthersKeep ==
    ASSUME LimiterInv,
           \/ \E h \in Handlers, ip \in IPs : LoadMiss(h, ip)
           \/ BeginSweep \/ \E ip \in IPs : Visit(ip)
    PROVE  LimiterInv'
<1> USE DEF LimiterInv, handlerVars, sweepVars, secondVars
<1>0. None \notin IPs
  BY LimiterAssumption
<1>1. ASSUME NEW h \in Handlers, NEW ip \in IPs, LoadMiss(h, ip) PROVE LimiterInv'
  <2>1. /\ pc[h] # "allow" /\ pc'[h] # "allow"
        /\ \A g \in Handlers : g # h => pc'[g] = pc[g] /\ client'[g] = client[g]
        /\ pc'[h] # "idle" => client'[h] \in IPs
        /\ UNCHANGED <<buckets, tokens, age, held, toVisit, doomed, elapsed, admitted, wasted,
                      touched, lost>>
    BY <1>1 DEF LoadMiss, TypeOK, Ownership, Busy
  <2>2. TypeOK'
    BY <1>1 DEF LoadMiss, TypeOK
  <2>3. Ownership'
    BY <2>1 DEF Ownership, Busy
  <2>4. Budget' /\ Idleness' /\ Youth'
    BY <2>1 DEF Budget, Left, Strays, Idleness, Youth
  <2> QED
    BY <2>2, <2>3, <2>4
<1>2. CASE BeginSweep
  BY <1>2 DEF BeginSweep, TypeOK, Ownership, Busy, Budget, Left, Strays, Idleness, Youth
<1>3. ASSUME NEW ip \in IPs, Visit(ip) PROVE LimiterInv'
  <2>1. TypeOK'
    BY <1>3 DEF Visit, TypeOK
  <2>2. Ownership' /\ Budget'
    BY <1>3 DEF Visit, Ownership, Busy, Budget, Left, Strays
  <2>3. /\ doomed' # None => doomed' = ip /\ buckets[ip] # None /\ age[buckets[ip]] > MaxAge
        /\ UNCHANGED <<buckets, tokens, age, pc, client, held, elapsed, lost>>
    BY <1>0, <1>3 DEF Visit
  <2>4. Idleness'
    BY <2>3 DEF Idleness
\* A client that has lost a bucket has none that is idle.
  <2>5. ASSUME doomed' = ip, lost[ip] # None PROVE FALSE
    <3>1. /\ age[buckets[ip]] + PerSecond <= MaxAge + elapsed /\ age[buckets[ip]] > MaxAge
          /\ buckets[ip] \in Buckets
      BY <1>0, <2>3, <2>5 DEF Youth, TypeOK
    <3> QED
      BY <3>1, Numbers
  <2>6. Youth'
    BY <1>0, <2>3, <2>5 DEF Youth, Strays
  <2> QED
    BY <2>1, <2>2, <2>4, <2>6
<1> QED
  BY <1>1, <1>2, <1>3

\* The invariant is inductive.
LEMMA LimiterNext == ASSUME LimiterInv, [Next]_vars PROVE LimiterInv'
<1>1. CASE UNCHANGED vars
  BY <1>1 DEF vars, handlerVars, sweepVars, secondVars, LimiterInv, TypeOK, Ownership, Busy,
              Budget, Left, Strays, Idleness, Youth
<1>2. ASSUME NEW h \in Handlers, LoadOrStore(h) \/ \E ip \in IPs : LoadHit(h, ip)
      PROVE  LimiterInv'
  BY <1>2, BothGet, GotKeeps DEF LimiterInv, Ownership
<1>3. ASSUME NEW h \in Handlers, Allow(h) PROVE LimiterInv'
  BY <1>3, AllowKeeps
<1>4. CASE Tick
  BY <1>4, TickKeeps
<1>5. CASE Evict
  BY <1>5, EvictKeeps
<1> QED
  BY <1>1, <1>2, <1>3, <1>4, <1>5, OthersKeep DEF Next, Handle, Arrive, Sweep

\* The state of the limiter keeps its shape: tokens never exceed the burst.
THEOREM LimiterTypeTheorem == Spec => []TypeOK
<1>1. LimiterInv => TypeOK
  BY DEF LimiterInv
<1> QED
  BY <1>1, LimiterInit, LimiterNext, PTL DEF Spec

\* No bucket serves two clients, and concurrent requests of a client share its
\* bucket unless the sweep took it from under them.
THEOREM OneBucketTheorem == Spec => []OneBucketPerClient
<1>1. LimiterInv => OneBucketPerClient
  BY LimiterAssumption DEF LimiterInv, Ownership, Busy, OneBucketPerClient
<1> QED
  BY <1>1, LimiterInit, LimiterNext, PTL DEF Spec

\* A client gets at most twice the rate in any second, in which its bucket may be
\* full to begin with and is refilled all along, if the sweep takes no bucket in
\* use from it.
THEOREM BudgetTheorem == Spec => []BudgetUnlessStale
<1>1. LimiterInv => BudgetUnlessStale
  <2> SUFFICES ASSUME LimiterInv, NEW ip \in IPs, lost[ip] = None
               PROVE  admitted[ip] + wasted[ip] <= 2 * PerSecond
    BY DEF BudgetUnlessStale
  <2>1. /\ admitted[ip] + Left(ip) <= PerSecond + elapsed /\ wasted[ip] = 0
        /\ Left(ip) \in Nat
    BY Numbers DEF LimiterInv, Budget, Left, TypeOK
  <2> QED
    BY <2>1, Numbers DEF LimiterInv
<1> QED
  BY <1>1, LimiterInit, LimiterNext, PTL DEF Spec

\* Deleting a bucket in use, the race the code accepts, never gives a client more
\* than one bucket more in a second, however often clients and the sweep meet.
THEOREM StaleTheorem == Spec => []StaleCostsOneBucket
<1>1. LimiterInv => StaleCostsOneBucket
  <2> SUFFICES ASSUME LimiterInv, NEW ip \in IPs
               PROVE  admitted[ip] + wasted[ip] <= 4 * PerSecond
    BY DEF StaleCostsOneBucket
  <2>1. /\ admitted[ip] + Left(ip) <= PerSecond + elapsed /\ wasted[ip] <= 2 * PerSecond
        /\ Left(ip) \in Nat
    BY Numbers DEF LimiterInv, Budget, Left, TypeOK
  <2> QED
    BY <2>1, Numbers DEF LimiterInv
<1> QED
  BY <1>1, LimiterInit, LimiterNext, PTL DEF Spec
=============================================================================
