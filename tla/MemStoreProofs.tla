-------------------------- MODULE MemStoreProofs --------------------------
(***************************************************************************)
(* Facts the components above the risk model and the store share: scores,  *)
(* severities and the pipeline's decision, for every score and every rule  *)
(* weight; the trimming of a history; the counters Add maintains.          *)
(***************************************************************************)
EXTENDS MemStore, SequenceTheorems, TLAPS

\* SeverityFromScore and IsFlagged draw the same line: flagged is medium and
\* above, and a NaN score is low and not flagged.
LEMMA SeverityMatchesFlag ==
    ASSUME NEW s \in ScoreValue
    PROVE  /\ SeverityFromScore(s) \in Severities
           /\ AtLeast(s, ThresholdFlagged) <=> SeverityFromScore(s) # "low"
BY NaNAssumption DEF ScoreValue, Scale, SeverityFromScore, Severities, AtLeast, ThresholdFlagged

\* The blend stays between the score it starts from and the maximum.
LEMMA BlendRange ==
    ASSUME NEW s \in 0..Scale, NEW w \in 1..Scale
    PROVE  Blend(s, w) \in s..Scale
<1>1. s \in 0..100 /\ w \in 1..100
  BY DEF Scale
<1>2. w * (100 - s) \in Int /\ w * (100 - s) >= 0 /\ w * (100 - s) <= 100 * (100 - s)
  <2>1. \A m \in Nat : m * w <= m * 100 /\ m * w >= 0
    BY <1>1
  <2>2. 100 - s \in Nat
    BY <1>1
  <2> QED BY <1>1, <2>1, <2>2
<1>3. (w * (100 - s)) \div 100 \in 0..(100 - s)
  <2> DEFINE x == w * (100 - s)
  <2>1. x \in Int /\ x >= 0 /\ x <= 100 * (100 - s)
    BY <1>2
  <2> HIDE DEF x
  <2>2. x \div 100 \in 0..(100 - s)
    BY <1>1, <2>1
  <2> QED BY <2>2 DEF x
<1> QED
  BY <1>1, <1>3, NaNAssumption DEF Blend, Scale

\* Decide keeps severity and score consistent, and never answers a blocked
\* transaction with less than the maximal score.
LEMMA DecideConsistent ==
    ASSUME NEW s \in ScoreValue, NEW w \in Int, w <= Scale,
           NEW blocked \in BOOLEAN, NEW review \in BOOLEAN, NEW brokenFit \in BOOLEAN
    PROVE  LET o == Decide(s, w, blocked, review, brokenFit)
           IN  /\ o \in Outcomes
               /\ o.risk.severity = SeverityFromScore(o.risk.score)
               /\ blocked => o.risk.score = Scale
<1> DEFINE a == ApplyFlagWeight(s, w)
<1>1. a \in RiskScore /\ a.severity = SeverityFromScore(a.score)
  <2>1. CASE w > 0 /\ s # NaN
    <3>1. s \in 0..Scale /\ w \in 1..Scale
      BY <2>1 DEF ScoreValue, Scale
    <3>2. Blend(s, w) \in ScoreValue
      <4>1. Blend(s, w) \in s..Scale
        BY <3>1, BlendRange
      <4> QED BY <3>1, <4>1 DEF ScoreValue, Scale
    <3> QED BY <2>1, <3>2, SeverityMatchesFlag DEF ApplyFlagWeight, RiskScore
  <2>2. CASE w > 0 /\ s = NaN
    BY <2>2, SeverityMatchesFlag DEF ApplyFlagWeight, RiskScore, Blend
  <2>3. CASE ~(w > 0)
    BY <2>3, SeverityMatchesFlag DEF ApplyFlagWeight, RiskScore
  <2> QED BY <2>1, <2>2, <2>3
<1> DEFINE r == Override(a, blocked)
<1>2. /\ r \in RiskScore
      /\ r.severity = SeverityFromScore(r.score)
      /\ blocked => r.score = Scale
  <2> HIDE DEF a
  <2>1. SeverityFromScore(100) = "critical"
    BY NaNAssumption DEF SeverityFromScore, AtLeast
  <2>2. Scale = 100 /\ Scale \in ScoreValue /\ "critical" \in Severities
    BY DEF Scale, ScoreValue, Severities
  <2> QED BY <1>1, <2>1, <2>2 DEF Override, RiskScore
<1>3. Decide(s, w, blocked, review, brokenFit) =
        [risk |-> r, blocked |-> blocked, review |-> review,
         calNaN |-> (s = NaN \/ brokenFit)]
  BY DEF Decide
<1> HIDE DEF r
<1> QED BY <1>2, <1>3 DEF Outcomes

-----------------------------------------------------------------------------
\* The newest n elements of a sequence form a sequence of at most n elements.
LEMMA NewestType ==
    ASSUME NEW S, NEW s \in Seq(S), NEW n \in Nat \ {0}
    PROVE  /\ Newest(s, n) \in Seq(S)
           /\ Len(Newest(s, n)) = IF Len(s) > n THEN n ELSE Len(s)
           /\ \A i \in 1..Len(Newest(s, n)) :
                 Newest(s, n)[i] = s[IF Len(s) > n THEN Len(s) - n + i ELSE i]
<1>1. CASE Len(s) > n
  <2>1. Newest(s, n) = SubSeq(s, Len(s) - n + 1, Len(s))
    BY <1>1 DEF Newest
  <2>2. Len(s) - n + 1 \in 1..Len(s)+1 /\ Len(s) \in Nat
    BY <1>1
  <2> QED
    BY <1>1, <2>1, <2>2
<1>2. CASE ~(Len(s) > n)
  BY <1>2 DEF Newest
<1> QED
  BY <1>1, <1>2

\* Trimming before an append loses nothing the append would have kept.
LEMMA NewestAppend ==
    ASSUME NEW S, NEW s \in Seq(S), NEW x \in S, NEW n \in Nat \ {0}
    PROVE  Newest(Append(Newest(s, n), x), n) = Newest(Append(s, x), n)
<1> DEFINE t == Newest(s, n)
           p == Append(t, x)
           q == Append(s, x)
           a == Newest(p, n)
           b == Newest(q, n)
<1>1. /\ t \in Seq(S)
      /\ Len(t) = IF Len(s) > n THEN n ELSE Len(s)
      /\ \A i \in 1..Len(t) : t[i] = s[IF Len(s) > n THEN Len(s) - n + i ELSE i]
  BY NewestType
<1> HIDE DEF t
<1>2. /\ p \in Seq(S)
      /\ Len(p) = Len(t) + 1
      /\ \A i \in 1..Len(t) : p[i] = t[i]
      /\ p[Len(t) + 1] = x
  BY <1>1
<1>3. /\ q \in Seq(S)
      /\ Len(q) = Len(s) + 1
      /\ \A i \in 1..Len(s) : q[i] = s[i]
      /\ q[Len(s) + 1] = x
  OBVIOUS
<1> HIDE DEF p, q
<1>4. /\ a \in Seq(S)
      /\ Len(a) = IF Len(t) + 1 > n THEN n ELSE Len(t) + 1
      /\ \A i \in 1..Len(a) : a[i] = p[IF Len(t) + 1 > n THEN Len(t) + 1 - n + i ELSE i]
  <2>1. /\ a \in Seq(S)
        /\ Len(a) = IF Len(p) > n THEN n ELSE Len(p)
        /\ \A i \in 1..Len(a) : a[i] = p[IF Len(p) > n THEN Len(p) - n + i ELSE i]
    BY <1>2, NewestType
  <2>2. Len(p) = Len(t) + 1
    BY <1>2
  <2> HIDE DEF a
  <2> QED BY <2>1, <2>2
<1>5. /\ b \in Seq(S)
      /\ Len(b) = IF Len(s) + 1 > n THEN n ELSE Len(s) + 1
      /\ \A i \in 1..Len(b) : b[i] = q[IF Len(s) + 1 > n THEN Len(s) + 1 - n + i ELSE i]
  <2>1. /\ b \in Seq(S)
        /\ Len(b) = IF Len(q) > n THEN n ELSE Len(q)
        /\ \A i \in 1..Len(b) : b[i] = q[IF Len(q) > n THEN Len(q) - n + i ELSE i]
    BY <1>3, NewestType
  <2>2. Len(q) = Len(s) + 1
    BY <1>3
  <2> HIDE DEF b
  <2> QED BY <2>1, <2>2
<1> HIDE DEF a, b
<1>6. Len(s) \in Nat /\ Len(t) \in Nat
  BY <1>1
<1>7. Len(a) = Len(b)
  BY <1>1, <1>4, <1>5, <1>6
<1>8. ASSUME NEW i \in 1..Len(a)
      PROVE  a[i] = b[i]
  <2>1. CASE Len(s) > n
    <3>1. Len(t) = n /\ Len(a) = n
      BY <2>1, <1>1, <1>4, <1>6
    <3>2. a[i] = p[i + 1] /\ b[i] = q[Len(s) + 1 - n + i]
      BY <2>1, <3>1, <1>4, <1>5, <1>6, <1>7
    <3>3. CASE i = n
      BY <3>1, <3>2, <3>3, <1>2, <1>3, <1>6
    <3>4. CASE i < n
      <4>10. i + 1 \in 1..Len(t)
        BY <3>1, <3>4, <1>6
      <4>11. p[i + 1] = t[i + 1]
        BY <4>10, <1>2
      <4>12. t[i + 1] = s[Len(s) - n + (i + 1)]
        BY <4>10, <2>1, <1>1
      <4>1. p[i + 1] = t[i + 1] /\ t[i + 1] = s[Len(s) - n + i + 1]
        <5>1. Len(s) - n + (i + 1) = Len(s) - n + i + 1
          BY <1>6
        <5> QED BY <4>11, <4>12, <5>1
      <4>2. q[Len(s) + 1 - n + i] = s[Len(s) + 1 - n + i]
        BY <2>1, <3>1, <3>4, <1>3, <1>6
      <4>3. Len(s) - n + i + 1 = Len(s) + 1 - n + i
        BY <2>1, <3>1, <1>6
      <4> QED BY <4>1, <4>2, <4>3, <3>2
    <3> QED BY <3>1, <3>3, <3>4
  <2>2. CASE ~(Len(s) > n)
    <3>1. Len(t) = Len(s) /\ \A j \in 1..Len(s) : t[j] = s[j]
      BY <2>2, <1>1, <1>6
    <3>2. \A j \in 1..(Len(s) + 1) : p[j] = q[j]
      <4> SUFFICES ASSUME NEW j \in 1..(Len(s) + 1)
                   PROVE  p[j] = q[j]
        OBVIOUS
      <4>1. CASE j = Len(s) + 1
        BY <4>1, <3>1, <1>2, <1>3
      <4>2. CASE j # Len(s) + 1
        <5>1. j \in 1..Len(s)
          BY <4>2, <1>6
        <5> QED BY <5>1, <3>1, <1>2, <1>3
      <4> QED BY <4>1, <4>2
    <3>3. CASE Len(s) + 1 > n
      <4>1. Len(s) + 1 - n + i \in 1..(Len(s) + 1)
        BY <3>3, <3>1, <1>4, <1>6, <2>2
      <4>2. a[i] = p[Len(s) + 1 - n + i]
        BY <3>3, <3>1, <1>4
      <4>3. b[i] = q[Len(s) + 1 - n + i]
        BY <3>3, <3>1, <1>5, <1>7
      <4> QED BY <4>1, <4>2, <4>3, <3>2
    <3>4. CASE ~(Len(s) + 1 > n)
      <4>1. i \in 1..(Len(s) + 1)
        BY <3>4, <3>1, <1>4, <1>6
      <4>2. a[i] = p[i]
        BY <3>4, <3>1, <1>4
      <4>3. b[i] = q[i]
        BY <3>4, <3>1, <1>5, <1>7
      <4> QED BY <4>1, <4>2, <4>3, <3>2
    <3> QED BY <3>3, <3>4
  <2> QED BY <2>1, <2>2
<1> QED
  <2>1. a = b
    BY <1>4, <1>5, <1>7, <1>8, SeqEqual
  <2> QED BY <2>1 DEF a, b, p, q, t

-----------------------------------------------------------------------------
StoreCounters ==
    /\ totalScored \in Nat /\ totalFlagged \in Nat
    /\ bySeverity \in [Severities -> Nat]

\* Add moves the total, the flagged count and the buckets together, provided
\* the risk it is given has the severity of its score.
LEMMA AddCounts ==
    ASSUME StoreCounters, NEW tx, NEW risk \in RiskScore,
           risk.severity = SeverityFromScore(risk.score), Add(tx, risk)
    PROVE  StoreCounters' /\ (CountersAgree => CountersAgree')
<1>1. /\ totalScored' = totalScored + 1
      /\ totalFlagged' = totalFlagged + (IF IsFlagged(risk) THEN 1 ELSE 0)
      /\ bySeverity' = [bySeverity EXCEPT ![risk.severity] = bySeverity[risk.severity] + 1]
  BY DEF Add
<1>2. /\ risk.severity \in Severities
      /\ IsFlagged(risk) <=> risk.severity # "low"
  BY SeverityMatchesFlag DEF RiskScore, IsFlagged
<1>3. StoreCounters'
  BY <1>1, <1>2 DEF StoreCounters
<1>4. ASSUME CountersAgree PROVE CountersAgree'
  BY <1>1, <1>2, <1>4 DEF CountersAgree, StoreCounters, Severities
<1> QED BY <1>3, <1>4
=============================================================================
