----------------------------- MODULE Detectors -----------------------------
(***************************************************************************)
(* The seven detectors and the ensemble (internal/detector), as operators  *)
(* over the store's state.                                                 *)
(*                                                                         *)
(* Scores are hundredths and 0 is clean().  Where the size of an anomaly   *)
(* sets a score the ends of its range stand for it: the ensemble grows     *)
(* with every score.  How many deviations lie between an amount and the    *)
(* mean is left open above the mean.  Logarithms are a table of            *)
(* thousandths.  Countries' distances, the registry of merchants and the   *)
(* substring test are parameters.  The literals of the code are named, so  *)
(* that small instances reach every branch.  A history with unset          *)
(* timestamps, reasons and metrics are left out.                           *)
(***************************************************************************)
EXTENDS MemStore, SequencesExt

CONSTANTS MinHistory,       \* minHistory: 5
          MinPopulation,    \* GlobalCategoryQuartiles: 4
          MinProfile,       \* the behavioural detector's least history: 5
          Window, MaxTransactions,   \* velocity: 5 minutes, 4
          ThresholdKm, SaturateKm,   \* geo: 2000, 8000
          Distance,         \* distanceKm: <<home, country>> -> km, 0 if unmapped
          TrustedThreshold, \* device: 2
          merchantRegistry, \* key -> score
          KeysIn,           \* merchant -> keys its lower-case name contains
          HourLength,       \* units of time in an hour
          Hours, Days,      \* 24, 7
          QuietWindow,      \* 6
          Logit             \* scoreToLogit: score -> thousandths

ASSUME DetectorsAssumption ==
    /\ {MinPopulation, MinProfile, TrustedThreshold, HourLength} \subseteq Nat \ {0}
    /\ MinHistory \in Nat \ {0, 1}
    /\ Window \in Nat /\ MaxTransactions \in Nat
    /\ Hours \in Nat \ {0} /\ QuietWindow \in 1..Hours /\ Days \in Nat \ {0}

\* 100 entries of a history against an allowance of 4 (storage.go:25, detector.go:299).
ASSUME WindowAssumption == MaxHistory > MaxTransactions

ASSUME GeoAssumption ==
    /\ {ThresholdKm, SaturateKm} \subseteq Nat /\ ThresholdKm < SaturateKm
    /\ \A route \in DOMAIN Distance : Distance[route] \in Nat

\* Entries score 0.70 to 0.98 (merchant.go:37-48).
ASSUME RegistryAssumption ==
    /\ \A m \in DOMAIN KeysIn : KeysIn[m] \subseteq DOMAIN merchantRegistry
    /\ \A key \in DOMAIN merchantRegistry : merchantRegistry[key] \in 70..98

\* ln(s / (1 - s)), with 1 taken as 1 - 1e-6 (detector.go:428-436).
ASSUME LogitAssumption ==
    /\ Logit \in [1..Scale -> Int]
    /\ \A s, t \in 1..Scale : s < t => Logit[s] < Logit[t]
    /\ Logit[10] = -2197

Clean == 0
NotGiven == ""  \* a field the request left out
Capped(s) == IF s > Scale THEN Scale ELSE s

Count(h, Test(_)) == Cardinality({i \in DOMAIN h : Test(h[i])})

-----------------------------------------------------------------------------
(* Statistics of amounts, own and of the whole population.  A sample gives the *)
(* entries of the store it is drawn from their amounts.                        *)
Amounts(u, category) == [i \in amountsOfCategory(u, category) |-> history[u][i].amount]

Population(category) ==
    LET entries == UNION {{u} \X amountsOfCategory(u, category) : u \in Users}
    IN  [e \in entries |-> history[e[1]][e[2]].amount]

Size(s) == Cardinality(DOMAIN s)
AtMost(s, v) == {e \in DOMAIN s : s[e] <= v}
Below(s, v) == {e \in DOMAIN s : s[e] < v}

\* What sorting puts in place i.
Ranked(s, i) == CHOOSE v \in Range(s) : /\ Cardinality(Below(s, v)) < i
                                        /\ Cardinality(AtMost(s, v)) >= i

\* stat.Quantile(k/4, LinInterp, s), in quarters.
Quartile(k, s) ==
    LET i == (k * Size(s) + 3) \div 4
        t == 4 * i - k * Size(s)
    IN  IF i = 1 THEN 4 * Ranked(s, 1) ELSE t * Ranked(s, i - 1) + (4 - t) * Ranked(s, i)

\* A fault: a user's own amounts are not sorted first.
UserQuartileUnsorted(k, s) ==
    LET x(place) == s[CHOOSE p \in DOMAIN s : Cardinality({q \in DOMAIN s : q <= p}) = place]
        i == (k * Size(s) + 3) \div 4
        t == 4 * i - k * Size(s)
    IN  IF Size(s) = 0 THEN 0
        ELSE IF i = 1 THEN 4 * x(1) ELSE t * x(i - 1) + (4 - t) * x(i)

UserQuartile(k, s) == IF Size(s) = 0 THEN 0 ELSE Quartile(k, s)

GlobalCategoryQuartile(k, category) ==
    LET s == Population(category) IN IF Size(s) < MinPopulation THEN 0 ELSE Quartile(k, s)

\* alpha = Trust(n) / MinHistory
Trust(n) == IF n > MinHistory THEN MinHistory ELSE n

\* A blend of an own and a population's figure, MinHistory times.
BlendOf(n, own, all) == Trust(n) * own + (MinHistory - Trust(n)) * all

\* Is the amount above the blended mean?
AboveMean(amount, own, all) ==
    LET n == Size(own)  N == Size(all)
    IN  IF n = 0 THEN amount * N > SumFunction(all)
        ELSE amount * MinHistory * n * N
                 > BlendOf(n, SumFunction(own) * N, SumFunction(all) * n)

-----------------------------------------------------------------------------
\* A deviation is NaN, or known by its sign: 0, or 1 when it is positive.  The
\* quotient of two zeroes is NaN.
Over(a, b) == IF a = 0 THEN (IF b = 0 THEN NaN ELSE 0) ELSE 1

\* stat.StdDev: the sum of the squares over one less than there are.
StdDev(s) ==
    LET squares == IF \A d, e \in DOMAIN s : s[d] = s[e] THEN 0 ELSE 1
    IN  Over(squares, Size(s) - 1)

UserStd(s) == IF Size(s) = 0 THEN 0 ELSE StdDev(s)

\* A fault: the store answers with whatever the library returns.
GlobalCategoryStdUnguarded(category) == StdDev(Population(category))

GlobalCategoryStd(category) ==
    LET std == StdDev(Population(category))
    IN  IF Size(Population(category)) < 2 \/ std = NaN THEN 0 ELSE std

\* What is added to NaN is NaN.
BlendedStd(n, own, all) ==
    IF NaN \in {own, all} THEN NaN ELSE IF BlendOf(n, own, all) = 0 THEN 0 ELSE 1

\* How far above is open; a z that is NaN is not below the threshold, and the
\* score is NaN like it.
ZScore(tx) ==
    LET own == Amounts(tx.user, tx.category)
        all == Population(tx.category)
        n == Size(own)
        popStd == GlobalCategoryStd(tx.category)
        std == BlendedStd(n, UserStd(own), popStd)
    IN  IF (n < MinHistory /\ popStd = 0) \/ std = 0 THEN {Clean}
        ELSE IF std = NaN THEN {NaN}
        ELSE IF AboveMean(tx.amount, own, all) THEN {Clean, 50, Scale} ELSE {Clean}

IQR(tx) ==
    LET own == Amounts(tx.user, tx.category)
        n == Size(own)
        pop1 == GlobalCategoryQuartile(1, tx.category)
        pop3 == GlobalCategoryQuartile(3, tx.category)
        q1 == BlendOf(n, UserQuartile(1, own), pop1)
        q3 == BlendOf(n, UserQuartile(3, own), pop3)
        amount == 4 * MinHistory * tx.amount
        iqr == q3 - q1
    IN  IF (n < MinHistory /\ pop1 = 0 /\ pop3 = 0) \/ iqr = 0 THEN {Clean}
        ELSE IF 2 * amount > 2 * q3 + 3 * iqr THEN {50, Scale}
        ELSE IF 2 * amount < 2 * q1 - 3 * iqr THEN {40, 90} ELSE {Clean}

VelocityOf(count) ==
    IF count <= MaxTransactions THEN {Clean} ELSE {Capped(50 + 10 * (count - MaxTransactions))}

\* A fault: a transaction at the very start of the window is not counted.
VelocityExclusive(tx) ==
    VelocityOf(Count(GetUserHistory(tx.user),
                     LAMBDA h : tx.time - Window < h.time /\ h.time <= tx.time))

Velocity(tx) ==
    VelocityOf(Count(GetUserHistory(tx.user),
                     LAMBDA h : tx.time - Window <= h.time /\ h.time <= tx.time))

-----------------------------------------------------------------------------
\* A fault: home is where the user was last.
modalCountryLatest(h) == {h[Len(h)].country : i \in DOMAIN h} \ {NotGiven}

\* The countries a tie may be broken to: the counts are in a map.
modalCountry(h) ==
    LET Named == {h[i].country : i \in DOMAIN h} \ {NotGiven}
        N(c) == Count(h, LAMBDA x : x.country = c)
    IN  {c \in Named : \A d \in Named : N(d) <= N(c)}

GeoDistance(tx) ==
    LET homes == modalCountry(GetUserHistory(tx.user))
        Score(home) ==
            LET km == Distance[<<home, tx.country>>]
            IN  IF tx.country \in {NotGiven, home} \/ km < ThresholdKm THEN Clean
                ELSE Capped(50 + (50 * (km - ThresholdKm)) \div (SaturateKm - ThresholdKm))
    IN  IF homes = {} THEN {Clean} ELSE {Score(home) : home \in homes}

DeviceFingerprint(tx) ==
    LET h == GetUserHistory(tx.user)
        count == Count(h, LAMBDA x : x.device = tx.device)
    IN  IF tx.device = NotGiven \/ h = <<>> \/ count >= TrustedThreshold THEN {Clean}
        ELSE IF count = 0 THEN {40} ELSE IF count = 1 THEN {30} ELSE {Clean}

\* The registry is a map: of several keys in one name any may be found first.
MerchantRisk(tx) ==
    IF KeysIn[tx.merchant] = {} THEN {Clean}
    ELSE {merchantRegistry[key] : key \in KeysIn[tx.merchant]}

-----------------------------------------------------------------------------
HourOf(t) == (t \div HourLength) % Hours
DayOf(t) == (t \div (HourLength * Hours)) % Days

isInWindow(hour, start) == \E i \in 0..(QuietWindow - 1) : (start + i) % Hours = hour

\* Transactions in the window of hours that begins at start, over all days.
Busy(h, start) == Count(h, LAMBDA x : isInWindow(HourOf(x.time), start))

\* A fault: the busiest window is found.
findBusiestHour(h) ==
    LET sum == [start \in 0..(Hours - 1) |-> Busy(h, start)]
        best[start \in 0..(Hours - 1)] ==
            IF start = 0 THEN 0
            ELSE IF sum[start] > sum[best[start - 1]] THEN start ELSE best[start - 1]
    IN  best[Hours - 1]

\* bestStart after the last round of the loop.
findQuietestHour(h) ==
    LET sum == [start \in 0..(Hours - 1) |-> Busy(h, start)]
        best[start \in 0..(Hours - 1)] ==
            IF start = 0 THEN 0
            ELSE IF sum[start] < sum[best[start - 1]] THEN start ELSE best[start - 1]
    IN  best[Hours - 1]

BehavioralAnomaly(tx) ==
    LET h == GetUserHistory(tx.user)
        new == Count(h, LAMBDA x : /\ DayOf(x.time) = DayOf(tx.time)
                                   /\ HourOf(x.time) = HourOf(tx.time)) = 0
        quiet == isInWindow(HourOf(tx.time), findQuietestHour(h))
    IN  IF Len(h) < MinProfile THEN {Clean}
        ELSE IF new THEN (IF quiet THEN {50} ELSE {35})
        ELSE IF quiet THEN {30} ELSE {Clean}

-----------------------------------------------------------------------------
(* The ensemble. *)
Weights == <<20, 17, 12, 12, 10, 15, 14>>
abstainLogit == -2197

\* What the detectors may say of tx, in the ensemble's order.
Votes(tx) ==
    ZScore(tx) \X IQR(tx) \X Velocity(tx) \X GeoDistance(tx) \X DeviceFingerprint(tx)
        \X MerchantRisk(tx) \X BehavioralAnomaly(tx)

IsNaN(votes) == \E i \in DOMAIN votes : votes[i] = NaN
Fired(votes) == {i \in DOMAIN votes : votes[i] # Clean}

\* A fault: abstaining is neutral.
LogitOfNeutral(s) == IF s <= Clean THEN 0 ELSE Logit[s]

LogitOf(s) == IF s <= Clean THEN abstainLogit ELSE Logit[s]

\* combined_logit, 100000 times; votes without a NaN.
Combined(votes) ==
    LET w(i) == Weights[i] * LogitOf(votes[i])
    IN  w(1) + w(2) + w(3) + w(4) + w(5) + w(6) + w(7)

\* SeverityFromScore of 1 / (1 + exp(-combined_logit)): thresholds as logits.
EnsembleSeverity(votes) ==
    LET reaches(logit) == ~IsNaN(votes) /\ Combined(votes) >= logit
    IN  IF reaches(173460) THEN "critical"
        ELSE IF reaches(84730) THEN "high"
        ELSE IF reaches(0) THEN "medium" ELSE "low"

Flagged(votes) == EnsembleSeverity(votes) # "low"
=============================================================================
