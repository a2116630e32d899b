---------------------------- MODULE RiskModel ----------------------------
(***************************************************************************)
(* Risk scores and severities (internal/models/models.go) and what the    *)
(* pipeline makes of a raw ensemble score and the rules that matched      *)
(* (internal/pipeline/pipeline.go, steps 5, 6 and 8).                     *)
(*                                                                         *)
(* A score is a float64 that is meant to be a probability.  It is modelled *)
(* in hundredths, 0..Scale, together with the IEEE value NaN, which the    *)
(* Z-score detector produces for a user with exactly one transaction in    *)
(* the category (the sample deviation of one value is 0/0) and which every *)
(* later arithmetic step propagates.  Products of two hundredths are       *)
(* rounded down.                                                           *)
(***************************************************************************)
EXTENDS Integers

CONSTANT NaN      \* the IEEE not-a-number score

ASSUME NaNAssumption == NaN \notin Int

Scale == 100
ScoreValue == (0..Scale) \cup {NaN}

Severities == {"low", "medium", "high", "critical"}

\* s >= t for a float s: false when s is NaN.
AtLeast(s, t) == s # NaN /\ s >= t

ThresholdFlagged == 50

SeverityFromScore(s) ==
    IF AtLeast(s, 85) THEN "critical"
    ELSE IF AtLeast(s, 70) THEN "high"
    ELSE IF AtLeast(s, 50) THEN "medium"
    ELSE "low"

RiskScore == [score : ScoreValue, severity : Severities]

IsFlagged(risk) == AtLeast(risk.score, ThresholdFlagged)

-----------------------------------------------------------------------------
(* Pipeline steps 5 and 6. *)

\* score + w * (1 - score), capped at 1; NaN stays NaN.
Blend(s, w) ==
    IF s = NaN THEN NaN
    ELSE LET t == s + (w * (Scale - s)) \div Scale
         IN  IF t > Scale THEN Scale ELSE t

\* What FlagWeight does to the ensemble's score; a weight <= 0 changes nothing.
ApplyFlagWeight(raw, w) ==
    IF w > 0
    THEN LET s == Blend(raw, w) IN [score |-> s, severity |-> SeverityFromScore(s)]
    ELSE [score |-> raw, severity |-> SeverityFromScore(raw)]

\* A fault: the override raises the score and forgets the severity.
OverrideScoreOnly(risk, blocked) ==
    IF blocked \/ risk.severity = "critical" THEN [risk EXCEPT !.score = Scale] ELSE risk

\* A block rule, or a critical severity, forces the maximal score.
Override(risk, blocked) ==
    IF blocked \/ risk.severity = "critical"
    THEN [score |-> Scale, severity |-> "critical"]
    ELSE risk

\* The outcome of scoring: the final risk, the two rule verdicts, and whether
\* the calibrated probability is NaN: it is computed from the raw score, by
\* coefficients that are NaN themselves after a refit that met a NaN (brokenFit).
Decide(raw, w, blocked, review, brokenFit) ==
    [risk |-> Override(ApplyFlagWeight(raw, w), blocked),
     blocked |-> blocked, review |-> review, calNaN |-> (raw = NaN \/ brokenFit)]

Outcomes == [risk : RiskScore, blocked : BOOLEAN, review : BOOLEAN, calNaN : BOOLEAN]

\* Step 1: the synthetic result of a duplicate.
Duplicate == [risk |-> [score |-> 0, severity |-> "low"],
              blocked |-> FALSE, review |-> FALSE, calNaN |-> FALSE]

\* Step 8: does this outcome open a case?
NeedsCase(o) == IsFlagged(o.risk) \/ o.review \/ o.blocked
=============================================================================
