------------------------- MODULE RetrainingProofs -------------------------
(***************************************************************************)
(* The retraining job beside the scoring path and the analysts, for every  *)
(* set of transactions, analysts and scores and any number of cycles.      *)
(* Three arguments over one shape of the state: the calibrator's mutex is  *)
(* held exactly while the coefficients may differ; while it is free, they  *)
(* are the fit on the pairs learned last; and a verdict nobody touches is, *)
(* during a cycle, still on the list, in the job's hands or among its      *)
(* pairs.                                                                  *)
(***************************************************************************)
EXTENDS Retraining, MemStoreProofs

Shape ==
    /\ seenIDs \subseteq CaseIDs
    /\ cases \in [CaseIDs -> Case]
    /\ phase \in {"waiting", "select", "rescore", "label", "fit", "swap"}
    /\ settled \subseteq CaseIDs
    /\ rescore \in ScoreValue
    /\ phase \in {"rescore", "label"} => current \in CaseIDs
    /\ pairs \subseteq Pair

\* A case is opened for a transaction the store has by then; so no transaction
\* is scored, and no case opened, over an existing case.
CasesOfSeen == \A id \in CaseIDs : Exists(id) => id \in seenIDs

Coefficients ==
    /\ fitting <=> phase \in {"fit", "swap"}
    /\ fitting => pairs # {}
    /\ phase # "swap" => a = b
    /\ phase = "swap" => a = Fitted(b, pairs)
    /\ NoMixedCoefficients
    /\ NaNComesFromAScore

Labelled(id) == \E p \in pairs : p.id = id /\ p.label = (cases[id].status = "confirmed")

\* Where a case is that was decided when the cycle began, by phase of the cycle.
SettledIsPending ==
    \A id \in settled :
        /\ cases[id].status \in Decided
        /\ phase = "select" => id \in todo \/ Labelled(id)
        /\ phase \in {"rescore", "label"} => id \in todo \/ id = current \/ Labelled(id)
        /\ phase \in {"fit", "swap"} => Labelled(id)

RetrainingInv == Shape /\ CasesOfSeen /\ Coefficients /\ SettledIsPending

-----------------------------------------------------------------------------
(* What a scoring and an analyst's call do to the state the job reads. *)

\* The ensemble's scores are scores, NaN included.
LEMMA ScoresType == ASSUME NEW tx PROVE Scores(tx) \subseteq ScoreValue
BY RetrainingAssumption DEF Scores, ScoreValue

\* A fit is NaN exactly when it is over no pairs or over a pair whose score is NaN.
LEMMA FittedNaN ==
    ASSUME NEW old, NEW ps \in SUBSET Pair, ps # {}
    PROVE  Fitted(old, ps) = NotFinite <=> \E p \in ps : p.score = NaN
BY FitAssumption DEF Fitted, NotFinite

\* Scoring records a transaction no case is open for, and changes at most that case.
LEMMA ScoreEffect ==
    ASSUME RetrainingInv, NEW tx \in Txs, Score(tx)
    PROVE  /\ tx.id \in CaseIDs /\ ~Exists(tx.id)
           /\ seenIDs' = seenIDs \cup {tx.id}
           /\ cases' \in [CaseIDs -> Case]
           /\ \A id \in CaseIDs : id # tx.id => cases'[id] = cases[id]
           /\ ~fitting /\ calibrated' = <<a, b>>
           /\ UNCHANGED <<calVars, jobVars, auxVars>>
<1>1. tx.id \in CaseIDs /\ tx.id # NoID
  BY RetrainingAssumption
<1>2. tx.id \notin seenIDs
  BY <1>1 DEF Score, SeenBefore
<1>3. ~Exists(tx.id)
  BY <1>1, <1>2 DEF RetrainingInv, CasesOfSeen
<1>4. PICK raw \in Scores(tx), blocked \in BOOLEAN :
          LET o == Decide(raw, 0, blocked, FALSE, NotFinite \in {a, b})
          IN  /\ Add(tx, o.risk)
              /\ IF NeedsCase(o) THEN Create(tx.id, o.risk) ELSE UNCHANGED caseVars
  BY DEF Score
<1> DEFINE broken == NotFinite \in {a, b}
           o == Decide(raw, 0, blocked, FALSE, broken)
<1>5. o \in Outcomes
  <2>1. raw \in ScoreValue /\ 0 \in Int /\ 0 <= Scale
    BY <1>4, ScoresType DEF Scale
  <2>2. broken \in BOOLEAN
    OBVIOUS
  <2> HIDE DEF broken
  <2> QED BY <2>1, <2>2, DecideConsistent
<1>6. Add(tx, o.risk) /\ (Create(tx.id, o.risk) \/ UNCHANGED caseVars)
  BY <1>4
<1> HIDE DEF o
<1>7. seenIDs' = seenIDs \cup {tx.id}
  BY <1>1, <1>6 DEF Add, MarkSeen
<1>8. Opened(o.risk) \in Case
  <2>1. o.risk.score \in ScoreValue /\ o.risk.severity \in Severities
    BY <1>5 DEF Outcomes, RiskScore
  <2>2. NoCase \in Case
    BY DEF NoCase, Case, Statuses, Priorities, ScoreValue, Scale
  <2>3. priorityFromSeverity(o.risk.severity) \in Priorities
    BY DEF priorityFromSeverity, Priorities
  <2>4. "open" \in Statuses
    BY DEF Statuses
  <2> QED BY <2>1, <2>2, <2>3, <2>4 DEF Opened, Case
<1>9. cases' \in [CaseIDs -> Case]
      /\ \A id \in CaseIDs : id # tx.id => cases'[id] = cases[id]
  BY <1>1, <1>6, <1>8 DEF Create, caseVars, RetrainingInv, Shape
<1>10. ~fitting /\ calibrated' = <<a, b>> /\ UNCHANGED <<calVars, jobVars, auxVars>>
  BY DEF Score, Calibrate
<1> QED BY <1>1, <1>3, <1>7, <1>9, <1>10

\* An analyst changes one existing case, which stays one and is no longer settled.
LEMMA AnalystEffect ==
    ASSUME RetrainingInv, Analyst
    PROVE  /\ cases' \in [CaseIDs -> Case]
           /\ \E id \in CaseIDs :
                 /\ Exists(id)
                 /\ settled' = settled \ {id}
                 /\ \A other \in CaseIDs : other # id => cases'[other] = cases[other]
           /\ UNCHANGED <<storeVars, calVars, jobVars, calibrated, learned>>
<1>1. PICK id \in CaseIDs :
          /\ \E an \in Analysts : Assign(id, an) \/ \E v \in Verdicts : Resolve(id, v, an, 0)
          /\ settled' = settled \ {id}
  BY DEF Analyst
<1>2. PICK an \in Analysts : Assign(id, an) \/ \E v \in Verdicts : Resolve(id, v, an, 0)
  BY <1>1
<1>3. cases \in [CaseIDs -> Case] /\ cases[id] \in Case
  BY DEF RetrainingInv, Shape
<1>4. Exists(id)
  BY <1>2 DEF Assign, Resolve
<1>5. \E c \in Case : cases' = [cases EXCEPT ![id] = c]
  <2>1. CASE Assign(id, an)
    <3>1. InReview(cases[id], an) \in Case
      BY <1>3 DEF InReview, Case, Statuses
    <3> QED BY <2>1, <3>1 DEF Assign
  <2>2. ASSUME NEW v \in Verdicts, Resolve(id, v, an, 0)
        PROVE  \E c \in Case : cases' = [cases EXCEPT ![id] = c]
    <3>1. Noted(cases[id], 0) \in Case
      BY <1>3 DEF Noted, Case
    <3>2. Resolved(cases[id], v, an, 0) \in Case
      BY <3>1 DEF Resolved, Case, Statuses
    <3> QED BY <2>2, <3>2 DEF Resolve
  <2> QED BY <1>2, <2>1, <2>2
<1>6. UNCHANGED <<storeVars, calVars, jobVars, calibrated, learned>>
  BY DEF Analyst
<1> QED BY <1>1, <1>3, <1>4, <1>5, <1>6

-----------------------------------------------------------------------------
\* The boot leaves equal, finite coefficients, and no case.
LEMMA InitInv == Init => RetrainingInv
<1> SUFFICES ASSUME Init PROVE RetrainingInv
  OBVIOUS
<1> USE DEF Init, NewStore, NewManager
<1>1. Shape
  BY DEF Shape, NoCase, Case, Statuses, Priorities, ScoreValue, Scale
<1>2. CasesOfSeen
  BY DEF CasesOfSeen, Exists, NoCase
<1>3. Coefficients
  BY DEF Coefficients, NoMixedCoefficients, NaNComesFromAScore, Default, NotFinite
<1>4. SettledIsPending
  BY DEF SettledIsPending
<1> QED BY <1>1, <1>2, <1>3, <1>4 DEF RetrainingInv

\* Scoring: the calibrator is read while its coefficients are of one fit.
LEMMA ScoreInv == ASSUME RetrainingInv, NEW tx \in Txs, Score(tx) PROVE RetrainingInv'
<1>1. /\ tx.id \in CaseIDs /\ ~Exists(tx.id)
      /\ seenIDs' = seenIDs \cup {tx.id}
      /\ cases' \in [CaseIDs -> Case]
      /\ \A id \in CaseIDs : id # tx.id => cases'[id] = cases[id]
      /\ ~fitting /\ calibrated' = <<a, b>>
      /\ UNCHANGED <<calVars, jobVars, auxVars>>
  BY ScoreEffect
<1>2. Shape'
  BY <1>1 DEF RetrainingInv, Shape, jobVars, auxVars
<1>3. CasesOfSeen'
  BY <1>1 DEF RetrainingInv, CasesOfSeen, Exists
<1>4. Coefficients'
  BY <1>1 DEF RetrainingInv, Coefficients, NoMixedCoefficients, NaNComesFromAScore, Fitted,
              calVars, jobVars, auxVars
<1>5. SettledIsPending'
  <2>1. \A id \in settled : id \in CaseIDs /\ id # tx.id /\ cases'[id] = cases[id]
    <3> SUFFICES ASSUME NEW id \in settled
                 PROVE  id \in CaseIDs /\ id # tx.id /\ cases'[id] = cases[id]
      OBVIOUS
    <3>1. id \in CaseIDs /\ cases[id].status \in Decided
      BY DEF RetrainingInv, Shape, SettledIsPending
    <3>2. Exists(id)
      BY <3>1 DEF Exists, Decided
    <3> QED BY <1>1, <3>1, <3>2
  <2>2. SettledIsPending
    BY DEF RetrainingInv
  <2> QED BY <1>1, <2>1, <2>2 DEF SettledIsPending, Labelled, jobVars, auxVars
<1> QED BY <1>2, <1>3, <1>4, <1>5 DEF RetrainingInv

\* An analyst's call takes its case out of what the cycle owes.
LEMMA AnalystInv == ASSUME RetrainingInv, Analyst PROVE RetrainingInv'
<1>1. PICK id \in CaseIDs :
        /\ Exists(id)
        /\ settled' = settled \ {id}
        /\ \A other \in CaseIDs : other # id => cases'[other] = cases[other]
  BY AnalystEffect
<1>2. cases' \in [CaseIDs -> Case]
      /\ UNCHANGED <<storeVars, calVars, jobVars, calibrated, learned>>
  BY AnalystEffect
<1>3. Shape'
  BY <1>1, <1>2 DEF RetrainingInv, Shape, jobVars, storeVars
<1>4. CasesOfSeen'
  BY <1>1, <1>2 DEF RetrainingInv, CasesOfSeen, Exists, storeVars
<1>5. Coefficients'
  BY <1>2 DEF RetrainingInv, Coefficients, NoMixedCoefficients, NaNComesFromAScore, Fitted,
              calVars, jobVars
<1>6. SettledIsPending'
  <2>1. \A other \in settled' : other \in settled /\ cases'[other] = cases[other]
    BY <1>1 DEF RetrainingInv, Shape
  <2>2. SettledIsPending
    BY DEF RetrainingInv
  <2> QED BY <1>2, <2>1, <2>2 DEF SettledIsPending, Labelled, jobVars
<1> QED BY <1>3, <1>4, <1>5, <1>6 DEF RetrainingInv

-----------------------------------------------------------------------------
(* The job. *)

\* The list holds every case, those decided by now among them.
LEMMA BeginCycleInv == ASSUME RetrainingInv, BeginCycle PROVE RetrainingInv'
<1> USE DEF RetrainingInv, BeginCycle, jobOnly, storeVars, caseVars, calVars
<1>1. Shape'
  BY DEF Shape
<1>2. CasesOfSeen'
  BY DEF CasesOfSeen, Exists
<1>3. Coefficients'
  BY DEF Coefficients, NoMixedCoefficients, NaNComesFromAScore
<1>4. SettledIsPending'
  BY DEF SettledIsPending, Decided, Exists
<1> QED BY <1>1, <1>2, <1>3, <1>4

\* A settled case that is taken off the list is decided, and so taken in hand.
LEMMA SelectInv == ASSUME RetrainingInv, NEW id \in CaseIDs, Select(id) PROVE RetrainingInv'
<1> USE DEF RetrainingInv, Select, jobOnly, storeVars, caseVars, calVars
<1>1. Shape'
  BY DEF Shape
<1>2. CasesOfSeen'
  BY DEF CasesOfSeen, Exists
<1>3. Coefficients'
  BY DEF Coefficients, NoMixedCoefficients, NaNComesFromAScore
<1>4. SettledIsPending'
  BY DEF SettledIsPending, Labelled
<1> QED BY <1>1, <1>2, <1>3, <1>4

\* The new score is one the ensemble may give.
LEMMA RescoreInv == ASSUME RetrainingInv, Rescore PROVE RetrainingInv'
<1> USE DEF RetrainingInv, Rescore, jobOnly, storeVars, caseVars, calVars
<1>1. Shape'
  BY ScoresType DEF Shape
<1>2. CasesOfSeen'
  BY DEF CasesOfSeen, Exists
<1>3. Coefficients'
  BY DEF Coefficients, NoMixedCoefficients, NaNComesFromAScore
<1>4. SettledIsPending'
  BY DEF SettledIsPending, Labelled
<1> QED BY <1>1, <1>2, <1>3, <1>4

\* A settled case in hand is labelled by the verdict it has: the second read of
\* its status agrees with the first.
LEMMA LabelInv == ASSUME RetrainingInv, Label PROVE RetrainingInv'
<1> USE DEF RetrainingInv, Label, jobOnly, storeVars, caseVars, calVars
<1> DEFINE p == [id |-> current, score |-> rescore, label |-> cases[current].status = "confirmed"]
<1>1. pairs' = pairs \cup {p} /\ phase' = "select" /\ phase = "label"
  OBVIOUS
<1>2. /\ p.id = current /\ p.label = (cases[current].status = "confirmed")
      /\ p \in Pair
  BY DEF Shape, Pair
<1> HIDE DEF p
<1>3. Shape'
  BY <1>1, <1>2 DEF Shape, ScoreValue, Scale
<1>4. CasesOfSeen'
  BY DEF CasesOfSeen, Exists
<1>5. Coefficients'
  BY <1>1 DEF Coefficients, NoMixedCoefficients, NaNComesFromAScore
<1>6. SettledIsPending'
  BY <1>1, <1>2 DEF SettledIsPending, Labelled
<1> QED BY <1>3, <1>4, <1>5, <1>6

\* With the list empty every settled case has its pair, and Fit is called on no
\* empty set of pairs.
LEMMA EndSelectionInv == ASSUME RetrainingInv, EndSelection PROVE RetrainingInv'
<1> USE DEF RetrainingInv, EndSelection, jobOnly, storeVars, caseVars
<1>1. Shape'
  BY DEF Shape
<1>2. CasesOfSeen'
  BY DEF CasesOfSeen, Exists
<1>3. Coefficients'
  BY DEF Coefficients, NoMixedCoefficients, NaNComesFromAScore
<1>4. SettledIsPending'
  BY DEF SettledIsPending, Labelled
<1> QED BY <1>1, <1>2, <1>3, <1>4

\* The first coefficient is replaced while nobody can read it.
LEMMA SwapAInv == ASSUME RetrainingInv, SwapA PROVE RetrainingInv'
<1> USE DEF RetrainingInv, SwapA, jobOnly, storeVars, caseVars
<1>1. Shape'
  BY DEF Shape
<1>2. CasesOfSeen'
  BY DEF CasesOfSeen, Exists
<1>3. Coefficients'
  BY DEF Coefficients, NoMixedCoefficients, NaNComesFromAScore, Fitted
<1>4. SettledIsPending'
  BY DEF SettledIsPending, Labelled
<1> QED BY <1>1, <1>2, <1>3, <1>4

\* The second one makes the fit whole, over the pairs learned from now on.
LEMMA SwapBInv == ASSUME RetrainingInv, SwapB PROVE RetrainingInv'
<1> USE DEF RetrainingInv, SwapB, jobOnly, storeVars, caseVars
<1>1. Shape'
  BY DEF Shape
<1>2. CasesOfSeen'
  BY DEF CasesOfSeen, Exists
<1>3. Coefficients'
  <2>1. phase = "swap" /\ pairs \subseteq Pair /\ pairs # {} /\ a = Fitted(b, pairs)
    BY DEF Shape, Coefficients
  <2>2. a = NotFinite <=> \E p \in pairs : p.score = NaN
    BY <2>1, FittedNaN
  <2>3. a' = b' /\ learned' = pairs
    BY <2>1 DEF Fitted
  <2> QED
    BY <2>1, <2>2, <2>3 DEF Coefficients, NoMixedCoefficients, NaNComesFromAScore
<1>4. SettledIsPending'
  BY DEF SettledIsPending, Labelled
<1> QED BY <1>1, <1>2, <1>3, <1>4

\* The invariant is inductive.
LEMMA RetrainingStep == RetrainingInv /\ [Next]_vars => RetrainingInv'
<1> SUFFICES ASSUME RetrainingInv, [Next]_vars PROVE RetrainingInv'
  OBVIOUS
<1>1. ASSUME NEW tx \in Txs, Score(tx) PROVE RetrainingInv'
  BY <1>1, ScoreInv
<1>2. CASE Analyst
  BY <1>2, AnalystInv
<1>3. CASE BeginCycle
  BY <1>3, BeginCycleInv
<1>4. CASE Retrain
  <2>1. ASSUME NEW id \in CaseIDs, Select(id) PROVE RetrainingInv'
    BY <2>1, SelectInv
  <2> QED BY <1>4, <2>1, RescoreInv, LabelInv, EndSelectionInv, SwapAInv, SwapBInv DEF Retrain
<1>5. CASE UNCHANGED vars
  BY <1>5 DEF vars, storeVars, caseVars, calVars, jobVars, auxVars, RetrainingInv, Shape,
              CasesOfSeen, Exists, Coefficients, NoMixedCoefficients, NaNComesFromAScore,
              Fitted, SettledIsPending, Labelled
<1> QED BY <1>1, <1>2, <1>3, <1>4, <1>5 DEF Next

\* The invariant holds in every state (of job and calibrator, training.go:93-189).
THEOREM RetrainingInvHolds == Spec => []RetrainingInv
BY InitInv, RetrainingStep, PTL DEF Spec

\* A calibrated score is computed from the slope and the intercept of one fit,
\* however scoring and fits interleave (ml.go, Fit and Calibrate).
THEOREM OneFitTheorem == Spec => []NoMixedCoefficients
<1>1. RetrainingInv => NoMixedCoefficients
  BY DEF RetrainingInv, Coefficients
<1> QED BY <1>1, RetrainingInvHolds, PTL

\* A verdict nobody touches while a cycle runs is fitted on, with its label,
\* whatever is scored and decided meanwhile (training.go, Retrain).
THEOREM SettledTheorem == Spec => []SettledIsLearned
<1>1. RetrainingInv => SettledIsLearned
  BY DEF RetrainingInv, SettledIsPending, SettledIsLearned, Labelled
<1> QED BY <1>1, RetrainingInvHolds, PTL

\* Coefficients are lost to NaN only by a NaN score among the pairs of the last
\* fit, and a fit without one repairs them.
THEOREM NaNTheorem == Spec => []NaNComesFromAScore
<1>1. RetrainingInv => NaNComesFromAScore
  BY DEF RetrainingInv, Coefficients
<1> QED BY <1>1, RetrainingInvHolds, PTL
=============================================================================
