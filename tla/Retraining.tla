---------------------------- MODULE Retraining ----------------------------
(***************************************************************************)
(* The retraining job (internal/training/training.go) and the calibrator   *)
(* it refits (internal/ml/ml.go, LogisticCalibrator), composed with the    *)
(* store it re-scores from and the case manager whose live cases it reads  *)
(* without the manager's lock, while transactions are scored and analysts  *)
(* work.                                                                   *)
(*                                                                         *)
(* A coefficient is symbolic: the pairs it was fitted on, or NaN.  500     *)
(* steps of gradient descent from (1, 0) are a function of the pairs; one  *)
(* NaN among the scores, or a division by no pairs at all, makes both      *)
(* coefficients NaN.  Process is one step here (see ScoringPipeline), and  *)
(* a status that is torn by a concurrent write equals no constant, so that *)
(* it acts like a status that is neither verdict.  The second calibrator   *)
(* the job fits for its log line, the metrics and the goroutines of the    *)
(* resolve hook are left out.                                              *)
(***************************************************************************)
EXTENDS MemStore, CaseManager

CONSTANTS Txs,         \* transactions to be scored, one per id
          RawScores    \* scores the ensemble may compute, NaN aside

ASSUME RetrainingAssumption ==
    /\ \A tx \in Txs : tx.id \in CaseIDs /\ tx.user \in Users /\ tx.amount \in Int
    /\ \A id \in CaseIDs : \E tx \in Txs : tx.id = id
    /\ \A s, t \in Txs : s.id = t.id => s = t
    /\ RawScores \subseteq 0..Scale
    /\ NoID \notin CaseIDs

VARIABLES a, b,         \* the live coefficients
          fitting,      \* Fit holds the calibrator's mutex
          phase,        \* the job
          todo,         \* cases of the list not looked at yet
          current,      \* the case being looked at
          rescore,      \* its new raw score
          pairs,        \* the labelled pairs of this cycle
          calibrated,   \* the coefficients the last Calibrate used
          learned,      \* auxiliary: the pairs of the last fit
          settled       \* auxiliary: cases decided when the cycle began, untouched since

calVars == <<a, b, fitting>>
jobVars == <<phase, todo, current, rescore, pairs>>
auxVars == <<learned, settled>>
vars == <<storeVars, caseVars, calVars, jobVars, calibrated, auxVars>>

Decided == {"confirmed", "false_positive"}
TxOf(id) == CHOOSE tx \in Txs : tx.id = id

Pair == [id : CaseIDs, score : ScoreValue, label : BOOLEAN]

\* A coefficient that is NaN, as a set unlike any set of pairs.
NotFinite == {NaN}
ASSUME FitAssumption == NaN \notin Pair

\* A fault: the descent starts where the last one ended.
FittedFrom(old, ps) ==
    IF old = NotFinite \/ ps = {} \/ (\E p \in ps : p.score = NaN) THEN NotFinite ELSE ps

Fitted(old, ps) == IF ps = {} \/ (\E p \in ps : p.score = NaN) THEN NotFinite ELSE ps

\* What the boot leaves: (1, 0), or the fit on the labelled seed data, taken as
\* finite here.  No case is among its pairs.
Default == {}

Init ==
    /\ NewStore /\ NewManager
    /\ a = Default /\ b = Default /\ fitting = FALSE
    /\ phase = "waiting" /\ todo = {} /\ current = NoID /\ rescore = 0 /\ pairs = {}
    /\ calibrated = <<Default, Default>>
    /\ learned = {} /\ settled = {}

-----------------------------------------------------------------------------
(* The ensemble on the live store; a NaN as in ScoringPipeline. *)
Scores(tx) ==
    IF Cardinality(amountsOfCategory(tx.user, tx.category)) = 1 /\ GlobalCategorySpread(tx.category)
    THEN {NaN} ELSE RawScores

\* A fault: the coefficients are read without the mutex.
CalibrateUnlocked == calibrated' = <<a, b>>

Calibrate == ~fitting /\ calibrated' = <<a, b>>

\* Process on a new transaction; a block rule may match it.
Score(tx) ==
    /\ ~SeenBefore(tx.id)
    /\ Calibrate
    /\ \E raw \in Scores(tx), blocked \in BOOLEAN :
          LET o == Decide(raw, 0, blocked, FALSE, NotFinite \in {a, b})
          IN  /\ Add(tx, o.risk)
              /\ IF NeedsCase(o) THEN Create(tx.id, o.risk) ELSE UNCHANGED caseVars
    /\ UNCHANGED <<calVars, jobVars, auxVars>>

\* The analysts' handlers.
Analyst ==
    /\ \E id \in CaseIDs :
          /\ \E an \in Analysts : Assign(id, an) \/ \E v \in Verdicts : Resolve(id, v, an, 0)
          /\ settled' = settled \ {id}
    /\ UNCHANGED <<storeVars, calVars, jobVars, calibrated, learned>>

-----------------------------------------------------------------------------
(* Retrain *)
jobOnly == <<storeVars, caseVars, calibrated>>

\* A fault: the timer fires once.
BeginCycleOnce ==
    /\ phase = "waiting" /\ learned = {}
    /\ phase' = "select"
    /\ todo' = {id \in CaseIDs : Exists(id)}
    /\ pairs' = {}
    /\ settled' = {id \in CaseIDs : cases[id].status \in Decided}
    /\ UNCHANGED <<jobOnly, calVars, current, rescore, learned>>

\* The ticker fires; List copies the pointers of all cases.
BeginCycle ==
    /\ phase = "waiting"
    /\ phase' = "select"
    /\ todo' = {id \in CaseIDs : Exists(id)}
    /\ pairs' = {}
    /\ settled' = {id \in CaseIDs : cases[id].status \in Decided}
    /\ UNCHANGED <<jobOnly, calVars, current, rescore, learned>>

\* A fault: only confirmed cases are learned from.
SelectConfirmed(id) ==
    /\ phase = "select" /\ id \in todo
    /\ todo' = todo \ {id}
    /\ IF cases[id].status = "confirmed"
       THEN phase' = "rescore" /\ current' = id
       ELSE UNCHANGED <<phase, current>>
    /\ UNCHANGED <<jobOnly, calVars, rescore, pairs, learned, settled>>

\* The first read of the status.
Select(id) ==
    /\ phase = "select" /\ id \in todo
    /\ todo' = todo \ {id}
    /\ IF cases[id].status \in Decided
       THEN phase' = "rescore" /\ current' = id
       ELSE UNCHANGED <<phase, current>>
    /\ UNCHANGED <<jobOnly, calVars, rescore, pairs, learned, settled>>

\* The store holds the transaction itself by now.  What is scored is rebuilt from
\* the case, without time and device (training.go:116-124): the detectors that use
\* them may say something else than before, the amount detectors see the same.
Rescore ==
    /\ phase = "rescore"
    /\ phase' = "label"
    /\ \E s \in Scores(TxOf(current)) : rescore' = s
    /\ UNCHANGED <<jobOnly, calVars, todo, current, pairs, learned, settled>>

\* The second read of the status.
Label ==
    /\ phase = "label"
    /\ phase' = "select"
    /\ pairs' = pairs \cup {[id |-> current, score |-> rescore,
                             label |-> cases[current].status = "confirmed"]}
    /\ current' = NoID /\ rescore' = 0
    /\ UNCHANGED <<jobOnly, calVars, todo, learned, settled>>

\* A fault: an empty cycle is fitted like any other.
EndSelectionAlways ==
    /\ phase = "select" /\ todo = {}
    /\ phase' = "fit"
    /\ fitting' = TRUE
    /\ UNCHANGED <<jobOnly, a, b, todo, current, rescore, pairs, learned, settled>>

\* Without pairs the cycle ends; otherwise Fit takes the calibrator's mutex.
EndSelection ==
    /\ phase = "select" /\ todo = {}
    /\ IF pairs = {} THEN phase' = "waiting" /\ UNCHANGED fitting
                     ELSE phase' = "fit" /\ fitting' = TRUE
    /\ UNCHANGED <<jobOnly, a, b, todo, current, rescore, pairs, learned, settled>>

SwapA ==
    /\ phase = "fit"
    /\ phase' = "swap"
    /\ a' = Fitted(a, pairs)
    /\ UNCHANGED <<jobOnly, b, fitting, todo, current, rescore, pairs, learned, settled>>

SwapB ==
    /\ phase = "swap"
    /\ phase' = "waiting"
    /\ b' = Fitted(b, pairs)
    /\ fitting' = FALSE
    /\ learned' = pairs
    /\ pairs' = {}
    /\ UNCHANGED <<jobOnly, a, todo, current, rescore, settled>>

Retrain == \/ (\E id \in CaseIDs : Select(id)) \/ Rescore \/ Label
           \/ EndSelection \/ SwapA \/ SwapB

Next == (\E tx \in Txs : Score(tx)) \/ Analyst \/ BeginCycle \/ Retrain

Spec == Init /\ [][Next]_vars

\* The ticker fires, the job is scheduled and waits for no one but Calibrate.
FairSpec == Spec /\ WF_vars(BeginCycle) /\ WF_vars(Retrain)

-----------------------------------------------------------------------------
\* A calibrated score never mixes the slope of one fit with the intercept of
\* another (training.go:16, a thread-safe hot swap).
NoMixedCoefficients == calibrated[1] = calibrated[2]

\* A verdict nobody touches while a cycle runs is learned in it, with its label,
\* whatever happens to other cases (training.go:11-14).
SettledIsLearned ==
    phase = "fit" =>
        \A id \in settled : \E p \in pairs : p.id = id /\ p.label = (cases[id].status = "confirmed")

\* The coefficients are lost to NaN only by a NaN among the scores they were last
\* fitted on: an empty cycle does no harm, and the next finite one repairs them.
NaNComesFromAScore ==
    ~fitting => (a = NotFinite <=> \E p \in learned : p.score = NaN)

\* training.go:3-5: analysts' feedback reaches the model.  A verdict that stands
\* is among the pairs of all fits from some time on.
StandingVerdictIsLearned ==
    \A id \in CaseIDs : \A v \in Decided :
        <>[](cases[id].status = v)
            => <>[](\E p \in learned : p.id = id /\ p.label = (v = "confirmed"))
=============================================================================
