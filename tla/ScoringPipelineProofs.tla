----------------------- MODULE ScoringPipelineProofs -----------------------
(***************************************************************************)
(* What holds of the scoring path for every set of requests, transactions, *)
(* rules and analysts, whatever clients do.  First the types, then the     *)
(* ledger of Add calls, cases and answers; each needs the other's previous *)
(* state, so the theorems rest on their conjunction BaseInv.               *)
(***************************************************************************)
EXTENDS ScoringPipeline, MemStoreProofs, FiniteSetTheorems, TLAPS

\* t is the body s with an id filled in at one place.
Filled(t, s, i, id) ==
    /\ t \in Seq(Transaction) /\ Len(t) = Len(s) /\ t[i].id = id
    /\ \A j \in 1..Len(s) : j # i => t[j] = s[j]

\* Filling in an id changes that id and nothing else.
LEMMA SetIDType ==
    ASSUME NEW s \in Seq(Transaction), NEW i \in 1..Len(s), NEW id \in CaseIDs
    PROVE  Filled(SetID(s, i, id), s, i, id)
<1>1. s[i] \in Transaction
  OBVIOUS
<1>2. [s[i] EXCEPT !.id = id] \in Transaction /\ [s[i] EXCEPT !.id = id].id = id
  BY <1>1 DEF Transaction
<1>3. SetID(s, i, id) = [s EXCEPT ![i] = [s[i] EXCEPT !.id = id]]
  BY DEF SetID
<1> QED
  BY <1>2, <1>3, ExceptSeq DEF Filled

\* The decision on any score under any rules the engine can hold.
LEMMA DecisionType ==
    ASSUME NEW s \in ScoreValue, NEW matches \in SUBSET AllRules, NEW brokenFit \in BOOLEAN
    PROVE  LET o == Decide(s, FlagWeight(matches), HasBlock(matches), HasReview(matches),
                           brokenFit)
           IN  o \in Outcomes /\ o.risk.severity = SeverityFromScore(o.risk.score)
<1>1. FlagWeight(matches) \in Int /\ FlagWeight(matches) <= Scale
  BY WeightSumAssumption DEF FlagWeight, Scale
<1>2. HasBlock(matches) \in BOOLEAN /\ HasReview(matches) \in BOOLEAN
  BY DEF HasBlock, HasReview
<1> QED
  BY <1>1, <1>2, DecideConsistent

\* The result of a duplicate is an outcome.
LEMMA DuplicateType ==
    Duplicate \in Outcomes /\ Duplicate.risk.severity = SeverityFromScore(Duplicate.risk.score)
BY NaNAssumption
   DEF Duplicate, Outcomes, RiskScore, ScoreValue, Scale, Severities, SeverityFromScore, AtLeast

\* IDsFor yields ids of transactions, never the empty one.
LEMMA IDsForType ==
    ASSUME NEW tx \in Transaction
    PROVE  IDsFor(tx) \subseteq CaseIDs
BY PipelineAssumption DEF IDsFor, Transaction

\* What a priority is computed from a severity.
LEMMA PriorityType == \A sev : priorityFromSeverity(sev) \in Priorities
BY DEF priorityFromSeverity, Priorities

\* Every operation of the case manager makes a case of a case.
LEMMA CaseEditType ==
    /\ \A risk \in RiskScore : Opened(risk) \in Case
    /\ \A c \in Case, a \in Analysts : InReview(c, a) \in Case
    /\ \A c \in Case, n \in Nat : Noted(c, n) \in Case
    /\ \A c \in Case, v \in Verdicts, a \in Analysts, n \in Nat : Resolved(c, v, a, n) \in Case
<1>1. \A risk \in RiskScore : Opened(risk) \in Case
  BY PriorityType DEF Opened, NoCase, Case, Statuses, RiskScore
<1>2. \A c \in Case, a \in Analysts : InReview(c, a) \in Case
  BY DEF InReview, Case, Statuses
<1>3. \A c \in Case, n \in Nat : Noted(c, n) \in Case
  BY DEF Noted, Case
<1>4. \A c \in Case, v \in Verdicts, a \in Analysts, n \in Nat : Resolved(c, v, a, n) \in Case
  <2> SUFFICES ASSUME NEW c \in Case, NEW v \in Verdicts, NEW a \in Analysts, NEW n \in Nat
               PROVE  Resolved(c, v, a, n) \in Case
    OBVIOUS
  <2>1. Noted(c, n) \in Case
    BY <1>3
  <2> QED BY <2>1 DEF Resolved, Case, Statuses
<1> QED BY <1>1, <1>2, <1>3, <1>4

-----------------------------------------------------------------------------
\* Types, and the range of every request's current position.

\* Boot gives every variable its shape.
LEMMA TypeInit == Init => TypeInv
<1> SUFFICES ASSUME Init PROVE TypeInv
  OBVIOUS
<1>1. Len(SeedData) \in Nat
  BY PipelineAssumption
<1>2. NoCase \in Case
  BY NaNAssumption DEF NoCase, Case, Statuses, Verdicts, Priorities, ScoreValue, Scale
<1>3. rules \subseteq AllRules
  BY RuleFilesAssumption DEF Init, NewEngine
<1>4. /\ history \in [Users -> Seq(Transaction)]
      /\ seenIDs \subseteq CaseIDs
      /\ totalScored \in Nat /\ totalFlagged \in Nat
      /\ bySeverity \in [Severities -> Nat]
  BY DEF Init, NewStore
<1>5. /\ cases \in [CaseIDs -> Case]
      /\ pendingHooks \in [CaseIDs -> Nat] /\ markers \in [CaseIDs -> Nat]
  BY <1>2 DEF Init, NewManager
<1>6. TypeOK
  BY <1>1, <1>3, <1>4, <1>5, DuplicateType
     DEF Init, TypeOK, StoreTypes, CaseTypes, RequestTypes, TallyTypes, ScoreValue, Scale
<1>7. WorkInRange
  BY DEF Init, WorkInRange, Working
<1> QED BY <1>6, <1>7 DEF TypeInv

\* Any store call with a transaction of the right type keeps the store's types.
LEMMA AppendType ==
    ASSUME TypeInv, NEW tx \in Transaction, tx.id \in CaseIDs, appendLocked(tx), MarkSeen(tx)
    PROVE  history' \in [Users -> Seq(Transaction)] /\ seenIDs' \subseteq CaseIDs
<1> USE DEF TypeInv, TypeOK, StoreTypes
<1>1. tx.user \in Users
  BY DEF Transaction
<1>2. Append(history[tx.user], tx) \in Seq(Transaction)
  BY <1>1
<1>3. Newest(Append(history[tx.user], tx), MaxHistory) \in Seq(Transaction)
  BY <1>2, NewestType, MaxHistoryAssumption
<1> QED BY <1>1, <1>3 DEF appendLocked, MarkSeen

-----------------------------------------------------------------------------
(* One lemma per group of actions, each: the invariant survives the step. *)

\* Every action of a request leaves what it does not name to UNCHANGED, so the
\* definitions of the variable tuples are used throughout.
USE DEF TypeInv, TypeOK, storeVars, caseVars, requestVars, auxVars,
        StoreTypes, CaseTypes, RequestTypes, TallyTypes

\* The steps by which a request starts, is cancelled, skips an item or ends.
LEMMA TypeSubmit ==
    ASSUME TypeInv, NEW r \in Requests, NEW k \in Kinds, NEW txs \in Bodies(k), Submit(r, k, txs)
    PROVE  TypeInv'
<1>1. txs \in Seq(Transaction)
  <2>1. Txs \subseteq Transaction /\ Batches \subseteq Seq(Txs)
    BY PipelineAssumption
  <2>2. Seq(Txs) \subseteq Seq(Transaction)
    BY <2>1, SeqMonotonic
  <2>3. CASE k = "batch"
    BY <2>1, <2>2, <2>3 DEF Bodies
  <2>4. CASE k # "batch"
    <3>1. PICK tx \in Txs : txs = <<tx>>
      BY <2>4 DEF Bodies
    <3> QED BY <2>1, <3>1
  <2> QED BY <2>3, <2>4
<1>2. IdsOf(txs) \subseteq CaseIDs
  <2>1. \A i \in DOMAIN txs : txs[i] \in Transaction
    BY <1>1
  <2>2. \A tx \in Transaction : tx.id \in CaseIDs \cup {NoID}
    BY DEF Transaction
  <2> QED BY <2>1, <2>2 DEF IdsOf
<1>3. k \in {"single", "batch", "kafka"}
  BY PipelineAssumption
<1>4. RequestTypes'
  <2>1. /\ batch' \in [Requests -> Seq(Transaction)]
        /\ outstanding' \in [Requests -> SUBSET CaseIDs]
    <3>1. CASE k = "batch" /\ Len(txs) > MaxBatch
      BY <3>1 DEF Submit
    <3>2. CASE ~(k = "batch" /\ Len(txs) > MaxBatch)
      <4>1. /\ batch' = [batch EXCEPT ![r] = txs]
            /\ outstanding' = [outstanding EXCEPT ![r] = IdsOf(txs)]
        BY <3>2 DEF Submit
      <4>2. IdsOf(txs) \in SUBSET CaseIDs
        BY <1>2
      <4> QED BY <4>1, <4>2, <1>1
    <3> QED BY <3>1, <3>2
  <2>2. /\ pc' \in [Requests -> {"idle", "item", "ensemble", "population", "rules", "persist",
                         "case", "done"}]
        /\ status' \in [Requests -> {"none", "200", "400", "500", "empty"}]
        /\ kind' \in [Requests -> {"single", "batch", "kafka"}]
    <3>1. CASE k = "batch" /\ Len(txs) > MaxBatch
      BY <3>1, <1>3 DEF Submit
    <3>2. CASE ~(k = "batch" /\ Len(txs) > MaxBatch)
      <4>1. /\ pc' = [pc EXCEPT ![r] = "item"]
            /\ kind' = [kind EXCEPT ![r] = k]
            /\ UNCHANGED status
        BY <3>2 DEF Submit
      <4> QED BY <4>1, <1>3
    <3> QED BY <3>1, <3>2
  <2> QED BY <2>1, <2>2 DEF Submit
<1>5. WorkInRange'
  BY DEF Submit, WorkInRange, Working, Item
<1> QED BY <1>4, <1>5 DEF Submit

\* A cancellation changes one flag.
LEMMA TypeCancel ==
    ASSUME TypeInv, NEW r \in Requests, Cancel(r)
    PROVE  TypeInv'
BY DEF Cancel, WorkInRange, Working, Item

\* Skipping an item, or ending on it.
LEMMA TypeGiveUp ==
    ASSUME TypeInv, NEW r \in Requests, RejectInvalid(r) \/ AbortCancelled(r) \/ Respond(r)
    PROVE  TypeInv'
<1> DEFINE Ends == /\ pc' \in [Requests -> {"idle", "item", "ensemble", "population", "rules", "persist",
                         "case", "done"}]
                   /\ status' \in [Requests -> {"none", "200", "400", "500", "empty"}]
                   /\ pos' \in [Requests -> Nat \ {0}]
                   /\ outstanding' \in [Requests -> SUBSET CaseIDs]
<1>0. ASSUME NEW how \in {"200", "400", "500", "empty"}, GiveUp(r, how) PROVE Ends
  <2>1. CASE kind[r] = "batch"
    <3>1. pos' = [pos EXCEPT ![r] = pos[r] + 1] /\ UNCHANGED <<pc, status, outstanding>>
      BY <1>0, <2>1 DEF GiveUp
    <3>2. pos[r] + 1 \in Nat \ {0}
      OBVIOUS
    <3> QED BY <3>1, <3>2
  <2>2. CASE kind[r] # "batch"
    <3>1. /\ pc' = [pc EXCEPT ![r] = "done"]
          /\ status' = [status EXCEPT ![r] = how]
          /\ outstanding' = [outstanding EXCEPT ![r] = {}]
          /\ UNCHANGED pos
      BY <1>0, <2>2 DEF GiveUp, Finish
    <3> QED BY <3>1
  <2> QED BY <2>1, <2>2
<1>1. Ends
  <2>1. CASE RejectInvalid(r)
    <3>1. GiveUp(r, "400")
      BY <2>1 DEF RejectInvalid
    <3> QED BY <1>0, <3>1
  <2>2. CASE AbortCancelled(r)
    <3>1. GiveUp(r, "500")
      BY <2>2 DEF AbortCancelled
    <3> QED BY <1>0, <3>1
  <2>3. CASE Respond(r)
    <3>1. PICK how \in {"200", "empty"} : Finish(r, how) /\ UNCHANGED pos
      BY <2>3 DEF Respond
    <3> QED BY <3>1 DEF Finish
  <2> QED BY <2>1, <2>2, <2>3
<1>3. TypeOK'
  <2>1. UNCHANGED <<storeVars, caseVars, rules, loaded, kind, batch, cancelled, lone, raw, outcome,
                    answers, alerts, scoringTotal, auxVars>>
    <3>1. CASE RejectInvalid(r)
      BY <3>1 DEF RejectInvalid
    <3>2. CASE AbortCancelled(r)
      BY <3>2 DEF AbortCancelled
    <3>3. CASE Respond(r)
      BY <3>3 DEF Respond
    <3> QED BY <3>1, <3>2, <3>3
  <2>2. StoreTypes' /\ CaseTypes'
    BY <2>1
  <2>3. RequestTypes'
    BY <1>1, <2>1
  <2>4. TallyTypes'
    BY <2>1
  <2> QED BY <2>2, <2>3, <2>4
<1>2. WorkInRange'
  BY DEF RejectInvalid, AbortCancelled, Respond, GiveUp, Finish, WorkInRange, Working,
         Item, HasItem
<1> QED BY <1>2, <1>3

\* Collecting a result.
LEMMA TypeCollect ==
    ASSUME TypeInv, NEW r \in Requests, NEW id \in CaseIDs, NEW dup \in BOOLEAN,
           NEW o \in Outcomes, Collect(r, id, dup, o)
    PROVE  /\ answers' \in [Requests -> Seq(Answers)]
           /\ scoringTotal' \in Nat
           /\ pos' \in [Requests -> Nat \ {0}]
<1>1. [id |-> id, dup |-> dup, outcome |-> o] \in Answers
  BY DEF Answers
<1> QED BY <1>1 DEF Collect

\* A duplicate's answer is an answer about an id.
LEMMA TypeAnswerDuplicate ==
    ASSUME TypeInv, NEW r \in Requests, AnswerDuplicate(r)
    PROVE  TypeInv'
<1>1. HasItem(r) /\ pos[r] \in 1..Len(batch[r]) /\ batch[r] \in Seq(Transaction)
  BY DEF AnswerDuplicate, HasItem
<1>2. Item(r) \in Transaction
  BY <1>1 DEF Item
<1>3. PICK id \in IDsFor(Item(r)) :
          /\ batch' = [batch EXCEPT ![r] = SetID(batch[r], pos[r], id)]
          /\ Collect(r, id, TRUE, Duplicate)
  BY DEF AnswerDuplicate
<1>4. id \in CaseIDs
  BY <1>2, IDsForType
<1>5. SetID(batch[r], pos[r], id) \in Seq(Transaction)
  <2>1. Filled(SetID(batch[r], pos[r], id), batch[r], pos[r], id)
    BY <1>1, <1>4, SetIDType
  <2> QED BY <2>1 DEF Filled
<1>6. TypeOK'
  BY <1>3, <1>4, <1>5, TypeCollect, DuplicateType DEF AnswerDuplicate
<1>7. WorkInRange'
  BY <1>1, <1>3 DEF AnswerDuplicate, Collect, WorkInRange, Working, Item, HasItem
<1> QED BY <1>6, <1>7

\* A request that starts work is in range of its body.
LEMMA TypeAdmit ==
    ASSUME TypeInv, NEW r \in Requests, Admit(r)
    PROVE  TypeInv'
<1>1. HasItem(r) /\ pos[r] \in 1..Len(batch[r]) /\ batch[r] \in Seq(Transaction)
  BY DEF Admit, HasItem
<1>2. Item(r) \in Transaction
  BY <1>1 DEF Item
<1>3. PICK id \in IDsFor(Item(r)) :
          /\ batch' = [batch EXCEPT ![r] = SetID(batch[r], pos[r], id)]
          /\ outstanding' = [outstanding EXCEPT ![r] = outstanding[r] \cup {id}]
  BY DEF Admit
<1>4. id \in CaseIDs
  BY <1>2, IDsForType
<1>5. /\ SetID(batch[r], pos[r], id) \in Seq(Transaction)
      /\ Len(SetID(batch[r], pos[r], id)) = Len(batch[r])
      /\ SetID(batch[r], pos[r], id)[pos[r]].id = id
  <2>1. Filled(SetID(batch[r], pos[r], id), batch[r], pos[r], id)
    BY <1>1, <1>4, SetIDType
  <2> QED BY <2>1 DEF Filled
<1>6. TypeOK'
  <2>1. UNCHANGED <<storeVars, caseVars, rules, loaded, kind, pos, cancelled, lone, raw, outcome,
                    answers, status, alerts, scoringTotal, auxVars>>
    BY DEF Admit
  <2>2. pc' \in [Requests -> {"idle", "item", "ensemble", "population", "rules", "persist",
                             "case", "done"}]
    BY DEF Admit
  <2>3. StoreTypes' /\ CaseTypes'
    BY <2>1
  <2>4. RequestTypes'
    BY <2>1, <2>2, <1>3, <1>4, <1>5
  <2>5. TallyTypes'
    BY <2>1
  <2> QED BY <2>3, <2>4, <2>5
<1>7. WorkInRange'
  <2> SUFFICES ASSUME NEW q \in Requests, Working(q)'
               PROVE  pos'[q] \in 1..Len(batch'[q]) /\ batch'[q][pos'[q]].id \in CaseIDs
    BY DEF WorkInRange, Item
  <2>1. CASE q = r
    BY <2>1, <1>1, <1>3, <1>4, <1>5 DEF Admit
  <2>2. CASE q # r
    BY <2>2, <1>3 DEF Admit, WorkInRange, Working, Item
  <2> QED BY <2>1, <2>2
<1> QED BY <1>6, <1>7

\* Scoring.
LEMMA TypeScore ==
    ASSUME TypeInv, NEW r \in Requests, ReadHistory(r) \/ RunEnsemble(r) \/ ApplyRules(r)
    PROVE  TypeInv'
<1>1. CASE RunEnsemble(r)
  <2>1. EnsembleScores(Item(r), lone[r]) \subseteq ScoreValue
    BY PipelineAssumption DEF EnsembleScores, ScoreValue
  <2>2. TypeOK'
    BY <1>1, <2>1 DEF RunEnsemble
  <2>3. WorkInRange'
    BY <1>1 DEF RunEnsemble, WorkInRange, Working, Item
  <2> QED BY <2>2, <2>3
<1>2. CASE ApplyRules(r)
  <2> DEFINE m == Evaluate(Item(r))
             o(broken) == Decide(raw[r], FlagWeight(m), HasBlock(m), HasReview(m), broken)
  <2>0. PICK brokenFit \in BrokenFits : outcome' = [outcome EXCEPT ![r] = o(brokenFit)]
    BY <1>2 DEF ApplyRules
  <2> DEFINE d == o(brokenFit)
  <2>1. m \in SUBSET AllRules /\ brokenFit \in BOOLEAN
    BY <2>0, PipelineAssumption DEF Evaluate
  <2>2. d \in Outcomes
    <3> HIDE DEF m
    <3> QED BY <2>1, DecisionType
  <2>3. outcome' = [outcome EXCEPT ![r] = d]
    BY <2>0
  <2> HIDE DEF d
  <2>4. TypeOK'
    BY <1>2, <2>2, <2>3 DEF ApplyRules
  <2>5. WorkInRange'
    BY <1>2 DEF ApplyRules, WorkInRange, Working, Item
  <2> QED BY <2>4, <2>5
<1>3. CASE ReadHistory(r)
  <2>1. TypeOK'
    BY <1>3 DEF ReadHistory, HistoryOfOne
  <2>2. WorkInRange'
    BY <1>3 DEF ReadHistory, WorkInRange, Working, Item
  <2> QED BY <2>1, <2>2
<1> QED BY <1>1, <1>2, <1>3

\* Add keeps the store's types and counts the call.
LEMMA TypePersist ==
    ASSUME TypeInv, DecisionIsConsistent, NEW r \in Requests, Persist(r)
    PROVE  TypeInv'
<1>1. Item(r) \in Transaction /\ Item(r).id \in CaseIDs
  <2>1. pos[r] \in 1..Len(batch[r]) /\ Item(r).id \in CaseIDs
    BY DEF Persist, WorkInRange, Working
  <2> QED BY <2>1 DEF Item
<1>2. /\ Add(Item(r), outcome[r].risk)
      /\ outcome[r] \in Outcomes
      /\ outcome[r].risk \in RiskScore
  BY DEF Persist, Outcomes
<1>3. history' \in [Users -> Seq(Transaction)] /\ seenIDs' \subseteq CaseIDs
  BY <1>1, <1>2, AppendType DEF Add
<1>4. StoreCounters'
  BY <1>2, AddCounts DEF StoreCounters, DecisionIsConsistent
<1>5. TypeOK'
  <2>1. StoreTypes'
    BY <1>3, <1>4 DEF StoreCounters
  <2>2. TallyTypes'
    <3>1. /\ UNCHANGED <<rules, loaded, alerts, scoringTotal>>
          /\ timesScored' = [timesScored EXCEPT ![Item(r).id] = timesScored[Item(r).id] + 1]
          /\ lastOutcome' = [lastOutcome EXCEPT ![Item(r).id] = outcome[r]]
      BY DEF Persist
    <3>2. timesScored' \in [CaseIDs -> Nat]
      BY <1>1, <3>1
    <3>3. lastOutcome' \in [CaseIDs -> Outcomes]
      BY <1>1, <1>2, <3>1
    <3> QED BY <3>1, <3>2, <3>3
  <2>3. RequestTypes' /\ CaseTypes'
    BY DEF Persist
  <2> QED BY <2>1, <2>2, <2>3
<1>6. WorkInRange'
  BY DEF Persist, WorkInRange, Working, Item
<1> QED BY <1>5, <1>6

\* The case step creates a case and collects an answer.
LEMMA TypeOpenCase ==
    ASSUME TypeInv, NEW r \in Requests, OpenCase(r)
    PROVE  TypeInv'
<1> DEFINE id == Item(r).id
           o == outcome[r]
<1>1. id \in CaseIDs /\ o \in Outcomes
  BY DEF OpenCase, WorkInRange, Working
<1>2. /\ Collect(r, id, FALSE, o)
      /\ alerts' = IF IsFlagged(o.risk) THEN [alerts EXCEPT ![id] = alerts[id] + 1] ELSE alerts
      /\ IF NeedsCase(o) THEN Create(id, o.risk) ELSE UNCHANGED caseVars
  BY DEF OpenCase
<1> HIDE DEF id, o
<1>3. alerts' \in [CaseIDs -> Nat]
  BY <1>1, <1>2
<1>4. /\ cases' \in [CaseIDs -> Case]
      /\ pendingHooks' \in [CaseIDs -> Nat] /\ markers' \in [CaseIDs -> Nat]
  <2>1. CASE NeedsCase(o)
    <3>1. Opened(o.risk) \in Case
      BY <1>1, CaseEditType DEF Outcomes
    <3>2. cases' = [cases EXCEPT ![id] = Opened(o.risk)] /\ UNCHANGED <<pendingHooks, markers>>
      BY <1>2, <2>1 DEF Create
    <3> QED BY <1>1, <3>1, <3>2
  <2>2. CASE ~NeedsCase(o)
    BY <1>2, <2>2
  <2> QED BY <2>1, <2>2
<1>5. TypeOK'
  <2>1. StoreTypes' /\ CaseTypes'
    BY <1>4 DEF OpenCase
  <2>2. /\ answers' \in [Requests -> Seq(Answers)]
        /\ scoringTotal' \in Nat
        /\ pos' \in [Requests -> Nat \ {0}]
    BY <1>1, <1>2, TypeCollect
  <2>3. TallyTypes'
    BY <1>3, <2>2 DEF OpenCase
  <2>4. 0 \in ScoreValue
    BY DEF ScoreValue, Scale
  <2>5. RequestTypes'
    BY <2>2, <2>4, DuplicateType DEF OpenCase
  <2> QED BY <2>1, <2>3, <2>5
<1>6. WorkInRange'
  BY <1>2 DEF OpenCase, Collect, WorkInRange, Working, Item
<1> QED BY <1>5, <1>6

\* Boot, reload, analysts and hooks.
LEMMA TypeLoadSeed ==
    ASSUME TypeInv, LoadSeed
    PROVE  TypeInv'
<1> DEFINE tx == SeedData[loaded + 1]
<1>1. loaded \in Nat /\ loaded + 1 \in 1..Len(SeedData) /\ SeedData \in Seq(SeedTxs)
  BY PipelineAssumption DEF LoadSeed
<1>2. tx \in SeedTxs
  BY <1>1
<1>3. tx \in Transaction /\ tx.id \in CaseIDs
  BY <1>2, PipelineAssumption
<1>4. Seed(tx) /\ loaded' \in 0..Len(SeedData)
  BY <1>1 DEF LoadSeed
<1> HIDE DEF tx
<1>5. history' \in [Users -> Seq(Transaction)] /\ seenIDs' \subseteq CaseIDs
  BY <1>3, <1>4, AppendType DEF Seed
<1>6. TypeOK'
  <2>1. UNCHANGED <<totalScored, totalFlagged, bySeverity>>
    BY <1>4 DEF Seed
  <2>2. UNCHANGED <<caseVars, rules, requestVars, alerts, scoringTotal, auxVars>>
    BY DEF LoadSeed
  <2>3. StoreTypes'
    BY <1>5, <2>1
  <2>4. CaseTypes' /\ RequestTypes'
    BY <2>2
  <2>5. TallyTypes'
    BY <1>4, <2>2
  <2> QED BY <2>3, <2>4, <2>5
<1>7. WorkInRange'
  BY DEF LoadSeed, WorkInRange, Working, Item
<1> QED BY <1>6, <1>7

\* Reload, analysts and hooks keep every shape.
LEMMA TypeOthers ==
    ASSUME TypeInv, ReloadRules \/ Review \/ \E id \in CaseIDs : Hook(id)
    PROVE  TypeInv'
<1>1. WorkInRange'
  BY DEF ReloadRules, Review, Hook, WorkInRange, Working, Item
<1>2. CASE ReloadRules
  BY <1>1, <1>2, RuleFilesAssumption DEF ReloadRules, Reload
<1>3. CASE \E id \in CaseIDs : Hook(id)
  <2>1. PICK id \in CaseIDs : Hook(id)
    BY <1>3
  <2>2. /\ pendingHooks' \in [CaseIDs -> Nat] /\ markers' \in [CaseIDs -> Nat]
        /\ cases' = cases
    BY <2>1 DEF Hook, RunHook
  <2>3. TypeOK'
    BY <2>1, <2>2 DEF Hook
  <2> QED BY <1>1, <2>3
<1>4. CASE Review
  <2>1. PICK id \in CaseIDs :
            \/ \E a \in Analysts : Assign(id, a)
            \/ \E v \in Verdicts, a \in Analysts, n \in 0..1 : Resolve(id, v, a, n)
            \/ AddNote(id)
    BY <1>4 DEF Review, AnalystStep
  <2>2. /\ cases \in [CaseIDs -> Case] /\ cases[id] \in Case
        /\ pendingHooks \in [CaseIDs -> Nat] /\ pendingHooks[id] \in Nat
        /\ markers \in [CaseIDs -> Nat]
    OBVIOUS
  <2>3. /\ cases' \in [CaseIDs -> Case]
        /\ pendingHooks' \in [CaseIDs -> Nat] /\ markers' \in [CaseIDs -> Nat]
    <3> HIDE DEF TypeInv, TypeOK, StoreTypes, CaseTypes, RequestTypes, TallyTypes
    <3>1. ASSUME NEW a \in Analysts, Assign(id, a)
          PROVE  cases' \in [CaseIDs -> Case] /\ UNCHANGED <<pendingHooks, markers>>
      BY <2>2, <3>1, CaseEditType DEF Assign
    <3>2. ASSUME AddNote(id)
          PROVE  cases' \in [CaseIDs -> Case] /\ UNCHANGED <<pendingHooks, markers>>
      BY <2>2, <3>2, CaseEditType DEF AddNote
    <3>3. ASSUME NEW v \in Verdicts, NEW a \in Analysts, NEW n \in 0..1, Resolve(id, v, a, n)
          PROVE  /\ cases' \in [CaseIDs -> Case]
                 /\ pendingHooks' \in [CaseIDs -> Nat] /\ UNCHANGED markers
      <4>1. Resolved(cases[id], v, a, n) \in Case
        BY <2>2, CaseEditType
      <4>2. cases' = [cases EXCEPT ![id] = Resolved(cases[id], v, a, n)]
        BY <3>3 DEF Resolve
      <4>3. /\ \/ pendingHooks' = [pendingHooks EXCEPT ![id] = pendingHooks[id] + 1]
               \/ pendingHooks' = pendingHooks
            /\ UNCHANGED markers
        BY <3>3 DEF Resolve
      <4>4. cases' \in [CaseIDs -> Case]
        BY <2>2, <4>1, <4>2
      <4>5. pendingHooks' \in [CaseIDs -> Nat]
        BY <2>2, <4>3
      <4> QED BY <4>3, <4>4, <4>5
    <3> QED BY <2>1, <2>2, <3>1, <3>2, <3>3
  <2>4. TypeOK'
    BY <1>4, <2>3 DEF Review
  <2> QED BY <1>1, <2>4
<1> QED BY <1>2, <1>3, <1>4

-----------------------------------------------------------------------------
(* The ledger: what holds whatever the clients do. *)
HIDE DEF StoreTypes, CaseTypes, RequestTypes, TallyTypes, TypeOK, TypeInv

\* Types are kept by every step, given that decisions are consistent.
LEMMA TypeNext == BaseInv /\ [Next]_vars => TypeInv'
<1> SUFFICES ASSUME BaseInv, [Next]_vars PROVE TypeInv'
  OBVIOUS
<1>1. TypeInv /\ DecisionIsConsistent
  BY DEF BaseInv, LedgerInv
<1>2. CASE UNCHANGED vars
  BY <1>1, <1>2 DEF vars, TypeInv, TypeOK, StoreTypes, CaseTypes, RequestTypes, TallyTypes,
                    WorkInRange, Working, Item
<1>3. ASSUME NEW r \in Requests, Step(r) PROVE TypeInv'
  BY <1>1, <1>3, TypeGiveUp, TypeAnswerDuplicate, TypeAdmit, TypeScore, TypePersist,
     TypeOpenCase DEF Step
<1> QED
  BY <1>1, <1>2, <1>3, TypeLoadSeed, TypeSubmit, TypeCancel, TypeOthers DEF Next

\* At boot nothing is scored, filed or answered.
LEMMA LedgerInit == Init => LedgerInv
<1> SUFFICES ASSUME Init PROVE LedgerInv
  OBVIOUS
<1>1. CountersAgree
  BY DEF Init, NewStore, CountersAgree, Severities
<1>2. CasesArePersisted /\ ScoredIsSeen
  BY DEF Init, NewManager, CasesArePersisted, ScoredIsSeen, Exists, NoCase
<1>3. DecisionIsConsistent
  BY DuplicateType DEF Init, DecisionIsConsistent
<1>4. CaseStepIsRecorded /\ FlaggedAnswerHasCase
  BY DEF Init, CaseStepIsRecorded, FlaggedAnswerHasCase
<1> QED BY <1>1, <1>2, <1>3, <1>4 DEF LedgerInv

\* A duplicate's result never calls for a case.
LEMMA DuplicateNeedsNoCase == ~NeedsCase(Duplicate)
BY NaNAssumption DEF Duplicate, NeedsCase, IsFlagged, AtLeast, ThresholdFlagged

\* A step that leaves store, cases, ledger and answers alone keeps the ledger
\* invariant if it keeps decisions consistent and starts no case step.
LEMMA LedgerFrame ==
    ASSUME LedgerInv, UNCHANGED <<storeVars, cases, timesScored, answers>>,
           DecisionIsConsistent',
           \A q \in Requests : pc'[q] = "case" => pc[q] = "case" /\ Item(q)' = Item(q)
    PROVE  LedgerInv'
BY DEF LedgerInv, CountersAgree, ScoredIsSeen, CaseStepIsRecorded, CasesArePersisted,
       FlaggedAnswerHasCase, Exists, storeVars

\* Of the requests' own steps, all but the three that write.
LEMMA LedgerQuiet ==
    ASSUME BaseInv, NEW r \in Requests,
           \/ RejectInvalid(r) \/ AbortCancelled(r) \/ Admit(r) \/ ReadHistory(r)
           \/ RunEnsemble(r)
           \/ Respond(r) \/ Cancel(r)
           \/ \E k \in Kinds : \E txs \in Bodies(k) : Submit(r, k, txs)
    PROVE  LedgerInv'
<1>1. UNCHANGED <<storeVars, cases, timesScored, answers, outcome>>
  BY DEF RejectInvalid, AbortCancelled, Admit, ReadHistory, RunEnsemble, Respond,
         Cancel, Submit
<1>2. DecisionIsConsistent'
  BY <1>1 DEF BaseInv, LedgerInv, DecisionIsConsistent
<1>3. ASSUME NEW q \in Requests, pc'[q] = "case"
      PROVE  pc[q] = "case" /\ Item(q)' = Item(q)
  <2>1. pc \in [Requests -> {"idle", "item", "ensemble", "population", "rules", "persist",
                         "case", "done"}]
        /\ pos \in [Requests -> Nat \ {0}] /\ DOMAIN batch = Requests
    BY DEF BaseInv, TypeInv, TypeOK, RequestTypes
  <2>2. CASE RejectInvalid(r) \/ AbortCancelled(r) \/ Respond(r)
    BY <1>3, <2>1, <2>2 DEF RejectInvalid, AbortCancelled, Respond, GiveUp, Finish, Item, HasItem
  <2>3. CASE Admit(r) \/ ReadHistory(r) \/ RunEnsemble(r) \/ Cancel(r)
    BY <1>3, <2>1, <2>3 DEF Admit, ReadHistory, RunEnsemble, Cancel, Item, HasItem
  <2>4. CASE \E k \in Kinds : \E txs \in Bodies(k) : Submit(r, k, txs)
    BY <1>3, <2>1, <2>4 DEF Submit, Item
  <2> QED BY <2>2, <2>3, <2>4
<1> QED BY <1>1, <1>2, <1>3, LedgerFrame DEF BaseInv

\* What LedgerInv says of one answer.
LEMMA AnsweredCase ==
    ASSUME BaseInv, NEW q \in Requests, NEW i \in DOMAIN answers[q],
           NeedsCase(answers[q][i].outcome)
    PROVE  answers[q][i].id \in CaseIDs /\ Exists(answers[q][i].id)
<1>1. answers[q] \in Seq(Answers)
  BY DEF BaseInv, TypeInv, TypeOK, RequestTypes
<1>2. answers[q][i] \in Answers
  BY <1>1
<1>3. answers[q][i].id \in CaseIDs
  BY <1>2 DEF Answers
<1>4. FlaggedAnswerHasCase
  BY DEF BaseInv, LedgerInv
<1> QED BY <1>3, <1>4, Zenon DEF FlaggedAnswerHasCase

\* Whatever rules are loaded, the decision is consistent.
LEMMA LedgerApplyRules ==
    ASSUME BaseInv, NEW r \in Requests, ApplyRules(r)
    PROVE  LedgerInv'
<1> DEFINE m == Evaluate(Item(r))
           o(broken) == Decide(raw[r], FlagWeight(m), HasBlock(m), HasReview(m), broken)
<1>0. PICK brokenFit \in BrokenFits : outcome' = [outcome EXCEPT ![r] = o(brokenFit)]
  BY DEF ApplyRules
<1> DEFINE d == o(brokenFit)
<1>1. m \in SUBSET AllRules /\ raw[r] \in ScoreValue /\ brokenFit \in BOOLEAN
      /\ outcome \in [Requests -> Outcomes]
  BY <1>0, PipelineAssumption
     DEF BaseInv, TypeInv, TypeOK, TallyTypes, RequestTypes, Evaluate
<1>2. d.risk.severity = SeverityFromScore(d.risk.score)
  <2> HIDE DEF m
  <2> QED BY <1>1, DecisionType
<1>3. outcome' = [outcome EXCEPT ![r] = d]
  BY <1>0
<1> HIDE DEF d
<1>4. DecisionIsConsistent'
  BY <1>1, <1>2, <1>3 DEF BaseInv, LedgerInv, DecisionIsConsistent
<1>5. \A q \in Requests : pc'[q] = "case" => pc[q] = "case" /\ Item(q)' = Item(q)
  BY DEF BaseInv, TypeInv, TypeOK, RequestTypes, ApplyRules, Item
<1>6. UNCHANGED <<storeVars, cases, timesScored, answers>>
  BY DEF ApplyRules
<1> QED BY <1>4, <1>5, <1>6, LedgerFrame DEF BaseInv

\* A duplicate's answer asks for no case.
LEMMA LedgerAnswerDuplicate ==
    ASSUME BaseInv, NEW r \in Requests, AnswerDuplicate(r)
    PROVE  LedgerInv'
<1>1. UNCHANGED <<storeVars, cases, timesScored, outcome, pc>> /\ pc[r] = "item"
  BY DEF AnswerDuplicate, HasItem
<1>2. PICK id : answers' = [answers EXCEPT ![r] =
                    Append(answers[r], [id |-> id, dup |-> TRUE, outcome |-> Duplicate])]
  BY DEF AnswerDuplicate, Collect
<1>3. answers \in [Requests -> Seq(Answers)] /\ DOMAIN batch = Requests
      /\ pos \in [Requests -> Nat \ {0}]
  BY DEF BaseInv, TypeInv, TypeOK, RequestTypes
<1>4. FlaggedAnswerHasCase'
  <2> SUFFICES ASSUME NEW q \in Requests, NEW i \in DOMAIN answers'[q],
                      NeedsCase(answers'[q][i].outcome)
               PROVE  cases'[answers'[q][i].id].status # "absent"
    BY DEF FlaggedAnswerHasCase, Exists
  <2>1. i \in DOMAIN answers[q] /\ answers'[q][i] = answers[q][i]
    <3>1. CASE q = r
      <4>1. i \in 1..(Len(answers[r]) + 1) /\ answers[r] \in Seq(Answers)
        BY <3>1, <1>2, <1>3
      <4>2. i # Len(answers[r]) + 1
        BY <3>1, <1>2, <1>3, DuplicateNeedsNoCase
      <4> QED BY <3>1, <4>1, <4>2, <1>2, <1>3
    <3>2. CASE q # r
      BY <3>2, <1>2, <1>3
    <3> QED BY <3>1, <3>2
  <2> QED BY <2>1, <1>1 DEF BaseInv, LedgerInv, FlaggedAnswerHasCase, Exists
<1>5. CaseStepIsRecorded'
  <2>1. ASSUME NEW q \in Requests, pc[q] = "case" PROVE Item(q)' = Item(q)
    BY <1>1, <1>3, <2>1 DEF AnswerDuplicate, Collect, Item
  <2> QED BY <2>1, <1>1 DEF BaseInv, LedgerInv, CaseStepIsRecorded
<1> QED
  BY <1>1, <1>4, <1>5 DEF BaseInv, LedgerInv, DecisionIsConsistent, CountersAgree, ScoredIsSeen,
     CasesArePersisted, Exists, storeVars

\* Add keeps the counters in step and marks what it counts.
LEMMA LedgerPersist ==
    ASSUME BaseInv, NEW r \in Requests, Persist(r)
    PROVE  LedgerInv'
<1> DEFINE id == Item(r).id
<1>1. /\ UNCHANGED <<cases, answers, outcome, batch, pos>>
      /\ timesScored' = [timesScored EXCEPT ![id] = timesScored[id] + 1]
      /\ pc' = [pc EXCEPT ![r] = "case"]
      /\ Add(Item(r), outcome[r].risk)
  BY DEF Persist, caseVars
<1>2. id \in CaseIDs /\ id # NoID
  BY PipelineAssumption DEF Persist, BaseInv, TypeInv, WorkInRange, Working
<1>3. seenIDs' = seenIDs \cup {id}
  BY <1>1, <1>2 DEF Add, MarkSeen
<1>4. timesScored \in [CaseIDs -> Nat] /\ DOMAIN pc = Requests
  BY DEF BaseInv, TypeInv, TypeOK, TallyTypes, RequestTypes
<1>5. CountersAgree'
  <2>1. StoreCounters /\ CountersAgree /\ outcome[r].risk \in RiskScore
        /\ outcome[r].risk.severity = SeverityFromScore(outcome[r].risk.score)
    BY DEF BaseInv, TypeInv, TypeOK, StoreTypes, RequestTypes, StoreCounters, LedgerInv,
           DecisionIsConsistent, Outcomes
  <2> QED BY <1>1, <2>1, AddCounts
<1> HIDE DEF id
<1>6. ScoredIsSeen'
  BY <1>1, <1>2, <1>3, <1>4 DEF BaseInv, LedgerInv, ScoredIsSeen
<1>7. CasesArePersisted'
  BY <1>1, <1>2, <1>3, <1>4 DEF BaseInv, LedgerInv, CasesArePersisted, Exists
<1>8. CaseStepIsRecorded'
  <2> SUFFICES ASSUME NEW q \in Requests, pc'[q] = "case"
               PROVE  timesScored'[Item(q).id] > 0
    BY <1>1 DEF CaseStepIsRecorded, Item
  <2>1. CASE q = r
    BY <2>1, <1>1, <1>2, <1>4 DEF id
  <2>2. CASE q # r
    <3>1. pc[q] = "case" /\ Item(q).id \in CaseIDs
      BY <2>2, <1>1, <1>4 DEF BaseInv, TypeInv, WorkInRange, Working
    <3>2. timesScored[Item(q).id] > 0
      BY <3>1 DEF BaseInv, LedgerInv, CaseStepIsRecorded
    <3> QED BY <3>1, <3>2, <1>1, <1>2, <1>4
  <2> QED BY <2>1, <2>2
<1>9. FlaggedAnswerHasCase' /\ DecisionIsConsistent'
  BY <1>1 DEF BaseInv, LedgerInv, FlaggedAnswerHasCase, DecisionIsConsistent, Exists
<1> QED BY <1>5, <1>6, <1>7, <1>8, <1>9 DEF LedgerInv

\* The case exists when its answer is collected.
LEMMA LedgerOpenCase ==
    ASSUME BaseInv, NEW r \in Requests, OpenCase(r)
    PROVE  LedgerInv'
<1> DEFINE id == Item(r).id
           o == outcome[r]
<1>1. /\ UNCHANGED <<storeVars, timesScored, batch>>
      /\ pc[r] = "case" /\ pc' = [pc EXCEPT ![r] = "item"]
      /\ outcome' = [outcome EXCEPT ![r] = Duplicate]
      /\ pos' = [pos EXCEPT ![r] = pos[r] + 1]
      /\ answers' = [answers EXCEPT ![r] =
                        Append(answers[r], [id |-> id, dup |-> FALSE, outcome |-> o])]
      /\ IF NeedsCase(o) THEN Create(id, o.risk) ELSE UNCHANGED caseVars
  BY DEF OpenCase, Collect
<1>2. id \in CaseIDs /\ timesScored[id] > 0 /\ id \in seenIDs
  BY <1>1 DEF BaseInv, TypeInv, WorkInRange, Working, LedgerInv, CaseStepIsRecorded, ScoredIsSeen
<1>3. /\ answers \in [Requests -> Seq(Answers)] /\ DOMAIN pc = Requests
      /\ outcome \in [Requests -> Outcomes] /\ pos \in [Requests -> Nat \ {0}]
      /\ cases \in [CaseIDs -> Case]
  BY DEF BaseInv, TypeInv, TypeOK, RequestTypes, CaseTypes
<1> HIDE DEF id, o
<1>4. /\ NeedsCase(o) => cases'[id].status # "absent"
      /\ \A c \in CaseIDs : Exists(c) => cases'[c].status # "absent"
      /\ \A c \in CaseIDs : cases'[c].status # "absent" => c = id \/ Exists(c)
  <2>1. CASE NeedsCase(o)
    <3>1. cases' = [cases EXCEPT ![id] = Opened(o.risk)]
      BY <1>1, <2>1 DEF Create
    <3>2. Opened(o.risk).status = "open"
      BY DEF Opened, NoCase
    <3> QED BY <3>1, <3>2, <1>2, <1>3 DEF Exists
  <2>2. CASE ~NeedsCase(o)
    BY <2>2, <1>1 DEF caseVars, Exists
  <2> QED BY <2>1, <2>2
<1>5. FlaggedAnswerHasCase'
  <2> SUFFICES ASSUME NEW q \in Requests, NEW i \in DOMAIN answers'[q],
                      NeedsCase(answers'[q][i].outcome)
               PROVE  cases'[answers'[q][i].id].status # "absent"
    BY DEF FlaggedAnswerHasCase, Exists
  <2>1. CASE q = r /\ i = Len(answers[r]) + 1
    BY <2>1, <1>1, <1>3, <1>4
  <2>2. CASE ~(q = r /\ i = Len(answers[r]) + 1)
    <3>1. i \in DOMAIN answers[q] /\ answers'[q][i] = answers[q][i]
      <4>1. CASE q = r
        <5>1. i \in 1..Len(answers[r])
          BY <2>2, <4>1, <1>1, <1>3
        <5> QED BY <5>1, <4>1, <1>1, <1>3
      <4>2. CASE q # r
        BY <4>2, <1>1, <1>3
      <4> QED BY <4>1, <4>2
    <3>2. Exists(answers[q][i].id) /\ answers[q][i].id \in CaseIDs
      BY <3>1, AnsweredCase
    <3> QED BY <3>1, <3>2, <1>4 DEF Exists
  <2> QED BY <2>1, <2>2
<1>6. CasesArePersisted'
  BY <1>1, <1>2, <1>4 DEF BaseInv, LedgerInv, CasesArePersisted, storeVars, Exists
<1>7. CaseStepIsRecorded'
  BY <1>1, <1>3 DEF BaseInv, LedgerInv, CaseStepIsRecorded, Item
<1>8. DecisionIsConsistent'
  BY <1>1, <1>3, DuplicateType DEF BaseInv, LedgerInv, DecisionIsConsistent
<1>9. CountersAgree' /\ ScoredIsSeen'
  BY <1>1 DEF BaseInv, LedgerInv, CountersAgree, ScoredIsSeen, storeVars
<1> QED BY <1>5, <1>6, <1>7, <1>8, <1>9 DEF LedgerInv

\* Boot, reload, analysts and hooks neither open a case nor remove one.
LEMMA ExistenceKept ==
    ASSUME BaseInv, LoadSeed \/ ReloadRules \/ Review \/ \E id \in CaseIDs : Hook(id)
    PROVE  \A c \in CaseIDs : Exists(c)' <=> Exists(c)
<1>0. cases \in [CaseIDs -> Case]
  BY DEF BaseInv, TypeInv, TypeOK, CaseTypes
<1>1. CASE Review
  <2>1. PICK id \in CaseIDs :
            \/ \E a \in Analysts : Assign(id, a)
            \/ \E v \in Verdicts, a \in Analysts, n \in 0..1 : Resolve(id, v, a, n)
            \/ AddNote(id)
    BY <1>1 DEF Review, AnalystStep
  <2>2. PICK c : cases' = [cases EXCEPT ![id] = c] /\ Exists(id) /\ c.status # "absent"
    <3>1. ASSUME NEW a \in Analysts, Assign(id, a)
          PROVE  /\ cases' = [cases EXCEPT ![id] = InReview(cases[id], a)] /\ Exists(id)
                 /\ InReview(cases[id], a).status # "absent"
      BY <3>1, <1>0 DEF Assign, InReview, Case
    <3>2. ASSUME NEW v \in Verdicts, NEW a \in Analysts, NEW n \in 0..1, Resolve(id, v, a, n)
          PROVE  /\ cases' = [cases EXCEPT ![id] = Resolved(cases[id], v, a, n)] /\ Exists(id)
                 /\ Resolved(cases[id], v, a, n).status # "absent"
      <4>1. Resolved(cases[id], v, a, n).status = v
        <5>1. Noted(cases[id], n) \in Case
          BY <1>0, CaseEditType
        <5> QED BY <5>1 DEF Resolved, Case
      <4> QED BY <3>2, <4>1 DEF Resolve, Verdicts
    <3>3. ASSUME AddNote(id)
          PROVE  /\ cases' = [cases EXCEPT ![id] = Noted(cases[id], 1)] /\ Exists(id)
                 /\ Noted(cases[id], 1).status # "absent"
      BY <3>3, <1>0 DEF AddNote, Noted, Case, Exists
    <3> QED BY <2>1, <3>1, <3>2, <3>3
  <2> QED BY <2>2, <1>0 DEF Exists
<1>2. CASE ~Review
  BY <1>2 DEF LoadSeed, ReloadRules, Hook, RunHook, Exists, caseVars
<1> QED BY <1>1, <1>2

\* Boot, reload, analysts and hooks.
LEMMA LedgerOthers ==
    ASSUME BaseInv, LoadSeed \/ ReloadRules \/ Review \/ \E id \in CaseIDs : Hook(id)
    PROVE  LedgerInv'
<1>1. UNCHANGED <<requestVars, timesScored>>
  BY DEF LoadSeed, ReloadRules, Review, Hook
<1>2. seenIDs \subseteq seenIDs' /\ UNCHANGED <<totalScored, totalFlagged, bySeverity>>
  BY DEF LoadSeed, Seed, MarkSeen, ReloadRules, Review, Hook
<1>3. cases \in [CaseIDs -> Case]
  BY DEF BaseInv, TypeInv, TypeOK, CaseTypes
<1>4. \A c \in CaseIDs : Exists(c)' <=> Exists(c)
  BY ExistenceKept
<1>5. FlaggedAnswerHasCase'
  <2>1. ASSUME NEW q \in Requests, NEW i \in DOMAIN answers[q],
               NeedsCase(answers[q][i].outcome)
        PROVE  cases'[answers[q][i].id].status # "absent"
    <3>1. answers[q][i].id \in CaseIDs /\ Exists(answers[q][i].id)
      BY <2>1, AnsweredCase
    <3> QED BY <3>1, <1>4 DEF Exists
  <2>2. answers' = answers
    BY <1>1 DEF requestVars
  <2> QED BY <2>1, <2>2, Zenon DEF FlaggedAnswerHasCase, Exists
<1>6. CaseStepIsRecorded' /\ DecisionIsConsistent'
  BY <1>1 DEF BaseInv, LedgerInv, CaseStepIsRecorded, DecisionIsConsistent, Item, requestVars
<1>7. CountersAgree' /\ ScoredIsSeen' /\ CasesArePersisted'
  BY <1>1, <1>2, <1>4 DEF BaseInv, LedgerInv, CountersAgree, ScoredIsSeen, CasesArePersisted
<1> QED BY <1>5, <1>6, <1>7 DEF LedgerInv

\* Every step keeps the ledger.
LEMMA LedgerNext == BaseInv /\ [Next]_vars => LedgerInv'
<1> SUFFICES ASSUME BaseInv, [Next]_vars PROVE LedgerInv'
  OBVIOUS
<1>1. CASE UNCHANGED vars
  BY <1>1 DEF vars, BaseInv, LedgerInv, DecisionIsConsistent, CountersAgree, ScoredIsSeen,
              CaseStepIsRecorded, CasesArePersisted, FlaggedAnswerHasCase, Exists, Item,
              storeVars, caseVars, requestVars, auxVars
<1>2. ASSUME NEW r \in Requests, Step(r) PROVE LedgerInv'
  BY <1>2, LedgerQuiet, LedgerApplyRules, LedgerAnswerDuplicate, LedgerPersist, LedgerOpenCase
     DEF Step
<1> QED BY <1>1, <1>2, LedgerQuiet, LedgerOthers DEF Next

\* The base invariant holds in every state.
THEOREM BaseTheorem == Spec => []BaseInv
<1>1. Init => BaseInv
  BY TypeInit, LedgerInit DEF BaseInv
<1>2. BaseInv /\ [Next]_vars => BaseInv'
  BY TypeNext, LedgerNext DEF BaseInv
<1> QED BY <1>1, <1>2, PTL DEF Spec

\* The state keeps its shape under every interleaving.
THEOREM TypeTheorem == Spec => []TypeOK
<1>1. BaseInv => TypeOK
  BY DEF BaseInv, TypeInv
<1> QED BY <1>1, BaseTheorem, PTL

\* /api/stats never contradicts itself, for any rules, scores and requests.
THEOREM PipelineCountersTheorem == Spec => []CountersAgree
<1>1. BaseInv => CountersAgree
  BY DEF BaseInv, LedgerInv
<1> QED BY <1>1, BaseTheorem, PTL

\* A flagged, blocked or review answer always has its case.
THEOREM FlaggedAnswerTheorem == Spec => []FlaggedAnswerHasCase
<1>1. BaseInv => FlaggedAnswerHasCase
  BY DEF BaseInv, LedgerInv
<1> QED BY <1>1, BaseTheorem, PTL

\* Every case is about a transaction that was persisted before.
THEOREM CasesArePersistedTheorem == Spec => []CasesArePersisted
<1>1. BaseInv => CasesArePersisted
  BY DEF BaseInv, LedgerInv
<1> QED BY <1>1, BaseTheorem, PTL

-----------------------------------------------------------------------------
(* No accepted transaction is dropped. *)

\* How far a request is with its body, and that it has answered what is behind.
Behind(r) == IF pc[r] = "done" THEN Len(batch[r]) ELSE pos[r] - 1

AnsweredSoFar(r) ==
    /\ Len(answers[r]) = Rank(r, Behind(r))
    /\ \A i \in ValidItems(r) : i <= Behind(r) =>
          Rank(r, i) \in 1..Len(answers[r]) /\ answers[r][Rank(r, i)].id = batch[r][i].id

Accepted(r) ==
    /\ pc[r] = "idle" => pos[r] = 1 /\ answers[r] = <<>>
    /\ Working(r) => pos[r] \in ValidItems(r)
    /\ (pc[r] # "idle" /\ ~cancelled[r] /\ (pc[r] = "done" => EndedWell(r))) => AnsweredSoFar(r)

\* The ledger of Add calls and the answers agree; duplicates were recorded before.
Balanced(id) == IsFiniteSet(Scorings(id)) /\ timesScored[id] = Cardinality(Scorings(id))
DuplicatesSeen == \A r \in Requests : \A k \in DOMAIN answers[r] :
                      answers[r][k].dup => answers[r][k].id \in seenIDs

AcceptInv ==
    /\ \A r \in Requests : Accepted(r)
    /\ \A id \in CaseIDs : Balanced(id)
    /\ DuplicatesSeen

\* The rank of an item among the valid ones, one item after the other.
LEMMA RankSteps ==
    ASSUME TypeOK, NEW r \in Requests
    PROVE  /\ \A n \in Nat : Rank(r, n) \in Nat
           /\ Rank(r, 0) = 0
           /\ \A i \in Nat \ {0} : Rank(r, i) =
                  IF i \in ValidItems(r) THEN Rank(r, i - 1) + 1 ELSE Rank(r, i - 1)
           /\ \A n \in Nat : n >= Len(batch[r]) => Rank(r, n) = Cardinality(ValidItems(r))
<1> DEFINE V == ValidItems(r)
<1>1. V \subseteq 1..Len(batch[r]) /\ Len(batch[r]) \in Nat
  BY DEF ValidItems, TypeOK, RequestTypes
<1> HIDE DEF V
<1>2. \A n \in Nat : IsFiniteSet(1..n)
  BY FS_Interval
<1>3. \A n \in Nat : IsFiniteSet(V \cap 1..n)
  BY <1>2, FS_Intersection
<1>4. \A n \in Nat : Cardinality(V \cap 1..n) \in Nat
  BY <1>3, FS_CardinalityType
<1>5. Cardinality(V \cap 1..0) = 0
  <2>1. V \cap 1..0 = {}
    OBVIOUS
  <2> QED BY <2>1, FS_EmptySet
<1>6. ASSUME NEW i \in Nat \ {0}
      PROVE  Cardinality(V \cap 1..i) =
                 IF i \in V THEN Cardinality(V \cap 1..(i - 1)) + 1 ELSE Cardinality(V \cap 1..(i - 1))
  <2>1. i - 1 \in Nat /\ i \notin V \cap 1..(i - 1)
    OBVIOUS
  <2>2. CASE i \in V
    <3>1. V \cap 1..i = (V \cap 1..(i - 1)) \cup {i}
      BY <2>2
    <3>2. Cardinality((V \cap 1..(i - 1)) \cup {i}) = Cardinality(V \cap 1..(i - 1)) + 1
      BY <1>3, <2>1, FS_AddElement
    <3> QED BY <2>2, <3>1, <3>2
  <2>3. CASE i \notin V
    <3>1. V \cap 1..i = V \cap 1..(i - 1)
      BY <2>3
    <3> QED BY <2>3, <3>1
  <2> QED BY <2>2, <2>3
<1>7. \A n \in Nat : n >= Len(batch[r]) => V \cap 1..n = V
  <2> DEFINE L == Len(batch[r])
  <2>1. V \subseteq 1..L /\ L \in Nat
    BY <1>1
  <2> HIDE DEF L
  <2>2. ASSUME NEW n \in Nat, n >= L PROVE V \cap 1..n = V
    <3>1. \A k \in 1..L : k \in 1..n
      BY <2>1, <2>2
    <3> QED BY <2>1, <3>1
  <2> QED BY <2>2 DEF L
<1> QED BY <1>4, <1>5, <1>6, <1>7 DEF Rank, V

\* What is said of a request is its own.
LEMMA AcceptedFrame ==
    ASSUME NEW q \in Requests, Accepted(q),
           pc'[q] = pc[q], kind'[q] = kind[q], batch'[q] = batch[q], pos'[q] = pos[q],
           cancelled'[q] = cancelled[q], status'[q] = status[q], answers'[q] = answers[q]
    PROVE  Accepted(q)'
<1>1. ValidItems(q)' = ValidItems(q)
  BY DEF ValidItems, Valid
<1>2. \A i : Rank(q, i)' = Rank(q, i)
  BY <1>1 DEF Rank
<1>3. Behind(q)' = Behind(q) /\ (EndedWell(q)' <=> EndedWell(q)) /\ (Working(q)' <=> Working(q))
  BY DEF Behind, EndedWell, Working
<1> QED BY <1>1, <1>2, <1>3 DEF Accepted, AnsweredSoFar

\* An item is behind: it is answered if it is valid, and skipped otherwise.
LEMMA ItemBehind ==
    ASSUME TypeOK, NEW r \in Requests, AnsweredSoFar(r), pc[r] # "done", pc'[r] # "done",
           pos[r] \in 1..Len(batch[r]), pos'[r] = pos[r] + 1,
           ValidItems(r)' = ValidItems(r),
           \A i \in ValidItems(r) : i # pos[r] => batch'[r][i].id = batch[r][i].id,
           IF pos[r] \in ValidItems(r)
           THEN \E a \in Answers : a.id = batch'[r][pos[r]].id /\ answers'[r] = Append(answers[r], a)
           ELSE answers'[r] = answers[r]
    PROVE  AnsweredSoFar(r)'
<1> DEFINE p == pos[r]
           s == answers[r]
           t == answers'[r]
<1>1. /\ p \in Nat \ {0} /\ p - 1 \in Nat /\ ValidItems(r) \subseteq 1..Len(batch[r])
      /\ s \in Seq(Answers) /\ Len(s) \in Nat
  BY DEF TypeOK, RequestTypes, ValidItems
<1>2. \A i : Rank(r, i)' = Rank(r, i)
  BY DEF Rank
<1>3. Behind(r) = p - 1 /\ Behind(r)' = p
  BY <1>1 DEF Behind
<1>4. /\ Len(s) = Rank(r, p - 1)
      /\ \A i \in ValidItems(r) : i <= p - 1 => Rank(r, i) \in 1..Len(s) /\ s[Rank(r, i)].id = batch[r][i].id
  BY <1>3 DEF AnsweredSoFar
<1>5. Rank(r, p) = IF p \in ValidItems(r) THEN Rank(r, p - 1) + 1 ELSE Rank(r, p - 1)
  BY <1>1, RankSteps
<1> HIDE DEF s, t
<1>6. /\ Len(t) = Rank(r, p)
      /\ \A k \in 1..Len(s) : t[k] = s[k] /\ k \in 1..Len(t)
      /\ p \in ValidItems(r) => t[Rank(r, p)].id = batch'[r][p].id /\ Rank(r, p) \in 1..Len(t)
  <2>1. CASE p \in ValidItems(r)
    <3>1. PICK a \in Answers : a.id = batch'[r][p].id /\ t = Append(s, a)
      BY <2>1 DEF s, t
    <3>2. /\ Len(t) = Len(s) + 1 /\ t[Len(s) + 1] = a
          /\ \A k \in 1..Len(s) : t[k] = s[k]
      BY <1>1, <3>1
    <3>3. Rank(r, p) = Len(s) + 1
      BY <1>4, <1>5, <2>1
    <3> QED BY <1>1, <3>1, <3>2, <3>3
  <2>2. CASE p \notin ValidItems(r)
    <3>1. t = s
      BY <2>2 DEF s, t
    <3> QED BY <1>4, <1>5, <2>2, <3>1
  <2> QED BY <2>1, <2>2
<1>7. ASSUME NEW i \in ValidItems(r), i <= p
      PROVE  Rank(r, i) \in 1..Len(t) /\ t[Rank(r, i)].id = batch'[r][i].id
  <2>1. CASE i = p
    BY <1>6, <2>1
  <2>2. CASE i # p
    <3>1. i <= p - 1
      BY <1>1, <1>7, <2>2
    <3>2. Rank(r, i) \in 1..Len(s) /\ s[Rank(r, i)].id = batch[r][i].id
      BY <1>4, <3>1
    <3>3. batch'[r][i].id = batch[r][i].id
      BY <2>2
    <3> QED BY <1>6, <3>2, <3>3
  <2> QED BY <2>1, <2>2
<1> QED BY <1>2, <1>3, <1>6, <1>7 DEF AnsweredSoFar, t

\* Looking an id up fills it in for the current item alone.
LEMMA LookUpFills ==
    ASSUME TypeOK, NEW r \in Requests, HasItem(r), NEW id \in IDsFor(Item(r)),
           batch' = [batch EXCEPT ![r] = SetID(batch[r], pos[r], id)]
    PROVE  /\ pos[r] \in 1..Len(batch[r])
           /\ Filled(batch'[r], batch[r], pos[r], id)
<1>1. batch \in [Requests -> Seq(Transaction)] /\ pos[r] \in 1..Len(batch[r])
  BY DEF TypeOK, RequestTypes, HasItem
<1>2. id \in CaseIDs
  <2>1. Item(r) \in Transaction
    BY <1>1 DEF Item
  <2> QED BY <2>1, IDsForType
<1> DEFINE t == SetID(batch[r], pos[r], id)
<1>3. Filled(t, batch[r], pos[r], id)
  <2>1. batch[r] \in Seq(Transaction)
    BY <1>1
  <2> QED BY <1>1, <1>2, <2>1, SetIDType
<1>4. batch'[r] = t
  BY <1>1
<1> HIDE DEF t
<1> QED BY <1>1, <1>3, <1>4

\* Looking an id up changes no item but the current one, and in that only the id.
LEMMA LookUpKeeps ==
    ASSUME TypeOK, NEW r \in Requests, HasItem(r), Valid(r, Item(r)), kind' = kind,
           NEW id \in IDsFor(Item(r)), batch' = [batch EXCEPT ![r] = SetID(batch[r], pos[r], id)]
    PROVE  /\ ValidItems(r)' = ValidItems(r) /\ pos[r] \in ValidItems(r)
           /\ \A i \in ValidItems(r) : i # pos[r] => batch'[r][i].id = batch[r][i].id
           /\ pos[r] \in 1..Len(batch[r]) /\ batch'[r][pos[r]].id = id
<1> DEFINE s == batch[r]
           t == batch'[r]
           p == pos[r]
<1>1. /\ p \in 1..Len(s) /\ s \in Seq(Transaction) /\ t \in Seq(Transaction)
      /\ Len(t) = Len(s) /\ t[p].id = id /\ \A j \in 1..Len(s) : j # p => t[j] = s[j]
  BY LookUpFills DEF Filled, TypeOK, RequestTypes
<1>2. t[p].user = s[p].user /\ t[p].amount = s[p].amount
  <2>1. batch \in [Requests -> Seq(Transaction)]
    BY DEF TypeOK, RequestTypes
  <2>2. t = [s EXCEPT ![p] = [s[p] EXCEPT !.id = id]]
    BY <2>1 DEF SetID
  <2>3. t[p] = [s[p] EXCEPT !.id = id]
    BY <1>1, <2>2
  <2>4. s[p] \in Transaction
    BY <1>1
  <2> HIDE DEF s, t, p
  <2> QED BY <2>3, <2>4 DEF Transaction
<1>3. Valid(r, s[p])
  BY DEF Item
<1> HIDE DEF s, t, p
<1>4. DOMAIN t = DOMAIN s /\ DOMAIN s = 1..Len(s)
  BY <1>1
<1>6. ValidItems(r) = {i \in DOMAIN s : Valid(r, s[i])}
  BY DEF ValidItems, s
<1>7. ValidItems(r)' = {i \in DOMAIN t : kind'[r] = "kafka" \/ (t[i].user # NoUser /\ t[i].amount > 0)}
  BY DEF ValidItems, Valid, t
<1>8. ValidItems(r) = {i \in DOMAIN s : kind[r] = "kafka" \/ (s[i].user # NoUser /\ s[i].amount > 0)}
  BY <1>6 DEF Valid
<1>9. ASSUME NEW i \in DOMAIN s PROVE t[i].user = s[i].user /\ t[i].amount = s[i].amount
  <2>1. CASE i = p
    BY <1>2, <2>1
  <2>2. CASE i # p
    BY <1>1, <1>4, <2>2
  <2> QED BY <2>1, <2>2
<1>10. ValidItems(r)' = ValidItems(r)
  BY <1>4, <1>7, <1>8, <1>9
<1>11. p \in ValidItems(r)
  BY <1>1, <1>3, <1>4, <1>6
<1>12. \A i \in ValidItems(r) : i # p => t[i].id = s[i].id
  BY <1>1, <1>4, <1>6
<1> QED BY <1>1, <1>10, <1>11, <1>12 DEF s, t, p

\* A step of one request, or its arrival, leaves what the others have alone.
Kept(q) == /\ pc'[q] = pc[q] /\ kind'[q] = kind[q] /\ pos'[q] = pos[q] /\ batch'[q] = batch[q]
           /\ cancelled'[q] = cancelled[q] /\ status'[q] = status[q] /\ answers'[q] = answers[q]

\* A step of one request leaves what the others have asked and been answered alone.
LEMMA OthersKept ==
    ASSUME TypeOK, NEW r \in Requests, NEW q \in Requests, q # r,
           \/ Step(r) \/ Cancel(r)
           \/ \E k \in Kinds : \E txs \in Bodies(k) : Submit(r, k, txs)
    PROVE  Kept(q)
<1> USE DEF TypeOK, RequestTypes, Kept
<1>1. ASSUME RejectInvalid(r) PROVE Kept(q)
  BY <1>1 DEF RejectInvalid, GiveUp, Finish
<1>2. ASSUME AnswerDuplicate(r) PROVE Kept(q)
  BY <1>2 DEF AnswerDuplicate, Collect
<1>3. ASSUME AbortCancelled(r) PROVE Kept(q)
  BY <1>3 DEF AbortCancelled, GiveUp, Finish
<1>4. ASSUME Admit(r) PROVE Kept(q)
  BY <1>4 DEF Admit
<1>5. ASSUME ReadHistory(r) PROVE Kept(q)
  BY <1>5 DEF ReadHistory
<1>6. ASSUME RunEnsemble(r) PROVE Kept(q)
  BY <1>6 DEF RunEnsemble
<1>7. ASSUME ApplyRules(r) PROVE Kept(q)
  BY <1>7 DEF ApplyRules
<1>8. ASSUME Persist(r) PROVE Kept(q)
  BY <1>8 DEF Persist
<1>9. ASSUME OpenCase(r) PROVE Kept(q)
  BY <1>9 DEF OpenCase, Collect
<1>10. ASSUME Respond(r) PROVE Kept(q)
  BY <1>10 DEF Respond, Finish
<1>11. ASSUME Cancel(r) PROVE Kept(q)
  BY <1>11 DEF Cancel
<1>12. ASSUME NEW k \in Kinds, NEW txs \in Bodies(k), Submit(r, k, txs) PROVE Kept(q)
  BY <1>12 DEF Submit
<1> QED BY <1>1, <1>2, <1>3, <1>4, <1>5, <1>6, <1>7, <1>8, <1>9, <1>10, <1>11, <1>12 DEF Step

\* Giving up an item skips it only in a batch, and ends nothing with a 200.
LEMMA AcceptGiveUp ==
    ASSUME BaseInv, AcceptInv, NEW r \in Requests, RejectInvalid(r) \/ AbortCancelled(r)
    PROVE  Accepted(r)'
<1> USE DEF BaseInv, TypeInv, TypeOK, RequestTypes
<1>1. /\ pc[r] = "item" /\ kind' = kind /\ batch' = batch /\ answers' = answers
      /\ cancelled' = cancelled /\ pos[r] \in 1..Len(batch[r])
  BY DEF RejectInvalid, AbortCancelled, HasItem
<1>2. ~Working(r)' /\ pc'[r] # "idle"
  BY <1>1 DEF RejectInvalid, AbortCancelled, GiveUp, Finish, Working
<1>3. CASE AbortCancelled(r)
  <2>1. cancelled'[r]
    BY <1>1, <1>3 DEF AbortCancelled
  <2> QED BY <1>2, <2>1 DEF Accepted
<1>4. CASE RejectInvalid(r)
  <2>1. pos[r] \notin ValidItems(r) /\ ValidItems(r)' = ValidItems(r)
    BY <1>1, <1>4 DEF RejectInvalid, Item, ValidItems, Valid
  <2>2. \/ pc'[r] = "done" /\ status'[r] = "400"
        \/ pc' = pc /\ status' = status /\ pos'[r] = pos[r] + 1
    BY <1>1, <1>4 DEF RejectInvalid, GiveUp, Finish
  <2>3. CASE pc'[r] = "done" /\ status'[r] = "400"
    BY <1>2, <2>3 DEF Accepted, EndedWell
  <2>4. CASE pc' = pc /\ status' = status /\ pos'[r] = pos[r] + 1
    <3>1. ~cancelled[r] => AnsweredSoFar(r)
      BY <1>1 DEF AcceptInv, Accepted
    <3>2. ~cancelled[r] => AnsweredSoFar(r)'
      BY <1>1, <2>1, <2>4, <3>1, ItemBehind
    <3> QED BY <1>1, <1>2, <2>4, <3>2 DEF Accepted
  <2> QED BY <2>2, <2>3, <2>4
<1> QED BY <1>3, <1>4

\* A duplicate is answered, an admitted item is still at hand.
LEMMA AcceptLookUp ==
    ASSUME BaseInv, AcceptInv, NEW r \in Requests, AnswerDuplicate(r) \/ Admit(r)
    PROVE  Accepted(r)'
<1>0. TypeOK /\ Accepted(r)
  BY DEF BaseInv, TypeInv, AcceptInv
<1>1. /\ HasItem(r) /\ Valid(r, Item(r)) /\ pc[r] = "item" /\ kind' = kind
      /\ cancelled' = cancelled /\ status' = status
  BY DEF AnswerDuplicate, Admit, HasItem
<1>2. ~cancelled[r] => AnsweredSoFar(r)
  BY <1>0, <1>1 DEF Accepted
<1>3. CASE AnswerDuplicate(r)
  <2>1. PICK id \in IDsFor(Item(r)) :
            /\ batch' = [batch EXCEPT ![r] = SetID(batch[r], pos[r], id)]
            /\ Collect(r, id, TRUE, Duplicate)
    BY <1>3 DEF AnswerDuplicate
  <2>2. id \in CaseIDs
    <3>1. Item(r) \in Transaction
      BY <1>0, <1>1 DEF HasItem, Item, TypeOK, RequestTypes
    <3> QED BY <3>1, IDsForType
  <2>3. pos'[r] = pos[r] + 1 /\ pc' = pc
        /\ answers'[r] = Append(answers[r], [id |-> id, dup |-> TRUE, outcome |-> Duplicate])
    BY <1>0, <1>3, <2>1 DEF AnswerDuplicate, Collect, TypeOK, RequestTypes
  <2>4. [id |-> id, dup |-> TRUE, outcome |-> Duplicate] \in Answers
    BY <2>2, DuplicateType DEF Answers
  <2>5. /\ ValidItems(r)' = ValidItems(r) /\ pos[r] \in ValidItems(r)
        /\ \A i \in ValidItems(r) : i # pos[r] => batch'[r][i].id = batch[r][i].id
        /\ pos[r] \in 1..Len(batch[r]) /\ batch'[r][pos[r]].id = id
    BY <1>0, <1>1, <2>1, LookUpKeeps
  <2>6. ~cancelled[r] => AnsweredSoFar(r)'
    BY <1>0, <1>1, <1>2, <2>3, <2>4, <2>5, ItemBehind
  <2> QED BY <1>1, <2>3, <2>6 DEF Accepted, Working
<1>4. CASE Admit(r)
  <2>1. PICK id \in IDsFor(Item(r)) : batch' = [batch EXCEPT ![r] = SetID(batch[r], pos[r], id)]
    BY <1>4 DEF Admit
  <2>2. pos' = pos /\ pc'[r] = "ensemble" /\ answers' = answers /\ pos[r] \in Nat \ {0}
    BY <1>0, <1>4 DEF Admit, TypeOK, RequestTypes
  <2>3. /\ ValidItems(r)' = ValidItems(r) /\ pos[r] \in ValidItems(r)
        /\ \A i \in ValidItems(r) : i # pos[r] => batch'[r][i].id = batch[r][i].id
        /\ pos[r] \in 1..Len(batch[r])
    BY <1>0, <1>1, <2>1, LookUpKeeps
  <2>4. ASSUME ~cancelled[r] PROVE AnsweredSoFar(r)'
    <3>1. \A i : Rank(r, i)' = Rank(r, i)
      BY <2>3 DEF Rank
    <3>2. Behind(r)' = Behind(r) /\ Behind(r) = pos[r] - 1
      BY <1>1, <2>2 DEF Behind
    <3> QED BY <1>2, <2>2, <2>3, <2>4, <3>1, <3>2 DEF AnsweredSoFar
  <2> QED BY <1>1, <2>2, <2>3, <2>4 DEF Accepted
<1> QED BY <1>3, <1>4

\* Scoring and Add keep what is behind; after the case step the item is, too.
LEMMA AcceptWork ==
    ASSUME BaseInv, AcceptInv, NEW r \in Requests,
           \/ ReadHistory(r) \/ RunEnsemble(r) \/ ApplyRules(r) \/ Persist(r) \/ OpenCase(r)
           \/ Respond(r)
    PROVE  Accepted(r)'
<1> USE DEF BaseInv, TypeInv, TypeOK, RequestTypes
<1>0. pos[r] \in Nat \ {0} /\ Len(batch[r]) \in Nat
  <2>1. batch[r] \in Seq(Transaction)
    OBVIOUS
  <2> QED BY <2>1
<1>1. /\ pc[r] # "idle" /\ pc[r] # "done"
      /\ kind' = kind /\ batch' = batch /\ cancelled' = cancelled
  BY DEF ReadHistory, RunEnsemble, ApplyRules, Persist, OpenCase, Respond
<1>2. Accepted(r) /\ ValidItems(r)' = ValidItems(r)
  BY <1>1 DEF AcceptInv, ValidItems, Valid
<1>3. \A i : Rank(r, i)' = Rank(r, i)
  BY <1>2 DEF Rank
<1>4. ~cancelled[r] => AnsweredSoFar(r)
  BY <1>1, <1>2 DEF Accepted
<1>5. CASE ReadHistory(r) \/ RunEnsemble(r) \/ ApplyRules(r) \/ Persist(r)
  <2>1. /\ pos' = pos /\ pc'[r] \notin {"idle", "done"} /\ answers' = answers /\ Working(r)
    BY <1>5 DEF ReadHistory, RunEnsemble, ApplyRules, Persist, Working
  <2>2. Behind(r)' = Behind(r)
    BY <1>1, <2>1 DEF Behind
  <2>3. ~cancelled[r] => AnsweredSoFar(r)'
    BY <1>1, <1>2, <1>3, <1>4, <2>1, <2>2 DEF AnsweredSoFar
  <2> QED BY <1>1, <1>2, <2>1, <2>3 DEF Accepted
<1>6. CASE OpenCase(r)
  <2>1. PICK a : /\ a = [id |-> Item(r).id, dup |-> FALSE, outcome |-> outcome[r]]
                 /\ answers' = [answers EXCEPT ![r] = Append(answers[r], a)]
    BY <1>6 DEF OpenCase, Collect
  <2>2. pc[r] = "case" /\ pos'[r] = pos[r] + 1 /\ pc'[r] = "item"
        /\ answers'[r] = Append(answers[r], a)
    BY <1>6, <2>1 DEF OpenCase, Collect
  <2>3. a \in Answers /\ a.id = batch'[r][pos[r]].id /\ pos[r] \in 1..Len(batch[r])
    <3>1. Working(r)
      BY <2>2 DEF Working
    <3> QED BY <1>1, <2>1, <3>1 DEF WorkInRange, Answers, Item
  <2>4. pos[r] \in ValidItems(r)
    BY <1>2, <2>2 DEF Accepted, Working
  <2>5. ~cancelled[r] => AnsweredSoFar(r)'
    BY <1>1, <1>2, <1>4, <2>2, <2>3, <2>4, ItemBehind
  <2> QED BY <1>1, <2>2, <2>5 DEF Accepted, Working
<1>7. CASE Respond(r)
  <2>1. pos[r] > Len(batch[r]) /\ pos' = pos /\ pc'[r] = "done" /\ answers' = answers
    BY <1>7 DEF Respond, Finish
  <2>2. ASSUME ~cancelled[r] PROVE AnsweredSoFar(r)'
    <3>1. Behind(r) = pos[r] - 1 /\ Behind(r)' = Len(batch[r]) /\ pos[r] - 1 \in Nat
          /\ pos[r] - 1 >= Len(batch[r])
      BY <1>0, <1>1, <2>1 DEF Behind
    <3>2. Rank(r, Len(batch[r])) = Rank(r, pos[r] - 1)
      BY <1>0, <3>1, RankSteps
    <3>3. \A i \in ValidItems(r) : i <= Len(batch[r]) /\ i \in Nat
      BY <1>0 DEF ValidItems
    <3>4. \A i \in ValidItems(r) : i <= pos[r] - 1
      BY <1>0, <3>1, <3>3
    <3>5. /\ Len(answers[r]) = Rank(r, pos[r] - 1)
          /\ \A i \in ValidItems(r) :
                Rank(r, i) \in 1..Len(answers[r]) /\ answers[r][Rank(r, i)].id = batch[r][i].id
      BY <1>4, <2>2, <3>1, <3>4 DEF AnsweredSoFar
    <3> QED BY <1>1, <1>2, <1>3, <2>1, <3>1, <3>2, <3>5 DEF AnsweredSoFar
  <2> QED BY <1>1, <2>1, <2>2 DEF Accepted, Working
<1> QED BY <1>5, <1>6, <1>7

\* A new request has nothing behind it, a cancelled one promises nothing.
LEMMA AcceptArrivals ==
    ASSUME BaseInv, AcceptInv, NEW r \in Requests, TypeOK',
           (\E k \in Kinds : \E txs \in Bodies(k) : Submit(r, k, txs)) \/ Cancel(r)
    PROVE  Accepted(r)'
<1> USE DEF BaseInv, TypeInv, TypeOK, RequestTypes
<1>0. Accepted(r)
  BY DEF AcceptInv
<1>1. ASSUME NEW k \in Kinds, NEW txs \in Bodies(k), Submit(r, k, txs) PROVE Accepted(r)'
  <2>1. /\ pos'[r] = 1 /\ answers'[r] = <<>>
        /\ pc'[r] = "item" \/ (pc'[r] = "done" /\ status'[r] = "400")
    BY <1>0, <1>1 DEF Submit, Accepted
  <2>2. CASE pc'[r] = "done" /\ status'[r] = "400"
    BY <2>2 DEF Accepted, EndedWell, Working
  <2>3. CASE pc'[r] = "item"
    <3>1. Behind(r)' = 0
      BY <2>1, <2>3 DEF Behind
    <3>2. Rank(r, 0)' = 0
      <4>1. (ValidItems(r) \cap 1..0)' = {}
        OBVIOUS
      <4> QED BY <4>1, FS_EmptySet DEF Rank
    <3>3. \A i \in ValidItems(r)' : ~(i <= 0)
      BY DEF ValidItems
    <3>4. Len(answers'[r]) = 0
      BY <2>1
    <3>5. AnsweredSoFar(r)'
      BY <3>1, <3>2, <3>3, <3>4 DEF AnsweredSoFar
    <3> QED BY <2>3, <3>5 DEF Accepted, Working
  <2> QED BY <2>1, <2>2, <2>3
<1>2. CASE Cancel(r)
  <2>1. cancelled'[r] /\ pc' = pc /\ pc[r] # "idle" /\ kind' = kind /\ batch' = batch /\ pos' = pos
    BY <1>2 DEF Cancel, InFlight
  <2>2. ValidItems(r)' = ValidItems(r)
    BY <2>1 DEF ValidItems, Valid
  <2> QED BY <1>0, <2>1, <2>2 DEF Accepted, Working
<1> QED BY <1>1, <1>2

-----------------------------------------------------------------------------
(* The balance of Add calls and answers. *)

\* What stands for an Add changes neither while the answers stay and the case
\* step is neither entered nor left, nor when it is left with the item's answer.
LEMMA SameScorings ==
    ASSUME NEW q \in Requests, answers'[q] = answers[q],
           (pc[q] # "case" /\ pc'[q] # "case") \/ Kept(q)
    PROVE  \A id : ScoringsOf(q, id)' = ScoringsOf(q, id)
BY DEF ScoringsOf, Item, Kept

\* Answering moves a scoring from the one at hand to the last answer, and adds none.
LEMMA AnsweredScoring ==
    ASSUME TypeOK, NEW r \in Requests, NEW a, answers'[r] = Append(answers[r], a), pc'[r] # "case",
           NEW id, (a.id = id /\ ~a.dup) <=> (pc[r] = "case" /\ Item(r).id = id)
    PROVE  ScoringsOf(r, id)' = ScoringsOf(r, id)
<1> DEFINE s == answers[r]
           t == answers'[r]
<1>1. /\ Len(s) \in Nat /\ DOMAIN s = 1..Len(s) /\ DOMAIN t = 1..(Len(s) + 1)
      /\ Len(t) = Len(s) + 1 /\ t[Len(s) + 1] = a /\ \A k \in 1..Len(s) : t[k] = s[k]
  BY DEF TypeOK, RequestTypes
<1>2. ScoringsOf(r, id) = {k \in 1..(Len(s) + 1) :
            \/ k \in DOMAIN s /\ s[k].id = id /\ ~s[k].dup
            \/ k \notin DOMAIN s /\ pc[r] = "case" /\ Item(r).id = id}
  BY DEF ScoringsOf
<1>3. ScoringsOf(r, id)' = {k \in 1..(Len(t) + 1) :
            \/ k \in DOMAIN t /\ t[k].id = id /\ ~t[k].dup
            \/ k \notin DOMAIN t /\ pc'[r] = "case" /\ Item(r)'.id = id}
  BY DEF ScoringsOf
<1> HIDE DEF s, t
<1>4. ASSUME NEW k PROVE k \in ScoringsOf(r, id)' <=> k \in ScoringsOf(r, id)
  <2>1. CASE k \in 1..Len(s)
    BY <1>1, <1>2, <1>3, <2>1
  <2>2. CASE k = Len(s) + 1
    BY <1>1, <1>2, <1>3, <2>2
  <2>3. CASE k \notin 1..(Len(s) + 1)
    BY <1>1, <1>2, <1>3, <2>3
  <2> QED BY <1>1, <2>1, <2>2, <2>3
<1> QED BY <1>4

\* An id stays balanced while neither its scorings nor its Add calls change.
LEMMA BalancedFrame ==
    ASSUME NEW id \in CaseIDs, Balanced(id), timesScored'[id] = timesScored[id],
           \A q \in Requests : ScoringsOf(q, id)' = ScoringsOf(q, id)
    PROVE  Balanced(id)'
<1>1. Scorings(id)' = Scorings(id)
  BY DEF Scorings
<1> QED BY <1>1 DEF Balanced

\* Add counts one more, and the next answer stands for it.
LEMMA BalancedPersist ==
    ASSUME BaseInv, AcceptInv, NEW r \in Requests, Persist(r), NEW id \in CaseIDs
    PROVE  Balanced(id)'
<1>1. TypeOK /\ Balanced(id)
  BY DEF BaseInv, TypeInv, AcceptInv
<1>2. /\ pc[r] = "persist" /\ pc'[r] = "case" /\ answers' = answers /\ batch' = batch /\ pos' = pos
      /\ timesScored' = [timesScored EXCEPT ![Item(r).id] = timesScored[Item(r).id] + 1]
      /\ Item(r)' = Item(r)
  BY <1>1 DEF Persist, TypeOK, RequestTypes, Item
<1>3. \A q \in Requests : q # r => ScoringsOf(q, id)' = ScoringsOf(q, id)
  <2>1. \A q \in Requests : q # r => Kept(q)
    BY <1>1, OthersKept DEF Step
  <2> QED BY <1>2, <2>1, SameScorings
<1>4. CASE id # Item(r).id
  <2>1. ScoringsOf(r, id)' = ScoringsOf(r, id)
    BY <1>2, <1>4 DEF ScoringsOf
  <2>2. timesScored'[id] = timesScored[id]
    BY <1>1, <1>2, <1>4 DEF TypeOK, TallyTypes
  <2> QED BY <1>1, <1>3, <2>1, <2>2, BalancedFrame
<1>5. CASE id = Item(r).id
  <2> DEFINE n == Len(answers[r]) + 1
  <2>1. n \in Nat /\ n \notin DOMAIN answers[r]
    BY <1>1 DEF TypeOK, RequestTypes
  <2>2. ScoringsOf(r, id)' = ScoringsOf(r, id) \cup {n} /\ n \notin ScoringsOf(r, id)
    <3>1. ScoringsOf(r, id) = {k \in 1..n : k \in DOMAIN answers[r] /\ answers[r][k].id = id
                                             /\ ~answers[r][k].dup}
      BY <1>2 DEF ScoringsOf
    <3>2. ScoringsOf(r, id)' = {k \in 1..n :
              \/ k \in DOMAIN answers[r] /\ answers[r][k].id = id /\ ~answers[r][k].dup
              \/ k \notin DOMAIN answers[r]}
      BY <1>2, <1>5 DEF ScoringsOf
    <3>3. DOMAIN answers[r] = 1..(n - 1) /\ n >= 1
      BY <1>1 DEF TypeOK, RequestTypes
    <3> HIDE DEF n
    <3>4. \A k : k \in 1..n /\ k \notin DOMAIN answers[r] <=> k = n
      BY <2>1, <3>3
    <3> QED BY <2>1, <3>1, <3>2, <3>4
  <2> HIDE DEF n
  <2>3. Scorings(id)' = Scorings(id) \cup {<<r, n>>} /\ <<r, n>> \notin Scorings(id)
    <3>1. \A x : x \in Scorings(id) <=>
              \E q \in Requests : \E k \in ScoringsOf(q, id) : x = <<q, k>>
      BY DEF Scorings
    <3>2. \A x : x \in Scorings(id)' <=>
              \E q \in Requests : \E k \in ScoringsOf(q, id)' : x = <<q, k>>
      BY DEF Scorings
    <3>3. ASSUME NEW x \in Scorings(id)' PROVE x \in Scorings(id) \cup {<<r, n>>}
      <4>0. PICK q \in Requests : \E k \in ScoringsOf(q, id)' : x = <<q, k>>
        BY <3>2
      <4>1. PICK k \in ScoringsOf(q, id)' : x = <<q, k>>
        BY <4>0
      <4>2. CASE q # r
        BY <1>3, <3>1, <4>1, <4>2
      <4>3. CASE q = r
        BY <2>2, <3>1, <4>1, <4>3
      <4> QED BY <4>2, <4>3
    <3>4. ASSUME NEW x \in Scorings(id) PROVE x \in Scorings(id)'
      <4>0. PICK q \in Requests : \E k \in ScoringsOf(q, id) : x = <<q, k>>
        BY <3>1, <3>4
      <4>1. PICK k \in ScoringsOf(q, id) : x = <<q, k>>
        BY <4>0
      <4>2. k \in ScoringsOf(q, id)'
        BY <1>3, <2>2, <4>1
      <4> QED BY <3>2, <4>1, <4>2
    <3>5. <<r, n>> \in Scorings(id)'
      BY <2>2, <3>2
    <3>6. <<r, n>> \notin Scorings(id)
      <4> SUFFICES ASSUME <<r, n>> \in Scorings(id) PROVE FALSE
        OBVIOUS
      <4>0. PICK q \in Requests : \E k \in ScoringsOf(q, id) : <<r, n>> = <<q, k>>
        BY <3>1
      <4>1. PICK k \in ScoringsOf(q, id) : <<r, n>> = <<q, k>>
        BY <4>0
      <4> QED BY <2>2, <4>1
    <3> QED BY <3>3, <3>4, <3>5, <3>6
  <2>4. timesScored'[id] = timesScored[id] + 1
    BY <1>1, <1>2, <1>5 DEF TypeOK, TallyTypes
  <2>5. IsFiniteSet(Scorings(id)) /\ timesScored[id] = Cardinality(Scorings(id))
    BY <1>1 DEF Balanced
  <2>6. /\ IsFiniteSet(Scorings(id) \cup {<<r, n>>})
        /\ Cardinality(Scorings(id) \cup {<<r, n>>}) = Cardinality(Scorings(id)) + 1
    BY <2>3, <2>5, FS_AddElement
  <2> QED BY <2>3, <2>4, <2>5, <2>6 DEF Balanced
<1> QED BY <1>4, <1>5

\* Every other step of a request keeps what stands for an Add, and Add's count.
LEMMA BalancedStep ==
    ASSUME BaseInv, AcceptInv, NEW r \in Requests, NEW id \in CaseIDs, ~Persist(r),
           \/ Step(r) \/ Cancel(r)
           \/ \E k \in Kinds : \E txs \in Bodies(k) : Submit(r, k, txs)
    PROVE  Balanced(id)'
<1>1. TypeOK /\ Balanced(id)
  BY DEF BaseInv, TypeInv, AcceptInv
<1> USE DEF TypeOK, RequestTypes
<1>2. \A q \in Requests : q # r => ScoringsOf(q, id)' = ScoringsOf(q, id)
  <2>1. \A q \in Requests : q # r => Kept(q)
    BY <1>1, OthersKept
  <2>2. \A q \in Requests : q # r => answers'[q] = answers[q]
    BY <2>1 DEF Kept
  <2> QED BY <2>1, <2>2, SameScorings
<1> DEFINE Good == ScoringsOf(r, id)' = ScoringsOf(r, id) /\ timesScored' = timesScored
           Quiet == answers' = answers /\ timesScored' = timesScored
                    /\ pc[r] # "case" /\ pc'[r] # "case"
<1>3. Quiet => Good
  BY SameScorings
<1>4. ASSUME RejectInvalid(r) \/ AbortCancelled(r) \/ Admit(r) PROVE Quiet
  BY <1>1, <1>4 DEF RejectInvalid, AbortCancelled, Admit, HasItem, GiveUp, Finish
<1>5. ASSUME ReadHistory(r) \/ RunEnsemble(r) \/ ApplyRules(r) \/ Respond(r) PROVE Quiet
  BY <1>1, <1>5 DEF ReadHistory, RunEnsemble, ApplyRules, Respond, Finish
<1>6. ASSUME NEW k \in Kinds, NEW txs \in Bodies(k), Submit(r, k, txs) PROVE Quiet
  BY <1>1, <1>6 DEF Submit
<1>7. ASSUME Cancel(r) PROVE Good
  <2>1. answers'[r] = answers[r] /\ pc' = pc /\ batch' = batch /\ pos' = pos
        /\ timesScored' = timesScored
    BY <1>7 DEF Cancel
  <2> QED BY <2>1 DEF ScoringsOf, Item
<1>8. ASSUME AnswerDuplicate(r) PROVE Good
  <2>1. PICK c : answers' = [answers EXCEPT ![r] =
                     Append(answers[r], [id |-> c, dup |-> TRUE, outcome |-> Duplicate])]
    BY <1>8 DEF AnswerDuplicate, Collect
  <2>2. pc[r] = "item" /\ pc'[r] = "item" /\ timesScored' = timesScored
    BY <1>8 DEF AnswerDuplicate, HasItem
  <2>3. PICK a : a = [id |-> c, dup |-> TRUE, outcome |-> Duplicate]
    OBVIOUS
  <2>4. answers'[r] = Append(answers[r], a) /\ a.dup
    BY <1>1, <2>1, <2>3
  <2>5. ScoringsOf(r, id)' = ScoringsOf(r, id)
    BY <1>1, <2>2, <2>4, AnsweredScoring
  <2> QED BY <2>2, <2>5
<1>9. ASSUME OpenCase(r) PROVE Good
  <2>1. PICK a : /\ a = [id |-> Item(r).id, dup |-> FALSE, outcome |-> outcome[r]]
                 /\ answers' = [answers EXCEPT ![r] = Append(answers[r], a)]
    BY <1>9 DEF OpenCase, Collect
  <2>2. pc[r] = "case" /\ pc'[r] = "item" /\ timesScored' = timesScored
    BY <1>1, <1>9 DEF OpenCase
  <2>3. answers'[r] = Append(answers[r], a) /\ a.id = Item(r).id /\ ~a.dup
    BY <1>1, <2>1
  <2>4. (a.id = id /\ ~a.dup) <=> (pc[r] = "case" /\ Item(r).id = id)
    BY <2>2, <2>3
  <2>5. answers'[r] = Append(answers[r], a) /\ pc'[r] # "case"
    BY <2>2, <2>3
  <2> HIDE DEF Good
  <2>6. ScoringsOf(r, id)' = ScoringsOf(r, id)
    BY ONLY <1>1, <2>4, <2>5, AnsweredScoring
  <2> QED BY <2>2, <2>6 DEF Good
<1> HIDE DEF Quiet
<1>10. Good
  BY <1>3, <1>4, <1>5, <1>6, <1>7, <1>8, <1>9 DEF Step
<1> QED BY <1>1, <1>2, <1>10, BalancedFrame

\* A duplicate is answered for an id that is in the seen set, which only grows.
LEMMA DuplicatesStep ==
    ASSUME BaseInv, AcceptInv, NEW r \in Requests,
           \/ Step(r) \/ Cancel(r)
           \/ \E k \in Kinds : \E txs \in Bodies(k) : Submit(r, k, txs)
    PROVE  DuplicatesSeen'
<1>1. TypeOK /\ DuplicatesSeen
  BY DEF BaseInv, TypeInv, AcceptInv
<1> USE DEF TypeOK, RequestTypes
<1> DEFINE Good == /\ seenIDs \subseteq seenIDs'
                   /\ \/ answers' = answers
                      \/ \E a : /\ answers' = [answers EXCEPT ![r] = Append(answers[r], a)]
                                /\ a.dup => a.id \in seenIDs
<1>2. ASSUME RejectInvalid(r) \/ AbortCancelled(r) \/ Admit(r) PROVE Good
  BY <1>2 DEF RejectInvalid, AbortCancelled, Admit
<1>3. ASSUME ReadHistory(r) \/ RunEnsemble(r) \/ ApplyRules(r) \/ Respond(r) PROVE Good
  BY <1>3 DEF ReadHistory, RunEnsemble, ApplyRules, Respond
<1>4. ASSUME NEW k \in Kinds, NEW txs \in Bodies(k), Submit(r, k, txs) PROVE Good
  BY <1>4 DEF Submit
<1>5. ASSUME Cancel(r) PROVE Good
  BY <1>5 DEF Cancel
<1>6. ASSUME Persist(r) PROVE Good
  BY <1>6 DEF Persist, Add, MarkSeen
<1>7. ASSUME AnswerDuplicate(r) PROVE Good
  <2>1. PICK c \in seenIDs : answers' = [answers EXCEPT ![r] =
                     Append(answers[r], [id |-> c, dup |-> TRUE, outcome |-> Duplicate])]
    BY <1>7 DEF AnswerDuplicate, Collect, SeenBefore
  <2>2. seenIDs' = seenIDs
    BY <1>7 DEF AnswerDuplicate
  <2>3. [id |-> c, dup |-> TRUE, outcome |-> Duplicate].id \in seenIDs
    BY <2>1
  <2> QED BY <2>1, <2>2, <2>3
<1>8. ASSUME OpenCase(r) PROVE Good
  <2>1. PICK a : /\ a = [id |-> Item(r).id, dup |-> FALSE, outcome |-> outcome[r]]
                 /\ answers' = [answers EXCEPT ![r] = Append(answers[r], a)]
    BY <1>8 DEF OpenCase, Collect
  <2>2. seenIDs' = seenIDs /\ ~a.dup
    BY <1>8, <2>1 DEF OpenCase
  <2> QED BY <2>1, <2>2
<1>9. Good
  BY <1>2, <1>3, <1>4, <1>5, <1>6, <1>7, <1>8 DEF Step
<1>10. CASE answers' = answers
  BY <1>1, <1>9, <1>10 DEF DuplicatesSeen
<1>11. ASSUME NEW a, answers' = [answers EXCEPT ![r] = Append(answers[r], a)],
              a.dup => a.id \in seenIDs
       PROVE  DuplicatesSeen'
  <2> SUFFICES ASSUME NEW q \in Requests, NEW k \in DOMAIN answers'[q], answers'[q][k].dup
               PROVE  answers'[q][k].id \in seenIDs'
    BY DEF DuplicatesSeen
  <2>1. CASE q # r
    <3>1. answers'[q] = answers[q]
      BY <1>1, <1>11, <2>1
    <3> QED BY <1>1, <1>9, <3>1 DEF DuplicatesSeen
  <2>2. CASE q = r
    <3>1. answers[r] \in Seq(Answers) /\ answers'[r] = Append(answers[r], a)
      BY <1>1, <1>11
    <3>2. /\ DOMAIN answers[r] = 1..Len(answers[r]) /\ DOMAIN answers'[r] = 1..(Len(answers[r]) + 1)
          /\ answers'[r][Len(answers[r]) + 1] = a /\ Len(answers[r]) \in Nat
          /\ \A j \in 1..Len(answers[r]) : answers'[r][j] = answers[r][j]
      BY <3>1
    <3>3. CASE k = Len(answers[r]) + 1
      BY <1>9, <1>11, <2>2, <3>2, <3>3
    <3>4. CASE k \in 1..Len(answers[r])
      BY <1>1, <1>9, <2>2, <3>2, <3>4 DEF DuplicatesSeen
    <3> QED BY <2>2, <3>2, <3>3, <3>4
  <2> QED BY <2>1, <2>2
<1> QED BY <1>9, <1>10, <1>11

\* Every step keeps the items behind it answered and the answers in balance.
LEMMA AcceptNext == ASSUME BaseInv, AcceptInv, [Next]_vars PROVE AcceptInv'
<1>0. TypeOK /\ TypeOK'
  BY TypeNext DEF BaseInv, TypeInv
<1>1. ASSUME NEW r \in Requests,
             \/ Step(r) \/ Cancel(r)
             \/ \E k \in Kinds : \E txs \in Bodies(k) : Submit(r, k, txs)
      PROVE  AcceptInv'
  <2>1. Accepted(r)'
    BY <1>0, <1>1, AcceptGiveUp, AcceptLookUp, AcceptWork, AcceptArrivals DEF Step
  <2>2. ASSUME NEW q \in Requests, q # r PROVE Accepted(q)'
    <3>1. Kept(q)
      BY <1>0, <1>1, <2>2, OthersKept
    <3> QED BY <3>1, AcceptedFrame DEF Kept, AcceptInv
  <2>3. \A id \in CaseIDs : Balanced(id)'
    BY <1>1, BalancedStep, BalancedPersist
  <2>4. DuplicatesSeen'
    BY <1>1, DuplicatesStep
  <2> QED BY <2>1, <2>2, <2>3, <2>4 DEF AcceptInv
<1>2. ASSUME UNCHANGED requestVars, seenIDs \subseteq seenIDs', timesScored' = timesScored
      PROVE  AcceptInv'
  <2>1. \A q \in Requests : Kept(q) /\ answers'[q] = answers[q]
    BY <1>2 DEF Kept, requestVars
  <2>2. \A q \in Requests : Accepted(q)'
    BY <2>1, AcceptedFrame DEF AcceptInv, Kept
  <2>3. \A id \in CaseIDs : Balanced(id)'
    BY <1>2, <2>1, SameScorings, BalancedFrame DEF AcceptInv
  <2>4. DuplicatesSeen'
    BY <1>2 DEF AcceptInv, DuplicatesSeen, requestVars
  <2> QED BY <2>2, <2>3, <2>4 DEF AcceptInv
<1>3. CASE LoadSeed \/ ReloadRules \/ Review \/ \E c \in CaseIDs : Hook(c)
  <2>1. UNCHANGED requestVars /\ seenIDs \subseteq seenIDs' /\ timesScored' = timesScored
    BY <1>3 DEF LoadSeed, Seed, MarkSeen, ReloadRules, Review, Hook, storeVars, auxVars
  <2> QED BY <1>2, <2>1
<1>4. CASE UNCHANGED vars
  BY <1>2, <1>4 DEF vars, storeVars, auxVars
<1> QED BY <1>1, <1>3, <1>4 DEF Next

\* Every valid item of a request that ended well, and was not cancelled, is
\* answered in its place; what is not answered as a duplicate was added to the
\* store for this very item.
THEOREM AcceptedTheorem == Spec => []AcceptedIsRecorded
<1>1. Init => AcceptInv
  <2> SUFFICES ASSUME Init PROVE AcceptInv
    OBVIOUS
  <2>1. \A r \in Requests : Accepted(r)
    BY DEF Init, Accepted, Working
  <2>2. \A id \in CaseIDs : Scorings(id) = {} /\ timesScored[id] = 0
    BY DEF Init, Scorings, ScoringsOf
  <2>3. \A id \in CaseIDs : Balanced(id)
    BY <2>2, FS_EmptySet DEF Balanced
  <2>4. DuplicatesSeen
    BY DEF Init, DuplicatesSeen
  <2> QED BY <2>1, <2>3, <2>4 DEF AcceptInv
<1>2. BaseInv /\ AcceptInv /\ [Next]_vars => AcceptInv'
  BY AcceptNext
<1>3. BaseInv /\ AcceptInv => AcceptedIsRecorded
  <2> SUFFICES ASSUME BaseInv, AcceptInv PROVE AcceptedIsRecorded
    OBVIOUS
  <2>1. ASSUME NEW r \in Requests, EndedWell(r)
        PROVE  /\ Len(answers[r]) = Cardinality(ValidItems(r))
               /\ \A i \in ValidItems(r) : answers[r][Rank(r, i)].id = batch[r][i].id
    <3>1. TypeOK /\ Len(batch[r]) \in Nat /\ DOMAIN batch[r] = 1..Len(batch[r])
      BY DEF BaseInv, TypeInv, TypeOK, RequestTypes
    <3>2. AnsweredSoFar(r) /\ Behind(r) = Len(batch[r])
      BY <2>1 DEF AcceptInv, Accepted, EndedWell, Behind
    <3>3. Rank(r, Len(batch[r])) = Cardinality(ValidItems(r))
      BY <3>1, RankSteps
    <3>4. \A i \in ValidItems(r) : i <= Behind(r)
      BY <3>1, <3>2 DEF ValidItems
    <3> QED BY <3>2, <3>3, <3>4 DEF AnsweredSoFar
  <2>2. \A id \in CaseIDs : timesScored[id] = Cardinality(Scorings(id))
    BY DEF AcceptInv, Balanced
  <2>3. \A r \in Requests : \A k \in DOMAIN answers[r] :
            answers[r][k].dup => answers[r][k].id \in seenIDs
    BY DEF AcceptInv, DuplicatesSeen
  <2> QED BY <2>1, <2>2, <2>3 DEF AcceptedIsRecorded
<1> QED BY <1>1, <1>2, <1>3, BaseTheorem, PTL DEF Spec

-----------------------------------------------------------------------------
(***************************************************************************)
(* Idempotency of the scoring path, for any number of requests, any bodies *)
(* and any interleaving, when the requests in progress carry distinct ids. *)
(* The argument: a request owns the ids its client waits for, owners are   *)
(* disjoint, and only the owner of an id records it; so between a          *)
(* request's look at seenIDs and its Add nobody records the id it looked   *)
(* up, and Add, the case and the alert each happen once.  From that:       *)
(* answers stay on file, the statistics count transactions, analysts' work *)
(* is kept, and the path implements the abstract book of IdempotentScoring.*)
(***************************************************************************)

IInv == BaseInv /\ IdempotencyInv

\* The part of the shape the arguments below use.
LEMMA Shape ==
    ASSUME BaseInv
    PROVE  /\ pc \in [Requests -> {"idle", "item", "ensemble", "population", "rules", "persist",
                                   "case", "done"}]
           /\ batch \in [Requests -> Seq(Transaction)]
           /\ pos \in [Requests -> Nat \ {0}]
           /\ outcome \in [Requests -> Outcomes]
           /\ outstanding \in [Requests -> SUBSET CaseIDs]
           /\ kind \in [Requests -> {"single", "batch", "kafka"}]
           /\ seenIDs \subseteq CaseIDs
           /\ alerts \in [CaseIDs -> Nat]
           /\ timesScored \in [CaseIDs -> Nat]
           /\ lastOutcome \in [CaseIDs -> Outcomes]
           /\ cases \in [CaseIDs -> Case]
           /\ loaded \in 0..Len(SeedData)
BY DEF BaseInv, TypeInv, TypeOK, StoreTypes, CaseTypes, RequestTypes, TallyTypes

\* A working request's transaction has an id.
LEMMA WorkShape ==
    ASSUME BaseInv, NEW r \in Requests, Working(r)
    PROVE  pos[r] \in 1..Len(batch[r]) /\ Item(r).id \in CaseIDs
BY DEF BaseInv, TypeInv, WorkInRange

\* What the ledger says of an id nobody has recorded yet.
LEMMA UnseenIsFresh ==
    ASSUME IInv, NEW id \in CaseIDs, id \notin seenIDs
    PROVE  timesScored[id] = 0 /\ alerts[id] = 0 /\ ~Exists(id)
<1>1. ScoredIsSeen /\ CasesArePersisted /\ AlertedIsScored
  BY DEF IInv, BaseInv, LedgerInv, IdempotencyInv
<1>2. timesScored[id] \in Nat /\ alerts[id] \in Nat
  BY Shape DEF IInv
<1>3. ~(timesScored[id] > 0) /\ ~Exists(id)
  BY <1>1 DEF ScoredIsSeen, CasesArePersisted
<1>4. ~(alerts[id] > 0)
  BY <1>1, <1>3 DEF AlertedIsScored
<1> QED BY <1>2, <1>3, <1>4

-----------------------------------------------------------------------------
\* A request that neither gains ids nor starts work on another transaction.
Stays(q) ==
    /\ outstanding'[q] \subseteq outstanding[q]
    /\ InFlight(q)' =>
          /\ InFlight(q)
          /\ outstanding'[q] = outstanding[q]
          /\ \A i \in DOMAIN batch'[q] : batch'[q][i].id \in outstanding[q] \cup {NoID}
    /\ Working(q)' =>
          /\ Working(q)
          /\ Item(q)'.id = Item(q).id
          /\ pc'[q] = "case" <=> pc[q] = "case"
          /\ pc'[q] = "case" => outcome'[q] = outcome[q]

Same(q) ==
    /\ pc'[q] = pc[q] /\ batch'[q] = batch[q] /\ pos'[q] = pos[q]
    /\ outstanding'[q] = outstanding[q] /\ outcome'[q] = outcome[q]

\* A request whose own variables are untouched stays.
LEMMA SameStays ==
    ASSUME IInv, NEW q \in Requests, Same(q)
    PROVE  Stays(q)
BY DEF IInv, IdempotencyInv, BatchIsOwned, Same, Stays, InFlight, Working, Item

\* Steps that leave store, cases and ledger alone and after which every request
\* stays keep the invariant.
LEMMA StaysKeeps ==
    ASSUME IInv, \A q \in Requests : Stays(q),
           UNCHANGED <<loaded, seenIDs, timesScored, lastOutcome, alerts, cases>>
    PROVE  IdempotencyInv'
<1>1. QuietUntilLoaded'
  BY DEF IInv, IdempotencyInv, QuietUntilLoaded, Serving, Stays
<1>2. OwnersAreDisjoint'
  BY DEF IInv, IdempotencyInv, OwnersAreDisjoint, Stays
<1>3. BatchIsOwned'
  BY DEF IInv, IdempotencyInv, BatchIsOwned, Stays
<1>4. CheckStillHolds'
  <2> SUFFICES ASSUME NEW q \in Requests, Working(q)'
               PROVE  /\ Item(q)'.id \in outstanding'[q]
                      /\ pc'[q] # "case" => Item(q)'.id \notin seenIDs'
    BY DEF CheckStillHolds
  <2>1. /\ Working(q) /\ Item(q)'.id = Item(q).id
        /\ pc'[q] = "case" <=> pc[q] = "case"
    BY DEF Stays
  <2>2. InFlight(q)'
    BY DEF Working, InFlight
  <2>3. outstanding'[q] = outstanding[q]
    BY <2>2 DEF Stays
  <2>4. CheckStillHolds
    BY DEF IInv, IdempotencyInv
  <2> QED BY <2>1, <2>3, <2>4 DEF CheckStillHolds
<1>5. CaseIsNext'
  <2> SUFFICES ASSUME NEW q \in Requests, pc'[q] = "case"
               PROVE  /\ timesScored'[Item(q)'.id] = 1
                      /\ lastOutcome'[Item(q)'.id] = outcome'[q]
                      /\ ~(cases'[Item(q)'.id].status # "absent")
                      /\ alerts'[Item(q)'.id] = 0
    BY DEF CaseIsNext, Exists
  <2>1. Working(q)'
    BY DEF Working
  <2>2. pc[q] = "case" /\ Item(q)'.id = Item(q).id /\ outcome'[q] = outcome[q]
    BY <2>1 DEF Stays
  <2>3. CaseIsNext
    BY DEF IInv, IdempotencyInv
  <2> QED BY <2>2, <2>3 DEF CaseIsNext, Exists
<1>6. AlertedIsScored' /\ AtMostOnceScored' /\ OneAlertEach'
  BY DEF IInv, IdempotencyInv, AlertedIsScored, AtMostOnceScored, OneAlertEach
<1> QED BY <1>1, <1>2, <1>3, <1>4, <1>5, <1>6 DEF IdempotencyInv

-----------------------------------------------------------------------------
\* The steps of a request that write nothing shared.
LEMMA IdemQuiet ==
    ASSUME IInv, NEW r \in Requests,
           \/ RejectInvalid(r) \/ AbortCancelled(r) \/ Respond(r) \/ Cancel(r)
           \/ ReadHistory(r) \/ RunEnsemble(r) \/ ApplyRules(r)
    PROVE  IdempotencyInv'
<1> USE Shape DEF IInv
<1>1. UNCHANGED <<loaded, seenIDs, timesScored, lastOutcome, alerts, cases>>
  BY DEF RejectInvalid, AbortCancelled, Respond, Cancel, ReadHistory, RunEnsemble, ApplyRules,
         storeVars, caseVars, auxVars
<1>2. ASSUME NEW q \in Requests, q # r PROVE Same(q)
  BY <1>2 DEF RejectInvalid, AbortCancelled, GiveUp, Finish, Respond, Cancel, ReadHistory,
              RunEnsemble, ApplyRules, Same
<1>3. Stays(r)
  <2>1. BatchIsOwned
    BY DEF IdempotencyInv
  <2>2. CASE RejectInvalid(r) \/ AbortCancelled(r) \/ Respond(r)
    <3>1. pc[r] = "item" /\ batch' = batch
      BY <2>2 DEF RejectInvalid, AbortCancelled, Respond, HasItem
    <3>2. \/ pc' = pc /\ outstanding' = outstanding
          \/ pc'[r] = "done" /\ outstanding'[r] = {}
      BY <2>2 DEF RejectInvalid, AbortCancelled, Respond, GiveUp, Finish
    <3> QED BY <2>1, <3>1, <3>2 DEF Stays, InFlight, Working, BatchIsOwned
  <2>3. CASE Cancel(r)
    BY <2>1, <2>3 DEF Cancel, Stays, InFlight, Working, Item, BatchIsOwned
  <2>4. CASE ReadHistory(r) \/ RunEnsemble(r) \/ ApplyRules(r)
    BY <2>1, <2>4 DEF ReadHistory, RunEnsemble, ApplyRules, Stays, InFlight, Working, Item,
                      BatchIsOwned
  <2> QED BY <2>2, <2>3, <2>4
<1> QED BY <1>1, <1>2, <1>3, SameStays, StaysKeeps

\* With distinct ids, an id that is found in the store was the client's own.
LEMMA SeenIsOwnID ==
    ASSUME ~OverlappingDuplicates, NEW tx, NEW id \in IDsFor(tx)
    PROVE  /\ tx.id # NoID => id = tx.id
           /\ tx.id = NoID => id \in LiveIDs /\ id \notin seenIDs /\ ~Busy({id})
BY DEF IDsFor

\* Answering a duplicate touches nothing the ids' owners rely on.
LEMMA IdemAnswerDuplicate ==
    ASSUME ~OverlappingDuplicates, IInv, NEW r \in Requests, AnswerDuplicate(r)
    PROVE  IdempotencyInv'
<1> USE Shape DEF IInv
<1>1. PICK id \in IDsFor(Item(r)) :
          SeenBefore(id) /\ batch' = [batch EXCEPT ![r] = SetID(batch[r], pos[r], id)]
  BY DEF AnswerDuplicate
<1>2. /\ UNCHANGED <<loaded, seenIDs, timesScored, lastOutcome, alerts, cases, pc, outstanding,
                     outcome>>
      /\ pc[r] = "item" /\ pos[r] \in 1..Len(batch[r])
      /\ pos' = [pos EXCEPT ![r] = pos[r] + 1]
  BY DEF AnswerDuplicate, HasItem, Collect, storeVars, caseVars, auxVars
<1>3. id = Item(r).id /\ id \in CaseIDs
  BY <1>1, SeenIsOwnID DEF SeenBefore
<1>4. \A i \in DOMAIN batch'[r] : batch'[r][i].id \in outstanding[r] \cup {NoID}
  <2>1. batch'[r] = SetID(batch[r], pos[r], id) /\ batch[r] \in Seq(Transaction)
    BY <1>1
  <2>2. \A i \in 1..Len(batch[r]) : batch[r][i].id \in outstanding[r] \cup {NoID}
    <3>1. BatchIsOwned /\ InFlight(r)
      BY <1>2 DEF IdempotencyInv, InFlight
    <3>2. DOMAIN batch[r] = 1..Len(batch[r])
      BY <2>1
    <3> QED BY <3>1, <3>2 DEF BatchIsOwned
  <2>3. /\ Len(batch'[r]) = Len(batch[r]) /\ batch'[r] \in Seq(Transaction)
        /\ batch'[r][pos[r]].id = id
        /\ \A j \in 1..Len(batch[r]) : j # pos[r] => batch'[r][j] = batch[r][j]
    <3> HIDE Shape DEF IInv
    <3>1. pos[r] \in 1..Len(batch[r]) /\ id \in CaseIDs
      BY <1>2, <1>3
    <3>2. Filled(SetID(batch[r], pos[r], id), batch[r], pos[r], id)
      BY <2>1, <3>1, SetIDType
    <3>3. Filled(batch'[r], batch[r], pos[r], id)
      BY <2>1, <3>2
    <3> QED BY <3>3 DEF Filled
  <2>4. id \in outstanding[r] \cup {NoID}
    BY <1>2, <1>3, <2>2 DEF Item
  <2>5. DOMAIN batch'[r] = 1..Len(batch[r])
    BY <2>3
  <2> QED BY <2>2, <2>3, <2>4, <2>5
<1>5. Stays(r)
  BY <1>2, <1>4 DEF Stays, InFlight, Working
<1>6. ASSUME NEW q \in Requests, q # r PROVE Same(q)
  BY <1>1, <1>2, <1>6 DEF Same
<1> QED BY <1>2, <1>5, <1>6, SameStays, StaysKeeps

\* A new request brings only ids nobody waits for.
LEMMA IdemSubmit ==
    ASSUME ~OverlappingDuplicates, IInv, NEW r \in Requests, NEW k \in Kinds,
           NEW txs \in Bodies(k), Submit(r, k, txs)
    PROVE  IdempotencyInv'
<1> USE Shape DEF IInv
<1>1. /\ UNCHANGED <<loaded, seenIDs, timesScored, lastOutcome, alerts, cases, pos, outcome>>
      /\ pc[r] = "idle" /\ Serving /\ ~Busy(IdsOf(txs))
  BY DEF Submit, storeVars, caseVars, auxVars
<1>2. CASE pc' = [pc EXCEPT ![r] = "done"] /\ UNCHANGED <<batch, outstanding>>
  <2>1. ASSUME NEW q \in Requests PROVE Stays(q)
    <3>1. CASE q = r
      BY <1>2, <3>1 DEF Stays, InFlight, Working
    <3>2. CASE q # r
      <4>1. Same(q)
        BY <1>1, <1>2, <3>2 DEF Same
      <4> QED BY <4>1, SameStays
    <3> QED BY <3>1, <3>2
  <2> QED BY <1>1, <2>1, StaysKeeps
<1>3. CASE /\ pc' = [pc EXCEPT ![r] = "item"]
           /\ batch' = [batch EXCEPT ![r] = txs]
           /\ outstanding' = [outstanding EXCEPT ![r] = IdsOf(txs)]
  <2>1. QuietUntilLoaded'
    BY <1>1 DEF QuietUntilLoaded, Serving
  <2>2. OwnersAreDisjoint'
    <3>1. \A q \in Requests : outstanding[q] \cap IdsOf(txs) = {}
      BY <1>1 DEF Busy
    <3>2. OwnersAreDisjoint
      BY DEF IdempotencyInv
    <3> QED BY <1>3, <3>1, <3>2 DEF OwnersAreDisjoint
  <2>3. BatchIsOwned'
    <3>1. BatchIsOwned
      BY DEF IdempotencyInv
    <3>2. \A i \in DOMAIN txs : txs[i].id \in IdsOf(txs) \cup {NoID}
      BY DEF IdsOf
    <3> QED BY <1>3, <3>1, <3>2 DEF BatchIsOwned, InFlight
  <2>4. \A q \in Requests : Working(q)' => q # r /\ Working(q) /\ Same(q)
    BY <1>1, <1>3 DEF Working, Same
  <2>5. CheckStillHolds'
    BY <1>1, <2>4 DEF IdempotencyInv, CheckStillHolds, Same, Item, Working
  <2>6. CaseIsNext'
    <3> SUFFICES ASSUME NEW q \in Requests, pc'[q] = "case"
                 PROVE  /\ timesScored'[Item(q)'.id] = 1
                        /\ lastOutcome'[Item(q)'.id] = outcome'[q]
                        /\ ~(cases'[Item(q)'.id].status # "absent")
                        /\ alerts'[Item(q)'.id] = 0
      BY DEF CaseIsNext, Exists
    <3>1. Working(q)'
      BY DEF Working
    <3>2. Same(q) /\ CaseIsNext
      BY <2>4, <3>1 DEF IdempotencyInv
    <3> QED BY <1>1, <3>2 DEF CaseIsNext, Exists, Same, Item
  <2>7. AlertedIsScored' /\ AtMostOnceScored' /\ OneAlertEach'
    BY <1>1 DEF IdempotencyInv, AlertedIsScored, AtMostOnceScored, OneAlertEach
  <2> QED BY <2>1, <2>2, <2>3, <2>5, <2>6, <2>7 DEF IdempotencyInv
<1> QED BY <1>2, <1>3 DEF Submit

-----------------------------------------------------------------------------
\* What the invariant says of one request at work, and of one about to open a
\* case.
LEMMA WorkFacts ==
    ASSUME IInv, NEW q \in Requests, Working(q)
    PROVE  /\ Item(q).id \in CaseIDs /\ Item(q).id \in outstanding[q]
           /\ pc[q] # "case" => Item(q).id \notin seenIDs
BY WorkShape DEF IInv, IdempotencyInv, CheckStillHolds

\* What the invariant says of a request about to open its case.
LEMMA CaseFacts ==
    ASSUME IInv, NEW q \in Requests, pc[q] = "case"
    PROVE  LET id == Item(q).id IN
           /\ id \in CaseIDs /\ id \in outstanding[q]
           /\ timesScored[id] = 1 /\ lastOutcome[id] = outcome[q]
           /\ cases[id].status = "absent" /\ alerts[id] = 0
<1>1. Working(q)
  BY DEF Working
<1>2. CaseIsNext
  BY DEF IInv, IdempotencyInv
<1> QED BY <1>1, <1>2, WorkFacts DEF CaseIsNext, Exists

\* Two requests at work have different ids.
LEMMA WorkersDiffer ==
    ASSUME IInv, NEW q \in Requests, NEW r \in Requests, q # r, Working(q), Working(r)
    PROVE  Item(q).id # Item(r).id
<1>1. Item(q).id \in outstanding[q] /\ Item(r).id \in outstanding[r]
  BY WorkFacts
<1>2. OwnersAreDisjoint
  BY DEF IInv, IdempotencyInv
<1> QED BY <1>1, <1>2 DEF OwnersAreDisjoint

\* The check: the request becomes the owner of an id nobody recorded.
LEMMA IdemAdmit ==
    ASSUME ~OverlappingDuplicates, IInv, NEW r \in Requests, Admit(r)
    PROVE  IdempotencyInv'
<1>0. BaseInv /\ IdempotencyInv
  BY DEF IInv
<1>1. PICK id \in IDsFor(Item(r)) :
          /\ ~SeenBefore(id)
          /\ batch' = [batch EXCEPT ![r] = SetID(batch[r], pos[r], id)]
          /\ outstanding' = [outstanding EXCEPT ![r] = outstanding[r] \cup {id}]
  BY DEF Admit
<1>2. /\ UNCHANGED <<loaded, seenIDs, timesScored, lastOutcome, alerts, cases, outcome, pos>>
      /\ pc[r] = "item" /\ pos[r] <= Len(batch[r])
      /\ pc' = [pc EXCEPT ![r] = "ensemble"]
  BY DEF Admit, HasItem, storeVars, caseVars, auxVars
<1>3. batch[r] \in Seq(Transaction) /\ pos[r] \in 1..Len(batch[r])
  BY <1>0, <1>2, Shape
<1>4. Item(r) \in Transaction
  BY <1>3 DEF Item
<1>5. id \in CaseIDs /\ id # NoID /\ id \notin seenIDs
  BY <1>1, <1>4, IDsForType, PipelineAssumption DEF SeenBefore
<1>6. \A i \in 1..Len(batch[r]) : batch[r][i].id \in outstanding[r] \cup {NoID}
  <2>1. BatchIsOwned /\ InFlight(r) /\ DOMAIN batch[r] = 1..Len(batch[r])
    BY <1>0, <1>2, <1>3 DEF IdempotencyInv, InFlight
  <2> QED BY <2>1 DEF BatchIsOwned
<1>7. \A q \in Requests : q # r => id \notin outstanding[q]
  <2>1. CASE Item(r).id = NoID
    BY <2>1, SeenIsOwnID DEF Busy
  <2>2. CASE Item(r).id # NoID
    <3>1. id = Item(r).id /\ id \in outstanding[r]
      BY <2>2, <1>3, <1>6, SeenIsOwnID DEF Item
    <3> QED BY <3>1, <1>0 DEF IdempotencyInv, OwnersAreDisjoint
  <2> QED BY <2>1, <2>2
<1>8. /\ batch'[r] \in Seq(Transaction) /\ Len(batch'[r]) = Len(batch[r])
      /\ batch'[r][pos[r]].id = id
      /\ \A j \in 1..Len(batch[r]) : j # pos[r] => batch'[r][j] = batch[r][j]
  <2>1. Filled(SetID(batch[r], pos[r], id), batch[r], pos[r], id)
    BY <1>3, <1>5, SetIDType
  <2>2. batch'[r] = SetID(batch[r], pos[r], id)
    BY <1>0, <1>1, Shape
  <2>3. Filled(batch'[r], batch[r], pos[r], id)
    BY <2>1, <2>2
  <2> QED BY <2>3 DEF Filled
<1>9. \A q \in Requests : q # r => Same(q)
  BY <1>0, <1>1, <1>2, Shape DEF Same
<1>10. /\ pc'[r] = "ensemble" /\ outstanding'[r] = outstanding[r] \cup {id}
       /\ Item(r)'.id = id
  BY <1>0, <1>1, <1>2, <1>8, Shape DEF Item
<1>11. QuietUntilLoaded'
  BY <1>0, <1>2 DEF IdempotencyInv, QuietUntilLoaded, Serving, InFlight
<1>12. OwnersAreDisjoint'
  BY <1>0, <1>7, <1>9, <1>10 DEF IdempotencyInv, OwnersAreDisjoint, Same
<1>13. BatchIsOwned'
  <2>1. \A i \in DOMAIN batch'[r] : batch'[r][i].id \in outstanding'[r] \cup {NoID}
    <3>1. DOMAIN batch'[r] = 1..Len(batch[r])
      BY <1>8
    <3> QED BY <3>1, <1>6, <1>8, <1>10
  <2>2. BatchIsOwned
    BY <1>0 DEF IdempotencyInv
  <2> QED BY <2>1, <2>2, <1>9 DEF BatchIsOwned, InFlight, Same
<1>14. CheckStillHolds'
  <2>1. CheckStillHolds
    BY <1>0 DEF IdempotencyInv
  <2> QED BY <2>1, <1>2, <1>5, <1>9, <1>10 DEF CheckStillHolds, Working, Item, Same
<1>15. CaseIsNext'
  <2>1. CaseIsNext
    BY <1>0 DEF IdempotencyInv
  <2> QED BY <2>1, <1>2, <1>9, <1>10 DEF CaseIsNext, Exists, Item, Same
<1>16. AlertedIsScored' /\ AtMostOnceScored' /\ OneAlertEach'
  BY <1>0, <1>2 DEF IdempotencyInv, AlertedIsScored, AtMostOnceScored, OneAlertEach
<1> QED BY <1>11, <1>12, <1>13, <1>14, <1>15, <1>16 DEF IdempotencyInv

\* Add: the id was still fresh, so this is its first and only Add.
LEMMA IdemPersist ==
    ASSUME IInv, NEW r \in Requests, Persist(r)
    PROVE  IdempotencyInv'
<1> DEFINE id == Item(r).id
<1>0. BaseInv /\ IdempotencyInv
  BY DEF IInv
<1>1. /\ UNCHANGED <<loaded, alerts, cases, batch, pos, outcome, outstanding>>
      /\ pc[r] = "persist" /\ pc' = [pc EXCEPT ![r] = "case"]
      /\ timesScored' = [timesScored EXCEPT ![id] = timesScored[id] + 1]
      /\ lastOutcome' = [lastOutcome EXCEPT ![id] = outcome[r]]
      /\ seenIDs' = seenIDs \cup {id} \/ seenIDs' = seenIDs
  BY DEF Persist, caseVars, Add, MarkSeen
<1>2. Working(r)
  BY <1>1 DEF Working
<1>3. id \in CaseIDs /\ id \in outstanding[r] /\ id \notin seenIDs
  BY <1>1, <1>2, WorkFacts
<1>4. timesScored[id] = 0 /\ alerts[id] = 0 /\ ~Exists(id)
  BY <1>3, UnseenIsFresh
<1>5. ASSUME NEW q \in Requests, q # r
      PROVE  pc'[q] = pc[q] /\ (Working(q) => Item(q).id # id)
  BY <1>0, <1>1, <1>2, <1>5, WorkersDiffer, Shape
<1>6. \A q \in Requests : Item(q)' = Item(q)
  BY <1>1 DEF Item
<1>7. pc'[r] = "case" /\ timesScored'[id] = 1 /\ lastOutcome'[id] = outcome[r]
  BY <1>0, <1>1, <1>3, <1>4, Shape
<1>8. \A c \in CaseIDs : c # id =>
          timesScored'[c] = timesScored[c] /\ lastOutcome'[c] = lastOutcome[c]
  BY <1>0, <1>1, Shape
<1> HIDE DEF id
<1>9. QuietUntilLoaded'
  BY <1>0, <1>1, <1>2, <1>5 DEF IdempotencyInv, QuietUntilLoaded, Serving, InFlight, Working
<1>10. OwnersAreDisjoint'
  BY <1>0, <1>1 DEF IdempotencyInv, OwnersAreDisjoint
<1>11. BatchIsOwned'
  BY <1>0, <1>1, <1>5 DEF IdempotencyInv, BatchIsOwned, InFlight
<1>12. CheckStillHolds'
  <2>1. CheckStillHolds
    BY <1>0 DEF IdempotencyInv
  <2>2. ASSUME NEW q \in Requests, Working(q)'
        PROVE  /\ Item(q)'.id \in outstanding'[q]
               /\ pc'[q] # "case" => Item(q)'.id \notin seenIDs'
    <3>1. CASE q = r
      BY <3>1, <1>1, <1>3, <1>6, <1>7 DEF id
    <3>2. CASE q # r
      <4>1. Working(q) /\ pc'[q] = pc[q] /\ Item(q).id # id
        BY <2>2, <3>2, <1>5 DEF Working
      <4> QED BY <2>1, <4>1, <1>1, <1>6 DEF CheckStillHolds
    <3> QED BY <3>1, <3>2
  <2> QED BY <2>2 DEF CheckStillHolds
<1>13. CaseIsNext'
  <2>1. ASSUME NEW q \in Requests, pc'[q] = "case"
        PROVE  /\ timesScored'[Item(q).id] = 1 /\ lastOutcome'[Item(q).id] = outcome[q]
               /\ cases[Item(q).id].status = "absent" /\ alerts[Item(q).id] = 0
    <3>1. CASE q = r
      BY <3>1, <1>4, <1>7 DEF id, Exists
    <3>2. CASE q # r
      <4>1. pc[q] = "case" /\ Working(q)
        BY <2>1, <3>2, <1>5 DEF Working
      <4>2. Item(q).id # id /\ Item(q).id \in CaseIDs
        BY <3>2, <4>1, <1>5, CaseFacts
      <4> QED BY <4>1, <4>2, <1>8, CaseFacts
    <3> QED BY <3>1, <3>2
  <2> QED BY <2>1, <1>1, <1>6 DEF CaseIsNext, Exists
<1>14. AlertedIsScored' /\ AtMostOnceScored'
  BY <1>0, <1>1, <1>4, <1>7, <1>8 DEF IdempotencyInv, AlertedIsScored, AtMostOnceScored
<1>15. OneAlertEach'
  BY <1>0, <1>1, <1>4, <1>8 DEF IdempotencyInv, OneAlertEach
<1> QED BY <1>9, <1>10, <1>11, <1>12, <1>13, <1>14, <1>15 DEF IdempotencyInv

\* The case, the alert and the answer: all three for the first time.
LEMMA IdemOpenCase ==
    ASSUME IInv, NEW r \in Requests, OpenCase(r)
    PROVE  IdempotencyInv'
<1> DEFINE id == Item(r).id
           o == outcome[r]
<1>0. BaseInv /\ IdempotencyInv
  BY DEF IInv
<1>1. /\ UNCHANGED <<loaded, seenIDs, timesScored, lastOutcome, batch, outstanding>>
      /\ pc[r] = "case" /\ pc' = [pc EXCEPT ![r] = "item"]
      /\ outcome' = [outcome EXCEPT ![r] = Duplicate]
      /\ pos' = [pos EXCEPT ![r] = pos[r] + 1]
      /\ alerts' = IF IsFlagged(o.risk) THEN [alerts EXCEPT ![id] = alerts[id] + 1] ELSE alerts
      /\ IF NeedsCase(o) THEN Create(id, o.risk) ELSE UNCHANGED caseVars
  BY DEF OpenCase, Collect, storeVars, auxVars
<1>2. /\ Working(r) /\ id \in CaseIDs /\ timesScored[id] = 1 /\ lastOutcome[id] = o
      /\ alerts[id] = 0
  BY <1>1, CaseFacts DEF Working
<1>3. ASSUME NEW q \in Requests, q # r
      PROVE  Same(q) /\ (Working(q) => Item(q).id # id)
  BY <1>0, <1>1, <1>2, <1>3, WorkersDiffer, Shape DEF Same
<1>4. pc'[r] = "item"
  BY <1>0, <1>1, Shape
<1>5. \A c \in CaseIDs : c # id => cases'[c] = cases[c] /\ alerts'[c] = alerts[c]
  <2>1. cases' = cases \/ cases' = [cases EXCEPT ![id] = Opened(o.risk)]
    BY <1>1 DEF Create, caseVars
  <2> HIDE DEF id, o
  <2> QED BY <2>1, <1>0, <1>1, Shape
<1>6. alerts'[id] = (IF IsFlagged(o.risk) THEN 1 ELSE 0)
  <2> HIDE DEF id, o
  <2> QED BY <1>0, <1>1, <1>2, Shape
<1> HIDE DEF id, o
<1>7. QuietUntilLoaded' /\ OwnersAreDisjoint'
  BY <1>0, <1>1, <1>2, <1>3
     DEF IdempotencyInv, QuietUntilLoaded, OwnersAreDisjoint, Serving, InFlight, Working, Same
<1>8. BatchIsOwned'
  <2>1. BatchIsOwned /\ InFlight(r)
    BY <1>0, <1>1 DEF IdempotencyInv, InFlight
  <2> QED BY <2>1, <1>1, <1>3 DEF BatchIsOwned, InFlight, Same
<1>9. CheckStillHolds'
  <2>1. CheckStillHolds
    BY <1>0 DEF IdempotencyInv
  <2> QED BY <2>1, <1>1, <1>3, <1>4 DEF CheckStillHolds, Working, Item, Same
<1>10. CaseIsNext'
  <2>1. ASSUME NEW q \in Requests, pc'[q] = "case"
        PROVE  /\ Item(q)' = Item(q) /\ outcome'[q] = outcome[q]
               /\ timesScored[Item(q).id] = 1 /\ lastOutcome[Item(q).id] = outcome[q]
               /\ cases'[Item(q).id].status = "absent" /\ alerts'[Item(q).id] = 0
    <3>1. q # r
      BY <2>1, <1>4
    <3>2. Same(q) /\ pc[q] = "case" /\ Working(q)
      BY <2>1, <3>1, <1>3 DEF Same, Working
    <3>3. Item(q).id # id /\ Item(q)' = Item(q)
      BY <3>1, <3>2, <1>3 DEF Same, Item
    <3> QED BY <3>2, <3>3, <1>5, CaseFacts DEF Same
  <2> QED BY <2>1, <1>1 DEF CaseIsNext, Exists
<1>11. AlertedIsScored' /\ AtMostOnceScored'
  BY <1>0, <1>1, <1>2, <1>5 DEF IdempotencyInv, AlertedIsScored, AtMostOnceScored
<1>12. OneAlertEach'
  BY <1>0, <1>1, <1>2, <1>5, <1>6 DEF IdempotencyInv, OneAlertEach
<1> QED BY <1>7, <1>8, <1>9, <1>10, <1>11, <1>12 DEF IdempotencyInv

\* Boot, before any request, and the actors that share only cases and rules.
LEMMA IdemOthers ==
    ASSUME IInv, LoadSeed \/ ReloadRules \/ Review \/ \E id \in CaseIDs : Hook(id)
    PROVE  IdempotencyInv'
<1>0. BaseInv /\ IdempotencyInv
  BY DEF IInv
<1>1. UNCHANGED <<requestVars, timesScored, lastOutcome, alerts>>
  BY DEF LoadSeed, ReloadRules, Review, Hook, auxVars
<1>2. \A c \in CaseIDs : cases'[c].status = "absent" <=> cases[c].status = "absent"
  BY <1>0, ExistenceKept DEF Exists
<1>3. seenIDs' = seenIDs \/ \A q \in Requests : ~InFlight(q)
  BY <1>0 DEF LoadSeed, ReloadRules, Review, Hook, storeVars, IdempotencyInv, QuietUntilLoaded,
             Serving
<1>4. Serving => Serving'
  BY DEF LoadSeed, ReloadRules, Review, Hook, Serving
<1>5. QuietUntilLoaded' /\ OwnersAreDisjoint' /\ BatchIsOwned'
  BY <1>0, <1>1, <1>4
     DEF IdempotencyInv, QuietUntilLoaded, OwnersAreDisjoint, BatchIsOwned, InFlight, requestVars
<1>6. CheckStillHolds'
  BY <1>0, <1>1, <1>3
     DEF IdempotencyInv, CheckStillHolds, Working, InFlight, Item, requestVars
<1>7. CaseIsNext'
  <2>1. ASSUME NEW q \in Requests, pc[q] = "case"
        PROVE  /\ timesScored[Item(q).id] = 1 /\ lastOutcome[Item(q).id] = outcome[q]
               /\ cases'[Item(q).id].status = "absent" /\ alerts[Item(q).id] = 0
    BY <2>1, <1>2, CaseFacts
  <2> QED BY <2>1, <1>1 DEF CaseIsNext, Exists, Item, requestVars
<1>8. AlertedIsScored' /\ AtMostOnceScored' /\ OneAlertEach'
  BY <1>0, <1>1 DEF IdempotencyInv, AlertedIsScored, AtMostOnceScored, OneAlertEach
<1> QED BY <1>5, <1>6, <1>7, <1>8 DEF IdempotencyInv

-----------------------------------------------------------------------------
\* At boot nobody owns anything and nothing is recorded.
LEMMA IdemInit == Init => IdempotencyInv
<1> SUFFICES ASSUME Init PROVE IdempotencyInv
  OBVIOUS
<1>1. \A r \in Requests : pc[r] = "idle" /\ outstanding[r] = {}
  BY DEF Init
<1>2. \A id \in CaseIDs : timesScored[id] = 0 /\ alerts[id] = 0
  BY DEF Init
<1>3. QuietUntilLoaded /\ OwnersAreDisjoint /\ BatchIsOwned /\ CheckStillHolds /\ CaseIsNext
  BY <1>1 DEF QuietUntilLoaded, OwnersAreDisjoint, BatchIsOwned, CheckStillHolds, CaseIsNext,
             InFlight, Working
<1>4. AlertedIsScored /\ AtMostOnceScored /\ OneAlertEach
  BY <1>2 DEF AlertedIsScored, AtMostOnceScored, OneAlertEach
<1> QED BY <1>3, <1>4 DEF IdempotencyInv

\* Every step keeps ownership and what follows from it.
LEMMA IdemNext == ~OverlappingDuplicates /\ IInv /\ [Next]_vars => IdempotencyInv'
<1> SUFFICES ASSUME ~OverlappingDuplicates, IInv, [Next]_vars PROVE IdempotencyInv'
  OBVIOUS
<1>1. CASE UNCHANGED vars
  <2>1. UNCHANGED <<loaded, seenIDs, timesScored, lastOutcome, alerts, cases, pc, batch, pos,
                    outstanding, outcome>>
    BY <1>1 DEF vars, storeVars, caseVars, requestVars, auxVars
  <2>2. \A q \in Requests : Same(q)
    BY <2>1 DEF Same
  <2> QED BY <2>1, <2>2, SameStays, StaysKeeps
<1>2. ASSUME NEW r \in Requests, Step(r) PROVE IdempotencyInv'
  BY <1>2, IdemQuiet, IdemAnswerDuplicate, IdemAdmit, IdemPersist, IdemOpenCase DEF Step
<1>3. ASSUME NEW r \in Requests, \E k \in Kinds : \E txs \in Bodies(k) : Submit(r, k, txs)
      PROVE  IdempotencyInv'
  BY <1>3, IdemSubmit
<1>4. ASSUME NEW r \in Requests, Cancel(r) PROVE IdempotencyInv'
  BY <1>4, IdemQuiet
<1> QED BY <1>1, <1>2, <1>3, <1>4, IdemOthers DEF Next

\* The inductive invariant holds in every state.
THEOREM IInvTheorem ==
    ASSUME ~OverlappingDuplicates
    PROVE  Spec => []IInv
<1>1. Init => IInv
  BY TypeInit, LedgerInit, IdemInit DEF IInv, BaseInv
<1>2. IInv /\ [Next]_vars => IInv'
  BY TypeNext, LedgerNext, IdemNext DEF IInv, BaseInv
<1> QED BY <1>1, <1>2, PTL DEF Spec

\* Ownership: from a request's check to its Add nobody else records the id, and
\* the case and the alert that follow are the first for it.
THEOREM IdempotencyTheorem ==
    ASSUME ~OverlappingDuplicates
    PROVE  Spec => []IdempotencyInv
<1>1. IInv => IdempotencyInv
  BY DEF IInv
<1> QED BY <1>1, IInvTheorem, PTL

\* No transaction id is ever persisted twice.
THEOREM AtMostOnceTheorem ==
    ASSUME ~OverlappingDuplicates
    PROVE  Spec => []AtMostOnceScored
<1>1. IInv => AtMostOnceScored
  BY DEF IInv, IdempotencyInv
<1> QED BY <1>1, IInvTheorem, PTL

\* No transaction is alerted on twice, and none whose filed outcome is unflagged.
THEOREM OneAlertTheorem ==
    ASSUME ~OverlappingDuplicates
    PROVE  Spec => []OneAlertEach
<1>1. IInv => OneAlertEach
  BY DEF IInv, IdempotencyInv
<1> QED BY <1>1, IInvTheorem, PTL

-----------------------------------------------------------------------------
(* What is on file, and what analysts made of it. *)

\* An edit of a case: its score and priority stay, notes and a verdict too.
Edited(c, d) ==
    /\ d.status # "absent" /\ d.score = c.score /\ d.priority = c.priority
    /\ d.notes >= c.notes /\ (c.resolved => d.resolved)

\* A resolution edits the case it is given for.
LEMMA ResolutionEdits ==
    ASSUME NEW c \in Case, NEW analyst \in Analysts, NEW verdict \in Verdicts, NEW n \in 0..1
    PROVE  Edited(c, Resolved(c, verdict, analyst, n))
<1> DEFINE d == Noted(c, n)
<1>1. d \in Case
  BY CaseEditType
<1>2. /\ d.score = c.score /\ d.priority = c.priority /\ d.notes >= c.notes
      /\ d.resolved = c.resolved
  BY DEF Noted, Case
<1>3. /\ Resolved(c, verdict, analyst, n).status = verdict
      /\ Resolved(c, verdict, analyst, n).score = d.score
      /\ Resolved(c, verdict, analyst, n).priority = d.priority
      /\ Resolved(c, verdict, analyst, n).notes = d.notes
      /\ Resolved(c, verdict, analyst, n).resolved
  BY <1>1 DEF Resolved, Case
<1> HIDE DEF d
<1> QED BY <1>2, <1>3 DEF Edited, Verdicts

\* Whatever analysts, hooks, boot and reloads do, a case is at most edited.
LEMMA OthersEdit ==
    ASSUME BaseInv, LoadSeed \/ ReloadRules \/ Review \/ \E id \in CaseIDs : Hook(id),
           NEW c \in CaseIDs, Exists(c)
    PROVE  Edited(cases[c], cases'[c])
<1>0. cases \in [CaseIDs -> Case] /\ cases[c].status # "absent"
  BY DEF BaseInv, TypeInv, TypeOK, CaseTypes, Exists
<1>1. CASE Review
  <2>1. PICK id \in CaseIDs :
            \/ \E a \in Analysts : Assign(id, a)
            \/ \E v \in Verdicts, a \in Analysts, n \in 0..1 : Resolve(id, v, a, n)
            \/ AddNote(id)
    BY <1>1 DEF Review, AnalystStep
  <2>2. PICK d : cases' = [cases EXCEPT ![id] = d] /\ (id = c => Edited(cases[c], d))
    <3>1. ASSUME NEW a \in Analysts, Assign(id, a)
          PROVE  /\ cases' = [cases EXCEPT ![id] = InReview(cases[id], a)]
                 /\ id = c => Edited(cases[c], InReview(cases[id], a))
      <4>1. id = c => Edited(cases[c], InReview(cases[id], a))
        BY <1>0 DEF Edited, InReview, Case
      <4> QED BY <3>1, <4>1 DEF Assign
    <3>2. ASSUME NEW v \in Verdicts, NEW a \in Analysts, NEW n \in 0..1, Resolve(id, v, a, n)
          PROVE  /\ cases' = [cases EXCEPT ![id] = Resolved(cases[id], v, a, n)]
                 /\ id = c => Edited(cases[c], Resolved(cases[id], v, a, n))
      <4>1. id = c => Edited(cases[c], Resolved(cases[id], v, a, n))
        BY <1>0, ResolutionEdits
      <4> QED BY <3>2, <4>1 DEF Resolve
    <3>3. ASSUME AddNote(id)
          PROVE  /\ cases' = [cases EXCEPT ![id] = Noted(cases[id], 1)]
                 /\ id = c => Edited(cases[c], Noted(cases[id], 1))
      <4>1. id = c => Edited(cases[c], Noted(cases[id], 1))
        BY <1>0 DEF Edited, Noted, Case
      <4> QED BY <3>3, <4>1 DEF AddNote
    <3> QED BY <2>1, <3>1, <3>2, <3>3
  <2>3. id # c => cases'[c] = cases[c]
    BY <1>0, <2>2
  <2>4. id = c => cases'[c] = d
    BY <1>0, <2>2
  <2>5. Edited(cases[c], cases[c])
    BY <1>0 DEF Edited, Case
  <2> QED BY <2>2, <2>3, <2>4, <2>5
<1>2. CASE ~Review
  <2>1. cases' = cases
    BY <1>2 DEF LoadSeed, ReloadRules, Hook, RunHook, caseVars
  <2> QED BY <1>0, <2>1 DEF Edited, Case
<1> QED BY <1>1, <1>2

\* With distinct ids in progress, every step but OpenCase's own, which finds no
\* case, edits at most what is there.
LEMMA CasesAreEdited ==
    ASSUME ~OverlappingDuplicates, IInv, [Next]_vars, NEW c \in CaseIDs, Exists(c)
    PROVE  Edited(cases[c], cases'[c])
<1>0. BaseInv /\ cases \in [CaseIDs -> Case] /\ cases[c].status # "absent"
  BY Shape DEF IInv, Exists
<1>1. Edited(cases[c], cases[c])
  BY <1>0 DEF Edited, Case
<1>2. ASSUME NEW r \in Requests, OpenCase(r) PROVE cases'[c] = cases[c]
  <2>1. Item(r).id \in CaseIDs /\ cases[Item(r).id].status = "absent"
    BY <1>2, CaseFacts DEF OpenCase
  <2>2. cases' = cases \/ cases' = [cases EXCEPT ![Item(r).id] = Opened(outcome[r].risk)]
    BY <1>2 DEF OpenCase, Create, caseVars
  <2> HIDE DEF Item
  <2> QED BY <1>0, <2>1, <2>2
<1>3. CASE LoadSeed \/ ReloadRules \/ Review \/ \E id \in CaseIDs : Hook(id)
  BY <1>0, <1>3, OthersEdit
<1>4. ASSUME NEW r \in Requests,
             \/ \E k \in Kinds : \E txs \in Bodies(k) : Submit(r, k, txs)
             \/ Cancel(r) \/ (Step(r) /\ ~OpenCase(r))
      PROVE  cases' = cases
  BY <1>4 DEF Submit, Cancel, Step, RejectInvalid, AnswerDuplicate, AbortCancelled, Admit,
              ReadHistory, RunEnsemble, ApplyRules, Persist, Respond, caseVars
<1>5. CASE UNCHANGED vars
  BY <1>1, <1>5 DEF vars, caseVars
<1> QED BY <1>1, <1>2, <1>3, <1>4, <1>5 DEF Next

\* An answer on file: its outcome is the one persisted, and its case has it.
Filed(a) ==
    ~a.dup => /\ timesScored[a.id] > 0
              /\ lastOutcome[a.id] = a.outcome
              /\ NeedsCase(a.outcome) =>
                    /\ Exists(a.id)
                    /\ cases[a.id].score = a.outcome.risk.score
                    /\ cases[a.id].priority = priorityFromSeverity(a.outcome.risk.severity)

AnswersAreFiled == \A r \in Requests : \A i \in DOMAIN answers[r] : Filed(answers[r][i])

\* No Add comes after the answer, so the ledger does not move on.
LEMMA LedgerStays ==
    ASSUME IInv, [Next]_vars, NEW id \in CaseIDs, timesScored[id] > 0
    PROVE  timesScored'[id] = timesScored[id] /\ lastOutcome'[id] = lastOutcome[id]
<1>0. BaseInv
  BY DEF IInv
<1>1. ASSUME NEW r \in Requests, Persist(r)
      PROVE  timesScored'[id] = timesScored[id] /\ lastOutcome'[id] = lastOutcome[id]
  <2>1. /\ pc[r] = "persist"
        /\ timesScored' = [timesScored EXCEPT ![Item(r).id] = timesScored[Item(r).id] + 1]
        /\ lastOutcome' = [lastOutcome EXCEPT ![Item(r).id] = outcome[r]]
    BY <1>1 DEF Persist
  <2>2. Item(r).id \in CaseIDs /\ Item(r).id \notin seenIDs
    BY <2>1, WorkFacts DEF Working
  <2>3. Item(r).id # id
    BY <2>2, UnseenIsFresh
  <2> HIDE DEF Item
  <2> QED BY <1>0, <2>1, <2>3, Shape
<1>2. CASE UNCHANGED auxVars
  BY <1>2 DEF auxVars
<1>3. ASSUME NEW r \in Requests, Step(r), ~Persist(r) PROVE UNCHANGED auxVars
  BY <1>3 DEF Step, RejectInvalid, AnswerDuplicate, AbortCancelled, Admit, ReadHistory,
              RunEnsemble, ApplyRules, OpenCase, Respond
<1>4. ASSUME NEW r \in Requests,
             (\E k \in Kinds : \E txs \in Bodies(k) : Submit(r, k, txs)) \/ Cancel(r)
      PROVE  UNCHANGED auxVars
  BY <1>4 DEF Submit, Cancel
<1>5. CASE LoadSeed \/ ReloadRules \/ Review \/ \E c \in CaseIDs : Hook(c)
  BY <1>2, <1>5 DEF LoadSeed, ReloadRules, Review, Hook
<1>6. CASE UNCHANGED vars
  BY <1>2, <1>6 DEF vars
<1> QED BY <1>1, <1>2, <1>3, <1>4, <1>5, <1>6 DEF Next

\* What is on file stays on file.
LEMMA FiledStays ==
    ASSUME ~OverlappingDuplicates, IInv, [Next]_vars, NEW a \in Answers, Filed(a)
    PROVE  Filed(a)'
<1> SUFFICES ASSUME ~a.dup PROVE Filed(a)'
  BY DEF Filed
<1>1. a.id \in CaseIDs
  BY DEF Answers
<1>2. timesScored'[a.id] = timesScored[a.id] /\ lastOutcome'[a.id] = lastOutcome[a.id]
  BY <1>1, LedgerStays DEF Filed
<1>3. NeedsCase(a.outcome) => Edited(cases[a.id], cases'[a.id])
  BY <1>1, CasesAreEdited DEF Filed
<1> QED BY <1>2, <1>3 DEF Filed, Edited, Exists

\* A step adds at most one answer: a duplicate's, or the case step's.
LEMMA NewAnswers ==
    ASSUME BaseInv, [Next]_vars, NEW r \in Requests, NEW i \in DOMAIN answers'[r]
    PROVE  \/ i \in DOMAIN answers[r] /\ answers'[r][i] = answers[r][i]
           \/ answers'[r][i].dup
           \/ OpenCase(r) /\ answers'[r][i] = [id |-> Item(r).id, dup |-> FALSE,
                                               outcome |-> outcome[r]]
<1>0. answers \in [Requests -> Seq(Answers)]
  BY DEF BaseInv, TypeInv, TypeOK, RequestTypes
<1>1. ASSUME NEW a, answers' = [answers EXCEPT ![r] = Append(answers[r], a)]
      PROVE  (i \in DOMAIN answers[r] /\ answers'[r][i] = answers[r][i]) \/ answers'[r][i] = a
  <2>1. answers[r] \in Seq(Answers) /\ answers'[r] = Append(answers[r], a)
    BY <1>0, <1>1
  <2>2. DOMAIN Append(answers[r], a) = 1..Len(answers[r]) + 1
        /\ \A j \in 1..Len(answers[r]) : Append(answers[r], a)[j] = answers[r][j]
        /\ Append(answers[r], a)[Len(answers[r]) + 1] = a
        /\ DOMAIN answers[r] = 1..Len(answers[r]) /\ Len(answers[r]) \in Nat
    <3> DEFINE s == answers[r]
    <3>1. s \in Seq(Answers)
      BY <2>1
    <3> HIDE DEF s
    <3>2. /\ DOMAIN Append(s, a) = 1..Len(s) + 1
          /\ \A j \in 1..Len(s) : Append(s, a)[j] = s[j]
          /\ Append(s, a)[Len(s) + 1] = a
          /\ DOMAIN s = 1..Len(s) /\ Len(s) \in Nat
      BY <3>1
    <3> QED BY <3>2 DEF s
  <2>3. i \in 1..Len(answers[r]) \/ i = Len(answers[r]) + 1
    BY <2>1, <2>2
  <2> QED BY <2>1, <2>2, <2>3
<1>2. ASSUME NEW q \in Requests, q # r, NEW a,
             answers' = [answers EXCEPT ![q] = Append(answers[q], a)]
      PROVE  answers'[r] = answers[r]
  BY <1>0, <1>2
<1>3. ASSUME NEW q \in Requests, OpenCase(q)
      PROVE  answers' = [answers EXCEPT ![q] = Append(answers[q],
                            [id |-> Item(q).id, dup |-> FALSE, outcome |-> outcome[q]])]
  BY <1>3 DEF OpenCase, Collect
<1>4. ASSUME NEW q \in Requests, AnswerDuplicate(q)
      PROVE  \E id : answers' = [answers EXCEPT ![q] = Append(answers[q],
                            [id |-> id, dup |-> TRUE, outcome |-> Duplicate])]
  BY <1>4 DEF AnswerDuplicate, Collect
<1>5. CASE \E q \in Requests : OpenCase(q)
  <2>1. PICK q \in Requests : OpenCase(q)
    BY <1>5
  <2> DEFINE a == [id |-> Item(q).id, dup |-> FALSE, outcome |-> outcome[q]]
  <2>2. answers' = [answers EXCEPT ![q] = Append(answers[q], a)]
    BY <1>3, <2>1
  <2> HIDE DEF a
  <2>3. CASE q = r
    BY <1>1, <2>1, <2>2, <2>3 DEF a
  <2>4. CASE q # r
    BY <1>2, <2>2, <2>4
  <2> QED BY <2>3, <2>4
<1>6. CASE \E q \in Requests : AnswerDuplicate(q)
  <2>0. PICK q \in Requests : AnswerDuplicate(q)
    BY <1>6
  <2>1. PICK id : answers' = [answers EXCEPT ![q] = Append(answers[q],
                            [id |-> id, dup |-> TRUE, outcome |-> Duplicate])]
    BY <1>4, <2>0
  <2> DEFINE a == [id |-> id, dup |-> TRUE, outcome |-> Duplicate]
  <2>2. a.dup
    OBVIOUS
  <2>3. answers' = [answers EXCEPT ![q] = Append(answers[q], a)]
    BY <2>1
  <2> HIDE DEF a
  <2>4. CASE q = r
    BY <1>1, <2>2, <2>3, <2>4
  <2>5. CASE q # r
    BY <1>2, <2>3, <2>5
  <2> QED BY <2>4, <2>5
<1>7. CASE answers' = answers
  BY <1>7
<1>8. ASSUME NEW q \in Requests, Step(q), ~OpenCase(q), ~AnswerDuplicate(q)
      PROVE  answers' = answers
  BY <1>8 DEF Step, RejectInvalid, AbortCancelled, Admit, ReadHistory, RunEnsemble, ApplyRules,
              Persist, Respond
<1>9. ASSUME NEW q \in Requests,
             (\E k \in Kinds : \E txs \in Bodies(k) : Submit(q, k, txs)) \/ Cancel(q)
      PROVE  answers' = answers
  BY <1>9 DEF Submit, Cancel
<1>10. CASE LoadSeed \/ ReloadRules \/ Review \/ \E c \in CaseIDs : Hook(c)
  BY <1>7, <1>10 DEF LoadSeed, ReloadRules, Review, Hook, requestVars
<1>11. CASE UNCHANGED vars
  BY <1>7, <1>11 DEF vars, requestVars
<1> QED BY <1>5, <1>6, <1>7, <1>8, <1>9, <1>10, <1>11 DEF Next

\* Every step keeps the answers on file.
LEMMA FiledNext ==
    ASSUME ~OverlappingDuplicates, IInv, AnswersAreFiled, [Next]_vars
    PROVE  AnswersAreFiled'
<1> SUFFICES ASSUME NEW r \in Requests, NEW i \in DOMAIN answers'[r]
             PROVE  Filed(answers[r][i])'
  BY DEF AnswersAreFiled
<1>0. BaseInv
  BY DEF IInv
<1>1. CASE i \in DOMAIN answers[r] /\ answers'[r][i] = answers[r][i]
  <2>1. PICK a \in Answers : a = answers[r][i]
    <3>1. answers[r] \in Seq(Answers)
      BY <1>0 DEF BaseInv, TypeInv, TypeOK, RequestTypes
    <3> QED BY <1>1, <3>1
  <2>2. Filed(a)
    BY <1>1, <2>1 DEF AnswersAreFiled
  <2>3. Filed(a)'
    BY <2>2, FiledStays
  <2> QED BY <1>1, <2>1, <2>3 DEF Filed, Exists
<1>2. CASE answers'[r][i].dup
  BY <1>2 DEF Filed
<1>3. CASE OpenCase(r) /\ answers'[r][i] = [id |-> Item(r).id, dup |-> FALSE,
                                            outcome |-> outcome[r]]
  <2> DEFINE id == Item(r).id
             o == outcome[r]
  <2>1. /\ id \in CaseIDs /\ timesScored[id] = 1 /\ lastOutcome[id] = o
        /\ cases \in [CaseIDs -> Case]
    BY <1>0, <1>3, CaseFacts, Shape DEF OpenCase
  <2>2. /\ timesScored' = timesScored /\ lastOutcome' = lastOutcome
        /\ NeedsCase(o) => cases' = [cases EXCEPT ![id] = Opened(o.risk)]
    BY <1>3 DEF OpenCase, Create, auxVars
  <2>3. answers'[r][i].id = id /\ answers'[r][i].outcome = o
    BY <1>3
  <2> HIDE DEF id, o
  <2>4. NeedsCase(o) => cases'[id] = Opened(o.risk)
    BY <2>1, <2>2
  <2>5. /\ Opened(o.risk).status = "open" /\ Opened(o.risk).score = o.risk.score
        /\ Opened(o.risk).priority = priorityFromSeverity(o.risk.severity)
    BY DEF Opened, NoCase
  <2> QED BY <2>1, <2>2, <2>3, <2>4, <2>5 DEF Filed, Exists
<1> QED BY <1>0, <1>1, <1>2, <1>3, NewAnswers

\* What a client was told is what was persisted and what the analysts see.
THEOREM AnswerOnFileTheorem ==
    ASSUME ~OverlappingDuplicates
    PROVE  Spec => []AnswerIsOnFile
<1>1. Init => AnswersAreFiled
  BY DEF Init, AnswersAreFiled
<1>2. IInv /\ AnswersAreFiled /\ [Next]_vars => AnswersAreFiled'
  BY FiledNext
<1>3. AnswersAreFiled => AnswerIsOnFile
  BY DEF AnswersAreFiled, AnswerIsOnFile, Filed
<1> QED BY <1>1, <1>2, <1>3, IInvTheorem, PTL DEF Spec

\* Create never replaces a case, so no analyst's work is undone.
THEOREM AnalystWorkTheorem ==
    ASSUME ~OverlappingDuplicates
    PROVE  Spec => AnalystWorkIsKept
<1>1. ASSUME IInv, [Next]_vars, NEW id \in CaseIDs, Exists(id)
      PROVE  /\ Exists(id)'
             /\ cases'[id].notes >= cases[id].notes
             /\ cases[id].resolved => cases'[id].resolved
  BY <1>1, CasesAreEdited DEF Edited, Exists
<1>2. IInv /\ [Next]_vars =>
          [\A id \in CaseIDs : Exists(id) =>
              /\ Exists(id)'
              /\ cases'[id].notes >= cases[id].notes
              /\ cases[id].resolved => cases'[id].resolved]_vars
  BY <1>1
<1> QED BY <1>2, IInvTheorem, PTL DEF Spec, AnalystWorkIsKept

-----------------------------------------------------------------------------
(* The statistics, and the abstract book. *)

ScoredIDs == {id \in CaseIDs : timesScored[id] > 0}

\* The counter of scored transactions is a count of ids.
StatsInv == IsFiniteSet(ScoredIDs) /\ totalScored = Cardinality(ScoredIDs)

\* What Persist does to the ledger, when the id it persists is new.
LEMMA PersistRecords ==
    ASSUME IInv, NEW r \in Requests, Persist(r)
    PROVE  /\ Item(r).id \in CaseIDs /\ timesScored[Item(r).id] = 0
           /\ timesScored' = [timesScored EXCEPT ![Item(r).id] = 1]
           /\ lastOutcome' = [lastOutcome EXCEPT ![Item(r).id] = outcome[r]]
           /\ totalScored' = totalScored + 1 /\ cases' = cases
<1>1. pc[r] = "persist"
  BY DEF Persist
<1>2. Item(r).id \in CaseIDs /\ Item(r).id \notin seenIDs
  BY <1>1, WorkFacts DEF Working
<1>3. timesScored[Item(r).id] = 0
  BY <1>2, UnseenIsFresh
<1> QED
  BY <1>2, <1>3 DEF Persist, Add, caseVars

\* No other step writes the ledger or the counter.
LEMMA OthersRecordNothing ==
    ASSUME [Next]_vars, \A r \in Requests : ~Persist(r)
    PROVE  UNCHANGED <<timesScored, lastOutcome, totalScored>>
<1>1. CASE UNCHANGED vars
  BY <1>1 DEF vars, storeVars, auxVars
<1>2. ASSUME NEW r \in Requests, Step(r)
      PROVE  UNCHANGED <<timesScored, lastOutcome, totalScored>>
  BY <1>2 DEF Step, RejectInvalid, AnswerDuplicate, AbortCancelled, Admit, ReadHistory,
              RunEnsemble, ApplyRules, OpenCase, Respond, storeVars, auxVars
<1>3. ASSUME NEW r \in Requests,
             (\E k \in Kinds : \E txs \in Bodies(k) : Submit(r, k, txs)) \/ Cancel(r)
      PROVE  UNCHANGED <<timesScored, lastOutcome, totalScored>>
  BY <1>3 DEF Submit, Cancel, storeVars, auxVars
<1>4. CASE LoadSeed \/ ReloadRules \/ Review \/ \E c \in CaseIDs : Hook(c)
  BY <1>4 DEF LoadSeed, Seed, ReloadRules, Review, Hook, storeVars, auxVars
<1> QED BY <1>1, <1>2, <1>3, <1>4 DEF Next

\* The total is the number of ids scored: inductive, since a Persist is of a new one.
LEMMA StatsNext == ASSUME IInv, StatsInv, [Next]_vars PROVE StatsInv'
<1>1. CASE \A r \in Requests : ~Persist(r)
  BY <1>1, OthersRecordNothing DEF StatsInv, ScoredIDs
<1>2. ASSUME NEW r \in Requests, Persist(r) PROVE StatsInv'
  <2> DEFINE id == Item(r).id
  <2>1. /\ id \in CaseIDs /\ timesScored[id] = 0
        /\ timesScored' = [timesScored EXCEPT ![id] = 1] /\ totalScored' = totalScored + 1
    BY <1>2, PersistRecords
  <2>2. timesScored \in [CaseIDs -> Nat]
    BY Shape DEF IInv
  <2> HIDE DEF id
  <2>3. ScoredIDs' = ScoredIDs \cup {id} /\ id \notin ScoredIDs
    BY <2>1, <2>2 DEF ScoredIDs
  <2> QED BY <2>1, <2>3, FS_AddElement DEF StatsInv
<1> QED BY <1>1, <1>2

\* total_scored counts transactions, not requests.
THEOREM StatsTheorem ==
    ASSUME ~OverlappingDuplicates
    PROVE  Spec => []StatsCountTransactions
<1>1. Init => StatsInv
  <2> SUFFICES ASSUME Init PROVE StatsInv
    OBVIOUS
  <2>1. ScoredIDs = {} /\ totalScored = 0
    BY DEF Init, NewStore, ScoredIDs
  <2> QED BY <2>1, FS_EmptySet DEF StatsInv
<1>2. IInv /\ StatsInv /\ [Next]_vars => StatsInv'
  BY StatsNext
<1>3. StatsInv => StatsCountTransactions
  BY DEF StatsInv, StatsCountTransactions, ScoredIDs
<1> QED BY <1>1, <1>2, <1>3, IInvTheorem, PTL DEF Spec

\* The book and the opened cases, as the refinement mapping reads them.
BookOf == [id \in CaseIDs |-> IF timesScored[id] = 0 THEN {} ELSE {lastOutcome[id]}]
OpenedOf == {id \in CaseIDs : Exists(id)}

\* Persist writes one new page and opens nothing.
LEMMA PersistIsRecord ==
    ASSUME IInv, NEW r \in Requests, Persist(r)
    PROVE  \E id \in CaseIDs : Book!Record(id)
<1> DEFINE id == Item(r).id
<1>1. /\ id \in CaseIDs /\ timesScored[id] = 0 /\ cases' = cases
      /\ timesScored' = [timesScored EXCEPT ![id] = 1]
      /\ lastOutcome' = [lastOutcome EXCEPT ![id] = outcome[r]]
  BY PersistRecords
<1>2. /\ timesScored \in [CaseIDs -> Nat] /\ lastOutcome \in [CaseIDs -> Outcomes]
      /\ outcome[r] \in Outcomes
  BY Shape DEF IInv
<1> HIDE DEF id
<1>3. OpenedOf' = OpenedOf
  BY <1>1 DEF OpenedOf, Exists
<1>4. BookOf[id] = {} /\ BookOf'[id] = {outcome[r]}
  BY <1>1, <1>2 DEF BookOf
<1>5. BookOf' = [BookOf EXCEPT ![id] = {outcome[r]}]
  <2>1. \A c \in CaseIDs : c # id => BookOf'[c] = BookOf[c]
    BY <1>1, <1>2 DEF BookOf
  <2>2. BookOf' = [c \in CaseIDs |-> BookOf'[c]] /\ BookOf = [c \in CaseIDs |-> BookOf[c]]
    BY DEF BookOf
  <2> HIDE DEF BookOf
  <2> QED BY <1>1, <1>4, <2>1, <2>2
<1>6. outcome[r] \in Book!Outcomes
  BY <1>2 DEF Outcomes, Book!Outcomes, RiskScore, Book!RiskScore, ScoreValue, Book!ScoreValue,
              Severities, Book!Severities, Scale, Book!Scale
<1>7. \E o \in BookOf'[id] : o \in Book!Outcomes /\ BookOf' = [BookOf EXCEPT ![id] = {o}]
  BY <1>4, <1>5, <1>6
<1> QED BY <1>1, <1>3, <1>4, <1>7 DEF Book!Record, BookOf, OpenedOf

\* OpenCase opens the case its page calls for, or changes neither.
LEMMA OpenCaseIsOpen ==
    ASSUME IInv, NEW r \in Requests, OpenCase(r)
    PROVE  \/ \E id \in CaseIDs : Book!Open(id)
           \/ BookOf' = BookOf /\ OpenedOf' = OpenedOf
<1> DEFINE id == Item(r).id
           o == outcome[r]
<1>1. /\ id \in CaseIDs /\ timesScored[id] = 1 /\ lastOutcome[id] = o
      /\ cases[id].status = "absent" /\ cases \in [CaseIDs -> Case]
  BY CaseFacts, Shape DEF OpenCase, IInv
<1>2. /\ timesScored' = timesScored /\ lastOutcome' = lastOutcome
      /\ IF NeedsCase(o) THEN cases' = [cases EXCEPT ![id] = Opened(o.risk)] ELSE cases' = cases
  BY DEF OpenCase, Create, auxVars, caseVars
<1> HIDE DEF id, o
<1>3. BookOf' = BookOf /\ BookOf[id] = {o}
  BY <1>1, <1>2 DEF BookOf
<1>4. CASE ~NeedsCase(o)
  BY <1>2, <1>3, <1>4 DEF OpenedOf, Exists
<1>5. CASE NeedsCase(o)
  <2>1. Opened(o.risk).status = "open"
    BY DEF Opened, NoCase
  <2>2. OpenedOf' = OpenedOf \cup {id} /\ id \notin OpenedOf
    BY <1>1, <1>2, <1>5, <2>1 DEF OpenedOf, Exists
  <2>3. Book!NeedsCase(o)
    BY <1>5 DEF NeedsCase, Book!NeedsCase, IsFlagged, Book!IsFlagged, AtLeast, Book!AtLeast,
                ThresholdFlagged, Book!ThresholdFlagged
  <2>4. Book!Open(id)
    BY <1>3, <2>2, <2>3 DEF Book!Open, BookOf, OpenedOf
  <2> QED BY <1>1, <2>4
<1> QED BY <1>4, <1>5

\* All other steps leave the book alone.
LEMMA OthersStutter ==
    ASSUME IInv, [Next]_vars, \A r \in Requests : ~Persist(r) /\ ~OpenCase(r)
    PROVE  BookOf' = BookOf /\ OpenedOf' = OpenedOf
<1>1. BookOf' = BookOf
  BY OthersRecordNothing DEF BookOf
<1>2. ASSUME NEW r \in Requests,
             \/ \E k \in Kinds : \E txs \in Bodies(k) : Submit(r, k, txs)
             \/ Cancel(r) \/ (Step(r) /\ ~OpenCase(r))
      PROVE  cases' = cases
  BY <1>2 DEF Submit, Cancel, Step, RejectInvalid, AnswerDuplicate, AbortCancelled, Admit,
              ReadHistory, RunEnsemble, ApplyRules, Persist, Respond, caseVars
<1>3. CASE UNCHANGED vars
  BY <1>1, <1>3 DEF vars, caseVars, OpenedOf, Exists
<1>4. CASE LoadSeed \/ ReloadRules \/ Review \/ \E c \in CaseIDs : Hook(c)
  <2>1. \A c \in CaseIDs : Exists(c)' <=> Exists(c)
    BY <1>4, ExistenceKept DEF IInv
  <2> QED BY <1>1, <2>1 DEF OpenedOf
<1>5. CASE cases' = cases
  BY <1>1, <1>5 DEF OpenedOf, Exists
<1> QED BY <1>2, <1>3, <1>4, <1>5 DEF Next

\* With distinct ids in progress, the scoring path implements the abstract book.
THEOREM BookTheorem ==
    ASSUME ~OverlappingDuplicates
    PROVE  Spec => ImplementsBook
<1>1. Init => Book!BookInit
  BY DEF Init, NewManager, NoCase, Book!BookInit, Exists
<1>2. ASSUME IInv, [Next]_vars PROVE [Book!BookNext]_<<BookOf, OpenedOf>>
  <2>1. CASE \E r \in Requests : Persist(r)
    BY <1>2, <2>1, PersistIsRecord DEF Book!BookNext
  <2>2. CASE \E r \in Requests : OpenCase(r)
    BY <1>2, <2>2, OpenCaseIsOpen DEF Book!BookNext
  <2>3. CASE \A r \in Requests : ~Persist(r) /\ ~OpenCase(r)
    BY <1>2, <2>3, OthersStutter
  <2> QED BY <2>1, <2>2, <2>3
<1>3. IInv /\ [Next]_vars => [Book!BookNext]_<<BookOf, OpenedOf>>
  BY <1>2
<1>4. Book!BookSpec <=> Book!BookInit /\ [][Book!BookNext]_<<BookOf, OpenedOf>>
  BY DEF Book!BookSpec, BookOf, OpenedOf
<1> QED BY <1>1, <1>3, <1>4, IInvTheorem, PTL DEF Spec, ImplementsBook
=============================================================================
