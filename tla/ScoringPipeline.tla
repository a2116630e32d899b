-------------------------- MODULE ScoringPipeline --------------------------
(***************************************************************************)
(* The scoring path, end to end: the HTTP handlers ScoreTransaction and    *)
(* ScoreBatch (internal/api/handlers.go) and the Kafka consumer's          *)
(* processMessage as callers, Pipeline.Process (internal/pipeline) as the  *)
(* shared body, composed with the store, the rules engine with its hot     *)
(* reload, and the case manager with its analysts.                         *)
(*                                                                         *)
(* Requests run concurrently.  Process takes no lock of its own: it makes  *)
(* one call after another on components that each lock for the length of   *)
(* one call, so every call is an action and requests interleave between    *)
(* them.  A request is used once; a client's retry is another request that *)
(* carries the same transaction.                                           *)
(*                                                                         *)
(* OverlappingDuplicates says what the environment may do.  FALSE: while a *)
(* transaction id is outstanding in one request no other request carries   *)
(* it (clients retry after the answer, the clock gives distinct ids).      *)
(* TRUE: any request may carry any id at any time.                         *)
(*                                                                         *)
(* Left out: request bodies that are not JSON (answered 400 before         *)
(* anything is read), latencies, and the reasons attached to a score.      *)
(***************************************************************************)
EXTENDS MemStore, CaseManager, RulesEngine

CONSTANTS Requests,     \* request identities, each used once
          Kinds,        \* the entry points in use
          Txs,          \* transactions clients send
          Batches,      \* bodies of /api/score/batch
          MaxBatch,     \* the handler's limit on a batch (1000 in the code)
          ClientIDs,    \* ids chosen by clients
          LiveIDs,      \* ids the server generates when a client sends none
          NoUser,       \* the empty user id
          RawScores,    \* scores the ensemble may compute, NaN aside
          BrokenFits,   \* {FALSE}, or BOOLEAN once a refit may have made the
                        \* calibrator's coefficients NaN (see Retraining)
          SeedTxs,      \* transactions of the synthetic data set
          SeedData,     \* the sequence of them main seeds before it listens
          OverlappingDuplicates

Transaction == [id : CaseIDs \cup {NoID}, user : Users, amount : Int,
                country : DOMAIN Lower, merchant : DOMAIN Lower,
                category : DOMAIN Lower, device : DOMAIN Lower]

ASSUME PipelineAssumption ==
    /\ Kinds \subseteq {"single", "batch", "kafka"}
    /\ CaseIDs = ClientIDs \cup LiveIDs
    /\ ClientIDs \cap LiveIDs = {}
    /\ NoID \notin CaseIDs
    /\ Txs \subseteq {tx \in Transaction : tx.id \in ClientIDs \cup {NoID}}
    /\ Batches \subseteq Seq(Txs)
    /\ MaxBatch \in Nat
    /\ RawScores \subseteq 0..Scale
    /\ BrokenFits \subseteq BOOLEAN
    /\ SeedTxs \subseteq {tx \in Transaction : tx.id \in ClientIDs}
    /\ SeedData \in Seq(SeedTxs)
    /\ OverlappingDuplicates \in BOOLEAN

VARIABLES loaded,       \* seed transactions loaded so far
          pc,           \* request -> where it is in the handler and in Process
          kind,         \* request -> entry point
          batch, pos,   \* request -> its transactions, index of the current one
          cancelled,    \* request -> its context has been cancelled
          lone,         \* request -> the Z-score detector read a history of one
          raw,          \* request -> ensemble score of the current transaction
          outcome,      \* request -> decision on the current transaction
          answers,      \* request -> results collected so far
          status,       \* request -> how it ended
          outstanding,  \* request -> ids its client waits for
          alerts,       \* id -> notification goroutines started
          scoringTotal, \* the Prometheus counter fraud_scoring_total
          timesScored,  \* auxiliary: id -> Store.Add calls made for it
          lastOutcome   \* auxiliary: id -> the outcome the last of them persisted

requestVars == <<pc, kind, batch, pos, cancelled, lone, raw, outcome, answers, status,
                outstanding>>
auxVars == <<timesScored, lastOutcome>>
vars == <<storeVars, caseVars, rules, loaded, requestVars, alerts, scoringTotal, auxVars>>

-----------------------------------------------------------------------------
Answers == [id : CaseIDs, dup : BOOLEAN, outcome : Outcomes]

Item(r) == batch[r][pos[r]]
HasItem(r) == pc[r] = "item" /\ pos[r] <= Len(batch[r])
InFlight(r) == pc[r] \notin {"idle", "done"}
IdsOf(txs) == {txs[i].id : i \in DOMAIN txs} \ {NoID}
Busy(ids) == \E q \in Requests : outstanding[q] \cap ids # {}

\* The i-th transaction is given its id (a no-op when it came with one).
SetID(txs, i, id) == [txs EXCEPT ![i] = [@ EXCEPT !.id = id]]

\* The ids a transaction may end up with: its own, or a generated one.
IDsFor(tx) ==
    IF tx.id # NoID THEN {tx.id}
    ELSE {id \in LiveIDs : OverlappingDuplicates \/ (id \notin seenIDs /\ ~Busy({id}))}

\* validateTx; the Kafka path only fills in a missing id.
Valid(r, tx) == kind[r] = "kafka" \/ (tx.user # NoUser /\ tx.amount > 0)

\* The Z-score detector divides by the deviation of the user's amounts in the
\* category, which is NaN for one amount, unless the population has no spread
\* and it abstains first.  A NaN of one detector is the NaN of the sum; any
\* other score is left open.
HistoryOfOne(tx) == Cardinality(amountsOfCategory(tx.user, tx.category)) = 1

EnsembleScores(tx, one) ==
    IF one /\ GlobalCategorySpread(tx.category) THEN {NaN} ELSE RawScores

-----------------------------------------------------------------------------
(* Boot: main seeds the store, then listens. *)
Serving == loaded = Len(SeedData)

LoadSeed ==
    /\ loaded < Len(SeedData)
    /\ loaded' = loaded + 1
    /\ Seed(SeedData[loaded + 1])
    /\ UNCHANGED <<caseVars, rules, requestVars, alerts, scoringTotal, auxVars>>

\* The bodies an entry point may receive; a single request or a Kafka message
\* is a batch of one.
Bodies(k) == IF k = "batch" THEN Batches ELSE {<<tx>> : tx \in Txs}

\* A request arrives.  There is one consumer goroutine, hence one Kafka
\* message in progress at a time.  An oversized batch is refused unread.
Submit(r, k, txs) ==
    /\ Serving
    /\ pc[r] = "idle"
    /\ k = "kafka" => \A q \in Requests : ~(InFlight(q) /\ kind[q] = "kafka")
    /\ OverlappingDuplicates \/ ~Busy(IdsOf(txs))
    /\ kind' = [kind EXCEPT ![r] = k]
    /\ IF k = "batch" /\ Len(txs) > MaxBatch
       THEN /\ pc' = [pc EXCEPT ![r] = "done"]
            /\ status' = [status EXCEPT ![r] = "400"]
            /\ UNCHANGED <<batch, outstanding>>
       ELSE /\ pc' = [pc EXCEPT ![r] = "item"]
            /\ batch' = [batch EXCEPT ![r] = txs]
            /\ outstanding' = [outstanding EXCEPT ![r] = IdsOf(txs)]
            /\ UNCHANGED status
    /\ UNCHANGED <<storeVars, caseVars, rules, loaded, pos, cancelled, lone, raw, outcome,
                   answers, alerts, scoringTotal, auxVars>>

\* The client goes away, or the consumer is told to stop.
Cancel(r) ==
    /\ InFlight(r)
    /\ cancelled' = [cancelled EXCEPT ![r] = TRUE]
    /\ UNCHANGED <<storeVars, caseVars, rules, loaded, pc, kind, batch, pos, lone, raw, outcome,
                   answers, status, outstanding, alerts, scoringTotal, auxVars>>

-----------------------------------------------------------------------------
\* The request is over; its client stops waiting.
Finish(r, how) ==
    /\ pc' = [pc EXCEPT ![r] = "done"]
    /\ status' = [status EXCEPT ![r] = how]
    /\ outstanding' = [outstanding EXCEPT ![r] = {}]

\* A fault: the batch loop retries the item it gave up.
GiveUpStuck(r, how) ==
    IF kind[r] = "batch"
    THEN UNCHANGED <<pos, pc, status, outstanding>>
    ELSE Finish(r, how) /\ UNCHANGED pos

\* An item that yields no result: a batch goes on with the next one, the other
\* entry points end here.
GiveUp(r, how) ==
    IF kind[r] = "batch"
    THEN /\ pos' = [pos EXCEPT ![r] = @ + 1]
         /\ UNCHANGED <<pc, status, outstanding>>
    ELSE Finish(r, how) /\ UNCHANGED pos

\* A fault: the first invalid item ends a batch.
RejectInvalidEnds(r) ==
    /\ HasItem(r)
    /\ ~Valid(r, Item(r))
    /\ Finish(r, IF kind[r] = "batch" THEN "200" ELSE "400")
    /\ UNCHANGED <<storeVars, caseVars, rules, loaded, kind, batch, pos, cancelled, lone, raw,
                   outcome, answers, alerts, scoringTotal, auxVars>>

RejectInvalid(r) ==
    /\ HasItem(r)
    /\ ~Valid(r, Item(r))
    /\ GiveUp(r, "400")
    /\ UNCHANGED <<storeVars, caseVars, rules, loaded, kind, batch, cancelled, lone, raw, outcome,
                   answers, alerts, scoringTotal, auxVars>>

\* A fault: the cursor runs backwards.
CollectBackwards(r, id, dup, o) ==
    /\ answers' = [answers EXCEPT ![r] = Append(@, [id |-> id, dup |-> dup, outcome |-> o])]
    /\ scoringTotal' = scoringTotal + 1
    /\ pos' = [pos EXCEPT ![r] = @ - 1]

\* The caller collects a result and counts it (RecordScoring).
Collect(r, id, dup, o) ==
    /\ answers' = [answers EXCEPT ![r] = Append(@, [id |-> id, dup |-> dup, outcome |-> o])]
    /\ scoringTotal' = scoringTotal + 1
    /\ pos' = [pos EXCEPT ![r] = @ + 1]

\* A fault: the duplicate path notifies as well.
AnswerDuplicateAlerts(r) ==
    /\ HasItem(r)
    /\ Valid(r, Item(r))
    /\ \E id \in IDsFor(Item(r)) :
          /\ SeenBefore(id)
          /\ batch' = [batch EXCEPT ![r] = SetID(@, pos[r], id)]
          /\ alerts' = [alerts EXCEPT ![id] = @ + 1]
          /\ Collect(r, id, TRUE, Duplicate)
    /\ UNCHANGED <<storeVars, caseVars, rules, loaded, pc, kind, cancelled, lone, raw, outcome,
                   status, outstanding, auxVars>>

\* Process, step 1, on an id already recorded.
AnswerDuplicate(r) ==
    /\ HasItem(r)
    /\ Valid(r, Item(r))
    /\ \E id \in IDsFor(Item(r)) :
          /\ SeenBefore(id)
          /\ batch' = [batch EXCEPT ![r] = SetID(@, pos[r], id)]
          /\ Collect(r, id, TRUE, Duplicate)
    /\ UNCHANGED <<storeVars, caseVars, rules, loaded, pc, kind, cancelled, lone, raw, outcome, status,
                   outstanding, alerts, auxVars>>

\* Process, ctx.Err() after the check.
AbortCancelled(r) ==
    /\ HasItem(r)
    /\ Valid(r, Item(r))
    /\ cancelled[r]
    /\ \E id \in IDsFor(Item(r)) : ~SeenBefore(id)
    /\ GiveUp(r, "500")
    /\ UNCHANGED <<storeVars, caseVars, rules, loaded, kind, batch, cancelled, lone, raw, outcome,
                   answers, alerts, scoringTotal, auxVars>>

\* A fault: nothing is looked up before scoring.
AdmitUnchecked(r) ==
    /\ HasItem(r)
    /\ Valid(r, Item(r))
    /\ ~cancelled[r]
    /\ \E id \in IDsFor(Item(r)) :
          /\ batch' = [batch EXCEPT ![r] = SetID(@, pos[r], id)]
          /\ outstanding' = [outstanding EXCEPT ![r] = @ \cup {id}]
    /\ pc' = [pc EXCEPT ![r] = "ensemble"]
    /\ UNCHANGED <<storeVars, caseVars, rules, loaded, kind, pos, cancelled, lone, raw, outcome,
                   answers, status, alerts, scoringTotal, auxVars>>

\* The check passes: from here on nothing looks at seenIDs again.
Admit(r) ==
    /\ HasItem(r)
    /\ Valid(r, Item(r))
    /\ ~cancelled[r]
    /\ \E id \in IDsFor(Item(r)) :
          /\ ~SeenBefore(id)
          /\ batch' = [batch EXCEPT ![r] = SetID(@, pos[r], id)]
          /\ outstanding' = [outstanding EXCEPT ![r] = @ \cup {id}]
    /\ pc' = [pc EXCEPT ![r] = "ensemble"]
    /\ UNCHANGED <<storeVars, caseVars, rules, loaded, kind, pos, cancelled, lone, raw, outcome,
                   answers, status, alerts, scoringTotal, auxVars>>

\* Step 2.  The detectors read the store one call at a time, so other requests
\* may record transactions between the user's history and the population's.
ReadHistory(r) ==
    /\ pc[r] = "ensemble"
    /\ lone' = [lone EXCEPT ![r] = HistoryOfOne(Item(r))]
    /\ pc' = [pc EXCEPT ![r] = "population"]
    /\ UNCHANGED <<storeVars, caseVars, rules, loaded, kind, batch, pos, cancelled, raw, outcome,
                   answers, status, outstanding, alerts, scoringTotal, auxVars>>

RunEnsemble(r) ==
    /\ pc[r] = "population"
    /\ \E s \in EnsembleScores(Item(r), lone[r]) : raw' = [raw EXCEPT ![r] = s]
    /\ lone' = [lone EXCEPT ![r] = FALSE]
    /\ pc' = [pc EXCEPT ![r] = "rules"]
    /\ UNCHANGED <<storeVars, caseVars, rules, loaded, kind, batch, pos, cancelled, outcome,
                   answers, status, outstanding, alerts, scoringTotal, auxVars>>

\* Steps 3 to 6; nothing is shared but the rules, read in one call.
ApplyRules(r) ==
    /\ pc[r] = "rules"
    /\ \E brokenFit \in BrokenFits :
          LET matches == Evaluate(Item(r))
          IN  outcome' = [outcome EXCEPT ![r] =
                  Decide(raw[r], FlagWeight(matches), HasBlock(matches), HasReview(matches),
                         brokenFit)]
    /\ pc' = [pc EXCEPT ![r] = "persist"]
    /\ UNCHANGED <<storeVars, caseVars, rules, loaded, kind, batch, pos, cancelled, lone, raw,
                   answers, status, outstanding, alerts, scoringTotal, auxVars>>

\* Step 7.  Add appends and marks the id whether or not it was there already.
Persist(r) ==
    /\ pc[r] = "persist"
    /\ Add(Item(r), outcome[r].risk)
    /\ timesScored' = [timesScored EXCEPT ![Item(r).id] = @ + 1]
    /\ lastOutcome' = [lastOutcome EXCEPT ![Item(r).id] = outcome[r]]
    /\ pc' = [pc EXCEPT ![r] = "case"]
    /\ UNCHANGED <<caseVars, rules, loaded, kind, batch, pos, cancelled, lone, raw, outcome,
                   answers, status, outstanding, alerts, scoringTotal>>

\* Two faults of the case step: a case on the raw score instead of the decision,
\* and a case only for scores, not for review rules.
OpenCaseOnRaw(r) ==
    /\ pc[r] = "case"
    /\ LET id == Item(r).id
           o == outcome[r]
       IN  /\ IF NeedsCase(o)
              THEN Create(id, [score |-> raw[r], severity |-> SeverityFromScore(raw[r])])
              ELSE UNCHANGED caseVars
           /\ alerts' = IF IsFlagged(o.risk) THEN [alerts EXCEPT ![id] = @ + 1] ELSE alerts
           /\ Collect(r, id, FALSE, o)
    /\ raw' = [raw EXCEPT ![r] = 0]
    /\ outcome' = [outcome EXCEPT ![r] = Duplicate]
    /\ pc' = [pc EXCEPT ![r] = "item"]
    /\ UNCHANGED <<storeVars, rules, loaded, kind, batch, cancelled, lone, status, outstanding,
                   auxVars>>

OpenCaseIfFlagged(r) ==
    /\ pc[r] = "case"
    /\ LET id == Item(r).id
           o == outcome[r]
       IN  /\ IF IsFlagged(o.risk) THEN Create(id, o.risk) ELSE UNCHANGED caseVars
           /\ alerts' = IF IsFlagged(o.risk) THEN [alerts EXCEPT ![id] = @ + 1] ELSE alerts
           /\ Collect(r, id, FALSE, o)
    /\ raw' = [raw EXCEPT ![r] = 0]
    /\ outcome' = [outcome EXCEPT ![r] = Duplicate]
    /\ pc' = [pc EXCEPT ![r] = "item"]
    /\ UNCHANGED <<storeVars, rules, loaded, kind, batch, cancelled, lone, status, outstanding,
                   auxVars>>

\* Steps 8, 9 and 10: the case, the notifier's goroutine, the result.
OpenCase(r) ==
    /\ pc[r] = "case"
    /\ LET id == Item(r).id
           o == outcome[r]
       IN  /\ IF NeedsCase(o) THEN Create(id, o.risk) ELSE UNCHANGED caseVars
           /\ alerts' = IF IsFlagged(o.risk) THEN [alerts EXCEPT ![id] = @ + 1] ELSE alerts
           /\ Collect(r, id, FALSE, o)
    /\ raw' = [raw EXCEPT ![r] = 0]
    /\ outcome' = [outcome EXCEPT ![r] = Duplicate]
    /\ pc' = [pc EXCEPT ![r] = "item"]
    /\ UNCHANGED <<storeVars, rules, loaded, kind, batch, cancelled, lone, status, outstanding,
                   auxVars>>

\* All items are done.  gin renders the results as one JSON document; a NaN in
\* any of them makes the encoder fail and the body stay empty under status 200.
Rendered(as) == \A i \in DOMAIN as : ~as[i].outcome.calNaN

Respond(r) ==
    /\ pc[r] = "item"
    /\ pos[r] > Len(batch[r])
    /\ Finish(r, IF kind[r] = "kafka" \/ Rendered(answers[r]) THEN "200" ELSE "empty")
    /\ UNCHANGED <<storeVars, caseVars, rules, loaded, kind, batch, pos, cancelled, lone, raw, outcome,
                   answers, alerts, scoringTotal, auxVars>>

\* Everything a request does on its own once submitted.
Step(r) ==
    \/ RejectInvalid(r) \/ AnswerDuplicate(r) \/ AbortCancelled(r) \/ Admit(r)
    \/ ReadHistory(r) \/ RunEnsemble(r) \/ ApplyRules(r) \/ Persist(r) \/ OpenCase(r) \/ Respond(r)

-----------------------------------------------------------------------------
(* The other actors. *)
ReloadRules ==
    /\ Serving
    /\ \E f \in RuleFiles : Reload(f)
    /\ UNCHANGED <<storeVars, caseVars, loaded, requestVars, alerts, scoringTotal, auxVars>>

Review ==
    /\ AnalystStep
    /\ UNCHANGED <<storeVars, rules, loaded, requestVars, alerts, scoringTotal, auxVars>>

Hook(id) ==
    /\ RunHook(id)
    /\ UNCHANGED <<storeVars, rules, loaded, requestVars, alerts, scoringTotal, auxVars>>

-----------------------------------------------------------------------------
Init ==
    /\ NewStore
    /\ NewManager
    /\ NewEngine
    /\ loaded = 0
    /\ pc = [r \in Requests |-> "idle"]
    /\ kind = [r \in Requests |-> "single"]
    /\ batch = [r \in Requests |-> <<>>]
    /\ pos = [r \in Requests |-> 1]
    /\ cancelled = [r \in Requests |-> FALSE]
    /\ lone = [r \in Requests |-> FALSE]
    /\ raw = [r \in Requests |-> 0]
    /\ outcome = [r \in Requests |-> Duplicate]
    /\ answers = [r \in Requests |-> <<>>]
    /\ status = [r \in Requests |-> "none"]
    /\ outstanding = [r \in Requests |-> {}]
    /\ alerts = [id \in CaseIDs |-> 0]
    /\ scoringTotal = 0
    /\ timesScored = [id \in CaseIDs |-> 0]
    /\ lastOutcome = [id \in CaseIDs |-> Duplicate]

Next ==
    \/ LoadSeed
    \/ \E r \in Requests :
          \/ \E k \in Kinds : \E txs \in Bodies(k) : Submit(r, k, txs)
          \/ Cancel(r)
          \/ Step(r)
    \/ ReloadRules
    \/ Review
    \/ \E id \in CaseIDs : Hook(id)

Spec == Init /\ [][Next]_vars

\* A started handler and a started hook goroutine keep being scheduled, and
\* boot runs to its end; clients, analysts and administrators owe nothing.
Fairness ==
    /\ WF_vars(LoadSeed)
    /\ \A r \in Requests : WF_vars(Step(r))
    /\ \A id \in CaseIDs : WF_vars(Hook(id))

FairSpec == Spec /\ Fairness

-----------------------------------------------------------------------------
(* The shape of the state, part by part. *)
StoreTypes ==
    /\ history \in [Users -> Seq(Transaction)]
    /\ seenIDs \subseteq CaseIDs
    /\ totalScored \in Nat /\ totalFlagged \in Nat
    /\ bySeverity \in [Severities -> Nat]

CaseTypes ==
    /\ cases \in [CaseIDs -> Case]
    /\ pendingHooks \in [CaseIDs -> Nat] /\ markers \in [CaseIDs -> Nat]

RequestTypes ==
    /\ pc \in [Requests -> {"idle", "item", "ensemble", "population", "rules", "persist",
                         "case", "done"}]
    /\ kind \in [Requests -> {"single", "batch", "kafka"}]
    /\ batch \in [Requests -> Seq(Transaction)]
    /\ pos \in [Requests -> Nat \ {0}]
    /\ cancelled \in [Requests -> BOOLEAN]
    /\ lone \in [Requests -> BOOLEAN]
    /\ raw \in [Requests -> ScoreValue]
    /\ outcome \in [Requests -> Outcomes]
    /\ answers \in [Requests -> Seq(Answers)]
    /\ status \in [Requests -> {"none", "200", "400", "500", "empty"}]
    /\ outstanding \in [Requests -> SUBSET CaseIDs]

TallyTypes ==
    /\ rules \subseteq AllRules
    /\ loaded \in 0..Len(SeedData)
    /\ alerts \in [CaseIDs -> Nat]
    /\ scoringTotal \in Nat
    /\ timesScored \in [CaseIDs -> Nat]
    /\ lastOutcome \in [CaseIDs -> Outcomes]

TypeOK == StoreTypes /\ CaseTypes /\ RequestTypes /\ TallyTypes

\* Between Admit and OpenCase a request has a current transaction with an id.
Working(r) == pc[r] \in {"ensemble", "population", "rules", "persist", "case"}

WorkInRange ==
    \A r \in Requests :
        Working(r) => pos[r] \in 1..Len(batch[r]) /\ Item(r).id \in CaseIDs

-----------------------------------------------------------------------------
(* Safety that holds whatever the clients do. *)

\* A case is opened only for a transaction that is already in the store, so an
\* analyst never reviews a transaction the baselines know nothing of.
CasesArePersisted == \A id \in CaseIDs : Exists(id) => id \in seenIDs /\ timesScored[id] > 0

\* An answer that is flagged, blocked or sent to review has a case, also under
\* concurrent requests, reloads and analysts.
FlaggedAnswerHasCase ==
    \A r \in Requests : \A i \in DOMAIN answers[r] :
        NeedsCase(answers[r][i].outcome) => Exists(answers[r][i].id)

\* The answers that stand for an Add of their own, the one that Persist has made
\* and OpenCase not yet answered included, by their place among the answers.
ScoringsOf(r, id) ==
    {k \in 1..(Len(answers[r]) + 1) :
        \/ k \in DOMAIN answers[r] /\ answers[r][k].id = id /\ ~answers[r][k].dup
        \/ k \notin DOMAIN answers[r] /\ pc[r] = "case" /\ Item(r).id = id}

Scorings(id) == UNION {{r} \X ScoringsOf(r, id) : r \in Requests}

ValidItems(r) == {i \in DOMAIN batch[r] : Valid(r, batch[r][i])}
Rank(r, i) == Cardinality(ValidItems(r) \cap 1..i)
EndedWell(r) == pc[r] = "done" /\ status[r] \in {"200", "empty"} /\ ~cancelled[r]

\* No error path drops a transaction silently.  A request that ran to its end
\* without being cancelled has answered every valid item of its body, once and in
\* order; every answer but a duplicate's stands for an Add of that very item, and
\* a duplicate's id was recorded before.  (handlers.go:229-236; an item whose
\* generated id is taken is answered as a duplicate, and is not recorded.)
AcceptedIsRecorded ==
    /\ \A id \in CaseIDs : timesScored[id] = Cardinality(Scorings(id))
    /\ \A r \in Requests : \A k \in DOMAIN answers[r] :
          answers[r][k].dup => answers[r][k].id \in seenIDs
    /\ \A r \in Requests : EndedWell(r) =>
          /\ Len(answers[r]) = Cardinality(ValidItems(r))
          /\ \A i \in ValidItems(r) : answers[r][Rank(r, i)].id = batch[r][i].id

\* What carries the four: decisions are consistent, the ledger of Add calls and
\* the seen set agree, and OpenCase runs only after its Add.
DecisionIsConsistent ==
    \A r \in Requests :
        outcome[r].risk.severity = SeverityFromScore(outcome[r].risk.score)

ScoredIsSeen == \A id \in CaseIDs : timesScored[id] > 0 => id \in seenIDs

CaseStepIsRecorded ==
    \A r \in Requests : pc[r] = "case" => timesScored[Item(r).id] > 0

LedgerInv ==
    /\ DecisionIsConsistent
    /\ CountersAgree
    /\ ScoredIsSeen
    /\ CaseStepIsRecorded
    /\ CasesArePersisted
    /\ FlaggedAnswerHasCase

\* The inductive invariant behind them, for requests of every kind, overlapping
\* or not.
TypeInv == TypeOK /\ WorkInRange

BaseInv == TypeInv /\ LedgerInv

-----------------------------------------------------------------------------
(* Idempotency, as Process documents it. *)

\* A transaction id is persisted at most once: SeenBefore short-circuits every
\* other request that carries it.
AtMostOnceScored == \A id \in CaseIDs : timesScored[id] <= 1

\* A transaction is alerted on at most once, and only if the outcome that was
\* persisted for it is flagged.
OneAlertEach ==
    \A id \in CaseIDs :
        /\ alerts[id] <= 1
        /\ alerts[id] = 1 => IsFlagged(lastOutcome[id].risk)

\* What a client was told is what is on file: the outcome in its answer is the
\* one that was persisted, and the case the analysts see carries its score and
\* the priority of its severity.
AnswerIsOnFile ==
    \A r \in Requests : \A i \in DOMAIN answers[r] :
        LET a == answers[r][i] IN ~a.dup =>
            /\ lastOutcome[a.id] = a.outcome
            /\ NeedsCase(a.outcome) =>
                  /\ cases[a.id].score = a.outcome.risk.score
                  /\ cases[a.id].priority = priorityFromSeverity(a.outcome.risk.severity)

\* total_scored counts transactions, not requests.
StatsCountTransactions ==
    totalScored = Cardinality({id \in CaseIDs : timesScored[id] > 0})

\* Create never replaces a case: what analysts did to it is not undone.
AnalystWorkIsKept ==
    [][\A id \in CaseIDs : Exists(id) =>
          /\ Exists(id)'
          /\ cases'[id].notes >= cases[id].notes
          /\ cases[id].resolved => cases'[id].resolved]_vars

\* The abstract book, read off the ledger and the cases.
Book == INSTANCE IdempotentScoring WITH
    IDs <- CaseIDs,
    book <- [id \in CaseIDs |-> IF timesScored[id] = 0 THEN {} ELSE {lastOutcome[id]}],
    opened <- {id \in CaseIDs : Exists(id)}

\* Process implements the abstract book: with no overlapping duplicates, every
\* step of every actor records a new id, opens its one case, or leaves both alone.
ImplementsBook == Book!BookSpec

-----------------------------------------------------------------------------
(* What the repository says of the program and the code does not keep. *)

\* models.go: a score is "the ensemble probability of fraud in the range [0, 1]".
AnswersAreProbabilities ==
    \A r \in Requests : \A i \in DOMAIN answers[r] : answers[r][i].outcome.risk.score \in 0..Scale

-----------------------------------------------------------------------------
(* Liveness. *)

\* Every request that is accepted ends, cancelled or not.
EveryRequestEnds == \A r \in Requests : InFlight(r) ~> pc[r] = "done"

\* Every confirmed case reaches Stripe.
ConfirmedIsMarked == \A id \in CaseIDs : cases[id].status = "confirmed" ~> markers[id] > 0

-----------------------------------------------------------------------------
(* The inductive invariant behind idempotency (OverlappingDuplicates = FALSE): *)
(* between a request's check of seenIDs and its Add no other request owns the  *)
(* id, so what the check saw is still true.                                    *)
OwnersAreDisjoint ==
    \A q, r \in Requests : q # r => outstanding[q] \cap outstanding[r] = {}

BatchIsOwned ==
    \A r \in Requests : InFlight(r) =>
        \A i \in DOMAIN batch[r] : batch[r][i].id \in outstanding[r] \cup {NoID}

CheckStillHolds ==
    \A r \in Requests :
        /\ Working(r) => Item(r).id \in outstanding[r]
        /\ (Working(r) /\ pc[r] # "case") => Item(r).id \notin seenIDs

CaseIsNext ==
    \A r \in Requests : pc[r] = "case" =>
        LET id == Item(r).id IN
        /\ timesScored[id] = 1
        /\ lastOutcome[id] = outcome[r]
        /\ ~Exists(id)
        /\ alerts[id] = 0

AlertedIsScored == \A id \in CaseIDs : alerts[id] > 0 => timesScored[id] > 0

\* main seeds before it listens.
QuietUntilLoaded == ~Serving => \A r \in Requests : ~InFlight(r)

IdempotencyInv ==
    /\ QuietUntilLoaded
    /\ OwnersAreDisjoint
    /\ BatchIsOwned
    /\ CheckStillHolds
    /\ CaseIsNext
    /\ AlertedIsScored
    /\ AtMostOnceScored
    /\ OneAlertEach
=============================================================================
