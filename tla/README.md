# A formal model of the fraud-detection system

TLA+ modules, TLC configurations and TLAPS proofs about the Go program in
`src/`. Line numbers below refer to that source. Modules are listed in
`PROJECT.json`, with the lines each definition stands for.

## 1. Inventory

The program is one process. An HTTP server (gin) and a Kafka consumer both feed
transactions to one function, `Pipeline.Process`; everything it touches is in
memory and shared between goroutines.

| Component | State | Operations | Talks to |
|---|---|---|---|
| Risk model (`internal/models`, pipeline steps 5, 6, 8) | none | `SeverityFromScore`, `IsFlagged`, blend, override | pure |
| Scoring pipeline (`internal/pipeline`) | none of its own; a call's local variables | `Process`, ten steps in order | store, detectors, calibrator, rules, case manager, notifier |
| In-memory store (`internal/storage/storage.go`) | per-user history window, seen ids, counters | `Add`, `Seed`, `SeenBefore`, reads | called by all; one mutex per call |
| Rules engine (`internal/rules`) | the rule list | `Evaluate`, `Reload` | pipeline; admin handler |
| Case manager (`internal/cases`) | map of cases, hooks | `Create`, `Assign`, `Resolve`, `AddNote`, `Get`, `List`, `Stats` | pipeline creates; analysts' handlers edit; hooks run in goroutines |
| HTTP scoring handlers (`internal/api/handlers.go`) | request-local | `ScoreTransaction`, `ScoreBatch` | pipeline, metrics |
| Kafka consumer (`internal/kafka`) | offsets, queued commits, open handles | `Start`, `processMessage`, `Close` | broker, pipeline, alert topic, shutdown in `main.go` |
| Detectors and ensemble (`internal/detector`) | none | seven detectors and their weighted sum | read the store, one call at a time |
| Calibrator and retraining (`internal/ml`, `internal/training`) | two coefficients | `Fit`, `Calibrate`, periodic `Retrain` | case manager, detectors |
| Notifiers (`internal/webhooks`, `internal/integrations`) | per-alert goroutines | Slack, e-mail, SMS, fan-out | outside services |
| Stripe (`internal/integrations`) | none | `OnCaseConfirmed` | hook of the case manager |
| Rate limiter (`internal/middleware/ratelimit.go`) | bucket per address, `lastSeen` | `get`, `Allow`, `evictIdle` | HTTP routes |
| Auth, other middleware | key tables written once | `Verify` | HTTP routes |
| Boot (`main.go`, `api/seed.go`) | wiring | seed, evaluate, calibrate, listen, shut down | everything |
| Redis and Postgres stores, isolation forest, config, tracing | | | not selected by `main.go`, or no state |

**What is hard here.** `Process` holds no lock across its steps: it asks
`SeenBefore` first and calls `Add` last, so what it checked may be stale when
it acts. The case is opened in yet another critical section. Rules are replaced
while requests are being scored. Analysts edit cases while the pipeline could
open them again. A Z-score over one amount is NaN and every comparison with NaN
is false. Clients retry, cancel, and send the same id twice; batches skip items
that fail. Confirmations and notifications run in goroutines nobody waits for,
one of which uses a context its starter cancels. The Kafka reader commits what it
hands out, not what has been handled, and nothing waits for it at shutdown. The
retraining job and the read handlers use live cases after the manager's lock is
released. The rate limiter's sweep decides on a time stamp that is out of date
when it acts.

**What makes each component correct.** Store: a user's history is exactly its
newest arrivals, the seen set never forgets, counters agree with each other.
Pipeline: an id is scored, counted, filed and alerted once; a flagged answer has
its case; the answer is what is on file. Handlers: a request that ends well has
answered every valid item, and every answer but a duplicate's stands for a
recording of its own; every request ends. Cases: analysts' work is not overwritten; every
confirmation reaches Stripe. Notifier: one channel's failure costs no other
channel its alert, and fan-outs end. Rules: a reload is seen wholly or not
at all. Kafka: a process loses at most the message in its hand, alerts once per
transaction, and the group catches up. Retraining: verdicts that stand are
learned, both coefficients come from one fit. Limiter: one bucket per client, and
in a second no more than that bucket holds and earns. Detectors: firing never
lowers the score, a score is NaN for one reason only, only a flood hides a burst.
The full list of hazards, each at its line, with the properties that cover it or
the reason why none does, is in `PROJECT.json`.

## 2. Modules

| Module | What it models |
|---|---|
| `RiskModel` | scores in hundredths and NaN, severity, blend, override, `Decide` |
| `MemStore` | the in-memory store: one action per public method that writes |
| `StoreContract` | the store against the untrimmed record of all calls |
| `RulesEngine` | rule matching, weights, verdicts, `NewEngine`, `Reload` |
| `CaseEdits` | what the case manager's calls make of a case |
| `CaseManager` | cases, the handlers' guards, the hook goroutines; each call one step |
| `ScoringPipeline` | all of the above composed: requests of three kinds, step by step, with boot, reloads, analysts and hooks interleaved |
| `IdempotentScoring` | the abstract promise of `Process`: one unchanging outcome per id, one case (`Book` in `ScoringPipeline` is the mapping) |
| `Notifier` | one alert's fan-out: contexts, deadline, goroutines |
| `KafkaConsumer` | offsets, commits, the message handler, alerts, shutdown, crash, restart, rebalance |
| `RateLimiter` | bucket lookup and creation, tokens, the eviction sweep |
| `CaseReads` | the manager's read-write mutex field by field: `Get`, `List`, `Stats` and the encoding of their results |
| `AtomicCases` | the abstract promise of the manager: a call changes one case, all of it at once (`Calls` in `CaseReads` is the mapping) |
| `Retraining` | the refit cycle and the calibrator, composed with `MemStore` and `CaseManager` |
| `Detectors` | the seven detectors and the ensemble, as operators on the state of `MemStore` |
| `Evaluation` | the offline evaluation and the calibration at boot, which run `Detectors` on every small data set |
| `MCStore`, `MCPipeline`, `MCNotifier`, `MCKafka`, `MCLimiter`, `MCReads`, `MCRetraining`, `MCEvaluation` | instances for TLC |
| `MemStoreProofs` | theorems about the risk model and lemmas about the store's operations, for the modules that use them |
| `WindowProofs` | theorems about `StoreContract` and about `Evaluation`: what the bounded window keeps, and what the detectors make of it |
| `ScoringPipelineProofs`, `KafkaProofs`, `NotifierProofs`, `RateLimiterProofs`, `RetrainingProofs`, `ReadsProofs` | theorems about the specifications of these names (`ReadsProofs`: `CaseReads`) |

**How `ScoringPipeline` corresponds to the code.** A request `r` is one call of
a handler or one Kafka message; `pc[r]` says where it is:

| `pc` | code | action leaving it |
|---|---|---|
| `idle` | not received yet | `Submit` (an oversized batch is answered 400 at once) |
| `item` | at the head of the batch loop, about to validate and look the id up | `RejectInvalid`, `AnswerDuplicate`, `AbortCancelled`, `Admit`, or `Respond` after the last item |
| `ensemble`, `population` | the detectors read the user's history, then the population's | `ReadHistory`, `RunEnsemble` |
| `rules` | calibrate, evaluate rules, blend, override | `ApplyRules` |
| `persist` | `Store.Add` | `Persist` |
| `case` | case, notifier goroutine, result | `OpenCase` |
| `done` | answered; `status` holds the code | |

Single requests and Kafka messages are batches of one. `timesScored` and
`lastOutcome` are auxiliary: they record `Add` calls and influence nothing.
`outstanding[r]` is what the client of `r` waits for; it is environment state,
read only by the assumption on clients below and by nothing in the program.

**How the others correspond.** In `KafkaConsumer` the consumer goroutine's `pc`
is `read` (in `ReadMessage`), `handle` (a message in `hand`, before `Process`),
`publish` (a flagged one, before `WriteMessages`) or `stopped`; `stage` is where
`main` is in its shutdown; `committed` and `alerts` belong to the broker and
survive a process, everything else does not. `Process` is one step there, since
the goroutine handles one message at a time and only the seen set lasts. In
`RateLimiter` a handler loads, stores on a miss, and asks for a token; the sweep
visits keys and deletes those it found idle; each operation of the `sync.Map` is
a step. Buckets are refilled as `rate.Limiter` does it, a token with each step of
time, which is 1/`PerSecond` of a second, up to the burst; the second over which
requests are counted (`elapsed`, `admitted`, `wasted`) may begin at any step and
knows nothing of what the buckets hold. `lost` and `touched` are auxiliary: they
record a bucket that the sweep deleted while it was in use. In `CaseReads` a call
is a wait in the queue of the mutex, a lock, a list of assignments and an unlock,
and a reader that has its pointers encodes one field per step. That `CaseManager`,
and with it the pipeline and the retraining, takes a call for a single step is
what `CallsAreAtomic` justifies: to `AtomicCases` a case is as the call that holds
the mutex will leave it. In `Retraining` the
job's `phase` follows `Retrain`: list, first read of the status, re-scoring,
second read, fit under the calibrator's mutex, coefficient after coefficient. What
it re-scores is rebuilt from the case, without time and device
(`training.go:116-124`); only the amounts matter to what is said of it.
`Evaluation` scores a purchase on what was seeded before it and then seeds it, as
`Evaluate` does, and collects calibration pairs afterwards from the same store.
The generated data are sorted by time; in the model purchases come in any order of
their times, as live ones do, whose times are the clients' (`handlers.go:268`,
`kafka.go:136`).

**Abstractions.** Scores are hundredths. In `ScoringPipeline` the ensemble may
return any score in `RawScores`, except that it returns NaN exactly when the
Z-score detector divides by the deviation of a single amount and the population
has a spread; `NaNIsAHistoryOfOne` checks that condition on the detectors
themselves, whose Z-score follows the arithmetic of blended deviations, NaN
included, without naming the case. The calibrated score is NaN, too, when the
coefficients are (`brokenFit` in `Decide`): `BrokenFits` lets any request find
them so, and `Retraining` shows that a refit makes them so. In `Detectors` a score
that grows with the anomaly is represented by the ends of its range, the number of
deviations of a Z-score is left open above the mean, and distances, the merchant
registry, substrings and logarithms are tables; of the table of logarithms only
the entry of an abstention, 0.1, matters to what is proved, besides that it grows.
The properties of `Evaluation` count positions in the data, where the detectors
count entries of histories: `Kept` names the purchases a window of `MaxHistory`
holds without referring to the store. Coefficients are the set of pairs they were
fitted on, or `NotFinite`, which stands for NaN and is no such set. Currency,
reasons, latencies and formatting are left out; strings are model values with a
folding function and a substring relation. Rule weights are hundredths too, and
the product in the blend is rounded down.

**The assumption on clients.** `OverlappingDuplicates = FALSE` says that while
one request carrying an id is in progress, no other request carries it, and that
generated ids are distinct. Sequential retries are allowed. The code documents
idempotency without any such assumption; run `overlap` shows what happens
without it, run `retry` and `ScoringPipelineProofs` what holds with it. Runs `entry`
and theorem `BaseTheorem` make no such assumption.

**Faults.** Beside an operation there may be a variant marked "A fault": a
plausible slip of that operation. None is used by a specification. Substituting
one for the operation must break the property `PROJECT.json` pairs it with; that
is how the properties were tested.

## 3. Runs

| Run | Shows | Bounds, and why they are enough |
|---|---|---|
| `store` | window, seen set | four calls, a window of two, one user with three ids of which one empty, one with two: trimming happens twice, ids repeat across users |
| `retry` | at most once, one alert, answers on file, statistics, kept analyst work, refinement of `IdempotentScoring`; every request ends, every confirmation reaches Stripe | two concurrent requests of any kind (single, batch, Kafka) over a new id and a seeded one, a batch that repeats its id: a retry, a repetition and an unrelated id between; cancellation at any time; refits that go NaN; one analyst, one confirmation per case, no notes, so that the part of `AnalystWorkIsKept` about notes says nothing here and is the matter of `AnalystWorkTheorem` |
| `entry` | types, counters, cases for flagged answers; valid items are answered, and answers but duplicates recorded | two requests, all three kinds, overlapping duplicates; bodies with invalid, repeated, id-less and too many items; two rule files reloaded and refits going NaN at any time; no analysts (they are in `retry`) |
| `notifier` | no channel skipped, every fan-out ends | two alerts, two numbers, all subsets of channels |
| `kafka` | what automatic commits lose, one alert per process, skips only for a scoring, catching up | two partitions with messages whose generated ids collide and one that is not JSON; two ends of a process (crash or exit) and one rebalance at any moment, so that offsets are committed, lost and read again; a broker that may refuse alerts |
| `limiter` | one bucket per client; twice the rate in a second, and four times when the sweep deletes a bucket in use; idle buckets go | two clients, two handlers: the creation race and the race with the sweep need two; one token a second, an idle age of two: both bounds are reached, and a stale deletion happens again and again |
| `reads` | dashboard counts of one moment, untouched cases are answered whole, every call returns, and a call is one change of one case (refinement of `AtomicCases`) | two cases, two analysts, one reader, one verdict, one note: two calls that compete for a case and a call for another, a torn case, and a tally that could be wrong over two cases |
| `retraining` | coefficients of one fit, labels, NaN, feedback arrives | two transactions of two users in one category with different amounts, so that a history of one yields NaN; one analyst with no bound on verdicts, cycles without end |
| `detectors` | when a score is NaN, that firing never lowers it, what hides a burst, medians, home country, quiet hours, finite fit | every data set of up to five purchases from nine templates, whose times come in any order; a window of three and thresholds of one to three, so that every branch of every detector is reached, and a burst that is missed since a flood stamped outside it pushed its purchases out |
| `overlap`, `nan`, `texts` | disagreements, section 5 | the smallest instance with the counterexample |

`entry` uses symmetry on requests: it checks no liveness property, and requests
are interchangeable in every definition; `retry` checks liveness and uses none.
Deadlock checking is on for the pipeline (administrators can always reload), the
limiter, the reads and the retraining, which never stop. It is off in `store`
(calls are bounded), `notifier` (alerts end), `kafka` (the log ends, and so do
the processes the bound allows) and `detectors` (the fit is the end).

**Fairness.** Pipeline: weak fairness on each started handler's next step, each
started hook, and boot: the Go scheduler runs runnable goroutines, and no step of
`Process` waits for another goroutine longer than a mutex. Clients, analysts and
administrators owe nothing. `Notifier`: the deadline's timer fires and goroutines
run; Slack and the mail server need never answer. A call to Twilio ends because
the HTTP client has a timeout of its own. `KafkaConsumer`: the goroutine is
scheduled, each partition with messages is fetched from, the commit timer fires,
`main` goes through its shutdown, and a service that has ended is started again;
crashes, rebalances and signals owe nothing. `RateLimiter`: handlers and the
sweep run and time passes. `CaseReads`: weak fairness on each call's and each
reader's next step. That is enough because `RWMutex` is taken in the order of
arrival: a waiting writer holds new readers off, and a reader that waits is let in
when the writer it waits for unlocks. The hook's own call waits in no order in the
model, hence strong fairness for it. `Retraining`:
the ticker fires and the job is scheduled.

## 4. Proofs

All constants are arbitrary, under the named assumptions of the modules (ids are
disjoint from the empty id, the window is positive, transactions are well typed,
rule weights add up to integers, NaN is no number and no pair, the cases a reader
may list are finitely many and at least one, the window is longer than the
velocity detector's allowance, which is 100 against 4, the registry scores 0.70
to 0.98, the table of logits grows and has -2.197 at 0.1, and a bucket is idle
after more than the second its burst takes to come back). Theorems:

* `DecideConsistent`: whatever raw score (NaN included), weight and verdicts,
  the decided severity is the severity of the decided score, and a block answers
  with the maximal score.
* `WindowTheorem`, `SeenTheorem`, `CountersTheorem`: the store keeps its
  contract over any number of calls. The lemma that matters is `NewestAppend`:
  trimming before an append loses nothing the append would have kept.
* `TypeTheorem`, `PipelineCountersTheorem`, `FlaggedAnswerTheorem`,
  `CasesArePersistedTheorem`, for any clients, from `BaseTheorem`. The inductive
  invariant `BaseInv` adds to the shape of the state that every request at work
  is within its body and holds a real id, that decisions are consistent
  (otherwise `Add` would move the counters apart), that the ledger of `Add` calls
  is within the seen set, and that a request at its case step has been persisted
  (otherwise a case could precede its transaction).
* `IdempotencyTheorem`, `AtMostOnceTheorem`, `OneAlertTheorem`, for clients that
  do not overlap duplicates, from `IInvTheorem`. `AtMostOnceScored` alone is not
  inductive: a request between its check and its `Add` must know that the id is
  still unseen. `IdempotencyInv` says why: each request owns the ids its client
  waits for, owners are disjoint, the id a request is working on is one it owns
  and is not in the seen set until its own `Add`, and at the case step it
  was scored exactly once, has no case and no alert. Seeding, the one other
  writer of the seen set, ends before requests start (`QuietUntilLoaded`).
* `AcceptedTheorem`, for any clients and bodies, from `AcceptInv`. `Accepted` says
  of each request how far it is: its answers so far are those of the valid items
  behind its cursor, each at its rank among them, unless it was cancelled or
  refused. `Balanced` is the ledger: the `Add` calls of an id are as many as the
  answers that stand for one, the scoring at its case step, which is about to be
  answered, included. `DuplicatesSeen` needs that the seen set never shrinks. What
  the theorem does not say is that every item is recorded: an item whose generated
  id is taken is answered as a duplicate (section 5).
* `AnswerOnFileTheorem`, `AnalystWorkTheorem`, `StatsTheorem` and `BookTheorem`,
  for clients that do not overlap duplicates. They rest on three consequences of
  `IInv`: a `Persist` writes an id with no earlier `Add`, so the ledger of an
  answered id stands still (`LedgerStays`); an `OpenCase` finds no case, so an
  existing case is at most edited (`CasesAreEdited`), and edits keep its score,
  priority, notes and verdict; all other steps leave ledger and existence of
  cases alone. `BookTheorem` is the refinement: initial states map to an empty
  book, `Persist` to `Record`, an `OpenCase` that calls for a case to `Open`, and
  every other step to a stutter.
* `LossTheorem`, `OneAlertPerProcessTheorem`, `SkippedTheorem`, for any log and
  any number of restarts. `LossInv` says that every offset the broker has, a
  queued commit names or the reader has passed is covered: handled, in hand, or a
  casualty, and counts the casualties with the processes that ended. Without the
  queue and the reader's position the invariant would not survive a flush of
  commits or a rebalance. `AlertInv` says that an id alerted on by the running
  process is in its seen set and is not about to be published again.
* `ErrorsDoNotBlockTheorem`, for any alerts, channels and numbers: `NotifierInv`
  records, stage by stage, what was done for the channels the fan-out has passed.
* `OneBucketTheorem`, `BudgetTheorem`, `StaleTheorem`, for any clients, handlers
  and rate. `Ownership` says that the map is injective, that no one holds a bucket
  that is under another client, and that who asks for a client holds the bucket in
  the map or the one that client lost. `Budget` says of each of the two that what
  it gave in the measured second and what it still holds is no more than its
  capacity and what it has earned since the second began. That a client loses no
  second bucket in use within a second takes the other two: by `Idleness` the sweep
  is wrong only about a bucket that was used after it was found idle, and a bucket
  that is idle is full; by `Youth` a client that lost a bucket has a younger one,
  if any, too young for the sweep until the second is over. The assumption on time
  is that a handler asks its bucket at once by the measure of an idle age, which is
  five minutes. That a fresh bucket can always be named (`SomeFresh`) follows from
  the assumption that there are more buckets than handlers and clients.
* `OneFitTheorem`, `SettledTheorem`, `NaNTheorem`, for any transactions, analysts
  and number of cycles, from `RetrainingInv`. `Coefficients` says that the
  calibrator's mutex is held exactly between the first and the second swap, that
  the two coefficients agree at every other moment, and that in between the slope
  is the new fit. `SettledIsPending` follows a case that was decided when the
  cycle began: it keeps its verdict and is on the list, in the job's hands or
  among the pairs with its label. It is inductive only because nothing but an
  analyst changes an existing case: the pipeline opens cases for unseen ids, and
  `CasesOfSeen` says that an existing case has been seen.
* `StatsMomentTheorem`, `UntouchedTheorem`, for any cases, analysts and readers,
  from `ReadsInv`. `LockInv` is the mutex: those who count hold it together, who
  has an assignment left holds it alone. `StatsInv` adds the counted to the
  uncounted: while a `Stats` counts, both together are what there was at its
  start. `DecisionInv` says that a decided case without its time of decision is
  in the middle of a `Resolve`, whose later assignment adds it; so under the
  mutex every decided case has it, and `ReadInv` carries that, for cases not
  written since, from the lookup to the last encoded field.
* `AtomicCallsTheorem`, the refinement of `AtomicCases`, for any cases, analysts and
  readers. `Written` maps a case to what the assignments that are left will make of
  it. So a call happens when it gets the mutex, with one lemma per call that its
  assignments amount to what `CaseEdits` says (`AssignMakes`, `ResolveMakes`,
  `NoteMakes`), and each assignment is a stutter. That needs `JobsInv`: they are to
  one case and to different fields, hence it does not matter how many of them have
  been done (`CompletedTail`); and `LockInv`, without which two calls could be
  half done at a time. Nothing is claimed of readers after the unlock, who do see
  cases half written (`UntouchedIsFaithful`).
* `HistoryOfOneTheorem`, `VelocityTheorem`, `HomeTheorem`, for any templates, any
  order of their times and any length of the data. `Recent` says that, while the
  data are played, a history is in the order of arrival and what it misses arrived
  before a full window; so histories and `Kept` correspond one to one
  (`HeldIsKept`) and every count of a detector is a count in the data (`SameCount`).
  For the Z-score, an own sample of one has the deviation NaN and no other has
  (`OwnDeviation`), the population's is guarded and never NaN (`PopulationDeviation`),
  and a blend with NaN is NaN; so the score is NaN for such a sample, unless the
  population has no spread and the detector abstains (`ZScoreNaN`). For the velocity detector the
  window is not enough, since a burst is counted among everything ever sent: what
  is hidden arrived before everything in the window, and where no more of the
  window than the allowance is of the burst, the rest of it is the flood
  (`HiddenMembers`).
* `QuietTheorem`, for any number of hours and any history. The loop of
  `findQuietestHour` is a recursive function of its round, and what it holds after
  each round is proved without induction over data: a statement that fails for some
  number has a first number it fails for (`LeastNat`, from the well-foundedness
  of `<` on the naturals), and round by round there is no first. So the function
  exists (`ScanExists`) and no window so far is quieter than its value
  (`ScanIsLeast`).
* `MedianTheorem`, for any sample sizes and any least history. `Ranked` says which
  amount sorting puts in a place, by counting what is below it; that every place
  of a finite sample is taken is proved with `LeastNat` again (`LargestEntry`,
  `RankedExists`). An amount with half of a sample at most it and half at least
  it lies within both fences of that sample, the sizes 1 and 2, where quartiles
  are not on either side of it, included (`FencesHoldMedian`); a blend keeps the
  inequalities of the parts that have weight (`BlendKeeps`), and a population too
  small for quartiles has none. `SameCountAll` carries counts over all users
  from the store to the data.
* `FiringTheorem`, whatever the histories hold: `VotesRange` says what each detector
  may answer, no vote that fires has a logit at or below the one an abstention is
  given, and the sum of the weighted logits is strictly monotone in each
  (`AbstentionLowers`). It would fail for a detector that fires with 0.1 or less.
* `CalibrationTheorem`, for any data in which each purchase has another of its
  user and category and none is trimmed. In the calibration `Recent` is lost: the
  same data arrive again and push the first round out. `Rotated` replaces it: a
  history begins with what is left of the first round, in order, and ends with
  all of the second. Whatever is pushed out is the purchase that is about to
  arrive or one that has already arrived again, so no purchase is ever missing,
  a category is never down to one entry, and no pair is NaN. The fresh store of
  the comment would break the first step (the fault `BeginCalibrationFresh`).
* `StoreTypeTheorem`, `KafkaTypeTheorem`, `NotifierTypeTheorem`,
  `LimiterTypeTheorem`: type correctness. The runs check the type invariant of
  the pipeline only.

Only model-checked: liveness (`EveryRequestEnds`, `ConfirmedIsMarked`,
`NotifyEnds`, `CaughtUp`, `IdleIsEvicted`, `CallsReturn`,
`StandingVerdictIsLearned`), because fairness and ENABLED are beyond the prover,
and the disagreements of section 5, which are counterexamples. Every invariant
and every action property a passing run checks is a theorem.

## 5. Where code and documentation disagree

With a run that shows it:

1. **Overlapping duplicates** (`overlap`). The pipeline documents that a
   duplicate id "is short-circuited via Store.SeenBefore rather than re-scored
   and re-persisted". Check and `Add` are not one critical section; two
   overlapping requests both pass and both persist.
2. **NaN scores** (`nan`). A score is documented as a probability in [0, 1]. A
   user's second transaction in a category is compared with a history of one;
   its deviation is NaN and so is the score. It is never flagged, and the answer
   cannot be encoded: 200 with an empty body. The same happens later, when
   trimming leaves one entry of a category.
3. **Text messages** (`texts`). The SMS goroutine runs under a context that is
   cancelled as soon as the fan-out returns.

Seen while modelling, and built into the models as the code does it:

* "Total transactions scored" also counts duplicates, which are not scored
  (`handlers.go:189`, `middleware.go:112`).
* `Assign` and `Resolve` accept a closed case and change it, although `Resolve`
  "closes a case with the given final status" (`cases.go:161,174`).
* A Kafka message whose `Process` fails is committed all the same, although the
  pipeline's caller is told to decide about the offset (`pipeline.go:82`,
  `kafka.go:96`); `Close` runs under a message in progress (`main.go:238`); a
  generated id omits the partition, so two messages share one (`kafka.go:134`).
* A duplicate is "already scored" (`pipeline.go:94`), also when it is not one: an
  id generated from the clock can be taken (`handlers.go:263`), and the second
  transaction is answered as a duplicate, with score 0, and recorded nowhere.
* An analyst's verdict can be undone: `Assign` makes a confirmed case one in review
  (`cases.go:135`), and it is no longer among the labels of the next refit.
* `RATE_LIMIT_PER_SECOND` is the "max requests per second per IP"
  (`README.md:337`); a bucket that is full when a second begins lets twice as many
  through in it (`BudgetUnlessStale`).
* A stale read of `lastSeen` "just delays eviction by one cycle"
  (`ratelimit.go:28-29`); it also makes the sweep delete a bucket that was used
  after it was found idle (`ratelimit.go:116`), and the client gets another, full
  one. `StaleCostsOneBucket` says that this is all it costs.
* "Only detectors that actually fire contribute to the score, so a single strong
  signal can still raise an alert" (`README.md:106-108`). Detectors that abstain
  vote, with 0.1 (`detector.go:360,437-438`). Alone and saturated, the Z-score
  brings the ensemble's sum to +1.005 and the quartiles to +0.525; every other
  detector leaves it below 0, the flagging threshold, velocity at -0.275. The fraud
  of `seed.go:281-284` that "only the Velocity detector" fires on is not flagged by
  the ensemble. `FiringRaises` is what does hold.
* Velocity is documented as more than 4 transactions in a 5-minute window
  (`README.md:100`, `detector.go:17-18,276-278`). The scored one is not counted, so
  it takes six (`detector.go:322-327`), and what was trimmed is not counted either;
  `BurstOnlyHiddenByFlood` counts the scored one. The first excess scores 0.6.
* `Get` and `List` return live cases, which are encoded after the unlock
  (`cases.go:144,154`, `cases_handlers.go:22`).
* Retraining reads a status twice without the lock (`training.go:113,128`) and
  re-scores a transaction, without its time and device, against a history that
  contains it by now (`detector.go:319`). One NaN among the pairs makes both
  coefficients NaN until a finite cycle; in the meantime every calibrated score is
  NaN, and every answer that carries one is as empty as in `nan`.
* The comment of the calibration at boot speaks of a fresh store; the one
  `Evaluate` filled is used, and that keeps the first pairs from being NaN
  (`main.go:262-265`, `CalibrationIsFinite`).
* The difference of longitudes is not wrapped at the antimeridian (`geo.go:190`).
* The hook of `main.go` passes the case's country as the card to block
  (`main.go:155`), where its comment expects an empty card id at worst.

## 6. Not modelled

* **Redis and Postgres stores**: no path of `main.go` selects them, and what they
  do is done by a database outside the repository.
* **Authentication and the other middleware**: key tables written once at boot
  and one lookup per request; no step that a property over time could be about.
* **Isolation forest**: nobody calls it; a numeric algorithm over random splits.
* **Configuration, logging, tracing, dashboards, HTML**: no state.
* **The generator of the synthetic data** (`seed.go`): random numbers; what
  `Evaluation` quantifies over contains what it makes, at a smaller size.
* **Stripe's card block and fraud marker**: both are log lines; that the marker is
  asked for is modelled (`CaseManager`, `ConfirmedIsMarked`).
* **Real-valued statistics**: deviations, logistic curves and gradient descent are
  represented by what the properties distinguish (see the abstractions).
* **`RegisterMerchant`**: writes the registry without a lock, but nobody calls it.

Worth proving next: that the tallies of the offline evaluation count each purchase
once, and that the pipeline's histories are the newest of what it was asked to
`Add`, as `StoreContract` has it for the store alone.
