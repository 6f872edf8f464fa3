# Formal models of the Financial Crime Intelligence Platform

TLA+ modules for the parts of the platform whose correctness depends on the
order of events: the streaming replay and online scoring, the AI budget, the
agent's workflow and its evaluation, evidence pinning, case creation and
feedback, the hypothesis cache of the case API, the forensic canvas and the
investigator's page. TLC checks them on small instances, and TLAPS proves the
main properties for every value of the constants. `PROJECT.json` lists
components, runs, mutants, the map from definitions to source lines, findings,
hazards and theorems.

    tlc -workers 2 -config MCReplay.cfg MCReplay      # model-check
    tlapm ReplayProofs.tla                            # check proofs

## 1. The system

### Components

Python package `src/src/fincrime`, API `src/apps/case_api/main.py`, web client
`src/apps/investigator-web`, migration `src/migrations`.

| Component | State | Operations | Correct when | Status |
|---|---|---|---|---|
| Streaming replay (`streaming/replay.py`, `state.py`) | `ReplayState`: event entries, offset per partition; JSONL quarantine files | `replay_records`, `apply`, `append` | each event is applied once, in order, without gaps; poison blocks its own partition only; nothing committed is lost | modelled, proved |
| AI budget (`agent/settings.py`) | attempts with reserved and actual tokens and VND | `reserve`, `mark_dispatched`, `reconcile`, `release` | caps bound what is reserved under any interleaving; every charge is covered | modelled, proved |
| DeepSeek provider (`agent/deepseek.py`) | none of its own | `generate_hypothesis` | every attempt is settled on every path | modelled |
| Evidence pinning (`cases/pinning.py`, `storage/postgres.py`) | tables `cases`, `case_snapshots`, `evidence_items`, `case_evidence` | `set_pin`, `read`, `put_case` | one chain of snapshots; pins, audit items and evidence agree | modelled, proved |
| Case API (`main.py`) | `hypothesis_cache`, `in_flight_locks`, `global_cache_lock` | pin, hypothesis, workbench, create, feedback, expand; `get_case` and `get_evidence` only read | a hypothesis is shown only with its own snapshot; one paid call per snapshot at a time; requests end | modelled (`CaseApi`, `CaseDesk`, `Canvas`), proved; not the mode without a database |
| Investigation workflow (`agent/workflow.py`) | none | `investigate_case_workflow` | claims cite only what the provider was shown; pins never hide evidence; fails closed | modelled, proved |
| Case service, feedback (`cases/service.py`, `models.py`, `storage/postgres.py`) | tables `cases`, `case_feedback` | `create`, `get`, `append_feedback` | what was accepted is stored; a retry of the same event is accepted, another one is refused | modelled on PostgreSQL, proved; not the in-memory repositories |
| Forensic canvas (`cases/canvas.py`, `agent/tools.py`) | graph tables, the client's known edges | `initial`, `expand`, `bounded_trace` | only edges within reach; honest `is_truncated`; expansion never loses an edge | modelled, proved |
| Canvas import (`cases/import_canvas.py`) | the case tables | `import_canvas_case` | adds snapshots and evidence, never moves a case | modelled |
| Online scoring (`streaming/scoring.py`, `graph/build.py`, `features/`) | accumulator of the stream | `ingest`, `extract_features` | online features equal offline ones, to the bit | modelled, proved |
| Agent evaluation (`agent/evaluation.py`) | stores of cases and evidence, sums | `populate_corpus_fixtures`, `evaluate_corpus` | a case is stored with its evidence only; the sums count what the workflow returned | modelled without latencies and costs, proved |
| Write-once files (`data/artifacts.py`, `training/runner.py`) | Parquet and JSON files, run stage | write, `advance` | nothing is overwritten or half-written | not modelled |
| Release and gates (`release/manifest.py`, `training/*gate*.py`) | none | evaluation of checks | fail closed | not modelled |
| Web client (`CaseWorkspace.tsx`, `api.ts`) | case, pins, hypothesis, refresh timer | toggle pin, refresh, expand | pins belong to the case shown; late answers never undo newer ones; controls come back | pins and refreshes modelled, proved; expansion in `Canvas` |
| Web canvas (`canvas/*.ts`) | view filters | projections | consistent projections | layout not modelled |
| Data preparation, tracing rankers, metrics, monitoring, MLflow, CLI | data frames, metrics | pure functions | numerical | not modelled |

### How they interact

A consumer (outside this repository) reads batches from the broker, calls
`replay_records` with the state it has stored, stores the returned state and
commits the returned offsets. The API runs its handlers in a pool of threads.
`generate_hypothesis` reads the case and its pins in one transaction
(`PinningService.read`), looks into the cache, takes the lock of the snapshot,
runs the workflow, which calls the provider, which goes through the budget;
then it reads the case again and stores the result. `pin_evidence` commits a
new snapshot and then empties the cache of the case. `get_workbench` reads the
cache without a lock. `create_case`, `submit_feedback` and the import write to
the same tables, each with a look and an insert of its own. `expand_graph` keeps
nothing: the client sends the edges it knows. The web client sends the hash of
the snapshot it shows with every write and refreshes the hypothesis 400 ms after
a pin.

### What is hard

* **Redelivery, gaps, poison and crashes** in the replay: two cursors per
  partition, rows on disk before the batch is over, an exception that throws
  away the batch.
* **Money and concurrency**: several requests between reserve and reconcile,
  timeouts after the provider has charged, the month turning, restarts.
* **Optimistic concurrency**: two analysts on one snapshot; sequences of pins
  and unpins; caches filled by a thread that read an older snapshot.
* **Locks within locks** and early returns under them.
* **Look, then insert** at READ COMMITTED: creation and feedback, with retries.
* **Late answers in the page**: optimistic pins, rollbacks, debounced refreshes
  and the workbenches they fetch after a conflict, all in one set of states.
* **A stateless server and a stale client**: expansions of a canvas that the
  client holds and the server believes.
* **Two ways to one result**: online and offline features, whose sums of floats
  depend on the order; the canvas's and the agent's walk over one graph.
* **Boundaries**: the 100-edge cap, the 3-hop limit, the 50-item cut.

`PROJECT.json` names each hazard at its line and the properties that cover it.

## 2. Modules

| Module | What it is |
|---|---|
| `ExactlyOnceLog` | what replay promises: a log per partition that only grows, each event once |
| `Replay`, `MCReplay`, `ReplayProofs` | the replay loop, an instance, its theorems and the refinement |
| `Budget`, `MCBudget`, `BudgetProofs` | controller and provider, an instance, theorems |
| `PinChain` | what pinning promises the page: the snapshots of a case are one chain, each made from the last by one edge |
| `Pinning`, `MCPinning` | the case tables and their transactions, an instance; the theorems and the refinement of `PinChain` are in `CaseApiProofs` |
| `CaseApi`, `MCCaseApi`, `CaseApiProofs` | the API's pins, hypotheses and workbench composed with `Pinning`, an instance, the theorems of both and the refinement of `Pinning` |
| `CaseDesk`, `MCCaseDesk`, `CaseDeskProofs` | creation, feedback and import composed with `Pinning`, an instance, theorems |
| `Canvas`, `MCCanvas`, `CanvasProofs` | the canvas service, its client, and the agent's trace over the same graph, an instance, theorems |
| `Scoring`, `MCScoring`, `ScoringProofs` | the online accumulator and the offline oracle, an instance, a theorem |
| `Investigation` | one call of the workflow |
| `Evaluation`, `MCEvaluation`, `EvaluationProofs` | the evaluation of a corpus composed with `Investigation`, an instance and the theorems of both |
| `Workspace`, `MCWorkspace`, `WorkspaceProofs` | the investigator's page over `PinChain`, which `Pinning` implements, and the promise of `CaseApi`, an instance, theorems |

Some definitions come with a mutant next to them (`WithEventAtNext`,
`AffordableAnyMonth`, ...): the same definition with a plausible mistake, used to
see that each property can fail. No action uses them.

### Replay

`replay_records` is a loop over a batch, so its locals (`state`, `committable`,
`halted`) are variables, and each iteration is one action: `SkipHalted`,
`RejectInvalid` (Step 1), `SkipRedelivered` and `RaiseConflict` (Step 2),
`RejectGap` (Step 3), `Accept` (Step 4), `ReturnOutcome`. A crash can so fall
between any two records, with rows already in the quarantine file. The
consumer is external: `SaveState` before `CommitOffsets`, as the outcome's
fields suggest. A `ReplayConflict` leaves the function, and the consumer keeps
what it had. `Batches[n]` is the set of batches that the n-th delivery is one of: a
configuration says with it how many deliveries there are and what the broker may
hand out in each. `event_entries` is a function on event ids and `partition_offsets`
a total function with 0 for a missing entry, which is what `get_offset`
returns. Parsing is a verdict on the record.

### Budget

One action per controller method (each runs under the controller's lock) and
one per step of `generate_hypothesis`. `Call` reads the clock and sizes the
prompt before the lock, as `reserve` does. The provider is external. It answers
with usage (`AnswerWithUsage`), or without usable usage, with JSON that is no
object, or not at all (`AnswerWithout`). A report is any two counts of
`UsageCounts`, above the reservation and the caps too: `reconcile` compares it
with nothing, and `test_settings.py:166-189` settles 150 tokens on 12 reserved.
The provider charges what it reports; without a report it is taken to keep to
the prompt and to `max_tokens`. `bills` is the charge by attempt, a ghost the
code does not have; `Above` is what charges of a month exceed the reservations
by, and `lost` keeps both sums of the attempts that a restart lost. The formula
`(7 in + 28 out + 1999) // 2000` is the code's own. `Restart` empties the ledger.

So the caps are stated as what `reserve` can keep (`CapsHold`): each reservation
fits with all that was settled and pending before it, and what a month holds is
above the cap by no more than its reports exceed their reservations by.
`NextCallNeedsReport` is the price of a reservation that takes all output left.

### Pinning

`set_pin` holds its case's row lock from its first statement to its commit and
`read` holds it shared, so each is one step; an exception rolls back and leaves
nothing. The hash of a snapshot covers the case's fields; all but the evidence
ids are fixed when the case is created, so a snapshot is represented by its
evidence ids, and two hashes are equal when those are. `actions[n]` is the
content of the n-th `ev:pin:` item, whose id is a fresh uuid. Cases are created
with any evidence in the store, the audit items of other cases included. The
analyst's name and the times are left out: no condition reads them.

`PinChain` is what a client can build on, without hashes, tags, evidence and
tables. The mapping takes the actions of a case in their order: the pins of a
snapshot that is past are what the audit trail says of it, those of the current
one are what `read` answers (`PinsOfSnapshots`).

### CaseApi

Each access of a handler to shared state is one action, and what it holds in
between is a local of its thread. The lock of a snapshot is an entry of
`in_flight_locks` with its holder; `global_cache_lock` is held within single
actions only. Handlers that refuse a request before they change anything are
no steps. The workflow is its result: the snapshot, the pins and a status, or
an exception. The mode without a database, in which no pin can be made, is not
modelled.

### CaseDesk

`put_case` and `put_feedback` are a `SELECT` and an `INSERT` in one transaction
at READ COMMITTED, so a request is two or three steps (`LookForCase`,
`InsertCase`; `BuildFeedback`, `LookForFeedback`, `InsertFeedback`), between
which others commit. The primary key is what the insert meets: the loser of a
race gets an error 500 and writes nothing. A process or a connection may die
between any two steps (`Drop`). The import is one transaction and one step; the
pins are `SetPin` of `Pinning`. `Built` is the whole conversion of a form to an
event: the default id, the clock and the current hash stand in for what the
client leaves out. Equality of canonical bytes is equality of events.

### Canvas

`Reach` is the distance of `_resolve_graph_facts` as sets of accounts by number
of hops; `Dist`, `Scope`, `Valid`, `NewEdges` and `Expanded` are the steps of
`expand` with its order, its checks and its bound, which is tested after the
append, as in the code. `BoundedTrace` is the loop of the agent's
`bounded_trace`. The page opens, expands one hop at a time while it shows fewer edges
than the cap (`canExpand`), pins, reconciles after a conflict, and loses calls. Any other client is covered by quantifying
over what it may send (`HonestAnswers` on the state before the page is open).

### Scoring

An event stands for its amount. Features stand for which amounts are added, and
which before which, as floats added in one order give one sum. `Grouped` is the
accumulator's lists by neighbour, which `extract_features` adds up group by
group. The oracle is `build_graph` at a cutoff and NetworkX's order of
iteration, which is external: neighbours in the order of their `First` edges.
The stream brings events in any order and again; `Ingest` and `Refuse` split on
the code's two tests.

### Investigation and Evaluation

`Investigation` is one call for every case, polarity, set of pins, snapshot
and provider: the refusal of pins that are no evidence, the two early returns,
the choice and order of the prompt's evidence with the limit per kind (`Sorted`
puts an item at the place that its number of predecessors says, `Cut` keeps the
items with fewer than the limit), every outcome of the provider, an exception
that the workflow does not catch included (`ProviderRaises`), and the check of
the citations claim by claim.
`Evaluation` extends it: gold cases go into stores in use, where conflicts are
passed over one by one and `CaseService.create` looks for the evidence first (its
`EvidenceNotFound` would end the evaluation; the proofs show that it finds it),
and the loop runs the workflow on what is *stored* and
adds up what it returns; a call that raises ends it. With the empty corpus its behaviours are single calls
by the API, so that one instance checks both.

### Workspace

State that React keeps (`shown`, `isMutating`, `timer`, ...), the one pin call
there can be (`click`), and every refresh that was sent. Calls go to the server
and come back in steps of their own, may be lost either way, and are served by
what `Pinning` and `CaseApi` promise: a pin commits on the current snapshot
only, as a step of `PinChain`, and a hypothesis is of the snapshot asked for. A
pin that changes only a tag makes a snapshot too, the page's own and those of
others. `history` is the server's chain of pins; `astray` and `crossed` are history variables that name the one
kind of overlap in which the page errs. The model says what is shown where the
code sets it; the hypothesis is its label. A superseded timer is cleared, a
refresh that was sent is not, as in `scheduleHypothesisRefresh`.

## 3. Runs

| Run | Question | Instance | Why it is enough |
|---|---|---|---|
| `replay` | do exactly-once, contiguity, poison barrier, redelivery and the refinement hold, and does poison hold up its own partition only? | 2 partitions, 7 records; two deliveries of any 1 to 3 records, then two of both partitions from the start, in two interleavings; 1 crash | good, reused, changed, malformed and behind-the-malformed records meet in every order, before and after a crash; the last deliveries are enough for both partitions to end before their first malformed record |
| `budget` | do the caps bound reservations, are charges covered, when does a case get another call, is settling final? | 2 threads, 2 cases, 2 months, 1 restart, cap 3 VND, 3 attempts, reports of 1 or 400 tokens on 150 and 40 reserved | the cap is shared by two cases and lets a full and a small call in; reports above reservation and caps, of either count; a request of the old month is reserved in the new one; charges of two lives add up |
| `budget_leak` | expected violation: a dispatched attempt without an owner | | |
| `pinning` | do snapshots, pins, audit and evidence agree, and is what is read of each case the chain of `PinChain`? | 2 cases sharing an edge, 2 tags, 3 actions, an edge outside the case and one outside the graph tables | an edge is pinned, retagged and unpinned, or pinned again, while the other case moves; each past snapshot is told of by every later trail |
| `case_api` | are hypotheses shown with their snapshot and paid once; does every request end? | 2 threads, 1 case, 1 edge, 2 actions, any restarts | three revisions of a case meet in the cache, and both threads wait for one lock |
| `case_api_view` | expected violation: the workbench's entry is gone when fetched | | |
| `canvas` | is every answer honest, can all be found, do canvas and trace agree? | every graph of 4 accounts and 4 edges of the case (self-loops of the seed, parallel edges), 1 edge of another case; 2 hops for 3, cap 3 for 100; 1 pin | edges out of reach, ties in time, edges without time, one edge more than the cap; expansions that fill it; an expansion sent before a pin and answered after |
| `canvas_cap` | expected violation: an answer above the cap | | |
| `desk` | do accepted writes stay, are complete retries stable, do only pins move a case? | 1 case, 1 edge, 2 clients, 2 dispositions, 2 ticks of the clock, 2 answers, 1 pin | two clients between look and insert of one row; the same form before and after a pin and a tick |
| `scoring` | do online features equal offline ones? | every stream of 3 transactions of 3 accounts at 3 times, in any order and again | neighbours that alternate, equal times, self-transfers, late events |
| `evaluation` | are claims grounded, do pins only add, what do the sums say? | every call on up to 4 items with limit 2 and 2 claims; 2 gold cases on 2 stores | more items of a kind than the limit; one case twice, items in dispute |
| `workspace` | what can overlapping calls do to the page? | 1 edge, 4 snapshots, 2 refreshes | a workbench fetched for the first refresh arrives after the second, or during or after a pin |

Bounds: the length of `Batches`, `MaxCrashes` (Replay); `UsageCounts`,
`MaxAttempts`, `LastMonth`, `MaxRestarts` (Budget); `MaxActions` (Pinning, CaseApi, CaseDesk); `MaxPins`
(Canvas); `MaxTime`, `MaxAnswers` (CaseDesk; an answer beyond the bound is not
given); `MaxClaims` (Investigation); `MaxRevision`, `MaxRefreshes` (Workspace).
`MaxHops`, `Cap` and `Limit` are parameters of the code, smaller here. The
theorems hold for any of them.

Symmetry is used where no liveness is checked: threads and cases in `budget`,
accounts in `scoring`, accounts but the seed in `canvas`, clients and
dispositions in `desk`; none of these modules orders them.
`replay`, `budget`, `budget_leak`, `desk`, `evaluation` and
`workspace` say `CHECK_DEADLOCK FALSE`, as their behaviours end when the bounds
are used up or the evaluation is over; the other runs check for deadlock.

### Findings

1. `deepseek.py:80` (run `budget_leak`): a JSON body that is no object raises
   `AttributeError` between dispatch and reconcile; the attempt keeps its
   reservation for ever, and as a reservation takes all output tokens of a case,
   that case is closed.
2. `main.py:1030` (run `case_api_view`): the workbench's unlocked
   look-then-fetch can raise `KeyError`.
3. `canvas.py:220` (run `canvas_cap`): the bound is tested after the append, so
   a request with 100 known edges is answered with 101, against the comment at
   `canvas.py:211`, and those 101 are refused as known edges of the next
   request. This page never sends 100 (`CaseWorkspace.tsx:425`); another client may.

What the models also show; the properties are stated so that they hold with it:

* `settings.py:79`: the monthly ledger is in memory, so a restart lets the
  month's charges pass the cap. What holds is the cap times the number of lives
  of the process (`ChargesBounded`).
* `main.py:675`: a pin that changes nothing drops the current hypothesis too.
* `main.py:908`: an outcome "AI unavailable" is cached like a hypothesis.
* `settings.py:229`: a report above the reservation is settled as it is, so the
  figures of a case or a month can pass their caps. The tests
  (`test_settings.py:94-106`, `166-189`) settle such reports. What holds is that nothing
  is reserved on top, and that the excess is the reports' own (`CapsHold`).
* `settings.py:138`: a call that failed or reported no usage keeps all output
  tokens of its case, so it is the last of the case until a restart, whatever
  `max_calls_per_case` says (`NextCallNeedsReport`).
* `main.py:491`: feedback sent again without `created_at` or `snapshot_hash` is
  another event and gets 409. `CompleteRetry` is about forms that have both.
* `CaseWorkspace.tsx:136`, `:203`: the workbench that a refresh fetches after a
  conflict may cross a pin call. It can take the page back to an older snapshot,
  and a rollback after it shows pins of one snapshot under another. The next
  answer that sets case and pins repairs both. `PinsOfCaseShown` and
  `OnlyOverlapGoesBack` say that this overlap is the only way.
* `evaluation.py:449`: precision and coverage of citations can only be 1,
  whatever the provider answers (`MetricsAreClean`).

### Fairness

* Replay (`FairSpec`, which the run uses): weak fairness of the loop's steps (a called function runs on) and of
  `StartBatch` (a running consumer asks again); none for crashes. `IsolatedProgress` exempts one case: a first
  record that was applied with another payload than the broker repeats raises
  `ReplayConflict` in every batch.
* CaseApi: weak fairness of a handler's own steps; the provider ends as above.
  Strong fairness of `AcquireKey`: a lock that is free again and again is given
  to a waiting thread. `threading.Lock` promises no order, but a waiter is not
  passed over for ever by the scheduler.
* Workspace: weak fairness of the pin call, of the timer and of each refresh
  call: `fetch` settles with an answer or an error, and the browser runs its
  timers. None for the analysts.
* The other modules state safety only: a client may always stop.

## 4. Proofs

All theorems hold for any sets and bounds; the assumptions are the `ASSUME`s of
the modules (shapes of constants, that a prompt is not empty, that there is a case,
that the absent values are no rows), which TLC evaluates in each run.

**Replay.** The inductive invariant joins the two validators of `ReplayState`
with contiguity (entries lie below the offset, one event per offset, no gap),
the agreement of the cursors, `committed <= saved.offsets`, the growth of
`state` over `saved`, and that applied events come from valid records.
Contiguity alone is not inductive: `Accept` tests `committable` and writes
`offsets`, so their equality is needed, and `SaveState` followed by
`CommitOffsets` needs that the saved state is the one whose offsets are about
to be committed. `RedeliveryIsNoOp` needs none of this, only the order of the tests: a
record that was applied lies below the cursor and would be taken for a gap, were
it not looked up first. The refinement maps `saved` to logs by choosing the event of
each offset; contiguity makes that choice unique, and growth makes every step
an `Advance` or a stutter.

**Budget.** Totals over the ledger are sizes of disjoint unions, so that the
library's theorems on cardinality give what a sum does when one summand changes,
is added (`TotalAppend`, `TotalPrefix`), or is bounded by two others
(`TotalSum`). Reports may be of any size, so no cap on held figures is
inductive. What is: each reservation fits the input cap, and fills the output cap
exactly, over the attempts before it, and the months fit theirs when each
attempt counts up to its reservation only (`ReservedWithinCaps`). The first needs
that a later attempt of a case exists only when the earlier ones are settled
(`PendingIsLast`), so that settling never changes a sum below a reservation;
that follows from a pending attempt holding all output that was left
(`PendingTakesAll`). Together with what the fields of an attempt owe to its bill
(`AttemptsWell`) and what the threads know (`ThreadsWell`, `BillsKnown`: a charge
above its reservation is in a report that is about to be reconciled) this gives
the caps, the cover of each bill (`BillsCovered`) and the charges of a month
(`MonthWithinCap`). `OneCallPerCase` and `NextCallNeedsReport` are what an output
cap filled by each reservation leaves to the next. `ForgottenBounded` adds what
restarts forgot. The one assumption on the provider is the one above: without a
report, no charge above the reservation.

**Pinning.** The invariant joins the audit chain with the facts that evidence
of actions that have not happened does not exist (freshness of the uuid), that
pin rows point at the observed transaction of their edge, and that a case
without a row has no pins. Freshness is what makes `SnapshotsNeverRecur` and
the chain without forks inductive.

For the refinement of `PinChain` each case has its own chain. A pin gives its
action the highest number, which leaves the numbering of the earlier ones as it
was (`NthOfMore`), so the mapped history grows by one at its end; what the trail
says of a snapshot never changes (`TrailKept`, again from freshness); and the
snapshot that has just become past is told of by the trail as it was read when
it was current (`ReadIsConsistent`). The new pins differ from those in the pinned
edge only (`PinToggles`), and the other cases do not move
(`OthersReadTheSame`). `PinningImplementsPinChain` is the property of the run,
`PinningIsChain` says it as `Spec => Chain(c)!Spec` for each case.

**CaseApi.** On top of the invariant of the tables, in four parts. Locks: a
thread past `AcquireKey` is the holder of the lock of its key, so two threads
that run the workflow have two keys (`SingleFlight`). Hypotheses: whatever a
thread holds, the cache has or an answer carries, is of the pins its snapshot
was stored with. That needs that these pins never change later (a new action has
an id that no stored snapshot names, from the freshness above) and that what a
thread has read of the case was stored when it read it. Rows: what a read
returns is a state of the tables. `ApiTypes` adds that locals, cache and locks
are of their types. Refinement: each action of the API is one
transaction of `Pinning` or leaves the tables alone, so `ApiSpec => Spec`, and
the theorems of the tables hold under the API.

**CaseDesk.** The invariant types waiting requests and answers and relates each
answer to the tables: accepted means stored, a conflict means that another
event has the id. Rows are never overwritten, so an answer that was true stays
true. A complete form builds the same event at any time, which gives
`CompleteRetry`: its event cannot both be and not be the one stored.
`OnlyPinsMove` needs that creation and import write a current snapshot only
where there was none.

**Workspace.** The invariant follows the pin call: its clicked snapshot is shown
until it ends, unless a workbench crossed it; an accepted pin answers with that
snapshot or a newer one; a conflict means that a newer one exists, and the
workbench fetched after it is of it; every workbench on its way has the pins of
its snapshot. `isMutating` is true exactly while the call is under way, which is
why the pins to roll back to are those of the case shown.

**Canvas.** The invariant says what the client can hold: a set of edges within
`Scope`, at most `Cap` of them, that contains what the request knew and
joins each of its accounts to the seed, with the hops and the flag that
`Showing` gives to this set; a request knows fewer than `Cap`, as the page asks
only then, which is why its answer has at most `Cap`. The steps rest on lemmas about the operators.
`Recursion` shows that a function given by its first value and a step exists,
and `ReachDef` and `FoundDef` that `Reach` and the walk of the trace are such
functions. `FirstCount` says that the first `k` of a finite ordered set are
`k`, or all of it, by counting how many come before each member; the cap
follows (`NewEdgesFit`). `Discoverable` needs that an edge within reach
that is missing has an account on the canvas to expand: the first hop at which
the canvas misses an account has one before it (`NothingMissing`). For
`TraceFollowsHops`, the walk of the trace after `h` hops stands at some hop
`g`: it has found all edges that start less than `g` hops from the seed, and
its frontier is those of the last hop, from which all later ones are found
(`FrontierIsEnough`). If it stopped early, at the cap or with nothing new, no
later hop would have added to it.

**Scoring.** The invariant is about the lists of the accumulator: `seen` is in
the order of `Earlier`, each account's groups hold exactly its edges among those
seen, one group per neighbour, edges in order in their group, and groups in the
order of their first edges. `GroupedKeeps` shows that a later event, appended
to its group or as a new group, keeps this, which is where `Ingest` needs its
refusal of late events. Then the first edge of a neighbour is the head of
its group, and "earlier group, or same group and earlier edge" is the order of
NetworkX. A cutoff at or after the last event leaves no edge out, as the last
of `seen` is its latest (`LastIsLatest`).

**Investigation and Evaluation.** Sorting is an argument of counting:
predecessors of the items of a finite set number them without gap or repeat
(`SortedList`). So each part of the prompt has its items once, parts that
exclude each other's items concatenate to a list without repeats, and the parts
from mitigating and supporting evidence are cut before pins are put in front,
which is why pins take nothing away. The invariant of a call says that what is
shown is evidence of the case and that the claims accepted so far are those of
the answer and cite what is shown. The invariant of the evaluation adds that the
call is on the case that is stored, and that the citations and claims that are
counted as good are all that are counted. It needs that the stores keep their
shape: `PopulateAdds` shows that `create` finds the evidence of its case whichever
conflicts were passed over, so that populating never raises.

**Induction.** The library's induction theorems take an operator as a parameter
and cannot be applied here. Where a proof needs induction (over the hops of
a graph), it speaks of a set of numbers: a set that has 0, and with
each number the next one, has no smallest number outside it (`SmallestNat`, from
the well-foundedness of `<`). What a function like `Reach` computes is
therefore proved for every graph.

`HistoryKept` and `CursorsAgree` of Replay, the types of the tables by themselves
(the runs `case_api` and `desk` check them with their own), `PinningIsChain`, and
the refinement of `Pinning` by `CaseApi`, are proved and in no run.

Only model-checked are the three liveness properties, `IsolatedProgress`
(Replay), `RequestsEnd` (CaseApi) and `ControlsComeBack` (Workspace), as fairness
and `ENABLED` are out of the prover's reach, and the three expected violations. All
other properties of the runs are theorems.

## 5. Plan

Done: all components above, with a theorem for every property of a run that is
not liveness, and the page's server as an abstraction of the tables. Left:

1. Two edges and a third refresh in `workspace`; the whole page with `Canvas`.
2. The cached hypotheses that the page's server promises as a refinement of
   `CaseApi`, next to the chain of pins.

## 6. Not modelled, and why

* Numerical code (rankers, metrics, drift, baselines, GraphSAGE, preparation of
  data frames) has no state, and its questions are of accuracy.
* The training runner is one straight line of calls in one process; the gates
  and the release manifest are pure functions of what they are given.
* Write-once files: single commands of one operator, which no process of the code
  runs twice at a time or restarts. Torn writes of the quarantine file are a
  question of bytes of a file.
* MLflow and Prometheus are thin wrappers; the command line parses arguments.
* Layout, clusters and drawing of the web canvas are presentation, and playback,
  selection and the feedback form of the page are view state.
* The mode of the API without a database, whose repositories are maps in memory:
  no pin can be made in it.
