# A formal model of the india-swing trading system

The repository is a paper-only research and alerting system for Indian equities.
It collects market evidence from archived files and a broker API, seals
everything it learns as content-addressed, create-once objects, takes one swing
decision per session, and follows the decision as a simulated position. It has
no broker order capability. What can go wrong in it is therefore not a lost
order but a broken *record*: a provider asked twice for evidence that must be
collected once, a decision taken twice, a chain of records that forks, a profit
counted twice, a job that reports something complete that is not.

This directory holds TLA+ modules of the parts where those records are written
by several executions that overlap, die and are started again, the TLC
configurations that check them on small instances, and TLAPS proofs for every
value of the constants.

## 1. Inventory

Paths are below `src/src/india_swing/` unless they start with `src/`.

| Component | State it keeps | Operations | What is hard | What makes it correct |
|---|---|---|---|---|
| Quality-pilot invocation protocol (`quality_pilot_job.py`, `quality_pilot/window_service.py`, `invocation_control_plane.py`, `control_plane_store.py`, `capture_runner.py`, `kite_collector.py`, `resumable_service.py`, `session_bootstrap.py`) | create-once objects in a bucket: action bindings, window entries, claims, observations, plans, snapshots, ledger transitions, completion receipts | `prepare-genesis`, `run-window` | executions overlap (scheduler, retries by hand), die between any two writes, lose the answer of a write that took effect | one provider request per action, one lineage, sealed objects always replay, a crashed claim is never recollected |
| Quality-pilot arming (`quality_pilot/arming.py`, `quality_pilot_job.py`, `quality_pilot_arming_cli.py`) | runbook and manifest files, kill switch | `run-due-window`, `prepare-runbook` | the posture is computed from probes and a clock reading that are old when the window is worked on | never more than the due window, never past an unsealed one |
| Quality data (`quality_pilot/campaign_ledger.py`, `canonical_response.py`, `observation_store.py`, `deployment_*.py`) | observations, completeness snapshots | derive a snapshot, incrementally or from all observations | the two derivations must agree | identity of the two |
| State objects and pipeline state (`daily_pipeline/state_*.py`, `pinned_gcs_*.py`) | bucket objects, local state directories | publish, inventory, restore, hydrate | partial publication, conflicting local content | manifest last, everything a manifest names is there |
| Daily pipeline (`daily_pipeline/runner.py`, `store.py`, `landing_*.py`) | runs chained to their predecessor | run, land | forks of the chain | one successor per run |
| Swing operations (`operations/`, `operational_job.py`, `operational_restore.py`) | proposal graph, decision outbox, paper ledger, run records, bucket manifest, Telegram receipts | run the session's decision, publish, deliver, restore | crash between the side effects and the terminal record, two executions, restore into a fresh root | one terminal record, its side effects exist, restored state equals the published one |
| Notifications (`notifications/telegram.py`) | delivery receipts | deliver | the provider has no idempotency key | at least once, receipt suppresses a repeat |
| Paper-trade ledger (`paper_trades/`) | registrations, event chains | register, append, summarise | crash between entry and exit, concurrent appends | legal life cycle, one chain |
| Paper outcomes and portfolio (`paper_outcomes/`, `paper_*_job.py`, `outcomes.py`) | outcome records, portfolio states chained to their predecessor | prepare, reconcile, run a batch, roll over, restore | retries, later replays of the same position, forks from an old state | profit counted once, no active position lost, no fork |
| Daily workflow (`daily_workflow/`, `daily_workflow_job.py`) | per session: attempt events, terminal record, the spec with the rollover it continues | replay every active trade, store the state, roll it over, seal | an attempt fails or dies at any stage, runs days late, runs out of its budget | one terminal, nothing a later session shows is used, money adds up, rollovers follow the states |
| Promoted operational family (`promoted_operational_*.py`, `promoted_terminal_binding*.py`) | input snapshots, decision records, terminal bindings | prepare, launch, run, persist, publish, bind | same as swing operations, across jobs | terminal binding names what was published |
| Promoted engine and graph (`promoted_engine*.py`, `promoted_graph_*.py`, `promoted_research_run*.py`, `promoted_paper_*.py`) | content-addressed graphs | assemble, publish | size, not order | replay equality |
| Evaluation (`evaluation/`) | trial registry, life-cycle event chains, comparison runs, family aggregates | register, append an event, publish a run, aggregate; engines and splits | a check that is old when its event is linked, half-published runs, re-use of a holdout, ties in the step-down | legal life cycle, a promotion rests on its own evidence and on every started trial, the step-down is the closed test |
| Execution (`execution/`), risk (`risk/`), promotion (`promotion/`) | none, or the allocation of one run | simulate fills, size positions, gate evidence | stop and target in one bar, gaps, several orders on one account | no fill better than the day gave, limits kept by the orders together |
| Market data (`market_data/`) | snapshots, backfill progress, gap evidence, reconciliation reports; archives, session cache | backfill run, pilot; collect, admit | runs that die and are started again with other options, maxima and connector versions | what was published is not asked for again, one ordered collection of one version, three rejections in a row stop it |
| Forward paper (`forward_paper/`) | snapshots and records | same pattern as operations | same | same |
| Signals, features, forecasting, shadow scanner (`signals/`, `features/`, `forecasting/`, `shadow_*`, `recommendations/`, `research/`) | decision outbox | numerical computation | floating point | no look-ahead |
| Reference data, calendar, identity, universe, prices | artifact stores | parse, seal | malformed input | exact replay |
| Domain and helpers (`domain/`, `data/`, `pipeline.py`, `_filesystem.py`, ...) | none, audit chain | | | |
| Agent dispatcher (`src/agent-control/dispatcher/`) | inbox and outbox files | claim tasks, start workers | several workers | one worker per task |

The components talk to each other through stored objects only: a job reads
pinned identities, computes, and publishes create-once objects, the terminal
one last. There are no threads inside a job, no callbacks and no queues; all
concurrency is between job executions that share a bucket or a state root.

## 2. Plan

The parts that matter most are those where several executions write one
record. They come first, each with an abstract specification of what the record
promises, the detailed module of the code, TLC runs, and a proof module.

| # | Modules | Code | Abstract specification or reference | State |
|---|---|---|---|---|
| 1 | `QualityPilotWindow`, `QualityPilotDue` | quality-pilot invocation protocol and its scheduler | `QualityPilotLedger`: a campaign asked for once, in order | done, proved |
| 2 | `SwingOperation` | operational job, publication, delivery, restore | `SwingSession`: one terminal result per root, only published results travel | done, proved |
| 3 | `PaperPortfolio` | paper ledger, outcome records, portfolio states, preparation | `PaperPosition`: the life of a position, counted once | done, proved |
| 4 | `DailyPaper`, `PaperReplay`, `SwingSizing` | daily workflow, replay and fills, P&L and rollover, sizing of the next decision | the replay on all later evidence, the account as if sold, the limits of the policy | done, proved |
| 5 | `TrialLifecycle`, `TrialFamily` | trial registry, life-cycle events, runs, family aggregate | `TrialHistory`: started, unsealed and concluded once; the closed test | done, proved |
| 6 | `HistoricalBackfill` | backfill runner, pilot, gap store, progress store | `HistoricalCollection`: one ordered collection | done, proved |
| 7 | `PromotedOperation` | promoted operational runner, persistence, terminal binding control plane | a binding names what was published | left |
| 8 | `PipelineState` | daily-pipeline run store, state publication, restoration | a chain without forks | left |
| 9 | `CampaignCompleteness` | incremental against full completeness derivation | the full derivation | left |

1 to 3 are about several executions that write one record at the same moment.
4 to 6 are about long sequences of legal calls: sessions, attempts, restarts
with other options, and the arithmetic that is carried along. 7 and 8 repeat
patterns that 2 has (side effects first, terminal record, manifest last, restore)
over other objects.

Theorems, in this order: for each module the type invariant and the inductive
invariant of its record, then the refinement of its abstract specification. All
six of the modelled parts have theirs (section 6).

## 3. Modules and code

### Quality pilot

`QualityPilotWindow` models one campaign and the job executions on it. A
campaign is the canonical list of capture actions, grouped in session windows;
the constants give the windows, their times and the ones that bootstrap a
session (`CatalogWindows`). The object store is the part of the state every
execution shares:

| Variable | Objects in the bucket |
|---|---|
| `bindings` | published `QualityPilotActionBinding`s, by their place and the outcome they continue |
| `entry` | the entry object of every window |
| `claim` | the claim of every binding: who made it, under which code and environment digest |
| `artifacts` | observations, session plans, completeness snapshots |
| `transition` | the ledger transition that seals the outcome of a binding |
| `receipt` | completion receipts |
| `requests` | not in the bucket: how often the provider was asked |

`pc`, `job`, `cur`, `processed` and `claimedAt` are the locals of an execution.
Every object that is written is a step of its own, because an execution may die
between any two; everything an execution only reads is part of the step that
uses it. This is sound because objects are create-once: what is read stays. A
write that took effect may still be the end of its execution (`Written`): the
process died, or the answer was lost. `Abort` is the failure without effect.
`PublishClaim`/`ClaimConflict` is the one write that is not idempotent.

`QualityPilotDue` adds the scheduler's command `run-due-window` beside the
manual ones: it reads the clock once, probes, assesses, delegates.

`QualityPilotLedger` is the promise: actions are taken up in order, asked for
once, sealed once. The refinement maps `claimed` and `sealed` to the actions
that have a claim and a transition in the store.

### Swing operations

`SwingOperation` models one scheduled decision. Executions of the job and of
the restore work on state roots (directories that survive the container or do
not) and on a bucket.

| Variable | Code |
|---|---|
| `outbox` | `DecisionOutbox` of a root |
| `paper` | registrations of the paper-trade ledger of a root |
| `record` | terminal `SwingOperationalRunRecord` of a root |
| `receipt` | Telegram delivery receipts of a root |
| `objects`, `manifests` | the bucket |
| `sent` | messages the operator got |
| `clock` | the last clock reading of an execution that passed its check |

A decision is named by the execution that made it, since its identity contains
the evaluation time. `Start`, `Acquire`, `Evaluate` and `Decide` are the four
places where the runner compares time; a reading that fails the comparison, or
an exception, gives a FAILED record with no action. Clock readings are free
(`\E t \in Times`): a host clock may be stepped back between them.

`SwingSession` is the promise. The refinement maps the result of a root to the
execution its record is of, so overwriting a record, publishing what no root
settled on, or telling the operator of something unpublished is a violation.

### Paper portfolio

`PaperPortfolio` models one state root in which batches are prepared and run.
Workers are processes; a batch is prepared by one and run by another, by
several at once, and again after one died.

| Variable | Code |
|---|---|
| `registered`, `ledger` | `LocalPaperTradeLedger`: registrations, and the event chain of each |
| `batch` | prepared `PaperPortfolioBatchSpec`s; equal contents have one name |
| `record` | `PaperOutcomeRunRecord`s of `LocalPaperOutcomeRunStore`, by job |
| `state` | `PaperPortfolioState`s of `LocalPaperPortfolioStateStore`, by batch |
| `pc`, `listing`, `on`, `got`, `draft` | the locals of a worker |

An event is named by the job whose replay appended it. What a replay finds is
computed from the job alone, so the market is a constant: for every lineage
(policy, instrument binding, calendar) and registration, the first evidence
time at which the replay finds the entry, and the one at which it finds the
end. `Status` is then a function of the job, and `SameSession` says whether the
trade is stopped in the session of its entry, for which the ledger has a rule
of its own. Each file that is created, and each read whose result is used after
another worker may have written, is a step of its own: listing and preparing a
batch, reconciling, every appended event, the later read of the P&L, the
record, the state. A worker dies between any two (`Abort`), or after a write
that took effect (`Leave` in `Append` and `PutRecord`).

`PaperPosition` is the promise. The refinement computes the phase of a trade
from its event chain, and takes for the batches that counted its profit those
whose state lists it as newly closed.

### Daily paper trading

`DailyPaper` follows one paper book session after session. It has three inputs
that earlier modules leave open: what a replay finds (`PaperReplay`), what the
states add up to, and what the next decision is sized on (`SwingSizing`).

| Variable | Code |
|---|---|
| `day`, `market` | sessions that closed, and their bars as the evidence has them |
| `ledger` | the paper-trade ledger: nothing, a registration, or the verdict whose events it has |
| `sizing` | the sizing batches of the session that is open: snapshot, `maximum_new_positions_per_run`, `SwingCapitalAllocationState` |
| `sized` | the quantity each opportunity got, and from which batch |
| `states` | `PaperPortfolioState`s in the order of their chain |
| `rolls` | `PaperPortfolioRollover`s with the snapshot for the next decision and the NAV peak |
| `pinned` | the rollover that the workflow spec of a session names |
| `events`, `terminal` | attempt events and terminal record of each session's workflow |
| `run` | the attempt under way: its stage, its batch and the verdicts so far |

One action is one stage of `run_daily_paper_workflow`: list and prepare
(`Prepare`, `Reject`, `Omit`, `NoActive`), the outcome job of each trade
(`Judge`), the state (`PutState`), the rollover (`Roll`, `Unrollable`,
`RollNothing`), the terminal (`Seal`) and the last event (`End`, `Overtaken`).
An attempt fails (`Fail`) or its process dies (`Die`) after any of them.
`Repair` is a run that finds the terminal without its event. The attempts of
one workflow follow one another because its event chain alternates. Those of
different sessions do so in the model only: `.daily-workflow.lock` is held for
single writes to the store (`daily_workflow/store.py:392` and `:484`), and nothing
is held around an execution. What overlapping batches do to the ledger and to the
chain of states is the subject of `PaperPortfolio`. The calendar is fixed and is
what every attempt is given.

A swing run is `Size` and then `Allot` for each opportunity that is confirmed.
`Size` starts from the snapshot (`_initial_state`), as often as there are runs:
a rerun, or another job, on the same bound snapshot takes nothing over from the
run before it, and runs may overlap. `Buy` is the registration of an operational
run, whose policy must have a `maximum_new_positions_per_run` of 1
(`operations/models.py:115`) and which therefore registers one order; research
batches may size more, and register none. What a run sized is read in its own
session only, so `Close` forgets it.

`PaperReplay` has the fills of `execution/simulator.py` and the replay of
`paper_outcomes/resolver.py` on integers: prices in ticks, fractions per ten
thousand, floors and ceilings where the code rounds to the tick. `SwingSizing`
has the caps, the vetoes and the state that one order leaves to the next.

### Trials

`TrialLifecycle` models one strategy family: the registry, the evidence of runs
(`batch`, `comparisons`, `runs`: three objects, published one after the other),
the stored `aggregates`, and for each trial the `chain` of its life-cycle
events. `appending` is the append that holds the events lock between its checks
and its link (`Begin`, then `Link`, `Cancel` or `Die`); registrations and
publications take other locks and go on meanwhile. `litter` is the temporary
file of a dead append, which the next listing of the directory reads. Event
times are taken in the order of the appends.

`TrialFamily` has the gate: the exact sign test of the worse of two scenarios as
an integer over a power of two, and Holm's step-down over the whole family. Its
reference is the closed test over all subsets of the family, with binomial tails
counted as sets of outcomes. `TrialHistory` is what the records promise.

### Historical backfill

`HistoricalBackfill` models all runs and pilots over one plan. `run` is the run
under way, with its connector version, options, maximum and place in the plan;
the rest is what runs leave on disk.

| Variable | Code |
|---|---|
| `snapshots` | `LocalMarketSnapshotStore` |
| `lineage`, `completed` | the progress document: its connector version and its completions |
| `gaps`, `litter` | `LocalHistoricalBackfillSessionGapStore`, and a temporary file that a dead run left in it |
| `reports` | reconciliation reports of the pilot |

The loop over the plan is one action per outcome of a request: completed before,
a gap before, recovered from a published snapshot, collected and then recorded,
set aside as empty or rejected, raised. The store of the progress document is
documented as single-runner, so a run reads what it saved and no two runs
overlap. What differs from run to run is everything else: version, options,
maximum, run or pilot, and where the last one died. The check that the clock
does not run backwards is left out.

`HistoricalCollection` is the promise over `lineage`, `completed` and `gaps`
alone; the refinement is the identity on them.

## 4. Runs

| Run | Bounds | What it shows |
|---|---|---|
| `window` | 3 executions, prepared campaign of 4 actions in 3 windows and 2 sessions, ceiling 2, times 0..5 | the safety of the protocol and its refinement: a catalog capture, a window of two captures, and the catalog capture of the next session |
| `window_ends` | 3 executions, 2 digests, 3 actions in 2 windows, no symmetry, fairness | every execution that starts ends |
| `due` | 3 executions, 1 digest, 3 actions in 2 windows, from the empty store or from the prepared campaign; scheduler firings and manual runs | a window is delegated, and the pilot called complete, only when the campaign reached it |
| `due_advance` | prepared campaign of 4 actions in 3 windows | a disagreement of docs and code (section 8) |
| `swing` | 3 executions, 2 roots, window 1..2, times 0..3 | the safety of jobs and restores and their refinement |
| `paper` | 2 workers, 2 batches, a trade under 3 lineages (held, stopped in the session of its entry, never filled), evidence times 0..2 | batches and jobs that run side by side: one chain of states, legal event chains of one lineage, records that stand, and the refinement |
| `paper_chain` | 1 worker, 3 batches, 2 trades | profits and positions along the chain, with batches that dead workers left over |
| `daily` | 3 sessions of a calendar of 4, two overlapping alerts, two BUYs of the last day, 1 sizing batch in each of the first two sessions and 2 in the last, of policies that allow 1 or 2 orders, 2 attempts per session, 1 fault, capital 100 | verdicts that stand when later sessions are known, no foresight, pessimistic fills, the sums of states and rollovers, the orders of a batch within every limit, batches sized on the book of the last close |
| `daily_stuck` | the same | a disagreement of docs and code (section 8) |
| `trials` | a root, its child and grandchild on one holdout, three comparisons of which two are of one trial, 5, 6 and 1 events, 1 fault | promotions rest on evidence and on every started trial, the step-down is the closed test, and the refinement |
| `trials_reused` | the same | a disagreement of docs and code (section 8) |
| `backfill` | 4 requests, ceiling 3, 2 connector versions, maxima none and 2, every option, 2 deaths | restarts do not ask again for what was published, the pilot is exact, and the refinement |

Why the bounds are enough. Two executions make every race of two writers; the
third is needed for what happens after a race or a crash (a rerun that finds
what a dead one left, a restore of what a job published over another's root). A
window of two actions is the smallest where a window can be half done, where
the maximum can be reached inside a window (1) and at its end (2), and where a
successor stays in its window and crosses it. `due` begins in two states: with
three executions from the empty store the genesis and the windows are reached and
raced for, and from the prepared campaign one execution for each window is left
with a third that finds the pilot complete. The third window of `window` is
the first of a second session, so that the lineage crosses sessions. Two roots are the smallest number
where a restore goes to a fresh root and to one in use. Times run from before
the first window to after the last.

In the paper portfolio a state is related to the one it follows and to the
ledger only, so a chain of two states has every relation a longer one has; the
cutoff of a batch is later than the one it follows, hence `MaxTime` 2. Evidence
times 0..2 hold a batch before the entry, one between entry and exit and one
after the exit. The third batch is the one that was prepared for the leaf and
comes too late.

In `daily` the first alert can be entered on the first or the second session and
held for two, so that it is waiting, open, blocked or closed while the second
one is registered and replayed; the tape has a quiet day, a day that touches
stop and target, a gap up, a gap down and no trade. One fault is enough for an
attempt that is behind the market by a session, and the budget of two for its
repetition. The two BUYs are sized one after the other by one batch, or by two
batches on one snapshot that allocate in any order. In `trials`, two sign tails tie and one does not, families have one or two runs, two
trials can be promoted, and a third one is registered and started in between. In `backfill`, four requests and a ceiling of
three hold a run of rejections that starts behind a completed request, and one
that several runs leave; two deaths leave a snapshot unrecorded and a temporary
file.

Symmetry is over executions, workers, roots, names of batches, BUYs with the
same terms and connector versions, which no definition tells apart; the liveness
run uses none. `CHECK_DEADLOCK FALSE` is said where the system stops: the
executions of an instance are finitely many and all end, a portfolio whose trades
have all ended has nothing to prepare, and sessions and events are bounded. A
backfill can always be started again, and its run checks deadlock.

Every property of a passing run has a mutant of the code (dropped guard,
swapped order, missing reset) under which the run finds it violated; they are
listed in `PROJECT.json` and stand before the definition they change.

## 5. Fairness

Only `ExecutionsEnd` uses it. `FairSpec` is weak fairness of `Work(i)` for
every execution: a started process executes its next statement unless it is
killed (`Abort`, which is not fair). Starting executions is up to the scheduler
and the operator, and the passing of time is not needed: the protocol
waits for no other execution and for no clock, its only loop is bounded by
`processed`.

## 6. Proofs

| Theorem | Module | For every |
|---|---|---|
| `TypeCorrect`, `RequestedOnce`, `NoFork`, `OrphansStay`, `ReceiptsStand`, `EvidenceFirst`, `LedgerRefined` | `QualityPilotWindowProofs` | campaign, schedule, ceiling, set of executions |
| `DueTypeCorrect`, `OnlyReachedIsDue`, `DueRequestedOnce`, `DueOrphansStay`, `DueLedgerRefined` | `QualityPilotDueProofs` | the same, with scheduler firings |
| `TypeCorrect`, `SideEffectsFirst`, `DecidedInTime`, `Restorable`, `Delivered`, `RestoredRight`, `SessionRefined` | `SwingOperationProofs` | decision window, set of executions, set of roots |
| `TypeCorrect`, `StatesChain`, `RecordsKeepStanding`, `LegalChains`, `ProfitsCountedOnce`, `PositionsStay`, `PortfolioImplementsPosition` | `PaperPortfolioProofs` | set of workers, batches and lineages, number of trades, market |
| `TypeCorrect`, `NeverAskedAgain`, `PilotExact`, `CollectionRefined` | `HistoricalBackfillProofs` | number of requests, set of versions and of maxima, ceiling, number of deaths |
| `DailyTypeCorrect`, `ReplaysStand`, `NoForesight`, `PessimisticFills`, `MoneyIsThatOfTheTrades`, `RolloversAreOfTheChain`, `OrdersWithinLimits`, `RunsAreSizedOnTheBook` | `DailyPaperProofs` | calendar, tape of sound bars, finite set of alerts and BUYs, policy, budget, number of faults |
| `TrialTypeCorrect`, `PromotionsStand`, `AllStartedAreCounted`, `HistoryRefined`, `HolmIsClosed`, `AggregatesAreClosedTests` | `TrialLifecycleProofs` | family, comparisons and their evidence, order of ids, level, bounds of events |

The assumptions are those of the modules: a campaign starts in its first window
and moves to the same or the next one (`CampaignAssumption`), windows are in
order and catalog windows have one action (`ScheduleAssumption`), no posture is
`None` (`PostureAssumption`), the window of
a decision is not empty (`WindowAssumption`), and `None` is different from what
it is compared with (`NoneAssumption`, `AbsentAssumption`,
`DistinctAssumption`). `MarketAssumption` gives the market of the paper
portfolio its type; that a trade ends no earlier than it is entered is not
needed by the proofs. `BackfillAssumption` wants a positive ceiling and positive
maxima. `BookAssumption` has sound terms, an alert that is decided before its
first session and held for two sessions or more, and finitely many trades, `SizingAssumption` the fractions of the
policy; `TrialAssumption` types the registrations, and lets every comparison have
sound evidence and a batch, and `IdAssumption` gives no two trials one id.

The two sessions of `BookAssumption` are narrower than the code, which permits
`max_holding_sessions` of 1 (`paper_trades/models.py:115`). A trade that is held
for one session and not stopped ends by time in the session of its entry. The job
appends the entry, and the ledger then refuses the exit, as the only exit it takes
from that session is a stop (`paper_trades/store.py:251`-`263`): the ledger stays
at the entry, and every later batch with the trade fails in the same place. What is
proved of the daily book is not about books with such a trade.

The first two proofs have one shape. The inductive invariant is
`IInv == TypeOK /\ StoreInv /\ LocalInv`. `StoreInv` is about stored objects
only. `LocalInv` says for every execution what its program counter promises of
the store (`Knows(i)`), which is what the safety properties lack: an execution
at "seal" has its transition in the store, one at "record" its notification.
Because stored objects never go away (`StoreGrows`), what one execution knows
survives the steps of all the others (`OthersKnow`), and each step of an
execution has to be shown to establish only what its next label promises.

For the pilot, `AtMostOneRequest` is not inductive because two bindings of one
action would each allow a claim; it needs `OneLineage`, which needs that a
published binding continues a sealed outcome (`Lineage`), that there is one
transition per binding, and that the transition is made by the claimant.
`SessionRefined` needs that a record that travels is of the execution that
decided it and was settled in some root before it was published.

`ReceiptsStand` needs a second invariant on top of the first, `EvidenceInv`. What
`_verify_replay` wants of a receipt was written by the claimant, which sealed the
outcome, and by executions that resumed after it. `EvidenceInv` says what is
behind a transition (its artifacts), behind an execution that is past a label, and
behind a receipt, and all of it is about objects that stay. A firing of the
scheduler keeps it because it writes none of them.

The third is built in layers, each inductive given the ones below.
`PlaceInv` is the types and the places of the workers. `ChainInv` adds
`OneChain`. `EventsInv` says that the events a worker has seen stand in the
ledger, agree with its replay, and are complete once it has appended
(`Sees(i)`), and the same of every record. `PositionsInv` adds that every
position of a state is settled in the ledger (`PositionsSettle`), that no batch
judges what had ended in the state it follows (`BatchesAdvance`) and that
profits counted anywhere are of positions closed at the leaf
(`CountedStayClosed`). The argument for `CountedOnce`: a trade that a state
counted has its exit in the ledger; a preparation that names that state, or one
after it, as the predecessor lists registrations later than that, so the trade
is not in its batch, its position is kept as it is and is not new.

That argument rests on the order in which a preparation reads: the predecessor
first, the registrations after it. A preparation that listed first and chose
the leaf afterwards could judge a trade again that the leaf had closed.

For the backfill, `IInv` is about the one run under way and what it has behind
it. `Walking` says of a run inside its loop that every earlier request is
completed or, for a quarantining run, a gap; that `run.count` is at least the
number of rejections right before the request at hand, however many runs they
are of (`Counted`); and that there are not `Ceiling` of them side by side
anywhere before (`Stopped`). A request that is looked at next extends both
(`OneFurther`), whether it is completed, an empty gap or a rejection. This is
why a run that meets the gaps of earlier runs has to count them, and why the
order of the checks in the loop matters: a run that stops at the ceiling has
stored the evidence of the last rejection, and no run gets behind it again.
`InHand` says that a snapshot that was just published belongs to an open request,
and with it that `Collect` is not repeated for one version (`AskedOnce`).
`Piloting` is a count: the completions and what the runner may still ask are the
prefix and what this run processed, and a set of completions inside a prefix of
that size is the prefix (`FullPrefix`, from the library's cardinality theorems).
The refinement needs `Walking` for the order and the ceiling, and
`Bound`, that completions are of the version of the progress document.

The proofs of `QualityPilotDue` start from the invariant of the protocol, which
a firing only disturbs where it delegates: the execution goes to "entry" with a
job of the campaign. `OnlyReachedIsDue` needs three facts more. Every action
before that of a published binding has its outcome (`Reached`), which follows
along the publications because a successor is published by an execution that
sealed its predecessor. The entry of a window is a published binding of that
window (`EntriesLead`), and an execution stays in the window of its job
(`Follows`). A firing that calls the pilot complete has seen the entry of the
last window, and one that works on a window has loaded its entry; what the
probes saw earlier does not matter. The theorem says outcomes, not receipts: that
the receipts are there as well is what `due_advance` refutes. That later actions
are of later windows (`ActionsInOrder`) follows from `CampaignAssumption` by
induction along the list.

`DailyInv` has a part for each thing that sessions hand on. `StatesInv` orders the
states by session. `VerdictsInv` says that every position, and everything in the
ledger, is the replay of its trade on the evidence of some closed session, and
that what is closed in a state is so in the ledger. `JobsInv` is for the time in
which the jobs of one batch run: no other attempt moves the book meanwhile, the
batch has every position that is open, and the ledger has what was judged;
without it `PutState` could drop an open position or put an older verdict over a
later one. `MoneyInv` carries the sums, `RollsInv` that a rollover is of the state
of its own number, and `SizingInv` that what an allocation has left is the
snapshot of its batch less the orders of that batch. It is one statement for every
batch: what a second batch allocates on the same snapshot changes neither the
orders nor the allocation of the first. `BookInv`, that the last state is the book as of its session, is what
a batch is sized on. `SizedWithinLimits` is part of the invariant itself.

Under it are three groups of lemmas. Those of the fills say, for every sound bar
and every slippage, in which interval a fill lies; a buy is bounded by its limit
and the bar, a sell by the worse of stop and open. Those of the replay say that it
looks at no session behind its cutoff, and that an entry or an exit once found is
found on every later evidence (`ReplaysStand`), which is what makes repeated
replays safe. Those of the sizing say that a quantity is below every cap: each cap
is a floor of a quotient, and the smallest of them keeps every product within its
limit.

The sums are folds, which the library defines by recursion over the subsets of a
finite set. `FiniteSums` proves that this recursion has exactly one solution, by
taking a smallest subset for which it would fail (`SmallestPart`, from the
library's theorem that strict subsets of a finite set are well founded), and from
it that a sum of one more is one more, that sums of disjoint sets add up and that
equal terms give equal sums. No induction rule with a predicate parameter is
needed, and every fact about sums in `DailyPaperProofs` is one of these.

`TrialInv` relates four things that different processes write. `RunsInv`: a run is
one of the comparisons of its trial. `AggregatesInv`: a stored aggregate still
decides on the runs there are, although runs are published after it. The events of
one trial are consistent (one outcome, no results without unsealing). And an append
that waits between its check and its link still has what it was checked for:
registrations and publications only add, which is why a check that is old when its
event is linked does no harm. The exception is the family of a promotion;
`AllStartedAreCounted` holds because a trial starts by an append, and appends hold
the lock that registrations do not take.

`HolmIsClosed` is about the operators alone. In the ranking by p-value, with ties
broken by id, every subset of the family has a first trial; the number by which
Holm divides at a trial is that of the trials from it on (`HolmDivisor`). One
direction takes the first trial of a subset J, whose threshold is at least that
of J; the other takes for J all trials from u on. Fractions are compared by cross
products, over folds of different numbers. `AggregatesAreClosedTests` brings this to
the stored aggregates, and to a reference that knows nothing of binomial
coefficients: the tail that the code sums up is the number of outcomes of fair
coins with at least as many wins (`TailIs`).

That counting is in `FiniteSums` too. `AllNaturals` is induction for a set of
numbers, from `SmallestPart`. With it the recursion behind `factorial` has a
solution (`FactorialIs`), the parts of 1 .. n with k members satisfy Pascal's
equation by a bijection, and times k! (n - k)! they are n! (`PartsCount`).

## 7. Model-checked only

- `ExecutionsEnd`: liveness under fairness is out of the prover's reach.

Every invariant, action property and refinement that a passing run checks is also a
theorem. The runs keep their use: they were the first to say so, they fire every
action, and their mutants show what each property would catch.

## 8. Findings

Three runs show a disagreement of documentation and code. Line numbers are in
`PROJECT.json`.

- `due_advance`: the probe for a complete window reads the receipt of the first
  action of the window. In a window of several actions an execution that died
  after its first receipt leaves the window `ALREADY_COMPLETE`, and the next
  window is worked on although an action of that one is unsealed (it has its
  outcome and its successor, but no receipt).
- `daily_stuck`: a workflow attempt whose process dies before the terminal
  record leaves STARTED as the last event. No further STARTED may follow it and
  the repair needs a terminal, so the retry budget cannot be used and the
  session never gets its result.
- `trials_reused`: a confirmatory successor that was started while the holdout
  was sealed may unseal it after its parent has, because the rule is applied at
  the start only.

### Observations

The models reach the following states, or leave them out for the reason given. They
are what a reader of the hazards in `PROJECT.json` may want to know.

- Swing operations: a rerun after a failed side effect decides again at another
  time, so its handoffs are not those of the dead execution. A BUY that died
  before its record leaves a registration in the paper ledger which no record
  names.
- Paper portfolio: a batch appends exits to the ledger before its portfolio
  state exists. When it dies or loses the leaf, the trade has ended for the
  ledger, no later batch lists it, and its P&L reaches no portfolio state.
- Paper outcomes: `run_paper_outcome_job` takes the events of its record from
  the reconciliation and the P&L from a later read. When another batch closes
  the trade in between, the create-once record of an OPEN outcome carries a
  P&L, no position can be made of it, and its batch fails in every rerun.
- Paper outcomes: a trade that is decided inside its first entry session, as a
  BUY of a swing operation is, has no replay (`resolver.py:164`,
  `simulator.py:111`). It stays ALERTED, and every later preparation that lists it
  is EVIDENCE_REJECTED. An alert decided on the evening of a session is
  rejected by a workflow of that same session, too, and accepted by the next.
- Paper outcomes: a trade that is stopped in the session of its entry is entered
  and ends in one replay; when the batch dies between the two events, only that
  same batch can append the second, and later ones fail.
- Daily workflow: the append of COMPLETED after the terminal can fail; the
  runner then appends FAILED, and every rerun finds a terminal with another last
  event and raises (`daily_workflow/runner.py:109`).
- Rollover: a portfolio with a waiting or blocked position, or one without a
  trade in its last session, cannot be rolled over; the next rollover names the
  state before its own, so that chain does not go on after it.
- Sizing: two runs bound to one snapshot, such as a run that died after it
  registered its BUY and the rerun that decides again, each start from
  `_initial_state` (`risk/swing_portfolio.py:259`, `:661`). Each keeps the limits,
  and together they can go beyond cash, exposure, open risk and the number of
  positions. The policy's single order per run is
  no bound on the orders of one snapshot.
- Sizing: the snapshot counts what is open, not what was registered and waits
  for its entry, and its open risk leaves costs out. A snapshot that is older
  than the last close refuses the job, also when the days between had no session.
- Trials and gaps: the temporary file of a dead append is read by the next
  listing of the directory and stops it, for the trial and its successors, or for
  every quarantining run.
- Trials: `docs/EVALUATION.md:553` says that a snapshot of the family cannot be
  used for promotion if another variant is later registered. An append of PROMOTED
  compares the family under the events lock (`lifecycle_store.py:464`), which
  registrations do not take, so a variant that is registered between that check
  and the link is not in the aggregate that promotes. It cannot have started, as a
  start is an append: `PromotedAmongAllStarted` claims started trials, which is what
  is kept.
- Backfill: a rejected request stores no snapshot, so a later run without a gap
  for it asks the provider again. Only what was published is asked once.
- Backfill: a quarantining run stores a gap, a later run without the options
  completes the request, and no quarantining run can continue the plan
  (`market_data/backfill.py:1495`). A connector upgrade strands a plan that was
  begun, as its progress is bound to the version.

## 9. Not modelled

- Numerical code (signals, features, forecasting, evaluation statistics other
  than the family gate, recommendations): no shared state, decimal and
  floating-point arithmetic out of TLC's reach.
- Parsing, encoding and the content of artifacts: identities are modelled by
  what they tell apart, and a stored object that fails its hash is one of the
  reads that fail (`Abort`, `Reject`, `Fail`, `Raise`).
- Provider clients, command-line parsing, file-system permissions.
- Building specs, runbooks and manifests: deterministic encoding followed by a
  create-once write.
- Of the paper portfolio: events recorded by hand (`INVALIDATED` has no caller),
  the halts of a state, the publication of states to the bucket and their
  restoration, Telegram summaries, and the files between preparation and run,
  which are create-once and read by one command.
- Of the daily workflow: attempts of different sessions that overlap, alerts that
  are held for one session (section 6), and a sizing batch whose session closes
  before it ends.
- Of the simulator: circuit-locked bars, which no bar made of daily evidence is,
  and the event-driven simulation of the research pipeline.
- Of evaluation: splits, engines, regimes, ensembles and reports, which compute
  on given price series.
- Of market data: planning, catalogs, archives and reconciliation themselves,
  and the interactive session cache.
- What section 2 lists as left, the agent dispatcher, which is development
  tooling, and the promoted engine and graph, the forward paper, the promotion
  gate and the reference data, which compute once and store once.
