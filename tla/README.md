# soro-fuzz: specifications, model checking and proofs

soro-fuzz is two programs in one repository. One is a *fuzzing library* for
Soroban contracts: a harness that runs generated command sequences against a
contract and a shadow model of it, with three example contracts. The other is a
*server* that queues fuzzing campaigns in Postgres, runs them as `cargo fuzz`
subprocesses and streams their progress to clients. The modules here model both:
the server for its concurrency and failures, the library for what its verdicts
mean and for the boundary values of its examples.

All paths below are relative to the repository root; `store/…`, `worker/…`,
`runner/…` and `api/…` are under `crates/server/src/`.

## 1. Inventory

### The server

| Part | State | Operations | Talks to |
|---|---|---|---|
| Store (`store/postgres.rs`, behind the trait of `store/mod.rs`) | tables `campaigns`, `runs`, `job_queue`, `findings`, `targets` | `create_campaign`, `cancel_campaign`, `claim_job`, `start_run`, `finish_run`, `sync_targets`, five queries | Postgres, one READ COMMITTED transaction per operation |
| Worker pool (`worker/mod.rs`) | one task per slot, possibly in several processes | `run_loop`: claim or sleep; `process`: load, start, run, announce, finish, close | store, runner, progress hub |
| Runner (`runner/subprocess.rs`, `runner/output.rs`) | none | `run`: log line, sandbox, parse, report | sandbox, progress publisher |
| Sandbox (`runner/sandbox.rs`) | one child process and its group, two pipes, two drain tasks | `run_with_timeout`: spawn, wait, kill group, reap, collect | operating system |
| Progress hub (`worker/progress.rs`, `runner/progress.rs`) | map from run to broadcast channel, one per process | `publisher`, `subscribe`, `close`, `emit` | worker (sends), SSE (receives) |
| SSE stream (`api/stream.rs`) | per request: receiver, `last_status` | `stream_run`: read the run, subscribe, forward events | store, progress hub |
| API (`api/*.rs`) | none | validate, call the store, answer | store, target registry |
| Target registry, configuration, startup (`targets.rs`, `config.rs`, `main.rs`) | registry and settings of a process, read once | `load`, `get`, `list`; `main` from the environment to serving, SIGTERM and drain | store (`sync_targets`), API, worker pool |

The hard part is that nothing holds a lock across operations. A campaign's status
is held twice (`campaigns.status`, `runs.status`) and moved by clients (cancel)
and by workers (start, finish) in transactions that touch the two rows in
different orders. A worker's decisions are several transactions apart. A stream
reads the database, then looks at an in-memory map that the worker fills and
empties at moments of its own. The sandbox races a deadline against processes it
does not control. Several processes, and several versions of one, share a database:
each synchronizes its own targets when it starts, accepts campaigns by its own
registry and runs those that another accepted. And a process ends in the middle of
whatever its workers are doing.

What makes each part correct:

* *Store*: the two statuses never disagree; a job is handed out once; a terminal
  status is final; an acknowledged cancel holds; findings that were handed to
  `finish_run` are persisted; and callers cannot tell the transactions from atomic
  operations.
* *Worker*: every claimable job is reached; what is announced is what is persisted.
* *Streams*: a stream always ends, its subscriber learns the outcome unless it came
  after the announcement, and "no channel" means what the code takes it to mean.
* *Sandbox*: a call returns after its deadline, leaves no group member behind, never
  blocks a writer while it waits, and never reports a finding from partial output.
* *Lifetime*: a drain ends; a starting process never leaves the table half its own nor
  takes a target from under another; whatever one process promised, a process with the
  same manifest can run, within the budget the client asked for.

### The library

| Part | State | Operations |
|---|---|---|
| Harness (`crates/core`) | step counter, fresh `Env`, shadow model | `run`: advance time, resolve signers, execute under `catch_unwind`, classify, update model, check invariants |
| Shared invariants (`crates/invariants`) | none | no negative balance, supply conservation, authorization required: all three look at the *model* |
| Counter, escrow, token (`examples/*`) | contract storage and shadow model | entry points, `execute`, `apply_to_model`, the contract's own invariant |
| Strategies (`crates/strategies`) | none | ranges and bias of generated values |
| Fuzz targets (`fuzz/fuzz_targets`, `examples/*/tests`) | none | build one example's harness with its invariants, run the input, panic on a violation |

A run is sequential; what is hard is the boundary (the ends of `i64` and `i128`,
the second of a deadline), withheld signatures (which Soroban reports exactly like
a panic), and a harmless-looking call that only a later one exposes. A correct
example is one its own harness never reports, together with what that verdict is
worth: whether contract and model can drift apart unnoticed.

`PROJECT.json` lists every hazard at its line with the properties that cover it.

## 2. Modules

```
Model ──> CampaignStore ──> CampaignStore_proofs ── inherited by the three below
  │          ^  ^  ^
  │          │  │  └─── refines ── PgStore ──> MCPgStore        (TLC)
  │          │  │                     └──────> PgStore_proofs   (TLAPS)
  │          │  └────── refines ── MockStore ─> MockStore_proofs
  │          └───────── refines ── RunStream ─> RunStream_proofs
  └──────> the status types    (main, worker, runner, hub, SSE)
Service ──> Service_proofs                  (startup, registry, budget)
Sandbox ──> Sandbox_proofs
Harness ──> Counter, Escrow, Token ──> FuzzTargets ──> FuzzTargets_proofs
                             └──> Token_proofs ──────────────^
```

**Model** has the status types of `store/model.rs` and the correspondence of
campaign and run status.

**CampaignStore** is the abstract specification: what the `Store` trait promises,
each operation one atomic step over `campaign`, `run`, `claimedBy`, `findings` and
`executing` (campaigns some worker started and will call `finish_run` for); `Abandon`
takes any number of them out at once, as the end of a process does. Its
constant `LateCancel` separates the documentation (a cancel never overwrites a
terminal status) from the code (it may).

**PgStore** is the store as written: one action per SQL statement, plus `Commit`,
`RollBack` and the failures. Postgres is modelled by what READ COMMITTED promises.
A statement sees committed rows; an UPDATE takes the row's lock by writing an
uncommitted version (`tx[p]`) and waits while another transaction has one;
`FOR UPDATE SKIP LOCKED` skips a row another transaction has a version of; COMMIT
publishes everything at once; a wait cycle is broken by aborting either transaction
(`DeadlockVictim`). `call[p]` is the operation a caller is in and where. A campaign
stands for its three rows, because `runs.campaign_id` is UNIQUE and nothing deletes
rows. `claim_job` is one statement but two steps: what it read may have changed
when its claim commits. `jobQueue` is ordered by commit; `created_at` is the start of the creating
transaction, and nothing depends on the difference.

| Source | Actions |
|---|---|
| `create_campaign` | `CreateCampaign` (its rows are invisible until COMMIT, so one step) |
| `cancel_campaign` | `CancelSelect`, `CancelUpdateCampaign`, `CancelUpdateRun`, `Commit` |
| `claim_job` | `ClaimSelect`, `Commit` |
| `start_run` | `StartUpdateRun` (also its "no longer pending" return), `StartDeleteFindings`, `StartUpdateCampaign`, `Commit` |
| `finish_run` | `FinishUpdateRun`, `FinishUpdateCampaign`, `FinishInsertFindings`, `Commit` |
| errors and crashes | `StatementFails`, `CommitUnacknowledged`, `WorkerDropsJob`, `DeadlockVictim` |

**MockStore** is the in-memory store behind the API's and the worker's tests. Its
methods lock one table after the other but never await, so on the tests' single
thread each is a step. It keeps campaigns in a sequence of records and the other
tables per campaign; the refinement mapping looks a status up in that sequence.

**RunStream** composes the worker, the runner, the hub and the SSE handler over the
atomic `CampaignStore`, inside a server process that ends and starts again. That is
sound because PgStore refines CampaignStore, and because everything RunStream does to the
rows is one of CampaignStore's operations (the lemma `CallsTheStore`): its calls, the announcements
between them, and a process that ends in the middle of them. `job[c]` is the program counter of
`Worker::process`, with `SubprocessRunner::run` inline; `sent[c]` is everything sent
on the broadcast channel, and a receiver can still read its last `Capacity` events;
`watch[s]` is the state of one `stream_run`. Requests in `Remote` are served by
another process, whose hub never has the channel. `server` is `serving`, `draining`
after `Sigterm` (no new requests, the open ones go on, and so do the workers) or
`down`: `MainReturns` when nothing is in flight any more, or `Crash` at any moment.
Either ends every job in its middle and empties the hub; `Restart` finds the database
as it was. `main` waits for requests, not for workers (`main.rs` 85-95).

**Service** is about what processes read *before* that: `main` up to serving
(`LoadManifest`, `SyncRow` per upsert of `sync_targets`, `SyncCommit`, `Bind`; an early
return is `Stop`), on the table all of them share. A process is one lifetime, so a
restart or a deployment is another process with its own `targets.json` and
`JOB_TIMEOUT_SECONDS`. `order` is `TargetRegistry::order`; `lock` and `table` are the
rows of `targets`, `table[id]` naming the process whose version is committed. On top of
it `CreateCampaign` accepts by the registry and the timeout of one process, and
`ClaimJob`, `DropJob`, `RunJob` happen by those of another. Only what the registries and
the budget decide is kept of a campaign here: its statuses are PgStore's and RunStream's.
Three conversions decide what becomes of `timeBudgetSecs`: `AsI64` of the timeout it is
compared with (a `u64` cast in `main.rs` 85), `AsI32` when it is stored, and
`AtLeastZero` when it becomes `-max_total_time`.

**Sandbox** is `run_with_timeout` with the process tree as its environment:
processes fork, leave the group, keep or drop pipes, write and exit at will. Output
is counted in chunks; whether it is UTF-8 is one bit per stream, since
`read_to_string` returns nothing at all otherwise. The wait ends by the child's exit, by
its own failure (`WaitFails`: no code, no timeout) or by the deadline. `DRAIN_GRACE`
expires only while every stream still being read is held by a survivor, since two seconds
are enough to read the rest of a pipe that nobody holds. `Verdict` is what
`subprocess.rs` and `output.rs` conclude.

**Harness** is the run loop's frame (step bound, verdict, signers, classification of
`try_*` results). **Counter**, **Escrow** and **Token** are the example contracts
with their adapters: an action is one whole step, from the clock advance to the
verdict. Integers keep a width, scaled: `MaxI64`, `MaxI128`, `MaxTime`. **FuzzTargets**
composes the three as the fuzz binaries do: one of them runs, with its own invariants.

## 3. Runs

| Run | Instance | Shows |
|---|---|---|
| `pg_safety` | 2 campaigns, 2 workers, 2 clients, 1 finding | types, `StatusMirrored`, `ClaimedAtMostOnce`, `CancelReplyHolds`, `FindingsOnlyOfEndedRuns`, `WorkersKeepOutcomes`, and PgStore ⟹ CampaignStore (`ImplementsAtomicStore`) |
| `pg_liveness` | 2 campaigns, 2 workers, 1 client, no failures | `EveryCampaignEnds` |
| `pg_terminal_final` | 1, 1, 1, no failures | **violated**: `TerminalIsFinal` |
| `pg_findings_lost` | 1, 1, 1, no failures | **violated**: `FinishPersistsFindings` |
| `stream_safety` | 1 campaign, a local and a remote watcher, `Capacity` 2, any number of ends and restarts | `OutcomeNotMissed`, `AnnouncedIsPersisted`, `FindingsAnnounced`, `ProgressIsNotOver`, `ChannelWhileWorkedOn`, `StreamsEnd`, `DrainEnds` |
| `stream_not_live` | 1 campaign, a local watcher | **violated**: `NoChannelMeansNotLive` |
| `stream_shutdown` | 1 campaign, a local watcher | **violated**: `MidJobKeepsRunning` |
| `service` | 2 processes, 2 target ids, manifests of up to 2 rows, 1 campaign; i32 scaled to 7, i64 to 31, timeouts 4, 17 and 40, budgets 0, 4, 8, 17 | `NoForeignKeyError`, `NoMixedManifests`, `DeadlockOnlyByOrder`, `BudgetAsRequested`, `UnknownOnlyAcrossManifests`, `NobodyWaitsInVain`, `SyncEnds` |
| `sandbox` | a child and a descendant, pipes of 1 chunk, 3 chunks per stream | `FindingFromWholeOutput`, `GroupIsGone`, `WriterNotStuck`, `TimeoutReturns`, `ReturnsOncePipesClose` |
| `sandbox_output_kept` | the same, 2 chunks | **violated**: `CapturedOutputKept` |
| `fuzz_targets` | 3 addresses, 7 commands; i64 scaled to 3, i128 to 4, supply 2, deadline 3, clock to 6, advances 0, 1, 5 | `CounterNeverReported`, `EscrowNeverReported`, `OneWayOut`, `SettledOnce`, `DriftIsSelfTransfer`, `OnlySelfTransferIsReported`, `ModelSupplyIsConserved` |
| `token_consistent` | 2 addresses, 3 commands | **violated**: `TokenStaysConsistent` |

### What the violations say

1. *A cancel can overwrite an outcome* (`pg_terminal_final`). `cancel_campaign` reads
   the status without a lock; a `finish_run` that commits before its UPDATEs is
   overwritten, and the client is told "cancelled" of a completed campaign.
   `store/mod.rs` 72-74 promises a no-op.
2. *A deadlock can lose findings* (`pg_findings_lost`). `cancel_campaign` locks
   campaigns then runs, `finish_run` the reverse. If Postgres aborts `finish_run`, the
   worker logs the error and the findings are gone; `store/mod.rs` 96 says they are
   persisted unconditionally.
3. *A live run may have no channel* (`stream_not_live`), against the comment in
   `api/stream.rs` 129-134.
4. *A SIGTERM abandons the job in progress* (`stream_shutdown`). `main` returns when the
   requests are answered and drops the workers' handles, so the runtime ends their tasks:
   the run stays `running` and its job claimed. `worker/mod.rs` 9-12 says the worker keeps
   running until the job finishes.
5. *Captured output is dropped* (`sandbox_output_kept`). When a survivor outside the
   killed group holds one pipe past `DRAIN_GRACE`, the caller drops also the other stream,
   whose drain task had read it to its end, against the comment in `runner/sandbox.rs`
   206-209.
6. *The token does not pass its own harness* (`token_consistent`). A self-transfer
   creates tokens; burning them drives the model negative. `fuzz_targets` shows how far
   this reaches: contract and model differ by exactly the self-transferred amounts, and
   `supply-conservation` never notices, because it sums the model.

The sentence before it, `runner/sandbox.rs` 204-206, is too strong as well and has no run
of its own. After a normal exit the caller is said to return "at once", because the pipes
close with the child and its group; but nothing ends the group then, and a descendant that
lives on with a pipe keeps the caller, past `JOB_TIMEOUT_SECONDS`. `ReturnsOncePipesClose`
is what does hold: the call returns once nobody holds a pipe.

Findings 1 and 4 also bound what the passing properties claim. MockStore, which the
API tests run on, *does* keep terminal statuses final (its methods are single steps), so
no test on it can meet finding 1. And where the code gives something up for good,
`DeadlockOnlyByOrder` and `UnknownOnlyAcrossManifests` say exactly when: a start fails on
a deadlock only if two manifests list targets in contrary orders, and a queued campaign is
given up as unknown only by a process whose manifest differs from the accepting one's.

### Bounds, and why they are enough

* Two workers and two clients on two campaigns give every pair of operations on one
  campaign, queue order between campaigns, and two concurrent cancels. Nothing in the
  code relates three callers, except the lock queue, which the proof covers.
* One finding per run, since `SubprocessRunner` reports the one crash libFuzzer stops
  at; the proofs leave `MaxFindings` open.
* `Capacity` 2 stands for `CHANNEL_CAPACITY` (256). A run with `SubprocessRunner` sends
  at most five events, so the production channel never lags today; the smaller capacity
  makes lag happen, so that the handler's `Lagged` arm is really checked.
* Two processes and two targets give every pair of manifests: equal, permuted, disjoint,
  overlapping, empty and invalid. A deadlock of three processes needs three targets;
  the proof covers it. One campaign is enough, since campaigns share nothing in Service.
* With i32 ending at 7, a `JOB_TIMEOUT_SECONDS` of 4 is below it and 17 above; a budget of
  8 then wraps to a negative number, so to `-max_total_time=0`, and 17 wraps to 1. A timeout
  of 40 is above i64's 31 and becomes negative itself: every budget is refused.
* A pipe of one chunk and three chunks per stream give a full pipe, a pipe with data
  after the child's death, and output in every phase. The proofs leave both open.
* Token amounts from 0 to 4 over a supply of 2 reach overflow of a balance and of the
  supply, insufficient balance and zero; 7 commands more than suffice to create, move
  and burn, and to count to either end of the counter and over it.
* The escrow's advances 0, 1 and 5 meet the deadline 3 from below, exactly and beyond;
  the clock saturates at 6. In the code the clock is a `u64` advanced by `u32`s and cannot
  reach its end in 32 steps: the model allows more than the code does.

`CHECK_DEADLOCK FALSE` stands only where the system really stops: a returned sandbox
call, a finished harness run, two processes that have both ended.

### Fairness

* *PgStore*: strong fairness of each worker's and each client's next statement, weak
  fairness of the deadlock detector. tokio polls runnable tasks; Postgres answers
  statements, and lets transactions that wait for a row have it in turn, which is what
  strong fairness stands for: a waiting transaction is not overtaken for ever. Nobody
  has to create or cancel. `pg_liveness` excludes failures, because a job whose worker
  fails is never claimed again: the code has no reclaim.
* *RunStream*: weak fairness of a started `Worker::process` (its subprocess is bounded
  by `JOB_TIMEOUT_SECONDS`, under the exception named in section 5), of a connected
  client's stream, and of `MainReturns`, since `main` is polled once nothing is in flight.
  Nothing is assumed of claiming, cancelling, connecting, signals, crashes or restarts.
* *Service*: weak fairness of `SyncRow` and `SyncCommit` (`main` awaits nothing else) and
  of `DeadlockVictim` (Postgres's `deadlock_timeout`). Weak suffices: each
  process has one such transaction, so a waiting one is overtaken finitely often. Nothing is assumed of the rest.
* *Sandbox*: weak fairness of the drain tasks and of the caller. Nothing is assumed of
  the processes, nor of when the deadline passes, nor that `wait` fails.

## 4. Proofs

`tlapm` checks these for every value of the constants, under the named assumptions of
the modules: callers are disjoint and `None` is not one of them, the bounds are
naturals, roles are members of the address pool, and addresses, processes and targets are
finitely many. Campaigns, workers, clients, watchers and descendants may even be infinite.

| Module | Theorems |
|---|---|
| `CampaignStore_proofs` | `RowsBelongTogether`, `StepsAreLegal`, `DocumentedStatusIsFinal` |
| `PgStore_proofs` | `TypeCorrect`, `StatusAlwaysMirrored`, `ClaimedOnce`, `CancelHolds`, `FindingsOfEndedRuns`, `OutcomesKept`, `PgStoreIsAtomic`, `RunsAreStartedOnce`, `DeadlocksAreCancelAgainstWorker` |
| `MockStore_proofs` | `MockStoreIsDocumented`, `MockStatusIsFinal` |
| `RunStream_proofs` | `TypeCorrect`, `NobodyMissesTheOutcome`, `StreamsTellTheTruth`, `FindingsAreAnnounced`, `ProgressPrecedesOutcome`, `ChannelsAreOfStartedRuns`, `RunsAreStartedOnce`, `RowsBelongTogether` |
| `Service_proofs` | `TypeCorrect`, `AcceptedTargetsHaveRows`, `TableIsOfOneManifest`, `OrderPreventsDeadlock`, `BudgetsAreKept`, `EqualManifestsKnowTheTarget`, `LocksAreOfTheLiving` |
| `Sandbox_proofs` | `TypeCorrect`, `NoGroupSurvives`, `FindingsAreWhole`, `OutputIsWholeOrNothing`, `NoPipeIsForgotten` |
| `FuzzTargets_proofs` | `TypeCorrect`, `CounterPasses`, `EscrowPasses`, `ExactlyOneWayOut`, `SettledForGood`, `TokenDriftsBySelfTransfer`, `TokenReportsSelfTransfer`, `SupplyNeverReported` |
| `Token_proofs` | the same three of a token run alone, and `SupplyIsNeverReported` |

*CampaignStore.* What any store with these operations gives its callers is proved once, of
the abstract operations, and inherited: each implementation's proofs instantiate
`CampaignStore_proofs` under its own refinement mapping (`Promised`), and what they add is
only that they implement it. So `RunsAreStartedOnce` holds of Postgres statements with
deadlocks and lost acknowledgements, and of a server that dies in the middle of a job, by
one and the same argument. `StoreInv` is inductive for `LateCancel` either way; the
theorem that a terminal status is final assumes it FALSE, which MockStore satisfies
(`MockStatusIsFinal`) and PgStore does not (finding 1).

*PgStore.* None of the safety properties is inductive: whether committed rows stay
mirrored depends on what the open transactions are going to publish. `Inv` therefore
adds, for every caller (`CallerOK`), the shape of its call (which phase of which
operation), which versions it has written by then (both, one or none of the two rows,
and equal up to `MirrorOf` when it is about to commit), what the committed rows must be
while it has them (a `finish` that wrote the run found it `running`, and its lock keeps
it so), and that no two callers hold a version of the same row. `RowsOK` has the facts
about the committed rows. Each statement has a lemma that it preserves `Inv`; COMMIT,
where everything meets, is split into what becomes of the rows, of the committing
caller, and of every other caller. The refinement maps `executing` to the campaigns of
workers between a successful `start_run` and the end of their `finish_run`: statements
and rollbacks before COMMIT stutter, COMMIT is the abstract operation, and a lost job is
`Abandon`. `CommitUnacknowledged` of a start is `Start` without the executor.

`DeadlocksAreCancelAgainstWorker` justifies the guard of `DeadlockVictim`, which looks for
two transactions that wait for each other: in any set of callers in which everyone waits
for another, there are two such, a cancel and a worker's call for one campaign. Whoever
waits for a campaign's row has no version of it and whoever waits for a run's row is a
cancel (`WaitingShape`), so going along the waits one meets a cancel within two steps, and
the worker it waits for waits for it.

*MockStore* is proved to implement CampaignStore with `LateCancel` FALSE, that is, the
documentation of `store/mod.rs` to the letter. Each campaign has exactly one record
(`RecordsInv`) whose status mirrors the run's (`MirrorInv`), so the status looked up in
the sequence is `MirrorOf(runs[c])` and every method is one abstract step. There is no
run of its own for it: the theorem is the result.

*RunStream.* What a client was told is tied to what is persisted only by the order of
events inside `Worker::process`. `Inv` records that order. `CampaignInv` says which
events a run's channel carries at which program point, that an outcome comes last, that
"completed" follows an iteration report and "failed" excludes one, and that a run has an
outcome only after `finish_run`, that an announced run is "running" or cancelled until
then, and that a job that is over is not in `executing`; `RequestInv` says what a client has read of the channel,
and that one whose `last_status` is an outcome will receive no more progress. A crash or
the return of `main` is a step of every run at once (`ProcessEnds`); it keeps `CampaignInv`
because it moves runs only to phases that promise less and takes every channel away.
The lemma `CallsTheStore` maps `executing` to the jobs between a `start_run` that returned true and
the end of their `finish_run`; a step is a call (`CallStep`), an end of jobs (`EndStep`),
which is `Abandon` of the set it ends, or nothing the store sees. It holds by the shape of
the module; what it is for is to inherit `RunsAreStartedOnce` and `RowsBelongTogether`.

*Service.* `Inv` says whose locks there are (`LockInv`: exactly the rows a transaction in
progress has upserted), that a registry is its manifest without duplicates
(`RegistryInv`), that rows come only from committed syncs (`TableInv`), and what a
campaign's record owes to the two processes that handled it (`CampaignInv`). The
deadlock theorem is the one with an argument: suppose a cycle of waiting transactions
and a ranking of the ids that orders every manifest. Of the rows the cycle waits for take
the one with the largest rank (`Largest`, from well-foundedness of the naturals). Whoever
holds it is in the cycle as well, so waits for a later row of its own manifest, which has
a larger rank. `NoMixedManifests` is inductive together with `LockInv`, since a commit
overwrites *every* row its manifest shares with another one.
`BudgetsAreKept` rests on two facts of `Wrapped`, the cast to a signed width: it is the
identity up to the largest value and never exceeds its argument above it (`WrappedFits`,
`CastsFit`).
`LocksAreOfTheLiving` is the safety half of `SyncEnds`: a lock's holder is still in its
sync (`LockInv`), so the transactions one reaches by following holders are finitely many
and alive; if none of them can go on, "holder of the row it waits for" is a function from
that set to itself, and a smallest nonempty set closed under such a function is permuted
by it (`SomeCycle`), which is what Postgres looks for.

*Sandbox.* `Inv` counts chunks (written = read + in the pipe while the drain task
reads), says that a drain task that is done has read everything unless it was not UTF-8
and that nobody holds its pipe, and that after the kill no grouped process runs; forking
keeps that, since a dead process cannot fork. `CollectedAll` says what the caller has:
nothing until it returns, then all or, given up after a timeout, nothing. That gives
`OutputIsWholeOrNothing`, and `NoPipeIsForgotten`, the safety half of `WriterNotStuck`:
no task is done or aborted while its pipe has data and the caller still runs.

*FuzzTargets.* Each example has an invariant of its own, and a target leaves the other
two alone, so they hold together. *Token*: the drift equation with types; the model cannot
overflow, since each of its balances is at most the contract's (`ModelIsBounded`).
`ModelSupplyIsConserved` sums the model's balances with a fold over the addresses, which
are finitely many (`AddressesAssumption`; a harness generates a fixed pool). The library's
theorems on folds and induction take operators as parameters, which no prover here can
instantiate, so the sum is treated as what it is, a function on the subsets of the
addresses (`SumIsTotal`, `TotalsDef`), and induction as a fact about a *set* of numbers or
of subsets (`InductionInNat`, `InductionOnSubsets`, both from the well-foundedness of <).
What the steps then need is one fact: changing one balance changes the sum by as much.
*Escrow* and *Counter*: the model equals the contract, and outcome `Ok` means the contract returned ok.

Every invariant and every action property a passing run checks is a theorem, and so are
the refinements of PgStore and MockStore. Only model-checked is liveness (`EveryCampaignEnds`, `StreamsEnd`,
`DrainEnds`, `SyncEnds`, `WriterNotStuck`, `TimeoutReturns`,
`ReturnsOncePipesClose`), which is beyond the prover
together with ENABLED. The violated properties are shown by TLC's counterexamples.

## 5. Not modelled, and why

* Pagination, DTOs, error bodies and the checks of a campaign's name and invariant ids:
  sequential, without effect on any state.
* The read-only queries of the store, other than those whose answer someone acts on;
  `migrate`, which sqlx serializes under a lock of its own.
* Settings other than `JOB_TIMEOUT_SECONDS`: strings and numbers no model tells apart.
* The regular expressions of `output.rs`; only its decision is modelled.
* A panic inside the worker: `SubprocessRunner` has no path to one.
* The failure of `spawn` (an early return without effect), Windows' `taskkill`, and processes inside the
  container after `docker exec` is killed.
* The unbounded wait for the drain tasks after a *normal* exit (`sandbox.rs` 225-230): it
  is in the model (`Collect` waits for both tasks) and ends once nobody holds a pipe
  (`ReturnsOncePipesClose`), but nothing says that a descendant lets go of one. RunStream's
  fairness assumes that it does.
* What a budget equal to `JOB_TIMEOUT_SECONDS` buys: libFuzzer and the sandbox then stop
  the run at the same second, and a worker of a process with a smaller
  `JOB_TIMEOUT_SECONDS` stops it before. Which of the two wins depends on how long
  `cargo fuzz` builds, which this code does not say.
* `MockRunner`, a fixed script of events; the biased choice of the hand-written
  generators, since the models take every value; CI, containers and scripts.

## 6. How it was built, and what could follow

In this order: Model, CampaignStore, PgStore and its proofs; RunStream; Sandbox and its
proofs; Harness and the three examples with their proofs; their composition FuzzTargets;
the server's lifetime in RunStream and its proofs; Service and MockStore with theirs; the
theorems of CampaignStore, inherited by what implements it; sums; the deadlocks.

What is left is either outside the code (the container, the build time of `cargo fuzz`) or
waits for a change of it: a reclaim of orphaned jobs, which migration 0005 and
`postgres.rs` 364 already speak of, would turn `EveryCampaignEnds` into a property under
crashes, and a `main` that joins its workers would turn `MidJobKeepsRunning` into one that holds.
