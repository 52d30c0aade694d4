# A verification project for the mission runtime of vedmoulya

The repository is a TypeScript monorepo of about 4,500 files. Most of it is record
keeping, text processing and user interface. Its concurrent core is the *mission
runtime*: durable missions made of objectives that several worker processes execute
under leases, on top of Postgres and of a write-through document store that
every other component shares. Around it more components run across awaits: the
discovery scheduler, the execution bridge and the settlement of client payments, which
relies on transactions of its own. This directory models them in TLA+,
model-checks them with TLC and proves the main safety properties with TLAPS.

Paths below are relative to `src/packages/`.

## 1. Inventory

| component | where | state | operations | talks to |
|---|---|---|---|---|
| mission document and store | `mission-runtime/src/persistence/PostgresMissionStores.ts`, `mission-controller/src/domain/mission-publication.ts`, `mission-state-machine.ts` | one JSON row per mission: state, objectives with their leases, usage, trails | acquire, renew, release-expired, finalize, recovery changes, patch, replace-if-unchanged, append activity, best-effort save | Postgres (row locks); the write-through mirror |
| mission controller | `mission-controller/src/application/MissionControllerService.ts` | local copies of the document, one per call | runNextObjective, recoverMission, commands, durability barrier, watchdogs, checkpoint resume | the store, the executor, verifier, providers |
| lease heartbeat, ownership gate | `mission-controller/src/domain/objective-lease-heartbeat.ts`, `execution-ownership-gate.ts` | timer, renewal in flight, failure latch | renew with a budget and retries, ask for ownership | the store |
| workspace lease | `mission-controller/src/domain/workspace-execution-lease.ts` | one lease per workspace key | acquire, renew, release, held | controller, heartbeat |
| mission worker | `mission-runtime/src/worker/MissionWorker.ts` | tick in flight, stopped | tick: recover each mission, then run one objective | controller |
| write-through store | `core/src/persistence/WriteThroughDocumentStore.ts` | mirror, pending writes, pending deletes, drain promise | write, remove, drain, flush, hydrate | Postgres |
| discovery scheduler, cadence driver | `ai-world-scheduler/src/domain/DiscoveryScheduler.ts`, `services/api` (`scheduler-cadence.ts`) | jobs, runs, cooldowns | tick, run a job, cancel | sources, notifications |
| execution bridge | `execution-bridge/src/application/ExecutionRunService.ts` | runs and their steps | start, advance, approve, hand off, cancel | plans, providers |
| payment settlement | `../services/content-agency` (`PostgresPaymentSettlement.ts`), `services/src/content-agency/ClientOperationsApplicationService.ts` | payments, invoices | add a payment, review it, rewrite or delete the invoice | Postgres (row locks, unique indexes, a foreign key) |
| the rest | see `components` in PROJECT.json | | | |

**What is hard.** A mission's row is read by everyone from process-local mirrors that are
as old as the process's last store call, and decided upon many awaits later. Two
workers, an operator, a watchdog and lease renewals write it concurrently; a worker
may die anywhere; a store call may fail after it has committed; a lease may expire
while its holder still works. The document store queues, captures, re-queues and
flushes while writes go on. Payments of one invoice, one key or one receipt arrive at once
and are repeated when a reply is lost. `hazards` in PROJECT.json lists each of these at its line.

**What makes each component correct.**

* *document / controller*: one live owner per mission; nobody but the owner decides an
  objective whose lease is live; terminal decisions are final; the mission moves along its
  transition table; COMPLETED is honest; work is counted once; retries stay in
  budget; no objective stays RUNNING for ever.
* *heartbeat*: renewals that are slow, repeated or late never cost their holder the lease
  before the heartbeat gives up; an extension never resurrects a replaced lease.
* *workspace lease*: one holder; an abandoned claim ends.
* *write-through store*: no mutation is lost on its way to the table; the latest version
  wins; a key is queued one way; the queue is bounded; a commit is not undone; drains end.
* *worker*: every active mission is eventually considered.
* *scheduler*: no job is stuck in flight; one run per window; no item notified twice in
  its cooldown; a due job runs.
* *bridge*: COMPLETED is honest; no gate is bypassed; steps keep their order; a RUNNING run
  is driven and settles.
* *payments*: an invoice is settled when, and only when, verified payments cover it; no
  payment is counted twice, whatever is repeated; transactions block each other only where an
  invoice is deleted while one of its payments is verified.

## 2. Modules

| module | role | models |
|---|---|---|
| `MissionDocument` | the document as a record; each store operation as a guard `CanX` and a result `X`; the transition table, selector and budget | the store's transactions, `mission-publication.ts`, `mission-state-machine.ts` |
| `MissionExecution` | the system: workers, operator, renewals, checkpoints, clock, faults, over one mission row | the controller with its checkpoints, the worker's tick, heartbeat and gate |
| `MissionLedger` | the abstract specification: objectives open, held or settled; a mission active or ended | what an observer is promised |
| `MissionExecution_proofs` | type correctness | |
| `MissionSafety_proofs` | what a step does to the row and by whom; four safety theorems | |
| `MissionOwnership_proofs` | ownership of objectives: retries, usage, the token, the ledger refinement | |
| `WorkspaceExecution` | attempts of several missions on one workspace, with times | `PostgresWorkspaceLeaseStore.ts`, `objective-lease-heartbeat.ts`, `execution-ownership-gate.ts`, the controller's claim and release |
| `WorkspaceExecution_proofs` | type correctness, LeaseKept, WorkspaceKept | |
| `WriteThroughStore` | mirror, queues, drain and flush passes, transactions, restart | `WriteThroughDocumentStore.ts`, with the row operations of `PostgresMissionStores.ts` |
| `WriteThroughStore_proofs` | type correctness and five safety theorems | |
| `ExecutionRun` | one bridge run, the drives of several callers | `ExecutionRunService.ts`, `PlanRunResolver.ts`, `RunBudgetGuard.ts` |
| `ExecutionRun_proofs` | type correctness and five safety theorems | |
| `DiscoveryScheduler` | one user's jobs, ticks and manual runs | `DiscoveryScheduler.ts`, `ScheduleEngine.ts`, `CooldownManager.ts`, `SchedulerApplicationService.ts`, one user of `scheduler-cadence.ts` |
| `DiscoveryScheduler_proofs` | type correctness and three safety theorems | |
| `PaymentSettlement` | the payments and invoices of one user, several calls at once | `PostgresPaymentSettlement.ts`, migrations 0002 and 0003, `addPayment`, `reviewPayment`, `updateInvoiceStatus`, `deleteInvoice` |
| `PaymentSettlement_proofs` | type correctness and seven safety theorems | |
| `MC*` | constants and symmetry for TLC | |

### MissionExecution

A step is what the code does between two awaits that reach the store. `doc` is the row;
`att[w]` the local variables of worker `w`'s tick: a program counter `pc`, the
objective and fencing token, the age of the clock reading a call carries, the
decision (`plan`), the usage copy it will publish (`use`), the mission state a decision was
taken in (`held`) and the attempts of the durability barrier (`tries`).

| code | actions |
|---|---|
| `recoverMission` | BeginRecovery, HealNext (one per abandoned lease), Inspect, PublishRecovery, ResumeProvider |
| `runNextObjective` up to the acquisition | LoadMission, WaitForProvider, CloseMission, BlockMission, AcquireObjectiveLease |
| the attempt | StartObjective, ExecuteObjective, PublishEvidence, VerifyObjective, SaveCheckpoint, PublishResult, AppendActivity |
| `persistRequired`, `holdAfterPersistenceFailure` | RequiredWriteFails, HoldMission, CommandFails, HoldCommanded |
| heartbeat | StartRenewal, RenewObjectiveLease, RenewalFails |
| `applyCommand` by operator or watchdog | IssueCommand, ApplyCommand |
| `resumeFromCheckpoint`, `restoreVerifiedFromCheckpoint` | ResumeFromCheckpoint, RestoreVerified |
| failures | CallFails, GateFails, Crash |
| time | Tick |

Abstractions, and why they are faithful:

* **Reads.** A mirror read returns what some earlier read of the row would have; since
  any number of steps may separate a step of `w` from the next, reads see `doc`
  itself and the staleness appears as steps in between.
* **Conditional document writes.** The code compares a snapshot (state, history
  lengths, instants, leases) with the row. Every committed change moves one of those,
  so `base` is the set of actors whose pending write was derived from the present row:
  `Commit` empties it, `Derive` joins it. A writer that finds itself outside is refused.
* **Time.** Instants are kept relative to the clock (`left` = expiry - now). A call that read
  the clock `age` ticks before it commits compares with that older reading. `MaxAge` bounds the
  age; a lease expired for `MaxAge` ticks is expired for every reading, so `left`
  saturates there.
* **Outcomes.** Executor, verifier, failure classifier, approval gate and provider
  availability are choices (`Failures` names those an instance may take).
* **Usage** keeps the four counters that decide anything: completed, failed, retries,
  replans. Other budgets (tokens, cost, runtime) only ever stop a mission earlier.
* **Checkpoints.** A resume reads the latest checkpoint of its process's mirror, which may
  lack those of other processes, so the latest is a choice. What a VERIFIED checkpoint may do
  depends on its time and on the time of the objective's lease only. `witness[o]` is the
  checkpoint of `o` that may do most: none, one that verified nothing, one older than the recorded
  lease, one newer and saved by another attempt ("late"), the lease owner's own. A new lease
  outdates it (`Outdate`), except that the acquisition read the clock `age` ticks earlier.
  Witnesses are kept where "RESUME_CHECKPOINT" is a command: nobody else reads them.
* **One process per worker**, the Postgres deployment; the in-memory store's operations
  are the same guards and results in one synchronous step.

### WorkspaceExecution

`MissionExecution` fixes that a lease may expire under its holder; this module asks
when it may. An attempt (`run[a]`) claims the workspace row, acquires its objective's lease
and works behind the gate, which asks the mission store and then the workspace store
before each operation. Its heartbeat (`beat[a]`) is a timer, a renewal in flight with the
time since it was sent (`clk`), the attempts made, and the expiry it knows about
(`known`, confirmation + TTL, which is later than the store's: sending + TTL). `late[a]` holds
the renewals the budget gave up and that may still commit.

| code | actions |
|---|---|
| `acquireWorkspaceLease`, `acquire` with its tries | Start, Claim |
| `acquireObjectiveLease` and the barrier | AcquireObjective |
| `MissionExecutionOwnershipGate.refusal` | GateObjective, GateWorkspace |
| the operations and the publication | OperationEnds |
| `runNextObjective`'s finally: `stop()`, `releaseWorkspaceLease` | Stop, Release |
| `tick`, `runRenewal`, `performRenewalWithinBudget`, `retryRefusal` | Tick, RenewalSettles, RenewalTimesOut, Resend |
| `onRenewed` | Companion |
| recovery's release of an expired lease | Heal |
| faults and time | LateCommit, Crash, Clock |

The workspace has one key: keys do not interact. The retry delay (25 ms) is shorter than
a tick of the model's clock, so a pause ends before time passes. A token is its attempt.
The assumption `TimesAssumption` says that the times leave room: the interval, all attempts with
their budgets and a late commit fit in the TTL, and so do `MaxMisses` failed companion
renewals in the workspace's TTL. The defaults satisfy it (TTL 60 s, interval 20 s,
3 attempts of 5 s, workspace TTL 600 s) provided that claims and companion renewals are
answered within some seconds (`MaxAge`): the code awaits a companion renewal without
a budget, and does not check the times it is configured with.

### WriteThroughStore

A document is its version number. A pass is one run of the `drainOnce` loop: the shared drain
("drain") or a `flush()` caller's. `Capture` is the part of a round that takes the
queued writes (else the deletes); `Upsert`/`Delete` handle one statement's reply;
`UpsertFails`/`DeleteFails` an error, whether or not the table changed, and set `seen.failed`:
what a failed statement does to the promises is told in section 5. `Continue` is the
loop's progress test. `Restart` is a new process that hydrates from the table. A
flush's limit of 100 rounds is not modelled: with `MaxWrites` writes it is never reached.
`Rows` are keys used as missions are: saved through the queue when they are created
(`MayWrite`: `createMission` is the only caller of `save` for them on the durable store) and
changed by transactions (`Transact`: a locked row, then `remember`, which touches the mirror only).

### ExecutionRun

The run store hands out the object itself, so all calls share one run: `state`, `status`,
`disposition`, `handoff`, `budget` are its fields, `call[c]` is the drive (`advance`) of a caller, with
the step it is at, its attempts and its own budget guard. A step of the model is what a
drive does between two awaits: the plan, the port, the artifact reader, the pause before a
retry. Up to the next await a drive may pass several steps, block, stop at a gate or finish:
`Drive` does that in one step.

| code | actions |
|---|---|
| `start` | Init (its drive awaits the plan) |
| `advance`, `executeStep` | Advance, PortReplies, ArtifactsRead, Retry |
| `approve`, `reject`, `completeHandoff`, `cancel` | Approve, Reject, CompleteHandoff, Cancel |

Tokens, cost and latency are refusals that may happen at any time (`Execute`); the
iterations are counted. `getPlan` and the artifact reader do not throw in the model.
`seen` is a history: decisions, what was sent, what was completed, how many drives began.

### DiscoveryScheduler

The stores clone, so a run works on a copy of its job (`call[c].copy`) and writes it back when it
ends (`Finish`), over whatever was stored meanwhile. `next` and `cooldown` are distances from the
clock, `age` the time since the run read it. A run awaits the items (`Baseline`), the sources
(`Discovering`), the items again (`After`) and each notification (`Notifying`); the calls outside the
try block may throw (`Throws`), which ends the run and the tick. The cadence driver runs the
ticks of one user one after the other (`Tick`); "Run now" (`RunNow`) takes the same path at any time. A
source policy's refusal is the choice to find no eligible source. `Managed` restricts the
user's actions to some jobs. A run takes at most `MaxRun`, less than a window and than a cooldown, whose
shortest in the code are six hours (`DiscoveryJobPolicy.ts:40,49`); a longer run would find its job due
again when it ends.

### PaymentSettlement

`payment` and `invoice` are the committed rows, a step is one SQL statement, and `pc[c]` is the
next statement of call `c`. What PostgreSQL does is stated once: a statement of a transaction sees
the committed rows and its own writes (`View`); a row lock is held from the statement that takes it
to the end of the transaction (`HoldsInvoice`, `HoldsPayment`, both read off the pc); an insert
that clashes on a unique index fails if the other row is committed and waits if it is not; a plain
SELECT waits for nobody. `WaitsFor(c, d)` says when the next statement of `c` waits for the transaction
of `d`, and `Free(c)`, a guard of every statement that locks or inserts, that it waits for nobody.

An invoice that has payments cannot be deleted: migration 0003 gives `client_ops_payments` the
foreign key `cpay_invoice_fk` with `ON DELETE RESTRICT`. PostgreSQL runs such a DELETE in two parts.
It locks the invoice row (`DeleteInvoice`); then the check of the key looks for a payment and locks the
one it finds, waiting while a verification holds it, and fails the statement (`RefuseDeletion`; the pc in
between is "restrict"). The key of an insert needs no step of its own, since the
settlement holds its invoice. Where calls wait for each other, the database fails one
of them, whichever it is: that is a `Fail`.

| code | actions |
|---|---|
| `addPayment` up to `settle` | AddPayment |
| `settle` | LockInvoice, FindByKey, FindByReference, InsertPayment |
| its `catch`, `findByIdempotencyKey`, `replay` | ResolveLostRace, Replay |
| `reviewPayment`, `verify` | ReviewPayment, LockPayment, LockItsInvoice |
| `totals` and the end of the transaction | ReadTotals, Commit |
| `updateInvoiceStatus`, `deleteInvoice` | OpenInvoice, UpdateInvoiceStatus, DeleteInvoice |
| `cpay_invoice_fk` | RefuseDeletion |
| a statement that throws, a deadlock that is broken | Fail |

A retry is another call with the same request, so that a lost reply (`answer` = "THROWN" after a
`Commit`) needs nothing more. A draft and a sent invoice are one status, since no code here tells
them apart. The payment method is compared and stored as the amount is; evidence that fails its
validation reads no state. `byOperator` is a history: who wrote an invoice's status last. A key that
is derived from a receipt drops its case and punctuation, so that `MCDerived` gives both receipts of the
run one key; the proofs hold for every `Derived`. Payments whose invoice was missing before the
foreign key was added (it is `NOT VALID` until a boot finds none) are not modelled; without them the two
branches that find no invoice after a payment was found, in `verify` and in `replay`, are never taken.

## 3. Runs

All passing runs check for deadlock except that of the store, which comes to rest
when nothing is queued, and that of the payments, whose calls end.

| run | instance | shows |
|---|---|---|
| `mission_objectives` | 2 workers, 2 independent objectives, retry, a failing store call that is repeated, CANCEL | TypeOK, OneLiveLease, RetriesBounded |
| `mission_decisions` | 2 workers, 1 objective, all outcomes but RETRY (whose place REVISE takes), all nine commands and resumes from checkpoints (2 issued), a failing store call (committed or not) that holds the mission, provider outage | NeverOvercounted, OwnerDecides, LegalMoves, TerminalFrozen |
| `mission_ledger` | fair; a chain of 2 objectives, calls 1 tick late, stale objective 2, failures, START/CANCEL, a crash | KeepsLedger: the system implements `MissionLedger`; CompletedMeansDone; NothingStaysRunning |
| `workspace` | 2 attempts of 2 missions, renewals with 2 attempts, late commits, a missed companion, crashes | LeaseKept, WorkspaceKept, WorkspaceFreed |
| `store_queue` | fair; a document and two mission rows, 3 writes, drain and flush, queue limit 2, a restart, statements that may fail for ever | NothingLost, LatestQueued, QueueBounded, Superseded, CommitKept (each until a statement fails), PassesEnd |
| `bridge_run` | 28 plans of 3 steps, 2 overlapping calls, retries, a budget of 4 calls | HonestCompletion, ApprovedFirst, InOrder, RetriesPerDrive, Driven, RunSettles |
| `payments` | 3 calls of 12 requests on 2 invoices, 2 keys and 2 receipts; deletions, rollbacks and lost replies | PaidIsBacked, CoveredIsPaid, OnePaymentPerKey, EvidenceUsedOnce, NoFurtherPayment, RingsHaveADeletion |
| `discovery` | 2 jobs, the driver and one manual caller, settings, cancellation, exceptions | InFlightMeansRunning, DedupUnlessOverlapping, Cadence, DueJobsRun |

Every passing module is also checked for its TypeOK. Four runs show where a comment of
the code and the code disagree; each is a finding in PROJECT.json with the line and the
comment it quotes.

| run | what happens |
|---|---|
| `lost_usage` | A slow execution's lease expires; before anyone heals it, a second worker acquires and verifies the other objective; the slow one still owns its own, publishes, and its usage copy replaces the row's. One verified objective is no longer counted. |
| `unapproved_step` | A step is irreversible and its provider not configured: it stops at the configuration gate; completing that hand-off makes it executable and it is sent, although nobody approved it. |
| `late_witness` | An attempt whose lease has expired is still at work when a second worker acquires its objective; it verifies the objective and saves the witness, which is newer than the second worker's lease; an operator's resume promotes it and takes the objective from its live owner. |
| `payment_retry` | A payment without a time of receipt is committed and sent again with the same key; the second call is given another time by the clock, differs from the first in it, and is refused as a conflict. |

**Bounds.** `MaxCommands`, `MaxCrashes`, `MaxFaults` (missions) and `MaxWrites`, `MaxRestarts`
(store) bound what the environment does; each run gives to its question the events it is about and
none to the others. Two workers and two objectives are the least for which two owners, a takeover
and a stale copy exist; three tokens per worker let an objective be lost and taken again. `TTL` =
1 with `MaxAge` = 0 makes expiry the next tick's event; `TTL` = 2 with `MaxAge` = 1 lets a call
arrive after an expiry. `MaxRetries` = `MaxReplans` = 1 reaches both limits (in
`mission_decisions` no retry is allowed); `mission_objectives` takes `MaxReplans` = 2, so that the
retry limit is what stops a second retry when the usage that counted the first is gone, and `TTL`
= 2, so that a heartbeat can renew a lease before it expires (with `TTL` = 1 a lease that is due
for renewal has expired). `Attempts` = 2 there repeats a write whose first attempt took effect; in
`mission_decisions` `Attempts` = 1 lets the one failure hold the mission. In the store three
writes to three keys give a superseded version of each kind, and a limit of 2 makes the third key
overflow the queue. Workers are symmetric in the mission runs without a liveness property; the
others use no symmetry.

In `workspace`, `TTL` = 8 is the least that satisfies `TimesAssumption` with an interval of 2, two
attempts of 1, calls 1 late and commits 2 late; so every renewal comes as late as it may.
In `bridge_run`, two callers are what it takes for one drive to overtake another, and three steps for
something before and something behind the step a drive is at; the plans are all orders of
three different kinds, and those that repeat one. With 4 port calls for 3 steps and one
retry both limits are met. In `discovery` two jobs let a tick come to a job long after it
began; windows of 2 with runs of at most 1 keep a run shorter than a window, which the
code's budgets (minutes against hours) do too. In `payments` two calls make every race of two
transactions, and the third is what reviews, repeats or rewrites between them; an amount of 2
is covered by two payments of 1.

**Fairness.** A worker's tick is re-armed after each tick and its awaits settle (weak
fairness of each worker's step; crashes, faults, commands and the start of a renewal have
none). A sent renewal, a command and a hold settle. Time passes: strong fairness of
Tick, because a pending call with a bounded age holds the clock up only for a while.
In the store each statement is answered, with a result or an error, and the promise of a
finished drain wakes the flush that awaits it. In `workspace` calls are answered and timers
fire (weak fairness of each attempt's and each heartbeat's steps) and time passes. In the bridge and
the scheduler what a call awaits is settled, and the interval timer fires; the user's actions
have no fairness. `payments` states no liveness: a call has no loop, and what could keep it from its
answer, a ring of waiting calls, is the invariant RingsHaveADeletion.

## 4. Proofs

Every theorem holds for every value of the constants that satisfies the
assumptions beside them in the modules: for missions a finite set of objectives with
dependencies among them, disjoint token supplies, a positive TTL above `MaxAge`, natural
budgets; for the bridge natural limits; for the leases `TimesAssumption`; for the store a positive
queue bound and rows that are keys; for the scheduler a nonempty set of natural frequencies, a run
(`MaxRun`) shorter than a window and than the cooldown; for payments positive amounts and a sum (`Total`)
that is 0 of nothing and monotone. Three theorems add a hypothesis of their own, shown in the table.
Every invariant and every action property of the passing runs is stated by one of them, the refinement
of the ledger included.

| theorem | statement |
|---|---|
| `TypeCorrect` | `Spec => []TypeOK` |
| `TerminalWins` | `Spec => TerminalFrozen` |
| `MovesAreLegal` | `Spec => LegalMoves` |
| `CompletionIsEarned` | `"RESUME_CHECKPOINT" \notin Commands` implies `Spec => []CompletedMeansDone` |
| `OneOwner` | `MaxAge = 0` implies `Spec => []OneLiveLease` |
| `RetriesStayBounded` | `Spec => []RetriesBounded` |
| `CountedOnce` | `Spec => []NeverOvercounted` |
| `WorkIsOwned` | `Spec => OwnerDecides` |
| `MissionIsLedger` | `"RESUME_CHECKPOINT" \notin Commands` implies `Spec => KeepsLedger` |
| `ExecutionRun_proofs!TypeCorrect` | `Spec => []TypeOK` |
| `CompletedIsHonest` | `Spec => []HonestCompletion` |
| `GateIsNotBypassed` | `Spec => []ApprovedFirst` |
| `StepsInOrder` | `Spec => []InOrder` |
| `RunningIsDriven` | `Spec => []Driven` |
| `RetriesAreBounded` | `Spec => []RetriesPerDrive` |
| `WriteThroughStore_proofs!TypeCorrect` | `Spec => []TypeOK` |
| `MutationsReachTheTable` | `Spec => []NothingLost` |
| `QueueIsLatest` | `Spec => []LatestQueued` |
| `QueueStaysBounded` | `Spec => []QueueBounded` |
| `LastCallDecides` | `Spec => []Superseded` |
| `CommitsAreKept` | `Spec => CommitKept` |
| `DiscoveryScheduler_proofs!TypeCorrect` | `Spec => []TypeOK` |
| `InFlightIsRunning` | `Spec => []InFlightMeansRunning` |
| `NotifiedOnce` | `Spec => []DedupUnlessOverlapping` |
| `CadenceIsKept` | `Spec => Cadence` |
| `WorkspaceExecution_proofs!TypeCorrect` | `Spec => []TypeOK` |
| `LeaseIsKept` | `Spec => []LeaseKept` |
| `WorkspaceIsKept` | `Spec => []WorkspaceKept` |
| `PaymentSettlement_proofs!TypeCorrect` | `Spec => []TypeOK` |
| `PaidIsBackedHolds` | `Spec => []PaidIsBacked` |
| `CoveredIsPaidHolds` | `Spec => []CoveredIsPaid` |
| `EvidenceUsedOnceHolds` | `Spec => []EvidenceUsedOnce` |
| `OnePaymentPerKeyHolds` | `Spec => []OnePaymentPerKey` |
| `NoFurtherPaymentHolds` | `Spec => NoFurtherPayment` |
| `RingsHaveADeletionHolds` | `Spec => []RingsHaveADeletion` |
| `PaymentsKeepTheirInvoice` | `Spec => []Attached` |

**Missions.** The argument has five layers.

1. *Types and shape* (`MissionExecution_proofs`). TypeOK is not inductive: what a step
   writes depends on the phase of the attempt. `Typed` adds to it that an attempt which
   reads an objective has one, that its todo holds what its phase says, and the like. The
   document operations have lemmas of their own (each returns a well-typed document).
2. *Groundedness* (`MissionSafety_proofs`). A decision is committed later than it is
   taken, so each needs a witness that it still holds when it is committed. `Grounded`
   says, for the pending command and for each worker, what its copy still tells: a
   writer in `base` holds the state it derived (`Based`), a recovery pass only skips what
   is open (`SkipsOpen`), and a decision to complete rests on objectives that are all
   settled, which is stable because settled objectives stay settled or are promoted
   to VERIFIED (`Concluded`). The lemma `StepRow` reduces each action to the few things it
   may do to the row (`RowStep`).
3. *The properties* follow from `Grounded` and the step. `OneOwner` assumes that calls
   commit at the instant they read the clock: with late calls the property is really
   false (a renewal that commits after its lease expired and after another objective was
   acquired leaves two live leases). `CompletionIsEarned` assumes that nobody resumes from
   checkpoints, because such a resume completes missions that are not done (section 5).
4. *Ownership* (`MissionOwnership_proofs`). `ActorStep` says by whom the row is changed, and
   `ObjectiveStep` reads it objective by objective: kept, healed, dropped, taken, settled or
   restored. `Owned` adds to `Grounded` what an attempt in flight is worth to its objective. A token
   about to be acquired is on no objective (`Unrecorded`), so whoever finds a token recorded
   is its owner. A granted retry is still granted while its attempt owns the objective (`Granted`):
   the grant was read from an earlier copy, but only the owner counts retries. The usage an
   attempt will publish counts VERIFIED objectives and its own (`Counts`); VERIFIED is never
   left, so an old copy only undercounts. A restore whose basis is the row as it is may still go ahead
   (`RestoreStays`). RetriesBounded, NeverOvercounted and OwnerDecides follow.
5. *The ledger.* `Ledger!LedgerInit` follows from Init, and each way in which a step may
   change the row (`ActorStep`) is a step of the ledger or a stutter (`StepOfLedger`). As for
   `CompletionIsEarned`, nobody resumes from checkpoints.

**Bridge.** None of the properties is inductive. `Sound` relates a step's disposition to what the
plan found and to the user's decision (a gate that is open has a matching hand-off; an
executable step that needed approval was approved). `CallsInTurn` and `HandoffsInTurn` say that a
drive, and an open hand-off, sit behind steps that are all done or impossible, which
stays true because what is done stays done in the history. A drive's many outcomes
are covered by one lemma on `Drive`, used by all actions that call it.
`RetriesPerDrive` needs the attempts a drive may still make: `Metered` says that what was sent of a step
and the pairs of a call and an attempt number that are still open (`OpenAttempts`) are
together at most MaxRetries + 1 per drive started. They are counted as the cardinality of one set of
pairs; a sum over the calls would need an induction.

**Store.** A queue is seen as the set of its entries, one per key, and each queue operation has a lemma
that says what it does to that set. A step of a pass either goes on with what it carries or
captures a queue whole (`PassMove`), so nothing queued or in flight disappears except
what the step settled. `IInv` has the promises and what they rest on: `Numbered` (documents are
numbered as they are written, so the next is newer than every row), `RowsKept` (rows are never deleted),
`DeletedIsGone`, `CreatedOnce` (a mission row goes through the queue only while it is not yet in the
table, and in one place: that is why an older document never undoes a commit), `DrainAlone` (until a
flush runs passes of its own, the drain is alone) and `Overtaken` (what the drain carries is what
is served, unless the key is queued again behind it: without it, settling a pass could lose the newer
version). TLC checked `IInv` on instances of two keys first.

**Scheduler.** A run has many awaits and few effects: whatever it does, it goes on, ends or dies
(`RunEffect`). `Windows` adds what `Cadence` needs: a run is no older than the start that its job's window
counts from, and when the next start is due a window has passed since the last one (or runs
overlapped). A run ends by writing the next start a window ahead of the clock it read when it
began, which is why its age matters.

**Leases.** `Inv` adds to TypeOK, for each attempt, `InTime` (what a heartbeat has used of its round,
and what is therefore left of the lease), `Resting`, `LeaseLong` (the store's expiry is at least
what the heartbeat knows minus the time its confirmation took) and `ClaimLong` (the workspace row
outlives the misses still allowed). The arithmetic of a round is `TimesAssumption`: each
action either restores the whole distance or uses up a part of it that the round provided.

**Payments.** `IInv` has a part for each thing the code relies on. `Calls`: what a call remembers of its
request at each pc. `Unclashed`: rows that are committed or inserted differ in key and receipt, which is
what the unique index adds to the two lookups. `Told`: a call that goes on to answer OK has resolved
to a committed row with its key and its money. `Exclusive`: one transaction holds an invoice, and
it exists. From that lock follow `StillOpen` (an invoice found open stays open until the payment is
committed) and `ReadStands` (the total read is still the total when it is committed, since a
transaction writes payments of its own invoice only), and from the latter that an invoice is paid when
and only when it is covered. Without the lock `ReadStands` is false, and so is the theorem.
`Attached` (a committed payment has its invoice; TLC checked it on the run's instance first) follows from
the lock, too: a deletion looks for payments while it holds the invoice, so a settlement that inserts one
cannot be at work. For the rings, a call that is waited for and waits is at "insert", "restrict" or
"reviewInvoice" (`WaitedFor`). One at "insert" waits for a call that has inserted, which waits for
nobody. One at "restrict" waits for a verification at "reviewInvoice", and that for the holder of its
invoice, which is the deletion itself, since one transaction holds an invoice
(`DeletionMeetsReview`). So every ring contains these two.

Only model-checked: the liveness properties NothingStaysRunning, WorkspaceFreed,
PassesEnd, RunSettles and DueJobsRun, since liveness under fairness is beyond the prover. No theorem needs a
recursive definition.

## 5. Observations that are not runs

* A mission in CREATED may be executed by a worker, but the table has no COMPLETE from
  CREATED: its last pass throws at every tick. The model keeps this (`Close`).
* A CREATED mission moves to WAITING_FOR_PROVIDER although the table has no such move;
  LegalMoves names that exception.
* `recoverMission` records an activity event before the provider resume takes its
  baseline, so the first conditional write is refused unless the trail was full.
* An execution that outlives an un-renewed lease can be healed and repeated for ever:
  NothingStaysRunning promises that the objective is let go, not that it is verified.
* The guard of a pass against a second owner looks at the first RUNNING objective only
  (`MissionControllerService.ts:674`): with its lease expired and a later objective's live, the pass goes
  on and may block the mission under that owner, although the comment above (672-673) says "Do not
  select a second objective or complete the mission while that owner is active."
* `resumeFromCheckpoint` sends COMPLETE whenever it sees no PENDING or READY objective
  (`MissionControllerService.ts:1725-1728`). One may be RUNNING under an expired lease, be healed to READY before
  the patch, and stay open in a COMPLETED mission; or all may have FAILED, where :770-772
  promises that "none achieved" ends as FAILED. So CompletedMeansDone fails as soon as
  "RESUME_CHECKPOINT" is a command.
* `PostgresMissionStores.ts:200-204` explains why renewals need no flush by saying that
  `remember` supersedes the queued snapshot; `remember` touches the mirror only. Without failures
  the queue still never undoes a commit (CommitKept), because a row is saved through it only when
  it is created; after an upsert that failed but took effect, the re-queued older snapshot
  can overwrite a committed transaction.
* A failed upsert is queued again over a newer version written while it was in flight
  (`WriteThroughDocumentStore.ts:327`, where :324 says "keep the LATEST version queued"), so
  an older version may be queued: LatestQueued is promised until a statement fails.
* `flush()` runs `drainOnce` without announcing itself as the shared drain (:160), so a write during a
  flush starts the drain next to it and the older of two versions may land last, although
  :276-279 speaks of "ONE shared drain at a time". NothingLost excludes such flushes.
* `renewObjectiveLease` says that a late renewal "must never reclaim authority"
  (`PostgresMissionStores.ts:225`), but compares the expiry with the clock its caller read
  before the call: with `MaxAge` > 0 a renewal that commits after the expiry revives the lease.
* `drainOnce` says a write "never races a pending delete of the same key"
  (`WriteThroughDocumentStore.ts:310`), but a failed delete is queued again beside the write
  that superseded it, and deletes the row after it was stored. The other way round, an upsert that
  fails after its document was removed is queued again behind the delete and brings the
  document back. That is why `Superseded` and `NothingLost` are promised until a statement fails.
* The queue limit is applied by `write` only: failed upserts re-enter the queue on top of what
  was written meanwhile (:324 calls it "bounded"), so `QueueBounded`, too, is promised until a
  statement fails.
* Payments: deleting an invoice that has payments is refused by the foreign key alone, so that
  `deleteInvoice` throws a database error instead of returning a failure
  (`ContentAgencyApplicationService.ts:632`), and such an invoice cannot be "deleted by the operator" as
  `docs/pilot/MISSION-005-FIRST-PAYING-CLIENT.md:303-304` says of invoices. While a payment
  of the invoice is being verified, the deletion and the verification lock the two rows in opposite
  orders; the database fails one of them, and it may be the verification, although the deletion
  would have been refused anyway. `verify` returns INVOICE_NOT_FOUND for a payment whose invoice is missing
  (`PostgresPaymentSettlement.ts:315`), which only a row from before the foreign key can be; but
  returning from the transaction commits it, and the payment stays verified.
* Payments: `updateInvoiceStatus` reads the invoice and later upserts all of it without a lock,
  so it reopens an invoice that was paid meanwhile (`CoveredIsPaid` names the case by
  `byOperator`) and recreates one that was deleted. A repeated payment that covers an invoice an operator has
  reopened settles it again, although `payment-settlement.ts:88` says that "nothing was
  written". A retry is compared without its evidence: with an explicit key, or with
  receipts that differ in case and punctuation only, the same money with another receipt resolves to the
  first payment.
* Lease times: a heartbeat's known expiry (confirmation + TTL) is later than the store's
  (sending + TTL), so with slow replies a retry may be sent for a lease that is already over; no
  harm follows while `TimesAssumption` holds. A claim that failed transiently after it took effect is
  released by nobody and ends by its TTL.
* Bridge: approving a later waiting step while another is executing starts a second drive that
  executes the first again. `cancel` does not stop a drive, and an approval or a
  hand-off resurrects a cancelled run. Rejecting a step before the run has come to its gate is
  undone when it comes there (the gate re-arms the step). Completing the hand-off of an approval gate
  completes the step without an approval (and without executing it). Failed attempts are not
  in `run.budget`, so a resumed run may make more port calls than its budget, which
  `ExecutionRunService.ts:315-317` rules out. Checkpoints are written and never read.
* Scheduler: an exception of the item store or the notifier leaves its job in flight until the
  user's "Run now", which is then skipped and clears the flag (`InFlightMeansRunning` names the case).
  A skipped "Run now" clears the flag of a run that is at work, too, so that runs may overlap although
  the file's header (15-19) says "concurrent-run and duplicate-run protected"; overlapping runs
  may repeat a notification and lose the cadence window. A run's end restores the settings it copied
  at its start over the user's, and a skip loses a cancellation. The branch that cancels a queued
  job (206-210) cannot be reached, because `cancel` refuses a job that is not in flight.

## 6. Plan

Done: the document, the execution of one mission with its checkpoints, its ledger, the lease
heartbeat with the workspace lease, the write-through store with the mission rows, the bridge, the
scheduler, the settlement of payments, and thirty-six theorems. Next, in this order:

1. `MissionWorker`: several missions, `listActive`, the bound per tick, `stop`.
2. Discovered objectives in `MissionExecution`.
3. The other bridges of a cadence pass, the ecosystem's workflows, the loop engine.

Proofs to come: the ledger of a mission that is resumed from checkpoints, whose COMPLETED promises less;
what remains of OneLiveLease for a positive `MaxAge`; the safety of the modules above once they are written.

Not to be modelled: the adapters' text processing, planners, scoring and retrieval, HTTP
clients, user interface: no shared state and no concurrency of their own.
