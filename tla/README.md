# A TLA+ model of the ForgeGraph runtime

ForgeGraph compiles a resource language to a portable bundle and runs it with a
TypeScript runtime (`src/packages/runtime`) on several stores and hosts. The
compiler is a sequential translator; what is hard to get right is the runtime's
data path, where concurrent callers, sweeps and queue consumers share one store,
every step between two awaited calls can be overtaken, and processes die between
any two of them. This project models that path from the source, checks it with
TLC and proves its central properties with TLAPS.

## Inventory

| Part (source under `src/packages/runtime/src`) | State it keeps | Operations | What is hard | Correct when |
|---|---|---|---|---|
| Mutation engine, `engine.ts` | none of its own; a `CommitPlan` per call | create, update, delete, restore, transition; idempotent replay | plans are built from reads that are stale at commit | no lost update, unique keys, live references, declared transitions, one commit per key |
| Storage, `adapters/memory.ts` | tables, unique claims, receipts, outbox, documents, audit | `commit`, `commitAll`, document compare-and-set, outbox calls | all guards against durable state, all effects or none | the guards are enough for the engine's promises |
| Write fence, `portability.ts` | a document | `fence` | writers that read it before it changed | nothing is written behind it |
| Outbox and dispatcher, `dispatch.ts`, `transports.ts` | outbox rows: status, attempts, lease, deliveries | sweep, claim, send, progress, settle, redrive | overlapping sweeps, expired leases, crashes, partial failure | at least once, nothing forgotten, every row settles |
| Subscription inbox, `subscription-delivery.ts`; consumers in `functions.ts`, `dispatch.ts` | a delivery document per message and subscription | claim, external intent, completion, release | redelivery, lease takeover, lost replies | writes once, external effects not repeated |
| Transactions, `transaction.ts` | staged plans, read set | call, commit | reads spread over time | serializable |
| Schedules, `schedules.ts` | occurrence ledger, due index | tick, claim, complete | overlapping ticks, crash after claim | every occurrence runs, is skipped on purpose, or is retried |
| Work queues, `work-queues.ts` | one board document | enqueue, claim, start, heartbeat, complete, fail, cancel, reap | late completion after reaping | one owner per generation, attempts bounded |
| Workflows, `workflows.ts` | instances, waiters, inboxes, active list | start, advance, signal, sweep, cancel | signal against wait, duplicate start, crash between documents | one terminal outcome, no lost signal |
| Changesets, `changeset.ts` | changeset document | propose, approve, commit, resume | crash while committing | committed or not, never both |
| Read models, `readmodels.ts` | projection generations, contribution ledger | apply event, rebuild | reordered events, rebuild against events | equals the fold of the source |
| Realtime, `realtime.ts` | sequence, ring buffer | publish, resume | contention, gaps | no gap goes unnoticed |
| Effective dating and hierarchy, `temporal.ts` | none | interval and tree guards | concurrent moves | no overlap, no cycle |
| Deployment ledger, `deployment-ledger.ts` | a rollout document | acquire, renew, run and save, activate a grant, roll back, complete | lease takeover in the middle of a step, crash between effect and record | steps in order, recorded work kept and not repeated |

Calls go from hosts and HTTP to the engine, from the engine to storage; a commit
leaves outbox rows, which sweeps hand to queues, whose consumers call the engine
again with a delivery that completes in the same commit as the handler's writes.
Authorization, surfaces, codecs, HTTP and OAuth decide about one request at a
time and keep no shared state. `PROJECT.json` lists every component, those left
out with the reason, and every hazard with the line where it bites.

## Modules

| Module | Models | Instance and proofs |
|---|---|---|
| `Engine` | planning, idempotency, write fence and the atomic commit of one plan | `MCEngine`, `EngineProofs` |
| `RecordStore` | what the engine promises: a store on which requests take effect one at a time | instantiated by `Engine` |
| `Delivery` | the subscription inbox and its consumers | `MCDelivery`, `ConsumersProofs` |
| `Dispatch` | the outbox and concurrent sweeps | `MCDispatch`, `DispatchProofs` |
| `SerialStore` | what transactions promise: a store that changes one commit at a time | instantiated by `Transactions` |
| `Transactions` | transaction bodies on their private views and `commitAll` | `MCTransactions`, `TransactionsProofs` |
| `Schedules` | the occurrence ledger, the index, sweeps and ticks | `MCSchedules`, `SchedulesProofs` |
| `WorkQueue` | the board, its leases, and runners with their beliefs | `MCWorkQueue`, `LeaseProofs` |
| `WorkflowProcess` | what the workflow runtime promises: an instance runs its program as one process would, alone | instantiated by `Workflows` |
| `Workflows` | instances, drivers, signals, starts, the active list | `MCWorkflows`, `WorkflowsProofs` |
| `Projections` | aggregates kept from change events, and rebuilds | `MCProjections`, `ConsumersProofs` |
| `Changesets` | preview, approval and the two ways to commit | `MCChangesets`, `ChangesetsProofs` |
| `Rollouts` | a rollout, its lease and fencing token, controllers that take it in turn | `MCRollouts`, `LeaseProofs` |

Two proof modules serve two components each: `LeaseProofs` those that give out
leases, `ConsumersProofs` those that consume a subscription's events. A proof
module extends both components, so the names of one of them are its own:
`RolloutSpec`, `RolloutTypeOK`, `Null` in `Rollouts`, `DeliverySpec`,
`DeliveryTypeOK`, `NoDelivery` in `Delivery`, where the others have `Spec`,
`TypeOK` and `None`.

The modules meet at the store. `Transactions` takes over the claim guards of
`Engine` at the level of whole resources; `Workflows` and `Changesets` use the
receipts whose exactness `Engine` establishes (`OneCommitPerReceipt`), so that an
activity or a row under a receipt is one step there; `Dispatch` may hand over a
message any number of times, and `Delivery` and `Projections` assume no more than
that. In each module every step between two awaited storage calls is an action of
its own, and a process may die between any two of them.

### Engine

One tenant and one resource with a unique field `key`, a self-reference `ref`, a
lifecycle `status`, and `@versioned` and `@softDelete` on or off. `records`,
`claims`, `receipts` are the maps of `MemoryStorage`; `events` counts audit
entries (each with its change event); `issued` are the ids of `IdGen`. A caller
goes through the awaits at which others run:

- `Submit`: `withIdempotency` up to the receipt lookup; a hit is a `Replay`.
- `AuthorizedPlan` / `PlanRejected`: fence, reads and `planFor`. `CreatePlan`,
  `UpdatePlan`, `DeletePlan`, `RestorePlan`, `TransitionPlan` are the five plan
  builders; the reads of one planning are one step. Field validation, rules,
  permissions and suppression can only refuse a request, which is a caller that
  stops (`Crash`).
- `Commit` / `CommitRejected`: `commitSync`, its guards in the code's order
  (`CommitError`), its effects together (`ClaimsAfter` releases the old claim
  whoever holds it, as the code does).
- `RecheckReceipt`: the second receipt lookup after a `VersionConflict`.
- `SetFence`, `Crash`.

The request hash is abstracted to the request, a response to the record it
shows. A keyed reply is remembered with its request so that replies can be
compared with receipts. `Decorators` holds the decorator sets a run considers;
`LifecycleAssumption` includes the compiler's rule that a conditional unique
needs `@versioned` (E-EXCLUSIVE-005).

`RecordStore` is the promise. It has the records and the answers to keyed requests
and nothing else: no plans, claims, guards or fence. A request is one step on the
record as it is stored, and the rules (unique keys, live references, no dependents,
declared transitions, the expected version) are judged on the records themselves.
`Store` in `Engine` instantiates it with `db <- records` and `answers <- receipts`;
`RequestsAreAtomic` says that every `Commit` is such a step, for the request it
answers, and that no other action changes either.

### Delivery

One subscription. `doc` holds the `subscription-delivery-v1` documents, whose
version is the fencing token; a worker's `claim` is a `SubscriptionDelivery`
object. `ClaimRead`/`ClaimWrite` are `claim` around its awaited write,
`ExternalCheck`/`ExternalIntent` are `beforeExternal`, `ExternalCall` the
external binding, `Complete` the final commit (or the consumer's `putDocument`)
with its completion, `Failed` is `failed`. The reply of a write that took effect
can be lost at `ExternalIntent` and `Complete`; a lost reply to a claim is a
`Crash` after `ClaimWrite`. Leases are what is left of them; `Tick` lets time
pass. The queue may deliver any message to any idle worker at any time, which
covers duplication, reordering and delay. All external calls of one invocation
share one intent, so `called` counts deliveries that reached an external effect.
A handler that swallows the error of `beforeExternal` and completes without the
external call is not modelled.

### Dispatch

One tenant and one channel. `rows` is the outbox; a sweep's locals are the rows
it read, the row in hand, what it takes for served (`done`), what failed, and how
long ago it read its clock (`lag`): the code judges every lease of a sweep by
`now` of its start, so a slow sweep sees expired leases as live and takes shorter
ones. `Start`, `ClaimRow`, `Send`, `Progress`, `Settle`, `Finish` are the parts
of `sweep` between awaited calls; a failed storage call ends the sweep and is a
`Crash`. A send that reports failure may have reached the queue. Sweeps of one
dispatcher share its owner name (`OwnerOf`), as on the Node host, where a
request's sweep runs beside the periodic one. Subscriptions are served in any
order, which contains the order of the list.

### Transactions and SerialStore

`SerialStore` is the promise: single writes change one record, and a transaction
is one step in which everything it saw is what the store holds; keys stay unique.
`Transactions` is the code: a view (`tx[t]`) reads a resource's revision first
(`ReadRevision`), then its pages one by one (`ReadPage`), giving up over budget
(`OverBudget`); `Stage` checks unique keys in the view; `Commit` compares the
revisions (`ReadSetHolds`), and applies the folded plans in order, each finding
its key free (`ClaimsFree`, `ClaimsAfter`). A record is represented by its unique
key, a page holds one record, `Write` is a commit outside of transactions.
`Serial` instantiates the promise with `db <- store` and `ran <- Ran`, what each
committed transaction saw and left.

### Schedules

One tenant and one cron source; the recurrence is a set of instants. A tick's
locals are the clock it was given, its copy of the ledger and whether that copy is
still the stored version (`fresh`), the occurrences to visit and the one in hand.
`ReadLedger`, `Skip`, `Claim`, `Call`, `Complete`, `LoopEnds` are `tickScoped`;
`SweepTick`, `Record` and `UpdateIndex` are `sweep` around it, `OperatorTick` is
`tick`, `Track` is `track`. The five retries of `complete` and of `updateIndex`
always succeed.

### WorkQueue

`task` and `runner` are the board, one compare-and-swap document, so operations
are atomic but for the clock, which is read before the write: an operation judges
leases by a time up to `MaxLag` old, on a board not written since (`quiet`).
`hand` is what runners believe: a claim is added when its answer arrives, and a
runner calls back at any time later. Instants are kept as time left.

### Workflows

An instance goes through a compiled program (`Program`), a constant, of which
`ProgramAssumption` says what `compile` guarantees: the ways from node to node
(`Successors`) make no loop, since the language has none, and the error of a call
that nobody catches ends the instance. A driver
(`dpc`, `drv`) loads it, and goes round by round: take up the node (`Round`), call
an activity under its receipt (`Replay`, `Perform`), register a waiter, read the
inbox, unregister, `Save` by compare-and-swap, `Leave` the active list, `Reload`
after a lost save. `start` looks up the key and then writes four documents, each in an
action of its own: the instance (`Create`), the key document (`PutKey`), the active
list (`Register`) and the registry of tenants to sweep (`Enroll`, kept in `enrolled`);
`StartDies` falls between any two. `cancel` may be called by anyone who knows the id
(`Known`): start returned it, or another call with the same key read it from the key
document, which is there before the instance is listed. `late` notes the instances
that were over when start listed them. `signal`
puts the message into each wait step's inbox and wakes the waiters it read;
`wanted` are instances that a start or a signal is about to advance. `Park` stands
for provider drivers writing their state, which moves the version under others.
`Crash` stands for every way a driver stops short: it dies, its activity dies of a
defect (`workflows.ts:426`), or the retries of a list document are used up. An activity
that succeeds is one that commits something, and so leaves a receipt along with its
commit; functions that commit nothing are not modelled (see below).

`WorkflowProcess` is the promise. Each instance has a state (status, position,
consumed messages, history) and goes on by the program: `After` is where it can be
next from its node, given the activities performed, the signals that came and the
timers that are due. A call can be gone past only when its activity was performed
and can fail at any time; a wait is left by a signal not used yet, or by its due
timeout, also when a signal came in the meantime; `Cancel` ends a live process. There
are no drivers, copies, versions, receipts or lists. `Process` in `Workflows`
instantiates it with the instances' documents but for their versions (`View`), with
`performed <- effects` and `due <- elapsed`; `InstancesRunAlone` says that whatever
the drivers do is a step of it or changes nothing it knows of. It contains
`OverIsFinal`, which has a theorem and no run of its own. An activity may commit
after the instance was cancelled, or after another attempt at it failed and ended
the instance: `Perform` asks for the position, not for a live status.

### Projections

A record is its revision and its contribution to a group. `Change` commits on the
source and leaves an event; `ReadMeta`, `ReadSource`, `Apply` are one round of
`applyEventOnce`; `StartRebuild`, `Reserve`, `Scan`, `WriteGroups`, `Publish` are
`rebuild`. Events stay pending until they are acknowledged and may be applied
again at any time, in any order. All writes to an active generation also write
the meta document, whose version therefore guards them.

### Changesets

The changeset document and what its rows did to the records (`applied`). A row is
abstracted to whether it can be committed now (`blocked`): one that expects a
revision is blocked for good once the record has moved, any other comes and goes.
The hash of a preview is the set of rows that planned. `Commit`, `Plan`,
`CommitAll`, `SaveOutcome` are an atomic commit; `Begin`, `Row`, `SaveProgress`,
`SaveFinal` a resumable one.

### Rollouts

`doc` is the rollout document, as `open` leaves it at first. A controller loads it,
checks it and writes it back by compare-and-swap in separate steps: `AcquireLoad`
and `AcquirePut`, `RunLoad` and `RunPut` around the start of a step, `SaveLoad` and
`SavePut` for a checkpoint, `FailLoad`/`FailPut`, `DoneLoad`/`DonePut` at its end,
`ActivateLoad`, `Activated`, `ActivatePut` around the activation of a grant, and
likewise for `rollback` and `complete`. `fresh` says that nobody wrote the document
since it was loaded. `Renew` runs beside the controller's own operation and can
make its write fail. Expiry is the flag `lapsed`, which may come true at any time:
nothing that is checked rests on clocks, only on the token. A step's work is
`NUnits` units with a checkpoint after each; what it does besides is the caller's.

## Runs

| Run | Instance | Shows |
|---|---|---|
| `engine` | 2 callers, 2 ids, 1 key, 3 statuses, 1 idempotency key, the fence, 2 decorator sets, records with up to 2 commits before a request | `ClaimsExact`, `DanglingOnlyByRestore`, `VersionCountsEvents`, `OneCommitPerReceipt`, `RepliesAgree`, `RequestsAreAtomic` |
| `unversioned_unique` | as `engine` without `@versioned`, up to 4 commits | `UniqueKeys` fails |
| `delivery` | 3 workers, 2 messages (one in the legacy ledger), 2 contents, lease 2, up to 6 writes of a document | `AppliedOnce`, `CalledOnce`, `OutcomeSettled` |
| `dispatch` | 2 sweeps of one owner, 2 subscriptions, lease 1, sweeps that last up to 3, 1 crash, redrive; fair sweeps | `DeliveredEverywhere`, `ProgressKept`, `EveryRowSettles` |
| `schedules` | 2 ticks at once, 4 in all, instants 1, 2, 4, window 3, both policies | `OneRunAtATime`, `RunsOnce`, `NoneForgotten`, `IndexWakesInTime` |
| `work_queue` | 2 tasks of different priority and needs, 2 runners, lease 2, clocks read up to 1 early, 2 attempts, 5 entries of evidence | `BeliefIsTrue`, `EvidenceExplains`, `TerminalIsFinal` |
| `workflows` | 2 starts with one key, 2 drivers, 1 message, a program with a choice, a call, two waits with timeouts, a sleep, return and fail; 1 fault | `ActivityOnce`, `SignalConsumedOnce`, `NoStrandedSignal`, `ActiveList`, `OneStartPerKey`, `InstancesRunAlone` |
| `workflows_liveness` | 1 instance, 2 drivers, a call and a wait, 1 fault | `Finishes` |
| `projections` | 2 records, 2 groups, 2 changes, 2 appliers, 2 rebuilds, 2 generations | `GroupsAddUp`, `NoChangeLost`, `GenerationsApart`, `RevisionsForward` |
| `changesets` | 2 rows, one of them guarded, both modes, 2 callers, 4 commits, versions up to 7 | `RowOnce`, `ReportIsTrue`, `AtomicOutcome`, `OutcomeStands` |
| `transactions` | 2 resources with 3 records, 2 keys, 2 transactions with up to 2 mutations together, 2 single writes | `ClaimsExact`, `GuardedSnapshots`, `Serializable` |
| `rollouts` | 3 controllers, 3 steps of 2 units, 1 grant, 3 leases | `StepsInOrder`, `HolderKnows`, `WorkKept` |

Bounds. Two callers and two ids are what the races of the engine need: one
caller's plan made stale by the other, one record taking the key or the target
another gives up. `MaxCommits` stops new requests for a record, not those under
way, so versions reach 4. `Focus` explores requests without a key and the fence
side by side with keyed requests that touch no unique value, not in every
combination; what they share, the commit, is the same action. Three workers on one
message allow a takeover of a takeover; `MaxWrites` 6 leaves room for claim,
takeover, intent, completion and a release. In `dispatch` `MaxLag` exceeds
`LeaseMs`, so leases expire under running sweeps and a second sweep claims the
row; `MaxAttempts` 2 lets rows die and be redriven. In `schedules` the window
leaves the first instant too old for the last tick, and four ticks allow an
overlap before and after a crash. In `work_queue` one task may go through two
attempts to its end while the other competes for claims and expires along with it.
`projections` lets two appliers and a rebuild, or two rebuilds and an applier, run
into each other (`MaxBusy`). `changesets` allows a preview, an approval, two
commits beside each other and two more after them. In `transactions` a snapshot
of two pages can be cut by a write, two transactions can read what the other
writes, and one can release a key and take it again. In `rollouts` three leases allow
a takeover of a takeover, and a controller that comes back after a crash. The theorems
cover all other sizes of the modules that have them.

`CHECK_DEADLOCK FALSE` stands where a bound on histories (ticks, versions, crashes)
lets everything come to its end.

Fairness. `dispatch` and `workflows_liveness` assume that sweeps start
again and again: every five seconds on Node (`hosts/node.ts:195`), by cron on
Cloudflare (`hosts/cloudflare.ts:317`), by EventBridge on AWS (`hosts/aws.ts:265`),
besides the sweep after a request. A started sweep or driver goes on to its end
unless it dies, and time passes. Nothing is assumed of crashes, redrives,
cancellations, signals or of the success of sends. The sweep's loading of one given
instance is strongly fair while that instance is listed and its tenant registered
(`Reach`): `sweepAll` goes through the tenants with pending outbox rows and those of the
registry (`hosts/compose.ts:91-94`), of each tenant through the whole active list, and an
instance is not passed over because all drivers were busy when it was looked at.
`Finishes` speaks of such instances, on hosts that sweep by `sweepAll`; without
`enrolled` in it TLC finds the start that died before the registry was written. The
timers of AWS and Cloudflare sweep tenants with pending outbox rows only
(`hosts/aws.ts:263-267`, `hosts/cloudflare.ts:308-319`), since their native drivers
keep the instances' timers.
`EveryRowSettles` is checked for the sweeps of one dispatcher, which may outlast
their leases (30 s in the hosts). Of two dispatchers whose sweeps are slower than
their leases, each may keep failing the owner check of the other: TLC then finds a
row that is claimed in turn forever, so with several owners leases have to outlast
sweeps. `Finishes` needs waits with a timeout; one without waits for its signal.

## What the modelling found

One statement of the repository is refuted by a run of its own; `PROJECT.json`
quotes it.

- A resource with `@unique` and without `@versioned`: two updates planned from
  the same record both commit, the second releases the claim of the key it read,
  which a third record has taken in the meantime, and a fourth write takes that
  key again. Two records then share it. With `@versioned` uniqueness is proved.

Others showed while properties were being stated; the properties that are checked
are worded so as to hold of the code as it is, and these are what they leave out.

- Restore: A references B; A is soft-deleted, B is deleted, A is restored
  (`engine.ts:866` plans no reference guard). A is live and its reference is not,
  against `docs/language.md:100`. `DanglingOnlyByRestore` shows that this is the
  only way.
- Fence: a plan built before the fence commits after it (`engine.ts:457`); the
  commit does not read the fence, while `docs/provider-cutover.md:23` has writes
  stop with it.
- Dead rows: the decision to park a row uses the attempts read at the sweep's
  start (`dispatch.ts:93`); after a redrive reset them, a slow sweep parks the row
  at once.
- Schedules: a tick that meets the running claim of an overlapping one records
  its occurrence as skipped, also when it is the very occurrence that is running;
  if that run then fails it is not run again, although `docs/operations.md:35`
  has a failed occurrence retried. A crash after the claim leaves `running` set,
  and later occurrences are skipped. An operator's tick before the first record
  looks back one minute only and may jump over earlier instants. So
  `NoneForgotten` counts skipped occurrences as accounted for, and begins at the
  latest instant a first tick looked from.
- Workflows: two overlapping starts with one key both create and run an instance
  (`workflows.ts:232` ignores that the key document exists); `OneStartPerKey`
  speaks of starts that did not overlap. A start that dies before the active list
  is written leaves an instance no sweep finds; one that dies between the list and
  the registry (`workflows.ts:233-235`), as the first of its tenant, leaves a listed
  instance no sweep reaches, and a repeated start returns at `workflows.ts:227` without
  mending either. A driver that dies between the final save and the list leaves a
  finished instance on it. So does a cancel that comes between the key document and the
  list (`workflows.ts:232-233`): it takes nothing off, start then lists the cancelled
  instance, and nothing takes it off later, although `workflows.ts:342` calls the list
  the ids "that have not reached a terminal status" and `portability.ts:111` counts it as in
  flight. `ActiveList` leaves out such instances (`late`).
- Activities: the header (`workflows.ts:9-11`) has a repeated step answered from its
  receipt. A function that commits nothing, or nothing under its key, leaves none
  (`functions.ts:108`) and is invoked again after a crash or a lost save; `ActivityOnce`
  is about activities that commit.
- Changesets: the comment at `changeset.ts:193` has the commit re-verify that the
  approved hash still describes what would be done, as does
  `specs/portable-profile/operations.md:43`; the plans are made anew but never compared with the
  hash. "failed (atomic mode: nothing persisted)" (`specs/portable-profile/operations.md:40`) is not
  so when two commits overlap or one dies: the second finds its rows blocked by
  the first and may save "failed" first. An approval or a preview during a commit
  makes the outcome's save lose, and the changeset can be committed again. A
  commit that dies while the document says "committing" cannot be called again.
  `AtomicOutcome` names these conditions (`disturbed`).
- Rollouts: the comment at `deployment-ledger.ts:144` has it that "a retry after a
  crash does not activate twice". The grant is activated before it is recorded, so a
  controller that dies, loses its lease or has its write refused (by its own `renew`,
  too) in between leaves a grant that is activated again; a controller that has lost
  the lease may even activate one that its successor has recorded. `HolderKnows`
  says what holds: it is recorded once, and the holder of the lease does not
  activate what is recorded. A failure is recorded under an expired lease that
  nobody has taken over. `acquire` and the steps do not look at the state of the
  rollout: one that was completed or rolled back can be taken up again.
- Transactions: a record that takes a key which a record staged after it
  releases is refused at commit although the view accepted it. This costs a
  retry that can never succeed, not consistency.

## Proofs

The theorems hold for every number of callers, records, keys, workers, messages,
sweeps, owners and subscriptions, tasks, runners, attempts, transactions, rows,
commits, ticks, occurrences, events, appliers and rebuilds, instances, drivers,
controllers, steps, units of work and grants, and for every workflow program
without loops, under the named assumptions of the modules. Every safety property
the runs check is proved. Liveness (`EveryRowSettles`, `Finishes`) needs fairness and
stays with TLC.

`EngineProofs`. Assumes `LifecycleAssumption`, `NullAssumption` (null is no
record, plan, ...), and for claims, versions and lifecycle `VersionedResource`:
every decorator set considered has `@versioned`. `ClaimsExact` is not inductive:
a commit replaces claims computed from an earlier read. `IInv` adds that plans
have the shape their builder gives them (`PlanShape`), that ids are fresh for
creates (`IdsFresh`), and `PlanFresh`: the stored version never falls behind the
plan's, and equal versions mean equal records. Then a commit that passes the
version guard replaces exactly the record it was planned from, which gives
`ClaimsAreExact`, `KeysAreUnique`, `NoLostCommit`, `PlansSeeCurrent`.
`LifecycleIsRespected` adds that planned status changes are declared
(`PlansLegal`), and `ReferencesHoldUnlessRestored` that a plan guards the
reference it stores or keeps the one its live record had (`PlansReferSafely`):
the guards are checked again in the commit, so a delete cannot slip between. The
receipt theorems need no versions: `ReceiptInv` joins `OneCommitPerReceipt` and
`RepliesAgree` with the fact that only an idle caller holds a reply.

`EngineImplementsStore` is the refinement of `RecordStore`, again with
`VersionedResource`. `PlansAnswer` says that a plan does what its request asks for,
judged on the record it was built from, and names every other record that the
rules speak of. At the commit that record is the stored one (`CommitSeesCurrent`),
so the plan's change is the request's on the store; what is left are the rules
about other records, and each follows from a guard: a free claim means that no
other record holds the key because claims are exact (`CommitKeyFree`), the
reference guards are the live references, an empty set of dependents is the
restrict rule, a missing receipt is an answer not yet given. Every commit moves the
record (`CommitLeavesTrace`), so none hides as a stutter. The statement contains
`LifecycleRespected`, which has a theorem and no run of its own, and it needs
`@versioned`: without it two plans built from one record can both commit.

`ConsumersProofs`, subscription inbox. `DeliveryInv` adds to the properties that tokens never run ahead of
the document and no two are current (`TokensFenced`), and what a current token
says of the document (`TokenStatus`): running before the intent, external after
it, and never complete. Every write is a compare-and-set on the token, so a
step of one worker makes all other tokens of that message stale (`OneTokenHolder`).

`DispatchProofs`. `IInv` adds `SweepsHonest`: what a sweep read as delivered or
counts as done was given to the transport; and `SettledUnleased`: a delivered
row has no lease, so time does not change it.

`LeaseProofs`, work queues. The invariant that carries `BeliefIsTrue` is that a belief
never outlives the board's lease at the same generation, that no generation is
handed out twice, and that operations with a clock read early see no lease as
expired that a runner still counts on (`quiet` bounds how early, since the board
has not been written in between). `EvidenceExplains` is inductive with the
relation of generations and claims in the history, `AttemptsLeft` by itself.

`LeaseProofs`, rollouts. `RolloutInv` joins `StepsInOrder` and `HolderKnows`, which
are not inductive, with where a controller's locals come from (`PhaseOK`), with the
tokens (`TokensOK`: the lease has the last one handed out or none, no controller a
later one, no two controllers the same, so one controller holds the lease at most,
`OneHolder`), and with what a load has checked: while nobody has written the
document since, the controller still holds the lease, the step it is about to start
is still ready and its checkpoint is the recorded one (`FreshOK`). A write succeeds only from a
fresh copy, so it is the holder's and recorded work is only added to
(`HolderWrites`), and it makes every other copy stale. Expiry needs no invariant of
its own: a lapsed lease changes what may be done and nothing that is known.

`WorkflowsProofs`. Assumes `WorkflowsAssumption` and `ProgramAssumption`.
`Base` says that the copy a driver holds is a state its instance was in, the
present one when the versions are equal, and that the instance is ahead of it on
the same way (`DriversOK`); that a document under way has behind it only steps
before its own, one message consumed at each wait (`InstOK`); that nobody has met an
instance that neither is listed nor has its key document naming it (`StartOK`, with
`Met`). The program's
rank makes "ahead" and "before" orders. Every step then leaves an instance alone
or takes it on by one transition (`InstStep`), which gives `OverIsFinal`;
`SignalConsumedOnce` is part of `InstOK`. On this rest four invariants.
`EffectsOK`: a step is passed at most once, so every driver that calls its activity
uses the same key, and its receipt tells whether the activity was performed.
`ListOK`: only a final save ends an instance, and the driver that made it is the
one that takes it off the list, unless start has yet to list it; that instance is then
in `late`. `KeysOK`: a start that goes beyond its key's document
leaves that document behind, and a later start finds it. `SignalsOK`: whoever
can miss a signal is followed by somebody who cannot. A waiting instance with a
message it has not consumed has a driver that will look again (`Minding`: a save or a
reload is before it, after which it takes the instance up anew, or its copy agrees
with the instance and the inbox is still to be read), is wanted, or lies ahead of
the message's delivery (`Pending`); and one that is not among the waiters is in the hands of a driver that
has seen its wait can end (`Registered`). Registration precedes the reading of the
inbox, and the inbox is written before the waiters are read, which is why one of
the two finds the other. The run `workflows` cuts its state space with `StartsFirst`:
two starts race only before anything is driven, and no message is sent to an instance
that start has listed and not yet done with, or died over. The theorems cover what
that leaves out.

`WorkflowsImplementProcess` is the refinement of `WorkflowProcess`. A driver decides
in one step where the instance is to go and saves it in a later one, while others
act. `RunOK` says that what it decided stays right: the program leads from its copy
to what it will save, with the activities, signals and timers of the moment
(`Led`). These only grow, so that no way once open closes (`WaysStayOpen`), and at a
save that is not lost the copy is what is stored (`SaveLeads`). Its other half is
about drivers that lag behind: of a live copy at a call, either the instance is still
at that call or its activity was performed (`CallMade`), because the instance goes past
a call only by a save that was led there (`PositionStays`). So an activity that
commits, and then was not performed before, is that of the call the instance is
at (`PerformPerforms`).

`TransactionsProofs`. `IInv` says of every view that its guard, while it holds,
makes the pages read so far the stored ones (`Guarded`), that the staged records
and only those differ from what was read (`Overlaid`), that the view has unique
keys, and that no revision read is ahead of the store's (`Behind`); of the store
that keys are unique and claims exact. A commit whose guards hold then replaces
the store by the view on every resource it read, which is `Transact` of
`SerialStore`; every other step is a `Write` or a stutter.

`ChangesetsProofs`. `IInv` says of every call (`CallOK`) that its copy is not
newer than the document, and that while it is of the same version the document
has no status and no committed row that the copy does not have; of the document
and of every copy that nothing is reported before an approval and only a
resumable changeset is ever half committed (`DocOK`); that what is reported was
applied (`Reported`), and that a resumable row was applied exactly when it has
its receipt (`Receipted`). `AtomicCommits` needs `Undisturbed`: unless a commit
was disturbed, there is one at a time, none on a changeset that is over, and the
rows are applied once, by a commit that has saved its outcome or is about to.

`SchedulesProofs`. For the skip policy, `IInv` says that a copy of the ledger that
is not out of date agrees with it (`CopiesAgree`), that what ran is recorded or
still claimed (`RanKnown`), that what a tick may still claim did not run
(`LoopOK`), and that a tick with a claim is the only one (`ClaimOK`); every write
of the ledger puts all other copies out of date. `NothingIsForgotten` holds under
both policies: what a tick has passed over ran or is in its copy's list of
skipped occurrences, and that list is in the ledger from its first claim on
(`Accounted`). `TenantsWakeInTime` carries the index entry a sweep holds.

`ConsumersProofs`, read models. A record is settled when its present revision may go unheard
from now on: its event is acknowledged, or a ledger in use holds that revision
and will call the event stale (`Settled`). `IInv` says that the active ledger is
right about every settled record (`ActiveMatches`), and that an applier about to
write, unless its write will lose, and a rebuild that may still publish have what
is settled (`WriteOK`, `RebOK`); that a ledger is never ahead of the record and
true of its present revision (`LedgerTrue`), that generations not reserved are
empty (`FreshEmpty`), and that copies of the meta document are not ahead of it
(`AppOK`). Then an unsettled record has its event pending and not stale, which is
`NoChangeLost`. `GroupsAreSums` rests on what a sum does when one summand changes.
`Total` adds up the records one after the other; that there is such a function, that
it yields integers and that changing one value changes it by the difference
(`SumsExist`, `TotalInt`, `TotalOfChange`) are facts for every number of
records. The library states induction with an operator as a parameter, which the
provers cannot instantiate, so these lemmas take the least record at which the
claim would fail (`LeastOf`, from the well-founded order of the naturals) and
refute it. `AdjustedSums` then has an event's subtraction of the old contribution
and addition of the new one keep groups and ledger in step; a rebuild writes the sums outright, and
`GroupsOK` says it for every generation that is in use or can still be published.

## Plan

Done so far: the data path (`Engine`, `Delivery`, `Dispatch`), transactions,
schedules, work queues, workflows, projections, changesets, rollouts; the refinements of
`RecordStore` by `Engine`, of `SerialStore` by `Transactions` and of
`WorkflowProcess` by `Workflows`; and the proofs of
all safety properties that the runs check.
Next, in order:

1. Composition of `Dispatch` and `Delivery` against an abstract channel that
   applies each committed message once per subscription, with the refinement proved.
2. The map step of `Workflows` with its child receipts and leases.
3. Interval and tree guards and sequence allocation in `Engine`.
4. `Realtime` (sequence numbers, ring buffer, resume).

## Not modelled

Storage adapters other than the memory adapter (they translate the same plan to
one provider transaction), several tenants (every key is prefixed by its tenant),
list and find queries, authorization, blobs, secrets, HTTP, OAuth, telemetry, the
compiler and all client code. Of the modelled components: calendar arithmetic,
validation that can only refuse a call, the workflow map step, activities that leave
no receipt, caches and extrema
of read models, absence guards and the ordering of plans by references in
transactions, `atomic`. Most of the repository by lines is its console, its
compiler and its provider adapters: user interface, translation and I/O, which have
no protocol state of their own beyond what is modelled. `PROJECT.json` gives the
reason for each.
