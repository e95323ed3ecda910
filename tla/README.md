# AtomixOS: TLA+ models and proofs

AtomixOS is an immutable gateway OS with A/B system slots and one durable directory, `/data`. Almost all of its own
logic is the *provisioning* path: an unprivileged HTTP service or command line stages a configuration, a root worker
promotes it on `/data/config`, activates services for it, commits or rolls back, and answers the client. The other
part with logic of its own is the A/B update path. This directory models both, checks them with TLC and proves their
main safety results with TLAPS.

## 1. The system and its parts

Paths are below `src/`; `P/` is `scripts/atomixos_provision/src/atomixos_provision/`.

| Part | State | Operations | Hard because |
|---|---|---|---|
| Configuration root (`P/activation.py`, `P/apply_transaction.py`, `P/state.py`) | `/data/config`, `config-candidate`, `config-rollback`, promotion marker, rollback-activation marker, apply receipt, `managed-users.json` | promote, activate, commit, roll back, discard, recover | a kill or power loss between any two file operations; recovery itself is interruptible |
| Apply worker and units (`P/provision.py`, `P/server.py`, `modules/first-boot.nix`) | the claim under `/run/.../active`, results | claim, verify, render, apply, publish, finalize | finalizers before and after the worker, retry timer, boot recovery |
| Staged queue (`P/staging.py`, `P/provision.py`) | `.sequence`, reservations, ready markers, job directories, results | reserve, refresh, stage, publish, claim, abandon, wait | several client processes, expiry by wall clock, unlocked cleanups |
| Job manager (`P/jobs.py`, `P/domain/config/coordinator.py`) | in-memory jobs | submit, monitor, evict, recover after restart | the process may restart while the job runs; errors after publication |
| Activation (`P/activation.py`, `modules/first-boot.nix`) | deadline, service states | hook, restarts, settle, report, health checks, rollback | services come and go under one deadline |
| Managed accounts (`scripts/apply-users.py`) | system accounts, the record in the root | create, update, lock | the record moves with the trees; commands fail half way |
| Quadlet rendering and sync (`P/quadlet.py`, `P/quadlet_sync.py`, `P/provision.py`) | two unit directories, a manifest in each, two service managers | render, copy, remove, stop, restart | killed anywhere; the tree is swapped underneath a sync that outlives its hook |
| LAN gateway (`scripts/lan-gateway-apply.py`, `P/config.py`) | dnsmasq, chrony, networkd and host files | validate, replace, restart | the same interruption; two programs validate the same settings |
| First boot (`scripts/first-boot.sh`, `P/server.py`) | sentinel, seed | discover, import, confirm slot | runs beside boot recovery and the apply worker, partly without the lock |
| Export (`P/export_worker.py`) | requests, claims, results, acknowledgements | admit, claim, export, publish, acknowledge, expire | clients vanish, the worker dies between two files |
| Authentication (`P/auth.py`, `P/provision.py`) | nonces, used-nonce markers, signers | challenge, guard, verify again in the worker | duplicates, restarts, keys revoked while a job waits |
| Partial updates (`P/partial_config.py`, `P/domain/config/`) | none of their own | route to operation, merge, derive again in the worker | the configuration changes in between |
| A/B slots (`scripts/boot.cmd`, `nix/uboot*.nix`, RAUC, `scripts/os-upgrade.sh`, `scripts/os-verification.sh`) | boot order, try counters, slot images | select, install, verify, mark good | power loss and failing images at every step |
| Configuration language (`P/config.py`, `P/config_builder.py`, `P/bundle.py`) | none | parse, validate, render | pure functions |
| UI, firewall, logging, Nixstasis client, image build | see `PROJECT.json` | | |

How they interact: a client calls the staging functions (in process, or through the API service); the queue directory
is the only channel to the worker, and the results directory the only channel back. `atomixos-provision-apply.path`
starts the worker when a `*.ready` marker exists. The worker runs the activation sequence (systemd units such as
apply-users, quadlet-sync, lan-gateway-apply) for the new root. At boot `atomixos-config-recover` repairs the root
before any unit that reads it.

## 2. Modules

| Module | What it is |
|---|---|
| `AtomicApply` | abstract specification: one stored configuration, replaced in one step or not at all, and a truthful verdict |
| `ConfigStore` | the durable root with every rename, removal, marker and receipt write as a step, and every process that touches it |
| `MCConfigStore` | its instances for TLC (which removals may stop half way) |
| `ConfigStoreProofs` | inductive invariant, safety theorems, `ConfigStore` implements `AtomicApply` |
| `JobLine` | abstract specification: a bounded line with tickets, served in order, with patience, truthful results and final reports |
| `StagedQueue` | the job queue in `/run/atomixos-provision`, its clients, worker and waiters |
| `MCStagedQueue` | symmetry set for TLC |
| `StagedQueueProofs` | inductive invariant, safety theorems, `StagedQueue` implements `JobLine` |
| `ABBoot` | slots, try counters, confirmation, updates and power failures of a device |
| `MCABBoot` | its instances for TLC |
| `ABBootProofs` | inductive invariants and safety theorems of `ABBoot` |
| `FirstBoot` | `first-boot.sh`, seed import and `complete-initial` beside the apply worker |
| `MCFirstBoot`, `MCDeviceBoot` | its instances; the second together with the slots of a CM3 |
| `DeviceBootProofs` | invariants and theorems of `FirstBoot`, and those of `ABBootProofs` for the composed device |
| `ManagedUsers` | `apply-users.py` and its record |
| `QuadletSync` | rendering to Quadlet units and `quadlet-sync.service` |
| `NetworkSettings` | the two validators of the network section, as operators |
| `LanGateway` | `lan-gateway-apply.service` on top of `NetworkSettings` |
| `MCActivationUnits` | `ManagedUsers`, `QuadletSync` and `LanGateway` together |
| `ActivationUnitsProofs` | an inductive invariant for each of the three, the validators, and the theorems |
| `ExportQueue` | the configuration export queue |
| `JobManager` | the job table of the API process |
| `MCApiQueues` | `ExportQueue` and `JobManager` together |
| `ApiQueuesProofs` | inductive invariants, theorems and action properties of both |
| `SignedApply` | nonces, guard, and the worker's own verification |
| `PartialUpdates` | the typed routes, the merge of nested tables, and the worker's derivation |
| `RequestProofs` | inductive invariants and theorems of `SignedApply` and of `PartialUpdates`, for every instance |
| `ActivationSequence` | `run_activation_sequence` and `complete_reapply` step by step |
| `MCApplyRequest` | `SignedApply`, `PartialUpdates` and `ActivationSequence` together |
| `ApplyRequestProofs` | `RequestProofs` for both of its instances there, and the invariant of `ActivationSequence` |

`ConfigStore` and `StagedQueue` describe the two halves of one apply and meet at the claim: what `StagedQueue` calls
`ApplyCommits` and `ApplyFails` is, in detail, the whole of `ConfigStore`; what `ConfigStore` calls `ClaimNextJob` is,
in detail, the claim of `StagedQueue`. The other modules take one of their steps apart: `ActivationSequence` is the
activation step of `ConfigStore`, `ManagedUsers`, `QuadletSync` and `LanGateway` are units its hook starts,
`SignedApply` and `PartialUpdates` decide whether and to what the worker applies a claimed job, and `JobManager` is
the client of `StagedQueue` inside the API. `PROJECT.json` maps every definition to the lines it models.

### ConfigStore

State. `root`, `cand` and `rback` are the three directory trees. A tree is a record of what the code looks at: does it
exist, which `config.toml` it has, `.first-config`, the apply receipt (job and phase), the managed-user record, and
whether all its other files are there. `marker` and `raMarker` are the two marker files. `claim` and `results` are the
job under `active/` and the published results, both lost with power. `live` and `activated` are the accounts and the
services: which managed accounts are usable, and for which configuration the activation sequence last ran. `pc` is the
next file operation, `who` the process that performs it, `via` the caller a shared subroutine returns to; `reapply`,
`restored` and `merged` are local variables of the Python code that live across file operations. `committed` and
`commits` are history.

Actions. One per file operation, named after the function and what it does: `RecoverInterruptedApply` and the actions
up to `DiscardMarker` are `recover_interrupted_apply`, `cleanup_rollback`, `recover_config_root`, `restore_rollback`
and `discard_initial_config`; `SettleBoot` to `ClearRollbackActivation` are `_recover_staged_apply`; `ClaimNextJob` to
`MarkCommitted` are `apply_staged_job`, `atomic_promote`, `atomic_promote_initial` and `complete_reapply`.
`StartService` and `DrainDone` are the apply unit, `BootUnits` the boot units after `atomixos-config-recover`. Three
faults may strike between any two steps: an exception inside `apply_staged_job` (its `except` block recovers), the end
of the process (`ExecStopPost` recovers) and a power loss (boot recovery). A removal or a copy listed in `TornSteps`
may also stop half way; what it then leaves is any subset of the files the model tells apart (`Remnants`).

### StagedQueue

State. The queue directory as it is: `.sequence`, `reserve` and `ready` (marker files with their sequence, 0 when
missing), the private and the queued directories, `active`, `results`. `stale` says which reservations the wall clock
calls expired. `stager`, `waiter` and `worker` are where each process is. `base` and `version` count configurations:
on which one a partial update was computed, and how many were committed.

Actions. One per section under `queue.lock`, and one per thing the code does outside it. Every section that starts
with `_cleanup_stale_reservations_locked` contains the sweep (`Sweep`, `Swept`, `Unpublished`).
`StagedResultWaiter.poll` and `staged_timeout_state` take the lock several times, so each of those is a step
(`CheckPresence`, `CheckTurn`, `TryAbandon`, `FinalPresence`, and the two re-reads of the result). Clients die
anywhere, the worker dies after any of its steps and inside the claim (`ClaimDies`).

`publish_ready_marker` writes the ready marker and then removes the reservation. A client killed in between leaves both
(`PublishDies`): the job is published, and a reservation nobody refreshes holds back whoever comes later, until it
expires. An error after the marker was written (`PublishFails`), or while a command line client (`Local`), which stages
and waits in one call, waits for its result (`WaitFails`), ends in the same `except` block as one before it: it removes
the directories, of a published job too (`StagingFails`), and then the markers (`ClearMarkers`), both without the lock,
so the worker may claim the job before, and may find a marker without its directory in between.

`try_abandon_queued_job` may die between the removal of the marker and of the directory (`AbandonDies`); what it
leaves counts against the limit, and `RecoverJob` is a lookup that takes it for a queued job.

`JobLine` says what all of this is for, without files, locks, time or deaths. A job draws a ticket when it enters a line
of limited length, may lose a mere reservation at any time, is served when nobody is served and nobody with a live
place has a lower ticket, leaves unserved only when its own client lost patience while it was next or at the moment
that client breaks, has a result that says whether it took effect, and its client is told once, rightly. A client
breaks once, and takes its job out of the line then or never (`Break`); a job that is served is out of its reach. The
refinement mapping (`PlaceOf`, `TicketOf`) reads a job's place off its files: `active`, a ready marker with its
directory, a reservation, nothing. A reservation is a place only while its client can still publish: one that a dead
client left behind delays the others and serves nobody. A published directory whose marker is gone is no place, nor is
a marker whose directory is gone.

### Modules that run together

`MCDeviceBoot`, `MCActivationUnits`, `MCApiQueues` and `MCApplyRequest` instantiate several components that belong to
one stage of the system but share no state: each has files of its own and is ordered by a unit of its own. A behaviour
chooses one part in its initial state, follows that part's `Init`, `Next` and fairness, and leaves the others as they
start. Every state of every part is reached, without the product of states that have nothing to do with each other.
Components that do share state are composed for real, inside their module: the script, import, recovery and worker in
`FirstBoot`; handlers, API process, queue and worker in `SignedApply`; sync, hook and promotion in `QuadletSync` and
`LanGateway`; API, staging clients and worker in `JobManager`.

### FirstBoot

`pc` is where `first-boot.sh` is, `path` where its configuration came from, `op` the operation that holds
`provisioning_lock`: promotions take it, the script's reads and `complete-initial` do not. `root`, `rback`, `cand` and
`marker` are those of `ConfigStore`, with recovery as one step. A command that fails inside
`discover_and_import_provisioning` does not end the script, because the function is called as a condition and bash
then ignores `set -e`; outside it, it does. A killed script is started again, and a power loss starts everything
again.

### ManagedUsers, QuadletSync, LanGateway

Each has the active tree and its rollback tree, a step for promotion, for rollback and for commit, and a step per
command. Commands fail, and a run is killed anywhere. A hook only waits for the service it starts, so in `QuadletSync`
and `LanGateway` the hook may give up while the service goes on and the tree changes underneath it; the next hook
restarts the service. In `ManagedUsers` a boot starts from the accounts of the image. An account is missing, open,
locked, or admitted again without a shell (`noshell`), because `lock_user` sets `/sbin/nologin` and `ensure_user` clears
the expiry and leaves the shell; `dropped` is history, the users that a tree activated since the boot left out.
`restore_rollback` is one step unless the worker is killed between the removal of the failed tree and the merge of the
records (`RestoreDies`), which is finding 2 seen from the accounts. In `QuadletSync` a unit's text
is the number of the configuration it was rendered from, and a service remembers which text it was started with.
`NetworkSettings` computes with addresses of `Bits` bits: networks, first and last hosts, the pool, and the strings in
the three classes that the two programs treat differently.

### ExportQueue, JobManager

`ExportQueue` has the queue's files (`request`, `ack`, `active`, `archive`, `error`) per request and a step per file
operation wherever a kill in between leaves a trace. Entries without a client get old (`Age`); a step of the wall clock
makes any set of entries old, also under a client that still waits by the monotonic clock (`ClockSteps`, one of the
faults); `stepped` is history, the requests this happened to.
`JobManager` abstracts each job on disk to `disk` (none, reserved, queued or active), its number in the line (`order`)
and `result`, and keeps `_jobs`, `_monitored_job_ids` and a lookup's two reads; errors may come before or after
publication, the API restarts, and finished jobs are evicted. Command line imports (`Local`) reserve, publish and wait
in the same queue from processes of their own: `Admit` and `LocalReserve` exclude each other under `queue.lock`, but an
import does not take the API's `_lock`, so it may enter between a partial update's check that the queue is empty and
its publication. The worker claims the job whose `Turn` it is.

### SignedApply, PartialUpdates, ActivationSequence

`SignedApply` has messages that are delivered any number of times, handlers that await between reading signers,
spending the nonce and verifying, the queue, and the worker with its used-nonce markers. Signatures bind nonce,
method, path and payload; `ssh-keygen` is external. The nonce store is the set of its entries, in the order of their
tokens, which is the order in which they were issued; the code's eviction loops are one removal each, because every
issue runs them (`StoreBound` is what that relies on). `PartialUpdates` represents a nested table as a function from
paths to scalars, so the reference merge is one definition without recursion, and the code's `_deep_merge` is compared
with it. Its recursion is flattened: `Items` are the items of the patch that it comes to, `merge_item` is one turn of
its loop, and `deep_merge` folds the turns over the items. A turn for a table that both sides have does nothing itself,
since the code leaves it to the turns inside; the order of the turns is left open, and the proof shows that no order
makes a difference. `ActivationSequence` counts time in units: a command takes from none to `CommandCap`,
services start and stop meanwhile, and the one deadline is the code's.

### ABBoot

State. `order` and `left` are the U-Boot environment, `image` the slots, `sentinel` `/data/.completed_first_boot`;
`phase`, `running`, `confirmed`, `upgrade` and `rauc` describe the current boot. `proven`, `wanted`, `fails` and
`outage` are history.

Actions. `SelectSlot` is the boot method with its decrement; `BootFails`, `BootStalls` and `BootCompletes` are what an
image can do next, on a board with or without a watchdog started by U-Boot; `FirstBootMarkGood`, `FirstBootSentinel`
and `VerificationPasses` are the confirmations; `Upgrade` is `os-upgrade.sh` up to `rauc install`; the `Rauc*` actions
are the daemon's writes in order; `UpgradeTimesOut` is the service timeout, after which the daemon goes on alone;
`PowerLoss` and `EnvLost` are the faults. RAUC and the boot method are not part of this repository: their actions are
modelled from how the scripts, `nix/uboot*.nix` and the RAUC system configuration use them, and are marked external in
`PROJECT.json`.

## 3. Runs

| Run | Instance | What it shows |
|---|---|---|
| `config_store` | 2 jobs, fresh and seeded device, 3 faults, every removal but one may stop half way; 117,800 states | six safety invariants, `EveryClaimAnswered` and the refinement of `AtomicApply` |
| `config_store_torn_discard` | 1 job, 1 fault, the remaining removal | finding 1 |
| `config_store_lost_record` | 1 job, 1 fault | finding 2 |
| `staged_queue` | 3 jobs, two imports and a partial update, room for 2, 1 fault; 1,047,570 states | bounded, ordered, sound timeouts, partial updates on the current configuration, and the refinement of `JobLine` |
| `staged_queue_live` | an import and a partial update, 2 faults; 75,120 states | published jobs settle, waiters are answered |
| `ab_boot_rock64` | 5 images of 4 kinds, 3 tries, 7 power losses, 3 installations, any old environment; 112,464 states | a known good slot is kept and outages end, with a lost environment and boots that hang |
| `ab_boot_unproven` | CM3 with a sick image | finding 3 |
| `device_boot` | 3 configurations of which one fails and one requires a unit, 3 console jobs, 2 faults; the images of `ab_boot_rock64` on a CM3 with 7 power losses and 3 installations; 375,398 states | the imported seed is kept, the script ends; the slots of the CM3, fallbacks and return to service |
| `first_boot_unchecked` | the same configurations | finding 4 |
| `activation_units` | 2 users, 2 containers, a network, a volume and a build in both modes, 3-bit addresses, 3 applies, 3/2/3 faults; 2,285,016 states | accounts, units, services and network files follow the active tree; both validators agree |
| `api_queues` | 2 exports with room for 1 and 2 versions; a full, a partial and an import job, of which two get a place, room for 2 queued and 1 finished, 2 job objects; 1 fault each; 141,500 states | bounded, fresh and final results; accepted jobs are found; a partial update is first in the queue; everything is answered |
| `apply_request` | 2 messages in 2 handlers before the guard, 1 handler and the worker; every operation on a table of one key nested three deep, every patch on one of two keys nested two deep; activations of at most 4 units of time; 1,919,700 states | requests take effect once, by a trusted key; updates and merges; activation |

The properties:

- `StoreIsCommitted`: at every instant, a recovery started now would leave a complete copy of the configuration whose
  commit receipt was written last. This is the claim the markers, receipts and their order exist for.
- `CleanWhenIdle`: with no claim and no process, nothing is left on disk that could divert the next apply.
- `ResultsTruthful`: `succeeded` exactly when the job committed, whichever process published the result.
- `ResultAfterActivation`: no result while the services still follow a configuration that was rolled back.
- `DiscardKeepsRecord`: before the first commit no usable account is lost from every record on disk.
- `EveryClaimAnswered`: every claim gets a result unless power takes it away.
- `RefinesAtomicApply`: all of it is one atomic replacement, with a refinement mapping that evaluates what recovery
  would do (`store <- StoreView, job <- claim, verdict <- results`).
- `CapacityBound`, `ClaimedInOrder`, `AbandonedNeverApplied`, `PartialOnCurrent`, `PublishedJobSettles`,
  `WaiterAnswered`: the queue never holds more than its limit, claims follow the order of reservation, a client that
  reports a timeout is right for ever, a partial update computed outside the lock is never stale when applied, and
  nothing waits for ever behind a dead client or a dead worker.
- `RefinesJobLine`: every step of the queue is a step of `JobLine` or invisible, which also says what no invariant
  above does: a published job is lost in no other way than by its own client, which gives up when the job is next or
  fails and takes it along at once, and a result that was told is the one that stays.
- `KnownGoodKept`, `OutageBounded`, `FallbackJustified`, `ReturnsToService`: an image that passed its confirmation is
  always on one slot; at most two rounds of tries end in a reset; the preferred slot is left only after all its tries;
  a restarted device gets back to a confirmed boot, or comes up in an image that fails the checks. `SlotsSurvive` is
  the first two on a CM3.
- `ImportedSeedKept`: from the import of a seed to the end of the first boot, a recovery at any instant yields the seed,
  although console jobs are claimed, killed and finalized meanwhile. `ScriptEnds`: once the root has a configuration for
  good, the script stops polling and ends.
- `AccountsFollowConfig`, `QuadletsFollowTree`, `NetworkFollowsTree`: after a complete run the system is what the
  active tree says, wherever earlier runs were killed, but for named remainders (section 6). Of accounts: no declared
  user is locked, and each has its shell unless a tree activated since the boot left it out. `RestoredAdmitted`:
  `apply-users` refuses an account it does not know, but never one of a tree that a rollback or a boot brings back,
  although the failed configuration may have dropped and locked it. `ValidatorsAgree`: what
  `config.py` accepts, `lan-gateway-apply.py` accepts, for every combination of prefix, gateway and pool.
- `ExportsSound`, `SlotReleasedOnce`, `ExportsServed`: at most `MAX_EXPORTS` slots, one result per request and a fresh
  one, no slot taken twice, every slot freed and every polling client answered. A request whose entries a step of the
  wall clock expired under its client is the exception to the limit, to the second slot (its acknowledgement, once) and
  to the answer; its slots are freed like all others, and what it returns is as fresh.
- `AcceptedFindable`, `JobStepsSound`, `PendingSettles`: an accepted job is in memory or on disk until it is
  abandoned; a partial update is published ahead of everything in the queue, with nothing but later imports beside it,
  none of which was claimed; a verdict is final; nothing stays pending.
- `AppliedOnce`, `AppliedByTrustedKey`, `NoncesSound`: a signed request takes effect at most once, and only by a key
  the replaced configuration trusts; nonces pass once, and a greedy client loses only its own.
- `UpdatesSound`, `PatchMerges`: the worker derives what the route staged or refuses, changes only what the path
  names, on whatever configuration it finds, and repetition is harmless; a PATCH is the merge, path by path.
- `ActivationSound`: activation and rollback end within their deadlines; an applied tree had its required containers
  active after the settle delay, and others running unless they may be degraded.

Why the bounds are enough. Two jobs let an apply run on a fresh root, on a seeded root and on a root that another job
committed; three faults let a recovery be interrupted and its recovery be interrupted again. Three queue jobs with
room for two reach the limit, a job ahead of and one behind another, and a partial update between two full ones; one
fault strikes a client or the worker at any of their steps, and two, in the liveness run, both of them or the worker
twice. Seven power losses use up both slots' tries and one more; three installations write each slot at least once and
one of them again. The safety results do not depend on these bounds: section 5 proves every one of them for all
values. Liveness does. In the runs of several parts: three applies promote, roll back and promote again over what a
killed run left; two or three faults interrupt a run and the run that repairs it; three bits are the smallest width in
which a network has a gateway, a pool on either side of it and addresses outside; one slot and two exports, or one
retained job, two queued ones and three jobs, reach each limit; a partial update meets both another job of the API and
an import; two handlers hold the same message; four units of time let the deadline fall between any two of the steps.

Deadlock is checked for `ConfigStore`: its only stuttering step is `Rest`, which needs an inactive service, so a step
that could neither go on nor fail would be reported. It is not checked elsewhere: a queue run ends when all its
clients are done, and a device whose updates, applies and faults are used up just keeps running. That nothing gets
stuck there is what the liveness properties say.

## 4. Fairness

- `ConfigStore`: `WF(Work)`. A running process takes its next step, and systemd starts the apply service as long as a
  job is ready (`.path` unit) or a claim is retained (the 30 s retry timer). Faults are never fair.
- `StagedQueue`: weak fairness of the worker (same units), of a client that has reserved (it goes on or fails; whether
  a client reserves at all is up to the user), its clean-up included, of a waiter (it polls), and of the expiry of a
  reservation whose client is dead or has published (nobody refreshes it, so the clock passes its TTL). A live client's
  reservation may expire, but need not. A lookup of a forgotten job (`RecoverJob`) is up to the client and not fair.
- `ExportQueue`: weak fairness of the path unit, of `ExecStopPost`, of the worker's steps, of the clients' polling and of
  the ageing of entries whose clients are gone, since expiry goes by their modification time; strong fairness of
  acknowledgements, which wait for the lock others keep taking. That the clock steps under a live client is possible
  and never fair. A vanished client acknowledges nothing.
- `JobManager`: weak fairness of the worker, of staging threads and imports (jobs wait behind lower reservations, so
  staging has to end) and of a lookup under way; strong fairness of the refusal of a partial update and of the monitors'
  polls, which run in the event loop and which a lookup may get ahead of. Lookups themselves are not fair: a job nobody
  asks for after a restart is not shown.
- In both, fairness is asked of all clients, entries or jobs together and not of each one. That is less than the code
  gives, and enough.
- `FirstBoot`: weak fairness of whoever holds the lock, of the script (systemd restarts it), and of the finalizer.
- The runs of several parts assume the fairness of the part a behaviour follows.
- `ABBoot` (`Fairness`): weak fairness of U-Boot and the kernel, of the sentinel after first boot's mark-good, of a
  verification that would pass (each boot starts it, and the upgrade timer again), of a running installation and of
  the script's reboot. Nothing is assumed of the owner, the update server or the power supply.

## 5. What is proved

The theorems hold for every value of the constants that satisfies the named assumptions: any set of jobs, requests,
users or units, any limits, and any number of faults. In the modules that compose several parts some parameters are
definitions (`Configs`, `Trees`, `Service`, `RawConfigs`); no proof expands them, so what is proved of them follows
from the assumptions `UnitConstants` and `RequestConstants` alone. Every invariant, action property and refinement
that a run checks is stated by a theorem (the type invariants of `StagedQueue` and `ABBoot` are theorems only), and
nearly all inductive invariants below were checked with TLC on the bounds of the runs before they were proved.

`ConfigStoreProofs` (`TypeCorrect`, `StoreAlwaysCommitted`, `IdleIsClean`, `ResultsAreTruthful`,
`RecordSurvivesDiscard`, `ActivatedBeforeResult`, `ImplementsAtomicApply`), from `ConfigStoreConstants` and the
assumption `Repeatable`: the removal of a discarded first root without managed users is not interrupted half way.
Without it the theorems are false (finding 1). None of the safety properties is inductive: that the root is
recoverable *now* says nothing about the next rename. The inductive invariant `IInv` has two layers. `Recoverable`
never mentions `pc`: it says what the disk must look like for any recovery to succeed (either the root is the complete
committed tree, or the rollback tree is, the marker is set and the root carries no committed receipt), and it is all
that survives a fault. The other conjuncts say what each step may additionally rely on: who runs it and where it
returns (`Callers`), that its claim is open (`Claims`), what recovery and apply steps find on disk (`RecoveryControl`,
`ApplyControl`), that results, receipts and claim agree (`Ledger`), that the services follow the committed
configuration or a pending marker says otherwise (`Following`), and where the account record is before the first
commit (`Records`). A fault only moves `pc` to a recovery, so its case (`FaultStep`) is that an interrupted step, torn
trees included, keeps `Recoverable`. The refinement follows: `IInv` makes `StoreView` equal to `committed`, so exactly
`MarkCommitted` is the abstract `Commit` and every other file operation is invisible.

`ABBootProofs` (`TypeCorrect`, `KnownGoodAlwaysKept`, `OutageAlwaysBounded` on both boards, `FallbackIsJustified` on
the CM3), from `ABBootConstants`. `Content` and `Control` say that only healthy images are proven and that an
installation runs only in a confirmed boot, which is why the slot it does not write is a proven one. `Progress` is a
variant: for some slot whose image comes up, the resets so far plus the tries the boot method can still spend before
it gets there are at most two rounds. `Priority` adds, for the CM3, that the preferred slot's failed boots and
remaining tries add up to a full round and that it is first in line while it has tries. `FallbackJustified` is stated
for the CM3 because the ROCK64's environment can be lost, which resets both counters without a boot.

`StagedQueueProofs` (`TypeCorrect`, `CapacityAlwaysBounded`, `AbandonedIsNeverApplied`, `ClaimsInOrder`,
`PartialsAreCurrent`, `ImplementsJobLine`), for any finite set of jobs. `Typed` and `Counts` bound the sequence by the
number of clients that began, so no place in the line is given twice. `Lifecycle` ties a client's position to its
files, and `Service` says that there is one claim at a time and that a committed job keeps its claim until it has a
result. `GivenUp` is the heart of the timeouts: a job that its waiter saw gone, or removed under the lock, can come
back in no way, because publication needs the client, and the client has published already. `Line` orders claims:
whatever was claimed was ahead of all that wait or may still publish, which holds because a claim refuses to pass a
reservation. It says nothing of a reservation left behind, which may be the claimed job's own.
`Fresh` is why a partial update computed outside every lock is current: from the check that it is alone until its
claim, it holds its place, nobody is active, and all others are behind it. The capacity argument is by cardinality:
the sweep only shrinks the set that the limit counts, and only a reservation adds to it.

The refinement needs two more facts: `Told`, a client that still waits was told nothing, and `Answered`, only a job that
was claimed has a result, and not before the worker is done with it. A sweep takes several reservations at once and
runs at the start of other sections; in `JobLine` this is why every step lets other reservations expire (`Keeps`), and
`SweptKeeps` and `SweepOnly` are the lemmas. Claims are abstract steps at the rename into `active/`: a worker that
dies between the rename and the removal of the marker has served the job. `TryAbandon` is `Withdraw` when it finds the
job published, and its death half way is the same abstract step. Publication is abstract at the ready marker, whether
or not the client survives it (`PublishDies` is `Publish`). A client breaks when its `except` block begins
(`StagingFails`, `WaitFails`) or when it dies while it stages or cleans up (`Broken`); the removal of the directory is
what takes the job out of the line, and the removal of the markers afterwards is invisible.

`ApiQueuesProofs`, from `ExportQueueConstants` and `JobManagerConstants` (`Nobody` is no job).

- `ExportsAreSound`, `SlotsAreReleasedOnce`. `ExportInv` ties what each client may still do to the files of its request
  (`ClientSide`: an admitted client keeps a slot until it leaves or a clock step hits it, only what belongs to one that
  left is acknowledged, and only that or what was hit is old), and where the worker is to its one claim (`WorkerSide`).
  `SlotBound` is then a counting argument over the requests that no clock step hit: no step gives a request a slot but
  an admission, which counts first, and the acknowledgement of a client that was hit (`Admission`), and what was hit
  stays known. `Fresh` carries the times.
- `AcceptedStaysFindable`, `JobStepsAreSound`. Findable must hold on disk alone (`OnDisk`), since eviction and restarts
  take the table away; `Alone` says that an exclusive submission holds `_lock` to its return, so that after it found the
  queue empty only imports enter, with higher numbers, and cannot be claimed before it (`order` never exceeds
  `sequence`); `Ages` orders the table, so that eviction takes finished jobs only while enough are there.

`DeviceBootProofs`, from `FirstBootConstants` and `SlotConstants`.

- `FirstBootTypeCorrect`, `SeedIsKept`. `ScriptPath` and `ImportSteps` say what an import has on disk at each step;
  `SeedStays` says that after it the root is the seed's, no rollback tree competes with it and nobody holds the lock in
  between. `SeedIsKept` assumes `Reapply = FALSE`: no signed job arrives before the end of the first boot; without it
  the property is false (section 6).
- `SlotsAlwaysSurvive`, `FallbackAlwaysJustified`: the device of `MCDeviceBoot` runs either part, so its steps are those
  of `ABBoot` or leave the slots alone; the invariants of `ABBootProofs` then carry over.

`RequestProofs` (`SignedApplySafe`, `NonceStepsAreSound`), from `SignedApplyConstants`. `Unspent`: a nonce in the
store has not been accepted and the next one is new. `Checked`: a claimed job has its nonce marked for this boot, was not
applied, and was signed with a key of the signers still in force, since only the worker itself replaces them. `Marked`: a
nonce that took effect is marked or is of an earlier boot, whose nonces the worker refuses. The bound of the store is by
cardinality (`EvictionMakesRoom`: what is evicted exists, is one entry, and is the client's own). `ApplyRequestProofs`
shows both instances of the run to be instances of that module and takes over the results (`AppliedAtMostOnce`,
`OnlyTrustedKeysApply`, `NonceGuardIsSound`).

The same module (`TypedUpdatesAreSound`), from `PartialConstants`: any finite set of keys, tables of any depth, any names
and values. The invariant `UpdatesInv` keeps, beside what was staged, that the configuration is the last operation
applied to what the worker found, and that the operation was rendered there. What is left is what `_deep_merge` does.
`After(t, q, s)` describes the table when the turns of the items in `s` are behind; `OneTurn` shows that a further turn
adds its item, whichever went before, because no item that ends the recursion is below another (`EndsApart`).
`AllTurns` carries this through the fold: were the turns for some set of items wrong, there would be a smallest such
set, and the fold takes one turn after those of a smaller one; a least number takes the place of the induction theorem,
which the provers cannot instantiate, and `FinitePaths` says that there are finitely many items to count.
`FirstEnd` finds, on the way to any path, the first item that ends the recursion, and `MergesByPath` concludes that
without a null left over the table is the reference merge. A null that is left over makes `Serializable` false and the
route refuses. `MergeAgain`: merging the patch into the merged table changes nothing, so a repeated PATCH is harmless
like every other repeated update (`Repeats`).

`ApplyRequestProofs`, from `RequestConstants`.

- `ActivationIsSound`. `Timed` bounds the clock: each attempt starts within the time of those before it and no command
  outlasts its deadline. `Reported` and `Seen` say which services are behind and which still to come, so that an
  outcome without failures has all of them behind. That a policy is not refused is a lemma about the two validators
  (`PoliciesAgree`), and that a required service was probed in the mode it runs in one about the last unit of its name
  (`RuntimeModeIsOne`). Of trees it is assumed (`ActivationConstants`) that a rendered one has a unit for each of its
  containers and a strict policy, and that one without a policy file restarts nothing, as the renderer and the defaults
  have it.
- `UpdatesAreSound`, `AppliedPatchMerges`: both sets of bounds of the run are instances of `RequestProofs`, the operators
  of each instance compute the same (`OperationsMerge`, `PatchesMerge`), and `TypedUpdatesAreSound` carries over.

`ActivationUnitsProofs`, from `UnitConstants` (unit kinds are disjoint, every unit has one service).

- `AccountsAlwaysFollow`. `Providing` says which users of the tree are provided and which are still to be; `Known`, that
  a usable account (with its shell or without, `Usable`) is in the record of the active tree or stray, which has to hold
  through rollbacks, where the records of both trees are merged (`Records`) or, in a killed restore, the accounts of the
  lost one become stray. `Dropped`: an account was locked, and so lost its shell, only if a tree activated since the
  boot left it out.
- `RestoredAlwaysAdmitted`. `Established`: a tree that can be brought back, and the active one once its apply is over,
  has its users in its record. It is kept because an apply saves its record only when every user was provided, and a
  rollback adds to the restored record and takes nothing from it.
- `NetworkAlwaysFollows`. `Written` gives the files behind each step; `Loaded`, that a file is loaded, or replaced with
  its restart due, or one that an earlier run left behind.
- `QuadletsAlwaysFollow`. Nothing is known of a sync that was killed or whose tree was replaced, so the invariant speaks
  only of one that follows the active tree (`Following`), and starting one must establish it from any state at all
  (`SyncBegins`): what a directory holds is then in its manifest or was found. `UnitsAt`, `ServicesAt` and `RestartsAt`
  say for each directory and service manager what is done and what is ahead. That a container waits for its build
  rests on `validate_unique_runtime_services` (`SentUnique`): no build has the service name of a container.
- `ValidatorsAlwaysAgree`, for addresses of any width and any settings.

Only model-checked: all liveness (`EveryClaimAnswered`, `PublishedJobSettles`, `WaiterAnswered`, `ReturnsToService`,
`ScriptEnds`, `ExportsServed`, `PendingSettles`), since the prover handles no fairness with ENABLED. Two cases
in which a safety result fails are excluded by a named assumption of its theorem: `Repeatable` (finding 1 of section 6)
and `Reapply = FALSE` (the end of section 6).

## 6. Where code and documents disagree

1. `config_store_torn_discard`. A failed first configuration without managed users is removed by a plain `rmtree`
   after its promotion marker is gone. If that stops when the receipt is deleted and `config.toml` or `.first-config`
   is not, recovery keeps the remains as the active root. The documents say an interrupted first apply is discarded.
2. `config_store_lost_record`. `restore_rollback` holds the merged managed users only in memory while it removes the
   failed tree. Killed there, the failed configuration's accounts are usable and in no record. The documents say the
   lists are merged before the removal.
3. `ab_boot_unproven`. A slot that comes up and never passes the checks keeps running: nothing restarts the device.
   The documents say U-Boot then goes back to the previous slot.
4. `first_boot_unchecked`. A failing Quadlet sync or health check does not stop `first-boot.sh`: `set -e` is off in a
   function called as a condition, so the slot is confirmed and the sentinel written. The design says both failures
   prevent them.

`PROJECT.json` quotes the lines.

The properties of section 3 leave out a few cases by name. Each is something the code does and a reader may not
expect:

- `docs/src/provisioning.md:122` says of partial updates that they "are accepted only when no other change is queued or
  running". A partial update checks that the queue is empty (`P/provision.py:702`) and publishes later, holding only the
  API's lock; a command line import that reserves in between may be queued when the update is accepted. What the check
  is for still holds, and is what `JobStepsSound` and `PartialOnCurrent` say: the update is the first to be applied, on
  the configuration it was computed on.
- `StagedJobManager.get` reads the result and then the job's presence, and does not read the result again
  (`P/jobs.py:592`). A job that finishes between the two reads is reported as unknown once. `AcceptedFindable`
  therefore speaks of what is there to be found, not of one lookup.
- `apply-users.py:96` refuses an existing account that is not in the record. A user dropped by one configuration and
  declared by the next one of the same boot is such an account, so that apply fails (`Refuse`) and is rolled back.
  `AccountsFollowConfig` is about complete runs; `RestoredAdmitted`, that the way back is not refused.
- `apply-users.py:163` locks a user with `/sbin/nologin`, and `ensure_user` (line 99) deliberately does not set the shell
  of an existing account. A user that a failed configuration left out and the restored one declares is admitted again
  without a shell until the next boot (`noshell`, `dropped`).
- A worker killed inside `restore_rollback` (`P/activation.py:321`) brings back the tree without the failed tree's
  record (finding 2): the accounts only that record named are locked by no later run (`stray`).
- `P/export_worker.py:218` compares modification times with the wall clock, and the device's clock may step at any time
  (`makestep 1.0 -1`, `modules/lan-gateway.nix:62`), while a client waits by the monotonic one. A step of more than
  `RETENTION_SECONDS` expires the request of a live client, which runs into its own deadline; its late acknowledgement
  may take a slot beyond `MAX_EXPORTS`, one per request that was hit (`stepped`).
- `P/quadlet_sync.py:157` writes the manifest last. A unit copied by a sync that was killed is in no manifest; if the
  next tree does not declare it, it stays (`found`).
- `P/activation.py:462` finds a unit's mode by its service name, so of two units with one service name in different
  modes the later one decides which service manager is asked. `HealthyWhenApplied` assumes distinct names
  (`Unambiguous`).
- `P/config.py:363` accepts a name with a trailing dot and an interface key that names the board's own port;
  `lan-gateway-apply.py` refuses both, so such a configuration fails at activation. `ValidatorsAgree` is about the
  other ones (`Ordinary`).
- When a first configuration fails its activation, `discard_initial_config` (`P/activation.py:250`) removes the tree
  and nothing runs afterwards: the network settings of that configuration stay in use until the next boot.
  `FilesFollowTree` is about a tree that exists.
- `lan-gateway-apply.py:664` restarts what this run replaced. If a run is interrupted between a file and its restart,
  the next one finds the file in place and restarts nothing (`behind`).
- `complete-initial` (`P/server.py:251`) removes the rollback tree without the lock. A signed reapply between seed
  import and completion then loses its way back. `ImportedSeedKept` holds without such a reapply (`Reapply = FALSE`)
  and fails with it.
- `first-boot.sh:253` reads the promotion marker and `config.toml` one after the other without the lock. Several
  failing console jobs in a row can make it take a configuration for valid that is then discarded, so the device ends
  its first boot unprovisioned.

## 7. Limits of the models

- A file operation of `ConfigStore` is atomic and durable when the next one starts; the `fsync` calls inside the
  helpers are taken to do what they are for. One process at a time touches the trees, as the units order them; first
  boot's own import, which does not take part in that order, is in `FirstBoot`. Every configuration declares one user
  of its own.
- In `StagedQueue`, rendering, hashing and authorization are a choice between success and failure.
- In `JobManager` a job is in one place of the queue: a reservation left beside a published job, and a marker without
  its directory, are `StagedQueue`'s subject. That a live client's reservation expires is part of `StagingFails` and
  `LocalFails`.
- `FirstBoot` takes recovery, restore and discard as one step each: that they may be cut in pieces is `ConfigStore`'s
  subject. The initrd's fresh-flash detection is an initial choice.
- In `ActivationSequence` a command takes whole units of time, at most `CommandCap`.
- In `SignedApply` time is an action: the oldest nonce that is still valid may expire at any moment.
- The start limit systemd imposes on a service that a path unit starts again and again (`modules/first-boot.nix:160`)
  is not modelled: it is a rate in real time and depends on how fast the worker returns.
- In `ABBoot` a half-written slot may fail in any way an image can fail, but never comes up. The lost ROCK64
  environment falls back to the defaults of `nix/uboot.nix`. Start-up as USB mass storage, the recovery button and the
  rescue shell are left out, and so is the custom bootloader backend of the test images.
- Not modelled, and why. Bundle extraction (`P/bundle.py`): one pass over an archive into a fresh directory, whose
  rules are about paths and sizes of single members and which nobody else reads before it ends. TOML syntax, the JSON
  schema and rules for single strings: pure functions of one document. The UI, HTML and request decoding: text.
  `provisioned-firewall-inbound.py`: renders one file to nftables text and keeps no state. The Nixstasis client and
  fleet bootstrap: calls to an external service. Image build, flashing, CI: no run-time state.

## 8. Possible extensions

1. `JobManager` on top of `JobLine`: its `disk` and `result` are the line's place and result of one job.
2. `FirstBoot` on the trees of `ConfigStore`, with recovery cut into its file operations.
