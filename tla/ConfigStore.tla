---------------------------- MODULE ConfigStore ----------------------------
(***************************************************************************)
(* The staged apply of a configuration on /data: activation.py,            *)
(* apply_transaction.py and the worker half of provision.py, driven by the *)
(* systemd units of modules/first-boot.nix.                                *)
(*                                                                         *)
(* Three directory trees (the active root, the candidate and the rollback) *)
(* and two marker files are the only durable state.  Every rename, tree    *)
(* removal, marker write and receipt write is a step of its own, and       *)
(* between any two of them the process may raise, be killed, or the        *)
(* device may lose power; a tree removal may also stop half way.           *)
(*                                                                         *)
(* One process at a time touches the trees here: boot recovery is ordered  *)
(* before the apply service, and that service runs its finalizer, its      *)
(* worker and its ExecStopPost finalizer one after the other.              *)
(***************************************************************************)
EXTENDS Integers, FiniteSets

CONSTANTS
    Jobs,       \* job ids; job j carries configuration j, which declares user j
    Base,       \* the seed-imported configuration (it has no apply receipt)
    None,
    TornSteps,  \* the removals that may be interrupted half way
    MaxFaults   \* bound: exceptions, kills and power losses of a behaviour

Removals == {"resRoot", "promRoot", "discRoot", "discPrune", "commitCand", "rcCand",
             "discCand", "copy", "cleanRback"}

ASSUME ConfigStoreConstants ==
    /\ Base \notin Jobs
    /\ None \notin Jobs \cup {Base}
    /\ TornSteps \subseteq Removals
    /\ MaxFaults \in Nat

VARIABLES
    root, cand, rback,  \* /data/config, config-candidate, config-rollback
    marker,             \* the promotion-pending marker beside the root
    raMarker,           \* the rollback-activation-pending marker
    claim,              \* the job under /run/.../active, or None
    results,            \* the published result of each job of this boot
    todo,               \* jobs not yet claimed
    live,               \* accounts a saved record named this boot and nobody locked
    activated,          \* the configuration the last activation sequence ran for
    pc, who,            \* the step about to run, and the process that runs it
    via,                \* the caller a shared subroutine returns to
    reapply,            \* is_reapply of the running apply
    restored,           \* restored_rollback of the running recovery
    merged,             \* managed users a restore or discard holds in memory
    committed,          \* history: the configuration committed last
    commits,            \* history: every job whose commit receipt was written
    faults              \* faults injected so far

disk == <<root, cand, rback, marker, raMarker>>
runtime == <<claim, results, todo>>
device == <<live, activated>>
locals == <<who, via, reapply, restored, merged>>
history == <<committed, commits>>
vars == <<disk, runtime, device, pc, locals, history, faults>>

\* What a file-system step leaves alone.
others == <<runtime, device, locals, history, faults>>

-----------------------------------------------------------------------------
(* Trees *)

Configs == Jobs \cup {Base}

Tree == [there   : BOOLEAN,
         cfg     : Configs \cup {None},     \* config.toml, None when it is missing
         first   : BOOLEAN,                 \* .first-config
         job     : Jobs \cup {None},        \* apply receipt: job id ...
         phase   : {"none", "promoted", "committed"},   \* ... and phase
         managed : SUBSET Configs,          \* managed-users.json
         whole   : BOOLEAN]                 \* no file of the tree is missing

Absent == [there |-> FALSE, cfg |-> None, first |-> FALSE, job |-> None,
           phase |-> "none", managed |-> {}, whole |-> FALSE]

\* The root a seed import leaves: provisioned, without a receipt.
Seeded == [there |-> TRUE, cfg |-> Base, first |-> TRUE, job |-> None,
           phase |-> "none", managed |-> {Base}, whole |-> TRUE]

\* The root a discarded initial apply leaves when it had created accounts.
RecordOnly(names) == [Absent EXCEPT !.there = TRUE, !.managed = names]

Rendered(j, names) == [there |-> TRUE, cfg |-> j, first |-> FALSE, job |-> None,
                       phase |-> "none", managed |-> names, whole |-> TRUE]

\* What rmtree (in any order) or copytree can leave of t when it is interrupted.
Remnants(t) ==
    {[there |-> TRUE, cfg |-> c, first |-> f, job |-> r[1], phase |-> r[2],
      managed |-> m, whole |-> FALSE] :
        c \in {t.cfg, None}, f \in {t.first, FALSE},
        r \in {<<t.job, t.phase>>, <<None, "none">>}, m \in {t.managed, {}}}

\* _prune_to_managed_state removes both provisioning markers before any other file.
PruneRemnants(t) ==
    {[t EXCEPT !.cfg = c, !.first = f, !.whole = FALSE] :
        c \in {t.cfg, None}, f \in {t.first, FALSE}}
    \cup {[RecordOnly(t.managed) EXCEPT !.whole = FALSE]}

IsProvisioned(t) == t.first \/ t.cfg # None

-----------------------------------------------------------------------------
(* Control *)

Labels == {"off", "recover", "commitCand", "cleanRback", "cleanMarker", "markRA", "rc",
           "rcCand", "rcMarker", "restore", "resRoot", "resRename", "resRecord",
           "resMarker", "discard", "discRoot", "discRecord", "discCand", "discRback",
           "discMarker", "settle", "reactivate", "clearRA", "units", "publish",
           "unclaim", "ready", "verify", "authorize", "copy", "stamp", "promRback",
           "promMarker", "promSave", "promRoot", "promSwap", "activate", "commit"}

Step(from, to) == pc = from /\ pc' = to

\* A shared subroutine returns to its caller; a failed apply returns by raising,
\* which runs the worker's except block.
Return == CASE via = "recover" -> "settle"
            [] via = "render"  -> "authorize"
            [] via = "promote" -> "copy"
            [] via = "fail"    -> "recover"
Raised == who' = IF via = "fail" THEN "handler" ELSE who

Init ==
    /\ root \in {Seeded, Absent}
    /\ cand = Absent
    /\ rback = Absent
    /\ marker = FALSE
    /\ raMarker = FALSE
    /\ claim = None
    /\ results = [j \in Jobs |-> "none"]
    /\ todo = Jobs
    /\ live = root.managed
    /\ activated = root.cfg
    /\ pc = "off"
    /\ who = "stop"
    /\ via = "recover"
    /\ reapply = FALSE
    /\ restored = FALSE
    /\ merged = {}
    /\ committed = root.cfg
    /\ commits = {}
    /\ faults = 0

-----------------------------------------------------------------------------
(* recover_interrupted_apply *)

\* Mutant: the commit receipt is not consulted.
RecoveryIgnoresReceipt ==
    IF raMarker THEN "rc"
    ELSE IF root.phase = "promoted" /\ ~rback.there THEN "discard"
    ELSE IF marker /\ rback.there THEN "markRA"
    ELSE "rc"

RecoveryBranch ==
    IF raMarker THEN "rc"
    ELSE IF root.phase = "committed" THEN "commitCand"
    ELSE IF root.phase = "promoted" /\ ~rback.there THEN "discard"
    ELSE IF marker /\ rback.there THEN "markRA"
    ELSE "rc"

RecoverInterruptedApply ==
    /\ Step("recover", RecoveryBranch)
    /\ restored' = (raMarker \/ RecoveryBranch = "markRA")
    /\ via' = "recover"
    /\ UNCHANGED <<disk, runtime, device, who, reapply, merged, history, faults>>

\* Mutant: the leftover candidate stays.
KeepLaterCandidate ==
    /\ Step("commitCand", "cleanRback")
    /\ UNCHANGED <<disk, others>>

\* A candidate beside a committed root belongs to a later, unfinished apply.
DropLaterCandidate ==
    /\ Step("commitCand", "cleanRback")
    /\ cand' = Absent
    /\ UNCHANGED <<root, rback, marker, raMarker, others>>

\* Mutant: the pending reactivation is not recorded.
ForgetRollbackActivation ==
    /\ Step("markRA", IF via = "fail" THEN "restore" ELSE "rc")
    /\ UNCHANGED <<disk, others>>

\* begin_rollback_activation, from recovery or from a failed activation
BeginRollbackActivation ==
    /\ Step("markRA", IF via = "fail" THEN "restore" ELSE "rc")
    /\ raMarker' = TRUE
    /\ UNCHANGED <<root, cand, rback, marker, others>>

(* cleanup_rollback: the rollback tree goes before the marker *)

CleanupRollback ==
    /\ Step("cleanRback", "cleanMarker")
    /\ rback' = Absent
    /\ UNCHANGED <<root, cand, marker, raMarker, others>>

CleanupMarker ==
    /\ Step("cleanMarker", IF via = "commit" THEN "publish" ELSE "settle")
    /\ marker' = FALSE
    /\ UNCHANGED <<root, cand, rback, raMarker, others>>

(* recover_config_root *)

ConfigRootBranch ==
    IF marker /\ rback.there THEN "restore"
    ELSE IF marker /\ root.cfg = None THEN "discard"
    ELSE "rcCand"

RecoverConfigRoot ==
    /\ Step("rc", ConfigRootBranch)
    /\ UNCHANGED <<disk, others>>

\* Drop a leftover candidate; a rollback tree that is all there is becomes the root.
RecoverLeftovers ==
    /\ Step("rcCand", IF marker THEN "rcMarker" ELSE Return)
    /\ cand' = Absent
    /\ LET adopt == ~marker /\ root.cfg = None /\ ~cand.there /\ rback.there
       IN /\ root' = IF adopt THEN rback ELSE root
          /\ rback' = IF adopt THEN Absent ELSE rback
    /\ UNCHANGED <<marker, raMarker, others>>

RecoverMarker ==
    /\ Step("rcMarker", Return)
    /\ marker' = FALSE
    /\ UNCHANGED <<root, cand, rback, raMarker, others>>

(* restore_rollback *)

RestoreRollback ==
    /\ rback.there
    /\ Step("restore", "resRoot")
    /\ merged' = root.managed \cup rback.managed
    /\ UNCHANGED <<disk, runtime, device, who, via, reapply, restored, history, faults>>

\* No rollback to restore: an initial apply failed, so its root is discarded.
RestoreNothing ==
    /\ ~rback.there
    /\ Step("restore", IF reapply THEN Return ELSE "discard")
    /\ who' = IF reapply THEN "handler" ELSE who
    /\ marker' = FALSE
    /\ UNCHANGED <<root, cand, rback, raMarker, runtime, device, via, reapply,
                   restored, merged, history, faults>>

RestoreRemoveRoot ==
    /\ Step("resRoot", "resRename")
    /\ root' = Absent
    /\ UNCHANGED <<cand, rback, marker, raMarker, others>>

RestoreRename ==
    /\ Step("resRename", "resRecord")
    /\ root' = rback
    /\ rback' = Absent
    /\ UNCHANGED <<cand, marker, raMarker, others>>

RestoreRecord ==
    /\ Step("resRecord", "resMarker")
    /\ root' = IF merged # {} THEN [root EXCEPT !.managed = merged] ELSE root
    /\ UNCHANGED <<cand, rback, marker, raMarker, others>>

RestoreMarker ==
    /\ Step("resMarker", IF via = "fail" THEN "reactivate" ELSE "rcCand")
    /\ marker' = FALSE
    /\ UNCHANGED <<root, cand, rback, raMarker, others>>

(* discard_initial_config *)

\* Mutant: a record that survives only in the candidate is not merged.
DiscardReadsRootOnly ==
    /\ Step("discard", "discRoot")
    /\ merged' = root.managed
    /\ UNCHANGED <<disk, runtime, device, who, via, reapply, restored, history, faults>>

DiscardInitial ==
    /\ Step("discard", "discRoot")
    /\ merged' = root.managed \cup cand.managed
    /\ UNCHANGED <<disk, runtime, device, who, via, reapply, restored, history, faults>>

DiscardRoot ==
    /\ Step("discRoot", "discRecord")
    /\ root' = IF root.there /\ merged # {} THEN RecordOnly(root.managed) ELSE Absent
    /\ UNCHANGED <<cand, rback, marker, raMarker, others>>

DiscardRecord ==
    /\ Step("discRecord", "discCand")
    /\ root' = IF merged # {} THEN RecordOnly(merged) ELSE root
    /\ UNCHANGED <<cand, rback, marker, raMarker, others>>

DiscardCandidate ==
    /\ Step("discCand", "discRback")
    /\ cand' = Absent
    /\ UNCHANGED <<root, rback, marker, raMarker, others>>

DiscardRollback ==
    /\ Step("discRback", "discMarker")
    /\ rback' = Absent
    /\ UNCHANGED <<root, cand, marker, raMarker, others>>

DiscardMarker ==
    /\ Step("discMarker", Return)
    /\ Raised
    /\ marker' = FALSE
    /\ UNCHANGED <<root, cand, rback, raMarker, runtime, device, via, reapply,
                   restored, merged, history, faults>>

-----------------------------------------------------------------------------
(* Activation: what the services and accounts are told to follow *)

\* apply-users refuses to touch an account that exists but is not in the record.
Refused(t) == t.cfg \in live /\ t.cfg \notin t.managed

\* A completed apply-users run locks recorded users that are no longer declared
\* and rewrites the record with the declared ones.
UsersApplied ==
    /\ ~Refused(root)
    /\ live' = (live \ root.managed) \cup {root.cfg}
    /\ root' = [root EXCEPT !.managed = {root.cfg}]

UsersUntouched == UNCHANGED <<live, root>>

(* _recover_staged_apply, after recover_interrupted_apply *)

\* Boot recovery leaves activation to the ordered boot units.
SettleBoot ==
    /\ who = "boot"
    /\ Step("settle", "units")
    /\ raMarker' = FALSE
    /\ UNCHANGED <<root, cand, rback, marker, others>>

SettleSameBoot ==
    /\ who # "boot"
    /\ Step("settle", IF restored THEN "reactivate" ELSE "publish")
    /\ UNCHANGED <<disk, others>>

\* run_rollback_activation: whatever it reports, the marker is cleared next.
Reactivate ==
    /\ Step("reactivate", "clearRA")
    /\ activated' = root.cfg
    /\ UsersApplied \/ UsersUntouched
    /\ UNCHANGED <<cand, rback, marker, raMarker, runtime, locals, history, faults>>

ClearRollbackActivation ==
    /\ Step("clearRA", IF via = "fail" THEN Return ELSE "publish")
    /\ Raised
    /\ raMarker' = FALSE
    /\ UNCHANGED <<root, cand, rback, marker, runtime, device, via, reapply, restored,
                   merged, history, faults>>

\* Mutant: apply-users does not check that a users file exists.
BootUnitsUnconditional ==
    /\ Step("units", "off")
    /\ activated' = root.cfg
    /\ UsersApplied
    /\ UNCHANGED <<cand, rback, marker, raMarker, runtime, locals, history, faults>>

\* The boot units ordered after atomixos-config-recover; accounts start afresh.
BootUnits ==
    /\ Step("units", "off")
    /\ activated' = root.cfg
    /\ IF root.cfg # None THEN UsersApplied ELSE UsersUntouched
    /\ UNCHANGED <<cand, rback, marker, raMarker, runtime, locals, history, faults>>

(* Publishing: write_result and cleanup_claimed_job; finalize_abandoned_active_jobs *)

\* Mutant: an interrupted job is always reported as failed.
VerdictIgnoresReceipt == IF who = "worker" THEN "succeeded" ELSE "failed"

\* The worker gets here only after its commit; any other process reads the receipt.
Verdict ==
    IF who = "worker" \/ (root.phase = "committed" /\ root.job = claim)
    THEN "succeeded" ELSE "failed"

Publish ==
    /\ Step("publish", "unclaim")
    /\ results' = IF claim # None /\ results[claim] = "none"
                  THEN [results EXCEPT ![claim] = Verdict] ELSE results
    /\ UNCHANGED <<disk, claim, todo, device, locals, history, faults>>

Unclaim ==
    /\ Step("unclaim", IF who = "stop" THEN "off" ELSE "ready")
    /\ claim' = None
    /\ who' = IF who = "stop" THEN who ELSE "worker"
    /\ UNCHANGED <<disk, results, todo, device, via, reapply, restored, merged,
                   history, faults>>

(* atomixos-provision-apply.service *)

\* Mutant: no retry timer; only a queued job starts the service.
StartForQueuedOnly ==
    /\ todo # {}
    /\ Step("off", "recover")
    /\ who' = "finalizer"
    /\ UNCHANGED <<disk, runtime, device, via, reapply, restored, merged, history, faults>>

\* The path unit or the 30 s retry timer; ExecStart finalizes before it applies.
StartService ==
    /\ todo # {} \/ claim # None
    /\ Step("off", "recover")
    /\ who' = "finalizer"
    /\ UNCHANGED <<disk, runtime, device, via, reapply, restored, merged, history, faults>>

\* apply-staged --drain ends when it can claim nothing; ExecStopPost follows.
DrainDone ==
    /\ Step("ready", "recover")
    /\ who' = "stop"
    /\ UNCHANGED <<disk, runtime, device, via, reapply, restored, merged, history, faults>>

(* apply_staged_job *)

ClaimNextJob ==
    /\ Step("ready", "verify")
    /\ \E j \in todo : claim' = j /\ todo' = todo \ {j}
    /\ who' = "worker"
    /\ UNCHANGED <<disk, results, device, via, reapply, restored, merged, history, faults>>

VerifyStagedJob ==
    /\ Step("verify", "rc")
    /\ via' = "render"
    /\ UNCHANGED <<disk, runtime, device, who, reapply, restored, merged, history, faults>>

\* Authorize and render into the private snapshot, then recover once more.
RenderVerifiedCandidate ==
    /\ Step("authorize", "rc")
    /\ via' = "promote"
    /\ UNCHANGED <<disk, runtime, device, who, reapply, restored, merged, history, faults>>

\* Verification, authorization or the reapply check turns the job down.
RejectJob ==
    /\ \/ Step("verify", "recover")
       \/ Step("authorize", "recover")
       \/ IsProvisioned(root) /\ Step("copy", "recover")
    /\ who' = "handler"
    /\ UNCHANGED <<disk, runtime, device, via, reapply, restored, merged, history, faults>>

\* The candidate inherits the root's managed-user record.
CopyCandidate ==
    /\ Step("copy", "stamp")
    /\ reapply' = IsProvisioned(root)
    /\ cand' = Rendered(claim, root.managed)
    /\ UNCHANGED <<root, rback, marker, raMarker, runtime, device, who, via, restored,
                   merged, history, faults>>

\* .first-config and the promoted receipt
MarkPromoted ==
    /\ Step("stamp", "promRback")
    /\ cand' = [cand EXCEPT !.first = TRUE, !.job = claim, !.phase = "promoted"]
    /\ UNCHANGED <<root, rback, marker, raMarker, others>>

(* atomic_promote and atomic_promote_initial *)

PromoteDropRollback ==
    /\ Step("promRback", "promMarker")
    /\ rback' = Absent
    /\ UNCHANGED <<root, cand, marker, raMarker, others>>

\* Mutant: the swap starts without the promotion marker.
PromoteUnmarked ==
    /\ Step("promMarker", IF reapply THEN "promSave" ELSE "promRoot")
    /\ UNCHANGED <<disk, others>>

PromoteMarker ==
    /\ Step("promMarker", IF reapply THEN "promSave" ELSE "promRoot")
    /\ marker' = TRUE
    /\ UNCHANGED <<root, cand, rback, raMarker, others>>

PromoteSaveRoot ==
    /\ Step("promSave", "promSwap")
    /\ rback' = root
    /\ root' = Absent
    /\ UNCHANGED <<cand, marker, raMarker, others>>

PromoteRemoveRoot ==
    /\ Step("promRoot", "promSwap")
    /\ root' = Absent
    /\ UNCHANGED <<cand, rback, marker, raMarker, others>>

PromoteSwap ==
    /\ Step("promSwap", "activate")
    /\ root' = cand
    /\ cand' = Absent
    /\ UNCHANGED <<rback, marker, raMarker, others>>

(* complete_reapply *)

ActivateSucceeds ==
    /\ Step("activate", "commit")
    /\ activated' = root.cfg
    /\ UsersApplied
    /\ UNCHANGED <<cand, rback, marker, raMarker, runtime, locals, history, faults>>

\* The sequence fails, before or after the accounts were applied.
ActivateFails ==
    /\ Step("activate", IF rback.there THEN "markRA" ELSE "restore")
    /\ activated' = root.cfg
    /\ UsersApplied \/ UsersUntouched
    /\ via' = "fail"
    /\ UNCHANGED <<cand, rback, marker, raMarker, runtime, who, reapply, restored, merged,
                   history, faults>>

\* mark_committed; without the promoted receipt it would raise instead.
MarkCommitted ==
    /\ Step("commit", "cleanRback")
    /\ root.phase = "promoted" /\ root.job = claim
    /\ root' = [root EXCEPT !.phase = "committed"]
    /\ via' = "commit"
    /\ committed' = root.cfg
    /\ commits' = commits \cup {claim}
    /\ UNCHANGED <<cand, rback, marker, raMarker, runtime, device, who, reapply, restored,
                   merged, faults>>

-----------------------------------------------------------------------------
(* Faults *)

\* What is on disk when the current step stops half way.
TornDisk ==
    \/ /\ pc \in TornSteps \cap {"resRoot", "promRoot"}
       /\ root.there
       /\ root' \in Remnants(root)
       /\ UNCHANGED <<cand, rback>>
    \/ /\ pc = "discRoot" /\ root.there
       /\ IF merged = {}
          THEN "discRoot" \in TornSteps /\ root' \in Remnants(root)
          ELSE "discPrune" \in TornSteps /\ root' \in PruneRemnants(root)
       /\ UNCHANGED <<cand, rback>>
    \/ /\ pc \in TornSteps \cap {"commitCand", "rcCand", "discCand"}
       /\ cand.there
       /\ cand' \in Remnants(cand)
       /\ UNCHANGED <<root, rback>>
    \/ /\ pc = "copy" /\ pc \in TornSteps
       /\ cand' \in Remnants(Rendered(claim, root.managed))
       /\ UNCHANGED <<root, rback>>
    \/ /\ pc = "cleanRback" /\ pc \in TornSteps
       /\ rback.there
       /\ rback' \in Remnants(rback)
       /\ UNCHANGED <<root, cand>>

Interrupted ==
    /\ faults < MaxFaults
    /\ faults' = faults + 1
    /\ TornDisk \/ UNCHANGED <<root, cand, rback>>
    /\ UNCHANGED <<marker, raMarker, todo, via, reapply, restored, merged, history>>

\* An exception inside apply_staged_job's try block runs its except block.
WorkerRaises ==
    /\ who = "worker" /\ pc \notin {"off", "ready", "unclaim"}
    /\ pc' = "recover"
    /\ who' = "handler"
    /\ Interrupted
    /\ UNCHANGED <<claim, results, device>>

\* The process ends: killed by the service timeout, or by an exception nothing
\* catches.  ExecStopPost follows the main process; after it the unit is inactive.
\* A failed boot recovery is started again by the units that require it.
ProcessDies ==
    /\ pc \notin {"off", "units"}
    /\ pc' = IF who = "stop" THEN "off" ELSE "recover"
    /\ who' = IF who = "boot" THEN "boot" ELSE "stop"
    /\ Interrupted
    /\ UNCHANGED <<claim, results, device>>

\* /run and the accounts of the overlay root are gone; /data stays.
PowerLoss ==
    /\ pc' = "recover"
    /\ who' = "boot"
    /\ claim' = None
    /\ results' = [j \in Jobs |-> "none"]
    /\ live' = {}
    /\ activated' = None
    /\ Interrupted

-----------------------------------------------------------------------------
Recovering ==
    \/ RecoverInterruptedApply \/ DropLaterCandidate \/ BeginRollbackActivation
    \/ CleanupRollback \/ CleanupMarker
    \/ RecoverConfigRoot \/ RecoverLeftovers \/ RecoverMarker
    \/ RestoreRollback \/ RestoreNothing \/ RestoreRemoveRoot \/ RestoreRename
    \/ RestoreRecord \/ RestoreMarker
    \/ DiscardInitial \/ DiscardRoot \/ DiscardRecord \/ DiscardCandidate
    \/ DiscardRollback \/ DiscardMarker
    \/ SettleBoot \/ SettleSameBoot \/ Reactivate \/ ClearRollbackActivation \/ BootUnits

Applying ==
    \/ ClaimNextJob \/ VerifyStagedJob \/ RenderVerifiedCandidate \/ RejectJob
    \/ CopyCandidate \/ MarkPromoted
    \/ PromoteDropRollback \/ PromoteMarker \/ PromoteSaveRoot \/ PromoteRemoveRoot
    \/ PromoteSwap \/ ActivateSucceeds \/ ActivateFails \/ MarkCommitted

Work == StartService \/ DrainDone \/ Recovering \/ Applying \/ Publish \/ Unclaim
Fault == WorkerRaises \/ ProcessDies \/ PowerLoss

\* The service is inactive; every other state must have a step.
Rest == pc = "off" /\ UNCHANGED vars

Next == Work \/ Fault \/ Rest

\* A process that can take a step takes one, and systemd starts the apply service
\* while a job is queued or a claim is retained (path unit and retry timer).
Spec == Init /\ [][Next]_vars /\ WF_vars(Work)

-----------------------------------------------------------------------------
(* Properties *)

\* Every variable keeps its type.  An activation always has a configuration to follow
\* and a managed account a name: no path runs apply-users on a missing config.toml.
TypeOK ==
    /\ root \in Tree /\ cand \in Tree /\ rback \in Tree
    /\ marker \in BOOLEAN /\ raMarker \in BOOLEAN
    /\ claim \in Jobs \cup {None}
    /\ results \in [Jobs -> {"none", "succeeded", "failed"}]
    /\ todo \subseteq Jobs
    /\ live \subseteq Configs
    /\ activated \in Configs \cup {None}
    /\ pc \in Labels
    /\ who \in {"boot", "finalizer", "stop", "worker", "handler"}
    /\ via \in {"recover", "render", "promote", "fail", "commit"}
    /\ reapply \in BOOLEAN /\ restored \in BOOLEAN
    /\ merged \subseteq Configs
    /\ committed \in Configs \cup {None}
    /\ commits \subseteq Jobs
    /\ faults \in 0..MaxFaults

\* The tree that recover_interrupted_apply would leave as the root, were it run now.
RecoveredTree ==
    IF ~raMarker /\ root.phase = "committed" THEN root
    ELSE IF ~raMarker /\ root.phase = "promoted" /\ ~rback.there THEN Absent
    ELSE IF marker /\ rback.there THEN rback
    ELSE IF root.cfg # None THEN root
    ELSE IF ~marker /\ ~cand.there /\ rback.there THEN rback
    ELSE Absent

\* The configuration the disk stands for: None on an unprovisioned device,
\* "broken" when recovery would keep a tree with files missing.
StoreView ==
    LET t == RecoveredTree
    IN IF ~IsProvisioned(t) THEN None ELSE IF t.whole /\ t.first THEN t.cfg ELSE "broken"

\* At every instant, also half way through a promotion, a rollback or the recovery
\* of one, a recovery started now would find a complete copy of exactly the
\* configuration whose commit receipt was written last, and an initial apply that
\* never committed would leave the device unprovisioned.
StoreIsCommitted == StoreView = committed

Idle == pc \in {"off", "ready"} /\ claim = None

\* recover_interrupted_apply: "An uncommitted initial promotion is discarded."
UncommittedInitialDiscarded == Idle /\ committed = None => ~IsProvisioned(root)

\* Whenever no job is claimed and no process runs, recovery has finished: the root
\* is the committed configuration, and no marker, candidate or rollback tree is left
\* that could divert the next apply.  (The retry timer starts the service only for
\* queued jobs and retained claims, so nothing else would clean up before a reboot.)
CleanWhenIdle ==
    Idle =>
        /\ root.cfg = committed /\ root.first = (committed # None)
        /\ committed # None => root.whole
        /\ ~marker /\ ~raMarker /\ ~cand.there /\ ~rback.there

\* A published result is the truth: succeeded if and only if the job's commit
\* receipt was written, whichever of worker, except block and finalizer wrote it.
ResultsTruthful ==
    \A j \in Jobs : results[j] # "none" => (results[j] = "succeeded" <=> j \in commits)

\* A result is published only when the last activation sequence ran for the
\* configuration that is now in place: a failed apply is not reported while the
\* services still follow it and the restored configuration was never activated.
ResultAfterActivation ==
    [][results' # results /\ claim' # None /\ root.cfg # None
        => activated = root.cfg]_vars

\* discard_initial_config: until a first configuration commits, every account a
\* completed apply-users run left usable stays named by a record on disk, also
\* while a discard is interrupted and repeated.
DiscardKeepsRecord ==
    committed = None => live \subseteq root.managed \cup cand.managed

\* The records cover every usable managed account whenever nothing is in flight, so
\* a later apply can lock or update it ("A rollback merges the failed and restored
\* managed-user lists before removing the failed tree").
RollbackMergesRecords == Idle => live \subseteq root.managed

\* Every claimed job is answered, unless a power loss takes the claim with it.
EveryClaimAnswered ==
    \A j \in Jobs : claim = j ~> (results[j] # "none" \/ who = "boot")

\* The apply path with all its recoveries is one atomic replacement.
Atomic == INSTANCE AtomicApply WITH store <- StoreView, job <- claim, verdict <- results
RefinesAtomicApply == Atomic!Spec

=============================================================================
