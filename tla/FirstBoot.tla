------------------------------ MODULE FirstBoot ----------------------------
(***************************************************************************)
(* first-boot.sh beside the apply worker, on a device that has not yet     *)
(* completed its first boot.  The script looks for a configuration (the    *)
(* active root, a seed on /boot after a fresh flash, a USB seed, or what   *)
(* the bootstrap console applies), imports a seed, runs the apply steps,   *)
(* confirms the slot and writes the sentinel.                              *)
(*                                                                         *)
(* A promotion holds the provisioning lock, import and worker alike; the   *)
(* script's own reads and complete-initial do not.  The steps between them *)
(* are therefore the renames and markers of ConfigStore; recovery, restore *)
(* and discard, which ConfigStore takes apart, are one step here.          *)
(*                                                                         *)
(* discover_and_import_provisioning runs as the condition of an `if`, so   *)
(* bash ignores `set -e` inside it and in everything it calls: only an     *)
(* explicit return and the status of a last command count.                 *)
(***************************************************************************)
EXTENDS Integers

CONSTANTS
    Configs,        \* configurations, as seeds or as jobs of the console
    Broken,         \* those the import refuses
    Required,       \* those with a non-empty health-required.json
    Reapply,        \* whether signed jobs arrive before the first boot is complete
    MaxJobs,        \* bound: jobs of the API
    MaxFaults       \* bound: power losses and killed workers

NoTree == [config |-> "none", receipt |-> "none"]
NoConfig == "none"

ASSUME FirstBootConstants ==
    /\ NoConfig \notin Configs /\ Broken \subseteq Configs /\ Required \subseteq Configs
    /\ Reapply \in BOOLEAN /\ MaxJobs \in Nat /\ MaxFaults \in Nat

VARIABLES
    root, rback, cand,  \* the active, rollback and candidate roots
    marker,             \* the promotion marker beside them
    fresh,              \* /etc/atomixos/fresh-flash, of the first boot only
    bootSeed, usbSeed,  \* what /boot and a USB stick hold
    pc, path,           \* the script: its step, and where the configuration came from
    failures,           \* the apply steps that failed in this run
    op,                 \* the operation that holds the provisioning lock
    stopped,            \* the worker was killed, ExecStopPost has not run yet
    sentinel,           \* /data/.completed_first_boot
    jobs, faults

disk == <<root, rback, cand, marker>>
media == <<fresh, bootSeed, usbSeed>>
script == <<pc, path, failures>>
counters == <<jobs, faults>>
vars == <<disk, media, script, op, stopped, sentinel, counters>>

NoOp == [who |-> "nobody", config |-> NoConfig, reapply |-> FALSE, step |-> "free"]

Init ==
    /\ root = NoTree /\ rback = NoTree /\ cand = NoTree /\ marker = FALSE
    /\ fresh \in BOOLEAN
    /\ bootSeed \in Configs \cup {NoConfig} /\ usbSeed \in Configs \cup {NoConfig}
    /\ pc = "discover" /\ path = "none" /\ failures = {}
    /\ op = NoOp /\ stopped = FALSE /\ sentinel = FALSE
    /\ jobs = 0 /\ faults = 0

-----------------------------------------------------------------------------
(* Recovery *)

Disk(r, b, c, m) == root' = r /\ rback' = b /\ cand' = c /\ marker' = m

\* Mutant: a marked root without a rollback tree is discarded, complete or not.
RecoverOrDiscard ==
    IF marker THEN Disk(rback, NoTree, NoTree, FALSE)
    ELSE IF root # NoTree \/ cand # NoTree THEN Disk(root, rback, NoTree, FALSE)
    ELSE Disk(rback, NoTree, NoTree, FALSE)

\* recover_config_root; a candidate never outlives it.
RecoverConfigRoot ==
    IF marker /\ rback # NoTree THEN Disk(rback, NoTree, NoTree, FALSE)
    ELSE IF marker THEN Disk(root, NoTree, NoTree, FALSE)
    ELSE IF root # NoTree \/ cand # NoTree THEN Disk(root, rback, NoTree, FALSE)
    ELSE Disk(rback, NoTree, NoTree, FALSE)

\* recover_interrupted_apply
RecoverInterruptedApply ==
    CASE root.receipt = "committed" -> Disk(root, NoTree, NoTree, FALSE)
      [] root.receipt = "promoted" /\ rback = NoTree -> Disk(NoTree, NoTree, NoTree, FALSE)
      [] OTHER -> RecoverConfigRoot

-----------------------------------------------------------------------------
(* The locked operations: the seed import and the worker's jobs *)

Step(who, from, to) ==
    /\ op.who \in who /\ op.step = from
    /\ op' = IF to = "free" THEN NoOp ELSE [op EXCEPT !.step = to]

Both == {"import", "worker"}

\* The import takes the lock and recovers, then goes the way of the root it finds.
BeginImport ==
    /\ pc = "import" /\ op = NoOp
    /\ RecoverConfigRoot
    /\ LET seed == IF fresh /\ bootSeed # NoConfig THEN bootSeed ELSE usbSeed
       IN  op' = [who |-> "import", config |-> seed, reapply |-> root' # NoTree, step |-> "render"]
    /\ UNCHANGED <<media, script, stopped, sentinel, counters>>

\* finalize-staged, then a job: unsigned ones are accepted on an unprovisioned root only.
BeginJob(c, signed) ==
    /\ op = NoOp /\ ~stopped /\ jobs < MaxJobs
    /\ jobs' = jobs + 1
    /\ RecoverInterruptedApply
    /\ signed => Reapply
    /\ LET reapply == root' # NoTree
       IN  op' = IF reapply = signed /\ c \notin Broken
                 THEN [who |-> "worker", config |-> c, reapply |-> reapply, step |-> "render"]
                 ELSE NoOp
    /\ UNCHANGED <<media, script, stopped, sentinel, faults>>

\* The import cannot be rendered: the candidate is gone, the status is passed on.
ImportRefused ==
    /\ Step({"import"}, "render", "free")
    /\ op.config \in Broken
    /\ pc' = "failed"
    /\ UNCHANGED <<disk, media, path, failures, stopped, sentinel, counters>>

WriteCandidate ==
    /\ Step(Both, "render", "mark")
    /\ op.config \notin Broken
    /\ cand' = [config |-> op.config, receipt |-> IF op.who = "worker" THEN "promoted" ELSE "none"]
    /\ UNCHANGED <<root, rback, marker, media, script, stopped, sentinel, counters>>

\* atomic_promote and atomic_promote_initial
MarkPromotion ==
    /\ Step(Both, "mark", "displace")
    /\ rback' = NoTree /\ marker' = TRUE
    /\ UNCHANGED <<root, cand, media, script, stopped, sentinel, counters>>

DisplaceRoot ==
    /\ Step(Both, "displace", "swap")
    /\ rback' = IF op.reapply THEN root ELSE rback
    /\ root' = NoTree
    /\ UNCHANGED <<cand, marker, media, script, stopped, sentinel, counters>>

SwapIn ==
    /\ Step(Both, "swap", "activate")
    /\ root' = cand /\ cand' = NoTree
    /\ UNCHANGED <<rback, marker, media, script, stopped, sentinel, counters>>

\* Mutant: the lock is kept together with the marker.
KeepPendingAndLock ==
    /\ op.who = "import" /\ op.step = "activate" /\ ~op.reapply
    /\ pc' = "users"
    /\ UNCHANGED <<disk, media, path, failures, op, stopped, sentinel, counters>>

\* ATOMIXOS_KEEP_INITIAL_PROMOTION_PENDING: an initial seed is left with its marker.
KeepPending ==
    /\ ~op.reapply
    /\ Step({"import"}, "activate", "free")
    /\ pc' = "users"
    /\ UNCHANGED <<disk, media, path, failures, stopped, sentinel, counters>>

Activated ==
    /\ op.who = "import" => op.reapply
    /\ Step(Both, "activate", "cleanup")
    /\ root' = IF op.who = "worker" THEN [root EXCEPT !.receipt = "committed"] ELSE root
    /\ UNCHANGED <<rback, cand, marker, media, script, stopped, sentinel, counters>>

\* cleanup_rollback
CleanupRollback ==
    /\ Step(Both, "cleanup", "unmark")
    /\ rback' = NoTree
    /\ UNCHANGED <<root, cand, marker, media, script, stopped, sentinel, counters>>

CleanupMarker ==
    /\ Step(Both, "unmark", "free")
    /\ marker' = FALSE
    /\ pc' = IF op.who = "import" THEN "users" ELSE pc
    /\ UNCHANGED <<root, rback, cand, media, path, failures, stopped, sentinel, counters>>

\* restore_rollback finds a rollback tree, or an initial configuration is discarded, or
\* the error path recovers what the receipt says.
ActivationFails ==
    /\ op.who = "import" => op.reapply
    /\ Step(Both, "activate", "free")
    /\ IF rback # NoTree THEN Disk(rback, NoTree, NoTree, FALSE) ELSE RecoverInterruptedApply
    /\ pc' = IF op.who = "import" THEN "failed" ELSE pc
    /\ UNCHANGED <<media, path, failures, stopped, sentinel, counters>>

\* ExecStopPost
Finalize ==
    /\ stopped /\ op = NoOp
    /\ stopped' = FALSE
    /\ RecoverInterruptedApply
    /\ UNCHANGED <<media, script, op, sentinel, counters>>

-----------------------------------------------------------------------------
(* The script *)

Goto(from, to) == pc = from /\ pc' = to
Reading == <<disk, media, op, stopped, sentinel, counters>>

\* has_valid_provisioning reads the marker, then config.toml.
ReadMarker(from, unmarked, marked) == Goto(from, IF marker THEN marked ELSE unmarked)
ReadConfig(from, valid, none) == Goto(from, IF root # NoTree THEN valid ELSE none)

Discover ==
    /\ \/ ReadMarker("discover", "discover-config", "seek") /\ UNCHANGED path
       \/ ReadConfig("discover-config", "users", "seek")
          /\ path' = IF root # NoTree THEN "existing" ELSE path
    /\ UNCHANGED <<Reading, failures>>

\* open_boot_seed: /boot cannot be mounted, and no other source is tried.
BootMountFails ==
    /\ fresh /\ Goto("seek", "failed")
    /\ UNCHANGED <<Reading, path, failures>>

\* The seed on /boot comes before a USB stick, the console after both.
FindSeed ==
    /\ LET found == (fresh /\ bootSeed # NoConfig) \/ usbSeed # NoConfig
       IN  /\ Goto("seek", IF found THEN "import" ELSE "console")
           /\ path' = IF found THEN "seed" ELSE "console"
    /\ UNCHANGED <<Reading, failures>>

\* bootstrap_web_console polls once a second.
BootstrapWebConsole ==
    /\ \/ ReadMarker("console", "console-config", "console")
       \/ ReadConfig("console-config", "users", "console")
    /\ UNCHANGED <<Reading, path, failures>>

ApplyStep(name, from, to) ==
    /\ Goto(from, to)
    /\ failures' \in {failures, failures \cup {name}}
    /\ UNCHANGED <<Reading, path>>

\* apply_managed_users returns 0 whatever systemctl says.
ApplyManagedUsers == ApplyStep("users", "users", "sync")

\* sync_quadlet_units: LAN or firewall fail, or Quadlet with required units; its
\* status is not looked at.
SyncQuadletUnits == ApplyStep("sync", "sync", "health")

\* Mutant: a failed health check sends the console path back to wait.
HealthWaits ==
    /\ \/ Goto("health", IF path = "seed" THEN "complete" ELSE "verify")
       \/ Goto("health", "console") /\ path = "console" /\ root.config \in Required
    /\ UNCHANGED <<Reading, path, failures>>

\* check_required_health decides on the console path only, where it is the last command.
CheckRequiredHealth ==
    \/ /\ Goto("health", IF path = "seed" THEN "complete" ELSE "verify")
       /\ UNCHANGED <<Reading, path, failures>>
    \/ /\ root.config \in Required
       /\ failures' = failures \cup {"health"}
       /\ Goto("health", CASE path = "seed" -> "complete" [] path = "existing" -> "verify"
                           [] path = "console" -> "failed")
       /\ UNCHANGED <<Reading, path>>

\* complete-initial: cleanup_rollback without the provisioning lock
CompleteInitial ==
    \/ /\ Goto("complete", "complete-marker")
       /\ rback' = NoTree
       /\ UNCHANGED <<root, cand, marker, media, path, failures, op, stopped, sentinel, counters>>
    \/ /\ Goto("complete-marker", "verify")
       /\ marker' = FALSE
       /\ UNCHANGED <<root, rback, cand, media, path, failures, op, stopped, sentinel, counters>>

Verify ==
    /\ \/ ReadMarker("verify", "verify-config", "failed")
       \/ ReadConfig("verify-config", "mark-good", "failed")
    /\ UNCHANGED <<Reading, path, failures>>

MarkGood ==
    /\ Goto("mark-good", "sentinel") \/ Goto("mark-good", "failed")
    /\ UNCHANGED <<Reading, path, failures>>

WriteSentinel ==
    /\ Goto("sentinel", "done")
    /\ sentinel' = TRUE
    /\ UNCHANGED <<disk, media, path, failures, op, stopped, counters>>

-----------------------------------------------------------------------------
(* Faults *)

\* The worker is killed and leaves the lock.
WorkerKilled ==
    /\ op.who = "worker" /\ faults < MaxFaults
    /\ faults' = faults + 1
    /\ op' = NoOp /\ stopped' = TRUE
    /\ UNCHANGED <<disk, media, script, sentinel, jobs>>

\* Power fails; atomixos-config-recover runs before first-boot, unless it is complete.
PowerLoss ==
    /\ faults < MaxFaults
    /\ faults' = faults + 1
    /\ RecoverInterruptedApply
    /\ fresh' = FALSE /\ op' = NoOp /\ stopped' = FALSE
    /\ pc' = IF sentinel THEN "done" ELSE "discover"
    /\ path' = IF sentinel THEN path ELSE "none"
    /\ failures' = IF sentinel THEN failures ELSE {}
    /\ UNCHANGED <<bootSeed, usbSeed, sentinel, jobs>>

-----------------------------------------------------------------------------
Locked ==
    \/ ImportRefused \/ WriteCandidate \/ MarkPromotion \/ DisplaceRoot \/ SwapIn
    \/ KeepPending \/ Activated \/ CleanupRollback \/ CleanupMarker \/ ActivationFails

Script ==
    \/ Discover \/ BootMountFails \/ FindSeed \/ BeginImport \/ BootstrapWebConsole
    \/ ApplyManagedUsers \/ SyncQuadletUnits \/ CheckRequiredHealth \/ CompleteInitial
    \/ Verify \/ MarkGood \/ WriteSentinel

Next ==
    \/ Locked \/ Script \/ Finalize
    \/ \E c \in Configs, signed \in BOOLEAN : BeginJob(c, signed)
    \/ WorkerKilled \/ PowerLoss

Spec == Init /\ [][Next]_vars

\* systemd runs the script without a time limit, and finalizes and restarts the worker.
Fairness == WF_vars(Locked) /\ WF_vars(Script) /\ WF_vars(Finalize)

FairSpec == Spec /\ Fairness

-----------------------------------------------------------------------------
(* Properties *)

Tree == [config : Configs \cup {NoConfig}, receipt : {"none", "promoted", "committed"}]

\* Every variable has its type, and the script waits for its import.
TypeOK ==
    /\ root \in Tree /\ rback \in Tree /\ cand \in Tree
    /\ marker \in BOOLEAN /\ fresh \in BOOLEAN /\ stopped \in BOOLEAN /\ sentinel \in BOOLEAN
    /\ bootSeed \in Configs \cup {NoConfig} /\ usbSeed \in Configs \cup {NoConfig}
    /\ pc \in {"discover", "discover-config", "seek", "import", "console", "console-config",
               "users", "sync", "health", "complete", "complete-marker", "verify",
               "verify-config", "mark-good", "sentinel", "done", "failed"}
    /\ path \in {"none", "existing", "seed", "console"}
    /\ failures \subseteq {"users", "sync", "health"}
    /\ op \in [who : Both \cup {"nobody"}, config : Configs \cup {NoConfig}, reapply : BOOLEAN,
               step : {"free", "render", "mark", "displace", "swap", "activate", "cleanup",
                       "unmark"}]
    /\ op.who = "import" => pc = "import"
    /\ jobs \in 0..MaxJobs /\ faults \in 0..MaxFaults

\* What a boot at this instant would recover
RecoveredConfig ==
    IF root.receipt = "committed" THEN root.config
    ELSE IF root.receipt = "promoted" /\ rback = NoTree THEN NoConfig
    ELSE IF marker /\ rback # NoTree THEN rback.config
    ELSE IF marker \/ root # NoTree \/ cand # NoTree THEN root.config
    ELSE rback.config

\* From the import of a seed to the end of the first boot a recovery at any instant
\* yields the seed, although jobs of the console are claimed, killed and finalized
\* meanwhile and the import left neither a receipt nor a finished promotion.
ImportedSeedKept ==
    path = "seed" /\ pc \notin {"import", "failed"} => RecoveredConfig \in {bootSeed, usbSeed} \ {NoConfig}

\* Once a configuration is in place and stays, the script ends: no source of the
\* configuration leaves it polling or waiting for the lock.
ScriptEnds ==
    <>[](root # NoTree) => <>[](pc \in {"done", "failed"})

\* The sentinel is written only if LAN, firewall and Quadlet synchronization and the
\* health check of the required units succeeded in the run that writes it.
SentinelAfterChecks == sentinel => failures \cap {"sync", "health"} = {}
=============================================================================
