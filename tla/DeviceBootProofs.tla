-------------------------- MODULE DeviceBootProofs -------------------------
(***************************************************************************)
(* Safety of a booting device: of the first-boot script beside the apply   *)
(* worker, for any configurations, seeds, jobs and power losses, and of    *)
(* the slots of a CM3, for which the theorems of ABBootProofs are used.    *)
(***************************************************************************)
EXTENDS MCDeviceBoot, TLAPS

-----------------------------------------------------------------------------
(* The first-boot script *)

Seeds == {bootSeed, usbSeed} \ {NoConfig}

\* Where the script is says where its configuration comes from, and the sentinel ends it.
ScriptPath ==
    /\ pc \in {"discover", "discover-config", "seek"} => path = "none"
    /\ pc \in {"console", "console-config"} => path = "console"
    /\ pc = "import" => path = "seed" /\ ((fresh /\ bootSeed # NoConfig) \/ usbSeed # NoConfig)
    /\ pc \in {"users", "sync", "health"} => path # "none"
    /\ sentinel => pc = "done"

\* What an import has on disk at each of its steps: its candidate and then its root hold
\* the seed without a receipt, and a rollback tree only if it replaces something.
ImportSteps ==
    op.who = "import" =>
        /\ op.config \in Seeds
        /\ op.step \in {"mark", "displace", "swap"} => cand = [config |-> op.config, receipt |-> "none"]
        /\ op.step \in {"activate", "cleanup", "unmark"} => root = [config |-> op.config, receipt |-> "none"]
        /\ op.step = "displace" => rback = NoTree
        /\ op.step \in {"swap", "activate"} /\ ~op.reapply => rback = NoTree
        /\ op.step = "unmark" => rback = NoTree

ScriptInv == TypeOK /\ ScriptPath /\ ImportSteps

\* After the import the root is the seed's, no rollback tree competes with it and nobody
\* has the provisioning lock.
SeedStays ==
    path = "seed" /\ pc \notin {"import", "failed"} =>
        /\ root.config \in Seeds /\ root.receipt = "none"
        /\ rback = NoTree /\ op = NoOp

LEMMA NoTreeFacts ==
    NoTree \in Tree /\ NoTree.config = NoConfig /\ NoTree.receipt = "none"
  BY DEF NoTree, Tree, NoConfig

\* The operations that hold the provisioning lock
Ops == [who : Both \cup {"nobody"}, config : Configs \cup {NoConfig}, reapply : BOOLEAN,
        step : {"free", "render", "mark", "displace", "swap", "activate", "cleanup", "unmark"}]

LEMMA NoOpFacts == NoOp \in Ops /\ NoOp.who = "nobody"
  BY DEF NoOp, Ops

\* Recovery leaves trees, whatever it finds.
LEMMA RecoveryTyped ==
    TypeOK /\ (RecoverConfigRoot \/ RecoverInterruptedApply)
    => root' \in Tree /\ rback' \in Tree /\ cand' \in Tree /\ marker' \in BOOLEAN
  BY NoTreeFacts DEF TypeOK, RecoverConfigRoot, RecoverInterruptedApply, Disk

\* A finished seed is what recovery finds and leaves.
LEMMA RecoveryKeepsSeed ==
    ASSUME TypeOK, root # NoTree, root.receipt = "none", rback = NoTree,
           RecoverConfigRoot \/ RecoverInterruptedApply
    PROVE  root' = root /\ rback' = NoTree
  BY DEF RecoverConfigRoot, RecoverInterruptedApply, Disk

LEMMA ScriptInit == Init => ScriptInv
  <1> SUFFICES ASSUME Init PROVE ScriptInv
    OBVIOUS
  <1>1. TypeOK
    <2>1. jobs \in 0 .. MaxJobs /\ faults \in 0 .. MaxFaults
      BY FirstBootConstants DEF Init
    <2>2. root \in Tree /\ rback \in Tree /\ cand \in Tree /\ op \in Ops /\ op.who = "nobody"
      BY NoTreeFacts, NoOpFacts DEF Init
    <2> QED
      BY <2>1, <2>2 DEF Init, TypeOK, Ops
  <1> QED
    BY <1>1, NoOpFacts DEF Init, ScriptInv, ScriptPath, ImportSteps

LEMMA ScriptStep == ScriptInv /\ [Next]_vars => ScriptInv'
  <1>0. SUFFICES ASSUME TypeOK, ScriptPath, ImportSteps, [Next]_vars
                 PROVE  ScriptInv'
    BY DEF ScriptInv
  <1> USE DEF disk, media, script, counters
  <1>1. CASE ImportRefused
    <2>1. TypeOK'
      BY <1>0, <1>1, FirstBootConstants, NoTreeFacts, NoOpFacts DEF TypeOK, Ops, ImportRefused,
         Step, Both
    <2>2. ScriptPath'
      BY <1>0, <1>1, FirstBootConstants, NoTreeFacts, NoOpFacts DEF TypeOK, ScriptPath,
         ImportRefused, Step, Both
    <2>3. ImportSteps'
      BY <1>0, <1>1, FirstBootConstants, NoTreeFacts, NoOpFacts DEF TypeOK, ScriptPath,
         ImportSteps, Seeds, ImportRefused, Step, Both
    <2> QED
      BY <2>1, <2>2, <2>3 DEF ScriptInv
  <1>2. CASE WriteCandidate
    <2>1. TypeOK'
      BY <1>0, <1>2, FirstBootConstants, NoTreeFacts, NoOpFacts DEF TypeOK, Tree, WriteCandidate,
         Step, Both
    <2>2. ScriptPath'
      BY <1>0, <1>2, FirstBootConstants, NoTreeFacts, NoOpFacts DEF TypeOK, ScriptPath,
         WriteCandidate, Step, Both
    <2>3. ImportSteps'
      BY <1>0, <1>2, FirstBootConstants, NoTreeFacts, NoOpFacts DEF TypeOK, ScriptPath,
         ImportSteps, Seeds, WriteCandidate, Step, Both
    <2> QED
      BY <2>1, <2>2, <2>3 DEF ScriptInv
  <1>3. CASE MarkPromotion
    <2>1. TypeOK'
      BY <1>0, <1>3, FirstBootConstants, NoTreeFacts, NoOpFacts DEF TypeOK, MarkPromotion, Step,
         Both
    <2>2. ScriptPath'
      BY <1>0, <1>3, FirstBootConstants, NoTreeFacts, NoOpFacts DEF TypeOK, ScriptPath,
         MarkPromotion, Step, Both
    <2>3. ImportSteps'
      BY <1>0, <1>3, FirstBootConstants, NoTreeFacts, NoOpFacts DEF TypeOK, ScriptPath,
         ImportSteps, Seeds, MarkPromotion, Step, Both
    <2> QED
      BY <2>1, <2>2, <2>3 DEF ScriptInv
  <1>4. CASE DisplaceRoot
    <2>1. TypeOK'
      BY <1>0, <1>4, FirstBootConstants, NoTreeFacts, NoOpFacts DEF TypeOK, DisplaceRoot, Step,
         Both
    <2>2. ScriptPath'
      BY <1>0, <1>4, FirstBootConstants, NoTreeFacts, NoOpFacts DEF TypeOK, ScriptPath,
         DisplaceRoot, Step, Both
    <2>3. ImportSteps'
      BY <1>0, <1>4, FirstBootConstants, NoTreeFacts, NoOpFacts DEF TypeOK, ScriptPath,
         ImportSteps, Seeds, DisplaceRoot, Step, Both
    <2> QED
      BY <2>1, <2>2, <2>3 DEF ScriptInv
  <1>5. CASE SwapIn
    <2>1. TypeOK'
      BY <1>0, <1>5, FirstBootConstants, NoTreeFacts, NoOpFacts DEF TypeOK, SwapIn, Step, Both
    <2>2. ScriptPath'
      BY <1>0, <1>5, FirstBootConstants, NoTreeFacts, NoOpFacts DEF TypeOK, ScriptPath, SwapIn,
         Step, Both
    <2>3. ImportSteps'
      BY <1>0, <1>5, FirstBootConstants, NoTreeFacts, NoOpFacts DEF TypeOK, ScriptPath,
         ImportSteps, Seeds, SwapIn, Step, Both
    <2> QED
      BY <2>1, <2>2, <2>3 DEF ScriptInv
  <1>6. CASE KeepPending
    <2>1. TypeOK'
      BY <1>0, <1>6, FirstBootConstants, NoTreeFacts, NoOpFacts DEF TypeOK, Ops, KeepPending,
         Step, Both
    <2>2. ScriptPath'
      BY <1>0, <1>6, FirstBootConstants, NoTreeFacts, NoOpFacts DEF TypeOK, ScriptPath,
         KeepPending, Step, Both
    <2>3. ImportSteps'
      BY <1>0, <1>6, FirstBootConstants, NoTreeFacts, NoOpFacts DEF TypeOK, ScriptPath,
         ImportSteps, Seeds, KeepPending, Step, Both
    <2> QED
      BY <2>1, <2>2, <2>3 DEF ScriptInv
  <1>7. CASE Activated
    <2>1. TypeOK'
      BY <1>0, <1>7, FirstBootConstants, NoTreeFacts, NoOpFacts DEF TypeOK, Tree, Activated,
         Step, Both
    <2>2. ScriptPath'
      BY <1>0, <1>7, FirstBootConstants, NoTreeFacts, NoOpFacts DEF TypeOK, ScriptPath,
         Activated, Step, Both
    <2>3. ImportSteps'
      BY <1>0, <1>7, FirstBootConstants, NoTreeFacts, NoOpFacts DEF TypeOK, ScriptPath,
         ImportSteps, Seeds, Activated, Step, Both
    <2> QED
      BY <2>1, <2>2, <2>3 DEF ScriptInv
  <1>8. CASE CleanupRollback
    <2>1. TypeOK'
      BY <1>0, <1>8, FirstBootConstants, NoTreeFacts, NoOpFacts DEF TypeOK, CleanupRollback,
         Step, Both
    <2>2. ScriptPath'
      BY <1>0, <1>8, FirstBootConstants, NoTreeFacts, NoOpFacts DEF TypeOK, ScriptPath,
         CleanupRollback, Step, Both
    <2>3. ImportSteps'
      BY <1>0, <1>8, FirstBootConstants, NoTreeFacts, NoOpFacts DEF TypeOK, ScriptPath,
         ImportSteps, Seeds, CleanupRollback, Step, Both
    <2> QED
      BY <2>1, <2>2, <2>3 DEF ScriptInv
  <1>9. CASE CleanupMarker
    <2>1. TypeOK'
      BY <1>0, <1>9, FirstBootConstants, NoTreeFacts, NoOpFacts DEF TypeOK, Ops, CleanupMarker,
         Step, Both
    <2>2. ScriptPath'
      BY <1>0, <1>9, FirstBootConstants, NoTreeFacts, NoOpFacts DEF TypeOK, ScriptPath,
         CleanupMarker, Step, Both
    <2>3. ImportSteps'
      BY <1>0, <1>9, FirstBootConstants, NoTreeFacts, NoOpFacts DEF TypeOK, ScriptPath,
         ImportSteps, Seeds, CleanupMarker, Step, Both
    <2> QED
      BY <2>1, <2>2, <2>3 DEF ScriptInv
  <1>10. CASE ActivationFails
    <2>1. TypeOK'
      <3>1. root' \in Tree /\ rback' \in Tree /\ cand' \in Tree /\ marker' \in BOOLEAN
        BY <1>0, <1>10, RecoveryTyped, NoTreeFacts DEF ActivationFails, Step, Both, Disk, TypeOK
      <3>2. op' \in Ops
        BY <1>0, <1>10, NoOpFacts, RecoveryTyped DEF TypeOK, Ops, Both, ActivationFails, Step, Both, Disk
      <3> QED
        BY <1>0, <1>10, <3>1, <3>2, NoOpFacts, FirstBootConstants DEF TypeOK, Ops,
           ActivationFails, Step, Both, Disk
    <2>2. ScriptPath'
      BY <1>0, <1>10, FirstBootConstants, NoTreeFacts, NoOpFacts, RecoveryTyped DEF TypeOK, ScriptPath,
         ActivationFails, Step, Both
    <2>3. ImportSteps'
      BY <1>0, <1>10, FirstBootConstants, NoTreeFacts, NoOpFacts, RecoveryTyped DEF TypeOK, ScriptPath,
         ImportSteps, Seeds, ActivationFails, Step, Both
    <2> QED
      BY <2>1, <2>2, <2>3 DEF ScriptInv
  <1>11. CASE Discover
    <2>1. TypeOK'
      BY <1>0, <1>11, FirstBootConstants, NoTreeFacts, NoOpFacts DEF TypeOK, Discover, Goto,
         Reading, ReadMarker, ReadConfig
    <2>2. ScriptPath'
      BY <1>0, <1>11, FirstBootConstants, NoTreeFacts, NoOpFacts DEF TypeOK, ScriptPath,
         Discover, Goto, Reading, ReadMarker, ReadConfig
    <2>3. ImportSteps'
      BY <1>0, <1>11, FirstBootConstants, NoTreeFacts, NoOpFacts DEF TypeOK, ScriptPath,
         ImportSteps, Seeds, Discover, Goto, Reading, ReadMarker, ReadConfig
    <2> QED
      BY <2>1, <2>2, <2>3 DEF ScriptInv
  <1>12. CASE BootMountFails
    <2>1. TypeOK'
      BY <1>0, <1>12, FirstBootConstants, NoTreeFacts, NoOpFacts DEF TypeOK, BootMountFails,
         Goto, Reading
    <2>2. ScriptPath'
      BY <1>0, <1>12, FirstBootConstants, NoTreeFacts, NoOpFacts DEF TypeOK, ScriptPath,
         BootMountFails, Goto, Reading
    <2>3. ImportSteps'
      BY <1>0, <1>12, FirstBootConstants, NoTreeFacts, NoOpFacts DEF TypeOK, ScriptPath,
         ImportSteps, Seeds, BootMountFails, Goto, Reading
    <2> QED
      BY <2>1, <2>2, <2>3 DEF ScriptInv
  <1>13. CASE FindSeed
    <2>1. TypeOK'
      BY <1>0, <1>13, FirstBootConstants, NoTreeFacts, NoOpFacts DEF TypeOK, FindSeed, Goto,
         Reading
    <2>2. ScriptPath'
      BY <1>0, <1>13, FirstBootConstants, NoTreeFacts, NoOpFacts DEF TypeOK, ScriptPath,
         FindSeed, Goto, Reading
    <2>3. ImportSteps'
      BY <1>0, <1>13, FirstBootConstants, NoTreeFacts, NoOpFacts DEF TypeOK, ScriptPath,
         ImportSteps, Seeds, FindSeed, Goto, Reading
    <2> QED
      BY <2>1, <2>2, <2>3 DEF ScriptInv
  <1>14. CASE BeginImport
    <2>1. TypeOK'
      <3>1. root' \in Tree /\ rback' \in Tree /\ cand' \in Tree /\ marker' \in BOOLEAN
        BY <1>0, <1>14, RecoveryTyped, NoTreeFacts DEF BeginImport
      <3>2. op' \in Ops
        BY <1>0, <1>14, NoOpFacts, RecoveryTyped DEF TypeOK, Ops, Both, BeginImport
      <3> QED
        BY <1>0, <1>14, <3>1, <3>2, NoOpFacts, FirstBootConstants DEF TypeOK, Ops, BeginImport
    <2>2. ScriptPath'
      BY <1>0, <1>14, FirstBootConstants, NoTreeFacts, NoOpFacts, RecoveryTyped DEF TypeOK, ScriptPath,
         BeginImport
    <2>3. ImportSteps'
      BY <1>0, <1>14, FirstBootConstants, NoTreeFacts, NoOpFacts, RecoveryTyped DEF TypeOK, ScriptPath,
         ImportSteps, Seeds, BeginImport
    <2> QED
      BY <2>1, <2>2, <2>3 DEF ScriptInv
  <1>15. CASE BootstrapWebConsole
    <2>1. TypeOK'
      BY <1>0, <1>15, FirstBootConstants, NoTreeFacts, NoOpFacts DEF TypeOK, BootstrapWebConsole,
         Goto, Reading, ReadMarker, ReadConfig
    <2>2. ScriptPath'
      BY <1>0, <1>15, FirstBootConstants, NoTreeFacts, NoOpFacts DEF TypeOK, ScriptPath,
         BootstrapWebConsole, Goto, Reading, ReadMarker, ReadConfig
    <2>3. ImportSteps'
      BY <1>0, <1>15, FirstBootConstants, NoTreeFacts, NoOpFacts DEF TypeOK, ScriptPath,
         ImportSteps, Seeds, BootstrapWebConsole, Goto, Reading, ReadMarker, ReadConfig
    <2> QED
      BY <2>1, <2>2, <2>3 DEF ScriptInv
  <1>16. CASE ApplyManagedUsers
    <2>1. TypeOK'
      BY <1>0, <1>16, FirstBootConstants, NoTreeFacts, NoOpFacts DEF TypeOK, ApplyManagedUsers,
         ApplyStep, Goto, Reading
    <2>2. ScriptPath'
      BY <1>0, <1>16, FirstBootConstants, NoTreeFacts, NoOpFacts DEF TypeOK, ScriptPath,
         ApplyManagedUsers, ApplyStep, Goto, Reading
    <2>3. ImportSteps'
      BY <1>0, <1>16, FirstBootConstants, NoTreeFacts, NoOpFacts DEF TypeOK, ScriptPath,
         ImportSteps, Seeds, ApplyManagedUsers, ApplyStep, Goto, Reading
    <2> QED
      BY <2>1, <2>2, <2>3 DEF ScriptInv
  <1>17. CASE SyncQuadletUnits
    <2>1. TypeOK'
      BY <1>0, <1>17, FirstBootConstants, NoTreeFacts, NoOpFacts DEF TypeOK, SyncQuadletUnits,
         ApplyStep, Goto, Reading
    <2>2. ScriptPath'
      BY <1>0, <1>17, FirstBootConstants, NoTreeFacts, NoOpFacts DEF TypeOK, ScriptPath,
         SyncQuadletUnits, ApplyStep, Goto, Reading
    <2>3. ImportSteps'
      BY <1>0, <1>17, FirstBootConstants, NoTreeFacts, NoOpFacts DEF TypeOK, ScriptPath,
         ImportSteps, Seeds, SyncQuadletUnits, ApplyStep, Goto, Reading
    <2> QED
      BY <2>1, <2>2, <2>3 DEF ScriptInv
  <1>18. CASE CheckRequiredHealth
    <2>1. TypeOK'
      BY <1>0, <1>18, FirstBootConstants, NoTreeFacts, NoOpFacts DEF TypeOK, ScriptPath,
         CheckRequiredHealth, Goto, Reading
    <2>2. ScriptPath'
      BY <1>0, <1>18, FirstBootConstants, NoTreeFacts, NoOpFacts DEF TypeOK, ScriptPath,
         CheckRequiredHealth, Goto, Reading
    <2>3. ImportSteps'
      BY <1>0, <1>18, FirstBootConstants, NoTreeFacts, NoOpFacts DEF TypeOK, ScriptPath,
         ImportSteps, Seeds, CheckRequiredHealth, Goto, Reading
    <2> QED
      BY <2>1, <2>2, <2>3 DEF ScriptInv
  <1>19. CASE CompleteInitial
    <2>1. TypeOK'
      BY <1>0, <1>19, FirstBootConstants, NoTreeFacts, NoOpFacts DEF TypeOK, CompleteInitial, Goto
    <2>2. ScriptPath'
      BY <1>0, <1>19, FirstBootConstants, NoTreeFacts, NoOpFacts DEF TypeOK, ScriptPath,
         CompleteInitial, Goto
    <2>3. ImportSteps'
      BY <1>0, <1>19, FirstBootConstants, NoTreeFacts, NoOpFacts DEF TypeOK, ScriptPath,
         ImportSteps, Seeds, CompleteInitial, Goto
    <2> QED
      BY <2>1, <2>2, <2>3 DEF ScriptInv
  <1>20. CASE Verify
    <2>1. TypeOK'
      BY <1>0, <1>20, FirstBootConstants, NoTreeFacts, NoOpFacts DEF TypeOK, Verify, Goto,
         Reading, ReadMarker, ReadConfig
    <2>2. ScriptPath'
      BY <1>0, <1>20, FirstBootConstants, NoTreeFacts, NoOpFacts DEF TypeOK, ScriptPath, Verify,
         Goto, Reading, ReadMarker, ReadConfig
    <2>3. ImportSteps'
      BY <1>0, <1>20, FirstBootConstants, NoTreeFacts, NoOpFacts DEF TypeOK, ScriptPath,
         ImportSteps, Seeds, Verify, Goto, Reading, ReadMarker, ReadConfig
    <2> QED
      BY <2>1, <2>2, <2>3 DEF ScriptInv
  <1>21. CASE MarkGood
    <2>1. TypeOK'
      BY <1>0, <1>21, FirstBootConstants, NoTreeFacts, NoOpFacts DEF TypeOK, MarkGood, Goto,
         Reading
    <2>2. ScriptPath'
      BY <1>0, <1>21, FirstBootConstants, NoTreeFacts, NoOpFacts DEF TypeOK, ScriptPath,
         MarkGood, Goto, Reading
    <2>3. ImportSteps'
      BY <1>0, <1>21, FirstBootConstants, NoTreeFacts, NoOpFacts DEF TypeOK, ScriptPath,
         ImportSteps, Seeds, MarkGood, Goto, Reading
    <2> QED
      BY <2>1, <2>2, <2>3 DEF ScriptInv
  <1>22. CASE WriteSentinel
    <2>1. TypeOK'
      BY <1>0, <1>22, FirstBootConstants, NoTreeFacts, NoOpFacts DEF TypeOK, WriteSentinel, Goto
    <2>2. ScriptPath'
      BY <1>0, <1>22, FirstBootConstants, NoTreeFacts, NoOpFacts DEF TypeOK, ScriptPath,
         WriteSentinel, Goto
    <2>3. ImportSteps'
      BY <1>0, <1>22, FirstBootConstants, NoTreeFacts, NoOpFacts DEF TypeOK, ScriptPath,
         ImportSteps, Seeds, WriteSentinel, Goto
    <2> QED
      BY <2>1, <2>2, <2>3 DEF ScriptInv
  <1>23. CASE Finalize
    <2>1. TypeOK'
      <3>1. root' \in Tree /\ rback' \in Tree /\ cand' \in Tree /\ marker' \in BOOLEAN
        BY <1>0, <1>23, RecoveryTyped, NoTreeFacts DEF Finalize
      <3>2. /\ stopped' = FALSE
            /\ UNCHANGED <<fresh, bootSeed, usbSeed, pc, path, failures, op, sentinel, jobs, faults>>
        BY <1>23 DEF Finalize, media, script, counters
      <3>3. /\ op' \in Ops
            /\ op'.who = "import" => pc' = "import"
        BY <1>0, <3>2 DEF TypeOK, Ops
      <3>4. /\ fresh' \in BOOLEAN /\ stopped' \in BOOLEAN /\ sentinel' \in BOOLEAN
            /\ bootSeed' \in Configs \cup {NoConfig} /\ usbSeed' \in Configs \cup {NoConfig}
        BY <1>0, <3>2 DEF TypeOK
      <3>5. pc' = pc /\ path' = path /\ failures' = failures /\ jobs' = jobs /\ faults' = faults
        BY <3>2
      <3> QED
        BY <1>0, <3>1, <3>3, <3>4, <3>5, SMTT(20) DEF TypeOK, Ops
    <2>2. ScriptPath'
      BY <1>0, <1>23, FirstBootConstants, NoTreeFacts, NoOpFacts, RecoveryTyped DEF TypeOK, ScriptPath, Finalize
    <2>3. ImportSteps'
      BY <1>0, <1>23, FirstBootConstants, NoTreeFacts, NoOpFacts, RecoveryTyped DEF TypeOK, ScriptPath,
         ImportSteps, Seeds, Finalize
    <2> QED
      BY <2>1, <2>2, <2>3 DEF ScriptInv
  <1>24. ASSUME NEW c \in Configs, NEW signed \in BOOLEAN, BeginJob(c, signed) PROVE ScriptInv'
    <2>1. TypeOK'
      <3>1. root' \in Tree /\ rback' \in Tree /\ cand' \in Tree /\ marker' \in BOOLEAN
        BY <1>0, <1>24, RecoveryTyped, NoTreeFacts DEF BeginJob
      <3>2. op' \in Ops
        BY <1>0, <1>24, NoOpFacts, RecoveryTyped DEF TypeOK, Ops, Both, BeginJob
      <3> QED
        BY <1>0, <1>24, <3>1, <3>2, NoOpFacts, FirstBootConstants DEF TypeOK, Ops, BeginJob
    <2>2. ScriptPath'
      BY <1>0, <1>24, FirstBootConstants, NoTreeFacts, NoOpFacts, RecoveryTyped DEF TypeOK, ScriptPath, BeginJob
    <2>3. ImportSteps'
      BY <1>0, <1>24, FirstBootConstants, NoTreeFacts, NoOpFacts, RecoveryTyped DEF TypeOK, ScriptPath,
         ImportSteps, Seeds, BeginJob
    <2> QED
      BY <2>1, <2>2, <2>3 DEF ScriptInv
  <1>25. CASE WorkerKilled
    <2>1. TypeOK'
      BY <1>0, <1>25, NoOpFacts, FirstBootConstants DEF TypeOK, Ops, WorkerKilled
    <2>2. ScriptPath'
      BY <1>0, <1>25, FirstBootConstants, NoTreeFacts, NoOpFacts DEF TypeOK, ScriptPath,
         WorkerKilled
    <2>3. ImportSteps'
      BY <1>0, <1>25, FirstBootConstants, NoTreeFacts, NoOpFacts DEF TypeOK, ScriptPath,
         ImportSteps, Seeds, WorkerKilled
    <2> QED
      BY <2>1, <2>2, <2>3 DEF ScriptInv
  <1>26. CASE PowerLoss
    <2>1. TypeOK'
      <3>1. root' \in Tree /\ rback' \in Tree /\ cand' \in Tree /\ marker' \in BOOLEAN
        BY <1>0, <1>26, RecoveryTyped, NoTreeFacts DEF PowerLoss
      <3>2. op' \in Ops
        BY <1>0, <1>26, NoOpFacts, RecoveryTyped DEF TypeOK, Ops, Both, PowerLoss
      <3>3. jobs' \in 0 .. MaxJobs /\ faults' \in 0 .. MaxFaults
        BY <1>0, <1>26, FirstBootConstants DEF TypeOK, PowerLoss
      <3>4. /\ fresh' \in BOOLEAN /\ stopped' \in BOOLEAN /\ sentinel' \in BOOLEAN
            /\ bootSeed' \in Configs \cup {NoConfig} /\ usbSeed' \in Configs \cup {NoConfig}
        BY <1>0, <1>26 DEF TypeOK, PowerLoss
      <3>5. /\ pc' \in {"discover", "done"}
            /\ path' \in {"none", "existing", "seed", "console"}
            /\ failures' \subseteq {"users", "sync", "health"}
        BY <1>0, <1>26 DEF TypeOK, PowerLoss
      <3>6. op'.who = "nobody"
        BY <1>26, NoOpFacts DEF PowerLoss
      <3> QED
        BY <3>1, <3>2, <3>3, <3>4, <3>5, <3>6 DEF TypeOK, Ops
    <2>2. ScriptPath'
      BY <1>0, <1>26, FirstBootConstants, NoTreeFacts, NoOpFacts, RecoveryTyped DEF TypeOK, ScriptPath, PowerLoss
    <2>3. ImportSteps'
      BY <1>0, <1>26, FirstBootConstants, NoTreeFacts, NoOpFacts, RecoveryTyped DEF TypeOK, ScriptPath,
         ImportSteps, Seeds, PowerLoss
    <2> QED
      BY <2>1, <2>2, <2>3 DEF ScriptInv
  <1>27. CASE UNCHANGED vars
    BY <1>0, <1>27 DEF ScriptInv, TypeOK, ScriptPath, ImportSteps, Seeds, vars
  <1> QED
    BY <1>0, <1>1, <1>2, <1>3, <1>4, <1>5, <1>6, <1>7, <1>8, <1>9, <1>10, <1>11, <1>12, <1>13,
       <1>14, <1>15, <1>16, <1>17, <1>18, <1>19, <1>20, <1>21, <1>22, <1>23, <1>24, <1>25, <1>26,
       <1>27
       DEF Next, Locked, Script

\* No signed job arrives before the first boot is complete, so a job that is claimed after
\* the import finds the seed's root, and is refused; whatever is finalized or recovered
\* leaves it too.
LEMMA SeedStep ==
    ASSUME Reapply = FALSE, ScriptInv, SeedStays, [Next]_vars
    PROVE  SeedStays'
  <1> DEFINE After == path = "seed" /\ pc \notin {"import", "failed"}
             Kept == root # NoTree /\ root.receipt = "none" /\ rback = NoTree /\ op = NoOp
  <1> USE DEF ScriptInv, disk, media, script, counters
  <1>0. After => root.config \in Seeds /\ Kept
    BY NoTreeFacts DEF SeedStays, Seeds
  <1>1. CASE Locked
    <2>1. op # NoOp
      BY <1>1, NoOpFacts DEF Locked, ImportRefused, WriteCandidate, MarkPromotion, DisplaceRoot,
         SwapIn, KeepPending, Activated, CleanupRollback, CleanupMarker, ActivationFails, Step, Both
    <2>2. CASE KeepPending \/ (CleanupMarker /\ op.who = "import")
      <3>1. /\ root = [config |-> op.config, receipt |-> "none"] /\ op.config \in Seeds
            /\ rback = NoTree /\ op' = NoOp
        BY <2>2 DEF TypeOK, ImportSteps, KeepPending, CleanupMarker, Step, Both
      <3> QED
        BY <2>2, <3>1 DEF SeedStays, Seeds, KeepPending, CleanupMarker
    <2>3. CASE ~(KeepPending \/ (CleanupMarker /\ op.who = "import"))
      <3>1. path' = path /\ (pc' = pc \/ pc' \in {"import", "failed"})
        BY <1>1, <2>3 DEF Locked, ImportRefused, WriteCandidate, MarkPromotion, DisplaceRoot,
           SwapIn, Activated, CleanupRollback, CleanupMarker, ActivationFails
      <3> QED
        BY <1>0, <2>1, <3>1 DEF SeedStays
    <2> QED
      BY <2>2, <2>3
  <1>2. CASE BeginImport \/ WorkerKilled
    <2>1. ~After
      BY <1>0, <1>2, NoOpFacts DEF BeginImport, WorkerKilled
    <2>2. path' = path /\ pc' = pc
      BY <1>2 DEF BeginImport, WorkerKilled
    <2> QED
      BY <2>1, <2>2 DEF SeedStays
  <1>3. ASSUME Script, ~BeginImport PROVE SeedStays'
    <2>1. After' => After
      BY <1>3 DEF Script, Discover, BootMountFails, FindSeed, BootstrapWebConsole,
         ApplyManagedUsers, SyncQuadletUnits, CheckRequiredHealth, CompleteInitial, Verify,
         MarkGood, WriteSentinel, ApplyStep, ReadMarker, ReadConfig, Goto, ScriptPath
    <2>2. root' = root /\ (rback' = rback \/ rback' = NoTree) /\ op' = op
          /\ bootSeed' = bootSeed /\ usbSeed' = usbSeed
      BY <1>3 DEF Script, Discover, BootMountFails, FindSeed, BootstrapWebConsole,
         ApplyManagedUsers, SyncQuadletUnits, CheckRequiredHealth, CompleteInitial, Verify,
         MarkGood, WriteSentinel, ApplyStep, Reading
    <2> QED
      BY <1>0, <2>1, <2>2 DEF SeedStays, Seeds
  <1>4. CASE Finalize
    <2>1. After => root' = root /\ rback' = NoTree
      BY <1>0, <1>4, RecoveryKeepsSeed DEF Finalize
    <2> QED
      BY <1>0, <1>4, <2>1 DEF SeedStays, Seeds, Finalize
  <1>5. ASSUME NEW c \in Configs, NEW signed \in BOOLEAN, BeginJob(c, signed) PROVE SeedStays'
    <2>1. signed = FALSE
      BY <1>5 DEF BeginJob
    <2>2. After => root' = root /\ rback' = NoTree
      BY <1>0, <1>5, RecoveryKeepsSeed DEF BeginJob
    <2>3. After => op' = NoOp
      BY <1>0, <1>5, <2>1, <2>2 DEF BeginJob
    <2> QED
      BY <1>0, <1>5, <2>2, <2>3 DEF SeedStays, Seeds, BeginJob
  <1>6. CASE PowerLoss
    <2>1. After' => After
      BY <1>6 DEF PowerLoss, ScriptPath
    <2>2. After => root' = root /\ rback' = NoTree
      BY <1>0, <1>6, RecoveryKeepsSeed DEF PowerLoss
    <2> QED
      BY <1>0, <1>6, <2>1, <2>2 DEF SeedStays, Seeds, PowerLoss
  <1>7. CASE UNCHANGED vars
    BY <1>7 DEF vars, SeedStays, Seeds
  <1> QED
    BY <1>1, <1>2, <1>3, <1>4, <1>5, <1>6, <1>7 DEF Next

\* What a device does includes the script with its worker, or leaves them as they start.
LEMMA DeviceRunsScript == DeviceSpec => Spec
  <1>1. DeviceInit => Init
    BY DEF DeviceInit
  <1>2. [DeviceNext]_device => [Next]_vars
    BY DEF DeviceNext, RunScript, BootSlots, device
  <1> QED
    BY <1>1, <1>2, PTL DEF DeviceSpec, Spec

LEMMA ScriptInductive == Spec => []ScriptInv
  BY ScriptInit, ScriptStep, PTL DEF Spec

\* The variables of first-boot.sh and of the worker keep their types, and an import runs
\* only while the script waits for it, although both are killed and restarted.
THEOREM FirstBootTypeCorrect == DeviceSpec => []TypeOK
  <1>1. ScriptInv => TypeOK
    BY DEF ScriptInv
  <1> QED
    BY <1>1, ScriptInductive, DeviceRunsScript, PTL

\* For any number of jobs, kills of the worker and power losses, a recovery at any instant
\* after the import of a seed yields the seed.
THEOREM SeedIsKept ==
    ASSUME Reapply = FALSE
    PROVE  DeviceSpec => []ImportedSeedKept
  <1>1. Init => SeedStays
    BY DEF Init, SeedStays
  <1>2. ScriptInv /\ SeedStays /\ [Next]_vars => SeedStays'
    BY SeedStep
  <1>3. SeedStays => ImportedSeedKept
    BY NoTreeFacts DEF SeedStays, Seeds, ImportedSeedKept, RecoveredConfig
  <1> QED
    BY <1>1, <1>2, <1>3, ScriptInductive, DeviceRunsScript, PTL DEF Spec

-----------------------------------------------------------------------------
(* The slots *)

Boot == INSTANCE ABBootProofs
    WITH Board <- "cm3", MaxFaults <- BootFaults, sentinel <- slotSentinel,
         faults <- bootFaults

\* Cm3 and Boot are the same specification.
LEMMA SameInit == Cm3!Init => Boot!Init
  BY DEF Cm3!Init, Boot!Init, Cm3!Slot, Boot!Slot, Cm3!SingleEnv, Boot!SingleEnv

LEMMA SameNext == [Cm3!Next]_(Cm3!vars) => [Boot!Next]_(Boot!vars)
  BY DEF Cm3!env, Cm3!disk, Cm3!runtime, Cm3!vars, Cm3!Slot, Cm3!Other, Cm3!Target,
         Cm3!ComesUp, Cm3!MayStall, Cm3!Resets, Cm3!WatchdogStarted, Cm3!SingleEnv,
         Cm3!Refilled, Cm3!Chosen, Cm3!SelectSlot, Cm3!BootFails, Cm3!BootStalls,
         Cm3!BootCompletes, Cm3!MarkGood, Cm3!FirstBootMarkGood, Cm3!FirstBootSentinel,
         Cm3!VerificationPasses, Cm3!MayUpgrade, Cm3!Upgrade, Cm3!RaucMarkBad, Cm3!RaucWrite,
         Cm3!RaucWritten, Cm3!RaucGrantTries, Cm3!RaucSetOrder, Cm3!InstallFails,
         Cm3!UpgradeTimesOut, Cm3!Halted, Cm3!Reboot, Cm3!PowerLoss, Cm3!WritesEnv,
         Cm3!EnvLost, Cm3!Booting, Cm3!Confirming, Cm3!Installing, Cm3!Updating, Cm3!Faults,
         Cm3!Next, Boot!env, Boot!disk, Boot!runtime, Boot!vars, Boot!Slot, Boot!Other,
         Boot!Target, Boot!ComesUp, Boot!MayStall, Boot!Resets, Boot!WatchdogStarted,
         Boot!SingleEnv, Boot!Refilled, Boot!Chosen, Boot!SelectSlot, Boot!BootFails,
         Boot!BootStalls, Boot!BootCompletes, Boot!MarkGood, Boot!FirstBootMarkGood,
         Boot!FirstBootSentinel, Boot!VerificationPasses, Boot!MayUpgrade, Boot!Upgrade,
         Boot!RaucMarkBad, Boot!RaucWrite, Boot!RaucWritten, Boot!RaucGrantTries,
         Boot!RaucSetOrder, Boot!InstallFails, Boot!UpgradeTimesOut, Boot!Halted, Boot!Reboot,
         Boot!PowerLoss, Boot!WritesEnv, Boot!EnvLost, Boot!Booting, Boot!Confirming,
         Boot!Installing, Boot!Updating, Boot!Faults, Boot!Next

\* A step of the device is a step of its slots or leaves them alone.
LEMMA SlotsSimulation == [DeviceNext]_device => [Boot!Next]_(Boot!vars)
  <1>1. [DeviceNext]_device => [Cm3!Next]_(Cm3!vars)
    BY DEF DeviceNext, RunScript, BootSlots, device, slots, Cm3!vars, Cm3!env, Cm3!disk, Cm3!runtime
  <1> QED
    BY <1>1, SameNext

\* The invariants of ABBootProofs
SlotsInv == Boot!IInv /\ Boot!Priority

LEMMA SlotsInductive == DeviceSpec => []SlotsInv
  <1>1. DeviceInit => SlotsInv
    BY SameInit, Boot!InitIInv, Boot!PriorityInit, SlotConstants DEF DeviceInit, SlotsInv
  <1>2. SlotsInv /\ [DeviceNext]_device => SlotsInv'
    <2> SUFFICES ASSUME SlotsInv, [DeviceNext]_device PROVE SlotsInv'
      OBVIOUS
    <2>1. [Boot!Next]_(Boot!vars)
      BY SlotsSimulation
    <2> QED
      BY <2>1, Boot!IInvIsInductive, Boot!PriorityStep, SlotConstants DEF SlotsInv
  <1> QED
    BY <1>1, <1>2, PTL DEF DeviceSpec

\* For any versions, tries, installations and power losses, a CM3 in service keeps a proven
\* image in one of its slots and is never out for more than two rounds of tries.
THEOREM SlotsAlwaysSurvive == DeviceSpec => []SlotsSurvive
  <1>1. SlotsInv => SlotsSurvive
    BY Boot!IInvKeepsGood, Boot!IInvBoundsOutage, SlotConstants
       DEF SlotsInv, SlotsSurvive, Cm3!KnownGoodKept, Boot!KnownGoodKept, Cm3!Slot, Boot!Slot,
           Cm3!OutageBounded, Boot!OutageBounded
  <1> QED
    BY <1>1, SlotsInductive, PTL

\* The boot method of a CM3 leaves the slot that was confirmed or activated last only after
\* all its tries were spent without a confirmation.
THEOREM FallbackAlwaysJustified == DeviceSpec => FallbackJustified
  <1>1. SlotsInv /\ [DeviceNext]_device => [part = "slots" => Cm3!JustifiedFallback]_device
    <2> SUFFICES ASSUME SlotsInv, [DeviceNext]_device PROVE Cm3!JustifiedFallback
      OBVIOUS
    <2>1. Boot!JustifiedFallback
      BY SlotsSimulation, Boot!FallbackStep, SlotConstants DEF SlotsInv
    <2> QED
      BY <2>1 DEF Cm3!JustifiedFallback, Boot!JustifiedFallback
  <1>2. DeviceSpec => [][DeviceNext]_device
    BY PTL DEF DeviceSpec
  <1> QED
    BY <1>1, <1>2, SlotsInductive, PTL DEF FallbackJustified
=============================================================================
