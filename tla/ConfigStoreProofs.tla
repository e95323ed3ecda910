------------------------- MODULE ConfigStoreProofs -------------------------
(***************************************************************************)
(* Proofs about ConfigStore for every set of jobs, every number of faults  *)
(* and every choice of interruptible removals but one: the rmtree of       *)
(* a discarded root without managed users (ConfigStore, DiscardRoot) is    *)
(* taken to be atomic; the run config_store_torn_discard shows why.        *)
(*                                                                         *)
(* What recovery has to go on is the disk alone, so the heart of the       *)
(* inductive invariant is Recoverable, which never mentions the step that  *)
(* was about to run.  Control says what more is known at each step, which  *)
(* is what makes the step safe; a fault only forgets it.                   *)
(***************************************************************************)
EXTENDS ConfigStore, TLAPS

Repeatable == "discRoot" \notin TornSteps

-----------------------------------------------------------------------------
(* The inductive invariant *)

\* A tree that does not count as a configuration.
Bare(t) == t.cfg = None /\ t.first = FALSE /\ t.phase = "none"

\* A complete copy of the committed configuration, with its receipt.
Good(t) ==
    /\ t.there /\ t.first /\ t.whole
    /\ t.cfg = committed
    /\ t.job = (IF committed \in Jobs THEN committed ELSE None)
    /\ t.phase = (IF committed \in Jobs THEN "committed" ELSE "none")

\* A complete copy of the claimed job's configuration, not committed.
Stamped(t) ==
    /\ t.there /\ t.first /\ t.whole
    /\ t.cfg = claim /\ t.job = claim
    /\ t.phase = "promoted"

\* The root is the committed configuration.
Settled == IF committed = None THEN Bare(root) ELSE Good(root)

\* The rollback tree is the committed configuration.
Saved == committed # None /\ rback.there /\ Good(rback) /\ root.phase # "committed"

NoLeftovers == ~marker /\ ~cand.there /\ ~rback.there

Clean == NoLeftovers /\ ~raMarker /\ Settled

\* What every fault must leave, and all that recovery may rely on.
Recoverable ==
    /\ rback.there => marker
    /\ committed = None =>
        /\ ~rback.there /\ ~raMarker
        /\ Bare(root) \/ root.phase = "promoted"
    /\ committed # None =>
        \/ Good(root) /\ (rback.there => ~raMarker /\ committed \in Jobs)
        \/ Saved

\* Between jobs nothing is left on the disk; only a boot has something to repair.
QuietIsClean == claim = None /\ (who # "boot" \/ pc \in {"units", "off"}) => Clean

WorkerSteps == {"verify", "authorize", "copy", "stamp", "promRback", "promMarker",
                "promSave", "promRoot", "promSwap", "activate", "commit"}

\* Steps of the subroutines, which several callers share.
RestoreSteps == {"restore", "resRoot", "resRename", "resRecord", "resMarker"}
DiscardSteps == {"discard", "discRoot", "discRecord", "discCand", "discRback", "discMarker"}
RootSteps == {"rc", "rcCand", "rcMarker"}
CleanupSteps == {"commitCand", "cleanRback", "cleanMarker"}

SharedSteps == CleanupSteps \cup RestoreSteps \cup DiscardSteps \cup RootSteps
               \cup {"markRA", "settle", "reactivate", "clearRA"}

\* Who may run a step, and which caller it can return to.
Callers ==
    /\ who = "boot" => claim = None
    /\ pc \in {"reactivate", "clearRA", "publish", "unclaim", "ready"} => who # "boot"
    /\ pc = "units" => who = "boot"
    /\ pc \in WorkerSteps \cup {"ready"} => who = "worker"
    /\ pc = "recover" => who # "worker"
    /\ pc \in SharedSteps => (via = "recover" <=> who # "worker")
    /\ pc \in CleanupSteps => via \in {"recover", "commit"}
    /\ pc \in {"commitCand", "settle"} => via = "recover"
    /\ pc \in RestoreSteps \cup DiscardSteps \cup {"markRA", "reactivate", "clearRA"} =>
        via \in {"recover", "fail"}
    /\ pc \in RootSteps => via \in {"recover", "render", "promote"}
    /\ pc \in RootSteps /\ via # "recover" => Clean
    /\ restored => committed # None
    /\ pc \in {"commitCand", "settle"} \cup RootSteps /\ via = "recover" =>
        (raMarker => restored)
    /\ pc \in RestoreSteps \cup {"markRA"} /\ via = "recover" => restored
    /\ pc = "ready" => claim = None

\* The claim that is being worked on has neither committed nor been answered.
Claims ==
    /\ pc \in WorkerSteps \/ (pc \in RootSteps /\ via # "recover") =>
        /\ claim \in Jobs /\ claim \notin commits
        /\ results[claim] = "none"
    /\ (pc \in CleanupSteps /\ via = "commit") \/ (pc = "publish" /\ who = "worker") =>
        /\ claim \in commits
        /\ results[claim] = "none"
    /\ pc = "unclaim" /\ claim # None => results[claim] # "none"

\* What a recovery or rollback step may rely on.
RecoveryControl ==
    /\ pc \in CleanupSteps => committed \in Jobs /\ Good(root) /\ ~raMarker
    /\ pc \in {"cleanRback", "cleanMarker", "rcMarker", "discRback", "discMarker"} =>
        ~cand.there
    /\ pc \in {"markRA", "resRoot", "resRename"} => Saved
    /\ pc = "rc" /\ via = "recover" =>
        IF committed = None THEN Bare(root) ELSE (Good(root) /\ ~rback.there) \/ Saved
    /\ pc \in {"rcCand", "rcMarker", "settle", "reactivate", "clearRA", "resRecord",
               "resMarker"} => Settled
    /\ pc \in {"rcCand", "rcMarker", "cleanMarker", "resRecord", "resMarker"} => ~rback.there
    /\ pc = "restore" => \/ Saved
                         \/ ~rback.there /\ committed = None /\ ~reapply /\ via = "fail"
    /\ pc \in {"resRecord", "resMarker", "reactivate", "clearRA"} => committed # None
    /\ pc \in DiscardSteps => committed = None
    /\ pc \in {"discRecord", "discCand", "discRback", "discMarker"} => Bare(root)
    /\ pc \in RestoreSteps \cup {"markRA"} /\ via = "fail" => ~cand.there
    /\ pc \in {"settle", "reactivate", "clearRA"} => NoLeftovers
    /\ pc \in {"publish", "unclaim", "ready", "units"} => Clean

\* What an apply step may rely on.
ApplyControl ==
    /\ pc \in WorkerSteps => ~raMarker
    /\ pc \in {"verify", "authorize", "copy"} => Clean
    /\ pc \in {"stamp", "promRback", "promMarker"} => Settled /\ ~rback.there
    /\ pc = "stamp" => cand.there /\ cand.whole /\ cand.cfg = claim
    /\ pc \in {"promRback", "promMarker", "promSave", "promRoot", "promSwap"} => Stamped(cand)
    /\ pc \in {"stamp", "promRback", "promMarker", "promSwap", "activate", "commit"} =>
        (reapply <=> committed # None)
    /\ pc \in {"promSave", "promRoot"} => marker /\ Settled /\ ~rback.there
    /\ pc = "promSave" => committed # None
    /\ pc = "promRoot" => committed = None /\ ~reapply
    /\ pc = "promSave" => reapply
    /\ pc \in {"promSwap", "activate", "commit"} => marker /\ (committed # None => Saved)
    /\ pc \in {"activate", "commit"} => Stamped(root) /\ ~cand.there

\* Results, receipts and the claim agree.
Ledger ==
    /\ committed \in Jobs => committed \in commits
    /\ claim \in commits => committed = claim
    /\ claim \notin todo
    /\ todo \cap commits = {}
    /\ \A j \in todo : results[j] = "none"
    /\ ResultsTruthful

\* The services follow the committed configuration, unless the pending marker says
\* that they may follow one that was rolled back.
Following ==
    /\ pc = "rc" /\ rback.there => raMarker
    /\ pc \in RestoreSteps /\ committed # None => raMarker
    /\ pc = "clearRA" => activated = root.cfg
    /\ pc = "commit" => activated = claim
    /\ committed # None /\ Good(root) /\ ~raMarker /\ (who # "boot" \/ pc = "off") =>
        activated = committed

\* Until the first commit, what the accounts' record survives in.
Records ==
    committed = None =>
        /\ live \subseteq root.managed \cup cand.managed
        /\ root.there \/ root.managed = {}
        /\ ~marker \/ pc \in {"activate", "commit", "restore", "discCand", "discRback",
                               "discMarker"} => live \subseteq root.managed
        /\ pc \in {"stamp", "promRback", "promMarker", "promRoot", "promSwap"} =>
            live \subseteq cand.managed
        /\ pc \in {"discRoot", "discRecord"} => live \subseteq merged
        /\ pc = "rcCand" => ~marker
        /\ pc # "rcMarker"

IInv == /\ TypeOK /\ Recoverable /\ QuietIsClean /\ Callers /\ Claims
        /\ RecoveryControl /\ ApplyControl /\ Ledger /\ Following /\ Records

-----------------------------------------------------------------------------

-----------------------------------------------------------------------------
(* Trees and types *)

\* A directory that is not there is a tree too: rename and rmtree leave it.
LEMMA AbsentIsTree == Absent \in Tree
BY DEF Absent, Tree

\* write_managed_state after a discard writes a well-formed root.
LEMMA RecordOnlyIsTree == \A names \in SUBSET Configs : RecordOnly(names) \in Tree
BY DEF RecordOnly, Absent, Tree

\* An interrupted rmtree or copytree leaves a tree that has at most what was there.
LEMMA RemnantsOfTree ==
    ASSUME NEW t \in Tree, NEW r \in Remnants(t)
    PROVE  /\ r \in Tree
           /\ r.phase \in {t.phase, "none"}
           /\ Bare(t) => Bare(r)
           /\ ~r.whole /\ r.there
<1>1. PICK c \in {t.cfg, None}, f \in {t.first, FALSE},
           p \in {<<t.job, t.phase>>, <<None, "none">>}, m \in {t.managed, {}} :
           r = [there |-> TRUE, cfg |-> c, first |-> f, job |-> p[1], phase |-> p[2],
                managed |-> m, whole |-> FALSE]
    BY DEF Remnants
<1>2. /\ p[1] \in Jobs \cup {None} /\ p[2] \in {t.phase, "none"}
      /\ p[2] \in {"none", "promoted", "committed"}
    BY <1>1 DEF Tree
<1>3. /\ c \in Configs \cup {None} /\ f \in BOOLEAN /\ m \in SUBSET Configs
      /\ Bare(t) => c = None /\ f = FALSE /\ p[2] = "none"
    BY <1>1, <1>2 DEF Tree, Bare
<1> QED BY <1>1, <1>2, <1>3 DEF Tree, Bare

\* _prune_to_managed_state never leaves a provisioned root without its receipt.
LEMMA PruneRemnantsOfTree ==
    ASSUME NEW t \in Tree, NEW r \in PruneRemnants(t)
    PROVE  /\ r \in Tree
           /\ Bare(r) \/ r.phase = t.phase
           /\ Bare(t) => Bare(r)
           /\ ~r.whole /\ r.managed = t.managed /\ (t.there => r.there)
<1>1. CASE \E c \in {t.cfg, None}, f \in {t.first, FALSE} :
               r = [t EXCEPT !.cfg = c, !.first = f, !.whole = FALSE]
    BY <1>1 DEF Tree, Bare
<1>2. CASE r = [RecordOnly(t.managed) EXCEPT !.whole = FALSE]
    BY <1>2 DEF RecordOnly, Absent, Tree, Bare
<1> QED BY <1>1, <1>2 DEF PruneRemnants

-----------------------------------------------------------------------------
(* The initial states *)

\* A fresh device and a seed-imported one are clean.
LEMMA InitIInv == Init => IInv
<1> SUFFICES ASSUME Init PROVE IInv
    OBVIOUS
<1> USE ConfigStoreConstants, AbsentIsTree DEF Init
<1>1. Seeded \in Tree
    BY DEF Seeded, Tree, Configs
<1>2. TypeOK
    <2>1. /\ marker \in BOOLEAN /\ raMarker \in BOOLEAN
          /\ reapply \in BOOLEAN /\ restored \in BOOLEAN
        BY Zenon
    <2>2. root \in Tree /\ cand \in Tree /\ rback \in Tree
        BY <1>1
    <2>3. results \in [Jobs -> {"none", "succeeded", "failed"}]
        OBVIOUS
    <2>4. live \subseteq Configs /\ root.cfg \in Configs \cup {None}
        BY <2>2 DEF Tree
    <2>5. faults \in 0 .. MaxFaults
        OBVIOUS
    <2> QED BY <2>1, <2>2, <2>3, <2>4, <2>5 DEF TypeOK, Labels
<1>3. Clean
    BY DEF Clean, NoLeftovers, Settled, Bare, Good, Seeded, Absent
<1>4. Recoverable /\ QuietIsClean
    BY <1>3 DEF Recoverable, QuietIsClean, Clean, NoLeftovers, Settled
<1>5. Callers /\ Claims /\ RecoveryControl /\ ApplyControl
    BY DEF Callers, Claims, RecoveryControl, ApplyControl, SharedSteps, WorkerSteps,
           RestoreSteps, DiscardSteps, RootSteps, CleanupSteps
<1>6. Ledger /\ Following /\ Records
    BY DEF Ledger, ResultsTruthful, Following, Records, RestoreSteps, Seeded, Absent
<1> QED BY <1>2, <1>4, <1>5, <1>6 DEF IInv

-----------------------------------------------------------------------------
(* One lemma per part of Next *)

\* Recovery, rollback and discard keep the disk recoverable, whoever runs them and
\* however often they are started again.
LEMMA RecoveringStep ==
    ASSUME IInv, Recovering
    PROVE  IInv'
<1> USE ConfigStoreConstants DEF IInv, TypeOK, Recoverable, QuietIsClean, Callers, Claims,
        RecoveryControl, ApplyControl, Ledger, ResultsTruthful, Following, Records, Clean,
        NoLeftovers, Settled, Saved, Good, Bare, Stamped, SharedSteps, WorkerSteps,
        RestoreSteps, DiscardSteps, RootSteps, CleanupSteps, Labels, Configs, Step, disk,
        runtime, device, locals, history, others
<1>1. CASE RecoverInterruptedApply
    BY <1>1 DEF RecoverInterruptedApply, RecoveryBranch
<1>2. CASE DropLaterCandidate
    BY <1>2, AbsentIsTree DEF DropLaterCandidate, Absent
<1>3. CASE BeginRollbackActivation
    BY <1>3 DEF BeginRollbackActivation
<1>4. CASE CleanupRollback
    BY <1>4, AbsentIsTree DEF CleanupRollback, Absent
<1>5. CASE CleanupMarker
    <2>1. marker' \in BOOLEAN
        BY <1>5, Zenon DEF CleanupMarker
    <2> QED BY <1>5, <2>1 DEF CleanupMarker
<1>6. CASE RecoverConfigRoot
    BY <1>6 DEF RecoverConfigRoot, ConfigRootBranch
<1>7. CASE RecoverLeftovers
    BY <1>7, AbsentIsTree DEF RecoverLeftovers, Absent, Return
<1>8. CASE RecoverMarker
    <2>1. marker' \in BOOLEAN
        BY <1>8, Zenon DEF RecoverMarker
    <2> QED BY <1>8, <2>1 DEF RecoverMarker, Return
<1>9. CASE RestoreRollback
    BY <1>9 DEF RestoreRollback, Tree
<1>10. CASE RestoreNothing
    <2>1. marker' \in BOOLEAN
        BY <1>10, Zenon DEF RestoreNothing
    <2> QED BY <1>10, <2>1 DEF RestoreNothing, Return
<1>11. CASE RestoreRemoveRoot
    BY <1>11, AbsentIsTree DEF RestoreRemoveRoot, Absent
<1>12. CASE RestoreRename
    BY <1>12, AbsentIsTree DEF RestoreRename, Absent
<1>13. CASE RestoreRecord
    BY <1>13 DEF RestoreRecord, Tree
<1>14. CASE RestoreMarker
    <2>1. marker' \in BOOLEAN
        BY <1>14, Zenon DEF RestoreMarker
    <2> QED BY <1>14, <2>1 DEF RestoreMarker
<1>15. CASE DiscardInitial
    BY <1>15 DEF DiscardInitial, Tree
<1>16. CASE DiscardRoot
    <2>1. root' \in Tree
        BY <1>16, AbsentIsTree, RecordOnlyIsTree DEF DiscardRoot, Tree
    <2> QED BY <1>16, AbsentIsTree, <2>1 DEF DiscardRoot, Absent, RecordOnly, Tree
<1>17. CASE DiscardRecord
    <2>1. root' \in Tree
        BY <1>17, RecordOnlyIsTree DEF DiscardRecord
    <2> QED BY <1>17, <2>1 DEF DiscardRecord, Absent, RecordOnly, Tree
<1>18. CASE DiscardCandidate
    BY <1>18, AbsentIsTree DEF DiscardCandidate, Absent
<1>19. CASE DiscardRollback
    BY <1>19, AbsentIsTree DEF DiscardRollback, Absent
<1>20. CASE DiscardMarker
    <2>1. marker' \in BOOLEAN
        BY <1>20, Zenon DEF DiscardMarker
    <2> QED BY <1>20, <2>1 DEF DiscardMarker, Return, Raised
<1>21. CASE SettleBoot
    <2>1. raMarker' \in BOOLEAN
        BY <1>21, Zenon DEF SettleBoot
    <2> QED BY <1>21, <2>1 DEF SettleBoot
<1>22. CASE SettleSameBoot
    BY <1>22 DEF SettleSameBoot
<1>23. CASE Reactivate
    BY <1>23 DEF Reactivate, UsersApplied, UsersUntouched, Tree
<1>24. CASE ClearRollbackActivation
    <2>1. raMarker' \in BOOLEAN
        BY <1>24, Zenon DEF ClearRollbackActivation
    <2> QED BY <1>24, <2>1 DEF ClearRollbackActivation, Return, Raised
<1>25. CASE BootUnits
    BY <1>25 DEF BootUnits, UsersApplied, UsersUntouched, Tree
<1> QED BY <1>1, <1>2, <1>3, <1>4, <1>5, <1>6, <1>7, <1>8, <1>9, <1>10, <1>11,
        <1>12, <1>13, <1>14, <1>15, <1>16, <1>17, <1>18, <1>19, <1>20, <1>21, <1>22, <1>23,
        <1>24, <1>25
    DEF Recovering

\* The worker moves between two recoverable disks; only MarkCommitted changes which
\* configuration they stand for.
LEMMA ApplyingStep ==
    ASSUME IInv, Applying
    PROVE  IInv'
<1> USE ConfigStoreConstants DEF IInv, TypeOK, Recoverable, QuietIsClean, Callers, Claims,
        RecoveryControl, ApplyControl, Ledger, ResultsTruthful, Following, Records, Clean,
        NoLeftovers, Settled, Saved, Good, Bare, Stamped, SharedSteps, WorkerSteps,
        RestoreSteps, DiscardSteps, RootSteps, CleanupSteps, Labels, Configs, Step, disk,
        runtime, device, locals, history, others
<1>1. CASE ClaimNextJob
    BY <1>1 DEF ClaimNextJob
<1>2. CASE VerifyStagedJob
    BY <1>2 DEF VerifyStagedJob
<1>3. CASE RenderVerifiedCandidate
    BY <1>3 DEF RenderVerifiedCandidate
<1>4. CASE RejectJob
    BY <1>4 DEF RejectJob
<1>5. CASE CopyCandidate
    BY <1>5 DEF CopyCandidate, Rendered, Tree, IsProvisioned
<1>6. CASE MarkPromoted
    <2>1. cand' \in Tree
        BY <1>6 DEF MarkPromoted, Step, Tree
    <2> QED BY <1>6, <2>1 DEF MarkPromoted, Tree
<1>7. CASE PromoteDropRollback
    BY <1>7, AbsentIsTree DEF PromoteDropRollback, Absent
<1>8. CASE PromoteMarker
    BY <1>8 DEF PromoteMarker
<1>9. CASE PromoteSaveRoot
    BY <1>9, AbsentIsTree DEF PromoteSaveRoot, Absent
<1>10. CASE PromoteRemoveRoot
    BY <1>10, AbsentIsTree DEF PromoteRemoveRoot, Absent
<1>11. CASE PromoteSwap
    BY <1>11, AbsentIsTree DEF PromoteSwap, Absent
<1>12. CASE ActivateSucceeds
    BY <1>12 DEF ActivateSucceeds, UsersApplied, Tree
<1>13. CASE ActivateFails
    BY <1>13 DEF ActivateFails, UsersApplied, UsersUntouched, Tree
<1>14. CASE MarkCommitted
    BY <1>14 DEF MarkCommitted, Tree
<1> QED BY <1>1, <1>2, <1>3, <1>4, <1>5, <1>6, <1>7, <1>8, <1>9, <1>10, <1>11,
        <1>12, <1>13, <1>14
    DEF Applying

\* Starting, draining, publishing a result and ending a claim keep the invariant; the
\* published verdict agrees with the receipts.
LEMMA ServiceStep ==
    ASSUME IInv, StartService \/ DrainDone \/ Publish \/ Unclaim
    PROVE  IInv'
<1> USE ConfigStoreConstants DEF IInv, TypeOK, Recoverable, QuietIsClean, Callers, Claims,
        RecoveryControl, ApplyControl, Ledger, ResultsTruthful, Following, Records, Clean,
        NoLeftovers, Settled, Saved, Good, Bare, Stamped, SharedSteps, WorkerSteps,
        RestoreSteps, DiscardSteps, RootSteps, CleanupSteps, Labels, Configs, Step, disk,
        runtime, device, locals, history, others
<1>1. CASE StartService
    BY <1>1 DEF StartService
<1>2. CASE DrainDone
    BY <1>2 DEF DrainDone
<1>3. CASE Publish
    BY <1>3 DEF Publish, Verdict
<1>4. CASE Unclaim
    BY <1>4 DEF Unclaim
<1> QED BY <1>1, <1>2, <1>3, <1>4

\* write_imported_state renders a well-formed candidate.
LEMMA RenderedIsTree ==
    ASSUME NEW j \in Jobs, NEW names \in SUBSET Configs
    PROVE  Rendered(j, names) \in Tree
BY DEF Rendered, Tree, Configs

\* Whatever a removal or a copy has done when it stops, the disk stays recoverable, and
\* with nothing claimed it stays clean.
LEMMA InterruptedTrees ==
    ASSUME Repeatable, IInv, TornDisk \/ UNCHANGED <<root, cand, rback>>,
           UNCHANGED <<marker, raMarker, committed>>
    PROVE  /\ root' \in Tree /\ cand' \in Tree /\ rback' \in Tree
           /\ Recoverable'
           /\ claim = None /\ Clean => Clean'
           /\ Good(root)' => Good(root)
           /\ committed = None => /\ live \subseteq root'.managed \cup cand'.managed
                                  /\ root'.there \/ root'.managed = {}
                                  /\ ~marker => live \subseteq root'.managed
<1> USE ConfigStoreConstants DEF IInv, TypeOK, Recoverable, Clean, NoLeftovers, Settled,
        Saved, Good, RecoveryControl, ApplyControl, Records
<1>1. CASE /\ pc \in {"resRoot", "promRoot"} /\ root.there
           /\ root' \in Remnants(root) /\ UNCHANGED <<cand, rback>>
    <2>1. /\ root' \in Tree /\ root'.phase \in {root.phase, "none"}
          /\ Bare(root) => Bare(root')
          /\ ~root'.whole /\ root'.there
        BY <1>1, RemnantsOfTree
    <2>2. CASE pc = "resRoot"
        <3>1. Saved
            BY <2>2
        <3> QED BY <1>1, <2>1, <2>2, <3>1
    <2>3. CASE pc = "promRoot"
        <3>1. Bare(root) /\ claim # None
            BY <2>3 DEF Claims, WorkerSteps
        <3> QED BY <1>1, <2>1, <2>3, <3>1
    <2> QED BY <1>1, <2>2, <2>3
<1>2. CASE /\ pc = "discRoot" /\ root.there
           /\ root' \in PruneRemnants(root) /\ UNCHANGED <<cand, rback>>
    <2>1. /\ root' \in Tree
          /\ Bare(root') \/ root'.phase = root.phase
          /\ Bare(root) => Bare(root')
          /\ ~root'.whole /\ root'.managed = root.managed /\ root'.there
        BY <1>2, PruneRemnantsOfTree
    <2>2. committed = None
        BY <1>2 DEF DiscardSteps
    <2> QED BY <1>2, <2>1, <2>2
<1>3. CASE /\ pc \in {"commitCand", "rcCand", "discCand"} /\ cand.there
           /\ cand' \in Remnants(cand) /\ UNCHANGED <<root, rback>>
    <2>1. cand' \in Tree
        BY <1>3, RemnantsOfTree
    <2>2. committed = None => live \subseteq root.managed
        BY <1>3 DEF CleanupSteps
    <2> QED BY <1>3, <2>1, <2>2
<1>4. CASE /\ pc = "copy"
           /\ cand' \in Remnants(Rendered(claim, root.managed)) /\ UNCHANGED <<root, rback>>
    <2>1. claim \in Jobs /\ root.managed \in SUBSET Configs
        BY <1>4 DEF Claims, WorkerSteps, Tree
    <2>2. cand' \in Tree
        BY <1>4, <2>1, RenderedIsTree, RemnantsOfTree
    <2> QED BY <1>4, <2>1, <2>2 DEF Bare
<1>5. CASE /\ pc = "cleanRback" /\ rback.there
           /\ rback' \in Remnants(rback) /\ UNCHANGED <<root, cand>>
    <2>1. rback' \in Tree
        BY <1>5, RemnantsOfTree
    <2>2. committed \in Jobs /\ Good(root) /\ ~raMarker
        BY <1>5 DEF CleanupSteps
    <2> QED BY <1>5, <2>1, <2>2
<1>6. CASE UNCHANGED <<root, cand, rback>>
    BY <1>6 DEF Bare
<1> QED BY <1>1, <1>2, <1>3, <1>4, <1>5, <1>6 DEF TornDisk, Repeatable

\* A fault forgets everything but the disk, and the disk is enough.
LEMMA FaultStep ==
    ASSUME Repeatable, IInv, Fault
    PROVE  IInv'
<1>1. /\ root' \in Tree /\ cand' \in Tree /\ rback' \in Tree
      /\ Recoverable'
      /\ claim = None /\ Clean => Clean'
      /\ Good(root)' => Good(root)
      /\ committed = None => /\ live \subseteq root'.managed \cup cand'.managed
                             /\ root'.there \/ root'.managed = {}
                             /\ ~marker => live \subseteq root'.managed
    BY InterruptedTrees
    DEF Fault, WorkerRaises, ProcessDies, PowerLoss, Interrupted, history
<1>2. faults' \in 0 .. MaxFaults
    BY ConfigStoreConstants
    DEF IInv, TypeOK, Fault, WorkerRaises, ProcessDies, PowerLoss, Interrupted
<1>3. CASE WorkerRaises
    <2>1. TypeOK'
        BY <1>1, <1>2, <1>3
        DEF WorkerRaises, Interrupted, IInv, TypeOK, Labels, device, history
    <2>2. QuietIsClean'
        BY <1>1, <1>3 DEF WorkerRaises, Interrupted, IInv, QuietIsClean
    <2>3. Following' /\ Records'
        BY <1>1, <1>3
        DEF WorkerRaises, Interrupted, device, history, IInv, Callers, Following, Records,
            RestoreSteps
    <2> QED BY <1>1, <1>3, <2>1, <2>2, <2>3
        DEF WorkerRaises, Interrupted, history, IInv, Callers,
        Claims, RecoveryControl, ApplyControl, Ledger, ResultsTruthful, SharedSteps,
        WorkerSteps, RestoreSteps, DiscardSteps, RootSteps, CleanupSteps
<1>4. CASE ProcessDies
    <2>1. TypeOK'
        BY <1>1, <1>2, <1>4
        DEF ProcessDies, Interrupted, IInv, TypeOK, Labels, device, history
    <2>2. QuietIsClean'
        BY <1>1, <1>4 DEF ProcessDies, Interrupted, IInv, QuietIsClean
    <2>3. Following' /\ Records'
        BY <1>1, <1>4
        DEF ProcessDies, Interrupted, device, history, IInv, Callers, Following, Records,
            RestoreSteps
    <2> QED BY <1>1, <1>4, <2>1, <2>2, <2>3
        DEF ProcessDies, Interrupted, history, IInv, Callers,
        Claims, RecoveryControl, ApplyControl, Ledger, ResultsTruthful, SharedSteps,
        WorkerSteps, RestoreSteps, DiscardSteps, RootSteps, CleanupSteps
<1>5. CASE PowerLoss
    <2>1. TypeOK'
        BY <1>1, <1>2, <1>5
        DEF PowerLoss, Interrupted, IInv, TypeOK, Labels, Configs, history
    <2>2. Ledger'
        BY <1>5, ConfigStoreConstants
        DEF PowerLoss, Interrupted, history, IInv, TypeOK, Ledger, ResultsTruthful
    <2>3. Following' /\ Records'
        BY <1>1, <1>5
        DEF PowerLoss, Interrupted, history, IInv, TypeOK, Tree, Following, Records,
            RestoreSteps
    <2> QED BY <1>1, <1>5, <2>1, <2>2, <2>3
        DEF PowerLoss, Interrupted, history, IInv,
        QuietIsClean, Callers, Claims, RecoveryControl, ApplyControl, SharedSteps,
        WorkerSteps, RestoreSteps, DiscardSteps, RootSteps, CleanupSteps
<1> QED BY <1>3, <1>4, <1>5 DEF Fault

\* Nothing changes when the service rests.
LEMMA StutterStep == ASSUME IInv, UNCHANGED vars PROVE IInv'
BY DEF vars, IInv, TypeOK, Recoverable, QuietIsClean, Callers, Claims,
    RecoveryControl, ApplyControl, Ledger, ResultsTruthful, Following, Records, Clean,
        NoLeftovers, Settled, Saved, Good, Bare, Stamped, SharedSteps, WorkerSteps,
    RestoreSteps, DiscardSteps, RootSteps, CleanupSteps, Labels, Configs, Step, disk,
        runtime, device, locals, history, others

-----------------------------------------------------------------------------
(* Theorems *)

\* The inductive invariant holds in every state the apply path and its recoveries reach.
LEMMA IInvIsInductive == ASSUME Repeatable PROVE Spec => []IInv
<1>1. Init => IInv
    BY InitIInv
<1>2. IInv /\ [Next]_vars => IInv'
    <2> SUFFICES ASSUME IInv, [Next]_vars PROVE IInv'
        OBVIOUS
    <2>1. CASE StartService \/ DrainDone \/ Publish \/ Unclaim
        BY <2>1, ServiceStep
    <2>2. CASE Recovering
        BY <2>2, RecoveringStep
    <2>3. CASE Applying
        BY <2>3, ApplyingStep
    <2>4. CASE Fault
        BY <2>4, FaultStep
    <2>5. CASE Rest \/ UNCHANGED vars
        BY <2>5, StutterStep DEF Rest
    <2> QED BY <2>1, <2>2, <2>3, <2>4, <2>5 DEF Next, Work
<1> QED BY <1>1, <1>2, PTL DEF Spec

\* From a recoverable disk recover_interrupted_apply picks the committed configuration.
LEMMA IInvStoreIsCommitted == IInv => StoreIsCommitted
<1> SUFFICES ASSUME IInv PROVE StoreView = committed
    BY DEF StoreIsCommitted
<1> USE ConfigStoreConstants
    DEF IInv, TypeOK, Recoverable, Bare, Good, Saved, StoreView, IsProvisioned
<1>1. CASE committed = None
    <2>1. Bare(RecoveredTree)
        BY <1>1 DEF RecoveredTree, Absent
    <2> QED BY <1>1, <2>1
<1>2. CASE committed # None
    <2>1. Good(RecoveredTree)
        BY <1>2 DEF RecoveredTree
    <2> QED BY <1>2, <2>1
<1> QED BY <1>1, <1>2

\* Everything but a claim, a commit, a result, the end of a claim and a reboot is
\* invisible to the clients of the apply path.
Invisible == UNCHANGED <<committed, claim, results>>

\* Recovery, rollback, rendering, promotion, activation and kills are such steps.
LEMMA InvisibleSteps ==
    ASSUME \/ StartService \/ DrainDone \/ Recovering \/ Rest \/ UNCHANGED vars
           \/ (Applying /\ ~ClaimNextJob /\ ~MarkCommitted)
           \/ WorkerRaises \/ ProcessDies
    PROVE  Invisible
<1> USE DEF Invisible, disk, others, runtime, device, locals, history
<1>1. CASE StartService \/ DrainDone \/ Rest \/ UNCHANGED vars
    BY <1>1 DEF StartService, DrainDone, Rest, vars
<1>2. CASE Recovering
    BY <1>2 DEF Recovering, RecoverInterruptedApply, DropLaterCandidate,
        BeginRollbackActivation, CleanupRollback, CleanupMarker, RecoverConfigRoot,
        RecoverLeftovers, RecoverMarker, RestoreRollback, RestoreNothing,
        RestoreRemoveRoot, RestoreRename, RestoreRecord, RestoreMarker, DiscardInitial,
        DiscardRoot, DiscardRecord, DiscardCandidate, DiscardRollback, DiscardMarker,
        SettleBoot, SettleSameBoot, Reactivate, ClearRollbackActivation, BootUnits
<1>3. CASE Applying /\ ~ClaimNextJob /\ ~MarkCommitted
    BY <1>3 DEF Applying, VerifyStagedJob, RenderVerifiedCandidate, RejectJob,
        CopyCandidate, MarkPromoted, PromoteDropRollback, PromoteMarker, PromoteSaveRoot,
        PromoteRemoveRoot, PromoteSwap, ActivateSucceeds, ActivateFails
<1>4. CASE WorkerRaises \/ ProcessDies
    BY <1>4 DEF WorkerRaises, ProcessDies, Interrupted
<1> QED BY <1>1, <1>2, <1>3, <1>4

\* Every variable keeps its type: in particular no step reads a field of a missing
\* configuration, returns to a caller that did not call it, or records a missing user.
THEOREM TypeCorrect == ASSUME Repeatable PROVE Spec => []TypeOK
<1>1. IInv => TypeOK
    BY DEF IInv
<1> QED BY <1>1, IInvIsInductive, PTL

\* recover_interrupted_apply can be run at any instant, for any number of interrupted
\* promotions, rollbacks and recoveries, and always yields a complete copy of the
\* configuration whose commit receipt was written last.
THEOREM StoreAlwaysCommitted == ASSUME Repeatable PROVE Spec => []StoreIsCommitted
BY IInvStoreIsCommitted, IInvIsInductive, PTL

\* When no job is claimed and no process runs, the apply path has cleaned up after
\* itself (finalize_staged and apply_staged_job end in a finished recovery).
THEOREM IdleIsClean == ASSUME Repeatable PROVE Spec => []CleanWhenIdle
<1>1. IInv => CleanWhenIdle
    <2> SUFFICES ASSUME IInv, Idle PROVE CleanWhenIdle
        BY DEF CleanWhenIdle
    <2>1. Clean
        BY DEF IInv, QuietIsClean, RecoveryControl, Idle
    <2>2. CASE committed = None
        BY <2>1, <2>2 DEF CleanWhenIdle, Clean, NoLeftovers, Settled, Bare
    <2>3. CASE committed # None
        BY <2>1, <2>3 DEF CleanWhenIdle, Clean, NoLeftovers, Settled, Good
    <2> QED BY <2>2, <2>3
<1> QED BY <1>1, IInvIsInductive, PTL

\* write_result, by the worker, its except block or a finalizer, tells the truth.
THEOREM ResultsAreTruthful == ASSUME Repeatable PROVE Spec => []ResultsTruthful
<1>1. IInv => ResultsTruthful
    BY DEF IInv, Ledger
<1> QED BY <1>1, IInvIsInductive, PTL

\* Until a first configuration commits, discard_initial_config and the promotion it
\* undoes never lose the only record of an account that apply-users made usable.
THEOREM RecordSurvivesDiscard == ASSUME Repeatable PROVE Spec => []DiscardKeepsRecord
<1>1. IInv => DiscardKeepsRecord
    BY DEF IInv, Records, DiscardKeepsRecord
<1> QED BY <1>1, IInvIsInductive, PTL

\* A result is written only after an activation for the configuration in place: the
\* rollback-activation marker carries the obligation across kills.
THEOREM ActivatedBeforeResult == ASSUME Repeatable PROVE Spec => ResultAfterActivation
<1> DEFINE A == results' # results /\ claim' # None /\ root.cfg # None
                => activated = root.cfg
<1>1. IInv /\ [Next]_vars => [A]_vars
    <2> SUFFICES ASSUME IInv, [Next]_vars, results' # results, claim' # None,
                        root.cfg # None
                 PROVE  activated = root.cfg
        OBVIOUS
    <2>1. Publish
        BY InvisibleSteps, ConfigStoreConstants
        DEF Next, Work, Fault, Invisible, ClaimNextJob, MarkCommitted, Unclaim, PowerLoss,
            runtime, Applying
    <2>2. Clean /\ who # "boot"
        BY <2>1 DEF Publish, Step, IInv, Callers, RecoveryControl
    <2>3. committed # None /\ Good(root) /\ ~raMarker
        BY <2>2 DEF Clean, Settled, Bare
    <2>4. activated = committed
        BY <2>2, <2>3 DEF IInv, Following
    <2> QED BY <2>3, <2>4 DEF Good
<1> QED BY <1>1, IInvIsInductive, PTL DEF Spec, ResultAfterActivation

-----------------------------------------------------------------------------
(* Refinement of AtomicApply *)

\* A staged apply, with all its renames, markers, receipts, faults and recoveries,
\* implements the atomic replacement of AtomicApply: the store changes only at
\* mark_committed, and the published verdict says whether it did.
THEOREM ImplementsAtomicApply == ASSUME Repeatable PROVE Spec => RefinesAtomicApply
<1>1. Init => Atomic!Init
    <2> SUFFICES ASSUME Init PROVE Atomic!Init
        OBVIOUS
    <2>1. StoreView = committed
        BY InitIInv, IInvStoreIsCommitted DEF StoreIsCommitted
    <2> QED BY <2>1 DEF Init, Atomic!Init, Atomic!NoVerdict, Seeded, Absent
<1>2. IInv /\ IInv' /\ [Next]_vars => [Atomic!Next]_(Atomic!vars)
    <2> SUFFICES ASSUME IInv, IInv', [Next]_vars PROVE [Atomic!Next]_(Atomic!vars)
        OBVIOUS
    <2>1. StoreView = committed /\ StoreView' = committed'
        <3>1. StoreIsCommitted /\ StoreIsCommitted'
            BY IInvStoreIsCommitted, PTL
        <3> QED BY <3>1 DEF StoreIsCommitted
    <2>2. CASE ClaimNextJob
        <3>1. PICK j \in todo : claim' = j
            BY <2>2 DEF ClaimNextJob
        <3>2. Atomic!Take(j)
            BY <2>1, <2>2, <3>1
            DEF ClaimNextJob, Step, history, IInv, Callers, Ledger, Atomic!Take
        <3> QED BY <3>1, <3>2 DEF Atomic!Next, IInv, TypeOK
    <2>3. CASE MarkCommitted
        <3>1. Atomic!Commit
            BY <2>1, <2>3, ConfigStoreConstants
            DEF MarkCommitted, Step, runtime, IInv, Claims, ApplyControl, WorkerSteps,
                Stamped, Atomic!Commit
        <3> QED BY <3>1 DEF Atomic!Next
    <2>4. CASE Publish
        <3>1. CASE claim # None /\ results[claim] = "none"
            <4>1. Verdict = (IF committed = claim THEN "succeeded" ELSE "failed")
                BY <2>4, <3>1, ConfigStoreConstants
                DEF Publish, Step, Verdict, IInv, TypeOK, Claims, RecoveryControl, Ledger,
                    Clean, Settled, Good, Bare
            <4>2. Atomic!Report
                BY <2>1, <2>4, <3>1, <4>1 DEF Publish, history, Atomic!Report
            <4> QED BY <4>2 DEF Atomic!Next
        <3>2. CASE ~(claim # None /\ results[claim] = "none")
            BY <2>1, <2>4, <3>2 DEF Publish, history, Atomic!vars
        <3> QED BY <3>1, <3>2
    <2>5. CASE Unclaim
        <3>1. CASE claim # None
            <4>1. Atomic!Finish
                BY <2>1, <2>5, <3>1
                DEF Unclaim, Step, history, IInv, Claims, Atomic!Finish
            <4> QED BY <4>1 DEF Atomic!Next
        <3>2. CASE claim = None
            BY <2>1, <2>5, <3>2 DEF Unclaim, history, Atomic!vars
        <3> QED BY <3>1, <3>2
    <2>6. CASE PowerLoss
        <3>1. Atomic!Reboot
            BY <2>1, <2>6
            DEF PowerLoss, Interrupted, history, Atomic!Reboot, Atomic!NoVerdict
        <3> QED BY <3>1 DEF Atomic!Next
    <2>7. CASE Invisible
        BY <2>1, <2>7 DEF Invisible, Atomic!vars
    <2> QED
        BY <2>2, <2>3, <2>4, <2>5, <2>6, <2>7, InvisibleSteps DEF Next, Work, Fault
<1> QED BY <1>1, <1>2, IInvIsInductive, PTL DEF Spec, RefinesAtomicApply, Atomic!Spec
=============================================================================
