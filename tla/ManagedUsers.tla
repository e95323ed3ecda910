---------------------------- MODULE ManagedUsers ---------------------------
(***************************************************************************)
(* apply-users.py account by account, and the way its record travels with  *)
(* the configuration trees: carried forward by a promotion, merged by a    *)
(* rollback, kept by a discarded first apply.  Accounts live on the        *)
(* overlay root, so a boot starts again from those of the image.           *)
(***************************************************************************)
EXTENDS Integers, FiniteSets

CONSTANTS
    Users,          \* names a configuration may declare
    ImageUsers,     \* other accounts of the image
    Protected,      \* PROTECTED_USERS
    MaxApplies,     \* bound: configurations applied
    MaxFaults       \* bound: failing commands and activations, killed restores, reboots

NoUser == "no user"

\* What the constants must satisfy; the module that instantiates this one assumes it.
ManagedUsersConstants ==
    /\ IsFiniteSet(Users) /\ Users # {}
    /\ IsFiniteSet(ImageUsers) /\ IsFiniteSet(Protected)
    /\ NoUser \notin Users \cup ImageUsers \cup Protected
    /\ Users \cap (ImageUsers \cup Protected) = {} /\ ImageUsers \cap Protected = {}
    /\ MaxApplies \in Nat /\ MaxFaults \in Nat

VARIABLES
    acct,           \* per account: none, open, locked, or admitted again without a shell
    wheel,          \* accounts in the admin groups
    owned,          \* key files of the active tree that belong to their user
    root, rback,    \* active and rollback tree: users.json and managed-users.json
    phase,          \* idle, ensure, groups, lock, done, failed
    purpose,        \* why apply-users runs: apply, rollback or boot
    previous, current, todo, user,    \* its local variables
    applied,        \* history: the last run for the active tree was complete
    stray,          \* history: accounts made by a run that did not save its record, and
                    \* those whose record an interrupted restore lost
    dropped,        \* history: users an activated tree did not declare, since the boot
    applies, faults

accounts == <<acct, wheel, owned>>
trees == <<root, rback>>
locals == <<previous, current, todo, user>>
history == <<applied, stray, dropped, applies, faults>>
vars == <<accounts, trees, phase, purpose, locals, history>>

Names == Users \cup ImageUsers \cup Protected

\* A validated configuration declares at least one admin.
Configs == {c \in [users : SUBSET Names, admins : SUBSET Users] :
                c.admins # {} /\ c.admins \subseteq c.users}

\* No users.json: the first apply, or a discarded one
Unprovisioned(r) == [users |-> {}, admins |-> {}, record |-> r]
NoTree == Unprovisioned({NoUser})

ImageAccounts == [n \in Names |-> IF n \in Users THEN "none" ELSE "open"]

Init ==
    /\ acct = ImageAccounts /\ wheel = {} /\ owned = {}
    /\ root = Unprovisioned({}) /\ rback = NoTree
    /\ phase = "idle" /\ purpose = "boot"
    /\ previous = {} /\ current = {} /\ todo = {} /\ user = NoUser
    /\ applied = FALSE /\ stray = {} /\ dropped = {}
    /\ applies = 0 /\ faults = 0

Fault == faults < MaxFaults /\ faults' = faults + 1
Exists(n) == acct[n] # "none"
Removed(tree) == tree.record \ tree.users
NextPhase(from, to) == phase = from /\ phase' = to

\* main reads users.json and load_previous_managed; without users.json it is skipped.
StartRun(tree, why) ==
    /\ purpose' = why
    /\ phase' = IF tree.users = {} THEN "idle" ELSE "ensure"
    /\ previous' = tree.record /\ current' = {}
    /\ todo' = tree.users /\ user' = NoUser
    /\ applied' = FALSE

-----------------------------------------------------------------------------
(* The trees *)

\* carry_forward_managed_state
CarryForward(tree, c) ==
    [users |-> c.users, admins |-> c.admins, record |-> tree.record]

\* A promotion, then the activation sequence, which restarts apply-users first
Promote ==
    /\ phase = "idle" /\ rback = NoTree
    /\ applies < MaxApplies /\ applies' = applies + 1
    /\ \E c \in Configs :
        /\ root' = CarryForward(root, c)
        /\ rback' = root
        /\ StartRun(CarryForward(root, c), "apply")
    /\ owned' = {} /\ dropped' = dropped \cup Removed(root')
    /\ UNCHANGED <<acct, wheel, stray, faults>>

\* The rest of the activation succeeds: cleanup_rollback.
Commit ==
    /\ purpose = "apply" /\ NextPhase("done", "idle")
    /\ rback' = NoTree
    /\ UNCHANGED <<accounts, root, purpose, locals, history>>

\* A later activation step fails.
ActivationFails ==
    /\ purpose = "apply" /\ NextPhase("done", "failed")
    /\ Fault
    /\ UNCHANGED <<accounts, trees, purpose, locals, applied, stray, dropped, applies>>

\* Mutant: the rollback tree keeps its own record.
RestoredUnmerged == rback

\* Mutant: the record of the failed tree, which apply-users wrote last, is the one kept.
RestoredNewest == [rback EXCEPT !.record = root.record]

\* restore_rollback merges both records; discard_initial_config keeps the only one.
Restored == [rback EXCEPT !.record = rback.record \cup root.record]

\* The apply failed: the previous tree is restored and activated.
Rollback ==
    /\ purpose = "apply" /\ phase = "failed"
    /\ root' = Restored /\ rback' = NoTree
    /\ StartRun(Restored, "rollback")
    /\ owned' = {} /\ dropped' = dropped \cup Removed(root')
    /\ UNCHANGED <<acct, wheel, stray, applies, faults>>

\* The worker is killed in restore_rollback after the removal of the failed tree and
\* before the records are merged: recovery brings back the rollback tree with its own
\* record, and activates it.
RestoreDies ==
    /\ purpose = "apply" /\ phase = "failed" /\ rback.users # {}
    /\ Fault
    /\ root' = rback /\ rback' = NoTree
    /\ StartRun(rback, "rollback")
    /\ stray' = stray \cup {n \in root.record \ rback.record : Exists(n)}
    /\ owned' = {} /\ dropped' = dropped \cup Removed(rback)
    /\ UNCHANGED <<acct, wheel, applies>>

\* A rollback or boot run ends; its failure is reported, and changes nothing.
EndRun ==
    /\ purpose # "apply" /\ phase \in {"done", "failed"}
    /\ phase' = "idle"
    /\ UNCHANGED <<accounts, trees, purpose, locals, history>>

\* The accounts of the image, a recovered root, and apply-users as a boot unit.  The power
\* may also be lost inside restore_rollback.
Reboot ==
    /\ Fault
    /\ acct' = ImageAccounts /\ wheel' = {} /\ owned' = {} /\ stray' = {} /\ dropped' = {}
    /\ \/ root' = IF rback = NoTree THEN root ELSE Restored
       \/ rback.users # {} /\ root' = rback
    /\ rback' = NoTree
    /\ StartRun(root', "boot")
    /\ UNCHANGED applies

-----------------------------------------------------------------------------
(* apply-users.py *)

\* An existing account that no record names
Unmanaged(n) == Exists(n) /\ n \notin previous

\* useradd, or usermod that clears the expiry and leaves the shell that lock_user set
Admitted(n) == IF acct[n] \in {"locked", "noshell"} THEN "noshell" ELSE "open"

\* ensure_user
EnsureAccount ==
    /\ NextPhase("ensure", "groups")
    /\ \E n \in todo :
        /\ n \in Protected \/ ~Unmanaged(n)
        /\ user' = n /\ todo' = todo \ {n}
        /\ acct' = IF n \in Protected THEN acct ELSE [acct EXCEPT ![n] = Admitted(n)]
        /\ stray' = IF Exists(n) THEN stray ELSE stray \cup {n}
    /\ UNCHANGED <<wheel, owned, trees, purpose, previous, current, applied, dropped,
                   applies, faults>>

\* ensure_user refuses to modify an unmanaged existing user.
Refuse ==
    /\ NextPhase("ensure", "failed")
    /\ \E n \in todo \ Protected : Unmanaged(n) /\ user' = n
    /\ UNCHANGED <<accounts, trees, purpose, previous, current, todo, history>>

\* usermod --append --groups, or gpasswd --delete
Groups(n) == IF n \in root.admins THEN wheel \cup {n} ELSE wheel \ {n}

\* The groups, and ensure_authorized_keys_owner, which protected users get too
EnsureGroups ==
    /\ NextPhase("groups", "ensure")
    /\ wheel' = IF user \in Protected THEN wheel ELSE Groups(user)
    /\ owned' = owned \cup {user}
    /\ current' = current \cup ({user} \ Protected)
    /\ UNCHANGED <<acct, trees, purpose, previous, todo, user, history>>

\* removed = previous - current
BeginLocking ==
    /\ todo = {} /\ NextPhase("ensure", "lock")
    /\ todo' = previous \ current
    /\ UNCHANGED <<accounts, trees, purpose, previous, current, user, history>>

\* lock_user: expired, shell /sbin/nologin, password locked; the groups stay.
LockUser ==
    /\ phase = "lock" /\ \E n \in todo :
        /\ todo' = todo \ {n}
        /\ acct' = IF n \in Protected \/ ~Exists(n) THEN acct
                   ELSE [acct EXCEPT ![n] = "locked"]
    /\ UNCHANGED <<wheel, owned, trees, phase, purpose, previous, current, user, history>>

\* save_managed_state
SaveManagedState ==
    /\ todo = {} /\ NextPhase("lock", "done")
    /\ root' = [root EXCEPT !.record = current]
    /\ applied' = TRUE
    /\ stray' = stray \ current
    /\ UNCHANGED <<accounts, rback, purpose, locals, dropped, applies, faults>>

\* run exits 1, or the script is killed
CommandFails ==
    /\ phase \in {"ensure", "groups", "lock"} /\ phase' = "failed"
    /\ Fault
    /\ UNCHANGED <<accounts, trees, purpose, locals, applied, stray, dropped, applies>>

ApplyUsers ==
    EnsureAccount \/ Refuse \/ EnsureGroups \/ BeginLocking \/ LockUser \/ SaveManagedState

Next ==
    \/ ApplyUsers \/ CommandFails
    \/ Promote \/ Commit \/ ActivationFails \/ Rollback \/ RestoreDies \/ EndRun
    \/ Reboot

Spec == Init /\ [][Next]_vars

-----------------------------------------------------------------------------
(* Properties *)

Declared == root.users \ Protected
Made == {n \in Names : Exists(n)} \ (ImageUsers \cup Protected)

TreeType == [users : SUBSET Names, admins : SUBSET Users, record : SUBSET Names]

\* Every variable has its type.
TypeOK ==
    /\ acct \in [Names -> {"none", "open", "locked", "noshell"}]
    /\ wheel \subseteq Names /\ owned \subseteq Names
    /\ root \in TreeType /\ rback \in TreeType \cup {NoTree}
    /\ phase \in {"idle", "ensure", "groups", "lock", "done", "failed"}
    /\ purpose \in {"apply", "rollback", "boot"}
    /\ previous \subseteq Names /\ current \subseteq Names /\ todo \subseteq Names
    /\ user \in Names \cup {NoUser}
    /\ applied \in BOOLEAN /\ stray \subseteq Made /\ dropped \subseteq Names
    /\ applies \in 0 .. MaxApplies /\ faults \in 0 .. MaxFaults

\* What a complete run leaves: no declared user is locked, each owns its key, and exactly
\* the declared admins among them have admin groups.  A user keeps the shell it was
\* created with, unless a tree activated since the boot left it out, be it one that was
\* rolled back.
DeclaredOpen ==
    phase = "idle" /\ applied =>
        \A n \in Declared :
            /\ acct[n] = "open" \/ (acct[n] = "noshell" /\ n \in dropped)
            /\ n \in owned /\ (n \in wheel <=> n \in root.admins)

\* After a complete run every other account that apply-users made is locked, the ones
\* of a configuration that was rolled back included; all it can miss are the accounts
\* of a run that failed before it saved its record, and those that only the record of a
\* failed tree named when the restore that removed it was killed before the merge.
RemovedLocked ==
    phase = "idle" /\ applied =>
        \A n \in Made \ Declared : acct[n] = "locked" \/ n \in stray

\* Accounts of the image are neither locked nor given admin groups, declared or not.
ImageUntouched ==
    \A n \in ImageUsers \cup Protected : acct[n] = "open" /\ n \notin wheel

\* apply-users never refuses the users of a tree that a rollback or a boot brings back,
\* although the failed configuration may have locked them and saved a record without
\* them: a refusal strikes a new configuration only, and leaves a way back.
RestoredAdmitted ==
    purpose # "apply" /\ phase = "ensure" => \A n \in todo \ Protected : ~Unmanaged(n)
=============================================================================
