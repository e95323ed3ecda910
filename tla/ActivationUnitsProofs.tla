------------------------ MODULE ActivationUnitsProofs ----------------------
(***************************************************************************)
(* The programs that carry a promoted tree into the system, for any users, *)
(* networks, units, configurations and number of faults that satisfy       *)
(* UnitConstants: the inductive invariants of apply-users,                 *)
(* lan-gateway-apply and quadlet-sync, and that what MCActivationUnits     *)
(* checks follows from them.                                               *)
(***************************************************************************)
EXTENDS MCActivationUnits, TLAPS

-----------------------------------------------------------------------------
(* apply-users *)

Applying == {"ensure", "groups", "lock"}

\* No record names an account of the image, and while a run is under way its record is
\* that of the active tree.  An apply that is under way has a rollback tree.
Records ==
    /\ root.record \subseteq Users /\ previous \subseteq Users /\ current \subseteq Users
    /\ userBack # Accounts!NoTree => userBack.record \subseteq Users
    /\ purpose = "apply" /\ phase # "idle" => userBack # Accounts!NoTree
    /\ phase \in Applying =>
        /\ ~applied /\ previous = root.record
        /\ current \subseteq root.users \ Protected

\* What ensure_user makes of an account
Usable == {"open", "noshell"}

\* What a run has to do for the users of the tree, and has done for one.
Provided(n) ==
    /\ n \in owned
    /\ n \notin Protected => /\ n \in current /\ acct[n] \in Usable
                             /\ n \in wheel <=> n \in root.admins

Providing ==
    /\ phase = "ensure" =>
            userTodo \subseteq root.users /\ \A n \in root.users : n \in userTodo \/ Provided(n)
    /\ phase = "groups" =>
        /\ userTodo \subseteq root.users /\ user \in root.users \ userTodo
        /\ user \notin Protected => user \in Users /\ acct[user] \in Usable
        /\ \A n \in root.users : n \in userTodo \/ n = user \/ Provided(n)
    /\ phase = "lock" => userTodo \subseteq previous \ current /\ \A n \in root.users : Provided(n)
    /\ applied => root.record = current /\ current \subseteq root.users \ Protected
                  /\ \A n \in root.users : Provided(n)

\* Every account that was made is locked, named by the record of the active tree, or stray.
Known ==
    /\ \A n \in Users : acct[n] \in Usable => n \in root.record \cup stray
    /\ phase = "lock" => \A n \in previous \ current : n \in userTodo \/ acct[n] \notin Usable

\* An account was locked only if a tree activated since the boot did not declare it; what
\* a run will lock was left out by its own tree, or is not there.
Dropped ==
    /\ \A n \in Users : acct[n] \in {"locked", "noshell"} => n \in dropped
    /\ phase \in Applying =>
            \A n \in previous \ root.users : n \in dropped \/ acct[n] = "none"

AccountInv ==
    Accounts!TypeOK /\ Accounts!ImageUntouched /\ Records /\ Providing /\ Known /\ Dropped

LEMMA AccountConstants ==
    /\ Accounts!NoUser \notin Accounts!Names
    /\ Users \cap (ImageUsers \cup Protected) = {} /\ ImageUsers \cap Protected = {}
    /\ MaxApplies \in Nat /\ UserFaults \in Nat
    /\ Accounts!Names = Users \cup ImageUsers \cup Protected
    /\ Accounts!NoTree.users = {} /\ Accounts!NoTree.record = {Accounts!NoUser}
  BY UnitConstants DEF Accounts!ManagedUsersConstants, Accounts!Names, Accounts!NoTree,
                       Accounts!Unprovisioned

\* The marker for no rollback tree is none of the trees.
LEMMA NoTreeIsNoTree == Accounts!NoTree \notin Accounts!TreeType
  BY AccountConstants DEF Accounts!TreeType

LEMMA AccountInit == Accounts!Init => AccountInv
  <1> SUFFICES ASSUME Accounts!Init PROVE AccountInv
    OBVIOUS
  <1>1. Accounts!TypeOK
    <2>1. acct \in [Accounts!Names -> {"none", "open", "locked", "noshell"}]
      BY DEF Accounts!Init, Accounts!ImageAccounts
    <2>2. root \in Accounts!TreeType
      BY DEF Accounts!Init, Accounts!TreeType, Accounts!Unprovisioned
    <2>3. userApplies \in 0..MaxApplies /\ userFaults \in 0..UserFaults
      BY AccountConstants DEF Accounts!Init
    <2>4. applied \in BOOLEAN /\ stray \subseteq Accounts!Made
      BY DEF Accounts!Init
    <2> QED
      BY <2>1, <2>2, <2>3, <2>4 DEF Accounts!Init, Accounts!TypeOK
  <1>2. Accounts!ImageUntouched
    BY AccountConstants DEF Accounts!Init, Accounts!ImageUntouched, Accounts!ImageAccounts
  <1>3. Records
    BY DEF Accounts!Init, Records, Applying, Accounts!Unprovisioned
  <1>4. Providing
    BY DEF Accounts!Init, Providing
  <1>5. Known
    BY AccountConstants DEF Accounts!Init, Known, Usable, Accounts!ImageAccounts
  <1>6. Dropped
    BY AccountConstants DEF Accounts!Init, Dropped, Applying, Accounts!ImageAccounts
  <1> QED
    BY <1>1, <1>2, <1>3, <1>4, <1>5, <1>6 DEF AccountInv

LEMMA AccountStep ==
    ASSUME AccountInv, [Accounts!Next]_(Accounts!vars)
    PROVE  AccountInv'
  <1>0. Accounts!TypeOK /\ Accounts!ImageUntouched /\ Records /\ Providing /\ Known
       /\ Dropped
    BY DEF AccountInv
  <1> USE DEF Usable, Accounts!accounts, Accounts!trees, Accounts!locals, Accounts!history
  <1>1. CASE Accounts!EnsureAccount
    <2>1. Accounts!TypeOK'
      <3>1. PICK n \in userTodo :
              /\ n \in Protected \/ ~(acct[n] # "none" /\ n \notin previous)
              /\ user' = n /\ userTodo' = userTodo \ {n}
              /\ acct' = IF n \in Protected THEN acct ELSE [acct EXCEPT ![n] = Accounts!Admitted(n)]
              /\ stray' = IF acct[n] # "none" THEN stray ELSE stray \cup {n}
        BY <1>1 DEF Accounts!EnsureAccount, Accounts!Unmanaged, Accounts!Exists
      <3>2. /\ n \in Accounts!Names
            /\ acct' \in [Accounts!Names -> {"none", "open", "locked", "noshell"}]
        BY <1>0, <3>1 DEF Accounts!TypeOK, Accounts!Admitted
      <3>3. \A x \in Accounts!Names : acct[x] # "none" => acct'[x] # "none"
        BY <1>0, <3>1, <3>2 DEF Accounts!TypeOK, Accounts!Admitted
      <3>4. acct[n] = "none" => n \notin ImageUsers \cup Protected /\ acct'[n] = "open"
        BY <1>0, <3>1, <3>2, AccountConstants
           DEF Accounts!Admitted, Accounts!TypeOK, Accounts!ImageUntouched
      <3>5. stray' \subseteq {x \in Accounts!Names : acct'[x] # "none"}
                \ (ImageUsers \cup Protected)
        BY <1>0, <3>1, <3>2, <3>3, <3>4 DEF Accounts!TypeOK, Accounts!Made, Accounts!Exists
      <3> QED
        BY <1>0, <1>1, <3>1, <3>2, <3>5
           DEF Accounts!TypeOK, Accounts!Made, Accounts!Exists, Accounts!EnsureAccount,
           Accounts!NextPhase
    <2>2. Accounts!ImageUntouched'
      BY <1>0, <1>1, AccountConstants DEF Accounts!TypeOK, Accounts!ImageUntouched, Records,
         Providing, Applying, Accounts!EnsureAccount, Accounts!NextPhase, Accounts!Unmanaged,
         Accounts!Exists
    <2>3. Records'
      BY <1>0, <1>1, AccountConstants DEF Accounts!TypeOK, Records, Applying, Providing,
         Accounts!EnsureAccount, Accounts!NextPhase, Accounts!Unmanaged, Accounts!Exists
    <2>4. Providing'
      <3>1. PICK n \in userTodo :
              /\ n \in Protected \/ ~(acct[n] # "none" /\ n \notin previous)
              /\ user' = n /\ userTodo' = userTodo \ {n}
              /\ acct' = IF n \in Protected THEN acct ELSE [acct EXCEPT ![n] = Accounts!Admitted(n)]
        BY <1>1 DEF Accounts!EnsureAccount, Accounts!Unmanaged, Accounts!Exists
      <3>2. /\ phase = "ensure" /\ phase' = "groups" /\ root' = root /\ current' = current
            /\ owned' = owned /\ wheel' = wheel /\ applied' = applied /\ ~applied
        BY <1>0, <1>1 DEF Accounts!EnsureAccount, Accounts!NextPhase, Records, Applying
      <3>3. n \in Accounts!Names /\ n \in root.users /\ userTodo \subseteq root.users
            /\ \A x \in root.users : x \in userTodo \/ Provided(x)
        BY <1>0, <3>1, <3>2 DEF Accounts!TypeOK, Providing
      <3>4. n \notin Protected => n \in Users /\ acct'[n] \in Usable
        <4>1. n \in ImageUsers => acct[n] = "open" /\ n \notin previous
          BY <1>0, AccountConstants DEF Accounts!ImageUntouched, Records
        <4> QED
          BY <1>0, <3>1, <3>3, <4>1, AccountConstants DEF Accounts!TypeOK, Accounts!Admitted
      <3>5. \A x \in root.users : x # n /\ Provided(x) => Provided(x)'
        BY <1>0, <3>1, <3>2, <3>3 DEF Accounts!TypeOK, Provided
      <3>6. \A x \in root.users : x \in userTodo' \/ x = user' \/ Provided(x)'
        BY <3>1, <3>3, <3>5
      <3> QED
        BY <3>1, <3>2, <3>3, <3>4, <3>6 DEF Providing
    <2>5. Known'
      BY <1>0, <1>1, AccountConstants DEF Accounts!TypeOK, Records, Applying, Providing,
         Provided, Known, Accounts!EnsureAccount, Accounts!NextPhase, Accounts!Unmanaged,
         Accounts!Exists, Accounts!Admitted
    <2>6. Dropped'
      BY <1>0, <1>1, AccountConstants DEF Accounts!TypeOK, Records, Applying, Providing,
         Provided, Dropped, Accounts!EnsureAccount, Accounts!NextPhase, Accounts!Unmanaged,
         Accounts!Exists, Accounts!Admitted
    <2> QED
      BY <2>1, <2>2, <2>3, <2>4, <2>5, <2>6 DEF AccountInv
  <1>2. CASE Accounts!Refuse
    <2>1. Accounts!TypeOK'
      BY <1>0, <1>2, AccountConstants DEF Accounts!TypeOK, Accounts!TreeType, Accounts!Names,
         Accounts!Made, Accounts!Exists, Accounts!Refuse, Accounts!NextPhase
    <2>2. Accounts!ImageUntouched'
      BY <1>0, <1>2, AccountConstants DEF Accounts!TypeOK, Accounts!ImageUntouched, Records,
         Providing, Applying, Accounts!Refuse, Accounts!NextPhase
    <2>3. Records'
      BY <1>0, <1>2, AccountConstants DEF Accounts!TypeOK, Records, Applying, Providing,
         Accounts!Refuse, Accounts!NextPhase
    <2>4. Providing'
      BY <1>0, <1>2, AccountConstants DEF Accounts!TypeOK, Records, Applying, Providing,
         Provided, Accounts!Refuse, Accounts!NextPhase
    <2>5. Known'
      BY <1>0, <1>2, AccountConstants DEF Accounts!TypeOK, Records, Applying, Providing,
         Provided, Known, Accounts!Refuse, Accounts!NextPhase
    <2>6. Dropped'
      BY <1>0, <1>2, AccountConstants DEF Accounts!TypeOK, Records, Applying, Providing,
         Provided, Dropped, Accounts!Refuse, Accounts!NextPhase
    <2> QED
      BY <2>1, <2>2, <2>3, <2>4, <2>5, <2>6 DEF AccountInv
  <1>3. CASE Accounts!EnsureGroups
    <2>1. Accounts!TypeOK'
      <3>1. user \in Accounts!Names /\ wheel' \subseteq Accounts!Names
        <4>1. user \in root.users /\ root.users \subseteq Accounts!Names
          BY <1>0, <1>3 DEF Accounts!TypeOK, Accounts!TreeType, Providing, Accounts!EnsureGroups,
                         Accounts!NextPhase
        <4> QED
          BY <1>0, <1>3, <4>1 DEF Accounts!TypeOK, Accounts!EnsureGroups, Accounts!Groups
      <3> QED
        BY <1>0, <1>3, <3>1
           DEF Accounts!TypeOK, Accounts!Made, Accounts!Exists, Accounts!EnsureGroups,
           Accounts!NextPhase
    <2>2. Accounts!ImageUntouched'
      BY <1>0, <1>3, AccountConstants DEF Accounts!TypeOK, Accounts!ImageUntouched, Records,
         Providing, Applying, Accounts!EnsureGroups, Accounts!NextPhase, Accounts!Groups
    <2>3. Records'
      BY <1>0, <1>3, AccountConstants DEF Accounts!TypeOK, Records, Applying, Providing,
         Accounts!EnsureGroups, Accounts!NextPhase, Accounts!Groups
    <2>4. Providing'
      BY <1>0, <1>3, AccountConstants DEF Accounts!TypeOK, Records, Applying, Providing,
         Provided, Accounts!EnsureGroups, Accounts!NextPhase, Accounts!Groups
    <2>5. Known'
      BY <1>0, <1>3, AccountConstants DEF Accounts!TypeOK, Records, Applying, Providing,
         Provided, Known, Accounts!EnsureGroups, Accounts!NextPhase, Accounts!Groups
    <2>6. Dropped'
      BY <1>0, <1>3, AccountConstants DEF Accounts!TypeOK, Records, Applying, Providing,
         Provided, Dropped, Accounts!EnsureGroups, Accounts!NextPhase, Accounts!Groups
    <2> QED
      BY <2>1, <2>2, <2>3, <2>4, <2>5, <2>6 DEF AccountInv
  <1>4. CASE Accounts!BeginLocking
    <2>1. Accounts!TypeOK'
      BY <1>0, <1>4, AccountConstants DEF Accounts!TypeOK, Accounts!TreeType, Accounts!Names,
         Accounts!Made, Accounts!Exists, Accounts!BeginLocking, Accounts!NextPhase
    <2>2. Accounts!ImageUntouched'
      BY <1>0, <1>4, AccountConstants DEF Accounts!TypeOK, Accounts!ImageUntouched, Records,
         Providing, Applying, Accounts!BeginLocking, Accounts!NextPhase
    <2>3. Records'
      BY <1>0, <1>4, AccountConstants DEF Accounts!TypeOK, Records, Applying, Providing,
         Accounts!BeginLocking, Accounts!NextPhase
    <2>4. Providing'
      BY <1>0, <1>4, AccountConstants DEF Accounts!TypeOK, Records, Applying, Providing,
         Provided, Accounts!BeginLocking, Accounts!NextPhase
    <2>5. Known'
      BY <1>0, <1>4, AccountConstants DEF Accounts!TypeOK, Records, Applying, Providing,
         Provided, Known, Accounts!BeginLocking, Accounts!NextPhase
    <2>6. Dropped'
      BY <1>0, <1>4, AccountConstants DEF Accounts!TypeOK, Records, Applying, Providing,
         Provided, Dropped, Accounts!BeginLocking, Accounts!NextPhase
    <2> QED
      BY <2>1, <2>2, <2>3, <2>4, <2>5, <2>6 DEF AccountInv
  <1>5. CASE Accounts!LockUser
    <2>1. Accounts!TypeOK'
      BY <1>0, <1>5, AccountConstants DEF Accounts!TypeOK, Accounts!TreeType, Accounts!Names,
         Accounts!Made, Accounts!Exists, Accounts!LockUser
    <2>2. Accounts!ImageUntouched'
      BY <1>0, <1>5, AccountConstants DEF Accounts!TypeOK, Accounts!ImageUntouched, Records,
         Providing, Applying, Accounts!LockUser, Accounts!Exists
    <2>3. Records'
      BY <1>0, <1>5, AccountConstants DEF Accounts!TypeOK, Records, Applying, Providing,
         Accounts!LockUser, Accounts!Exists
    <2>4. Providing'
      BY <1>0, <1>5, AccountConstants DEF Accounts!TypeOK, Records, Applying, Providing,
         Provided, Accounts!LockUser, Accounts!Exists
    <2>5. Known'
      BY <1>0, <1>5, AccountConstants DEF Accounts!TypeOK, Records, Applying, Providing,
         Provided, Known, Accounts!LockUser, Accounts!Exists
    <2>6. Dropped'
      BY <1>0, <1>5, AccountConstants DEF Accounts!TypeOK, Records, Applying, Providing,
         Provided, Dropped, Accounts!LockUser, Accounts!Exists
    <2> QED
      BY <2>1, <2>2, <2>3, <2>4, <2>5, <2>6 DEF AccountInv
  <1>6. CASE Accounts!SaveManagedState
    <2>1. Accounts!TypeOK'
      BY <1>0, <1>6, AccountConstants DEF Accounts!TypeOK, Accounts!TreeType, Accounts!Names,
         Accounts!Made, Accounts!Exists, Accounts!SaveManagedState, Accounts!NextPhase
    <2>2. Accounts!ImageUntouched'
      BY <1>0, <1>6, AccountConstants DEF Accounts!TypeOK, Accounts!ImageUntouched, Records,
         Providing, Applying, Accounts!SaveManagedState, Accounts!NextPhase
    <2>3. Records'
      BY <1>0, <1>6, AccountConstants DEF Accounts!TypeOK, Records, Applying, Providing,
         Accounts!SaveManagedState, Accounts!NextPhase
    <2>4. Providing'
      BY <1>0, <1>6, AccountConstants DEF Accounts!TypeOK, Records, Applying, Providing,
         Provided, Accounts!SaveManagedState, Accounts!NextPhase
    <2>5. Known'
      BY <1>0, <1>6, AccountConstants DEF Accounts!TypeOK, Records, Applying, Providing,
         Provided, Known, Accounts!SaveManagedState, Accounts!NextPhase
    <2>6. Dropped'
      BY <1>0, <1>6, AccountConstants DEF Accounts!TypeOK, Records, Applying, Providing,
         Provided, Dropped, Accounts!SaveManagedState, Accounts!NextPhase
    <2> QED
      BY <2>1, <2>2, <2>3, <2>4, <2>5, <2>6 DEF AccountInv
  <1>7. CASE Accounts!CommandFails
    <2>1. Accounts!TypeOK'
      BY <1>0, <1>7, AccountConstants DEF Accounts!TypeOK, Accounts!TreeType, Accounts!Names,
         Accounts!Made, Accounts!Exists, Accounts!CommandFails, Accounts!Fault
    <2>2. Accounts!ImageUntouched'
      BY <1>0, <1>7, AccountConstants DEF Accounts!TypeOK, Accounts!ImageUntouched, Records,
         Providing, Applying, Accounts!CommandFails, Accounts!Fault
    <2>3. Records'
      BY <1>0, <1>7, AccountConstants DEF Accounts!TypeOK, Records, Applying, Providing,
         Accounts!CommandFails, Accounts!Fault
    <2>4. Providing'
      BY <1>0, <1>7, AccountConstants DEF Accounts!TypeOK, Records, Applying, Providing,
         Provided, Accounts!CommandFails, Accounts!Fault
    <2>5. Known'
      BY <1>0, <1>7, AccountConstants DEF Accounts!TypeOK, Records, Applying, Providing,
         Provided, Known, Accounts!CommandFails, Accounts!Fault
    <2>6. Dropped'
      BY <1>0, <1>7, AccountConstants DEF Accounts!TypeOK, Records, Applying, Providing,
         Provided, Dropped, Accounts!CommandFails, Accounts!Fault
    <2> QED
      BY <2>1, <2>2, <2>3, <2>4, <2>5, <2>6 DEF AccountInv
  <1>8. CASE Accounts!Promote
    <2>1. Accounts!TypeOK'
      <3>1. PICK c \in Accounts!Configs :
              /\ root' = Accounts!CarryForward(root, c) /\ userBack' = root
              /\ Accounts!StartRun(Accounts!CarryForward(root, c), "apply")
        BY <1>8 DEF Accounts!Promote
      <3>2. Accounts!CarryForward(root, c) \in Accounts!TreeType
        BY <1>0 DEF Accounts!TypeOK, Accounts!TreeType, Accounts!CarryForward, Accounts!Configs
      <3>3. /\ previous' \subseteq Accounts!Names /\ current' = {}
            /\ userTodo' \subseteq Accounts!Names
            /\ user' = Accounts!NoUser /\ applied' = FALSE /\ purpose' = "apply"
            /\ phase' \in {"idle", "ensure"}
        BY <3>1, <3>2 DEF Accounts!StartRun, Accounts!TreeType
      <3>4. userApplies' \in 0..MaxApplies
        BY <1>0, <1>8, AccountConstants DEF Accounts!TypeOK, Accounts!Promote
      <3>5. dropped' \subseteq Accounts!Names
        BY <1>0, <1>8, <3>1, <3>2 DEF Accounts!TypeOK, Accounts!TreeType, Accounts!Promote,
           Accounts!Removed
      <3> QED
        BY <1>0, <1>8, <3>1, <3>2, <3>3, <3>4, <3>5
           DEF Accounts!TypeOK, Accounts!Made, Accounts!Exists, Accounts!Promote
    <2>2. Accounts!ImageUntouched'
      BY <1>0, <1>8, AccountConstants DEF Accounts!TypeOK, Accounts!ImageUntouched, Records,
         Providing, Applying, Accounts!Promote, Accounts!StartRun, Accounts!CarryForward,
         Accounts!Configs
    <2>3. Records'
      BY <1>0, <1>8, AccountConstants DEF Accounts!TypeOK, Records, Applying, Providing,
         Accounts!Promote, Accounts!StartRun, Accounts!CarryForward, Accounts!Configs
    <2>4. Providing'
      BY <1>0, <1>8, AccountConstants DEF Accounts!TypeOK, Records, Applying, Providing,
         Provided, Accounts!Promote, Accounts!StartRun, Accounts!CarryForward, Accounts!Configs
    <2>5. Known'
      BY <1>0, <1>8, AccountConstants DEF Accounts!TypeOK, Records, Applying, Providing,
         Provided, Known, Accounts!Promote, Accounts!StartRun, Accounts!CarryForward,
         Accounts!Configs
    <2>6. Dropped'
      BY <1>0, <1>8, AccountConstants DEF Accounts!TypeOK, Records, Applying, Providing,
         Provided, Dropped, Accounts!Promote, Accounts!Removed, Accounts!StartRun,
         Accounts!CarryForward,
         Accounts!Configs
    <2> QED
      BY <2>1, <2>2, <2>3, <2>4, <2>5, <2>6 DEF AccountInv
  <1>9. CASE Accounts!Commit
    <2>1. Accounts!TypeOK'
      BY <1>0, <1>9, AccountConstants DEF Accounts!TypeOK, Accounts!TreeType, Accounts!Names,
         Accounts!Made, Accounts!Exists, Accounts!Commit, Accounts!NextPhase
    <2>2. Accounts!ImageUntouched'
      BY <1>0, <1>9, AccountConstants DEF Accounts!TypeOK, Accounts!ImageUntouched, Records,
         Providing, Applying, Accounts!Commit, Accounts!NextPhase
    <2>3. Records'
      BY <1>0, <1>9, AccountConstants DEF Accounts!TypeOK, Records, Applying, Providing,
         Accounts!Commit, Accounts!NextPhase
    <2>4. Providing'
      BY <1>0, <1>9, AccountConstants DEF Accounts!TypeOK, Records, Applying, Providing,
         Provided, Accounts!Commit, Accounts!NextPhase
    <2>5. Known'
      BY <1>0, <1>9, AccountConstants DEF Accounts!TypeOK, Records, Applying, Providing,
         Provided, Known, Accounts!Commit, Accounts!NextPhase
    <2>6. Dropped'
      BY <1>0, <1>9, AccountConstants DEF Accounts!TypeOK, Records, Applying, Providing,
         Provided, Dropped, Accounts!Commit, Accounts!NextPhase
    <2> QED
      BY <2>1, <2>2, <2>3, <2>4, <2>5, <2>6 DEF AccountInv
  <1>10. CASE Accounts!ActivationFails
    <2>1. Accounts!TypeOK'
      BY <1>0, <1>10, AccountConstants DEF Accounts!TypeOK, Accounts!TreeType, Accounts!Names,
         Accounts!Made, Accounts!Exists, Accounts!ActivationFails, Accounts!NextPhase,
         Accounts!Fault
    <2>2. Accounts!ImageUntouched'
      BY <1>0, <1>10, AccountConstants DEF Accounts!TypeOK, Accounts!ImageUntouched, Records,
         Providing, Applying, Accounts!ActivationFails, Accounts!NextPhase, Accounts!Fault
    <2>3. Records'
      BY <1>0, <1>10, AccountConstants DEF Accounts!TypeOK, Records, Applying, Providing,
         Accounts!ActivationFails, Accounts!NextPhase, Accounts!Fault
    <2>4. Providing'
      BY <1>0, <1>10, AccountConstants DEF Accounts!TypeOK, Records, Applying, Providing,
         Provided, Accounts!ActivationFails, Accounts!NextPhase, Accounts!Fault
    <2>5. Known'
      BY <1>0, <1>10, AccountConstants DEF Accounts!TypeOK, Records, Applying, Providing,
         Provided, Known, Accounts!ActivationFails, Accounts!NextPhase, Accounts!Fault
    <2>6. Dropped'
      BY <1>0, <1>10, AccountConstants DEF Accounts!TypeOK, Records, Applying, Providing,
         Provided, Dropped, Accounts!ActivationFails, Accounts!NextPhase, Accounts!Fault
    <2> QED
      BY <2>1, <2>2, <2>3, <2>4, <2>5, <2>6 DEF AccountInv
  <1>11. CASE Accounts!Rollback
    <2>1. Accounts!TypeOK'
      <3>1. userBack # Accounts!NoTree => Accounts!Restored \in Accounts!TreeType
        <4> HAVE userBack # Accounts!NoTree
        <4>1. userBack \in Accounts!TreeType /\ root \in Accounts!TreeType
          BY <1>0 DEF Accounts!TypeOK
        <4>2. userBack.record \cup root.record \in SUBSET Accounts!Names
          BY <4>1 DEF Accounts!TreeType
        <4>3. [userBack EXCEPT !.record = userBack.record \cup root.record] \in Accounts!TreeType
          BY <4>1, <4>2 DEF Accounts!TreeType
        <4> QED
          BY <4>3 DEF Accounts!Restored
      <3>2. root' \in Accounts!TreeType /\ root' = Accounts!Restored
        BY <1>0, <1>11, <3>1 DEF Accounts!Rollback, Records
      <3>3. /\ previous' \subseteq Accounts!Names /\ current' = {}
            /\ userTodo' \subseteq Accounts!Names
            /\ user' = Accounts!NoUser /\ applied' = FALSE /\ purpose' = "rollback"
            /\ phase' \in {"idle", "ensure"}
        BY <1>11, <3>2 DEF Accounts!Rollback, Accounts!StartRun, Accounts!TreeType
      <3>4. dropped' \subseteq Accounts!Names
        BY <1>0, <1>11, <3>2 DEF Accounts!TypeOK, Accounts!TreeType, Accounts!Rollback,
           Accounts!Removed
      <3> QED
        BY <1>0, <1>11, <3>2, <3>3, <3>4 DEF Accounts!TypeOK, Accounts!Made, Accounts!Exists,
           Accounts!Rollback
    <2>2. Accounts!ImageUntouched'
      BY <1>0, <1>11, AccountConstants DEF Accounts!TypeOK, Accounts!ImageUntouched, Records,
         Providing, Applying, Accounts!Rollback, Accounts!StartRun, Accounts!Restored
    <2>3. Records'
      BY <1>0, <1>11, AccountConstants DEF Accounts!TypeOK, Records, Applying, Providing,
         Accounts!Rollback, Accounts!StartRun, Accounts!Restored
    <2>4. Providing'
      BY <1>0, <1>11, AccountConstants DEF Accounts!TypeOK, Records, Applying, Providing,
         Provided, Accounts!Rollback, Accounts!StartRun, Accounts!Restored
    <2>5. Known'
      BY <1>0, <1>11, AccountConstants DEF Accounts!TypeOK, Records, Applying, Providing,
         Provided, Known, Accounts!Rollback, Accounts!StartRun, Accounts!Restored
    <2>6. Dropped'
      BY <1>0, <1>11, AccountConstants DEF Accounts!TypeOK, Records, Applying, Providing,
         Provided, Dropped, Accounts!Rollback, Accounts!Removed, Accounts!StartRun,
         Accounts!Restored
    <2> QED
      BY <2>1, <2>2, <2>3, <2>4, <2>5, <2>6 DEF AccountInv
  <1>12. CASE Accounts!EndRun
    <2>1. Accounts!TypeOK'
      BY <1>0, <1>12, AccountConstants DEF Accounts!TypeOK, Accounts!TreeType, Accounts!Names,
         Accounts!Made, Accounts!Exists, Accounts!EndRun
    <2>2. Accounts!ImageUntouched'
      BY <1>0, <1>12, AccountConstants DEF Accounts!TypeOK, Accounts!ImageUntouched, Records,
         Providing, Applying, Accounts!EndRun
    <2>3. Records'
      BY <1>0, <1>12, AccountConstants DEF Accounts!TypeOK, Records, Applying, Providing,
         Accounts!EndRun
    <2>4. Providing'
      BY <1>0, <1>12, AccountConstants DEF Accounts!TypeOK, Records, Applying, Providing,
         Provided, Accounts!EndRun
    <2>5. Known'
      BY <1>0, <1>12, AccountConstants DEF Accounts!TypeOK, Records, Applying, Providing,
         Provided, Known, Accounts!EndRun
    <2>6. Dropped'
      BY <1>0, <1>12, AccountConstants DEF Accounts!TypeOK, Records, Applying, Providing,
         Provided, Dropped, Accounts!EndRun
    <2> QED
      BY <2>1, <2>2, <2>3, <2>4, <2>5, <2>6 DEF AccountInv
  <1>13. CASE Accounts!Reboot
    <2>1. Accounts!TypeOK'
      <3>1. userBack # Accounts!NoTree => Accounts!Restored \in Accounts!TreeType
        <4> HAVE userBack # Accounts!NoTree
        <4>1. userBack \in Accounts!TreeType /\ root \in Accounts!TreeType
          BY <1>0 DEF Accounts!TypeOK
        <4>2. userBack.record \cup root.record \in SUBSET Accounts!Names
          BY <4>1 DEF Accounts!TreeType
        <4>3. [userBack EXCEPT !.record = userBack.record \cup root.record] \in Accounts!TreeType
          BY <4>1, <4>2 DEF Accounts!TreeType
        <4> QED
          BY <4>3 DEF Accounts!Restored
      <3>2. root' \in Accounts!TreeType
        BY <1>0, <1>13, <3>1, AccountConstants DEF Accounts!Reboot, Accounts!TypeOK
      <3>3. /\ previous' \subseteq Accounts!Names /\ current' = {}
            /\ userTodo' \subseteq Accounts!Names
            /\ user' = Accounts!NoUser /\ applied' = FALSE /\ purpose' = "boot"
            /\ phase' \in {"idle", "ensure"}
        BY <1>13, <3>2 DEF Accounts!Reboot, Accounts!StartRun, Accounts!TreeType
      <3>4. acct' \in [Accounts!Names -> {"none", "open", "locked", "noshell"}]
        BY <1>13 DEF Accounts!Reboot, Accounts!ImageAccounts
      <3>5. userFaults' \in 0..UserFaults
        BY <1>0, <1>13, AccountConstants DEF Accounts!TypeOK, Accounts!Reboot, Accounts!Fault
      <3> QED
        BY <1>0, <1>13, <3>2, <3>3, <3>4, <3>5 DEF Accounts!TypeOK, Accounts!Reboot
    <2>2. Accounts!ImageUntouched'
      BY <1>0, <1>13, AccountConstants DEF Accounts!TypeOK, Accounts!ImageUntouched, Records,
         Providing, Applying, Accounts!Reboot, Accounts!Fault, Accounts!StartRun,
         Accounts!Restored, Accounts!ImageAccounts
    <2>3. Records'
      <3>1. root'.record \subseteq Users
        <4>1. userBack # Accounts!NoTree =>
                Accounts!Restored.record = userBack.record \cup root.record
          BY <1>0 DEF Accounts!TypeOK, Accounts!TreeType, Accounts!Restored
        <4>2. userBack.users # {} => userBack # Accounts!NoTree
          BY AccountConstants
        <4> QED
          BY <1>0, <1>13, <4>1, <4>2 DEF Records, Accounts!Reboot
      <3>2. /\ userBack' = Accounts!NoTree /\ purpose' = "boot" /\ applied' = FALSE
            /\ previous' = root'.record /\ current' = {}
        BY <1>13 DEF Accounts!Reboot, Accounts!StartRun
      <3> QED
        BY <3>1, <3>2 DEF Records
    <2>4. Providing'
      BY <1>0, <1>13, AccountConstants DEF Accounts!TypeOK, Records, Applying, Providing,
         Provided, Accounts!Reboot, Accounts!Fault, Accounts!StartRun, Accounts!Restored,
         Accounts!ImageAccounts
    <2>5. Known'
      BY <1>0, <1>13, AccountConstants DEF Accounts!TypeOK, Records, Applying, Providing,
         Provided, Known, Accounts!Reboot, Accounts!Fault, Accounts!StartRun, Accounts!Restored,
         Accounts!ImageAccounts
    <2>6. Dropped'
      <3>1. acct' = Accounts!ImageAccounts /\ previous' \subseteq Users
        BY <1>13, <2>3 DEF Accounts!Reboot, Records
      <3> QED
        BY <3>1, AccountConstants DEF Dropped, Accounts!ImageAccounts
    <2> QED
      BY <2>1, <2>2, <2>3, <2>4, <2>5, <2>6 DEF AccountInv
  <1>14. CASE Accounts!RestoreDies
    <2>1. Accounts!TypeOK'
      <3>1. userBack \in Accounts!TreeType /\ root \in Accounts!TreeType /\ root' = userBack
        BY <1>0, <1>14, AccountConstants DEF Accounts!TypeOK, Accounts!RestoreDies, Records
      <3>2. /\ userFaults' \in 0..UserFaults /\ userApplies' \in 0..MaxApplies
            /\ dropped' \subseteq Accounts!Names
        BY <1>0, <1>14, <3>1, AccountConstants DEF Accounts!TypeOK, Accounts!TreeType,
           Accounts!RestoreDies, Accounts!Fault, Accounts!Removed
      <3>3. /\ previous' \subseteq Accounts!Names /\ current' = {}
            /\ userTodo' \subseteq Accounts!Names
            /\ user' = Accounts!NoUser /\ applied' = FALSE /\ purpose' = "rollback"
            /\ phase' \in {"idle", "ensure"}
        BY <1>14, <3>1 DEF Accounts!RestoreDies, Accounts!StartRun, Accounts!TreeType
      <3>4. stray' \subseteq Accounts!Made /\ Accounts!Made' = Accounts!Made
        BY <1>0, <1>14, <3>1, AccountConstants DEF Accounts!TypeOK, Accounts!TreeType, Records,
           Accounts!Made, Accounts!Exists, Accounts!RestoreDies
      <3> QED
        BY <1>0, <1>14, <3>1, <3>2, <3>3, <3>4 DEF Accounts!TypeOK, Accounts!RestoreDies
    <2>2. Accounts!ImageUntouched'
      BY <1>0, <1>14, AccountConstants DEF Accounts!TypeOK, Accounts!ImageUntouched, Records,
         Providing, Applying, Accounts!RestoreDies, Accounts!Fault,
         Accounts!StartRun, Accounts!Removed, Accounts!Exists
    <2>3. Records'
      BY <1>0, <1>14, AccountConstants DEF Accounts!TypeOK, Records, Applying, Providing,
         Accounts!RestoreDies, Accounts!Fault,
         Accounts!StartRun, Accounts!Removed, Accounts!Exists
    <2>4. Providing'
      BY <1>0, <1>14, AccountConstants DEF Accounts!TypeOK, Records, Applying, Providing,
         Provided, Accounts!RestoreDies, Accounts!Fault,
         Accounts!StartRun, Accounts!Removed, Accounts!Exists
    <2>5. Known'
      BY <1>0, <1>14, AccountConstants DEF Accounts!TypeOK, Records, Applying, Providing,
         Provided, Known, Accounts!RestoreDies, Accounts!Fault,
         Accounts!StartRun, Accounts!Removed, Accounts!Exists
    <2>6. Dropped'
      BY <1>0, <1>14, AccountConstants DEF Accounts!TypeOK, Records, Applying, Providing,
         Provided, Dropped, Accounts!RestoreDies, Accounts!Fault,
         Accounts!StartRun, Accounts!Removed, Accounts!Exists
    <2> QED
      BY <2>1, <2>2, <2>3, <2>4, <2>5, <2>6 DEF AccountInv
  <1>15. CASE UNCHANGED Accounts!vars
    BY <1>0, <1>15 DEF AccountInv, Accounts!TypeOK, Accounts!Made, Accounts!Exists,
       Accounts!ImageUntouched, Records, Providing, Provided, Known, Dropped,
       Accounts!vars
  <1> QED
    BY <1>0, <1>1, <1>2, <1>3, <1>4, <1>5, <1>6, <1>7, <1>8, <1>9, <1>10, <1>11, <1>12, <1>13,
       <1>14, <1>15
       DEF Accounts!Next, Accounts!ApplyUsers

LEMMA AccountSays == AccountInv =>
    /\ Accounts!TypeOK /\ Accounts!DeclaredOpen /\ Accounts!RemovedLocked
    /\ Accounts!ImageUntouched
  <1> SUFFICES ASSUME AccountInv PROVE Accounts!DeclaredOpen /\ Accounts!RemovedLocked
    BY DEF AccountInv
  <1>0. Accounts!TypeOK /\ Providing /\ Known /\ Dropped
    BY DEF AccountInv
  <1>1. Accounts!DeclaredOpen
    <2> SUFFICES ASSUME applied, NEW n \in Accounts!Declared
                 PROVE  /\ acct[n] \in Usable /\ (acct[n] = "noshell" => n \in dropped)
                        /\ n \in owned /\ (n \in wheel <=> n \in root.admins)
      BY DEF Accounts!DeclaredOpen, Usable
    <2>1. n \in current /\ Provided(n)
      BY <1>0 DEF Accounts!Declared, Providing, Provided
    <2>2. n \in Users
      BY <2>1 DEF AccountInv, Records
    <2> QED
      BY <1>0, <2>1, <2>2 DEF Accounts!Declared, Provided, Dropped
  <1>2. Accounts!RemovedLocked
    <2> SUFFICES ASSUME applied, NEW n \in Accounts!Made \ Accounts!Declared, n \notin stray
                 PROVE  acct[n] = "locked"
      BY DEF Accounts!RemovedLocked
    <2>1. n \in Users /\ acct[n] \in {"none", "open", "locked", "noshell"} /\ acct[n] # "none"
      BY <1>0, AccountConstants DEF Accounts!Made, Accounts!Exists, Accounts!TypeOK
    <2>2. n \notin root.record
      BY <1>0 DEF Providing, Accounts!Declared
    <2> QED
      BY <1>0, <2>1, <2>2 DEF Known, Usable
  <1> QED
    BY <1>1, <1>2

\* The record of a tree that can be brought back names the users of that tree; so does the
\* record of the active tree once its apply is over, or was complete.
Established ==
    /\ userBack # Accounts!NoTree => userBack.users \ Protected \subseteq userBack.record
    /\ purpose # "apply" \/ phase \in {"idle", "done"} =>
            root.users \ Protected \subseteq root.record

LEMMA EstablishedInit == Accounts!Init => Established
  BY DEF Accounts!Init, Established, Accounts!Unprovisioned

LEMMA EstablishedStep ==
    ASSUME AccountInv, Established, [Accounts!Next]_(Accounts!vars)
    PROVE  Established'
  <1>0. Accounts!TypeOK /\ Records /\ Providing
    BY DEF AccountInv
  <1> USE DEF Accounts!accounts, Accounts!trees, Accounts!locals, Accounts!history
  <1>1. userBack # Accounts!NoTree =>
            /\ Accounts!Restored.users = userBack.users
            /\ Accounts!Restored.record = userBack.record \cup root.record
    <2> HAVE userBack # Accounts!NoTree
    <2>1. userBack \in Accounts!TreeType
      BY <1>0 DEF Accounts!TypeOK
    <2> QED
      BY <2>1 DEF Accounts!Restored, Accounts!TreeType
  <1>2. CASE Accounts!Promote
    <2>1. userBack' = root /\ purpose' = "apply"
      BY <1>2 DEF Accounts!Promote, Accounts!StartRun
    <2>2. phase' = "ensure"
      <3>1. PICK c \in Accounts!Configs : Accounts!StartRun(Accounts!CarryForward(root, c), "apply")
        BY <1>2 DEF Accounts!Promote
      <3>2. c.users # {} /\ Accounts!CarryForward(root, c).users = c.users
        BY DEF Accounts!Configs, Accounts!CarryForward
      <3> QED
        BY <3>1, <3>2 DEF Accounts!StartRun
    <2>3. phase = "idle"
      BY <1>2 DEF Accounts!Promote
    <2> QED
      BY <2>1, <2>2, <2>3 DEF Established
  <1>3. CASE Accounts!Rollback
    <2>1. userBack # Accounts!NoTree
      BY <1>0, <1>3 DEF Accounts!Rollback, Records
    <2> QED
      BY <1>1, <1>3, <2>1 DEF Established, Accounts!Rollback
  <1>10. CASE Accounts!RestoreDies
    BY <1>0, <1>10, AccountConstants DEF Established, Accounts!RestoreDies
  <1>4. CASE Accounts!Reboot
    <2>1. CASE userBack = Accounts!NoTree
      <3>1. root.users \ Protected \subseteq root.record
        BY <1>0, <2>1 DEF Records, Established
      <3> QED
        BY <1>4, <2>1, <3>1, AccountConstants DEF Established, Accounts!Reboot
    <2>2. CASE userBack # Accounts!NoTree
      BY <1>1, <1>4, <2>2, AccountConstants DEF Established, Accounts!Reboot
    <2> QED
      BY <2>1, <2>2
  <1>5. CASE Accounts!SaveManagedState
    <2>1. phase = "lock" /\ userBack' = userBack /\ root' = [root EXCEPT !.record = current]
      BY <1>5 DEF Accounts!SaveManagedState, Accounts!NextPhase
    <2>2. root \in Accounts!TreeType /\ \A n \in root.users \ Protected : n \in current
      BY <1>0, <2>1 DEF Accounts!TypeOK, Providing, Provided
    <2>3. root'.users = root.users /\ root'.record = current
      BY <2>1, <2>2 DEF Accounts!TreeType
    <2> QED
      BY <2>1, <2>2, <2>3 DEF Established
  <1>6. CASE Accounts!Commit
    BY <1>6 DEF Established, Accounts!Commit, Accounts!NextPhase
  <1>7. CASE Accounts!EndRun
    BY <1>7 DEF Established, Accounts!EndRun
  <1>8. CASE /\ UNCHANGED <<root, userBack, purpose>>
             /\ phase' = phase \/ phase' \notin {"idle", "done"}
    BY <1>8 DEF Established
  <1>9. \/ Accounts!Promote \/ Accounts!Rollback \/ Accounts!RestoreDies \/ Accounts!Reboot
        \/ Accounts!SaveManagedState \/ Accounts!Commit \/ Accounts!EndRun
        \/ /\ UNCHANGED <<root, userBack, purpose>>
           /\ phase' = phase \/ phase' \notin {"idle", "done"}
    BY DEF Accounts!Next, Accounts!ApplyUsers, Accounts!vars, Accounts!EnsureAccount,
       Accounts!Refuse, Accounts!EnsureGroups, Accounts!BeginLocking, Accounts!LockUser,
       Accounts!CommandFails, Accounts!ActivationFails, Accounts!NextPhase
  <1> QED
    BY <1>2, <1>3, <1>4, <1>5, <1>6, <1>7, <1>8, <1>9, <1>10

LEMMA EstablishedSays == AccountInv /\ Established => Accounts!RestoredAdmitted
  <1> SUFFICES ASSUME AccountInv, Established, purpose # "apply", phase = "ensure",
                      NEW n \in userTodo \ Protected
               PROVE  n \in previous
    BY DEF Accounts!RestoredAdmitted, Accounts!Unmanaged
  <1>1. userTodo \subseteq root.users /\ previous = root.record
    BY DEF AccountInv, Providing, Records, Applying
  <1> QED
    BY <1>1 DEF Established

-----------------------------------------------------------------------------
(* lan-gateway-apply *)

Writing == {"dnsmasq", "hosts", "chrony", "etc_hosts", "network"}
Restarting == {"reload", "restart dnsmasq", "restart chrony", "socket"}

\* Files the run has behind it when it is at a step
WrittenAt(at) ==
    CASE at = "hosts" -> {"dnsmasq"}
      [] at = "chrony" -> {"dnsmasq", "hosts"}
      [] at = "etc_hosts" -> {"dnsmasq", "hosts", "chrony"}
      [] at = "network" -> {"dnsmasq", "hosts", "chrony", "etc_hosts"}
      [] at \in Restarting \cup {"done"} -> Network!Files
      [] OTHER -> {}

\* Files whose command is still to come
PendingAt(at) ==
    CASE at = "restart dnsmasq" -> {"dnsmasq", "hosts", "chrony"}
      [] at = "restart chrony" -> {"chrony"}
      [] at \in {"socket", "done"} -> {}
      [] OTHER -> Network!Files

\* A run that has not begun to write has the files it started with.
Untouched ==
    /\ netFiles = [f \in Network!Files |-> netFiles[f]]
    /\ netPc \in {"load", "dnsmasq", "refused"} => netFiles = before

\* What the run has written is what its settings say.
Written == \A f \in WrittenAt(netPc) : netFiles[f] = Network!Content(Network!Settings)[f]

\* A file that no service is behind on is loaded, or was replaced and its restart is due.
Loaded ==
    netPc \in {"load", "done"} \cup Writing \cup Restarting =>
        \A f \in Network!Loadable \ behind :
            loaded[f] = netFiles[f] \/ f \in changed \cap PendingAt(netPc)

\* Only an apply under way has a rollback tree.
Backed == netStage # "applied" => netBack = Network!NoTree

NetworkInv == Network!TypeOK /\ Backed /\ Untouched /\ Written /\ Loaded

LEMMA NetworkNumbers == MaxApplies \in Nat /\ NetworkFaults \in Nat
  BY UnitConstants DEF Network!LanGatewayConstants

LEMMA NetworkInit == Network!Init => NetworkInv
  <1> SUFFICES ASSUME Network!Init PROVE NetworkInv
    OBVIOUS
  <1>1. Network!TypeOK
    BY NetworkNumbers
       DEF Network!Init, Network!TypeOK, Network!NoTree, Network!Steps, Network!ImageContent
  <1>2. Untouched
    BY DEF Network!Init, Untouched, Network!ImageContent
  <1>3. Written
    BY DEF Network!Init, Written, WrittenAt, Restarting
  <1>4. Loaded
    BY DEF Network!Init, Loaded, Writing, Restarting
  <1>5. Backed
    BY DEF Network!Init, Backed
  <1> QED
    BY <1>1, <1>2, <1>3, <1>4, <1>5 DEF NetworkInv

LEMMA NetworkStep ==
    ASSUME NetworkInv, [Network!Next]_(Network!vars)
    PROVE  NetworkInv'
  <1>0. Network!TypeOK /\ Untouched /\ Written /\ Loaded /\ Backed
    BY DEF NetworkInv
  <1> USE DEF Network!trees, Network!run
  <1>1. ASSUME NEW raw \in RawConfigs, Network!Promote(raw) PROVE NetworkInv'
    <2>1. Network!TypeOK'
      <3>1. netFaults' \in 0..NetworkFaults /\ netApplies' \in 0..MaxApplies
        BY <1>0, <1>1, NetworkNumbers DEF Network!TypeOK, Network!Promote, Network!Fault
      <3>2. \A t \in {tree', netBack', payload'} : \A s \in t :
              \E x \in RawConfigs : s = Network!Normalized(x)
        BY <1>0, <1>1 DEF Network!TypeOK, Network!Promote, Network!NoTree, Network!StartRun
      <3>3. /\ netStage' \in {"none", "applied", "restored"} /\ netPc' \in Network!Steps
            /\ netStage' = "none" => netBack' = Network!NoTree
        BY <1>0, <1>1 DEF Backed, Network!TypeOK, Network!Steps, Network!Promote, Network!NoTree,
           Network!StartRun
      <3>4. DOMAIN before' = Network!Files /\ changed' \subseteq Network!Files
            /\ behind' \subseteq Network!Files
            /\ DOMAIN netFiles' = Network!Files /\ DOMAIN loaded' = Network!Files
        BY <1>0, <1>1 DEF Network!TypeOK, Network!Promote, Network!NoTree, Network!StartRun,
           Network!ImageContent
      <3> QED
        BY <1>0, <1>1, <3>1, <3>2, <3>3, <3>4 DEF Network!TypeOK, Network!Promote
    <2>2. Untouched'
      BY <1>0, <1>1, NetworkNumbers DEF Network!TypeOK, Untouched, Network!Promote,
         Network!StartRun, Network!IsTree, Network!NoTree
    <2>3. Written'
      BY <1>0, <1>1, NetworkNumbers DEF Network!TypeOK, Untouched, Written, WrittenAt,
         Restarting, Network!Settings, Network!Promote, Network!StartRun, Network!IsTree,
         Network!NoTree
    <2>4. Loaded'
      BY <1>0, <1>1, NetworkNumbers DEF Network!TypeOK, Loaded, PendingAt, Writing, Restarting,
         Network!Loadable, Network!Promote, Network!StartRun, Network!IsTree, Network!NoTree
    <2>5. Backed'
      BY <1>0, <1>1, NetworkNumbers DEF Backed, Network!Promote, Network!StartRun,
         Network!IsTree, Network!NoTree
    <2> QED
      BY <2>1, <2>2, <2>3, <2>4, <2>5 DEF NetworkInv
  <1>2. CASE Network!Commit
    <2>1. Network!TypeOK'
      <3>1. netFaults' \in 0..NetworkFaults /\ netApplies' \in 0..MaxApplies
        BY <1>0, <1>2, NetworkNumbers DEF Network!TypeOK, Network!Commit, Network!Fault
      <3>2. \A t \in {tree', netBack', payload'} : \A s \in t :
              \E x \in RawConfigs : s = Network!Normalized(x)
        BY <1>0, <1>2 DEF Network!TypeOK, Network!Commit, Network!NoTree
      <3>3. /\ netStage' \in {"none", "applied", "restored"} /\ netPc' \in Network!Steps
            /\ netStage' = "none" => netBack' = Network!NoTree
        BY <1>0, <1>2 DEF Backed, Network!TypeOK, Network!Steps, Network!Commit, Network!NoTree
      <3>4. DOMAIN before' = Network!Files /\ changed' \subseteq Network!Files
            /\ behind' \subseteq Network!Files
            /\ DOMAIN netFiles' = Network!Files /\ DOMAIN loaded' = Network!Files
        BY <1>0, <1>2 DEF Network!TypeOK, Network!Commit, Network!NoTree, Network!ImageContent
      <3> QED
        BY <1>0, <1>2, <3>1, <3>2, <3>3, <3>4 DEF Network!TypeOK, Network!Commit
    <2>2. Untouched'
      BY <1>0, <1>2, NetworkNumbers DEF Network!TypeOK, Untouched, Network!Commit
    <2>3. Written'
      BY <1>0, <1>2, NetworkNumbers DEF Network!TypeOK, Untouched, Written, WrittenAt,
         Restarting, Network!Settings, Network!Commit
    <2>4. Loaded'
      BY <1>0, <1>2, NetworkNumbers DEF Network!TypeOK, Loaded, PendingAt, Writing, Restarting,
         Network!Loadable, Network!Commit
    <2>5. Backed'
      BY <1>0, <1>2, NetworkNumbers DEF Backed, Network!Commit
    <2> QED
      BY <2>1, <2>2, <2>3, <2>4, <2>5 DEF NetworkInv
  <1>3. CASE Network!Restore
    <2>1. Network!TypeOK'
      <3>1. netFaults' \in 0..NetworkFaults /\ netApplies' \in 0..MaxApplies
        BY <1>0, <1>3, NetworkNumbers DEF Network!TypeOK, Network!Restore, Network!Fault
      <3>2. \A t \in {tree', netBack', payload'} : \A s \in t :
              \E x \in RawConfigs : s = Network!Normalized(x)
        BY <1>0, <1>3 DEF Network!TypeOK, Network!Restore, Network!NoTree, Network!StartRun
      <3>3. /\ netStage' \in {"none", "applied", "restored"} /\ netPc' \in Network!Steps
            /\ netStage' = "none" => netBack' = Network!NoTree
        BY <1>0, <1>3 DEF Backed, Network!TypeOK, Network!Steps, Network!Restore, Network!NoTree,
           Network!StartRun
      <3>4. DOMAIN before' = Network!Files /\ changed' \subseteq Network!Files
            /\ behind' \subseteq Network!Files
            /\ DOMAIN netFiles' = Network!Files /\ DOMAIN loaded' = Network!Files
        BY <1>0, <1>3 DEF Network!TypeOK, Network!Restore, Network!NoTree, Network!StartRun,
           Network!ImageContent
      <3> QED
        BY <1>0, <1>3, <3>1, <3>2, <3>3, <3>4 DEF Network!TypeOK, Network!Restore
    <2>2. Untouched'
      BY <1>0, <1>3, NetworkNumbers DEF Network!TypeOK, Untouched, Network!Restore,
         Network!StartRun, Network!IsTree, Network!NoTree
    <2>3. Written'
      BY <1>0, <1>3, NetworkNumbers DEF Network!TypeOK, Untouched, Written, WrittenAt,
         Restarting, Network!Settings, Network!Restore, Network!StartRun, Network!IsTree,
         Network!NoTree
    <2>4. Loaded'
      BY <1>0, <1>3, NetworkNumbers DEF Network!TypeOK, Loaded, PendingAt, Writing, Restarting,
         Network!Loadable, Network!Restore, Network!StartRun, Network!IsTree, Network!NoTree
    <2>5. Backed'
      BY <1>0, <1>3, NetworkNumbers DEF Backed, Network!Restore, Network!StartRun,
         Network!IsTree, Network!NoTree
    <2> QED
      BY <2>1, <2>2, <2>3, <2>4, <2>5 DEF NetworkInv
  <1>4. CASE Network!RollbackEnds
    <2>1. Network!TypeOK'
      <3>1. netFaults' \in 0..NetworkFaults /\ netApplies' \in 0..MaxApplies
        BY <1>0, <1>4, NetworkNumbers DEF Network!TypeOK, Network!RollbackEnds, Network!Fault
      <3>2. \A t \in {tree', netBack', payload'} : \A s \in t :
              \E x \in RawConfigs : s = Network!Normalized(x)
        BY <1>0, <1>4 DEF Network!TypeOK, Network!RollbackEnds
      <3>3. /\ netStage' \in {"none", "applied", "restored"} /\ netPc' \in Network!Steps
            /\ netStage' = "none" => netBack' = Network!NoTree
        BY <1>0, <1>4 DEF Backed, Network!TypeOK, Network!Steps, Network!RollbackEnds
      <3>4. DOMAIN before' = Network!Files /\ changed' \subseteq Network!Files
            /\ behind' \subseteq Network!Files
            /\ DOMAIN netFiles' = Network!Files /\ DOMAIN loaded' = Network!Files
        BY <1>0, <1>4 DEF Network!TypeOK, Network!RollbackEnds, Network!ImageContent
      <3> QED
        BY <1>0, <1>4, <3>1, <3>2, <3>3, <3>4 DEF Network!TypeOK, Network!RollbackEnds
    <2>2. Untouched'
      BY <1>0, <1>4, NetworkNumbers DEF Network!TypeOK, Untouched, Network!RollbackEnds
    <2>3. Written'
      BY <1>0, <1>4, NetworkNumbers DEF Network!TypeOK, Untouched, Written, WrittenAt,
         Restarting, Network!Settings, Network!RollbackEnds
    <2>4. Loaded'
      BY <1>0, <1>4, NetworkNumbers DEF Network!TypeOK, Loaded, PendingAt, Writing, Restarting,
         Network!Loadable, Network!RollbackEnds
    <2>5. Backed'
      BY <1>0, <1>4, NetworkNumbers DEF Backed, Network!RollbackEnds
    <2> QED
      BY <2>1, <2>2, <2>3, <2>4, <2>5 DEF NetworkInv
  <1>5. CASE Network!Reboot
    <2>1. Network!TypeOK'
      <3>1. netFaults' \in 0..NetworkFaults /\ netApplies' \in 0..MaxApplies
        BY <1>0, <1>5, NetworkNumbers DEF Network!TypeOK, Network!Reboot, Network!Fault
      <3>2. \A t \in {tree', netBack', payload'} : \A s \in t :
              \E x \in RawConfigs : s = Network!Normalized(x)
        BY <1>0, <1>5 DEF Network!TypeOK, Network!Reboot, Network!NoTree, Network!StartRun
      <3>3. /\ netStage' \in {"none", "applied", "restored"} /\ netPc' \in Network!Steps
            /\ netStage' = "none" => netBack' = Network!NoTree
        BY <1>0, <1>5 DEF Backed, Network!TypeOK, Network!Steps, Network!Reboot, Network!NoTree,
           Network!StartRun
      <3>4. DOMAIN before' = Network!Files /\ changed' \subseteq Network!Files
            /\ behind' \subseteq Network!Files
            /\ DOMAIN netFiles' = Network!Files /\ DOMAIN loaded' = Network!Files
        BY <1>0, <1>5 DEF Network!TypeOK, Network!Reboot, Network!NoTree, Network!StartRun,
           Network!ImageContent
      <3> QED
        BY <1>0, <1>5, <3>1, <3>2, <3>3, <3>4 DEF Network!TypeOK, Network!Reboot
    <2>2. Untouched'
      BY <1>0, <1>5, NetworkNumbers DEF Network!TypeOK, Untouched, Network!Reboot,
         Network!StartRun, Network!IsTree, Network!NoTree, Network!ImageContent
    <2>3. Written'
      BY <1>0, <1>5, NetworkNumbers DEF Network!TypeOK, Untouched, Written, WrittenAt,
         Restarting, Network!Settings, Network!Reboot, Network!StartRun, Network!IsTree,
         Network!NoTree, Network!ImageContent
    <2>4. Loaded'
      BY <1>0, <1>5, NetworkNumbers DEF Network!TypeOK, Loaded, PendingAt, Writing, Restarting,
         Network!Loadable, Network!Reboot, Network!StartRun, Network!IsTree, Network!NoTree,
         Network!ImageContent
    <2>5. Backed'
      BY <1>0, <1>5, NetworkNumbers DEF Backed, Network!Reboot, Network!StartRun, Network!IsTree,
         Network!NoTree, Network!ImageContent
    <2> QED
      BY <2>1, <2>2, <2>3, <2>4, <2>5 DEF NetworkInv
  <1>6. CASE Network!Load
    <2>1. Network!TypeOK'
      BY <1>0, <1>6, NetworkNumbers DEF Network!TypeOK, Network!Steps, Network!Fault,
         Network!Load, Network!Goto, Network!Elsewhere
    <2>2. Untouched'
      BY <1>0, <1>6, NetworkNumbers DEF Network!TypeOK, Untouched, Network!Load, Network!Goto,
         Network!Elsewhere
    <2>3. Written'
      BY <1>0, <1>6, NetworkNumbers DEF Network!TypeOK, Untouched, Written, WrittenAt,
         Restarting, Network!Settings, Network!Load, Network!Goto, Network!Elsewhere
    <2>4. Loaded'
      BY <1>0, <1>6, NetworkNumbers DEF Network!TypeOK, Loaded, PendingAt, Writing, Restarting,
         Network!Loadable, Network!Load, Network!Goto, Network!Elsewhere
    <2>5. Backed'
      BY <1>0, <1>6, NetworkNumbers DEF Backed, Network!Load, Network!Goto, Network!Elsewhere
    <2> QED
      BY <2>1, <2>2, <2>3, <2>4, <2>5 DEF NetworkInv
  <1>7. CASE Network!LoadNothing
    <2>1. Network!TypeOK'
      BY <1>0, <1>7, NetworkNumbers DEF Network!TypeOK, Network!Steps, Network!Fault,
         Network!LoadNothing, Network!Goto, Network!Elsewhere
    <2>2. Untouched'
      BY <1>0, <1>7, NetworkNumbers DEF Network!TypeOK, Untouched, Network!LoadNothing,
         Network!Goto, Network!Elsewhere
    <2>3. Written'
      BY <1>0, <1>7, NetworkNumbers DEF Network!TypeOK, Untouched, Written, WrittenAt,
         Restarting, Network!Settings, Network!LoadNothing, Network!Goto, Network!Elsewhere
    <2>4. Loaded'
      BY <1>0, <1>7, NetworkNumbers DEF Network!TypeOK, Loaded, PendingAt, Writing, Restarting,
         Network!Loadable, Network!LoadNothing, Network!Goto, Network!Elsewhere
    <2>5. Backed'
      BY <1>0, <1>7, NetworkNumbers DEF Backed, Network!LoadNothing, Network!Goto,
         Network!Elsewhere
    <2> QED
      BY <2>1, <2>2, <2>3, <2>4, <2>5 DEF NetworkInv
  <1>8. CASE Network!WriteDnsmasq
    <2>1. Network!TypeOK'
      BY <1>0, <1>8, NetworkNumbers DEF Network!TypeOK, Network!Steps, Network!Files,
         Network!Plain, Network!Fault, Network!WriteDnsmasq, Network!WriteFile, Network!Replace,
         Network!Goto, Network!Elsewhere
    <2>2. Untouched'
      BY <1>0, <1>8, NetworkNumbers DEF Network!TypeOK, Untouched, Network!Files, Network!Plain,
         Network!WriteDnsmasq, Network!WriteFile, Network!Replace, Network!Goto, Network!Elsewhere
    <2>3. Written'
      BY <1>0, <1>8, NetworkNumbers DEF Network!TypeOK, Untouched, Written, WrittenAt,
         Restarting, Network!Settings, Network!Files, Network!Plain, Network!WriteDnsmasq,
         Network!WriteFile, Network!Replace, Network!Goto, Network!Elsewhere
    <2>4. Loaded'
      BY <1>0, <1>8, NetworkNumbers DEF Network!TypeOK, Loaded, PendingAt, Writing, Restarting,
         Network!Loadable, Network!Files, Network!Plain, Network!WriteDnsmasq, Network!WriteFile,
         Network!Replace, Network!Goto, Network!Elsewhere
    <2>5. Backed'
      BY <1>0, <1>8, NetworkNumbers DEF Backed, Network!WriteDnsmasq, Network!WriteFile,
         Network!Replace, Network!Goto, Network!Elsewhere
    <2> QED
      BY <2>1, <2>2, <2>3, <2>4, <2>5 DEF NetworkInv
  <1>9. CASE Network!WriteHosts
    <2>1. Network!TypeOK'
      BY <1>0, <1>9, NetworkNumbers DEF Network!TypeOK, Network!Steps, Network!Files,
         Network!Plain, Network!Fault, Network!WriteHosts, Network!WriteFile, Network!Replace,
         Network!Goto, Network!Elsewhere
    <2>2. Untouched'
      BY <1>0, <1>9, NetworkNumbers DEF Network!TypeOK, Untouched, Network!Files, Network!Plain,
         Network!WriteHosts, Network!WriteFile, Network!Replace, Network!Goto, Network!Elsewhere
    <2>3. Written'
      BY <1>0, <1>9, NetworkNumbers DEF Network!TypeOK, Untouched, Written, WrittenAt,
         Restarting, Network!Settings, Network!Files, Network!Plain, Network!WriteHosts,
         Network!WriteFile, Network!Replace, Network!Goto, Network!Elsewhere
    <2>4. Loaded'
      BY <1>0, <1>9, NetworkNumbers DEF Network!TypeOK, Loaded, PendingAt, Writing, Restarting,
         Network!Loadable, Network!Files, Network!Plain, Network!WriteHosts, Network!WriteFile,
         Network!Replace, Network!Goto, Network!Elsewhere
    <2>5. Backed'
      BY <1>0, <1>9, NetworkNumbers DEF Backed, Network!WriteHosts, Network!WriteFile,
         Network!Replace, Network!Goto, Network!Elsewhere
    <2> QED
      BY <2>1, <2>2, <2>3, <2>4, <2>5 DEF NetworkInv
  <1>10. CASE Network!WriteChrony
    <2>1. Network!TypeOK'
      BY <1>0, <1>10, NetworkNumbers DEF Network!TypeOK, Network!Steps, Network!Files,
         Network!Plain, Network!Fault, Network!WriteChrony, Network!WriteFile, Network!Replace,
         Network!Goto, Network!Elsewhere
    <2>2. Untouched'
      BY <1>0, <1>10, NetworkNumbers DEF Network!TypeOK, Untouched, Network!Files, Network!Plain,
         Network!WriteChrony, Network!WriteFile, Network!Replace, Network!Goto, Network!Elsewhere
    <2>3. Written'
      BY <1>0, <1>10, NetworkNumbers DEF Network!TypeOK, Untouched, Written, WrittenAt,
         Restarting, Network!Settings, Network!Files, Network!Plain, Network!WriteChrony,
         Network!WriteFile, Network!Replace, Network!Goto, Network!Elsewhere
    <2>4. Loaded'
      BY <1>0, <1>10, NetworkNumbers DEF Network!TypeOK, Loaded, PendingAt, Writing, Restarting,
         Network!Loadable, Network!Files, Network!Plain, Network!WriteChrony, Network!WriteFile,
         Network!Replace, Network!Goto, Network!Elsewhere
    <2>5. Backed'
      BY <1>0, <1>10, NetworkNumbers DEF Backed, Network!WriteChrony, Network!WriteFile,
         Network!Replace, Network!Goto, Network!Elsewhere
    <2> QED
      BY <2>1, <2>2, <2>3, <2>4, <2>5 DEF NetworkInv
  <1>11. CASE Network!WriteEtcHosts
    <2>1. Network!TypeOK'
      BY <1>0, <1>11, NetworkNumbers DEF Network!TypeOK, Network!Steps, Network!Files,
         Network!Plain, Network!Fault, Network!WriteEtcHosts, Network!WriteFile, Network!Replace,
         Network!Goto, Network!Elsewhere
    <2>2. Untouched'
      BY <1>0, <1>11, NetworkNumbers DEF Network!TypeOK, Untouched, Network!Files, Network!Plain,
         Network!WriteEtcHosts, Network!WriteFile, Network!Replace, Network!Goto,
         Network!Elsewhere
    <2>3. Written'
      BY <1>0, <1>11, NetworkNumbers DEF Network!TypeOK, Untouched, Written, WrittenAt,
         Restarting, Network!Settings, Network!Files, Network!Plain, Network!WriteEtcHosts,
         Network!WriteFile, Network!Replace, Network!Goto, Network!Elsewhere
    <2>4. Loaded'
      BY <1>0, <1>11, NetworkNumbers DEF Network!TypeOK, Loaded, PendingAt, Writing, Restarting,
         Network!Loadable, Network!Files, Network!Plain, Network!WriteEtcHosts,
         Network!WriteFile, Network!Replace, Network!Goto, Network!Elsewhere
    <2>5. Backed'
      BY <1>0, <1>11, NetworkNumbers DEF Backed, Network!WriteEtcHosts, Network!WriteFile,
         Network!Replace, Network!Goto, Network!Elsewhere
    <2> QED
      BY <2>1, <2>2, <2>3, <2>4, <2>5 DEF NetworkInv
  <1>12. CASE Network!WriteNetwork
    <2>1. Network!TypeOK'
      BY <1>0, <1>12, NetworkNumbers DEF Network!TypeOK, Network!Steps, Network!Files,
         Network!Plain, Network!Fault, Network!WriteNetwork, Network!Replace, Network!Goto,
         Network!Elsewhere
    <2>2. Untouched'
      BY <1>0, <1>12, NetworkNumbers DEF Network!TypeOK, Untouched, Network!Files, Network!Plain,
         Network!WriteNetwork, Network!Replace, Network!Goto, Network!Elsewhere
    <2>3. Written'
      BY <1>0, <1>12, NetworkNumbers DEF Network!TypeOK, Untouched, Written, WrittenAt,
         Restarting, Network!Settings, Network!Files, Network!Plain, Network!WriteNetwork,
         Network!Replace, Network!Goto, Network!Elsewhere
    <2>4. Loaded'
      BY <1>0, <1>12, NetworkNumbers DEF Network!TypeOK, Loaded, PendingAt, Writing, Restarting,
         Network!Loadable, Network!Files, Network!Plain, Network!WriteNetwork, Network!Replace,
         Network!Goto, Network!Elsewhere
    <2>5. Backed'
      BY <1>0, <1>12, NetworkNumbers DEF Backed, Network!WriteNetwork, Network!Replace,
         Network!Goto, Network!Elsewhere
    <2> QED
      BY <2>1, <2>2, <2>3, <2>4, <2>5 DEF NetworkInv
  <1>13. CASE Network!ReloadNetwork
    <2>1. Network!TypeOK'
      <3>0. netApplies' = netApplies /\ (netFaults' = netFaults \/ Network!Fault)
        BY <1>13 DEF Network!ReloadNetwork, Network!Command, Network!Elsewhere
      <3>1. netFaults' \in 0..NetworkFaults /\ netApplies' \in 0..MaxApplies
        BY <1>0, <3>0, NetworkNumbers DEF Network!TypeOK, Network!Fault
      <3>2. DOMAIN loaded' = Network!Files /\ netPc' \in Network!Steps
        BY <1>0, <1>13 DEF Network!TypeOK, Network!Steps, Network!ReloadNetwork, Network!Command,
           Network!Goto
      <3> QED
        BY <1>0, <1>13, <3>1, <3>2 DEF Network!TypeOK, Network!ReloadNetwork, Network!Command,
           Network!Elsewhere
    <2>2. Untouched'
      BY <1>0, <1>13, NetworkNumbers DEF Network!TypeOK, Untouched, Network!Files, Network!Plain,
         Network!ReloadNetwork, Network!Command, Network!Goto, Network!Elsewhere
    <2>3. Written'
      BY <1>0, <1>13, NetworkNumbers DEF Network!TypeOK, Untouched, Written, WrittenAt,
         Restarting, Network!Settings, Network!Files, Network!Plain, Network!ReloadNetwork,
         Network!Command, Network!Goto, Network!Elsewhere
    <2>4. Loaded'
      BY <1>0, <1>13, NetworkNumbers DEF Network!TypeOK, Loaded, PendingAt, Writing, Restarting,
         Network!Loadable, Network!Files, Network!Plain, Network!ReloadNetwork, Network!Command,
         Network!Goto, Network!Elsewhere
    <2>5. Backed'
      BY <1>0, <1>13, NetworkNumbers DEF Backed, Network!ReloadNetwork, Network!Command,
         Network!Goto, Network!Elsewhere
    <2> QED
      BY <2>1, <2>2, <2>3, <2>4, <2>5 DEF NetworkInv
  <1>14. CASE Network!RestartDnsmasq
    <2>1. Network!TypeOK'
      <3>0. netApplies' = netApplies /\ (netFaults' = netFaults \/ Network!Fault)
        BY <1>14 DEF Network!RestartDnsmasq, Network!Command, Network!Elsewhere
      <3>1. netFaults' \in 0..NetworkFaults /\ netApplies' \in 0..MaxApplies
        BY <1>0, <3>0, NetworkNumbers DEF Network!TypeOK, Network!Fault
      <3>2. DOMAIN loaded' = Network!Files /\ netPc' \in Network!Steps
        BY <1>0, <1>14 DEF Network!TypeOK, Network!Steps, Network!RestartDnsmasq,
           Network!Command, Network!Goto
      <3> QED
        BY <1>0, <1>14, <3>1, <3>2 DEF Network!TypeOK, Network!RestartDnsmasq, Network!Command,
           Network!Elsewhere
    <2>2. Untouched'
      BY <1>0, <1>14, NetworkNumbers DEF Network!TypeOK, Untouched, Network!Files, Network!Plain,
         Network!RestartDnsmasq, Network!Command, Network!Goto, Network!Elsewhere
    <2>3. Written'
      BY <1>0, <1>14, NetworkNumbers DEF Network!TypeOK, Untouched, Written, WrittenAt,
         Restarting, Network!Settings, Network!Files, Network!Plain, Network!RestartDnsmasq,
         Network!Command, Network!Goto, Network!Elsewhere
    <2>4. Loaded'
      BY <1>0, <1>14, NetworkNumbers DEF Network!TypeOK, Loaded, PendingAt, Writing, Restarting,
         Network!Loadable, Network!Files, Network!Plain, Network!RestartDnsmasq, Network!Command,
         Network!Goto, Network!Elsewhere
    <2>5. Backed'
      BY <1>0, <1>14, NetworkNumbers DEF Backed, Network!RestartDnsmasq, Network!Command,
         Network!Goto, Network!Elsewhere
    <2> QED
      BY <2>1, <2>2, <2>3, <2>4, <2>5 DEF NetworkInv
  <1>15. CASE Network!RestartChrony
    <2>1. Network!TypeOK'
      <3>0. netApplies' = netApplies /\ (netFaults' = netFaults \/ Network!Fault)
        BY <1>15 DEF Network!RestartChrony, Network!Command, Network!Elsewhere
      <3>1. netFaults' \in 0..NetworkFaults /\ netApplies' \in 0..MaxApplies
        BY <1>0, <3>0, NetworkNumbers DEF Network!TypeOK, Network!Fault
      <3>2. DOMAIN loaded' = Network!Files /\ netPc' \in Network!Steps
        BY <1>0, <1>15 DEF Network!TypeOK, Network!Steps, Network!RestartChrony, Network!Command,
           Network!Goto
      <3> QED
        BY <1>0, <1>15, <3>1, <3>2 DEF Network!TypeOK, Network!RestartChrony, Network!Command,
           Network!Elsewhere
    <2>2. Untouched'
      BY <1>0, <1>15, NetworkNumbers DEF Network!TypeOK, Untouched, Network!Files, Network!Plain,
         Network!RestartChrony, Network!Command, Network!Goto, Network!Elsewhere
    <2>3. Written'
      BY <1>0, <1>15, NetworkNumbers DEF Network!TypeOK, Untouched, Written, WrittenAt,
         Restarting, Network!Settings, Network!Files, Network!Plain, Network!RestartChrony,
         Network!Command, Network!Goto, Network!Elsewhere
    <2>4. Loaded'
      BY <1>0, <1>15, NetworkNumbers DEF Network!TypeOK, Loaded, PendingAt, Writing, Restarting,
         Network!Loadable, Network!Files, Network!Plain, Network!RestartChrony, Network!Command,
         Network!Goto, Network!Elsewhere
    <2>5. Backed'
      BY <1>0, <1>15, NetworkNumbers DEF Backed, Network!RestartChrony, Network!Command,
         Network!Goto, Network!Elsewhere
    <2> QED
      BY <2>1, <2>2, <2>3, <2>4, <2>5 DEF NetworkInv
  <1>16. CASE Network!RebindSocket
    <2>1. Network!TypeOK'
      <3>1. netFaults' \in 0..NetworkFaults /\ netApplies' \in 0..MaxApplies
        BY <1>0, <1>16, NetworkNumbers DEF Network!TypeOK, Network!RebindSocket, Network!Fault,
           Network!Elsewhere
      <3>2. DOMAIN loaded' = Network!Files /\ netPc' \in Network!Steps
        BY <1>0, <1>16 DEF Network!TypeOK, Network!Steps, Network!RebindSocket, Network!Goto
      <3> QED
        BY <1>0, <1>16, <3>1, <3>2 DEF Network!TypeOK, Network!RebindSocket, Network!Elsewhere
    <2>2. Untouched'
      BY <1>0, <1>16, NetworkNumbers DEF Network!TypeOK, Untouched, Network!RebindSocket,
         Network!Goto, Network!Elsewhere
    <2>3. Written'
      BY <1>0, <1>16, NetworkNumbers DEF Network!TypeOK, Untouched, Written, WrittenAt,
         Restarting, Network!Settings, Network!RebindSocket, Network!Goto, Network!Elsewhere
    <2>4. Loaded'
      BY <1>0, <1>16, NetworkNumbers DEF Network!TypeOK, Loaded, PendingAt, Writing, Restarting,
         Network!Loadable, Network!RebindSocket, Network!Goto, Network!Elsewhere
    <2>5. Backed'
      BY <1>0, <1>16, NetworkNumbers DEF Backed, Network!RebindSocket, Network!Goto,
         Network!Elsewhere
    <2> QED
      BY <2>1, <2>2, <2>3, <2>4, <2>5 DEF NetworkInv
  <1>17. CASE UNCHANGED Network!vars
    BY <1>0, <1>17 DEF NetworkInv, Network!TypeOK, Backed, Untouched, Written, WrittenAt, Loaded,
       Network!Settings, Network!vars
  <1> QED
    BY <1>0, <1>1, <1>2, <1>3, <1>4, <1>5, <1>6, <1>7, <1>8, <1>9, <1>10, <1>11, <1>12, <1>13,
       <1>14, <1>15, <1>16, <1>17
       DEF Network!Next

LEMMA NetworkSays == NetworkInv =>
    /\ Network!TypeOK /\ Network!RefusalTouchesNothing /\ Network!FilesFollowTree
    /\ Network!ServicesFollowFiles
  <1> SUFFICES ASSUME NetworkInv
               PROVE  /\ Network!RefusalTouchesNothing /\ Network!FilesFollowTree
                      /\ Network!ServicesFollowFiles
    BY DEF NetworkInv
  <1>0. Untouched /\ Written /\ Loaded
    BY DEF NetworkInv
  <1>1. Network!RefusalTouchesNothing
    BY <1>0 DEF Untouched, Network!RefusalTouchesNothing
  <1>2. Network!FilesFollowTree
    <2> SUFFICES ASSUME netPc = "done" PROVE netFiles = Network!Content(Network!Settings)
      BY DEF Network!FilesFollowTree
    <2>1. WrittenAt(netPc) = Network!Files
      BY DEF WrittenAt, Restarting
    <2>2. Network!Content(Network!Settings)
            = [f \in Network!Files |-> Network!Content(Network!Settings)[f]]
      BY DEF Network!Content
    <2> QED
      BY <1>0, <2>1, <2>2 DEF Untouched, Written
  <1>3. Network!ServicesFollowFiles
    <2> SUFFICES ASSUME netPc = "done", NEW f \in Network!Loadable \ behind
                 PROVE  loaded[f] = netFiles[f]
      BY DEF Network!ServicesFollowFiles
    <2>1. PendingAt(netPc) = {}
      BY DEF PendingAt
    <2> QED
      BY <1>0, <2>1 DEF Loaded
  <1> QED
    BY <1>1, <1>2, <1>3

\* Whatever config.py accepts, lan-gateway-apply accepts, but for a name with a trailing
\* dot or a key of the board's own interface: for every [network] table and any width of
\* addresses and prefixes (load_lan_settings, load_settings).
LEMMA AlwaysAgreed == ASSUME NEW raw PROVE Network!Agreed(raw)
  <1> DEFINE s == Network!Normalized(raw)
  <1> SUFFICES ASSUME Network!LoadConfig(raw), Network!Ordinary(s) PROVE Network!Valid(s)
    BY DEF Network!Agreed
  <1>1. /\ s.gateway = Network!Gateway(raw) /\ s.start = raw.start /\ s.end = raw.end
        /\ s.domain = "plain" /\ s.pattern = raw.pattern /\ s.ntp = raw.ntp
        /\ s.interfaces = raw.interfaces
    BY DEF Network!Normalized
  <1>2. s.pattern = "plain" /\ s.ntp = "plain"
        /\ DOMAIN raw.interfaces \cap PhysicalKeys = {}
    BY <1>1 DEF Network!Ordinary
  <1> HIDE DEF s
  <1>3. Network!load_settings(s)
    BY <1>1, <1>2 DEF Network!LoadConfig, Network!LanRange, Network!load_settings,
                      Network!validate_dns_name
  <1>4. Network!load_host_network_settings(s)
    BY <1>1, <1>2 DEF Network!LoadConfig, Network!load_host_network_settings
  <1>5. Network!LanMatches(s)
    BY <1>1 DEF Network!LanMatches, Network!Gateway
  <1> QED
    BY <1>3, <1>4, <1>5 DEF Network!Valid

-----------------------------------------------------------------------------
(* quadlet-sync *)

SyncServices == Quadlets!Services(Quadlets!Units)
RenderedServices(m) == Quadlets!Services(desired[m])

\* Every configuration that was promoted passed validate_unique_runtime_services.
SentUnique == \A i \in DOMAIN sent : Quadlets!UniqueServices(sent[i])

\* A sync that is not replaced works on the units of the active tree.
Following == syncFor # 0 => syncFor = active /\ desired = Quadlets!RenderedUnits(active)

\* The unit directory of a mode: still to come, or synchronized.
FilesAhead(m) == unitPc \in {"copy", "unlink"} /\ mode = "rootful" /\ m = "rootless"
FilesSettled(m) == ~ FilesAhead(m) /\ ~ (unitPc \in {"copy", "unlink"} /\ mode = m)

\* In a directory are units of the tree, as far as they are copied, units that were there
\* unmanaged, and those of the manifest that are not unlinked yet.
UnitsAt(m) ==
    /\ FilesAhead(m) =>
        \A u \in Quadlets!Units : unitFiles[m][u] # 0 => u \in found.files[m] \cup manifest[m]
    /\ unitPc = "copy" /\ mode = m =>
        /\ unitTodo \subseteq desired[m]
        /\ \A u \in desired[m] \ unitTodo : unitFiles[m][u] = active
        /\ \A u \in Quadlets!Units :
            unitFiles[m][u] # 0 => u \in found.files[m] \cup manifest[m] \cup desired[m]
    /\ unitPc = "unlink" /\ mode = m =>
        /\ unitTodo \subseteq manifest[m] \ desired[m]
        /\ \A u \in desired[m] : unitFiles[m][u] = active
        /\ \A u \in Quadlets!Units :
            unitFiles[m][u] # 0 => u \in found.files[m] \cup unitTodo \cup desired[m]
    /\ FilesSettled(m) =>
        /\ manifest[m] = desired[m]
        /\ \A u \in desired[m] : unitFiles[m][u] = active
        /\ \A u \in Quadlets!Units : unitFiles[m][u] # 0 => u \in found.files[m] \cup desired[m]

\* Stale services of a mode that are not stopped yet
StaleLeft(m) ==
    IF unitPc \in {"copy", "unlink"} \/ (unitPc = "stop" /\ mode = "rootful" /\ m = "rootless")
    THEN stale[m]
    ELSE IF unitPc = "stop" /\ mode = m THEN unitTodo ELSE {}

\* What runs belongs to the tree, was unmanaged, or is stale and to be stopped; what was
\* restarted runs the unit of the tree.
ServicesAt(m) ==
    /\ stale[m] \cap RenderedServices(m) = {}
    /\ unitPc = "stop" /\ mode = m => unitTodo \subseteq stale[m]
    /\ \A s \in SyncServices : running[m][s] # 0 =>
        s \in found.services[m] \cup RenderedServices(m) \cup failed[m] \cup StaleLeft(m)
    /\ \A s \in tried[m] :
        running[m][s] = active \/ s \in failed[m] \cup Quadlets!Services(found.files[m])

\* The builds of a mode are restarted before the rest of its services.
RestartsAhead(m) ==
    \/ unitPc \in {"copy", "unlink", "stop"}
    \/ unitPc \in {"build", "start"} /\ mode = "rootful" /\ m = "rootless"

RestartsAt(m) ==
    /\ RestartsAhead(m) => tried[m] = {}
    /\ unitPc = "build" /\ mode = m => tried[m] \cup unitTodo = Quadlets!Listed(m, TRUE)
    /\ unitPc = "start" /\ mode = m =>
        /\ Quadlets!Listed(m, TRUE) \subseteq tried[m]
        /\ tried[m] \cup unitTodo = RenderedServices(m)
    /\ ~ RestartsAhead(m) /\ ~ (unitPc \in {"build", "start"} /\ mode = m) =>
        tried[m] = RenderedServices(m)

SyncUnits == syncFor # 0 => \A m \in Quadlets!Modes : UnitsAt(m)
SyncRunning == syncFor # 0 => \A m \in Quadlets!Modes : ServicesAt(m)
SyncRestarts == syncFor # 0 => \A m \in Quadlets!Modes : RestartsAt(m)

QuadletInv ==
    /\ Quadlets!TypeOK /\ SentUnique /\ Following
    /\ SyncUnits /\ SyncRunning /\ SyncRestarts

LEMMA QuadletFacts ==
    /\ Configs \subseteq Quadlets!ConfigType
    /\ DOMAIN Service = Quadlets!Units
    /\ Containers \cap Builds = {}
    /\ MaxApplies \in Nat /\ SyncFaults \in Nat
    /\ Quadlets!Modes = {"rootful", "rootless"}
  BY UnitConstants DEF Quadlets!QuadletConstants, Quadlets!Modes

\* The units of a tree are units a configuration may declare.
LEMMA RenderedType ==
    ASSUME Quadlets!TypeOK, NEW t \in 0..Len(sent), NEW m \in Quadlets!Modes
    PROVE  Quadlets!RenderedUnits(t)[m] \subseteq Quadlets!Units
  <1>1. CASE t = 0
    BY <1>1 DEF Quadlets!RenderedUnits
  <1>2. CASE t # 0
    <2>1. sent[t] \in Configs
      BY <1>2 DEF Quadlets!TypeOK
    <2>2. sent[t] \in Quadlets!ConfigType
      BY <2>1, QuadletFacts
    <2> DEFINE c == sent[t]
    <2>3. c.containers \subseteq Containers /\ c.networks \subseteq Networks
          /\ c.volumes \subseteq Volumes /\ c.builds \subseteq Builds
      BY <2>2 DEF Quadlets!ConfigType
    <2> HIDE DEF c
    <2>4. Quadlets!Rendered(c, m) \subseteq Quadlets!Units
      BY <2>3 DEF Quadlets!Rendered, Quadlets!render_containers, Quadlets!render_networks,
                  Quadlets!render_volumes, Quadlets!render_builds, Quadlets!Units
    <2> QED
      BY <1>2, <2>4 DEF Quadlets!RenderedUnits, c
  <1> QED
    BY <1>1, <1>2

LEMMA ServicesIn ==
    /\ \A us, s : s \in Quadlets!Services(us) <=> \E u \in us : Service[u] = s
    /\ \A us, vs : us \subseteq vs => Quadlets!Services(us) \subseteq Quadlets!Services(vs)
    /\ \A us : us \subseteq Quadlets!Units => Quadlets!Services(us) \subseteq SyncServices
  BY DEF Quadlets!Services, SyncServices

\* Services of the two lists of a mode, builds and the rest, are all of its services.
LEMMA ListedServices ==
    ASSUME Quadlets!TypeOK, NEW m \in Quadlets!Modes
    PROVE  /\ \A b : Quadlets!Listed(m, b) \subseteq SyncServices
           /\ \A b : Quadlets!Listed(m, b)
               \subseteq Quadlets!Services(Quadlets!RenderedUnits(active)[m])
           /\ Quadlets!Listed(m, FALSE) \cup Quadlets!Listed(m, TRUE)
                = Quadlets!Services(Quadlets!RenderedUnits(active)[m])
  <1> DEFINE R == Quadlets!RenderedUnits(active)[m]
  <1>1. R \subseteq Quadlets!Units
    BY RenderedType DEF Quadlets!TypeOK
  <1> HIDE DEF R
  <1>0. \A x : ((x \in Builds) = FALSE) <=> x \notin Builds
    OBVIOUS
  <1>2. /\ \A b : Quadlets!Listed(m, b) = {Service[u] : u \in {x \in R : (x \in Builds) = b}}
        /\ Quadlets!Services(R) = {Service[u] : u \in R}
    BY DEF Quadlets!Listed, Quadlets!Services, R
  <1>3. Quadlets!Services(R) \subseteq SyncServices
    BY <1>1, ServicesIn
  <1>4. \A b : Quadlets!Listed(m, b) \subseteq Quadlets!Services(R)
    BY <1>2
  <1>5. Quadlets!Services(R) \subseteq Quadlets!Listed(m, FALSE) \cup Quadlets!Listed(m, TRUE)
    <2> SUFFICES ASSUME NEW u \in R
                 PROVE  Service[u] \in Quadlets!Listed(m, FALSE) \cup Quadlets!Listed(m, TRUE)
      BY <1>2
    <2>1. CASE u \in Builds
      BY <1>2, <2>1
    <2>2. CASE u \notin Builds
      <3>1. u \in {x \in R : (x \in Builds) = FALSE}
        BY <1>0, <2>2, Zenon
      <3>2. Quadlets!Listed(m, FALSE) = {Service[v] : v \in {x \in R : (x \in Builds) = FALSE}}
        BY <1>2, Zenon
      <3> QED
        BY <3>1, <3>2, Zenon
    <2> QED
      BY <2>1, <2>2
  <1> QED
    BY <1>3, <1>4, <1>5 DEF R

LEMMA Widen ==
    ASSUME NEW S, NEW T, S \subseteq T, NEW A, NEW B, NEW f \in [A -> [B -> S]]
    PROVE  f \in [A -> [B -> T]]
  OBVIOUS

LEMMA SetInner ==
    ASSUME NEW S, NEW A, NEW B, NEW f \in [A -> [B -> S]], NEW a \in A, NEW b \in B, NEW v \in S
    PROVE  [f EXCEPT ![a][b] = v] \in [A -> [B -> S]]
  OBVIOUS

LEMMA FaultCounts ==
    ASSUME syncFaults \in 0..SyncFaults, Quadlets!Fault \/ syncFaults' = syncFaults
    PROVE  syncFaults' \in 0..SyncFaults
  <1>1. CASE Quadlets!Fault
    BY <1>1, QuadletFacts DEF Quadlets!Fault
  <1> QED
    BY <1>1

\* What BeginSync sets, typed
SyncTyped ==
    /\ syncFor \in 0..Len(sent) /\ desired \in [Quadlets!Modes -> SUBSET Quadlets!Units]
    /\ unitPc \in {"idle", "copy", "unlink", "stop", "build", "start"} /\ mode \in Quadlets!Modes
    /\ unitTodo \subseteq IF unitPc \in {"copy", "unlink"} THEN Quadlets!Units ELSE SyncServices
    /\ stale \in [Quadlets!Modes -> SUBSET SyncServices]
    /\ failed \in [Quadlets!Modes -> SUBSET SyncServices]
    /\ tried \in [Quadlets!Modes -> SUBSET SyncServices]
    /\ found.files \in [Quadlets!Modes -> SUBSET Quadlets!Units]
    /\ found.services \in [Quadlets!Modes -> SUBSET SyncServices]

\* A sync begins, after whatever ran before it, in a state that satisfies the invariant:
\* what is in the directories and runs is managed or counts as found.
LEMMA SyncBegins ==
    ASSUME Quadlets!TypeOK, NEW t \in 0..Len(sent), Quadlets!BeginSync(t),
           sent' = sent, active' = t,
           manifest' \in [Quadlets!Modes -> SUBSET Quadlets!Units]
    PROVE  SyncTyped' /\ Following' /\ SyncUnits' /\ SyncRunning' /\ SyncRestarts'
  <1>1. /\ desired' = Quadlets!RenderedUnits(t) /\ syncFor' = t /\ mode' = "rootful"
        /\ unitTodo' = desired'["rootful"]
        /\ t # 0 => unitPc' = "copy"
        /\ t = 0 => unitPc' = "idle"
        /\ tried' = [m \in Quadlets!Modes |-> {}] /\ failed' = [m \in Quadlets!Modes |-> {}]
    BY DEF Quadlets!BeginSync, Quadlets!Nowhere
  <1>2. /\ desired' \in [Quadlets!Modes -> SUBSET Quadlets!Units]
        /\ \A m \in Quadlets!Modes : desired'[m] = Quadlets!RenderedUnits(t)[m]
    <2>1. Quadlets!RenderedUnits(t) =
            [m \in Quadlets!Modes |-> Quadlets!RenderedUnits(t)[m]]
      BY DEF Quadlets!RenderedUnits
    <2>2. \A m \in Quadlets!Modes : Quadlets!RenderedUnits(t)[m] \subseteq Quadlets!Units
      BY RenderedType
    <2> QED
      BY <1>1, <2>1, <2>2
  <1>3. /\ \A m \in Quadlets!Modes :
            stale'[m] = Quadlets!Services(manifest'[m]) \ Quadlets!Services(desired'[m])
        /\ stale' \in [Quadlets!Modes -> SUBSET SyncServices]
    <2>1. stale' = [m \in Quadlets!Modes |->
                        Quadlets!Services(manifest'[m]) \ Quadlets!Services(desired'[m])]
      BY <1>1 DEF Quadlets!BeginSync, Quadlets!StaleServices
    <2>2. \A m \in Quadlets!Modes : Quadlets!Services(manifest'[m]) \subseteq SyncServices
      BY ServicesIn
    <2> QED
      BY <2>1, <2>2
  <1>4. /\ \A m \in Quadlets!Modes :
            found'.files[m] = {u \in Quadlets!Units : unitFiles'[m][u] # 0} \ manifest'[m]
        /\ \A m \in Quadlets!Modes :
            found'.services[m] =
                {s \in SyncServices : running'[m][s] # 0} \ Quadlets!Services(manifest'[m])
        /\ found'.files \in [Quadlets!Modes -> SUBSET Quadlets!Units]
        /\ found'.services \in [Quadlets!Modes -> SUBSET SyncServices]
    BY DEF Quadlets!BeginSync, SyncServices
  <1>5. SyncTyped'
    <2>1. unitTodo' \subseteq Quadlets!Units /\ (t = 0 => unitTodo' = {})
      BY <1>1, <1>2, QuadletFacts DEF Quadlets!RenderedUnits
    <2> QED
      BY <1>1, <1>2, <1>3, <1>4, <2>1, QuadletFacts DEF SyncTyped, SyncServices
  <1>6. Following'
    <2>1. Quadlets!RenderedUnits(active)' = Quadlets!RenderedUnits(t)
      BY DEF Quadlets!RenderedUnits
    <2> QED
      BY <1>1, <2>1 DEF Following
  <1>7. SyncUnits'
    BY <1>1, <1>2, <1>4, QuadletFacts DEF SyncUnits, UnitsAt, FilesAhead, FilesSettled
  <1>8. SyncRunning'
    <2> SUFFICES ASSUME t # 0, NEW m \in Quadlets!Modes PROVE ServicesAt(m)'
      BY <1>1 DEF SyncRunning
    <2>1. StaleLeft(m)' = stale'[m]
      BY <1>1 DEF StaleLeft
    <2>2. RenderedServices(m)' = Quadlets!Services(desired'[m])
      BY DEF RenderedServices, Quadlets!Services
    <2>3. \A s \in SyncServices : running'[m][s] # 0 =>
            s \in found'.services[m] \cup RenderedServices(m)' \cup stale'[m]
      BY <1>3, <1>4, <2>2
    <2> QED
      BY <1>1, <1>3, <2>1, <2>2, <2>3 DEF ServicesAt, SyncServices
  <1>9. SyncRestarts'
    BY <1>1 DEF SyncRestarts, RestartsAt, RestartsAhead
  <1> QED
    BY <1>5, <1>6, <1>7, <1>8, <1>9

\* Both ways to start a sync: the activation hook and a boot.
LEMMA SyncStarts ==
    ASSUME Quadlets!TypeOK, Quadlets!RestartSync \/ Quadlets!Reboot
    PROVE  /\ SyncTyped' /\ Following' /\ SyncUnits' /\ SyncRunning' /\ SyncRestarts'
           /\ sent' = sent /\ active' \in 0..Len(sent)
  <1>1. CASE Quadlets!RestartSync
    <2>1. /\ active \in 0..Len(sent) /\ Quadlets!BeginSync(active)
          /\ sent' = sent /\ active' = active
          /\ manifest' \in [Quadlets!Modes -> SUBSET Quadlets!Units]
      BY <1>1 DEF Quadlets!RestartSync, Quadlets!TypeOK, Quadlets!targets
    <2>2. PICK t \in 0..Len(sent) : t = active /\ Quadlets!BeginSync(t)
      BY <2>1
    <2> QED
      BY <2>1, <2>2, SyncBegins
  <1>2. CASE Quadlets!Reboot
    <2>1. /\ active' \in 0..Len(sent) /\ Quadlets!BeginSync(active')
          /\ sent' = sent
          /\ manifest' \in [Quadlets!Modes -> SUBSET Quadlets!Units]
      BY <1>2 DEF Quadlets!Reboot, Quadlets!TypeOK, Quadlets!Nowhere
    <2>2. PICK t \in 0..Len(sent) : t = active' /\ Quadlets!BeginSync(t)
      BY <2>1
    <2> QED
      BY <2>1, <2>2, SyncBegins
  <1> QED
    BY <1>1, <1>2

LEMMA QuadletInit == Quadlets!Init => QuadletInv
  <1> SUFFICES ASSUME Quadlets!Init PROVE QuadletInv
    OBVIOUS
  <1>1. Quadlets!TypeOK
    <2>1. sent = <<>> /\ Len(sent) = 0 /\ sent \in Seq(Configs)
      BY DEF Quadlets!Init
    <2>2. /\ unitFiles \in [Quadlets!Modes -> [Quadlets!Units -> 0..0]]
          /\ running \in [Quadlets!Modes -> [Quadlets!Services(Quadlets!Units) -> 0..0]]
      BY DEF Quadlets!Init, Quadlets!Nowhere, Quadlets!NoFiles, Quadlets!NoServices
    <2>3. /\ \A S : Quadlets!Nowhere({}) \in [Quadlets!Modes -> SUBSET S]
          /\ 0 \in 0..MaxApplies /\ 0 \in 0..SyncFaults /\ 0 \in 0..0 /\ 0 <= MaxApplies
          /\ "rootful" \in Quadlets!Modes
      BY QuadletFacts DEF Quadlets!Nowhere
    <2>4. /\ found.files = Quadlets!Nowhere({}) /\ found.services = Quadlets!Nowhere({})
      BY DEF Quadlets!Init
    <2> QED
      BY <2>1, <2>2, <2>3, <2>4 DEF Quadlets!Init, Quadlets!TypeOK
  <1>2. SentUnique
    BY DEF Quadlets!Init, SentUnique
  <1>3. Following /\ SyncUnits /\ SyncRunning /\ SyncRestarts
    BY DEF Quadlets!Init, Following, SyncUnits, SyncRunning, SyncRestarts
  <1> QED
    BY <1>1, <1>2, <1>3 DEF QuadletInv

LEMMA QuadletStep ==
    ASSUME QuadletInv, [Quadlets!Next]_(Quadlets!vars)
    PROVE  QuadletInv'
  <1>0. Quadlets!TypeOK /\ SentUnique /\ Following /\ SyncUnits /\ SyncRunning /\ SyncRestarts
    BY DEF QuadletInv
  <1> USE DEF Quadlets!trees, Quadlets!targets, Quadlets!sync, Quadlets!history
  <1>1. ASSUME NEW c \in Configs, Quadlets!Promote(c) PROVE QuadletInv'
    <2>1. Quadlets!TypeOK'
      <3>0. Quadlets!TypeOK /\ SyncServices = Quadlets!Services(Quadlets!Units)
        BY <1>0 DEF SyncServices
      <3>1. /\ sent' \in Seq(Configs)
            /\ Len(sent') <= MaxApplies
            /\ active' \in 0..Len(sent')
            /\ unitBack' \in 0..Len(sent')
            /\ syncFor' \in 0..Len(sent')
        <4>1. sent \in Seq(Configs) /\ Len(sent) \in Nat /\ Len(sent) < MaxApplies
              /\ active \in 0..Len(sent)
          BY <3>0, <1>1 DEF Quadlets!TypeOK, Quadlets!Promote
        <4>2. sent' \in Seq(Configs) /\ Len(sent') = Len(sent) + 1
          BY <4>1, <1>1 DEF Quadlets!Promote
        <4> QED
          BY <4>1, <4>2, <1>1, QuadletFacts DEF Quadlets!Promote
      <3>2. /\ unitStage' \in {"none", "applied", "restored"}
            /\ hooked' \in BOOLEAN
        BY <3>0, <1>1, QuadletFacts DEF Quadlets!TypeOK, Quadlets!Promote
      <3>31. 0..Len(sent) \subseteq 0..Len(sent')
        <4>1. Len(sent) \in Nat /\ Len(sent') = Len(sent) + 1
          BY <3>0, <1>1 DEF Quadlets!TypeOK, Quadlets!Promote
        <4> QED
          BY <4>1
      <3>3. unitFiles' \in [Quadlets!Modes -> [Quadlets!Units -> 0..Len(sent')]]
        BY <3>0, <1>1, <3>31, Widen DEF Quadlets!TypeOK, Quadlets!Promote
      <3>4. running' \in [Quadlets!Modes -> [SyncServices -> 0..Len(sent')]]
        BY <3>0, <1>1, <3>31, Widen DEF Quadlets!TypeOK, Quadlets!Promote
      <3>5. /\ manifest' \in [Quadlets!Modes -> SUBSET Quadlets!Units]
            /\ desired' \in [Quadlets!Modes -> SUBSET Quadlets!Units]
        BY <3>0, <1>1, QuadletFacts DEF Quadlets!TypeOK, Quadlets!Promote
      <3>6. /\ unitPc' \in {"idle", "copy", "unlink", "stop", "build", "start"}
            /\ mode' \in Quadlets!Modes
        BY <3>0, <1>1, QuadletFacts DEF Quadlets!TypeOK, Quadlets!Promote
      <3>7. unitTodo' \subseteq (IF unitPc' \in {"copy", "unlink"} THEN Quadlets!Units
                                 ELSE SyncServices)
        BY <3>0, <1>1, QuadletFacts DEF Quadlets!TypeOK, Quadlets!Promote
      <3>8. /\ stale' \in [Quadlets!Modes -> SUBSET SyncServices]
            /\ failed' \in [Quadlets!Modes -> SUBSET SyncServices]
            /\ tried' \in [Quadlets!Modes -> SUBSET SyncServices]
        BY <3>0, <1>1, QuadletFacts DEF Quadlets!TypeOK, Quadlets!Promote
      <3>9. /\ found'.files \in [Quadlets!Modes -> SUBSET Quadlets!Units]
            /\ found'.services \in [Quadlets!Modes -> SUBSET SyncServices]
        BY <3>0, <1>1, QuadletFacts DEF Quadlets!TypeOK, Quadlets!Promote
      <3>10. syncFaults' \in 0..SyncFaults
        BY <3>0, <1>1, QuadletFacts DEF Quadlets!TypeOK, Quadlets!Promote
      <3> QED
        BY <3>0, <3>1, <3>2, <3>3, <3>4, <3>5, <3>6, <3>7, <3>8, <3>9, <3>10 DEF Quadlets!TypeOK
    <2>2. SentUnique'
      BY <1>0, <1>1, QuadletFacts DEF Quadlets!TypeOK, SentUnique, Quadlets!Promote
    <2>3. Following'
      BY <1>0, <1>1, QuadletFacts DEF Quadlets!TypeOK, Following, Quadlets!Promote
    <2>4. SyncUnits'
      BY <1>0, <1>1, QuadletFacts DEF SyncUnits, Quadlets!Promote
    <2>5. SyncRunning'
      BY <1>0, <1>1, QuadletFacts DEF SyncRunning, Quadlets!Promote
    <2>6. SyncRestarts'
      BY <1>0, <1>1, QuadletFacts DEF SyncRestarts, Quadlets!Promote
    <2> QED
      BY <2>1, <2>2, <2>3, <2>4, <2>5, <2>6 DEF QuadletInv
  <1>2. CASE Quadlets!Commit
    <2>1. Quadlets!TypeOK'
      BY <1>0, <1>2, QuadletFacts DEF Quadlets!TypeOK, Quadlets!Commit
    <2>2. SentUnique'
      BY <1>0, <1>2, QuadletFacts DEF Quadlets!TypeOK, SentUnique, Quadlets!Commit
    <2>3. Following'
      BY <1>0, <1>2 DEF Following, Quadlets!RenderedUnits, Quadlets!Commit
    <2>4. SyncUnits'
      <3> SUFFICES ASSUME syncFor' # 0, NEW m \in Quadlets!Modes PROVE UnitsAt(m)'
        BY DEF SyncUnits
      <3>1. syncFor # 0 /\ UnitsAt(m) /\ Following
        BY <1>0, <1>2 DEF SyncUnits, Quadlets!Commit
      <3> QED
        BY <1>0, <1>2, <3>1, QuadletFacts DEF Quadlets!TypeOK, UnitsAt, FilesAhead, FilesSettled,
           Quadlets!Commit
    <2>5. SyncRunning'
      <3> SUFFICES ASSUME syncFor' # 0, NEW m \in Quadlets!Modes PROVE ServicesAt(m)'
        BY DEF SyncRunning
      <3>1. syncFor # 0 /\ ServicesAt(m) /\ Following
        BY <1>0, <1>2 DEF SyncRunning, Quadlets!Commit
      <3> QED
        BY <1>0, <1>2, <3>1, QuadletFacts DEF Quadlets!TypeOK, ServicesAt, StaleLeft,
           RenderedServices, SyncServices, Quadlets!Commit
    <2>6. SyncRestarts'
      <3> SUFFICES ASSUME syncFor' # 0, NEW m \in Quadlets!Modes PROVE RestartsAt(m)'
        BY DEF SyncRestarts
      <3>1. syncFor # 0 /\ RestartsAt(m) /\ Following
        BY <1>0, <1>2 DEF SyncRestarts, Quadlets!Commit
      <3>2. Quadlets!Listed(m, TRUE)' = Quadlets!Listed(m, TRUE)
        BY <1>2 DEF Quadlets!Listed, Quadlets!RenderedUnits, Quadlets!Commit
      <3> QED
        BY <1>0, <1>2, <3>1, <3>2, QuadletFacts DEF Quadlets!TypeOK, RestartsAt, RestartsAhead,
           RenderedServices, Quadlets!Commit
    <2> QED
      BY <2>1, <2>2, <2>3, <2>4, <2>5, <2>6 DEF QuadletInv
  <1>3. CASE Quadlets!Restore
    <2>1. Quadlets!TypeOK'
      <3>0. Quadlets!TypeOK /\ SyncServices = Quadlets!Services(Quadlets!Units)
        BY <1>0 DEF SyncServices
      <3>1. /\ sent' \in Seq(Configs)
            /\ Len(sent') <= MaxApplies
            /\ active' \in 0..Len(sent')
            /\ unitBack' \in 0..Len(sent')
            /\ syncFor' \in 0..Len(sent')
        BY <3>0, <1>3, QuadletFacts DEF Quadlets!TypeOK, Quadlets!Restore
      <3>2. /\ unitStage' \in {"none", "applied", "restored"}
            /\ hooked' \in BOOLEAN
        BY <3>0, <1>3, QuadletFacts DEF Quadlets!TypeOK, Quadlets!Restore
      <3>3. unitFiles' \in [Quadlets!Modes -> [Quadlets!Units -> 0..Len(sent')]]
        BY <3>0, <1>3, QuadletFacts DEF Quadlets!TypeOK, Quadlets!Restore
      <3>4. running' \in [Quadlets!Modes -> [SyncServices -> 0..Len(sent')]]
        BY <3>0, <1>3, QuadletFacts DEF Quadlets!TypeOK, Quadlets!Restore
      <3>5. /\ manifest' \in [Quadlets!Modes -> SUBSET Quadlets!Units]
            /\ desired' \in [Quadlets!Modes -> SUBSET Quadlets!Units]
        BY <3>0, <1>3, QuadletFacts DEF Quadlets!TypeOK, Quadlets!Restore
      <3>6. /\ unitPc' \in {"idle", "copy", "unlink", "stop", "build", "start"}
            /\ mode' \in Quadlets!Modes
        BY <3>0, <1>3, QuadletFacts DEF Quadlets!TypeOK, Quadlets!Restore
      <3>7. unitTodo' \subseteq (IF unitPc' \in {"copy", "unlink"} THEN Quadlets!Units
                                 ELSE SyncServices)
        BY <3>0, <1>3, QuadletFacts DEF Quadlets!TypeOK, Quadlets!Restore
      <3>8. /\ stale' \in [Quadlets!Modes -> SUBSET SyncServices]
            /\ failed' \in [Quadlets!Modes -> SUBSET SyncServices]
            /\ tried' \in [Quadlets!Modes -> SUBSET SyncServices]
        BY <3>0, <1>3, QuadletFacts DEF Quadlets!TypeOK, Quadlets!Restore
      <3>9. /\ found'.files \in [Quadlets!Modes -> SUBSET Quadlets!Units]
            /\ found'.services \in [Quadlets!Modes -> SUBSET SyncServices]
        BY <3>0, <1>3, QuadletFacts DEF Quadlets!TypeOK, Quadlets!Restore
      <3>10. syncFaults' \in 0..SyncFaults
        BY <3>0, <1>3, FaultCounts DEF Quadlets!TypeOK, Quadlets!Restore
      <3> QED
        BY <3>0, <3>1, <3>2, <3>3, <3>4, <3>5, <3>6, <3>7, <3>8, <3>9, <3>10 DEF Quadlets!TypeOK
    <2>2. SentUnique'
      BY <1>0, <1>3, QuadletFacts DEF Quadlets!TypeOK, SentUnique, Quadlets!Restore
    <2>3. Following'
      BY <1>0, <1>3, QuadletFacts DEF Quadlets!TypeOK, Following, Quadlets!Restore
    <2>4. SyncUnits'
      BY <1>0, <1>3, QuadletFacts DEF SyncUnits, Quadlets!Restore
    <2>5. SyncRunning'
      BY <1>0, <1>3, QuadletFacts DEF SyncRunning, Quadlets!Restore
    <2>6. SyncRestarts'
      BY <1>0, <1>3, QuadletFacts DEF SyncRestarts, Quadlets!Restore
    <2> QED
      BY <2>1, <2>2, <2>3, <2>4, <2>5, <2>6 DEF QuadletInv
  <1>4. CASE Quadlets!RollbackEnds
    <2>1. Quadlets!TypeOK'
      <3>0. Quadlets!TypeOK /\ SyncServices = Quadlets!Services(Quadlets!Units)
        BY <1>0 DEF SyncServices
      <3>1. /\ sent' \in Seq(Configs)
            /\ Len(sent') <= MaxApplies
            /\ active' \in 0..Len(sent')
            /\ unitBack' \in 0..Len(sent')
            /\ syncFor' \in 0..Len(sent')
        BY <3>0, <1>4, QuadletFacts DEF Quadlets!TypeOK, Quadlets!RollbackEnds
      <3>2. /\ unitStage' \in {"none", "applied", "restored"}
            /\ hooked' \in BOOLEAN
        BY <3>0, <1>4, QuadletFacts DEF Quadlets!TypeOK, Quadlets!RollbackEnds
      <3>3. unitFiles' \in [Quadlets!Modes -> [Quadlets!Units -> 0..Len(sent')]]
        BY <3>0, <1>4, QuadletFacts DEF Quadlets!TypeOK, Quadlets!RollbackEnds
      <3>4. running' \in [Quadlets!Modes -> [SyncServices -> 0..Len(sent')]]
        BY <3>0, <1>4, QuadletFacts DEF Quadlets!TypeOK, Quadlets!RollbackEnds
      <3>5. /\ manifest' \in [Quadlets!Modes -> SUBSET Quadlets!Units]
            /\ desired' \in [Quadlets!Modes -> SUBSET Quadlets!Units]
        BY <3>0, <1>4, QuadletFacts DEF Quadlets!TypeOK, Quadlets!RollbackEnds
      <3>6. /\ unitPc' \in {"idle", "copy", "unlink", "stop", "build", "start"}
            /\ mode' \in Quadlets!Modes
        BY <3>0, <1>4, QuadletFacts DEF Quadlets!TypeOK, Quadlets!RollbackEnds
      <3>7. unitTodo' \subseteq (IF unitPc' \in {"copy", "unlink"} THEN Quadlets!Units
                                 ELSE SyncServices)
        BY <3>0, <1>4, QuadletFacts DEF Quadlets!TypeOK, Quadlets!RollbackEnds
      <3>8. /\ stale' \in [Quadlets!Modes -> SUBSET SyncServices]
            /\ failed' \in [Quadlets!Modes -> SUBSET SyncServices]
            /\ tried' \in [Quadlets!Modes -> SUBSET SyncServices]
        BY <3>0, <1>4, QuadletFacts DEF Quadlets!TypeOK, Quadlets!RollbackEnds
      <3>9. /\ found'.files \in [Quadlets!Modes -> SUBSET Quadlets!Units]
            /\ found'.services \in [Quadlets!Modes -> SUBSET SyncServices]
        BY <3>0, <1>4, QuadletFacts DEF Quadlets!TypeOK, Quadlets!RollbackEnds
      <3>10. syncFaults' \in 0..SyncFaults
        BY <3>0, <1>4, FaultCounts DEF Quadlets!TypeOK, Quadlets!RollbackEnds
      <3> QED
        BY <3>0, <3>1, <3>2, <3>3, <3>4, <3>5, <3>6, <3>7, <3>8, <3>9, <3>10 DEF Quadlets!TypeOK
    <2>2. SentUnique'
      BY <1>0, <1>4, QuadletFacts DEF Quadlets!TypeOK, SentUnique, Quadlets!RollbackEnds
    <2>3. Following'
      BY <1>0, <1>4 DEF Following, Quadlets!RenderedUnits, Quadlets!RollbackEnds
    <2>4. SyncUnits'
      <3> SUFFICES ASSUME syncFor' # 0, NEW m \in Quadlets!Modes PROVE UnitsAt(m)'
        BY DEF SyncUnits
      <3>1. syncFor # 0 /\ UnitsAt(m) /\ Following
        BY <1>0, <1>4 DEF SyncUnits, Quadlets!RollbackEnds
      <3> QED
        BY <1>0, <1>4, <3>1, QuadletFacts DEF Quadlets!TypeOK, UnitsAt, FilesAhead, FilesSettled,
           Quadlets!RollbackEnds
    <2>5. SyncRunning'
      <3> SUFFICES ASSUME syncFor' # 0, NEW m \in Quadlets!Modes PROVE ServicesAt(m)'
        BY DEF SyncRunning
      <3>1. syncFor # 0 /\ ServicesAt(m) /\ Following
        BY <1>0, <1>4 DEF SyncRunning, Quadlets!RollbackEnds
      <3> QED
        BY <1>0, <1>4, <3>1, QuadletFacts DEF Quadlets!TypeOK, ServicesAt, StaleLeft,
           RenderedServices, SyncServices, Quadlets!RollbackEnds
    <2>6. SyncRestarts'
      <3> SUFFICES ASSUME syncFor' # 0, NEW m \in Quadlets!Modes PROVE RestartsAt(m)'
        BY DEF SyncRestarts
      <3>1. syncFor # 0 /\ RestartsAt(m) /\ Following
        BY <1>0, <1>4 DEF SyncRestarts, Quadlets!RollbackEnds
      <3>2. Quadlets!Listed(m, TRUE)' = Quadlets!Listed(m, TRUE)
        BY <1>4 DEF Quadlets!Listed, Quadlets!RenderedUnits, Quadlets!RollbackEnds
      <3>3. UNCHANGED <<unitPc, mode, unitTodo, desired, tried>>
        BY <1>4 DEF Quadlets!RollbackEnds
      <3> QED
        BY <3>1, <3>2, <3>3 DEF RestartsAt, RestartsAhead, RenderedServices
    <2> QED
      BY <2>1, <2>2, <2>3, <2>4, <2>5, <2>6 DEF QuadletInv
  <1>5. CASE Quadlets!RestartSync
    <2>1. Quadlets!TypeOK'
      <3>0. Quadlets!TypeOK /\ SyncServices = Quadlets!Services(Quadlets!Units)
        BY <1>0 DEF SyncServices
      <3>1. /\ sent' \in Seq(Configs)
            /\ Len(sent') <= MaxApplies
            /\ active' \in 0..Len(sent')
            /\ unitBack' \in 0..Len(sent')
            /\ syncFor' \in 0..Len(sent')
        BY <3>0, <1>5, SyncStarts, QuadletFacts DEF SyncTyped, Quadlets!TypeOK,
           Quadlets!RestartSync
      <3>2. /\ unitStage' \in {"none", "applied", "restored"}
            /\ hooked' \in BOOLEAN
        BY <3>0, <1>5, QuadletFacts DEF Quadlets!TypeOK, Quadlets!RestartSync
      <3>3. unitFiles' \in [Quadlets!Modes -> [Quadlets!Units -> 0..Len(sent')]]
        BY <3>0, <1>5, QuadletFacts DEF Quadlets!TypeOK, Quadlets!RestartSync, Quadlets!Nowhere,
           Quadlets!NoFiles, Quadlets!NoServices
      <3>4. running' \in [Quadlets!Modes -> [SyncServices -> 0..Len(sent')]]
        BY <3>0, <1>5, QuadletFacts DEF Quadlets!TypeOK, Quadlets!RestartSync, Quadlets!Nowhere,
           Quadlets!NoFiles, Quadlets!NoServices
      <3>5. /\ manifest' \in [Quadlets!Modes -> SUBSET Quadlets!Units]
            /\ desired' \in [Quadlets!Modes -> SUBSET Quadlets!Units]
        BY <3>0, <1>5, SyncStarts DEF SyncTyped, Quadlets!Nowhere, Quadlets!TypeOK,
           Quadlets!RestartSync
      <3>6. /\ unitPc' \in {"idle", "copy", "unlink", "stop", "build", "start"}
            /\ mode' \in Quadlets!Modes
        BY <3>0, <1>5, SyncStarts DEF SyncTyped
      <3>7. unitTodo' \subseteq (IF unitPc' \in {"copy", "unlink"} THEN Quadlets!Units
                                 ELSE SyncServices)
        BY <3>0, <1>5, SyncStarts DEF SyncTyped
      <3>8. /\ stale' \in [Quadlets!Modes -> SUBSET SyncServices]
            /\ failed' \in [Quadlets!Modes -> SUBSET SyncServices]
            /\ tried' \in [Quadlets!Modes -> SUBSET SyncServices]
        BY <3>0, <1>5, SyncStarts DEF SyncTyped
      <3>9. /\ found'.files \in [Quadlets!Modes -> SUBSET Quadlets!Units]
            /\ found'.services \in [Quadlets!Modes -> SUBSET SyncServices]
        BY <3>0, <1>5, SyncStarts DEF SyncTyped
      <3>10. syncFaults' \in 0..SyncFaults
        BY <3>0, <1>5, FaultCounts DEF Quadlets!TypeOK, Quadlets!RestartSync
      <3> QED
        BY <3>0, <3>1, <3>2, <3>3, <3>4, <3>5, <3>6, <3>7, <3>8, <3>9, <3>10 DEF Quadlets!TypeOK
    <2>2. SentUnique'
      BY <1>0, <1>5, QuadletFacts DEF Quadlets!TypeOK, SentUnique, Quadlets!RestartSync,
         Quadlets!BeginSync
    <2>3. Following'
      BY <1>0, <1>5, SyncStarts
    <2>4. SyncUnits'
      BY <1>0, <1>5, SyncStarts
    <2>5. SyncRunning'
      BY <1>0, <1>5, SyncStarts
    <2>6. SyncRestarts'
      BY <1>0, <1>5, SyncStarts
    <2> QED
      BY <2>1, <2>2, <2>3, <2>4, <2>5, <2>6 DEF QuadletInv
  <1>6. CASE Quadlets!Reboot
    <2>1. Quadlets!TypeOK'
      <3>0. Quadlets!TypeOK /\ SyncServices = Quadlets!Services(Quadlets!Units)
        BY <1>0 DEF SyncServices
      <3>1. /\ sent' \in Seq(Configs)
            /\ Len(sent') <= MaxApplies
            /\ active' \in 0..Len(sent')
            /\ unitBack' \in 0..Len(sent')
            /\ syncFor' \in 0..Len(sent')
        <4>1. sent' = sent /\ active' \in 0..Len(sent) /\ syncFor' \in 0..Len(sent)
          BY <3>0, <1>6, SyncStarts DEF SyncTyped
        <4>2. sent \in Seq(Configs) /\ Len(sent) <= MaxApplies /\ 0 \in 0..Len(sent)
              /\ unitBack' = 0
          BY <3>0, <1>6 DEF Quadlets!TypeOK, Quadlets!Reboot
        <4> QED
          BY <4>1, <4>2
      <3>2. /\ unitStage' \in {"none", "applied", "restored"}
            /\ hooked' \in BOOLEAN
        BY <3>0, <1>6, QuadletFacts DEF Quadlets!TypeOK, Quadlets!Reboot
      <3>3. unitFiles' \in [Quadlets!Modes -> [Quadlets!Units -> 0..Len(sent')]]
        BY <3>0, <1>6, QuadletFacts DEF Quadlets!TypeOK, Quadlets!Reboot, Quadlets!Nowhere,
           Quadlets!NoFiles, Quadlets!NoServices
      <3>4. running' \in [Quadlets!Modes -> [SyncServices -> 0..Len(sent')]]
        BY <3>0, <1>6, QuadletFacts DEF Quadlets!TypeOK, Quadlets!Reboot, Quadlets!Nowhere,
           Quadlets!NoFiles, Quadlets!NoServices
      <3>5. /\ manifest' \in [Quadlets!Modes -> SUBSET Quadlets!Units]
            /\ desired' \in [Quadlets!Modes -> SUBSET Quadlets!Units]
        BY <3>0, <1>6, SyncStarts DEF SyncTyped, Quadlets!Nowhere, Quadlets!TypeOK,
           Quadlets!Reboot
      <3>6. /\ unitPc' \in {"idle", "copy", "unlink", "stop", "build", "start"}
            /\ mode' \in Quadlets!Modes
        BY <3>0, <1>6, SyncStarts DEF SyncTyped
      <3>7. unitTodo' \subseteq (IF unitPc' \in {"copy", "unlink"} THEN Quadlets!Units
                                 ELSE SyncServices)
        BY <3>0, <1>6, SyncStarts DEF SyncTyped
      <3>8. /\ stale' \in [Quadlets!Modes -> SUBSET SyncServices]
            /\ failed' \in [Quadlets!Modes -> SUBSET SyncServices]
            /\ tried' \in [Quadlets!Modes -> SUBSET SyncServices]
        BY <3>0, <1>6, SyncStarts DEF SyncTyped
      <3>9. /\ found'.files \in [Quadlets!Modes -> SUBSET Quadlets!Units]
            /\ found'.services \in [Quadlets!Modes -> SUBSET SyncServices]
        BY <3>0, <1>6, SyncStarts DEF SyncTyped
      <3>10. syncFaults' \in 0..SyncFaults
        BY <3>0, <1>6, FaultCounts DEF Quadlets!TypeOK, Quadlets!Reboot
      <3> QED
        BY <3>0, <3>1, <3>2, <3>3, <3>4, <3>5, <3>6, <3>7, <3>8, <3>9, <3>10 DEF Quadlets!TypeOK
    <2>2. SentUnique'
      BY <1>0, <1>6, QuadletFacts DEF Quadlets!TypeOK, SentUnique, Quadlets!Reboot,
         Quadlets!BeginSync
    <2>3. Following'
      BY <1>0, <1>6, SyncStarts
    <2>4. SyncUnits'
      BY <1>0, <1>6, SyncStarts
    <2>5. SyncRunning'
      BY <1>0, <1>6, SyncStarts
    <2>6. SyncRestarts'
      BY <1>0, <1>6, SyncStarts
    <2> QED
      BY <2>1, <2>2, <2>3, <2>4, <2>5, <2>6 DEF QuadletInv
  <1>7. ASSUME NEW u \in Quadlets!Units, Quadlets!CopyUnit(u) PROVE QuadletInv'
    <2>1. Quadlets!TypeOK'
      BY <1>0, <1>7, QuadletFacts DEF Quadlets!TypeOK, Quadlets!CopyUnit, Quadlets!To,
         Quadlets!Elsewhere
    <2>2. SentUnique'
      BY <1>0, <1>7, QuadletFacts DEF Quadlets!TypeOK, SentUnique, Quadlets!CopyUnit,
         Quadlets!To, Quadlets!Elsewhere
    <2>3. Following'
      BY <1>0, <1>7 DEF Following, Quadlets!RenderedUnits, Quadlets!CopyUnit, Quadlets!To,
         Quadlets!Elsewhere
    <2>4. SyncUnits'
      <3> SUFFICES ASSUME syncFor' # 0, NEW m \in Quadlets!Modes PROVE UnitsAt(m)'
        BY DEF SyncUnits
      <3>1. syncFor # 0 /\ UnitsAt(m) /\ Following
        BY <1>0, <1>7 DEF SyncUnits, Quadlets!CopyUnit, Quadlets!To, Quadlets!Elsewhere
      <3> QED
        BY <1>0, <1>7, <3>1, QuadletFacts DEF Quadlets!TypeOK, UnitsAt, FilesAhead, FilesSettled,
           Quadlets!CopyUnit, Quadlets!To, Quadlets!Elsewhere
    <2>5. SyncRunning'
      <3> SUFFICES ASSUME syncFor' # 0, NEW m \in Quadlets!Modes PROVE ServicesAt(m)'
        BY DEF SyncRunning
      <3>1. syncFor # 0 /\ ServicesAt(m) /\ Following
        BY <1>0, <1>7 DEF SyncRunning, Quadlets!CopyUnit, Quadlets!To, Quadlets!Elsewhere
      <3> QED
        BY <1>0, <1>7, <3>1, QuadletFacts DEF Quadlets!TypeOK, ServicesAt, StaleLeft,
           RenderedServices, SyncServices, Quadlets!CopyUnit, Quadlets!To, Quadlets!Elsewhere
    <2>6. SyncRestarts'
      <3> SUFFICES ASSUME syncFor' # 0, NEW m \in Quadlets!Modes PROVE RestartsAt(m)'
        BY DEF SyncRestarts
      <3>1. syncFor # 0 /\ RestartsAt(m) /\ Following
        BY <1>0, <1>7 DEF SyncRestarts, Quadlets!CopyUnit, Quadlets!To, Quadlets!Elsewhere
      <3>2. Quadlets!Listed(m, TRUE)' = Quadlets!Listed(m, TRUE)
        BY <1>7 DEF Quadlets!Listed, Quadlets!RenderedUnits, Quadlets!CopyUnit, Quadlets!To,
           Quadlets!Elsewhere
      <3> QED
        BY <1>0, <1>7, <3>1, <3>2, QuadletFacts DEF Quadlets!TypeOK, RestartsAt, RestartsAhead,
           RenderedServices, Quadlets!CopyUnit, Quadlets!To, Quadlets!Elsewhere
    <2> QED
      BY <2>1, <2>2, <2>3, <2>4, <2>5, <2>6 DEF QuadletInv
  <1>8. ASSUME NEW u \in Quadlets!Units, Quadlets!UnlinkStale(u) PROVE QuadletInv'
    <2>1. Quadlets!TypeOK'
      <3>0. Quadlets!TypeOK /\ SyncServices = Quadlets!Services(Quadlets!Units)
        BY <1>0 DEF SyncServices
      <3>1. /\ sent' \in Seq(Configs)
            /\ Len(sent') <= MaxApplies
            /\ active' \in 0..Len(sent')
            /\ unitBack' \in 0..Len(sent')
            /\ syncFor' \in 0..Len(sent')
        BY <3>0, <1>8, QuadletFacts DEF Quadlets!TypeOK, Quadlets!UnlinkStale, Quadlets!To,
           Quadlets!Elsewhere
      <3>2. /\ unitStage' \in {"none", "applied", "restored"}
            /\ hooked' \in BOOLEAN
        BY <3>0, <1>8, QuadletFacts DEF Quadlets!TypeOK, Quadlets!UnlinkStale, Quadlets!To,
           Quadlets!Elsewhere
      <3>3. unitFiles' \in [Quadlets!Modes -> [Quadlets!Units -> 0..Len(sent')]]
        <4>1. /\ unitFiles \in [Quadlets!Modes -> [Quadlets!Units -> 0..Len(sent)]]
              /\ mode \in Quadlets!Modes
              /\ 0 \in 0..Len(sent) /\ sent' = sent
              /\ unitFiles' = [unitFiles EXCEPT ![mode][u] = 0]
          BY <3>0, <1>8 DEF Quadlets!TypeOK, Quadlets!UnlinkStale, Quadlets!To, Quadlets!Elsewhere
        <4> QED
          BY <4>1, SetInner
      <3>4. running' \in [Quadlets!Modes -> [SyncServices -> 0..Len(sent')]]
        BY <3>0, <1>8, QuadletFacts DEF Quadlets!TypeOK, Quadlets!UnlinkStale, Quadlets!To,
           Quadlets!Elsewhere
      <3>5. /\ manifest' \in [Quadlets!Modes -> SUBSET Quadlets!Units]
            /\ desired' \in [Quadlets!Modes -> SUBSET Quadlets!Units]
        BY <3>0, <1>8, QuadletFacts DEF Quadlets!TypeOK, Quadlets!UnlinkStale, Quadlets!To,
           Quadlets!Elsewhere
      <3>6. /\ unitPc' \in {"idle", "copy", "unlink", "stop", "build", "start"}
            /\ mode' \in Quadlets!Modes
        BY <3>0, <1>8, QuadletFacts DEF Quadlets!TypeOK, Quadlets!UnlinkStale, Quadlets!To,
           Quadlets!Elsewhere
      <3>7. unitTodo' \subseteq (IF unitPc' \in {"copy", "unlink"} THEN Quadlets!Units
                                 ELSE SyncServices)
        BY <3>0, <1>8, QuadletFacts DEF Quadlets!TypeOK, Quadlets!UnlinkStale, Quadlets!To,
           Quadlets!Elsewhere
      <3>8. /\ stale' \in [Quadlets!Modes -> SUBSET SyncServices]
            /\ failed' \in [Quadlets!Modes -> SUBSET SyncServices]
            /\ tried' \in [Quadlets!Modes -> SUBSET SyncServices]
        BY <3>0, <1>8, QuadletFacts DEF Quadlets!TypeOK, Quadlets!UnlinkStale, Quadlets!To,
           Quadlets!Elsewhere
      <3>9. /\ found'.files \in [Quadlets!Modes -> SUBSET Quadlets!Units]
            /\ found'.services \in [Quadlets!Modes -> SUBSET SyncServices]
        BY <3>0, <1>8, QuadletFacts DEF Quadlets!TypeOK, Quadlets!UnlinkStale, Quadlets!To,
           Quadlets!Elsewhere
      <3>10. syncFaults' \in 0..SyncFaults
        BY <3>0, <1>8, QuadletFacts DEF Quadlets!TypeOK, Quadlets!UnlinkStale, Quadlets!To,
           Quadlets!Elsewhere
      <3> QED
        BY <3>0, <3>1, <3>2, <3>3, <3>4, <3>5, <3>6, <3>7, <3>8, <3>9, <3>10 DEF Quadlets!TypeOK
    <2>2. SentUnique'
      BY <1>0, <1>8, QuadletFacts DEF Quadlets!TypeOK, SentUnique, Quadlets!UnlinkStale,
         Quadlets!To, Quadlets!Elsewhere
    <2>3. Following'
      BY <1>0, <1>8 DEF Following, Quadlets!RenderedUnits, Quadlets!UnlinkStale, Quadlets!To,
         Quadlets!Elsewhere
    <2>4. SyncUnits'
      <3> SUFFICES ASSUME syncFor' # 0, NEW m \in Quadlets!Modes PROVE UnitsAt(m)'
        BY DEF SyncUnits
      <3>1. syncFor # 0 /\ UnitsAt(m) /\ Following
        BY <1>0, <1>8 DEF SyncUnits, Quadlets!UnlinkStale, Quadlets!To, Quadlets!Elsewhere
      <3> QED
        BY <1>0, <1>8, <3>1, QuadletFacts DEF Quadlets!TypeOK, UnitsAt, FilesAhead, FilesSettled,
           Quadlets!UnlinkStale, Quadlets!To, Quadlets!Elsewhere
    <2>5. SyncRunning'
      <3> SUFFICES ASSUME syncFor' # 0, NEW m \in Quadlets!Modes PROVE ServicesAt(m)'
        BY DEF SyncRunning
      <3>1. syncFor # 0 /\ ServicesAt(m) /\ Following
        BY <1>0, <1>8 DEF SyncRunning, Quadlets!UnlinkStale, Quadlets!To, Quadlets!Elsewhere
      <3> QED
        BY <1>0, <1>8, <3>1, QuadletFacts DEF Quadlets!TypeOK, ServicesAt, StaleLeft,
           RenderedServices, SyncServices, Quadlets!UnlinkStale, Quadlets!To, Quadlets!Elsewhere
    <2>6. SyncRestarts'
      <3> SUFFICES ASSUME syncFor' # 0, NEW m \in Quadlets!Modes PROVE RestartsAt(m)'
        BY DEF SyncRestarts
      <3>1. syncFor # 0 /\ RestartsAt(m) /\ Following
        BY <1>0, <1>8 DEF SyncRestarts, Quadlets!UnlinkStale, Quadlets!To, Quadlets!Elsewhere
      <3>2. Quadlets!Listed(m, TRUE)' = Quadlets!Listed(m, TRUE)
        BY <1>8 DEF Quadlets!Listed, Quadlets!RenderedUnits, Quadlets!UnlinkStale, Quadlets!To,
           Quadlets!Elsewhere
      <3> QED
        BY <1>0, <1>8, <3>1, <3>2, QuadletFacts DEF Quadlets!TypeOK, RestartsAt, RestartsAhead,
           RenderedServices, Quadlets!UnlinkStale, Quadlets!To, Quadlets!Elsewhere
    <2> QED
      BY <2>1, <2>2, <2>3, <2>4, <2>5, <2>6 DEF QuadletInv
  <1>9. CASE Quadlets!CopyFails
    <2>1. Quadlets!TypeOK'
      BY <1>0, <1>9, QuadletFacts DEF Quadlets!TypeOK, Quadlets!CopyFails, Quadlets!To
    <2>2. SentUnique'
      BY <1>0, <1>9, QuadletFacts DEF Quadlets!TypeOK, SentUnique, Quadlets!CopyFails, Quadlets!To
    <2>3. Following'
      BY <1>0, <1>9, QuadletFacts DEF Quadlets!TypeOK, Following, Quadlets!CopyFails, Quadlets!To
    <2>4. SyncUnits'
      BY <1>0, <1>9, QuadletFacts DEF SyncUnits, Quadlets!CopyFails, Quadlets!To
    <2>5. SyncRunning'
      BY <1>0, <1>9, QuadletFacts DEF SyncRunning, Quadlets!CopyFails, Quadlets!To
    <2>6. SyncRestarts'
      BY <1>0, <1>9, QuadletFacts DEF SyncRestarts, Quadlets!CopyFails, Quadlets!To
    <2> QED
      BY <2>1, <2>2, <2>3, <2>4, <2>5, <2>6 DEF QuadletInv
  <1>10. CASE Quadlets!CopiesDone
    <2>1. Quadlets!TypeOK'
      BY <1>0, <1>10, QuadletFacts DEF Quadlets!TypeOK, Quadlets!CopiesDone, Quadlets!To,
         Quadlets!Elsewhere
    <2>2. SentUnique'
      BY <1>0, <1>10, QuadletFacts DEF Quadlets!TypeOK, SentUnique, Quadlets!CopiesDone,
         Quadlets!To, Quadlets!Elsewhere
    <2>3. Following'
      BY <1>0, <1>10 DEF Following, Quadlets!RenderedUnits, Quadlets!CopiesDone, Quadlets!To,
         Quadlets!Elsewhere
    <2>4. SyncUnits'
      <3> SUFFICES ASSUME syncFor' # 0, NEW m \in Quadlets!Modes PROVE UnitsAt(m)'
        BY DEF SyncUnits
      <3>1. syncFor # 0 /\ UnitsAt(m) /\ Following
        BY <1>0, <1>10 DEF SyncUnits, Quadlets!CopiesDone, Quadlets!To, Quadlets!Elsewhere
      <3> QED
        BY <1>0, <1>10, <3>1, QuadletFacts DEF Quadlets!TypeOK, UnitsAt, FilesAhead,
           FilesSettled, Quadlets!CopiesDone, Quadlets!To, Quadlets!Elsewhere
    <2>5. SyncRunning'
      <3> SUFFICES ASSUME syncFor' # 0, NEW m \in Quadlets!Modes PROVE ServicesAt(m)'
        BY DEF SyncRunning
      <3>1. syncFor # 0 /\ ServicesAt(m) /\ Following
        BY <1>0, <1>10 DEF SyncRunning, Quadlets!CopiesDone, Quadlets!To, Quadlets!Elsewhere
      <3> QED
        BY <1>0, <1>10, <3>1, QuadletFacts DEF Quadlets!TypeOK, ServicesAt, StaleLeft,
           RenderedServices, SyncServices, Quadlets!CopiesDone, Quadlets!To, Quadlets!Elsewhere
    <2>6. SyncRestarts'
      <3> SUFFICES ASSUME syncFor' # 0, NEW m \in Quadlets!Modes PROVE RestartsAt(m)'
        BY DEF SyncRestarts
      <3>1. syncFor # 0 /\ RestartsAt(m) /\ Following
        BY <1>0, <1>10 DEF SyncRestarts, Quadlets!CopiesDone, Quadlets!To, Quadlets!Elsewhere
      <3>2. Quadlets!Listed(m, TRUE)' = Quadlets!Listed(m, TRUE)
        BY <1>10 DEF Quadlets!Listed, Quadlets!RenderedUnits, Quadlets!CopiesDone, Quadlets!To,
           Quadlets!Elsewhere
      <3> QED
        BY <1>0, <1>10, <3>1, <3>2, QuadletFacts DEF Quadlets!TypeOK, RestartsAt, RestartsAhead,
           RenderedServices, Quadlets!CopiesDone, Quadlets!To, Quadlets!Elsewhere
    <2> QED
      BY <2>1, <2>2, <2>3, <2>4, <2>5, <2>6 DEF QuadletInv
  <1>11. CASE Quadlets!WriteManifest
    <2>1. Quadlets!TypeOK'
      BY <1>0, <1>11, QuadletFacts DEF Quadlets!TypeOK, Quadlets!WriteManifest, Quadlets!To,
         Quadlets!Elsewhere
    <2>2. SentUnique'
      BY <1>0, <1>11, QuadletFacts DEF Quadlets!TypeOK, SentUnique, Quadlets!WriteManifest,
         Quadlets!To, Quadlets!Elsewhere
    <2>3. Following'
      BY <1>0, <1>11 DEF Following, Quadlets!RenderedUnits, Quadlets!WriteManifest, Quadlets!To,
         Quadlets!Elsewhere
    <2>4. SyncUnits'
      <3> SUFFICES ASSUME syncFor' # 0, NEW m \in Quadlets!Modes PROVE UnitsAt(m)'
        BY DEF SyncUnits
      <3>1. syncFor # 0 /\ UnitsAt(m) /\ Following
        BY <1>0, <1>11 DEF SyncUnits, Quadlets!WriteManifest, Quadlets!To, Quadlets!Elsewhere
      <3> QED
        BY <1>0, <1>11, <3>1, QuadletFacts DEF Quadlets!TypeOK, UnitsAt, FilesAhead,
           FilesSettled, Quadlets!WriteManifest, Quadlets!To, Quadlets!Elsewhere
    <2>5. SyncRunning'
      <3> SUFFICES ASSUME syncFor' # 0, NEW m \in Quadlets!Modes PROVE ServicesAt(m)'
        BY DEF SyncRunning
      <3>1. syncFor # 0 /\ ServicesAt(m) /\ Following
        BY <1>0, <1>11 DEF SyncRunning, Quadlets!WriteManifest, Quadlets!To, Quadlets!Elsewhere
      <3> QED
        BY <1>0, <1>11, <3>1, QuadletFacts DEF Quadlets!TypeOK, ServicesAt, StaleLeft,
           RenderedServices, SyncServices, Quadlets!WriteManifest, Quadlets!To, Quadlets!Elsewhere
    <2>6. SyncRestarts'
      <3> SUFFICES ASSUME syncFor' # 0, NEW m \in Quadlets!Modes PROVE RestartsAt(m)'
        BY DEF SyncRestarts
      <3>1. syncFor # 0 /\ RestartsAt(m) /\ Following
        BY <1>0, <1>11 DEF SyncRestarts, Quadlets!WriteManifest, Quadlets!To, Quadlets!Elsewhere
      <3>2. Quadlets!Listed(m, TRUE)' = Quadlets!Listed(m, TRUE)
        BY <1>11 DEF Quadlets!Listed, Quadlets!RenderedUnits, Quadlets!WriteManifest,
           Quadlets!To, Quadlets!Elsewhere
      <3> QED
        BY <1>0, <1>11, <3>1, <3>2, QuadletFacts DEF Quadlets!TypeOK, RestartsAt, RestartsAhead,
           RenderedServices, Quadlets!WriteManifest, Quadlets!To, Quadlets!Elsewhere
    <2> QED
      BY <2>1, <2>2, <2>3, <2>4, <2>5, <2>6 DEF QuadletInv
  <1>12. CASE Quadlets!StepDone
    <2>1. Quadlets!TypeOK'
      <3>0. Quadlets!TypeOK /\ SyncServices = Quadlets!Services(Quadlets!Units)
        BY <1>0 DEF SyncServices
      <3>1. /\ sent' \in Seq(Configs)
            /\ Len(sent') <= MaxApplies
            /\ active' \in 0..Len(sent')
            /\ unitBack' \in 0..Len(sent')
            /\ syncFor' \in 0..Len(sent')
        BY <3>0, <1>12, QuadletFacts DEF Quadlets!TypeOK, Quadlets!StepDone, Quadlets!To,
           Quadlets!Elsewhere
      <3>2. /\ unitStage' \in {"none", "applied", "restored"}
            /\ hooked' \in BOOLEAN
        BY <3>0, <1>12, QuadletFacts DEF Quadlets!TypeOK, Quadlets!StepDone, Quadlets!To,
           Quadlets!Elsewhere
      <3>3. unitFiles' \in [Quadlets!Modes -> [Quadlets!Units -> 0..Len(sent')]]
        BY <3>0, <1>12, QuadletFacts DEF Quadlets!TypeOK, Quadlets!StepDone, Quadlets!To,
           Quadlets!Elsewhere
      <3>4. running' \in [Quadlets!Modes -> [SyncServices -> 0..Len(sent')]]
        BY <3>0, <1>12, QuadletFacts DEF Quadlets!TypeOK, Quadlets!StepDone, Quadlets!To,
           Quadlets!Elsewhere
      <3>5. /\ manifest' \in [Quadlets!Modes -> SUBSET Quadlets!Units]
            /\ desired' \in [Quadlets!Modes -> SUBSET Quadlets!Units]
        BY <3>0, <1>12, QuadletFacts DEF Quadlets!TypeOK, Quadlets!StepDone, Quadlets!To,
           Quadlets!Elsewhere
      <3>6. /\ unitPc' \in {"idle", "copy", "unlink", "stop", "build", "start"}
            /\ mode' \in Quadlets!Modes
        BY <3>0, <1>12, QuadletFacts DEF Quadlets!TypeOK, Quadlets!StepDone, Quadlets!To,
           Quadlets!Elsewhere
      <3>7. unitTodo' \subseteq (IF unitPc' \in {"copy", "unlink"} THEN Quadlets!Units
                                 ELSE SyncServices)
        <4>1. \A m \in Quadlets!Modes : /\ Quadlets!Listed(m, TRUE) \subseteq SyncServices
                                      /\ Quadlets!Listed(m, FALSE) \subseteq SyncServices
                                      /\ stale[m] \subseteq SyncServices
          BY <3>0, ListedServices DEF Quadlets!TypeOK
        <4>2. /\ unitPc' \in {"idle", "stop", "build", "start"}
              /\ \/ unitTodo' = {}
                 \/ \E m \in Quadlets!Modes :
                      unitTodo' \in {stale[m], Quadlets!Listed(m, TRUE), Quadlets!Listed(m,
                      FALSE)}
          BY <3>0, <1>12, QuadletFacts DEF Quadlets!TypeOK, Quadlets!StepDone, Quadlets!To
        <4> QED
          BY <4>1, <4>2
      <3>8. /\ stale' \in [Quadlets!Modes -> SUBSET SyncServices]
            /\ failed' \in [Quadlets!Modes -> SUBSET SyncServices]
            /\ tried' \in [Quadlets!Modes -> SUBSET SyncServices]
        BY <3>0, <1>12, QuadletFacts DEF Quadlets!TypeOK, Quadlets!StepDone, Quadlets!To,
           Quadlets!Elsewhere
      <3>9. /\ found'.files \in [Quadlets!Modes -> SUBSET Quadlets!Units]
            /\ found'.services \in [Quadlets!Modes -> SUBSET SyncServices]
        BY <3>0, <1>12, QuadletFacts DEF Quadlets!TypeOK, Quadlets!StepDone, Quadlets!To,
           Quadlets!Elsewhere
      <3>10. syncFaults' \in 0..SyncFaults
        BY <3>0, <1>12, QuadletFacts DEF Quadlets!TypeOK, Quadlets!StepDone, Quadlets!To,
           Quadlets!Elsewhere
      <3> QED
        BY <3>0, <3>1, <3>2, <3>3, <3>4, <3>5, <3>6, <3>7, <3>8, <3>9, <3>10 DEF Quadlets!TypeOK
    <2>2. SentUnique'
      BY <1>0, <1>12, QuadletFacts DEF Quadlets!TypeOK, SentUnique, Quadlets!StepDone,
         Quadlets!To, Quadlets!Elsewhere
    <2>3. Following'
      BY <1>0, <1>12 DEF Following, Quadlets!RenderedUnits, Quadlets!StepDone, Quadlets!To,
         Quadlets!Elsewhere
    <2>4. SyncUnits'
      <3> SUFFICES ASSUME syncFor' # 0, NEW m \in Quadlets!Modes PROVE UnitsAt(m)'
        BY DEF SyncUnits
      <3>1. syncFor # 0 /\ UnitsAt(m) /\ Following
        BY <1>0, <1>12 DEF SyncUnits, Quadlets!StepDone, Quadlets!To, Quadlets!Elsewhere
      <3> QED
        BY <1>0, <1>12, <3>1, QuadletFacts DEF Quadlets!TypeOK, UnitsAt, FilesAhead,
           FilesSettled, Quadlets!StepDone, Quadlets!To, Quadlets!Elsewhere
    <2>5. SyncRunning'
      <3> SUFFICES ASSUME syncFor' # 0, NEW m \in Quadlets!Modes PROVE ServicesAt(m)'
        BY DEF SyncRunning
      <3>1. syncFor # 0 /\ ServicesAt(m) /\ Following
        BY <1>0, <1>12 DEF SyncRunning, Quadlets!StepDone, Quadlets!To, Quadlets!Elsewhere
      <3>3. /\ Quadlets!Listed(m, TRUE) \subseteq RenderedServices(m)
            /\ Quadlets!Listed(m, FALSE) \cup Quadlets!Listed(m, TRUE) = RenderedServices(m)
        BY <1>0, <3>1, ListedServices DEF Following, RenderedServices
      <3> QED
        BY <1>0, <1>12, <3>1, <3>3, QuadletFacts DEF Quadlets!TypeOK, ServicesAt, StaleLeft,
           RenderedServices, SyncServices, Quadlets!StepDone, Quadlets!To, Quadlets!Elsewhere
    <2>6. SyncRestarts'
      <3> SUFFICES ASSUME syncFor' # 0, NEW m \in Quadlets!Modes PROVE RestartsAt(m)'
        BY DEF SyncRestarts
      <3>1. syncFor # 0 /\ RestartsAt(m) /\ Following
        BY <1>0, <1>12 DEF SyncRestarts, Quadlets!StepDone, Quadlets!To, Quadlets!Elsewhere
      <3>2. Quadlets!Listed(m, TRUE)' = Quadlets!Listed(m, TRUE)
        BY <1>12 DEF Quadlets!Listed, Quadlets!RenderedUnits, Quadlets!StepDone, Quadlets!To,
           Quadlets!Elsewhere
      <3>3. /\ Quadlets!Listed(m, TRUE) \subseteq RenderedServices(m)
            /\ Quadlets!Listed(m, FALSE) \cup Quadlets!Listed(m, TRUE) = RenderedServices(m)
        BY <1>0, <3>1, ListedServices DEF Following, RenderedServices
      <3>4. CASE unitPc = "stop"
        BY <1>0, <1>12, <3>1, <3>2, <3>4, QuadletFacts DEF RestartsAt, RestartsAhead,
           RenderedServices,
           Quadlets!TypeOK, Quadlets!StepDone, Quadlets!To, Quadlets!Elsewhere
      <3>5. CASE unitPc = "build"
        <4>1. /\ unitTodo = {} /\ unitPc' = "start" /\ mode' = mode /\ tried' = tried
              /\ desired' = desired
              /\ unitTodo' = Quadlets!Listed(mode, FALSE)
          BY <1>12, <3>5 DEF Quadlets!StepDone, Quadlets!To, Quadlets!Elsewhere
        <4>2. CASE m = mode
          <5>1. tried[m] = Quadlets!Listed(m, TRUE)
            BY <3>1, <3>5, <4>1, <4>2 DEF RestartsAt
          <5> QED
            BY <3>2, <3>3, <4>1, <4>2, <5>1 DEF RestartsAt, RestartsAhead, RenderedServices
        <4>3. CASE m # mode
          BY <3>1, <3>2, <3>5, <4>1, <4>3 DEF RestartsAt, RestartsAhead, RenderedServices
        <4> QED
          BY <4>2, <4>3
      <3>6. CASE unitPc = "start"
        <4>1. unitTodo = {} /\ tried' = tried /\ desired' = desired
          BY <1>12, <3>6 DEF Quadlets!StepDone, Quadlets!To, Quadlets!Elsewhere
        <4>2. CASE mode = "rootful"
          <5>1. /\ unitPc' = "build" /\ mode' = "rootless"
                /\ unitTodo' = Quadlets!Listed("rootless", TRUE)
            BY <1>12, <3>6, <4>2 DEF Quadlets!StepDone, Quadlets!To
          <5>2. CASE m = "rootless"
            BY <3>1, <3>2, <3>6, <4>1, <4>2, <5>1, <5>2 DEF RestartsAt, RestartsAhead
          <5>3. CASE m = "rootful"
            BY <3>1, <3>6, <4>1, <4>2, <5>1, <5>3 DEF RestartsAt, RestartsAhead, RenderedServices
          <5> QED
            BY <5>2, <5>3, QuadletFacts
        <4>3. CASE mode = "rootless"
          <5>1. unitPc' = "idle"
            BY <1>12, <3>6, <4>3 DEF Quadlets!StepDone, Quadlets!To
          <5> QED
            BY <3>1, <3>6, <4>1, <4>3, <5>1 DEF RestartsAt, RestartsAhead, RenderedServices
        <4> QED
          BY <1>0, <4>2, <4>3, QuadletFacts DEF Quadlets!TypeOK
      <3> QED
        BY <1>12, <3>4, <3>5, <3>6 DEF Quadlets!StepDone
    <2> QED
      BY <2>1, <2>2, <2>3, <2>4, <2>5, <2>6 DEF QuadletInv
  <1>13. ASSUME NEW s \in SyncServices, Quadlets!StopStale(s) PROVE QuadletInv'
    <2>1. Quadlets!TypeOK'
      <3>0. Quadlets!TypeOK /\ SyncServices = Quadlets!Services(Quadlets!Units)
        BY <1>0 DEF SyncServices
      <3>1. /\ sent' \in Seq(Configs)
            /\ Len(sent') <= MaxApplies
            /\ active' \in 0..Len(sent')
            /\ unitBack' \in 0..Len(sent')
            /\ syncFor' \in 0..Len(sent')
        BY <3>0, <1>13, QuadletFacts DEF Quadlets!TypeOK, Quadlets!StopStale, Quadlets!To,
           Quadlets!Elsewhere
      <3>2. /\ unitStage' \in {"none", "applied", "restored"}
            /\ hooked' \in BOOLEAN
        BY <3>0, <1>13, QuadletFacts DEF Quadlets!TypeOK, Quadlets!StopStale, Quadlets!To,
           Quadlets!Elsewhere
      <3>3. unitFiles' \in [Quadlets!Modes -> [Quadlets!Units -> 0..Len(sent')]]
        BY <3>0, <1>13, QuadletFacts DEF Quadlets!TypeOK, Quadlets!StopStale, Quadlets!To,
           Quadlets!Elsewhere
      <3>4. running' \in [Quadlets!Modes -> [SyncServices -> 0..Len(sent')]]
        <4>1. /\ running \in [Quadlets!Modes -> [SyncServices -> 0..Len(sent)]]
              /\ mode \in Quadlets!Modes
              /\ 0 \in 0..Len(sent) /\ sent' = sent
          BY <3>0, <1>13 DEF Quadlets!TypeOK, Quadlets!StopStale, Quadlets!To, Quadlets!Elsewhere
        <4>2. \/ running' = running
              \/ \E v \in 0..Len(sent) : running' = [running EXCEPT ![mode][s] = v]
          BY <4>1, <1>13 DEF Quadlets!StopStale
        <4> DEFINE S == 0..Len(sent)
        <4>3. S = 0..Len(sent')
          BY <4>1
        <4>4. /\ running \in [Quadlets!Modes -> [SyncServices -> S]]
              /\ running' = running \/ \E v \in S : running' = [running EXCEPT ![mode][s] = v]
          BY <4>1, <4>2
        <4> HIDE DEF S
        <4>5. CASE running' = running
          BY <4>3, <4>4, <4>5
        <4>6. ASSUME NEW v \in S, running' = [running EXCEPT ![mode][s] = v]
              PROVE  running' \in [Quadlets!Modes -> [SyncServices -> S]]
          BY <4>1, <4>4, <4>6
        <4> QED
          BY <4>3, <4>4, <4>5, <4>6
      <3>5. /\ manifest' \in [Quadlets!Modes -> SUBSET Quadlets!Units]
            /\ desired' \in [Quadlets!Modes -> SUBSET Quadlets!Units]
        BY <3>0, <1>13, QuadletFacts DEF Quadlets!TypeOK, Quadlets!StopStale, Quadlets!To,
           Quadlets!Elsewhere
      <3>6. /\ unitPc' \in {"idle", "copy", "unlink", "stop", "build", "start"}
            /\ mode' \in Quadlets!Modes
        BY <3>0, <1>13, QuadletFacts DEF Quadlets!TypeOK, Quadlets!StopStale, Quadlets!To,
           Quadlets!Elsewhere
      <3>7. unitTodo' \subseteq (IF unitPc' \in {"copy", "unlink"} THEN Quadlets!Units
                                 ELSE SyncServices)
        BY <3>0, <1>13, QuadletFacts DEF Quadlets!TypeOK, Quadlets!StopStale, Quadlets!To,
           Quadlets!Elsewhere
      <3>8. /\ stale' \in [Quadlets!Modes -> SUBSET SyncServices]
            /\ failed' \in [Quadlets!Modes -> SUBSET SyncServices]
            /\ tried' \in [Quadlets!Modes -> SUBSET SyncServices]
        <4>1. /\ failed \in [Quadlets!Modes -> SUBSET SyncServices] /\ mode \in Quadlets!Modes
              /\ tried \in [Quadlets!Modes -> SUBSET SyncServices]
              /\ stale' \in [Quadlets!Modes -> SUBSET SyncServices]
          BY <3>0, <1>13 DEF Quadlets!TypeOK, Quadlets!StopStale, Quadlets!To, Quadlets!Elsewhere
        <4>2. failed' = failed \/ failed' = [failed EXCEPT ![mode] = failed[mode] \cup {s}]
          BY <1>13 DEF Quadlets!StopStale
        <4>3. tried' = tried \/ tried' = [tried EXCEPT ![mode] = tried[mode] \cup {s}]
          BY <1>13 DEF Quadlets!StopStale
        <4>4. failed' \in [Quadlets!Modes -> SUBSET SyncServices]
          BY <4>1, <4>2
        <4>5. tried' \in [Quadlets!Modes -> SUBSET SyncServices]
          BY <4>1, <4>3
        <4> QED
          BY <4>1, <4>4, <4>5
      <3>9. /\ found'.files \in [Quadlets!Modes -> SUBSET Quadlets!Units]
            /\ found'.services \in [Quadlets!Modes -> SUBSET SyncServices]
        BY <3>0, <1>13, QuadletFacts DEF Quadlets!TypeOK, Quadlets!StopStale, Quadlets!To,
           Quadlets!Elsewhere
      <3>10. syncFaults' \in 0..SyncFaults
        BY <3>0, <1>13, FaultCounts DEF Quadlets!TypeOK, Quadlets!StopStale, Quadlets!To,
           Quadlets!Elsewhere
      <3> QED
        BY <3>0, <3>1, <3>2, <3>3, <3>4, <3>5, <3>6, <3>7, <3>8, <3>9, <3>10 DEF Quadlets!TypeOK
    <2>2. SentUnique'
      BY <1>0, <1>13, QuadletFacts DEF Quadlets!TypeOK, SentUnique, Quadlets!StopStale,
         Quadlets!To, Quadlets!Elsewhere
    <2>3. Following'
      BY <1>0, <1>13 DEF Following, Quadlets!RenderedUnits, Quadlets!StopStale, Quadlets!To,
         Quadlets!Elsewhere
    <2>4. SyncUnits'
      <3> SUFFICES ASSUME syncFor' # 0, NEW m \in Quadlets!Modes PROVE UnitsAt(m)'
        BY DEF SyncUnits
      <3>1. syncFor # 0 /\ UnitsAt(m) /\ Following
        BY <1>0, <1>13 DEF SyncUnits, Quadlets!StopStale, Quadlets!To, Quadlets!Elsewhere
      <3> QED
        BY <1>0, <1>13, <3>1, QuadletFacts DEF Quadlets!TypeOK, UnitsAt, FilesAhead,
           FilesSettled, Quadlets!StopStale, Quadlets!To, Quadlets!Elsewhere
    <2>5. SyncRunning'
      <3> SUFFICES ASSUME syncFor' # 0, NEW m \in Quadlets!Modes PROVE ServicesAt(m)'
        BY DEF SyncRunning
      <3>1. syncFor # 0 /\ ServicesAt(m) /\ Following
        BY <1>0, <1>13 DEF SyncRunning, Quadlets!StopStale, Quadlets!To, Quadlets!Elsewhere
      <3>5. CASE m # mode
        BY <1>0, <1>13, <3>1, <3>5, QuadletFacts DEF Quadlets!TypeOK, ServicesAt, StaleLeft,
           RenderedServices, SyncServices, Quadlets!StopStale, Quadlets!To, Quadlets!Elsewhere
      <3>6. CASE m = mode
        <4>1. /\ \A x \in SyncServices \ {s} : running'[m][x] = running[m][x]
              /\ running'[m][s] = 0 \/ s \in failed'[m]
              /\ failed[m] \subseteq failed'[m]
          BY <1>0, <1>13, <3>6 DEF Quadlets!TypeOK, SyncServices, Quadlets!StopStale
        <4>2. /\ stale' = stale /\ found' = found /\ active' = active /\ desired' = desired
              /\ tried' = tried /\ mode' = mode /\ unitPc' = "stop" /\ unitPc = "stop"
              /\ unitTodo' = unitTodo \ {s} /\ s \in unitTodo
          BY <1>13 DEF Quadlets!StopStale, Quadlets!To, Quadlets!Elsewhere
        <4>3. StaleLeft(m)' = StaleLeft(m) \ {s} /\ s \in stale[m]
          BY <3>1, <3>6, <4>2, QuadletFacts DEF StaleLeft, ServicesAt
        <4>4. tried[m] = {}
          BY <1>0, <3>1, <4>2 DEF SyncRestarts, RestartsAt, RestartsAhead
        <4> QED
          BY <3>1, <3>6, <4>1, <4>2, <4>3, <4>4 DEF ServicesAt, RenderedServices
      <3> QED
        BY <3>5, <3>6
    <2>6. SyncRestarts'
      <3> SUFFICES ASSUME syncFor' # 0, NEW m \in Quadlets!Modes PROVE RestartsAt(m)'
        BY DEF SyncRestarts
      <3>1. syncFor # 0 /\ RestartsAt(m) /\ Following
        BY <1>0, <1>13 DEF SyncRestarts, Quadlets!StopStale, Quadlets!To, Quadlets!Elsewhere
      <3>2. Quadlets!Listed(m, TRUE)' = Quadlets!Listed(m, TRUE)
        BY <1>13 DEF Quadlets!Listed, Quadlets!RenderedUnits, Quadlets!StopStale, Quadlets!To,
           Quadlets!Elsewhere
      <3> QED
        BY <1>0, <1>13, <3>1, <3>2, QuadletFacts DEF Quadlets!TypeOK, RestartsAt, RestartsAhead,
           RenderedServices, Quadlets!StopStale, Quadlets!To, Quadlets!Elsewhere
    <2> QED
      BY <2>1, <2>2, <2>3, <2>4, <2>5, <2>6 DEF QuadletInv
  <1>14. ASSUME NEW s \in SyncServices, Quadlets!RestartService(s) PROVE QuadletInv'
    <2>1. Quadlets!TypeOK'
      <3>0. Quadlets!TypeOK /\ SyncServices = Quadlets!Services(Quadlets!Units)
        BY <1>0 DEF SyncServices
      <3>1. /\ sent' \in Seq(Configs)
            /\ Len(sent') <= MaxApplies
            /\ active' \in 0..Len(sent')
            /\ unitBack' \in 0..Len(sent')
            /\ syncFor' \in 0..Len(sent')
        BY <3>0, <1>14, QuadletFacts DEF Quadlets!TypeOK, Quadlets!RestartService, Quadlets!To,
           Quadlets!Elsewhere
      <3>2. /\ unitStage' \in {"none", "applied", "restored"}
            /\ hooked' \in BOOLEAN
        BY <3>0, <1>14, QuadletFacts DEF Quadlets!TypeOK, Quadlets!RestartService, Quadlets!To,
           Quadlets!Elsewhere
      <3>3. unitFiles' \in [Quadlets!Modes -> [Quadlets!Units -> 0..Len(sent')]]
        BY <3>0, <1>14, QuadletFacts DEF Quadlets!TypeOK, Quadlets!RestartService, Quadlets!To,
           Quadlets!Elsewhere
      <3>4. running' \in [Quadlets!Modes -> [SyncServices -> 0..Len(sent')]]
        <4>1. /\ running \in [Quadlets!Modes -> [SyncServices -> 0..Len(sent)]]
              /\ mode \in Quadlets!Modes
              /\ 0 \in 0..Len(sent) /\ sent' = sent
          BY <3>0, <1>14 DEF Quadlets!TypeOK, Quadlets!RestartService, Quadlets!To,
             Quadlets!Elsewhere
        <4>2. \/ running' = running
              \/ \E v \in 0..Len(sent) : running' = [running EXCEPT ![mode][s] = v]
          <5>1. \A v \in Quadlets!Units : unitFiles[mode][v] \in 0..Len(sent)
            BY <3>0, <4>1 DEF Quadlets!TypeOK
          <5> QED
            BY <5>1, <4>1, <1>14 DEF Quadlets!RestartService, Quadlets!Installed
        <4> DEFINE S == 0..Len(sent)
        <4>3. S = 0..Len(sent')
          BY <4>1
        <4>4. /\ running \in [Quadlets!Modes -> [SyncServices -> S]]
              /\ running' = running \/ \E v \in S : running' = [running EXCEPT ![mode][s] = v]
          BY <4>1, <4>2
        <4> HIDE DEF S
        <4>5. CASE running' = running
          BY <4>3, <4>4, <4>5
        <4>6. ASSUME NEW v \in S, running' = [running EXCEPT ![mode][s] = v]
              PROVE  running' \in [Quadlets!Modes -> [SyncServices -> S]]
          BY <4>1, <4>4, <4>6
        <4> QED
          BY <4>3, <4>4, <4>5, <4>6
      <3>5. /\ manifest' \in [Quadlets!Modes -> SUBSET Quadlets!Units]
            /\ desired' \in [Quadlets!Modes -> SUBSET Quadlets!Units]
        BY <3>0, <1>14, QuadletFacts DEF Quadlets!TypeOK, Quadlets!RestartService, Quadlets!To,
           Quadlets!Elsewhere
      <3>6. /\ unitPc' \in {"idle", "copy", "unlink", "stop", "build", "start"}
            /\ mode' \in Quadlets!Modes
        BY <3>0, <1>14, QuadletFacts DEF Quadlets!TypeOK, Quadlets!RestartService, Quadlets!To,
           Quadlets!Elsewhere
      <3>7. unitTodo' \subseteq (IF unitPc' \in {"copy", "unlink"} THEN Quadlets!Units
                                 ELSE SyncServices)
        BY <3>0, <1>14, QuadletFacts DEF Quadlets!TypeOK, Quadlets!RestartService, Quadlets!To,
           Quadlets!Elsewhere
      <3>8. /\ stale' \in [Quadlets!Modes -> SUBSET SyncServices]
            /\ failed' \in [Quadlets!Modes -> SUBSET SyncServices]
            /\ tried' \in [Quadlets!Modes -> SUBSET SyncServices]
        <4>1. /\ failed \in [Quadlets!Modes -> SUBSET SyncServices] /\ mode \in Quadlets!Modes
              /\ tried \in [Quadlets!Modes -> SUBSET SyncServices]
              /\ stale' \in [Quadlets!Modes -> SUBSET SyncServices]
          BY <3>0, <1>14 DEF Quadlets!TypeOK, Quadlets!RestartService, Quadlets!To,
             Quadlets!Elsewhere
        <4>2. failed' = failed \/ failed' = [failed EXCEPT ![mode] = failed[mode] \cup {s}]
          BY <1>14 DEF Quadlets!RestartService
        <4>3. tried' = tried \/ tried' = [tried EXCEPT ![mode] = tried[mode] \cup {s}]
          BY <1>14 DEF Quadlets!RestartService
        <4>4. failed' \in [Quadlets!Modes -> SUBSET SyncServices]
          BY <4>1, <4>2
        <4>5. tried' \in [Quadlets!Modes -> SUBSET SyncServices]
          BY <4>1, <4>3
        <4> QED
          BY <4>1, <4>4, <4>5
      <3>9. /\ found'.files \in [Quadlets!Modes -> SUBSET Quadlets!Units]
            /\ found'.services \in [Quadlets!Modes -> SUBSET SyncServices]
        BY <3>0, <1>14, QuadletFacts DEF Quadlets!TypeOK, Quadlets!RestartService, Quadlets!To,
           Quadlets!Elsewhere
      <3>10. syncFaults' \in 0..SyncFaults
        BY <3>0, <1>14, FaultCounts DEF Quadlets!TypeOK, Quadlets!RestartService, Quadlets!To,
           Quadlets!Elsewhere
      <3> QED
        BY <3>0, <3>1, <3>2, <3>3, <3>4, <3>5, <3>6, <3>7, <3>8, <3>9, <3>10 DEF Quadlets!TypeOK
    <2>2. SentUnique'
      BY <1>0, <1>14, QuadletFacts DEF Quadlets!TypeOK, SentUnique, Quadlets!RestartService,
         Quadlets!To, Quadlets!Elsewhere
    <2>3. Following'
      BY <1>0, <1>14 DEF Following, Quadlets!RenderedUnits, Quadlets!RestartService, Quadlets!To,
         Quadlets!Elsewhere
    <2>4. SyncUnits'
      <3> SUFFICES ASSUME syncFor' # 0, NEW m \in Quadlets!Modes PROVE UnitsAt(m)'
        BY DEF SyncUnits
      <3>1. syncFor # 0 /\ UnitsAt(m) /\ Following
        BY <1>0, <1>14 DEF SyncUnits, Quadlets!RestartService, Quadlets!To, Quadlets!Elsewhere
      <3> QED
        BY <1>0, <1>14, <3>1, QuadletFacts DEF Quadlets!TypeOK, UnitsAt, FilesAhead,
           FilesSettled, Quadlets!RestartService, Quadlets!To, Quadlets!Elsewhere
    <2>5. SyncRunning'
      <3> SUFFICES ASSUME syncFor' # 0, NEW m \in Quadlets!Modes PROVE ServicesAt(m)'
        BY DEF SyncRunning
      <3>1. syncFor # 0 /\ ServicesAt(m) /\ Following
        BY <1>0, <1>14 DEF SyncRunning, Quadlets!RestartService, Quadlets!To, Quadlets!Elsewhere
      <3>3. /\ Quadlets!Listed(m, TRUE) \subseteq RenderedServices(m)
            /\ Quadlets!Listed(m, FALSE) \cup Quadlets!Listed(m, TRUE) = RenderedServices(m)
        BY <1>0, <3>1, ListedServices DEF Following, RenderedServices
      <3>4. RestartsAt(m) /\ UnitsAt(m) /\ SyncRestarts
        BY <1>0, <3>1 DEF SyncRestarts, SyncUnits
      <3>5. CASE m # mode
        BY <1>0, <1>14, <3>1, <3>5, QuadletFacts DEF Quadlets!TypeOK, ServicesAt, StaleLeft,
           RenderedServices, SyncServices, Quadlets!RestartService, Quadlets!To,
           Quadlets!Elsewhere
      <3>6. CASE m = mode
        <4>1. s \in RenderedServices(m) /\ s \notin stale[m]
          BY <1>14, <3>1, <3>3, <3>4, <3>6 DEF RestartsAt, ServicesAt, Quadlets!RestartService
        <4>2. \/ running'[m][s] = active
              \/ s \in failed'[m] \cup Quadlets!Services(found.files[m])
          <5>1. CASE \E u \in Quadlets!Installed(s) :
                       running' = [running EXCEPT ![mode][s] = unitFiles[mode][u]]
            <6>1. PICK u \in Quadlets!Units :
                    /\ Service[u] = s /\ unitFiles[m][u] # 0
                    /\ running' = [running EXCEPT ![m][s] = unitFiles[m][u]]
              BY <5>1, <3>6 DEF Quadlets!Installed
            <6>2. running'[m][s] = unitFiles[m][u]
              BY <1>0, <6>1 DEF Quadlets!TypeOK, SyncServices
            <6>3. FilesSettled(m)
              BY <1>14 DEF FilesSettled, FilesAhead, Quadlets!RestartService
            <6>4. u \in found.files[m] \/ unitFiles[m][u] = active
              BY <3>4, <6>1, <6>3 DEF UnitsAt
            <6> QED
              BY <6>1, <6>2, <6>4, ServicesIn
          <5>2. CASE failed' = [failed EXCEPT ![mode] = failed[mode] \cup {s}]
            BY <1>0, <3>6, <5>2 DEF Quadlets!TypeOK
          <5> QED
            BY <1>14, <5>1, <5>2 DEF Quadlets!RestartService
        <4>3. /\ \A x \in SyncServices \ {s} : running'[m][x] = running[m][x]
              /\ failed[m] \subseteq failed'[m]
              /\ tried'[m] = tried[m] \cup {s}
          BY <1>0, <1>14, <3>6 DEF Quadlets!TypeOK, SyncServices, Quadlets!RestartService
        <4>4. /\ stale' = stale /\ found' = found /\ active' = active /\ desired' = desired
              /\ unitPc' \in {"build", "start"} /\ unitPc \in {"build", "start"}
          BY <1>14 DEF Quadlets!RestartService, Quadlets!To, Quadlets!Elsewhere
        <4>5. StaleLeft(m)' = {} /\ StaleLeft(m) = {}
          BY <4>4 DEF StaleLeft
        <4>6. tried[m] \subseteq SyncServices
          BY <1>0 DEF Quadlets!TypeOK, SyncServices
        <4> QED
          BY <3>1, <4>1, <4>2, <4>3, <4>4, <4>5, <4>6 DEF ServicesAt, RenderedServices
      <3> QED
        BY <3>5, <3>6
    <2>6. SyncRestarts'
      <3> SUFFICES ASSUME syncFor' # 0, NEW m \in Quadlets!Modes PROVE RestartsAt(m)'
        BY DEF SyncRestarts
      <3>1. syncFor # 0 /\ RestartsAt(m) /\ Following
        BY <1>0, <1>14 DEF SyncRestarts, Quadlets!RestartService, Quadlets!To, Quadlets!Elsewhere
      <3>2. Quadlets!Listed(m, TRUE)' = Quadlets!Listed(m, TRUE)
        BY <1>14 DEF Quadlets!Listed, Quadlets!RenderedUnits, Quadlets!RestartService,
           Quadlets!To, Quadlets!Elsewhere
      <3>3. /\ Quadlets!Listed(m, TRUE) \subseteq RenderedServices(m)
            /\ Quadlets!Listed(m, FALSE) \cup Quadlets!Listed(m, TRUE) = RenderedServices(m)
        BY <1>0, <3>1, ListedServices DEF Following, RenderedServices
      <3>4. /\ tried'[m] \cup (IF mode = m THEN unitTodo' ELSE {})
                = tried[m] \cup (IF mode = m THEN unitTodo ELSE {})
            /\ tried[m] \subseteq tried'[m] /\ (mode # m => tried'[m] = tried[m])
        BY <1>0, <1>14 DEF Quadlets!TypeOK, Quadlets!RestartService, Quadlets!To
      <3>5. unitPc' = unitPc /\ mode' = mode /\ desired' = desired /\ unitPc \in {"build",
      "start"}
        BY <1>14 DEF Quadlets!RestartService, Quadlets!To, Quadlets!Elsewhere
      <3> QED
        BY <3>1, <3>2, <3>4, <3>5 DEF RestartsAt, RestartsAhead, RenderedServices
    <2> QED
      BY <2>1, <2>2, <2>3, <2>4, <2>5, <2>6 DEF QuadletInv
  <1>15. CASE UNCHANGED Quadlets!vars
    <2>0. /\ UNCHANGED <<sent, active, unitBack, unitStage, hooked, unitFiles, manifest, running>>
          /\ UNCHANGED <<unitPc, mode, unitTodo, desired, stale, syncFor, found, tried, failed,
                         syncFaults>>
      BY <1>15 DEF Quadlets!vars
    <2>1. Quadlets!TypeOK'
      BY <1>0, <2>0 DEF Quadlets!TypeOK
    <2>2. SentUnique' /\ Following'
      BY <1>0, <2>0 DEF SentUnique, Following, Quadlets!RenderedUnits
    <2>3. SyncUnits'
      BY <1>0, <2>0 DEF SyncUnits, UnitsAt, FilesAhead, FilesSettled
    <2>4. SyncRunning'
      BY <1>0, <2>0 DEF SyncRunning, ServicesAt, StaleLeft, RenderedServices
    <2>5. SyncRestarts'
      BY <1>0, <2>0 DEF SyncRestarts, RestartsAt, RestartsAhead, RenderedServices,
                        Quadlets!Listed, Quadlets!RenderedUnits
    <2> QED
      BY <2>1, <2>2, <2>3, <2>4, <2>5 DEF QuadletInv
  <1> QED
    BY <1>0, <1>1, <1>2, <1>3, <1>4, <1>5, <1>6, <1>7, <1>8, <1>9, <1>10, <1>11, <1>12, <1>13,
       <1>14, <1>15
       DEF Quadlets!Next, SyncServices

\* What a container needs is rendered in the mode it runs in, its build among the builds.
LEMMA InputsRendered ==
    ASSUME QuadletInv, active # 0, NEW u \in sent[active].containers,
           NEW m, m = Quadlets!ModeOf(sent[active], u)
    PROVE  /\ m \in Quadlets!Modes
           /\ u \in Quadlets!RenderedUnits(active)[m]
           /\ sent[active].image[u] \in sent[active].builds =>
                /\ sent[active].image[u] \in Quadlets!RenderedUnits(active)[m]
                /\ sent[active].image[u] \in Builds
           /\ \A v \in sent[active].mounts[u] \cap sent[active].volumes :
                v \in Quadlets!RenderedUnits(active)[m]
           /\ u \notin Builds
           /\ \A v, w \in Quadlets!RenderedUnits(active)[m] : Service[v] = Service[w] => v = w
  <1> DEFINE c == sent[active]
  <1>1. active \in DOMAIN sent /\ c \in Quadlets!ConfigType
    BY QuadletFacts DEF QuadletInv, Quadlets!TypeOK
  <1>2. c.containers \subseteq Containers /\ c.builds \subseteq Builds
    BY <1>1 DEF Quadlets!ConfigType
  <1>3. Quadlets!UniqueServices(c)
    BY <1>1 DEF QuadletInv, SentUnique
  <1>4. m \in Quadlets!Modes
    BY DEF Quadlets!ModeOf, Quadlets!Modes
  <1>5. Quadlets!RenderedUnits(active)[m] = Quadlets!Rendered(c, m)
    BY <1>4 DEF Quadlets!RenderedUnits
  <1>6. u \in c.containers /\ m = Quadlets!ModeOf(c, u)
    OBVIOUS
  <1> HIDE DEF c
  <1>7. u \in Quadlets!Rendered(c, m)
    BY <1>6 DEF Quadlets!Rendered, Quadlets!render_containers
  <1>8. c.image[u] \in c.builds => c.image[u] \in Quadlets!Rendered(c, m)
    <2>1. m \in Quadlets!Consumers(c, {x \in c.containers : c.image[x] = c.image[u]})
      BY <1>6 DEF Quadlets!Consumers
    <2>2. m \in Quadlets!infer_build_modes(c, c.image[u])
      BY <2>1 DEF Quadlets!infer_build_modes, Quadlets!OrRootful
    <2> QED
      BY <2>2 DEF Quadlets!Rendered, Quadlets!render_builds
  <1>9. ASSUME NEW v \in c.mounts[u] \cap c.volumes PROVE v \in Quadlets!Rendered(c, m)
    <2>1. m \in Quadlets!Consumers(c, {x \in c.containers : v \in c.mounts[x]})
      BY <1>6 DEF Quadlets!Consumers
    <2>2. m \in Quadlets!infer_volume_modes(c, v)
      BY <2>1 DEF Quadlets!infer_volume_modes, Quadlets!OrRootful
    <2> QED
      BY <2>2 DEF Quadlets!Rendered, Quadlets!render_volumes
  <1>10. \A v, w \in Quadlets!Rendered(c, m) : Service[v] = Service[w] => v = w
    BY <1>3, <1>4 DEF Quadlets!UniqueServices
  <1> QED
    BY <1>2, <1>4, <1>5, <1>6, <1>7, <1>8, <1>9, <1>10, QuadletFacts DEF c

LEMMA QuadletSays ==
    QuadletInv => /\ Quadlets!TypeOK
                  /\ Quadlets!UnitsFollowConfig /\ Quadlets!ServicesFollowConfig
                  /\ Quadlets!InputsReady
  <1> SUFFICES ASSUME QuadletInv
               PROVE  /\ Quadlets!UnitsFollowConfig /\ Quadlets!ServicesFollowConfig
                      /\ Quadlets!InputsReady
    BY DEF QuadletInv
  <1>1. ASSUME syncFor # 0
        PROVE  /\ syncFor = active /\ desired = Quadlets!RenderedUnits(active)
               /\ \A m \in Quadlets!Modes : UnitsAt(m) /\ ServicesAt(m) /\ RestartsAt(m)
    BY <1>1 DEF QuadletInv, Following, SyncUnits, SyncRunning, SyncRestarts
  <1>2. Quadlets!UnitsFollowConfig
    BY <1>1 DEF Quadlets!UnitsFollowConfig, Quadlets!Synced, UnitsAt, FilesSettled, FilesAhead
  <1>3. Quadlets!ServicesFollowConfig
    <2> SUFFICES ASSUME Quadlets!Synced, NEW m \in Quadlets!Modes,
                        NEW s \in SyncServices \ (failed[m] \cup Quadlets!Services(found.files[m]))
                 PROVE  IF s \in RenderedServices(m) THEN running[m][s] = active
                        ELSE running[m][s] # 0 => s \in found.services[m]
      BY <1>1 DEF Quadlets!ServicesFollowConfig, Quadlets!Synced, SyncServices, RenderedServices
    <2>1. StaleLeft(m) = {} /\ tried[m] = RenderedServices(m) /\ ServicesAt(m)
      BY <1>1 DEF Quadlets!Synced, StaleLeft, RestartsAt, RestartsAhead
    <2> QED
      BY <2>1 DEF ServicesAt
  <1>4. Quadlets!InputsReady
    <2> SUFFICES ASSUME syncFor = active, active # 0, NEW u \in sent[active].containers,
                        Service[u] \in tried[Quadlets!ModeOf(sent[active], u)]
                 PROVE  LET m == Quadlets!ModeOf(sent[active], u) IN
                        /\ sent[active].image[u] \in sent[active].builds =>
                            Service[sent[active].image[u]] \in tried[m]
                        /\ \A v \in sent[active].mounts[u] \cap sent[active].volumes :
                            unitFiles[m][v] = active
      BY DEF Quadlets!InputsReady
    <2> DEFINE m == Quadlets!ModeOf(sent[active], u)
               R == Quadlets!RenderedUnits(active)[m]
               image == sent[active].image[u]
    <2>1. /\ m \in Quadlets!Modes /\ u \in R /\ u \notin Builds
          /\ image \in sent[active].builds => image \in R \cap Builds
          /\ \A v \in sent[active].mounts[u] \cap sent[active].volumes : v \in R
          /\ \A v, w \in R : Service[v] = Service[w] => v = w
      BY InputsRendered
    <2>2. /\ R = desired[m] /\ UnitsAt(m) /\ RestartsAt(m) /\ Service[u] \in tried[m]
      BY <1>1, <2>1
    <2>3. Quadlets!Listed(m, TRUE) = {Service[v] : v \in R \cap Builds}
      BY DEF Quadlets!Listed, Quadlets!Services
    <2> HIDE DEF m, R, image
    <2>4. ~ RestartsAhead(m)
      BY <2>2 DEF RestartsAt
    <2>5. FilesSettled(m)
      BY <2>4 DEF RestartsAhead, FilesSettled, FilesAhead
    <2>6. \A v \in R : unitFiles[m][v] = active
      BY <2>2, <2>5 DEF UnitsAt
    <2>7. ~ (unitPc = "build" /\ mode = m)
      <3>1. Service[u] \notin Quadlets!Listed(m, TRUE)
        BY <2>1, <2>3
      <3>2. unitPc = "build" /\ mode = m => Service[u] \in Quadlets!Listed(m, TRUE)
        BY <2>2 DEF RestartsAt
      <3> QED
        BY <3>1, <3>2
    <2>8. Quadlets!Listed(m, TRUE) \subseteq tried[m]
      <3>1. CASE unitPc = "start" /\ mode = m
        BY <2>2, <3>1 DEF RestartsAt
      <3>2. CASE ~ (unitPc = "start" /\ mode = m)
        <4>1. tried[m] = {Service[v] : v \in R}
          BY <2>2, <2>4, <2>7, <3>2 DEF RestartsAt, RenderedServices, Quadlets!Services
        <4> QED
          BY <2>3, <4>1
      <3> QED
        BY <3>1, <3>2
    <2> QED
      BY <2>1, <2>3, <2>6, <2>8 DEF m, R, image
  <1> QED
    BY <1>2, <1>3, <1>4

-----------------------------------------------------------------------------
(* The three programs of MCActivationUnits *)

UnitsInv ==
    /\ program = "users" => AccountInv /\ Established
    /\ program = "quadlets" => QuadletInv
    /\ program = "network" => NetworkInv

LEMMA UnitsInvariant == Spec => []UnitsInv
  <1>1. Init => UnitsInv
    BY AccountInit, EstablishedInit, QuadletInit, NetworkInit DEF Init, UnitsInv
  <1>2. UnitsInv /\ [Next]_vars => UnitsInv'
    <2> SUFFICES ASSUME UnitsInv, [Next]_vars PROVE UnitsInv'
      OBVIOUS
    <2>1. program' = program
      BY DEF Next, vars, ApplyUsers, SyncQuadlets, ApplyNetwork
    <2>2. CASE program = "users"
      <3>1. [Accounts!Next]_(Accounts!vars)
        BY <2>2 DEF Next, vars, accounts, ApplyUsers, SyncQuadlets, ApplyNetwork, Accounts!vars,
                    Accounts!accounts, Accounts!trees, Accounts!locals, Accounts!history
      <3> QED
        BY <2>1, <2>2, <3>1, AccountStep, EstablishedStep DEF UnitsInv
    <2>3. CASE program = "quadlets"
      <3>1. [Quadlets!Next]_(Quadlets!vars)
        BY <2>3 DEF Next, vars, quadlets, ApplyUsers, SyncQuadlets, ApplyNetwork, Quadlets!vars,
                    Quadlets!trees, Quadlets!targets, Quadlets!sync, Quadlets!history
      <3> QED
        BY <2>1, <2>3, <3>1, QuadletStep DEF UnitsInv
    <2>4. CASE program = "network"
      <3>1. [Network!Next]_(Network!vars)
        BY <2>4 DEF Next, vars, network, ApplyUsers, SyncQuadlets, ApplyNetwork, Network!vars,
                    Network!trees, Network!run
      <3> QED
        BY <2>1, <2>4, <3>1, NetworkStep DEF UnitsInv
    <2> QED
      BY <2>1, <2>2, <2>3, <2>4 DEF UnitsInv
  <1> QED
    BY <1>1, <1>2, PTL DEF Spec

\* apply-users: after a complete run the declared users are admitted, with their shell
\* unless a tree activated since the boot left them out; every other account that was made
\* is locked or stray, and those of the image are untouched.
THEOREM AccountsAlwaysFollow == Spec => []AccountsFollowConfig
  <1>1. UnitsInv => AccountsFollowConfig
    BY AccountSays DEF UnitsInv, AccountsFollowConfig
  <1> QED
    BY <1>1, UnitsInvariant, PTL

\* apply-users: a refusal strikes a new configuration only; the users of a tree that a
\* rollback or a boot brings back are in its record (restore_rollback merges the records).
THEOREM RestoredAlwaysAdmitted == Spec => []RestoredAdmitted
  <1>1. UnitsInv => RestoredAdmitted
    BY EstablishedSays DEF UnitsInv, RestoredAdmitted
  <1> QED
    BY <1>1, UnitsInvariant, PTL

\* quadlet-sync: wherever earlier syncs were killed, one that ends leaves the units and the
\* services of the active tree, and starts no container before its build and volumes.
THEOREM QuadletsAlwaysFollow == Spec => []QuadletsFollowTree
  <1>1. UnitsInv => QuadletsFollowTree
    BY QuadletSays DEF UnitsInv, QuadletsFollowTree
  <1> QED
    BY <1>1, UnitsInvariant, PTL

\* lan-gateway-apply: a refusal changes no file, and a success leaves the files of the
\* tree and services that loaded them.
THEOREM NetworkAlwaysFollows == Spec => []NetworkFollowsTree
  <1>1. UnitsInv => NetworkFollowsTree
    BY NetworkSays DEF UnitsInv, NetworkFollowsTree
  <1> QED
    BY <1>1, UnitsInvariant, PTL

\* config.py and lan-gateway-apply agree on every network configuration, whatever the
\* width of an address; the run evaluates the same formula for one width.
THEOREM ValidatorsAlwaysAgree == Spec => []ValidatorsAgree
  <1>1. ValidatorsAgree
    BY AlwaysAgreed DEF ValidatorsAgree
  <1> QED
    BY <1>1, PTL
=============================================================================
