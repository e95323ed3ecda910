------------------------- MODULE ApplyRequestProofs ------------------------
(***************************************************************************)
(* A configuration request on its way: what MCApplyRequest checks of the   *)
(* signature, of the partial updates and of the activation, for any        *)
(* handlers, limits, timeouts and number of faults.  The first two are     *)
(* RequestProofs, instantiated for each of the two sets of bounds; the     *)
(* activation has an inductive invariant of its own here.                  *)
(***************************************************************************)
EXTENDS MCApplyRequest, FiniteSetTheorems, TLAPS

GuardP == INSTANCE RequestProofs
    WITH Keys <- AdminKeys, Handlers <- GuardHandlers, MaxNonces <- 3, MaxQueue <- 1,
         MaxApplied <- 1,
         TableKeys <- OpKeys, MaxDepth <- OpDepth, Scalars <- OpScalars, Names <- OpNames,
         Tables <- OpTables, MaxChanges <- OpChanges

WorkerP == INSTANCE RequestProofs
    WITH Keys <- AdminKeys, Handlers <- WorkerHandlers, MaxNonces <- 2, MaxQueue <- 1,
         MaxApplied <- 3,
         TableKeys <- PatchKeys, MaxDepth <- PatchDepth, Scalars <- PatchScalars,
         Names <- PatchNames, Tables <- PatchTables, MaxChanges <- PatchChanges

-----------------------------------------------------------------------------
(* The two instances of each module say the same. *)

LEMMA GuardConstants == GuardP!SignedApplyConstants
  BY RequestConstants DEF Guard!SignedApplyConstants, GuardP!SignedApplyConstants

LEMMA WorkerConstants == WorkerP!SignedApplyConstants
  BY RequestConstants DEF Worker!SignedApplyConstants, WorkerP!SignedApplyConstants

LEMMA GuardInit == Guard!Init <=> GuardP!Init
  BY DEF Guard!Init, GuardP!Init, Guard!Idle, GuardP!Idle

LEMMA WorkerInit == Worker!Init <=> WorkerP!Init
  BY DEF Worker!Init, WorkerP!Init, Worker!Idle, WorkerP!Idle

LEMMA GuardNext == [Guard!Next]_(Guard!vars) <=> [GuardP!Next]_(GuardP!vars)
  BY DEF Guard!vars, GuardP!vars, Guard!Next, GuardP!Next, Guard!Cardinality,
     GuardP!Cardinality, Guard!Issue, GuardP!Issue, Guard!SubmitInitial, GuardP!SubmitInitial,
     Guard!StageLocal, GuardP!StageLocal, Guard!Expire, GuardP!Expire, Guard!GuardBegin,
     GuardP!GuardBegin, Guard!GuardConsume, GuardP!GuardConsume, Guard!GuardVerify,
     GuardP!GuardVerify, Guard!GuardReject, GuardP!GuardReject, Guard!StageAgain,
     GuardP!StageAgain, Guard!Claim, GuardP!Claim, Guard!Reject, GuardP!Reject, Guard!Apply,
     GuardP!Apply, Guard!Abort, GuardP!Abort, Guard!RestartApi, GuardP!RestartApi,
     Guard!Reboot, GuardP!Reboot, Guard!Idle, GuardP!Idle, Guard!IsProvisioned,
     GuardP!IsProvisioned, Guard!Pruned, GuardP!Pruned, Guard!Of, GuardP!Of, Guard!Oldest,
     GuardP!Oldest, Guard!EvictClient, GuardP!EvictClient, Guard!EvictOldest,
     GuardP!EvictOldest, Guard!Evicted, GuardP!Evicted, Guard!Stage, GuardP!Stage,
     Guard!Unsigned, GuardP!Unsigned, Guard!NoNonce, GuardP!NoNonce, Guard!Holds,
     GuardP!Holds, Guard!nonce_matches_current_boot, GuardP!nonce_matches_current_boot,
     Guard!Authorized, GuardP!Authorized, Guard!api, GuardP!api, Guard!root, GuardP!root

LEMMA WorkerNext == [Worker!Next]_(Worker!vars) <=> [WorkerP!Next]_(WorkerP!vars)
  BY DEF Worker!vars, WorkerP!vars, Worker!Next, WorkerP!Next, Worker!Cardinality,
     WorkerP!Cardinality, Worker!Issue, WorkerP!Issue, Worker!SubmitInitial,
     WorkerP!SubmitInitial, Worker!StageLocal, WorkerP!StageLocal, Worker!Expire,
     WorkerP!Expire, Worker!GuardBegin, WorkerP!GuardBegin, Worker!GuardConsume,
     WorkerP!GuardConsume, Worker!GuardVerify, WorkerP!GuardVerify, Worker!GuardReject,
     WorkerP!GuardReject, Worker!StageAgain, WorkerP!StageAgain, Worker!Claim, WorkerP!Claim,
     Worker!Reject, WorkerP!Reject, Worker!Apply, WorkerP!Apply, Worker!Abort, WorkerP!Abort,
     Worker!RestartApi, WorkerP!RestartApi, Worker!Reboot, WorkerP!Reboot, Worker!Idle,
     WorkerP!Idle, Worker!IsProvisioned, WorkerP!IsProvisioned, Worker!Pruned, WorkerP!Pruned,
     Worker!Of, WorkerP!Of, Worker!Oldest, WorkerP!Oldest, Worker!EvictClient,
     WorkerP!EvictClient, Worker!EvictOldest, WorkerP!EvictOldest, Worker!Evicted,
     WorkerP!Evicted, Worker!Stage, WorkerP!Stage, Worker!Unsigned, WorkerP!Unsigned,
     Worker!NoNonce, WorkerP!NoNonce, Worker!Holds, WorkerP!Holds,
     Worker!nonce_matches_current_boot, WorkerP!nonce_matches_current_boot, Worker!Authorized,
     WorkerP!Authorized, Worker!api, WorkerP!api, Worker!root, WorkerP!root

LEMMA GuardSays ==
    GuardP!SignedInv => /\ Guard!TypeOK /\ Guard!AppliedOnce /\ Guard!StoreBound
                        /\ Worker!AppliedByTrustedKey
  <1>1. GuardP!TypeOK => Guard!TypeOK
    BY DEF GuardP!TypeOK, Guard!TypeOK, GuardP!Nonces, Guard!Nonces, GuardP!Messages,
           Guard!Messages, GuardP!Jobs, Guard!Jobs, GuardP!Idle, Guard!Idle
  <1>2. GuardP!AppliedOnce => Guard!AppliedOnce
    BY DEF GuardP!AppliedOnce, Guard!AppliedOnce, GuardP!Signed, Guard!Signed, GuardP!NoNonce,
           Guard!NoNonce
  <1>3. GuardP!StoreBound => Guard!StoreBound
    BY DEF GuardP!StoreBound, Guard!StoreBound, GuardP!Of, Guard!Of, GuardP!Cardinality,
           Guard!Cardinality
  <1>4. GuardP!AppliedByTrustedKey => Worker!AppliedByTrustedKey
    BY DEF GuardP!AppliedByTrustedKey, Worker!AppliedByTrustedKey, GuardP!Signed, Worker!Signed,
           GuardP!NoNonce, Worker!NoNonce
  <1> QED
    BY <1>1, <1>2, <1>3, <1>4 DEF GuardP!SignedInv

LEMMA WorkerSays ==
    WorkerP!SignedInv => /\ Worker!TypeOK /\ Worker!AppliedOnce /\ Worker!StoreBound
                         /\ Worker!AppliedByTrustedKey
  <1>1. WorkerP!TypeOK => Worker!TypeOK
    BY DEF WorkerP!TypeOK, Worker!TypeOK, WorkerP!Nonces, Worker!Nonces, WorkerP!Messages,
           Worker!Messages, WorkerP!Jobs, Worker!Jobs, WorkerP!Idle, Worker!Idle
  <1>2. WorkerP!AppliedOnce => Worker!AppliedOnce
    BY DEF WorkerP!AppliedOnce, Worker!AppliedOnce, WorkerP!Signed, Worker!Signed,
           WorkerP!NoNonce, Worker!NoNonce
  <1>3. WorkerP!StoreBound => Worker!StoreBound
    BY DEF WorkerP!StoreBound, Worker!StoreBound, WorkerP!Of, Worker!Of, WorkerP!Cardinality,
           Worker!Cardinality
  <1>4. WorkerP!AppliedByTrustedKey => Worker!AppliedByTrustedKey
    BY DEF WorkerP!AppliedByTrustedKey, Worker!AppliedByTrustedKey, WorkerP!Signed,
           Worker!Signed, WorkerP!NoNonce, Worker!NoNonce
  <1> QED
    BY <1>1, <1>2, <1>3, <1>4 DEF WorkerP!SignedInv

LEMMA GuardStepSays ==
    GuardP!NonceAcceptedOnce /\ GuardP!OthersKeepTheirNonces
    => Guard!NonceAcceptedOnce /\ Guard!OthersKeepTheirNonces
  <1>1. GuardP!NonceAcceptedOnce => Guard!NonceAcceptedOnce
    BY DEF GuardP!NonceAcceptedOnce, Guard!NonceAcceptedOnce
  <1>2. GuardP!OthersKeepTheirNonces => Guard!OthersKeepTheirNonces
    BY DEF GuardP!OthersKeepTheirNonces, Guard!OthersKeepTheirNonces, GuardP!Issue, Guard!Issue,
           GuardP!Of, Guard!Of, GuardP!Pruned, Guard!Pruned, GuardP!Holds, Guard!Holds,
           GuardP!Oldest, Guard!Oldest, GuardP!EvictClient, Guard!EvictClient,
           GuardP!EvictOldest, Guard!EvictOldest, GuardP!Evicted, Guard!Evicted,
           GuardP!Cardinality, Guard!Cardinality, GuardP!root, Guard!root
  <1> QED
    BY <1>1, <1>2

-----------------------------------------------------------------------------
(* Signed requests *)

SignInv ==
    /\ part = "guard" => GuardP!SignedInv
    /\ part = "worker" => WorkerP!SignedInv

LEMMA SignInitially == Init => SignInv
  BY GuardInit, WorkerInit, GuardConstants, WorkerConstants, GuardP!SignedInit,
     WorkerP!SignedInit DEF Init, SignInv

\* A step of the whole is a step of the part that is followed, or leaves it alone.
LEMMA SignedSteps ==
    ASSUME [Next]_vars
    PROVE  /\ part' = part
           /\ part = "guard" => [GuardP!Next]_(GuardP!vars)
           /\ part = "worker" => [WorkerP!Next]_(WorkerP!vars)
  <1>1. UNCHANGED signed => UNCHANGED Guard!vars /\ UNCHANGED Worker!vars
    BY DEF signed, Guard!vars, Guard!api, Guard!root, Worker!vars, Worker!api, Worker!root
  <1>2. part' = part /\ \/ UNCHANGED signed
                        \/ part = "guard" /\ Guard!Next
                        \/ part = "worker" /\ Worker!Next
    BY DEF Next, Sign, Update, Activate, vars
  <1> QED
    BY <1>1, <1>2, GuardNext, WorkerNext

LEMMA SignStep ==
    ASSUME SignInv, [Next]_vars
    PROVE  /\ SignInv'
           /\ part = "guard" => Guard!NonceAcceptedOnce /\ Guard!OthersKeepTheirNonces
  <1>1. CASE part = "guard"
    <2>1. GuardP!SignedInv /\ [GuardP!Next]_(GuardP!vars) /\ part' = "guard"
      BY <1>1, SignedSteps DEF SignInv
    <2>2. GuardP!SignedInv' /\ GuardP!NonceAcceptedOnce /\ GuardP!OthersKeepTheirNonces
      BY <2>1, GuardConstants, GuardP!SignedInvStep
    <2> QED
      BY <2>1, <2>2, GuardStepSays DEF SignInv
  <1>2. CASE part = "worker"
    <2>1. WorkerP!SignedInv /\ [WorkerP!Next]_(WorkerP!vars) /\ part' = "worker"
      BY <1>2, SignedSteps DEF SignInv
    <2>2. WorkerP!SignedInv'
      BY <2>1, WorkerConstants, WorkerP!SignedInvStep
    <2> QED
      BY <1>2, <2>1, <2>2 DEF SignInv
  <1>3. CASE part # "guard" /\ part # "worker"
    BY <1>3, SignedSteps DEF SignInv
  <1> QED
    BY <1>1, <1>2, <1>3

\* A signed request takes effect at most once, across API restarts, reboots and whatever
\* is staged again, and the nonce store stays within its limits (auth.py NonceStore,
\* consume_authorization_nonce).
THEOREM AppliedAtMostOnce == Spec => []AppliedOnce
  <1>1. SignInv => AppliedOnce
    BY GuardSays, WorkerSays DEF SignInv, AppliedOnce
  <1>2. SignInv /\ [Next]_vars => SignInv'
    BY SignStep
  <1> QED
    BY <1>1, <1>2, SignInitially, PTL DEF Spec

\* A request takes effect only under the signature of a key that the configuration it
\* replaces trusts (_verify_staged_authorization).
THEOREM OnlyTrustedKeysApply == Spec => []AppliedByTrustedKey
  <1>1. SignInv => AppliedByTrustedKey
    BY GuardSays, WorkerSays DEF SignInv, AppliedByTrustedKey
  <1>2. SignInv /\ [Next]_vars => SignInv'
    BY SignStep
  <1> QED
    BY <1>1, <1>2, SignInitially, PTL DEF Spec

\* The guard lets a nonce pass once, and a client that asks for too many nonces loses its
\* own oldest one, never another client's (NonceStore.issue, NonceStore.consume).
THEOREM NonceGuardIsSound == Spec => NoncesSound
  <1>1. SignInv /\ [Next]_vars => SignInv'
    BY SignStep
  <1>2. SignInv /\ [Next]_vars
        => [part = "guard" => Guard!NonceAcceptedOnce /\ Guard!OthersKeepTheirNonces]_vars
    BY SignStep
  <1> QED
    BY <1>1, <1>2, SignInitially, PTL DEF Spec, NoncesSound
-----------------------------------------------------------------------------
(* Activation *)

Working == {"hook", "restart", "settle", "report", "check"}

\* The first attempt is for the tree that was accepted; later phases know its policy valid.
\* The sequence ends with its outcome, and applied means the first attempt without failure.
Attempts ==
    /\ attempt = 1 => tree \in Trees /\ Activation!Accepts(tree) /\ "policy" \notin failures
    /\ phase \in Working => Activation!RuntimeValid(tree)
    /\ outcome # "none" => phase = "done"
    /\ outcome = "applied" => attempt = 1 /\ failures = {}

\* Each attempt starts within the time of those before it and gets MaxTimeout at most.
Timed ==
    /\ phase = "policy" => now <= (attempt - 1) * MaxTimeout
    /\ phase = "hook" => now + tree.policy.timeout = deadline
    /\ phase \in Working => now <= deadline /\ deadline <= attempt * MaxTimeout
    /\ now <= attempt * MaxTimeout
    /\ readyAt <= now
    /\ phase \in {"report", "check"} => now >= readyAt + tree.policy.settle

\* The checks were passed so far: nothing failed and the report is behind.
Passing == failures = {} /\ (phase \in {"check", "verdict"} \/ outcome = "applied")

\* Every service of the tree is reported or still to be; a report without failure has
\* every service running that has to be.
Reported ==
    /\ phase \in {"policy", "hook", "restart", "settle"} => DOMAIN statuses = {}
    /\ phase = "report" => DOMAIN statuses \cup todo = Activation!ServicesOf(tree)
    /\ Passing => Activation!ServicesOf(tree) \subseteq DOMAIN statuses /\ Activation!degraded_service_failures = {}

\* Every required service was seen active after the settle delay or is still to be checked.
Seen ==
    Passing => \A s \in tree.policy.required :
        \/ phase = "check" /\ s \in todo
        \/ seenAt[<<Activation!RuntimeMode(tree, s), s>>] >= readyAt + tree.policy.settle

ActivationInv == Activation!TypeOK /\ Attempts /\ Timed /\ Reported /\ Seen

LEMMA Numbers ==
    /\ CommandCap \in Nat \ {0} /\ MaxTimeout \in Nat \ {0} /\ MaxSettle \in Nat
    /\ ServiceChanges \in Nat
  BY RequestConstants DEF Activation!ActivationConstants

LEMMA Units ==
    ASSUME NEW t \in Trees \cup LegacyTrees
    PROVE  /\ t.units \in Seq([service : Activation!AllServices, mode : Activation!Modes])
           /\ Activation!ServicesOf(t) \subseteq Activation!AllServices
           /\ {<<u.mode, u.service>> : u \in Activation!Range(t.units)} \subseteq Activation!Pairs
           /\ \A s \in Activation!ServicesOf(t) :
                \E i \in DOMAIN t.units : t.units[i].service = s
  <1> DEFINE U == [service : Activation!AllServices, mode : Activation!Modes]
  <1>1. t.units \in Seq(U)
    BY RequestConstants DEF Activation!ActivationConstants
  <1>2. \A u \in U : u.service \in Activation!AllServices /\ u.mode \in Activation!Modes
    OBVIOUS
  <1> HIDE DEF U
  <1>3. \A u \in Activation!Range(t.units) : u \in U
    BY <1>1 DEF Activation!Range
  <1>4. Activation!ServicesOf(t) \subseteq Activation!AllServices
    BY <1>2, <1>3 DEF Activation!ServicesOf
  <1>5. {<<u.mode, u.service>> : u \in Activation!Range(t.units)} \subseteq Activation!Pairs
    BY <1>2, <1>3 DEF Activation!Pairs
  <1>6. \A s \in Activation!ServicesOf(t) : \E i \in DOMAIN t.units : t.units[i].service = s
    BY DEF Activation!ServicesOf, Activation!Range
  <1> QED
    BY <1>1, <1>4, <1>5, <1>6 DEF U

\* The mode that _load_runtime_unit_modes gives a service is the mode of one of its units.
LEMMA RuntimeModeIsOne ==
    ASSUME NEW t \in Trees \cup LegacyTrees, NEW s
    PROVE  /\ Activation!RuntimeMode(t, s) \in Activation!Modes
           /\ s \in Activation!ServicesOf(t)
                => Activation!RuntimeMode(t, s) \in Activation!ModesOf(t, s)
  <1>1. CASE s \notin Activation!ServicesOf(t)
    BY <1>1 DEF Activation!RuntimeMode, Activation!Modes
  <1>2. CASE s \in Activation!ServicesOf(t)
    <2> DEFINE U == [service : Activation!AllServices, mode : Activation!Modes]
               Is(i) == t.units[i].service = s
               Last(i) == Is(i) /\ \A j \in DOMAIN t.units : Is(j) => j <= i
    <2>1. t.units \in Seq(U) /\ \E i \in DOMAIN t.units : Is(i)
      BY <1>2, Units
    <2>2. \A u \in U : u.mode \in Activation!Modes
      OBVIOUS
    <2> HIDE DEF U, Is
    <2>3. Len(t.units) \in Nat /\ DOMAIN t.units = 1..Len(t.units)
      BY <2>1
    <2> DEFINE T == {Len(t.units) - i : i \in {j \in DOMAIN t.units : Is(j)}}
    <2>4. T \in SUBSET Nat /\ T # {}
      <3>1. \A j \in DOMAIN t.units : Len(t.units) - j \in Nat
        BY <2>3
      <3> QED
        BY <2>1, <3>1
    <2>5. PICK x \in T : \A y \in T : x <= y
      BY <2>4, GuardP!LeastNatural
    <2>6. PICK i \in DOMAIN t.units : Is(i) /\ x = Len(t.units) - i
      BY <2>5
    <2>7. ASSUME NEW j \in DOMAIN t.units, Is(j) PROVE j <= i
      <3>1. Len(t.units) - j \in T
        BY <2>7
      <3>2. Len(t.units) - i <= Len(t.units) - j
        BY <2>5, <2>6, <3>1
      <3> HIDE DEF T
      <3> QED
        BY <2>3, <3>2
    <2>8. \E l \in DOMAIN t.units : Last(l)
      BY <2>6, <2>7
    <2> DEFINE at == CHOOSE l \in DOMAIN t.units : Last(l)
    <2>9. at \in DOMAIN t.units /\ Is(at)
      BY <2>8
    <2>10. Activation!RuntimeMode(t, s) = t.units[at].mode
      BY <1>2 DEF Activation!RuntimeMode, Is
    <2> HIDE DEF at
    <2>11. t.units[at] \in U /\ t.units[at] \in Activation!Range(t.units)
      BY <2>1, <2>9 DEF Activation!Range
    <2> QED
      BY <2>2, <2>9, <2>10, <2>11 DEF Activation!ModesOf, Is
  <1> QED
    BY <1>1, <1>2

\* What load_activation_policy of config.py accepts, the runtime's validator accepts; and
\* what that one accepts names services the tree has.
LEMMA PoliciesAgree ==
    /\ \A t \in Trees : Activation!Accepts(t) => Activation!RuntimeValid(t)
    /\ \A t \in Trees \cup LegacyTrees : Activation!RuntimeValid(t) =>
        /\ t.policy.required \subseteq Activation!AllServices
        /\ t.policy.restart \subseteq Activation!AllServices
        /\ t.policy.timeout \in 1..MaxTimeout /\ t.policy.settle \in 0..MaxSettle
  <1>1. \A t \in Trees : t.policy.strict /\ t.containers \subseteq Activation!ServicesOf(t)
    BY RequestConstants DEF Activation!ActivationConstants
  <1>2. \A t \in LegacyTrees : ~t.policy.strict /\ t.policy.restart = {}
    BY RequestConstants DEF Activation!ActivationConstants
  <1>3. \A t \in Trees : Activation!Accepts(t) => Activation!RuntimeValid(t)
    BY <1>1 DEF Activation!Accepts, Activation!RuntimeValid
  <1>4. ASSUME NEW t \in Trees, Activation!RuntimeValid(t)
        PROVE  /\ t.policy.required \subseteq Activation!AllServices
               /\ t.policy.restart \subseteq Activation!AllServices
    BY <1>1, <1>4, Units DEF Activation!RuntimeValid
  <1>5. ASSUME NEW t \in LegacyTrees
        PROVE  /\ t.policy.required \subseteq Activation!AllServices
               /\ t.policy.restart \subseteq Activation!AllServices
    <2>1. t.policy.required \in {x.policy.required : x \in LegacyTrees}
      OBVIOUS
    <2>2. t.policy.required \subseteq UNION {x.policy.required : x \in LegacyTrees}
      BY <2>1, Zenon
    <2>3. t.policy.required \subseteq Activation!AllServices
      BY <2>2, Zenon DEF Activation!AllServices
    <2> QED
      BY <1>2, <2>3
  <1>6. \A t : Activation!RuntimeValid(t) =>
            t.policy.timeout \in 1..MaxTimeout /\ t.policy.settle \in 0..MaxSettle
    BY DEF Activation!RuntimeValid
  <1>7. ASSUME NEW t \in Trees \cup LegacyTrees, Activation!RuntimeValid(t)
        PROVE  /\ t.policy.required \subseteq Activation!AllServices
               /\ t.policy.restart \subseteq Activation!AllServices
    BY <1>4, <1>5, <1>7
  <1> QED
    BY <1>3, <1>6, <1>7

LEMMA NoTreeUnits == Activation!Range(Activation!NoTree.units) = {}
  BY DEF Activation!NoTree, Activation!Range

LEMMA ActivationInitially == Activation!Init => ActivationInv
  <1> SUFFICES ASSUME Activation!Init PROVE ActivationInv
    OBVIOUS
  <1>1. tree \in Trees /\ Activation!Accepts(tree)
    BY DEF Activation!Init
  <1>2. live \subseteq Activation!Pairs
    BY Units, NoTreeUnits DEF Activation!Init
  <1>3. seenAt \in [Activation!Pairs -> -1..now]
    BY DEF Activation!Init
  <1>4. DOMAIN statuses = {}
    BY DEF Activation!Init
  <1>5. Activation!TypeOK
    BY <1>1, <1>2, <1>3, <1>4, Numbers DEF Activation!Init, Activation!TypeOK
  <1>6. Attempts
    BY <1>1 DEF Activation!Init, Attempts, Working
  <1>7. Timed
    BY Numbers DEF Activation!Init, Timed, Working
  <1>8. Reported /\ Seen
    BY <1>4 DEF Activation!Init, Reported, Seen, Passing
  <1> QED
    BY <1>5, <1>6, <1>7, <1>8 DEF ActivationInv

\* A command never takes the clock past the deadline.
LEMMA TakesTime ==
    ASSUME now \in Nat, deadline \in Nat, NEW d \in 0..Activation!command_timeout,
           Activation!Takes(d)
    PROVE  now' \in Nat /\ now <= now' /\ (now <= deadline => now' <= deadline)
  BY Numbers DEF Activation!Takes, Activation!command_timeout, Activation!remaining_timeout

LEMMA SeenStays ==
    ASSUME Activation!TypeOK, now' \in Nat, now <= now', seenAt' = seenAt
    PROVE  seenAt' \in [Activation!Pairs -> -1..now']
  <1>1. seenAt \in [Activation!Pairs -> -1..now] /\ now \in Nat
    BY DEF Activation!TypeOK
  <1>2. -1..now \subseteq -1..now'
    BY <1>1
  <1> QED
    BY <1>1, <1>2

LEMMA LabelFacts ==
    /\ "policy" \notin Activation!AllServices
    /\ "policy" \in Activation!Labels /\ "hook" \in Activation!Labels
    /\ "restart timed out" \in Activation!Labels /\ "settle" \in Activation!Labels
    /\ "checks timed out" \in Activation!Labels
  BY RequestConstants DEF Activation!ActivationConstants, Activation!Labels

\* What the phases that work know of the policy
LEMMA WorkingPolicy ==
    ASSUME Activation!TypeOK, Attempts, phase \in Working
    PROVE  /\ tree.policy.timeout \in 1..MaxTimeout /\ tree.policy.settle \in 0..MaxSettle
           /\ tree.policy.required \subseteq Activation!AllServices
           /\ tree.policy.restart \subseteq Activation!AllServices
  BY PoliciesAgree DEF Activation!TypeOK, Attempts

LEMMA ActivationStep ==
    ASSUME ActivationInv, [Activation!Next]_(Activation!vars)
    PROVE  ActivationInv'
  <1>0. Activation!TypeOK /\ Attempts /\ Timed /\ Reported /\ Seen
    BY DEF ActivationInv
  <1>1. CASE Activation!LoadPolicy
    <2>1. Activation!TypeOK'
      <3>1. deadline' \in Nat
        <4>1. CASE Activation!RuntimeValid(tree)
          <5>1. tree.policy.timeout \in Nat
            BY <1>0, <4>1, Numbers, PoliciesAgree DEF Activation!TypeOK
          <5> QED
            BY <1>0, <1>1, <4>1, <5>1 DEF Activation!TypeOK, Activation!LoadPolicy,
               Activation!Policy
        <4>2. CASE ~Activation!RuntimeValid(tree)
          BY <1>0, <1>1, <4>2 DEF Activation!TypeOK, Activation!LoadPolicy
        <4> QED
          BY <4>1, <4>2
      <3>2. /\ failures' \subseteq Activation!AllServices \cup Activation!Labels
            /\ phase' \in {"hook", "verdict"} /\ todo' = {}
        BY <1>0, <1>1, LabelFacts DEF Activation!TypeOK, Activation!LoadPolicy, Activation!Go,
           Activation!Fails
      <3> QED
        BY <1>0, <1>1, <3>1, <3>2 DEF Activation!TypeOK, Activation!LoadPolicy, Activation!Same
    <2>2. Attempts'
      <3>1. attempt = 1 => Activation!RuntimeValid(tree)
        BY <1>0, PoliciesAgree DEF Attempts
      <3>2. attempt' = attempt /\ tree' = tree /\ outcome' = outcome
            /\ phase' \in {"hook",
            "verdict"} /\ (phase' = "hook" => Activation!RuntimeValid(tree))
            /\ (Activation!RuntimeValid(tree) => failures' = failures)
        BY <1>1 DEF Activation!LoadPolicy, Activation!Go, Activation!Fails, Activation!Same
      <3>3. outcome = "none"
        BY <1>0, <1>1 DEF Attempts, Activation!LoadPolicy
      <3>4. Activation!RuntimeValid(tree)' = Activation!RuntimeValid(tree')
            /\ Activation!Accepts(tree)' = Activation!Accepts(tree')
        BY DEF Activation!RuntimeValid, Activation!Accepts, Activation!ServicesOf,
           Activation!Range
      <3> QED
        BY <1>0, <3>1, <3>2, <3>3, <3>4 DEF Attempts, Working
    <2>3. Timed'
      <3>1. now' = now /\ attempt' = attempt /\ tree' = tree /\ readyAt' = readyAt
            /\ phase' \in {"hook", "verdict"} /\ now \in Nat /\ readyAt <= now
        BY <1>0, <1>1 DEF Activation!LoadPolicy, Activation!Go, Activation!Same,
           Activation!TypeOK, Timed
      <3>2. now <= (attempt - 1) * MaxTimeout /\ attempt \in 1..2
        BY <1>0, <1>1 DEF Activation!LoadPolicy, Activation!TypeOK, Timed
      <3>3. (attempt - 1) * MaxTimeout + MaxTimeout = attempt * MaxTimeout
            /\ (attempt - 1) * MaxTimeout \in Nat
        BY <3>2, Numbers
      <3>4. phase' = "hook" => deadline' = now + tree.policy.timeout
                               /\ tree.policy.timeout \in 1..MaxTimeout
        BY <1>0, <1>1, PoliciesAgree
           DEF Activation!LoadPolicy, Activation!Go, Activation!Policy, Activation!TypeOK
      <3>5. now <= attempt * MaxTimeout
        BY <3>1, <3>2, <3>3, Numbers
      <3>6. phase' = "hook" => now + tree.policy.timeout = deadline' /\ now <= deadline'
                               /\ deadline' <= attempt * MaxTimeout
        <4> HAVE phase' = "hook"
        <4> DEFINE b == (attempt - 1) * MaxTimeout
                   c == attempt * MaxTimeout
                   t == tree.policy.timeout
        <4>1. b \in Nat /\ c = b + MaxTimeout /\ now <= b /\ t \in 1..MaxTimeout
              /\ deadline' = now + t
          BY <3>2, <3>3, <3>4
        <4> HIDE DEF b, c, t
        <4>2. now + t = deadline' /\ now <= deadline' /\ deadline' <= c
          BY <3>1, <4>1, Numbers
        <4> QED
          BY <4>2 DEF c, t
      <3> QED
        BY <3>1, <3>5, <3>6 DEF Timed, Working
    <2>4. Reported'
      BY <1>0, <1>1 DEF Activation!TypeOK, Attempts, Reported, Passing,
         Activation!degraded_service_failures, Activation!Policy, Activation!LoadPolicy,
         Activation!Go, Activation!Fails, Activation!Same
    <2>5. Seen'
      BY <1>0, <1>1 DEF Activation!TypeOK, Attempts, Timed, Seen, Passing, Working,
         Activation!LoadPolicy, Activation!Go, Activation!Fails, Activation!Same,
         Activation!Policy
    <2> QED
      BY <2>1, <2>2, <2>3, <2>4, <2>5 DEF ActivationInv
  <1>2. CASE Activation!Hook
    <2>1. Activation!TypeOK'
      <3>1. tree.policy.timeout \in Nat /\ tree.policy.restart \subseteq Activation!AllServices
        BY <1>0, <1>2, WorkingPolicy, Numbers DEF Activation!Hook, Working
      <3>2. now' \in Nat /\ now <= now' /\ readyAt' = now'
        BY <1>0, <1>2, <3>1 DEF Activation!Hook, Activation!Policy, Activation!TypeOK
      <3>3. seenAt' \in [Activation!Pairs -> -1..now']
        BY <1>0, <1>2, <3>2, SeenStays DEF Activation!Hook
      <3>4. live' \subseteq Activation!Pairs
        BY <1>0, <1>2, Units DEF Activation!Hook, Activation!TypeOK
      <3>5. /\ failures' \subseteq Activation!AllServices \cup Activation!Labels
            /\ phase' \in {"restart", "verdict"} /\ todo' \subseteq Activation!AllServices
        BY <1>0, <1>2, <3>1, LabelFacts
           DEF Activation!Hook, Activation!Go, Activation!Fails, Activation!Policy,
           Activation!TypeOK
      <3> QED
        BY <1>0, <1>2, <3>2, <3>3, <3>4, <3>5 DEF Activation!TypeOK, Activation!Hook,
           Activation!Same
    <2>2. Attempts'
      BY <1>0, <1>2 DEF Activation!TypeOK, Attempts, Working, Activation!Hook, Activation!Go,
         Activation!Fails, Activation!Same, Activation!Policy
    <2>3. Timed'
      <3>1. tree.policy.timeout \in Nat
        BY <1>0, <1>2, WorkingPolicy, Numbers DEF Activation!Hook, Working
      <3>2. /\ now + tree.policy.timeout = deadline /\ deadline <= attempt * MaxTimeout
            /\ now \in Nat /\ deadline \in Nat /\ attempt \in 1..2
        BY <1>0, <1>2 DEF Activation!Hook, Timed, Working, Activation!TypeOK
      <3>3. now' \in Nat /\ now' <= deadline
        BY <1>0, <1>2, <3>1, <3>2 DEF Activation!Hook, Activation!Policy
      <3>4. attempt * MaxTimeout \in Nat
        BY <3>2, Numbers
      <3>5. now' <= attempt * MaxTimeout
        BY <3>2, <3>3, <3>4
      <3>6. /\ readyAt' = now' /\ deadline' = deadline /\ attempt' = attempt /\ tree' = tree
            /\ phase' \in {"restart", "verdict"}
        BY <1>2 DEF Activation!Hook, Activation!Go, Activation!Same
      <3> QED
        BY <3>2, <3>3, <3>5, <3>6 DEF Timed, Working
    <2>4. Reported'
      BY <1>0, <1>2 DEF Activation!TypeOK, Attempts, Reported, Passing,
         Activation!degraded_service_failures, Activation!Policy, Activation!Hook, Activation!Go,
         Activation!Fails, Activation!Same
    <2>5. Seen'
      BY <1>0, <1>2 DEF Activation!TypeOK, Attempts, Timed, Seen, Passing, Working,
         Activation!Hook, Activation!Go, Activation!Fails, Activation!Same, Activation!Policy
    <2> QED
      BY <2>1, <2>2, <2>3, <2>4, <2>5 DEF ActivationInv
  <1>3. CASE Activation!RestartTimesOut
    <2>1. Activation!TypeOK'
      <3>1. failures' \subseteq Activation!AllServices \cup Activation!Labels
        BY <1>0, <1>3, LabelFacts DEF Activation!TypeOK, Activation!RestartTimesOut,
           Activation!Fails
      <3> QED
        BY <1>0, <1>3, <3>1
           DEF Activation!TypeOK, Activation!RestartTimesOut, Activation!Go, Activation!Same
    <2>2. Attempts'
      BY <1>0, <1>3 DEF Activation!TypeOK, Attempts, Working, Activation!RestartTimesOut,
         Activation!Go, Activation!Fails, Activation!Same
    <2>3. Timed'
      BY <1>0, <1>3 DEF Activation!TypeOK, Timed, Working, Attempts, Activation!RestartTimesOut,
         Activation!Go, Activation!Fails, Activation!Same
    <2>4. Reported'
      BY <1>0, <1>3 DEF Activation!TypeOK, Attempts, Reported, Passing,
         Activation!degraded_service_failures, Activation!Policy, Activation!RestartTimesOut,
         Activation!Go, Activation!Fails, Activation!Same
    <2>5. Seen'
      BY <1>0, <1>3 DEF Activation!TypeOK, Attempts, Timed, Seen, Passing, Working,
         Activation!RestartTimesOut, Activation!Go, Activation!Fails, Activation!Same
    <2> QED
      BY <2>1, <2>2, <2>3, <2>4, <2>5 DEF ActivationInv
  <1>4. CASE Activation!RestartsDone
    <2>1. Activation!TypeOK'
      BY <1>0, <1>4 DEF Activation!TypeOK, Activation!Statuses, Activation!RestartsDone,
         Activation!Go, Activation!Same
    <2>2. Attempts'
      BY <1>0, <1>4 DEF Activation!TypeOK, Attempts, Working, Activation!RestartsDone,
         Activation!Go, Activation!Same
    <2>3. Timed'
      BY <1>0, <1>4 DEF Activation!TypeOK, Timed, Working, Attempts, Activation!RestartsDone,
         Activation!Go, Activation!Same
    <2>4. Reported'
      BY <1>0, <1>4 DEF Activation!TypeOK, Attempts, Reported, Passing,
         Activation!degraded_service_failures, Activation!Policy, Activation!RestartsDone,
         Activation!Go, Activation!Same
    <2>5. Seen'
      BY <1>0, <1>4 DEF Activation!TypeOK, Attempts, Timed, Seen, Passing, Working,
         Activation!RestartsDone, Activation!Go, Activation!Same
    <2> QED
      BY <2>1, <2>2, <2>3, <2>4, <2>5 DEF ActivationInv
  <1>5. CASE Activation!Settle
    <2>1. Activation!TypeOK'
      <3>1. tree.policy.settle \in Nat
        BY <1>0, <1>5, WorkingPolicy, Numbers DEF Activation!Settle, Working
      <3>2. now' \in Nat /\ now <= now'
        BY <1>0, <1>5, <3>1 DEF Activation!Settle, Activation!Policy, Activation!TypeOK
      <3>3. seenAt' \in [Activation!Pairs -> -1..now']
        BY <1>0, <1>5, <3>2, SeenStays DEF Activation!Settle
      <3>4. /\ failures' \subseteq Activation!AllServices \cup Activation!Labels
            /\ phase' \in {"report", "verdict"} /\ todo' \subseteq Activation!AllServices
        BY <1>0, <1>5, Units, LabelFacts
           DEF Activation!Settle, Activation!Go, Activation!Fails, Activation!TypeOK
      <3> QED
        BY <1>0, <1>5, <3>2, <3>3, <3>4 DEF Activation!TypeOK, Activation!Settle, Activation!Same
    <2>2. Attempts'
      BY <1>0, <1>5 DEF Activation!TypeOK, Attempts, Working, Activation!Settle, Activation!Go,
         Activation!Fails, Activation!Same, Activation!Policy, Activation!remaining_timeout
    <2>3. Timed'
      <3>1. tree.policy.settle \in Nat
        BY <1>0, <1>5, WorkingPolicy, Numbers DEF Activation!Settle, Working
      <3>2. /\ now <= deadline /\ deadline <= attempt * MaxTimeout /\ readyAt <= now
            /\ now \in Nat /\ deadline \in Nat /\ readyAt \in Nat /\ attempt \in 1..2
        BY <1>0, <1>5 DEF Activation!Settle, Timed, Working, Activation!TypeOK
      <3>3. \/ phase' = "verdict" /\ now' = now
            \/ phase' = "report" /\ now' = now + tree.policy.settle
               /\ tree.policy.settle <= Activation!remaining_timeout
        BY <1>5, <3>1, <3>2
           DEF Activation!Settle, Activation!Policy, Activation!Go, Activation!remaining_timeout
      <3>4. now' \in Nat /\ now' <= deadline /\ readyAt <= now'
            /\ (phase' = "report" => now' >= readyAt + tree.policy.settle)
        BY <3>1, <3>2, <3>3 DEF Activation!remaining_timeout
      <3>5. attempt * MaxTimeout \in Nat
        BY <3>2, Numbers
      <3>6. now' <= attempt * MaxTimeout
        BY <3>2, <3>4, <3>5
      <3>7. readyAt' = readyAt /\ deadline' = deadline /\ attempt' = attempt /\ tree' = tree
        BY <1>5 DEF Activation!Settle, Activation!Same
      <3> QED
        BY <3>2, <3>3, <3>4, <3>6, <3>7 DEF Timed, Working
    <2>4. Reported'
      BY <1>0, <1>5 DEF Activation!TypeOK, Attempts, Reported, Passing,
         Activation!degraded_service_failures, Activation!Policy, Activation!Settle,
         Activation!Go, Activation!Fails, Activation!Same, Activation!remaining_timeout
    <2>5. Seen'
      BY <1>0, <1>5 DEF Activation!TypeOK, Attempts, Timed, Seen, Passing, Working,
         Activation!Settle, Activation!Go, Activation!Fails, Activation!Same, Activation!Policy,
         Activation!remaining_timeout
    <2> QED
      BY <2>1, <2>2, <2>3, <2>4, <2>5 DEF ActivationInv
  <1>6. CASE Activation!ReportDone
    <2>1. Activation!TypeOK'
      <3>1. tree.policy.required \subseteq Activation!AllServices
        BY <1>0, <1>6, WorkingPolicy DEF Activation!ReportDone, Working
      <3>2. Activation!degraded_service_failures \subseteq Activation!AllServices
        BY <1>0, Units DEF Activation!degraded_service_failures, Activation!TypeOK
      <3> QED
        BY <1>0, <1>6, <3>1, <3>2
           DEF Activation!TypeOK, Activation!ReportDone, Activation!Go, Activation!Same,
           Activation!Policy
    <2>2. Attempts'
      <3>1. "policy" \notin Activation!degraded_service_failures
        BY <1>0, Units, LabelFacts DEF Activation!degraded_service_failures, Activation!TypeOK
      <3> QED
        BY <1>0, <1>6, <3>1 DEF Attempts, Working, Activation!ReportDone, Activation!Go,
           Activation!Same
    <2>3. Timed'
      BY <1>0, <1>6 DEF Activation!TypeOK, Timed, Working, Attempts, Activation!ReportDone,
         Activation!Go, Activation!Same, Activation!Policy
    <2>4. Reported'
      BY <1>0, <1>6 DEF Activation!TypeOK, Attempts, Reported, Passing,
         Activation!degraded_service_failures, Activation!Policy, Activation!ReportDone,
         Activation!Go, Activation!Same
    <2>5. Seen'
      BY <1>0, <1>6 DEF Activation!TypeOK, Attempts, Timed, Seen, Passing, Working,
         Activation!ReportDone, Activation!Go, Activation!Same, Activation!Policy
    <2> QED
      BY <2>1, <2>2, <2>3, <2>4, <2>5 DEF ActivationInv
  <1>7. CASE Activation!CheckTimesOut
    <2>1. Activation!TypeOK'
      <3>1. failures' \subseteq Activation!AllServices \cup Activation!Labels
        BY <1>0, <1>7, LabelFacts DEF Activation!TypeOK, Activation!CheckTimesOut,
           Activation!Fails
      <3> QED
        BY <1>0, <1>7, <3>1
           DEF Activation!TypeOK, Activation!CheckTimesOut, Activation!Go, Activation!Same
    <2>2. Attempts'
      BY <1>0, <1>7 DEF Activation!TypeOK, Attempts, Working, Activation!CheckTimesOut,
         Activation!Go, Activation!Fails, Activation!Same
    <2>3. Timed'
      BY <1>0, <1>7 DEF Activation!TypeOK, Timed, Working, Attempts, Activation!CheckTimesOut,
         Activation!Go, Activation!Fails, Activation!Same
    <2>4. Reported'
      BY <1>0, <1>7 DEF Activation!TypeOK, Attempts, Reported, Passing,
         Activation!degraded_service_failures, Activation!Policy, Activation!CheckTimesOut,
         Activation!Go, Activation!Fails, Activation!Same
    <2>5. Seen'
      BY <1>0, <1>7 DEF Activation!TypeOK, Attempts, Timed, Seen, Passing, Working,
         Activation!CheckTimesOut, Activation!Go, Activation!Fails, Activation!Same
    <2> QED
      BY <2>1, <2>2, <2>3, <2>4, <2>5 DEF ActivationInv
  <1>8. CASE Activation!ChecksDone
    <2>1. Activation!TypeOK'
      BY <1>0, <1>8 DEF Activation!TypeOK, Activation!Statuses, Activation!ChecksDone,
         Activation!Go, Activation!Same
    <2>2. Attempts'
      BY <1>0, <1>8 DEF Activation!TypeOK, Attempts, Working, Activation!ChecksDone,
         Activation!Go, Activation!Same
    <2>3. Timed'
      BY <1>0, <1>8 DEF Activation!TypeOK, Timed, Working, Attempts, Activation!ChecksDone,
         Activation!Go, Activation!Same
    <2>4. Reported'
      BY <1>0, <1>8 DEF Activation!TypeOK, Attempts, Reported, Passing,
         Activation!degraded_service_failures, Activation!Policy, Activation!ChecksDone,
         Activation!Go, Activation!Same
    <2>5. Seen'
      BY <1>0, <1>8 DEF Activation!TypeOK, Attempts, Timed, Seen, Passing, Working,
         Activation!ChecksDone, Activation!Go, Activation!Same
    <2> QED
      BY <2>1, <2>2, <2>3, <2>4, <2>5 DEF ActivationInv
  <1>9. CASE Activation!Verdict
    <2>1. Activation!TypeOK'
      BY <1>0, <1>9 DEF Activation!TypeOK, Activation!Statuses, Activation!Verdict, Activation!Go
    <2>2. Attempts'
      BY <1>0, <1>9 DEF Activation!TypeOK, Attempts, Working, Activation!Verdict, Activation!Go
    <2>3. Timed'
      <3>1. /\ now \in Nat /\ attempt \in 1..2 /\ readyAt <= now /\ now <= attempt * MaxTimeout
            /\ now' = now /\ readyAt' = readyAt
        BY <1>0, <1>9 DEF Activation!Verdict, Timed, Activation!TypeOK
      <3>2. CASE attempt' = attempt
        BY <1>9, <3>1, <3>2 DEF Activation!Verdict, Activation!Go, Timed, Working
      <3>3. CASE attempt = 1 /\ attempt' = 2 /\ phase' = "policy"
        <4>1. now <= (2 - 1) * MaxTimeout /\ now <= 2 * MaxTimeout
          BY <3>1, <3>3, Numbers
        <4> QED
          BY <3>1, <3>3, <4>1 DEF Timed, Working
      <3> QED
        BY <1>9, <3>2, <3>3 DEF Activation!Verdict, Activation!Go
    <2>4. Reported'
      BY <1>0, <1>9 DEF Activation!TypeOK, Attempts, Reported, Passing,
         Activation!degraded_service_failures, Activation!Policy, Activation!Verdict,
         Activation!Go
    <2>5. Seen'
      BY <1>0, <1>9 DEF Activation!TypeOK, Attempts, Timed, Seen, Passing, Working,
         Activation!Verdict, Activation!Go
    <2> QED
      BY <2>1, <2>2, <2>3, <2>4, <2>5 DEF ActivationInv
  <1>10. CASE Activation!Change
    <2>1. Activation!TypeOK'
      <3>1. live' \subseteq Activation!Pairs
        <4>1. PICK u \in Activation!Range(tree.units) :
                live' = IF <<u.mode, u.service>> \in live THEN live \ {<<u.mode, u.service>>}
                        ELSE live \cup {<<u.mode, u.service>>}
          BY <1>10 DEF Activation!Change
        <4>2. <<u.mode, u.service>> \in Activation!Pairs
          BY <1>0, Units DEF Activation!TypeOK
        <4> QED
          BY <1>0, <4>1, <4>2 DEF Activation!TypeOK
      <3>2. changes' \in 0..ServiceChanges
        BY <1>0, <1>10, Numbers DEF Activation!Change, Activation!TypeOK
      <3> QED
        BY <1>0, <1>10, <3>1, <3>2 DEF Activation!TypeOK, Activation!Change
    <2>2. Attempts'
      BY <1>0, <1>10 DEF Activation!TypeOK, Attempts, Working, Activation!Change
    <2>3. Timed'
      BY <1>0, <1>10 DEF Activation!TypeOK, Timed, Working, Attempts, Activation!Change
    <2>4. Reported'
      BY <1>0, <1>10 DEF Activation!TypeOK, Attempts, Reported, Passing,
         Activation!degraded_service_failures, Activation!Policy, Activation!Change
    <2>5. Seen'
      BY <1>0, <1>10 DEF Activation!TypeOK, Attempts, Timed, Seen, Passing, Working,
         Activation!Change
    <2> QED
      BY <2>1, <2>2, <2>3, <2>4, <2>5 DEF ActivationInv
  <1>11. ASSUME NEW s \in Activation!AllServices, Activation!RestartOne(s) PROVE ActivationInv'
    <2>1. Activation!TypeOK'
      <3>1. now' \in Nat /\ now <= now' /\ now' <= deadline
        <4>1. now \in Nat /\ deadline \in Nat /\ now <= deadline
          BY <1>0, <1>11 DEF Activation!RestartOne, Timed, Working, Activation!TypeOK
        <4> QED
          BY <1>11, <4>1, TakesTime DEF Activation!RestartOne
      
      <3>2. seenAt' \in [Activation!Pairs -> -1..now']
        BY <1>0, <1>11, <3>1, SeenStays DEF Activation!RestartOne
      <3>3. <<Activation!RuntimeMode(tree, s), s>> \in Activation!Pairs
        BY <1>0, RuntimeModeIsOne DEF Activation!TypeOK, Activation!Pairs
      <3>4. /\ live' \subseteq Activation!Pairs /\ todo' \subseteq Activation!AllServices
            /\ failures' \subseteq Activation!AllServices \cup Activation!Labels
        BY <1>0, <1>11, <3>3
           DEF Activation!TypeOK, Activation!RestartOne, Activation!Stay, Activation!Fails
      <3> QED
        BY <1>0, <1>11, <3>1, <3>2, <3>4
           DEF Activation!TypeOK, Activation!RestartOne, Activation!Stay, Activation!Same
    <2>2. Attempts'
      <3>1. "policy" \notin failures => "policy" \notin failures'
        BY <1>11, LabelFacts DEF Activation!RestartOne, Activation!Fails
      <3> QED
        BY <1>0, <1>11, <3>1
           DEF Attempts, Working, Activation!RestartOne, Activation!Stay, Activation!Same
    <2>3. Timed'
      <3>1. now' \in Nat /\ now <= now' /\ now' <= deadline
        <4>1. now \in Nat /\ deadline \in Nat /\ now <= deadline
          BY <1>0, <1>11 DEF Activation!RestartOne, Timed, Working, Activation!TypeOK
        <4> QED
          BY <1>11, <4>1, TakesTime DEF Activation!RestartOne
      
      <3>2. /\ deadline <= attempt * MaxTimeout /\ attempt \in 1..2
            /\ deadline \in Nat /\ now \in Nat /\ readyAt \in Nat /\ readyAt <= now
            /\ tree.policy.settle \in Nat
            /\ (phase \in {"report", "check"} => now >= readyAt + tree.policy.settle)
        BY <1>0, <1>11, WorkingPolicy, Numbers DEF Activation!RestartOne, Timed, Working,
           Activation!TypeOK
      <3>3. attempt * MaxTimeout \in Nat
        BY <3>2, Numbers
      <3>4. now' <= attempt * MaxTimeout
        BY <3>1, <3>2, <3>3
      <3>5. /\ phase' = phase /\ phase = "restart" /\ readyAt' = now' /\ deadline' = deadline
            /\ attempt' = attempt /\ tree' = tree
        BY <1>11 DEF Activation!RestartOne, Activation!Stay, Activation!Same
      <3>6. readyAt' <= now' /\ (phase \in {"report",
      "check"} => now' >= readyAt' + tree.policy.settle)
        BY <3>1, <3>2, <3>5
      <3> QED
        BY <3>1, <3>2, <3>4, <3>5, <3>6 DEF Timed, Working
    <2>4. Reported'
      BY <1>0, <1>11 DEF Activation!TypeOK, Attempts, Reported, Passing,
         Activation!degraded_service_failures, Activation!Policy, Activation!RestartOne,
         Activation!Takes, Activation!Stay, Activation!Fails, Activation!Same,
         Activation!remaining_timeout, Activation!command_timeout
    <2>5. Seen'
      BY <1>0, <1>11 DEF Activation!TypeOK, Attempts, Timed, Seen, Passing, Working,
         Activation!RestartOne, Activation!Takes, Activation!Stay, Activation!Fails,
         Activation!Same, Activation!remaining_timeout, Activation!command_timeout
    <2> QED
      BY <2>1, <2>2, <2>3, <2>4, <2>5 DEF ActivationInv
  <1>12. ASSUME NEW s \in Activation!AllServices, Activation!ReportOne(s) PROVE ActivationInv'
    <2>1. Activation!TypeOK'
      <3>1. now' \in Nat /\ now <= now' /\ now' <= deadline
        <4>1. now \in Nat /\ deadline \in Nat /\ now <= deadline
          BY <1>0, <1>12 DEF Activation!ReportOne, Timed, Working, Activation!TypeOK
        <4> QED
          BY <1>12, <4>1, TakesTime DEF Activation!ReportOne, Activation!Probe
      
      <3>2. seenAt' \in [Activation!Pairs -> -1..now']
        BY <1>0, <1>12, <3>1, SeenStays DEF Activation!ReportOne
      <3>3. PICK status \in {"running", "failed", "unknown"} : statuses' =
              [x \in DOMAIN statuses \cup {s} |-> IF x = s THEN status ELSE statuses[x]]
        BY <1>12 DEF Activation!ReportOne
      <3>4. DOMAIN statuses' = DOMAIN statuses \cup {s} /\ s \in todo
            /\ \A x \in DOMAIN statuses' : statuses'[x] = IF x = s THEN status ELSE statuses[x]
        BY <1>12, <3>3 DEF Activation!ReportOne
      <3>5. \A x \in DOMAIN statuses' : statuses'[x] \in {"running", "failed", "unknown"}
        BY <1>0, <3>4 DEF Activation!TypeOK, Activation!Statuses
      <3>6. DOMAIN statuses' \subseteq Activation!ServicesOf(tree')
        <4>1. s \in Activation!ServicesOf(tree) /\ tree' = tree
          BY <1>0, <1>12, <3>4 DEF Reported, Activation!ReportOne, Activation!Same
        <4> QED
          BY <1>0, <3>4, <4>1 DEF Activation!TypeOK
      <3> QED
        BY <1>0, <1>12, <3>1, <3>2, <3>5, <3>6
           DEF Activation!TypeOK, Activation!Statuses, Activation!ReportOne, Activation!Stay,
               Activation!Same, Activation!ServicesOf, Activation!Range
    <2>2. Attempts'
      BY <1>0, <1>12 DEF Activation!TypeOK, Attempts, Working, Activation!ReportOne,
         Activation!Probe, Activation!Takes, Activation!Stay, Activation!Same,
         Activation!remaining_timeout, Activation!command_timeout
    <2>3. Timed'
      <3>1. now' \in Nat /\ now <= now' /\ now' <= deadline
        <4>1. now \in Nat /\ deadline \in Nat /\ now <= deadline
          BY <1>0, <1>12 DEF Activation!ReportOne, Timed, Working, Activation!TypeOK
        <4> QED
          BY <1>12, <4>1, TakesTime DEF Activation!ReportOne, Activation!Probe
      
      <3>2. /\ deadline <= attempt * MaxTimeout /\ attempt \in 1..2
            /\ deadline \in Nat /\ now \in Nat /\ readyAt \in Nat /\ readyAt <= now
            /\ tree.policy.settle \in Nat
            /\ (phase \in {"report", "check"} => now >= readyAt + tree.policy.settle)
        BY <1>0, <1>12, WorkingPolicy, Numbers DEF Activation!ReportOne, Timed, Working,
           Activation!TypeOK
      <3>3. attempt * MaxTimeout \in Nat
        BY <3>2, Numbers
      <3>4. now' <= attempt * MaxTimeout
        BY <3>1, <3>2, <3>3
      <3>5. /\ phase' = phase /\ phase = "report" /\ readyAt' = readyAt /\ deadline' = deadline
            /\ attempt' = attempt /\ tree' = tree
        BY <1>12 DEF Activation!ReportOne, Activation!Stay, Activation!Same
      <3>6. readyAt' <= now' /\ (phase \in {"report",
      "check"} => now' >= readyAt' + tree.policy.settle)
        BY <3>1, <3>2, <3>5
      <3> QED
        BY <3>1, <3>2, <3>4, <3>5, <3>6 DEF Timed, Working
    <2>4. Reported'
      BY <1>0, <1>12 DEF Activation!TypeOK, Attempts, Reported, Passing,
         Activation!degraded_service_failures, Activation!Policy, Activation!ReportOne,
         Activation!Probe, Activation!Takes, Activation!Stay, Activation!Same,
         Activation!remaining_timeout, Activation!command_timeout
    <2>5. Seen'
      BY <1>0, <1>12 DEF Activation!TypeOK, Attempts, Timed, Seen, Passing, Working,
         Activation!ReportOne, Activation!Probe, Activation!Takes, Activation!Stay,
         Activation!Same, Activation!remaining_timeout, Activation!command_timeout
    <2> QED
      BY <2>1, <2>2, <2>3, <2>4, <2>5 DEF ActivationInv
  <1>13. ASSUME NEW s \in Activation!AllServices, Activation!CheckOne(s) PROVE ActivationInv'
    <2>1. Activation!TypeOK'
      BY <1>0, <1>13 DEF Activation!TypeOK, Activation!Statuses, Activation!CheckOne,
         Activation!Probe, Activation!Takes, Activation!Stay, Activation!Fails, Activation!Same,
         Activation!Policy, Activation!remaining_timeout, Activation!command_timeout
    <2>2. Attempts'
      <3>1. "policy" \notin failures => "policy" \notin failures'
        BY <1>13, LabelFacts DEF Activation!CheckOne, Activation!Fails
      <3> QED
        BY <1>0, <1>13, <3>1
           DEF Attempts, Working, Activation!CheckOne, Activation!Stay, Activation!Same
    <2>3. Timed'
      <3>1. now' \in Nat /\ now <= now' /\ now' <= deadline
        <4>1. now \in Nat /\ deadline \in Nat /\ now <= deadline
          BY <1>0, <1>13 DEF Activation!CheckOne, Timed, Working, Activation!TypeOK
        <4>2. CASE now' = now
          BY <4>1, <4>2
        <4>3. CASE \E d \in 0..Activation!command_timeout : Activation!Takes(d)
          BY <4>1, <4>3, TakesTime
        <4> QED
          BY <1>13, <4>2, <4>3 DEF Activation!CheckOne, Activation!Probe
      
      <3>2. /\ deadline <= attempt * MaxTimeout /\ attempt \in 1..2
            /\ deadline \in Nat /\ now \in Nat /\ readyAt \in Nat /\ readyAt <= now
            /\ tree.policy.settle \in Nat
            /\ (phase \in {"report", "check"} => now >= readyAt + tree.policy.settle)
        BY <1>0, <1>13, WorkingPolicy, Numbers DEF Activation!CheckOne, Timed, Working,
           Activation!TypeOK
      <3>3. attempt * MaxTimeout \in Nat
        BY <3>2, Numbers
      <3>4. now' <= attempt * MaxTimeout
        BY <3>1, <3>2, <3>3
      <3>5. /\ phase' = phase /\ phase = "check" /\ readyAt' = readyAt /\ deadline' = deadline
            /\ attempt' = attempt /\ tree' = tree
        BY <1>13 DEF Activation!CheckOne, Activation!Stay, Activation!Same
      <3>6. readyAt' <= now' /\ (phase \in {"report",
      "check"} => now' >= readyAt' + tree.policy.settle)
        BY <3>1, <3>2, <3>5
      <3> QED
        BY <3>1, <3>2, <3>4, <3>5, <3>6 DEF Timed, Working
    <2>4. Reported'
      BY <1>0, <1>13 DEF Activation!TypeOK, Attempts, Reported, Passing,
         Activation!degraded_service_failures, Activation!Policy, Activation!CheckOne,
         Activation!Probe, Activation!Takes, Activation!Stay, Activation!Fails, Activation!Same,
         Activation!remaining_timeout, Activation!command_timeout
    <2>5. Seen'
      <3> SUFFICES ASSUME failures' = {}, NEW x \in tree.policy.required, x \notin todo'
                   PROVE  seenAt'[<<Activation!RuntimeMode(tree, x),
                   x>>] >= readyAt + tree.policy.settle
        <4>1. tree' = tree /\ readyAt' = readyAt /\ phase' = "check"
          BY <1>13 DEF Activation!CheckOne, Activation!Stay, Activation!Same
        <4>2. \A x : Activation!RuntimeMode(tree, x)' = Activation!RuntimeMode(tree, x)
          BY <4>1 DEF Activation!RuntimeMode, Activation!ServicesOf, Activation!Range
        <4> QED
          BY <4>1, <4>2 DEF Seen, Passing
      <3>1. failures = {} /\ phase = "check"
        BY <1>13 DEF Activation!CheckOne, Activation!Fails
      <3>2. /\ \E d \in 0..Activation!command_timeout : Activation!Takes(d)
            /\ seenAt' = [seenAt EXCEPT ![<<Activation!RuntimeMode(tree, s), s>>] = now']
        BY <1>13 DEF Activation!CheckOne, Activation!Fails, Activation!Probe
      <3>3. CASE x = s
        <4>1. <<Activation!RuntimeMode(tree, s), s>> \in Activation!Pairs
          BY <1>0, RuntimeModeIsOne DEF Activation!TypeOK, Activation!Pairs
        <4>2. seenAt'[<<Activation!RuntimeMode(tree, s), s>>] = now'
          BY <1>0, <3>2, <4>1 DEF Activation!TypeOK
        <4>3. now \in Nat /\ deadline \in Nat /\ readyAt \in Nat /\ tree.policy.settle \in Nat
              /\ now >= readyAt + tree.policy.settle
          BY <1>0, <3>1, WorkingPolicy, Numbers DEF Activation!TypeOK, Timed, Working
        <4>4. now' \in Nat /\ now <= now'
          BY <3>2, <4>3, TakesTime
        <4> QED
          BY <3>3, <4>2, <4>3, <4>4
      <3>4. CASE x # s
        <4>1. x \notin todo
          BY <1>13, <3>4 DEF Activation!CheckOne, Activation!Stay
        <4>2. seenAt[<<Activation!RuntimeMode(tree, x), x>>] >= readyAt + tree.policy.settle
          BY <1>0, <3>1, <4>1 DEF Seen, Passing
        <4>3. seenAt'[<<Activation!RuntimeMode(tree, x),
        x>>] = seenAt[<<Activation!RuntimeMode(tree, x), x>>]
          BY <1>0, <3>2, <3>4 DEF Activation!TypeOK
        <4> QED
          BY <4>2, <4>3
      <3> QED
        BY <3>3, <3>4
    <2> QED
      BY <2>1, <2>2, <2>3, <2>4, <2>5 DEF ActivationInv
  <1>14. CASE UNCHANGED Activation!vars
    BY <1>0, <1>14 DEF ActivationInv, Activation!TypeOK, Attempts, Timed, Reported, Seen,
       Passing, Activation!vars, Activation!degraded_service_failures, Activation!Policy
  <1> QED
    BY <1>0, <1>1, <1>2, <1>3, <1>4, <1>5, <1>6, <1>7, <1>8, <1>9, <1>10, <1>11, <1>12, <1>13,
       <1>14
       DEF Activation!Next

LEMMA ActivationSays == ActivationInv =>
    /\ Activation!TypeOK /\ Activation!EndsInTime /\ Activation!PolicyNotRefused
    /\ Activation!HealthyWhenApplied /\ Activation!DegradedWhenAllowed
  <1> SUFFICES ASSUME ActivationInv
               PROVE  /\ Activation!EndsInTime /\ Activation!PolicyNotRefused
                      /\ Activation!HealthyWhenApplied /\ Activation!DegradedWhenAllowed
    BY DEF ActivationInv
  <1>0. Activation!TypeOK /\ Attempts /\ Timed /\ Reported /\ Seen
    BY DEF ActivationInv
  <1>1. Activation!EndsInTime
    BY <1>0 DEF Activation!EndsInTime, Timed, Working
  <1>2. Activation!PolicyNotRefused
    BY <1>0 DEF Activation!PolicyNotRefused, Attempts
  <1>3. Activation!HealthyWhenApplied
    <2> SUFFICES ASSUME outcome = "applied", NEW s \in tree.policy.required,
                        Activation!Unambiguous(tree, s), NEW m \in Activation!ModesOf(tree, s)
                 PROVE  seenAt[<<m, s>>] >= readyAt + tree.policy.settle
      BY DEF Activation!HealthyWhenApplied
    <2>1. seenAt[<<Activation!RuntimeMode(tree, s), s>>] >= readyAt + tree.policy.settle
      BY <1>0 DEF Seen, Passing, Attempts
    <2>2. s \in Activation!ServicesOf(tree) /\ tree \in Trees \cup LegacyTrees
      BY <1>0 DEF Activation!ModesOf, Activation!ServicesOf, Activation!TypeOK
    <2>3. Activation!RuntimeMode(tree, s) \in Activation!ModesOf(tree, s)
      BY <2>2, RuntimeModeIsOne
    <2>4. \A x, y \in Activation!ModesOf(tree, s) : x = y
      <3> DEFINE M == Activation!ModesOf(tree, s)
      <3>1. M \subseteq Activation!Modes /\ Cardinality(M) = 1
        <4>1. \A u \in Activation!Range(tree.units) : u.mode \in Activation!Modes
          <5>1. tree.units \in Seq([service : Activation!AllServices, mode : Activation!Modes])
            BY <2>2, Units
          <5> DEFINE U == [service : Activation!AllServices, mode : Activation!Modes]
          <5>2. \A u \in U : u.mode \in Activation!Modes
            OBVIOUS
          <5> HIDE DEF U
          <5>3. tree.units \in Seq(U)
            BY <5>1 DEF U
          <5> QED
            BY <5>2, <5>3 DEF Activation!Range
        <4>2. M \subseteq Activation!Modes
          BY <4>1 DEF Activation!ModesOf
        <4> QED
          BY <4>2 DEF Activation!Unambiguous, Activation!Cardinality, Cardinality,
                      Activation!IsFiniteSet, IsFiniteSet
      <3> HIDE DEF M
      <3>2. IsFiniteSet(M)
        <4>1. IsFiniteSet(Activation!Modes)
          <5>1. Activation!Modes = {"rootful"} \cup {"rootless"}
            BY DEF Activation!Modes
          <5> QED
            BY <5>1, FS_Singleton, FS_AddElement
        <4> QED
          BY <3>1, <4>1, FS_Subset
      <3>3. \E z : M = {z}
        BY <3>1, <3>2, FS_Singleton
      <3> QED
        BY <3>3 DEF M
    <2> QED
      BY <2>1, <2>3, <2>4
  <1>4. Activation!DegradedWhenAllowed
    <2> SUFFICES ASSUME outcome = "applied", tree.policy.configured,
                        NEW s \in Activation!ServicesOf(tree),
                        s \notin tree.policy.required \cup tree.policy.allow_degraded
                 PROVE  s \in DOMAIN statuses /\ statuses[s] = "running"
      BY DEF Activation!DegradedWhenAllowed
    <2>1. tree \in Trees /\ tree.policy.strict
      BY <1>0, RequestConstants DEF Attempts, Activation!ActivationConstants
    <2>2. s \in DOMAIN statuses /\ Activation!degraded_service_failures = {}
      BY <1>0 DEF Reported, Passing, Attempts
    <2> QED
      BY <2>1, <2>2 DEF Activation!degraded_service_failures, Activation!Policy
  <1> QED
    BY <1>1, <1>2, <1>3, <1>4

\* Activation and rollback end in time; a policy that config.py accepted is not refused
\* when it is applied; an applied tree had every required container seen active after
\* the settle delay and every other one running unless it may be degraded
\* (run_activation_sequence, complete_reapply).
THEOREM ActivationIsSound == Spec => []ActivationSound
  <1> DEFINE Inv == part = "activation" => ActivationInv
  <1>1. Init => Inv
    BY ActivationInitially DEF Init
  <1>2. Inv /\ [Next]_vars => Inv'
    <2> SUFFICES ASSUME Inv, [Next]_vars, part' = "activation" PROVE ActivationInv'
      OBVIOUS
    <2>1. part = "activation" /\ [Activation!Next]_(Activation!vars)
      BY DEF Next, Sign, Update, Activate, vars, activation, Activation!vars
    <2> QED
      BY <2>1, ActivationStep
  <1>3. Inv => ActivationSound
    BY ActivationSays DEF ActivationSound
  <1> QED
    BY <1>1, <1>2, <1>3, PTL DEF Spec
-----------------------------------------------------------------------------
(* Partial updates *)

LEMMA OperationsConstants == GuardP!Upd!PartialConstants
  BY RequestConstants DEF Operations!PartialConstants, GuardP!Upd!PartialConstants,
     Operations!IsFiniteSet, GuardP!Upd!IsFiniteSet

LEMMA OperationsMerge == \A t, q : Operations!deep_merge(t, q) = GuardP!Upd!deep_merge(t, q)
  BY Zenon DEF Operations!deep_merge, GuardP!Upd!deep_merge, Operations!FoldSet,
     GuardP!Upd!FoldSet, Operations!MapThenFoldSet, GuardP!Upd!MapThenFoldSet,
     Operations!Items, GuardP!Upd!Items, Operations!IsStrictPrefix,
     GuardP!Upd!IsStrictPrefix, Operations!IsPrefix, GuardP!Upd!IsPrefix,
     Operations!IsTable, GuardP!Upd!IsTable, Operations!merge_item, GuardP!Upd!merge_item,
     Operations!Without, GuardP!Upd!Without, Operations!Grafted, GuardP!Upd!Grafted,
     Operations!Below, GuardP!Upd!Below

LEMMA OperationsNested == \A v : Operations!Nested(v) = GuardP!Upd!Nested(v)
  BY DEF Operations!Nested, GuardP!Upd!Nested, Operations!Paths, GuardP!Upd!Paths,
     Operations!BoundedSeq, GuardP!Upd!BoundedSeq, Operations!SeqOf, GuardP!Upd!SeqOf,
     Operations!WellFormed, GuardP!Upd!WellFormed, Operations!IsTable, GuardP!Upd!IsTable

LEMMA OperationsApply ==
    \A c, o : /\ Operations!apply_operation(c, o) = GuardP!Upd!apply_operation(c, o)
              /\ Operations!Renders(c, o) <=> GuardP!Upd!Renders(c, o)
  <1>1. \A c, o : Operations!apply_operation(c, o) = GuardP!Upd!apply_operation(c, o)
    BY OperationsMerge DEF Operations!apply_operation, GuardP!Upd!apply_operation,
       Operations!put_user, GuardP!Upd!put_user, Operations!delete_user,
       GuardP!Upd!delete_user, Operations!put_resource, GuardP!Upd!put_resource,
       Operations!delete_resource, GuardP!Upd!delete_resource, Operations!patch_network,
       GuardP!Upd!patch_network, Operations!Absent, GuardP!Upd!Absent
  <1> QED
    BY <1>1 DEF Operations!Renders, GuardP!Upd!Renders, Operations!Malformed,
       GuardP!Upd!Malformed, Operations!Serializable, GuardP!Upd!Serializable,
       Operations!Valid, GuardP!Upd!Valid, Operations!NoOp, GuardP!Upd!NoOp,
       Operations!Absent, GuardP!Upd!Absent

LEMMA OperationsRequests ==
    \A r, q : /\ Operations!request_operation(r, q) = GuardP!Upd!request_operation(r, q)
              /\ Operations!RouteOperation(r, q) = GuardP!Upd!RouteOperation(r, q)
  <1>1. \A r, q : Operations!request_operation(r, q) = GuardP!Upd!request_operation(r, q)
    BY DEF Operations!request_operation, GuardP!Upd!request_operation, Operations!NoOp,
       GuardP!Upd!NoOp
  <1> QED
    BY <1>1 DEF Operations!RouteOperation, GuardP!Upd!RouteOperation,
       Operations!put_partial_user, GuardP!Upd!put_partial_user,
       Operations!delete_partial_user, GuardP!Upd!delete_partial_user,
       Operations!patch_partial_network, GuardP!Upd!patch_partial_network,
       Operations!resource_route, GuardP!Upd!resource_route

LEMMA OperationsInit == Operations!Init => GuardP!Upd!Init
  BY OperationsNested DEF Operations!Init, GuardP!Upd!Init, Operations!Users,
     GuardP!Upd!Users, Operations!Absent, GuardP!Upd!Absent, Operations!NoOp,
     GuardP!Upd!NoOp

LEMMA OperationsNext == [Operations!Next]_(Operations!vars) => [GuardP!Upd!Next]_(GuardP!Upd!vars)
  <1>1. Operations!Route => GuardP!Upd!Route
    <2>1. \A r, q : Operations!Submit(r, q) => GuardP!Upd!Submit(r, q)
      BY OperationsApply, OperationsRequests DEF Operations!Submit, GuardP!Upd!Submit
    <2>2. Operations!Requests = GuardP!Upd!Requests /\ Operations!Patches = GuardP!Upd!Patches
      BY OperationsNested DEF Operations!Requests, GuardP!Upd!Requests, Operations!Patches,
         GuardP!Upd!Patches
    <2> QED
      BY <2>1, <2>2 DEF Operations!Route, GuardP!Upd!Route
  <1>2. \A c : Operations!FullApply(c) => GuardP!Upd!FullApply(c)
    BY DEF Operations!FullApply, GuardP!Upd!FullApply, Operations!Valid, GuardP!Upd!Valid,
       Operations!Absent, GuardP!Upd!Absent, Operations!NoOp, GuardP!Upd!NoOp
  <1>3. Operations!Neighbours = GuardP!Upd!Neighbours
    BY DEF Operations!Neighbours, GuardP!Upd!Neighbours, Operations!Absent,
       GuardP!Upd!Absent
  <1>4. Operations!WorkerApplies => GuardP!Upd!WorkerApplies
    BY OperationsApply, OperationsRequests DEF Operations!WorkerApplies,
       GuardP!Upd!WorkerApplies
  <1>5. Operations!WorkerRefuses => GuardP!Upd!WorkerRefuses
    BY OperationsApply, OperationsRequests DEF Operations!WorkerRefuses,
       GuardP!Upd!WorkerRefuses
  <1>6. Operations!ActivationFails => GuardP!Upd!ActivationFails
    BY DEF Operations!ActivationFails, GuardP!Upd!ActivationFails
  <1> QED
    BY <1>1, <1>2, <1>3, <1>4, <1>5, <1>6 DEF Operations!Next, GuardP!Upd!Next,
       Operations!vars, GuardP!Upd!vars

LEMMA OperationsSay ==
    ASSUME GuardP!UpdatesInv
    PROVE  /\ Operations!TypeOK /\ Operations!OnlyNamedChanges /\ Operations!RepeatIsHarmless
           /\ Operations!WorkerMatchesRoute /\ Operations!PatchMerges
  <1>0. /\ GuardP!Upd!TypeOK /\ GuardP!Upd!OnlyNamedChanges /\ GuardP!Upd!RepeatIsHarmless
        /\ GuardP!Upd!WorkerMatchesRoute /\ GuardP!Upd!PatchMerges
    BY OperationsConstants, GuardP!UpdatesSay
  <1>1. Operations!TypeOK
    BY <1>0 DEF Operations!TypeOK, GuardP!Upd!TypeOK, Operations!Valid, GuardP!Upd!Valid,
       Operations!Users, GuardP!Upd!Users, Operations!Resources, GuardP!Upd!Resources,
       Operations!WellFormed, GuardP!Upd!WellFormed, Operations!IsTable,
       GuardP!Upd!IsTable, Operations!Absent, GuardP!Upd!Absent
  <1>2. Operations!OnlyNamedChanges
    BY <1>0 DEF Operations!OnlyNamedChanges, GuardP!Upd!OnlyNamedChanges, Operations!Named,
       GuardP!Upd!Named, Operations!NamedResource, GuardP!Upd!NamedResource
  <1>3. Operations!RepeatIsHarmless
    BY <1>0, OperationsApply DEF Operations!RepeatIsHarmless, GuardP!Upd!RepeatIsHarmless,
       Operations!NoOp, GuardP!Upd!NoOp
  <1>4. Operations!WorkerMatchesRoute
    BY <1>0, OperationsRequests DEF Operations!WorkerMatchesRoute,
       GuardP!Upd!WorkerMatchesRoute, Operations!NoOp, GuardP!Upd!NoOp
  <1>5. Operations!PatchMerges
    BY <1>0 DEF Operations!PatchMerges, GuardP!Upd!PatchMerges, Operations!Merged,
       GuardP!Upd!Merged, Operations!MergedPaths, GuardP!Upd!MergedPaths,
       Operations!Hidden, GuardP!Upd!Hidden, Operations!IsPrefix, GuardP!Upd!IsPrefix
  <1> QED
    BY <1>1, <1>2, <1>3, <1>4, <1>5

LEMMA PatchesConstants == WorkerP!Upd!PartialConstants
  BY RequestConstants DEF Patches!PartialConstants, WorkerP!Upd!PartialConstants,
     Patches!IsFiniteSet, WorkerP!Upd!IsFiniteSet

LEMMA PatchesMerge == \A t, q : Patches!deep_merge(t, q) = WorkerP!Upd!deep_merge(t, q)
  BY Zenon DEF Patches!deep_merge, WorkerP!Upd!deep_merge, Patches!FoldSet,
     WorkerP!Upd!FoldSet, Patches!MapThenFoldSet, WorkerP!Upd!MapThenFoldSet,
     Patches!Items, WorkerP!Upd!Items, Patches!IsStrictPrefix, WorkerP!Upd!IsStrictPrefix,
     Patches!IsPrefix, WorkerP!Upd!IsPrefix, Patches!IsTable, WorkerP!Upd!IsTable,
     Patches!merge_item, WorkerP!Upd!merge_item, Patches!Without, WorkerP!Upd!Without,
     Patches!Grafted, WorkerP!Upd!Grafted, Patches!Below, WorkerP!Upd!Below

LEMMA PatchesNested == \A v : Patches!Nested(v) = WorkerP!Upd!Nested(v)
  BY DEF Patches!Nested, WorkerP!Upd!Nested, Patches!Paths, WorkerP!Upd!Paths,
     Patches!BoundedSeq, WorkerP!Upd!BoundedSeq, Patches!SeqOf, WorkerP!Upd!SeqOf,
     Patches!WellFormed, WorkerP!Upd!WellFormed, Patches!IsTable, WorkerP!Upd!IsTable

LEMMA PatchesApply ==
    \A c, o : /\ Patches!apply_operation(c, o) = WorkerP!Upd!apply_operation(c, o)
              /\ Patches!Renders(c, o) <=> WorkerP!Upd!Renders(c, o)
  <1>1. \A c, o : Patches!apply_operation(c, o) = WorkerP!Upd!apply_operation(c, o)
    BY PatchesMerge DEF Patches!apply_operation, WorkerP!Upd!apply_operation,
       Patches!put_user, WorkerP!Upd!put_user, Patches!delete_user,
       WorkerP!Upd!delete_user, Patches!put_resource, WorkerP!Upd!put_resource,
       Patches!delete_resource, WorkerP!Upd!delete_resource, Patches!patch_network,
       WorkerP!Upd!patch_network, Patches!Absent, WorkerP!Upd!Absent
  <1> QED
    BY <1>1 DEF Patches!Renders, WorkerP!Upd!Renders, Patches!Malformed,
       WorkerP!Upd!Malformed, Patches!Serializable, WorkerP!Upd!Serializable,
       Patches!Valid, WorkerP!Upd!Valid, Patches!NoOp, WorkerP!Upd!NoOp, Patches!Absent,
       WorkerP!Upd!Absent

LEMMA PatchesRequests ==
    \A r, q : /\ Patches!request_operation(r, q) = WorkerP!Upd!request_operation(r, q)
              /\ Patches!RouteOperation(r, q) = WorkerP!Upd!RouteOperation(r, q)
  <1>1. \A r, q : Patches!request_operation(r, q) = WorkerP!Upd!request_operation(r, q)
    BY DEF Patches!request_operation, WorkerP!Upd!request_operation, Patches!NoOp,
       WorkerP!Upd!NoOp
  <1> QED
    BY <1>1 DEF Patches!RouteOperation, WorkerP!Upd!RouteOperation,
       Patches!put_partial_user, WorkerP!Upd!put_partial_user, Patches!delete_partial_user,
       WorkerP!Upd!delete_partial_user, Patches!patch_partial_network,
       WorkerP!Upd!patch_partial_network, Patches!resource_route,
       WorkerP!Upd!resource_route

LEMMA PatchesInit == Patches!Init => WorkerP!Upd!Init
  BY PatchesNested DEF Patches!Init, WorkerP!Upd!Init, Patches!Users, WorkerP!Upd!Users,
     Patches!Absent, WorkerP!Upd!Absent, Patches!NoOp, WorkerP!Upd!NoOp

LEMMA PatchesNext == [Patches!Next]_(Patches!vars) => [WorkerP!Upd!Next]_(WorkerP!Upd!vars)
  <1>1. Patches!Route => WorkerP!Upd!Route
    <2>1. \A r, q : Patches!Submit(r, q) => WorkerP!Upd!Submit(r, q)
      BY PatchesApply, PatchesRequests DEF Patches!Submit, WorkerP!Upd!Submit
    <2>2. Patches!Requests = WorkerP!Upd!Requests /\ Patches!Patches = WorkerP!Upd!Patches
      BY PatchesNested DEF Patches!Requests, WorkerP!Upd!Requests, Patches!Patches,
         WorkerP!Upd!Patches
    <2> QED
      BY <2>1, <2>2 DEF Patches!Route, WorkerP!Upd!Route
  <1>2. \A c : Patches!FullApply(c) => WorkerP!Upd!FullApply(c)
    BY DEF Patches!FullApply, WorkerP!Upd!FullApply, Patches!Valid, WorkerP!Upd!Valid,
       Patches!Absent, WorkerP!Upd!Absent, Patches!NoOp, WorkerP!Upd!NoOp
  <1>3. Patches!Neighbours = WorkerP!Upd!Neighbours
    BY DEF Patches!Neighbours, WorkerP!Upd!Neighbours, Patches!Absent, WorkerP!Upd!Absent
  <1>4. Patches!WorkerApplies => WorkerP!Upd!WorkerApplies
    BY PatchesApply, PatchesRequests DEF Patches!WorkerApplies, WorkerP!Upd!WorkerApplies
  <1>5. Patches!WorkerRefuses => WorkerP!Upd!WorkerRefuses
    BY PatchesApply, PatchesRequests DEF Patches!WorkerRefuses, WorkerP!Upd!WorkerRefuses
  <1>6. Patches!ActivationFails => WorkerP!Upd!ActivationFails
    BY DEF Patches!ActivationFails, WorkerP!Upd!ActivationFails
  <1> QED
    BY <1>1, <1>2, <1>3, <1>4, <1>5, <1>6 DEF Patches!Next, WorkerP!Upd!Next, Patches!vars,
       WorkerP!Upd!vars

LEMMA PatchesSay ==
    ASSUME WorkerP!UpdatesInv
    PROVE  /\ Patches!TypeOK /\ Patches!OnlyNamedChanges /\ Patches!RepeatIsHarmless
           /\ Patches!WorkerMatchesRoute /\ Patches!PatchMerges
  <1>0. /\ WorkerP!Upd!TypeOK /\ WorkerP!Upd!OnlyNamedChanges /\ WorkerP!Upd!RepeatIsHarmless
        /\ WorkerP!Upd!WorkerMatchesRoute /\ WorkerP!Upd!PatchMerges
    BY PatchesConstants, WorkerP!UpdatesSay
  <1>1. Patches!TypeOK
    BY <1>0 DEF Patches!TypeOK, WorkerP!Upd!TypeOK, Patches!Valid, WorkerP!Upd!Valid,
       Patches!Users, WorkerP!Upd!Users, Patches!Resources, WorkerP!Upd!Resources,
       Patches!WellFormed, WorkerP!Upd!WellFormed, Patches!IsTable, WorkerP!Upd!IsTable,
       Patches!Absent, WorkerP!Upd!Absent
  <1>2. Patches!OnlyNamedChanges
    BY <1>0 DEF Patches!OnlyNamedChanges, WorkerP!Upd!OnlyNamedChanges, Patches!Named,
       WorkerP!Upd!Named, Patches!NamedResource, WorkerP!Upd!NamedResource
  <1>3. Patches!RepeatIsHarmless
    BY <1>0, PatchesApply DEF Patches!RepeatIsHarmless, WorkerP!Upd!RepeatIsHarmless,
       Patches!NoOp, WorkerP!Upd!NoOp
  <1>4. Patches!WorkerMatchesRoute
    BY <1>0, PatchesRequests DEF Patches!WorkerMatchesRoute,
       WorkerP!Upd!WorkerMatchesRoute, Patches!NoOp, WorkerP!Upd!NoOp
  <1>5. Patches!PatchMerges
    BY <1>0 DEF Patches!PatchMerges, WorkerP!Upd!PatchMerges, Patches!Merged,
       WorkerP!Upd!Merged, Patches!MergedPaths, WorkerP!Upd!MergedPaths, Patches!Hidden,
       WorkerP!Upd!Hidden, Patches!IsPrefix, WorkerP!Upd!IsPrefix
  <1> QED
    BY <1>1, <1>2, <1>3, <1>4, <1>5

\* The invariant of the part that is followed
UpdatingInv ==
    /\ part = "operations" => GuardP!UpdatesInv
    /\ part = "patches" => WorkerP!UpdatesInv

LEMMA UpdatingAlways == Spec => []UpdatingInv
  <1>1. Init => UpdatingInv
    <2>1. ASSUME Init, part = "operations" PROVE GuardP!UpdatesInv
      <3>1. GuardP!Upd!Init
        BY <2>1, OperationsInit DEF Init
      <3> QED
        BY <3>1, OperationsConstants, GuardP!UpdatesInit
    <2>2. ASSUME Init, part = "patches" PROVE WorkerP!UpdatesInv
      <3>1. WorkerP!Upd!Init
        BY <2>2, PatchesInit DEF Init
      <3> QED
        BY <3>1, PatchesConstants, WorkerP!UpdatesInit
    <2> QED
      BY <2>1, <2>2 DEF UpdatingInv
  <1>2. UpdatingInv /\ [Next]_vars => UpdatingInv'
    <2> SUFFICES ASSUME UpdatingInv, [Next]_vars PROVE UpdatingInv'
      OBVIOUS
    <2>1. ASSUME part' = "operations" PROVE GuardP!UpdatesInv'
      <3>1. part = "operations" /\ [Operations!Next]_(Operations!vars)
        BY <2>1 DEF Next, Sign, Update, Activate, vars, partial, Operations!vars
      <3>2. [GuardP!Upd!Next]_(GuardP!Upd!vars)
        BY <3>1, OperationsNext
      <3> QED
        BY <3>1, <3>2, OperationsConstants, GuardP!UpdatesStep DEF UpdatingInv
    <2>2. ASSUME part' = "patches" PROVE WorkerP!UpdatesInv'
      <3>1. part = "patches" /\ [Patches!Next]_(Patches!vars)
        BY <2>2 DEF Next, Sign, Update, Activate, vars, partial, Patches!vars
      <3>2. [WorkerP!Upd!Next]_(WorkerP!Upd!vars)
        BY <3>1, PatchesNext
      <3> QED
        BY <3>1, <3>2, PatchesConstants, WorkerP!UpdatesStep DEF UpdatingInv
    <2> QED
      BY <2>1, <2>2 DEF UpdatingInv
  <1> QED
    BY <1>1, <1>2, PTL DEF Spec

\* A partial update is applied to whatever configuration the worker finds, changes only
\* the user, resource or table its path names and leaves a configuration load_config
\* accepts; the worker derives from the signed request what the route staged, or refuses;
\* and an update that is repeated, a PATCH too, changes nothing more (_request_operation,
\* apply_operation).
THEOREM UpdatesAreSound == Spec => []UpdatesSound
  <1>1. UpdatingInv => UpdatesSound
    BY OperationsSay, PatchesSay DEF UpdatingInv, UpdatesSound
  <1> QED
    BY <1>1, UpdatingAlways, PTL

\* The loop and the recursion of _deep_merge, whatever the order of the items, give the merge
\* that a PATCH promises path by path.
THEOREM AppliedPatchMerges == Spec => []PatchMerges
  <1>1. UpdatingInv => PatchMerges
    BY OperationsSay, PatchesSay DEF UpdatingInv, PatchMerges
  <1> QED
    BY <1>1, UpdatingAlways, PTL
=============================================================================
