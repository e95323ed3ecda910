--------------------------- MODULE MCApplyRequest --------------------------
(***************************************************************************)
(* The three stretches of a configuration request's way: the signature,    *)
(* checked by the API's guard and again by the worker; the operation of a  *)
(* partial update, computed by the route and again by the worker; and the  *)
(* activation of the promoted tree.  Each ends before the next begins and  *)
(* they share no variable, so a behaviour follows one of them (part) and   *)
(* leaves the others as they start.  Two stretches are followed with two   *)
(* sets of bounds each: "guard" has more handlers and nonces, "worker"     *)
(* more jobs; "operations" has more names, "patches" larger tables.        *)
(***************************************************************************)
EXTENDS Integers, FiniteSets, Sequences, TLC

CONSTANTS
    GuardHandlers, WorkerHandlers,
    MaxOutstanding, PerClient,
    MaxFaults,          \* bound: API restarts, reboots and killed workers
    CommandCap, MaxTimeout, MaxSettle,
    ServiceChanges,     \* bound: services that change on their own
    \* the two sets of bounds of PartialUpdates
    OpKeys, OpDepth, OpScalars, OpNames, OpTables, OpChanges,
    PatchKeys, PatchDepth, PatchScalars, PatchNames, PatchTables, PatchChanges

VARIABLES
    part,
    \* SignedApply
    boot, token, store, expired, sent, handler, accepted, queue, worker, used, signers,
    applied, faults,
    \* PartialUpdates
    config, staged, result, base, last, updates,
    \* ActivationSequence
    tree, rback, attempt, phase, now, deadline, live, todo, failures, statuses, readyAt,
    seenAt, outcome, changes

-----------------------------------------------------------------------------
(* Request 1 is signed with key k1 and hands over to k2; request 2 is       *)
(* signed with k2 and trusts both.                                         *)

Requests == {1, 2}
AdminKeys == {"k1", "k2"}
KeyOf == <<"k1", "k2">>
SignersOf == <<{"k2"}, {"k1", "k2"}>>
Clients == {"alice", "bob"}
ClientOf == <<"alice", "bob">>

Guard == INSTANCE SignedApply
    WITH Keys <- AdminKeys, Handlers <- GuardHandlers, MaxNonces <- 3, MaxQueue <- 1,
         MaxApplied <- 1

Worker == INSTANCE SignedApply
    WITH Keys <- AdminKeys, Handlers <- WorkerHandlers, MaxNonces <- 2, MaxQueue <- 1,
         MaxApplied <- 3

-----------------------------------------------------------------------------
Operations == INSTANCE PartialUpdates
    WITH Keys <- OpKeys, MaxDepth <- OpDepth, Scalars <- OpScalars, Names <- OpNames,
         Tables <- OpTables, MaxChanges <- OpChanges, changes <- updates

Patches == INSTANCE PartialUpdates
    WITH Keys <- PatchKeys, MaxDepth <- PatchDepth, Scalars <- PatchScalars,
         Names <- PatchNames, Tables <- PatchTables, MaxChanges <- PatchChanges,
         changes <- updates

-----------------------------------------------------------------------------
Unit(s, m) == [service |-> s, mode |-> m]
Tree(us, cs, req, res, deg, set, t, s) ==
    [units |-> us, containers |-> cs,
     policy |-> [required |-> req, restart |-> res, allow_degraded |-> deg,
                 configured |-> set, strict |-> TRUE, timeout |-> t, settle |-> s]]

\* A rootless and a rootful container, and the rootful volume of the first
AB == <<Unit("a", "rootless"), Unit("b", "rootful"), Unit("a-volume", "rootful")>>
DefaultTree == Tree(AB, {"a", "b"}, {"a", "b"}, {}, {}, FALSE, 3, 0)

Trees == {
    DefaultTree,
    Tree(AB, {"a", "b"}, {"a"}, {"a", "b"}, {"b"}, TRUE, 4, 1),
    Tree(AB, {"a", "b"}, {"b"}, {"b"}, {}, TRUE, 2, 3),
    Tree(AB, {"a", "b"}, {"a"}, {"a-volume"}, {"b"}, TRUE, 2, 0),
    Tree(AB, {"a", "b"}, {"a"}, {"c"}, {"b"}, TRUE, 2, 0) }

\* health-required.json only: any unit, none of them strict
LegacyTrees == {
    [units |-> <<Unit("a", "rootless")>>, containers |-> {"a"},
     policy |-> [required |-> {"a", "sshd"}, restart |-> {}, allow_degraded |-> {},
                 configured |-> FALSE, strict |-> FALSE, timeout |-> 4, settle |-> 0]] }

Activation == INSTANCE ActivationSequence WITH MaxChanges <- ServiceChanges

-----------------------------------------------------------------------------
ASSUME RequestConstants ==
    /\ Guard!SignedApplyConstants /\ Worker!SignedApplyConstants
    /\ Operations!PartialConstants /\ Patches!PartialConstants
    /\ Activation!ActivationConstants

signed == <<boot, token, store, expired, sent, handler, accepted, queue, worker, used, signers,
            applied, faults>>
partial == <<config, staged, result, base, last, updates>>
activation == <<tree, rback, attempt, phase, now, deadline, live, todo, failures, statuses,
                readyAt, seenAt, outcome, changes>>
vars == <<part, signed, partial, activation>>

\* A part that is not followed starts in one of its initial states.
Init ==
    /\ part \in {"guard", "worker", "operations", "patches", "activation"}
    /\ IF part = "guard" THEN Guard!Init ELSE Worker!Init
    /\ IF part = "patches" THEN Patches!Init ELSE Operations!Init
    /\ part \notin {"operations", "patches"} =>
         /\ config.required = {} /\ DOMAIN config.network = {}
         /\ \A n \in DOMAIN config.users : config.users[n] = "admin"
    /\ Activation!Init
    /\ part # "activation" => tree = DefaultTree /\ rback = Activation!NoTree

Sign ==
    /\ \/ part = "guard" /\ Guard!Next
       \/ part = "worker" /\ Worker!Next
    /\ UNCHANGED <<part, partial, activation>>

Update ==
    /\ \/ part = "operations" /\ Operations!Next
       \/ part = "patches" /\ Patches!Next
    /\ UNCHANGED <<part, signed, activation>>

Activate == part = "activation" /\ Activation!Next /\ UNCHANGED <<part, signed, partial>>

Next == Sign \/ Update \/ Activate

Spec == Init /\ [][Next]_vars

HandlerSymmetry == Permutations(GuardHandlers)

-----------------------------------------------------------------------------
(* Properties *)

\* A signed request takes effect at most once, across API restarts, reboots and
\* whatever is staged again, and the nonce store stays within its limits.
AppliedOnce ==
    /\ part = "guard" => Guard!TypeOK /\ Guard!AppliedOnce /\ Guard!StoreBound
    /\ part = "worker" => Worker!TypeOK /\ Worker!AppliedOnce /\ Worker!StoreBound

\* A request takes effect only under the signature of a key that the replaced
\* configuration trusts: a key revoked while the job waits no longer counts.
AppliedByTrustedKey ==
    part \in {"guard", "worker"} => Worker!AppliedByTrustedKey

\* The guard lets a nonce pass once, although duplicates of one message are in several
\* handlers; a client that asks for too many nonces loses its own, never another's.
NoncesSound ==
    [][part = "guard" => Guard!NonceAcceptedOnce /\ Guard!OthersKeepTheirNonces]_vars

\* A partial update changes the one thing its path names, on whatever configuration the
\* worker finds; repeating it changes nothing more; and the worker derives from the
\* signed request the operation that the route staged, or refuses.
UpdatesSound ==
    /\ part = "operations" =>
         /\ Operations!TypeOK /\ Operations!OnlyNamedChanges
         /\ Operations!RepeatIsHarmless /\ Operations!WorkerMatchesRoute
    /\ part = "patches" => Patches!TypeOK /\ Patches!RepeatIsHarmless

\* A PATCH that was applied gave, path by path, the merge of the table it found.
PatchMerges ==
    /\ part = "operations" => Operations!PatchMerges
    /\ part = "patches" => Patches!PatchMerges

\* Activation and rollback end in time; a policy that was accepted is not refused when it
\* is applied; an applied tree had every required container seen active after the
\* settle delay, and every other one running unless it may be degraded.
ActivationSound ==
    part = "activation" =>
        /\ Activation!TypeOK /\ Activation!EndsInTime /\ Activation!PolicyNotRefused
        /\ Activation!HealthyWhenApplied /\ Activation!DegradedWhenAllowed
=============================================================================
