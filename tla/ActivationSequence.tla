------------------------- MODULE ActivationSequence ------------------------
(***************************************************************************)
(* run_activation_sequence: the hook, the policy's restarts, the settle    *)
(* delay, the status report and the health checks, all under one deadline, *)
(* and complete_reapply, which runs it again for the rollback tree when    *)
(* the new one fails.  Services start and stop on their own meanwhile.     *)
(*                                                                         *)
(* A tree is the units of its quadlet-runtime.json in order (containers    *)
(* come first), its container services and its activation policy.          *)
(***************************************************************************)
EXTENDS Integers, Sequences, FiniteSets

CONSTANTS
    Trees,          \* trees an operator may send: units, containers, policy
    LegacyTrees,    \* trees without activation-policy.json, written by an older image
    CommandCap,     \* seconds one systemctl call may take at most
    MaxTimeout,     \* largest timeout_seconds
    MaxSettle,      \* largest settle_seconds
    MaxChanges      \* bound: services that change on their own

NoTree == [units |-> <<>>, containers |-> {},
           policy |-> [required |-> {}, restart |-> {}, allow_degraded |-> {},
                       configured |-> FALSE, strict |-> FALSE,
                       timeout |-> MaxTimeout, settle |-> 0]]

VARIABLES
    tree, rback,    \* the tree being activated and the rollback tree
    attempt,        \* 1: the new tree, 2: the restored one
    phase,          \* policy, hook, restart, settle, report, check, verdict or done
    now, deadline,
    live,           \* <<mode, service>> pairs that are active
    todo,           \* what the loop of the phase has left
    failures,       \* what the sequence has collected
    statuses,       \* report_runtime_services: status per service
    readyAt,        \* history: when hook and restarts had ended
    seenAt,         \* history: when the check saw <<mode, service>> active, or -1
    outcome,        \* none, applied, restored or failed
    changes

vars == <<tree, rback, attempt, phase, now, deadline, live, todo, failures,
          statuses, readyAt, seenAt, outcome, changes>>

Modes == {"rootful", "rootless"}
Range(seq) == {seq[i] : i \in DOMAIN seq}
ServicesOf(t) == {u.service : u \in Range(t.units)}
AllServices == (UNION {ServicesOf(t) : t \in Trees \cup LegacyTrees})
                 \cup (UNION {t.policy.required : t \in LegacyTrees})
Pairs == Modes \X AllServices

Labels == {"policy", "hook", "restart timed out", "settle", "checks timed out"}

\* What the constants must satisfy; the module that instantiates this one assumes it.
\* A rendered tree has a unit for each of its containers; its activation-policy.json is
\* read strictly, and without that file the default policy restarts nothing.
ActivationConstants ==
    /\ CommandCap \in Nat \ {0} /\ MaxTimeout \in Nat \ {0}
    /\ MaxSettle \in Nat /\ MaxChanges \in Nat
    /\ NoTree \notin Trees \cup LegacyTrees
    /\ Labels \cap AllServices = {}
    /\ \A t \in Trees \cup LegacyTrees : t.units \in Seq([service : AllServices, mode : Modes])
    /\ \A t \in Trees : t.policy.strict /\ t.containers \subseteq ServicesOf(t)
    /\ \A t \in LegacyTrees : ~ t.policy.strict /\ t.policy.restart = {}

\* _load_runtime_unit_modes is a dictionary by service: the last unit decides.
RuntimeMode(t, s) ==
    IF s \notin ServicesOf(t) THEN "rootful"
    ELSE LET last == CHOOSE i \in DOMAIN t.units :
                        /\ t.units[i].service = s
                        /\ \A j \in DOMAIN t.units : t.units[j].service = s => j <= i
         IN t.units[last].mode

\* load_activation_policy of config.py: what a configuration must satisfy to be staged
Accepts(t) ==
    LET p == t.policy IN
    /\ p.required \cup p.restart \cup p.allow_degraded \subseteq t.containers
    /\ p.required \cap p.allow_degraded = {}
    /\ p.timeout \in 1..MaxTimeout /\ p.settle \in 0..MaxSettle

\* validate_runtime_activation_policy, on the rendered files
RuntimeValid(t) ==
    LET p == t.policy IN
    /\ p.strict => p.required \cup p.restart \cup p.allow_degraded \subseteq ServicesOf(t)
    /\ p.timeout \in 1..MaxTimeout /\ p.settle \in 0..MaxSettle

Init ==
    /\ tree \in {t \in Trees : Accepts(t)}
    /\ rback \in {t \in Trees : Accepts(t)} \cup LegacyTrees \cup {NoTree}
    /\ attempt = 1 /\ phase = "policy" /\ now = 0 /\ deadline = 0
    /\ live \in {{}, {<<u.mode, u.service>> : u \in Range(rback.units)}}
    /\ todo = {} /\ failures = {} /\ statuses = <<>>
    /\ readyAt = 0 /\ seenAt = [p \in Pairs |-> -1]
    /\ outcome = "none" /\ changes = 0

-----------------------------------------------------------------------------
Policy == tree.policy
remaining_timeout == IF deadline > now THEN deadline - now ELSE 0

\* After the deadline a call still gets a millisecond, which is no time here.
command_timeout == IF CommandCap < remaining_timeout THEN CommandCap ELSE remaining_timeout

Takes(d) == d \in 0..command_timeout /\ now' = now + d
Go(p, work) == phase' = p /\ todo' = work
Stay(s) == todo' = todo \ {s} /\ UNCHANGED phase
Fails(what) == failures' = failures \cup {what}
Same == UNCHANGED <<tree, rback, attempt, outcome>>

LoadPolicy ==
    /\ phase = "policy"
    /\ IF RuntimeValid(tree)
       THEN Go("hook", {}) /\ deadline' = now + Policy.timeout /\ UNCHANGED failures
       ELSE Go("verdict", {}) /\ Fails("policy") /\ UNCHANGED deadline
    /\ Same /\ UNCHANGED <<now, live, statuses, readyAt, seenAt, changes>>

\* activate_services: the script runs apply-users, quadlet-sync and the network units
\* and leaves any of the tree's services up; it fails or runs into its timeout.
Hook ==
    /\ phase = "hook"
    /\ \E d \in 0..Policy.timeout, up \in SUBSET {<<u.mode, u.service>> : u \in Range(tree.units)} :
        /\ now' = now + d /\ live' = up
        /\ \/ d < Policy.timeout /\ Go("restart", Policy.restart) /\ UNCHANGED failures
           \/ Go("verdict", {}) /\ Fails("hook")
    /\ readyAt' = now'
    /\ Same /\ UNCHANGED <<deadline, statuses, seenAt, changes>>

\* restart_activation_services: one service of the list
RestartOne(s) ==
    /\ phase = "restart" /\ s \in todo /\ remaining_timeout > 0
    /\ \E d \in 0..command_timeout :
        /\ Takes(d) /\ Stay(s)
        /\ \/ d < command_timeout /\ live' = live \cup {<<RuntimeMode(tree, s), s>>}
              /\ UNCHANGED failures
           \/ live' = live \ {<<RuntimeMode(tree, s), s>>} /\ Fails(s)
    /\ readyAt' = now'
    /\ Same /\ UNCHANGED <<deadline, statuses, seenAt, changes>>

RestartTimesOut ==
    /\ phase = "restart" /\ todo # {} /\ remaining_timeout = 0
    /\ Go("restart", {}) /\ Fails("restart timed out")
    /\ Same /\ UNCHANGED <<now, deadline, live, statuses, readyAt, seenAt, changes>>

RestartsDone ==
    /\ phase = "restart" /\ todo = {}
    /\ Go(IF failures # {} THEN "verdict" ELSE "settle", {})
    /\ Same /\ UNCHANGED <<now, deadline, live, failures, statuses, readyAt, seenAt, changes>>

Settle ==
    /\ phase = "settle"
    /\ IF Policy.settle > remaining_timeout
       THEN Go("verdict", {}) /\ Fails("settle") /\ UNCHANGED now
       ELSE Go("report", ServicesOf(tree)) /\ now' = now + Policy.settle /\ UNCHANGED failures
    /\ Same /\ UNCHANGED <<deadline, live, statuses, readyAt, seenAt, changes>>

\* _check_service: the state of the service, or unknown when the call times out
Probe(pair, d, status) ==
    /\ Takes(d)
    /\ \/ status = (IF pair \in live THEN "running" ELSE "failed")
       \/ status = "unknown" /\ d = command_timeout

\* report_runtime_services: the entries of one service; the last one stays
ReportOne(s) ==
    /\ phase = "report" /\ s \in todo
    /\ \E d \in 0..command_timeout, status \in {"running", "failed", "unknown"} :
        /\ Probe(<<RuntimeMode(tree, s), s>>, d, status)
        /\ statuses' = [x \in DOMAIN statuses \cup {s} |-> IF x = s THEN status ELSE statuses[x]]
    /\ Stay(s)
    /\ Same /\ UNCHANGED <<deadline, live, failures, readyAt, seenAt, changes>>

degraded_service_failures == {s \in DOMAIN statuses :
    Policy.strict /\ Policy.configured /\ statuses[s] # "running"
    /\ s \notin Policy.required \cup Policy.allow_degraded}

ReportDone ==
    /\ phase = "report" /\ todo = {}
    /\ failures' = failures \cup degraded_service_failures
    /\ Go("check", Policy.required)
    /\ Same /\ UNCHANGED <<now, deadline, live, statuses, readyAt, seenAt, changes>>

\* Bug: a check that times out is taken for a pass.
CheckLenient(s) ==
    /\ phase = "check" /\ s \in todo /\ remaining_timeout > 0
    /\ \E d \in 0..command_timeout, status \in {"running", "failed", "unknown"} :
        LET pair == <<RuntimeMode(tree, s), s>> IN
        /\ Probe(pair, d, status)
        /\ IF status = "failed" THEN Fails(s) ELSE UNCHANGED failures
        /\ seenAt' = IF status = "running" THEN [seenAt EXCEPT ![pair] = now'] ELSE seenAt
    /\ Stay(s)
    /\ Same /\ UNCHANGED <<deadline, live, statuses, readyAt, changes>>

\* check_required_services: one service of the list
CheckOne(s) ==
    /\ phase = "check" /\ s \in todo /\ remaining_timeout > 0
    /\ IF Policy.strict /\ s \notin ServicesOf(tree)
       THEN Fails(s) /\ UNCHANGED <<now, seenAt>>
       ELSE \E d \in 0..command_timeout, status \in {"running", "failed", "unknown"} :
            LET pair == <<RuntimeMode(tree, s), s>> IN
            /\ Probe(pair, d, status)
            /\ IF status # "running" THEN Fails(s) ELSE UNCHANGED failures
            /\ seenAt' = IF status = "running" THEN [seenAt EXCEPT ![pair] = now'] ELSE seenAt
    /\ Stay(s)
    /\ Same /\ UNCHANGED <<deadline, live, statuses, readyAt, changes>>

CheckTimesOut ==
    /\ phase = "check" /\ todo # {} /\ remaining_timeout = 0
    /\ Go("check", {}) /\ Fails("checks timed out")
    /\ Same /\ UNCHANGED <<now, deadline, live, statuses, readyAt, seenAt, changes>>

ChecksDone ==
    /\ phase = "check" /\ todo = {}
    /\ Go("verdict", {})
    /\ Same /\ UNCHANGED <<now, deadline, live, failures, statuses, readyAt, seenAt, changes>>

\* complete_reapply: commit, or restore the rollback tree and activate it once.
Verdict ==
    /\ phase = "verdict"
    /\ \/ /\ failures = {} /\ Go("done", {})
          /\ outcome' = IF attempt = 1 THEN "applied" ELSE "restored"
          /\ UNCHANGED <<tree, attempt, failures, statuses, seenAt>>
       \/ /\ failures # {} /\ (attempt = 2 \/ rback = NoTree)
          /\ Go("done", {}) /\ outcome' = "failed"
          /\ UNCHANGED <<tree, attempt, failures, statuses, seenAt>>
       \/ /\ failures # {} /\ attempt = 1 /\ rback # NoTree
          /\ Go("policy", {}) /\ tree' = rback /\ attempt' = 2
          /\ failures' = {} /\ statuses' = <<>> /\ seenAt' = [p \in Pairs |-> -1]
          /\ UNCHANGED outcome
    /\ UNCHANGED <<rback, now, deadline, live, readyAt, changes>>

\* A service starts or stops on its own.
Change ==
    /\ phase \in {"restart", "settle", "report", "check"} /\ changes < MaxChanges
    /\ changes' = changes + 1
    /\ \E u \in Range(tree.units) : LET pair == <<u.mode, u.service>> IN
        live' = IF pair \in live THEN live \ {pair} ELSE live \cup {pair}
    /\ UNCHANGED <<tree, rback, attempt, phase, now, deadline, todo, failures,
                   statuses, readyAt, seenAt, outcome>>

Next ==
    \/ LoadPolicy \/ Hook \/ RestartTimesOut \/ RestartsDone \/ Settle \/ ReportDone
    \/ CheckTimesOut \/ ChecksDone \/ Verdict \/ Change
    \/ \E s \in AllServices : RestartOne(s) \/ ReportOne(s) \/ CheckOne(s)

Spec == Init /\ [][Next]_vars

-----------------------------------------------------------------------------
(* Properties *)

Statuses == {"running", "failed", "unknown"}

TypeOK ==
    /\ tree \in Trees \cup LegacyTrees /\ rback \in Trees \cup LegacyTrees \cup {NoTree}
    /\ attempt \in 1..2
    /\ phase \in {"policy", "hook", "restart", "settle", "report", "check", "verdict", "done"}
    /\ now \in Nat /\ deadline \in Nat /\ readyAt \in Nat
    /\ live \subseteq Pairs /\ todo \subseteq AllServices
    /\ failures \subseteq AllServices \cup Labels
    /\ DOMAIN statuses \subseteq ServicesOf(tree)
    /\ \A s \in DOMAIN statuses : statuses[s] \in Statuses
    /\ seenAt \in [Pairs -> -1..now]
    /\ outcome \in {"none", "applied", "restored", "failed"}
    /\ changes \in 0..MaxChanges

\* No step of a sequence runs past its deadline, so activation and rollback together
\* end within twice the largest timeout, inside the 7500 s of the worker's unit
\* (remaining_timeout, command_timeout and the test before the settle delay).
EndsInTime ==
    /\ phase \in {"restart", "settle", "report", "check"} => now <= deadline
    /\ now <= attempt * MaxTimeout

\* A policy the configuration loader accepted is never refused when it is applied: the
\* two validators agree on what a rendered tree may say.
PolicyNotRefused == attempt = 1 => "policy" \notin failures

\* Modes in which a tree has a unit of that service
ModesOf(t, s) == {u.mode : u \in {x \in Range(t.units) : x.service = s}}
Unambiguous(t, s) == Cardinality(ModesOf(t, s)) = 1

\* An applied tree had every required container seen active in its own mode, no earlier
\* than the settle delay after the last restart.  Left out are containers whose service
\* name another unit has in the other mode: RuntimeMode looks those up by the last unit.
HealthyWhenApplied ==
    outcome = "applied" =>
        \A s \in tree.policy.required : Unambiguous(tree, s) =>
            \A m \in ModesOf(tree, s) :
                seenAt[<<m, s>>] >= readyAt + tree.policy.settle

\* An applied tree that sets allow_degraded reported every other service running
\* (degraded_service_failures).
DegradedWhenAllowed ==
    outcome = "applied" /\ tree.policy.configured =>
        \A s \in ServicesOf(tree) :
            \/ s \in tree.policy.required \cup tree.policy.allow_degraded
            \/ s \in DOMAIN statuses /\ statuses[s] = "running"
=============================================================================
