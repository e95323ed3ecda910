---------------------------- MODULE AtomicApply ----------------------------
(***************************************************************************)
(* What the privileged apply path promises its callers, without disks,     *)
(* markers, receipts or recovery: the device holds one configuration,      *)
(* a job replaces it in a single step or not at all, and the verdict that  *)
(* is published for a job says which of the two happened.                  *)
(***************************************************************************)
CONSTANTS
    Jobs,       \* job ids; a job carries the configuration of the same name
    Base,       \* a configuration that no job carries
    None        \* no configuration / no job

VARIABLES
    store,      \* the configuration the device would run after a recovery
    job,        \* the job being worked on
    verdict     \* the published result of each job of this boot

vars == <<store, job, verdict>>

NoVerdict == [j \in Jobs |-> "none"]

Init ==
    /\ store \in {None, Base}
    /\ job = None
    /\ verdict = NoVerdict

\* A job is taken up.
Take(j) ==
    /\ job = None
    /\ verdict[j] = "none"
    /\ job' = j
    /\ UNCHANGED <<store, verdict>>

\* The only step that changes the configuration.
Commit ==
    /\ job # None
    /\ verdict[job] = "none"
    /\ store' = job
    /\ UNCHANGED <<job, verdict>>

\* The verdict tells what became of the job.
Report ==
    /\ job # None
    /\ verdict[job] = "none"
    /\ verdict' = [verdict EXCEPT ![job] = IF store = job THEN "succeeded" ELSE "failed"]
    /\ UNCHANGED <<store, job>>

Finish ==
    /\ job # None
    /\ verdict[job] # "none"
    /\ job' = None
    /\ UNCHANGED <<store, verdict>>

\* Jobs and verdicts live in /run; only the configuration survives a reboot.
Reboot ==
    /\ job' = None
    /\ verdict' = NoVerdict
    /\ UNCHANGED store

Next ==
    \/ \E j \in Jobs : Take(j)
    \/ Commit
    \/ Report
    \/ Finish
    \/ Reboot

Spec == Init /\ [][Next]_vars
=============================================================================
