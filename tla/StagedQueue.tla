---------------------------- MODULE StagedQueue ----------------------------
(***************************************************************************)
(* The staged job queue under /run/atomixos-provision: staging.py, the     *)
(* staging half of provision.py, and the result waiter that jobs.py and    *)
(* the command line share.                                                 *)
(*                                                                         *)
(* A client reserves a slot, renders the job into a private directory,     *)
(* renames it into the queue and publishes a ready marker; the root worker *)
(* claims the job with the lowest sequence, applies it (ConfigStore says   *)
(* how), publishes a result and removes the claim; a waiter polls for the  *)
(* result and, when its interval expires, may abandon a queued job.        *)
(*                                                                         *)
(* A section under queue.lock is one step.  What the code does without the *)
(* lock (renames, cleanup after an exception, removal of the claim) and    *)
(* separate sections of one function are separate steps, and any process   *)
(* may die between or inside them.                                         *)
(***************************************************************************)
EXTENDS Integers, FiniteSets

CONSTANTS
    Jobs,           \* job ids (UUIDs, never reused)
    Partial,        \* the jobs that are typed partial updates
    Local,          \* the jobs of command line clients, which stage and wait in one call
    MaxPending,     \* DEFAULT_MAX_STAGED_JOBS
    MaxFaults       \* bound: processes that die, and clients that fail once published

ASSUME StagedQueueConstants ==
    /\ IsFiniteSet(Jobs)
    /\ Partial \subseteq Jobs /\ Local \subseteq Jobs \ Partial
    /\ MaxPending \in Nat \ {0}
    /\ MaxFaults \in Nat

VARIABLES
    sequence,       \* queue/.sequence
    reserve, ready, \* <job>.reserve and <job>.ready: a sequence, 0 if missing
    stale,          \* reservations whose time stamp is older than the TTL
    staging,        \* the jobs with a private .<job>.staging directory
    queued, active, \* the jobs with a directory in queue/ and in active/
    results,        \* results/<job>.json
    stager,         \* where the client that stages the job is
    base,           \* the configuration version a partial update was computed on
    version,        \* versions committed to /data/config
    applied,        \* history: the jobs whose configuration was committed
    worker,         \* what the apply service is about to do
    waiter,         \* where the client that waits for the job's result is
    outcome,        \* what that client reports
    claimed,        \* history: the sequences of all claims
    faults

files == <<sequence, reserve, ready, stale, staging, queued>>
config == <<version, applied>>
client == <<stager, base>>
waiting == <<waiter, outcome>>
vars == <<files, active, results, client, config, worker, waiting, claimed, faults>>

Init ==
    /\ sequence = 0
    /\ reserve = [j \in Jobs |-> 0]
    /\ ready = [j \in Jobs |-> 0]
    /\ stale = {} /\ staging = {} /\ queued = {} /\ active = {}
    /\ results = [j \in Jobs |-> "none"]
    /\ stager = [j \in Jobs |-> "new"]
    /\ base = [j \in Jobs |-> 0]
    /\ version = 0
    /\ applied = {}
    /\ worker = "idle"
    /\ waiter = [j \in Jobs |-> "off"]
    /\ outcome = [j \in Jobs |-> "none"]
    /\ claimed = {}
    /\ faults = 0

-----------------------------------------------------------------------------
(* Queue directory under queue.lock *)

\* Mutant: expired reservations are kept.
SweepNothing == {}

\* _cleanup_stale_reservations_locked: expired reservations go, and with them
\* whatever their job had staged, unless it is published or claimed.
Swept == {j \in stale : reserve[j] > 0}
Unpublished == {j \in Swept : ready[j] = 0 /\ j \notin active}
SweptReserve == [j \in Jobs |-> IF j \in Swept THEN 0 ELSE reserve[j]]

\* Sweep leaves the reservations as r; the section that runs it may change them.
Sweep(r) ==
    /\ reserve' = r
    /\ stale' = stale \ Swept
    /\ staging' = staging \ Unpublished

\* Mutant: reservations are not counted.
CountedWithoutReservations(except) ==
    {j \in Jobs \ except : j \in active \/ j \in queued \ Unpublished}

\* _count_staged_jobs_locked: every job once, an unreserved directory included.
Counted(except) ==
    {j \in Jobs \ except : j \in active \/ j \in queued \ Unpublished \/ SweptReserve[j] > 0}

\* Mutant: nothing is ever ahead in the line.
NothingLower(n, marks) == FALSE

\* _has_lower_sequence_reservation_locked, for the reservations and ready markers left
Lower(n, marks) == \E k \in Jobs : marks[k] \in 1 .. n - 1

Presence(j) ==
    IF j \in active THEN "active"
    ELSE IF j \in queued \/ ready[j] > 0 THEN "queued"
    ELSE "missing"

-----------------------------------------------------------------------------
(* Staging *)

Goes(j, from, to) == stager[j] = from /\ stager' = [stager EXCEPT ![j] = to]

\* The client holds a place in the line and has published nothing yet.
Early == {"reserved", "checked", "loaded", "staging", "placed"}

\* reserve_staged_job_slot
ReserveSlot(j) ==
    /\ Goes(j, "new", "reserved")
    /\ Cardinality(Counted({})) < MaxPending
    /\ sequence' = sequence + 1
    /\ Sweep([SweptReserve EXCEPT ![j] = sequence + 1])
    /\ queued' = queued \ Unpublished
    /\ UNCHANGED <<ready, active, results, base, config, worker, waiting, claimed, faults>>

\* refresh_staged_job_slot, every heartbeat while the client stages
RefreshSlot(j) ==
    /\ stager[j] \in Early
    /\ j \in stale /\ reserve[j] > 0
    /\ stale' = stale \ {j}
    /\ UNCHANGED <<sequence, reserve, ready, staging, queued, active, results, client,
                   config, worker, waiting, claimed, faults>>

\* The TTL is compared with the wall clock, which NTP may step at any time.
SlotExpires(j) ==
    /\ reserve[j] > 0 /\ j \notin stale
    /\ stale' = stale \cup {j}
    /\ UNCHANGED <<sequence, reserve, ready, staging, queued, active, results, client,
                   config, worker, waiting, claimed, faults>>

\* Mutant: the queue is not checked.
RequireNothing(j) ==
    /\ j \in Partial
    /\ Goes(j, "reserved", "checked")
    /\ UNCHANGED <<files, active, results, base, config, worker, waiting, claimed, faults>>

\* A partial update insists on an otherwise empty queue ...
RequireEmptyQueue(j) ==
    /\ j \in Partial
    /\ Goes(j, "reserved", IF Counted({j}) = {} THEN "checked" ELSE "failing")
    /\ Sweep(SweptReserve)
    /\ queued' = queued \ Unpublished
    /\ UNCHANGED <<sequence, ready, active, results, base, config, worker, waiting,
                   claimed, faults>>

\* ... and only then, outside the lock, reads the current configuration.
LoadCurrent(j) ==
    /\ Goes(j, "checked", "loaded")
    /\ base' = [base EXCEPT ![j] = version]
    /\ UNCHANGED <<files, active, results, config, worker, waiting, claimed, faults>>

\* _stage_prepared_sync: render into the private directory
RenderCandidate(j) ==
    /\ Goes(j, IF j \in Partial THEN "loaded" ELSE "reserved", "staging")
    /\ staging' = staging \cup {j}
    /\ UNCHANGED <<sequence, reserve, ready, stale, queued, active, results, base, config,
                   worker, waiting, claimed, faults>>

\* os.replace(staging, queue/job), without the lock; it fails if a sweep removed it
PlaceJob(j) ==
    /\ Goes(j, "staging", IF j \in staging THEN "placed" ELSE "failing")
    /\ staging' = staging \ {j}
    /\ queued' = IF j \in staging THEN queued \cup {j} ELSE queued
    /\ UNCHANGED <<sequence, reserve, ready, stale, active, results, base, config, worker,
                   waiting, claimed, faults>>

\* publish_ready_marker: the sweep may just have taken the job's own reservation.
PublishReady(j) ==
    /\ Goes(j, "placed", IF SweptReserve[j] > 0 THEN "published" ELSE "failing")
    /\ ready' = IF SweptReserve[j] > 0 THEN [ready EXCEPT ![j] = SweptReserve[j]] ELSE ready
    /\ Sweep([SweptReserve EXCEPT ![j] = 0])
    /\ queued' = queued \ Unpublished
    /\ waiter' = [waiter EXCEPT ![j] = IF SweptReserve[j] > 0 THEN "poll" ELSE @]
    /\ UNCHANGED <<sequence, active, results, base, config, worker, outcome, claimed, faults>>

\* The client dies between the ready marker and the removal of the reservation.  The job is
\* published, and the reservation nobody refreshes any more still stands in the line.
PublishDies(j) ==
    /\ faults < MaxFaults /\ faults' = faults + 1
    /\ SweptReserve[j] > 0
    /\ Goes(j, "placed", "published")
    /\ ready' = [ready EXCEPT ![j] = SweptReserve[j]]
    /\ Sweep(SweptReserve)
    /\ queued' = queued \ Unpublished
    /\ UNCHANGED <<sequence, active, results, base, config, worker, waiting, claimed>>

\* An error after the ready marker was written (the removal or the directory sync in
\* publish_ready_marker, the second removal, the progress report), with or without the
\* reservation: the client is in its except block although the job is published.
PublishFails(j) ==
    /\ faults < MaxFaults /\ faults' = faults + 1
    /\ SweptReserve[j] > 0
    /\ Goes(j, "placed", "failing")
    /\ ready' = [ready EXCEPT ![j] = SweptReserve[j]]
    /\ \E r \in {0, SweptReserve[j]} : Sweep([SweptReserve EXCEPT ![j] = r])
    /\ queued' = queued \ Unpublished
    /\ UNCHANGED <<sequence, active, results, base, config, worker, waiting, claimed>>

\* Any error while staging: the except block removes, without the lock, first the
\* directories, of a published job as well ...
StagingFails(j) ==
    /\ stager[j] \in Early \cup {"failing"}
    /\ stager' = [stager EXCEPT ![j] = "clearing"]
    /\ staging' = staging \ {j}
    /\ queued' = queued \ {j}
    /\ UNCHANGED <<sequence, reserve, ready, stale, active, results, base, config, worker,
                   waiting, claimed, faults>>

\* ... an error while a command line client waits for the result ends there too, whatever
\* became of the job ...
WaitFails(j) ==
    /\ faults < MaxFaults /\ faults' = faults + 1
    /\ j \in Local /\ stager[j] = "published" /\ waiter[j] \notin {"off", "done"}
    /\ stager' = [stager EXCEPT ![j] = "clearing"]
    /\ waiter' = [waiter EXCEPT ![j] = "off"]
    /\ queued' = queued \ {j}
    /\ UNCHANGED <<sequence, reserve, ready, stale, staging, active, results, base, config,
                   worker, outcome, claimed>>

\* ... and then the marker and the reservation.
ClearMarkers(j) ==
    /\ Goes(j, "clearing", "failed")
    /\ ready' = [ready EXCEPT ![j] = 0]
    /\ reserve' = [reserve EXCEPT ![j] = 0]
    /\ stale' = stale \ {j}
    /\ UNCHANGED <<sequence, staging, queued, active, results, base, config, worker, waiting,
                   claimed, faults>>

-----------------------------------------------------------------------------
(* The apply service *)

\* _claim_next_job_locked walks the ready markers by sequence.  It stops at a job that
\* has its directory, or at one behind a live reservation; markers before it have no
\* directory and are dropped.
StopsAt(j) ==
    /\ ready[j] > 0
    /\ j \in queued \/ Lower(ready[j], SweptReserve)
Head(j) == StopsAt(j) /\ \A k \in Jobs : StopsAt(k) => ready[j] <= ready[k]
Claimable(j) == Head(j) /\ ~Lower(ready[j], SweptReserve)
Dropped ==
    {o \in Jobs : ready[o] > 0 /\ ~StopsAt(o) /\ \A h \in Jobs : Head(h) => ready[o] < ready[h]}

ReadyWithout(js) == [j \in Jobs |-> IF j \in js THEN 0 ELSE ready[j]]

\* claim_next_job; the marker of the claimed job is removed after the rename.
ClaimNextJob(j) ==
    /\ worker = "idle" /\ active = {}
    /\ Claimable(j)
    /\ worker' = "apply"
    /\ active' = {j}
    /\ queued' = queued \ (Unpublished \cup {j})
    /\ ready' = ReadyWithout(Dropped \cup {j})
    /\ claimed' = claimed \cup {ready[j]}
    /\ Sweep(SweptReserve)
    /\ UNCHANGED <<sequence, results, client, config, waiting, faults>>

\* The path unit starts the service for any ready marker, claimable or not.
ClaimNothing ==
    /\ worker = "idle" /\ active = {}
    /\ \E j \in Jobs : ready[j] > 0
    /\ \A j \in Jobs : ~Claimable(j)
    /\ queued' = queued \ Unpublished
    /\ ready' = ReadyWithout(Dropped)
    /\ Sweep(SweptReserve)
    /\ UNCHANGED <<sequence, active, results, client, config, worker, waiting, claimed,
                   faults>>

\* The process dies between the rename and the removal of the ready marker.
ClaimDies(j) ==
    /\ worker = "idle" /\ active = {}
    /\ Claimable(j)
    /\ faults < MaxFaults /\ faults' = faults + 1
    /\ worker' = "down"
    /\ active' = {j}
    /\ queued' = queued \ (Unpublished \cup {j})
    /\ ready' = ReadyWithout(Dropped)
    /\ claimed' = claimed \cup {ready[j]}
    /\ Sweep(SweptReserve)
    /\ UNCHANGED <<sequence, results, client, config, waiting>>

\* ConfigStore: the job commits, or leaves the configuration as it was.
ApplyCommits(j) ==
    /\ worker = "apply" /\ j \in active
    /\ worker' = "publish"
    /\ version' = version + 1
    /\ applied' = applied \cup {j}
    /\ UNCHANGED <<files, active, results, client, waiting, claimed, faults>>

ApplyFails ==
    /\ worker = "apply"
    /\ worker' = "publish"
    /\ UNCHANGED <<files, active, results, client, config, waiting, claimed, faults>>

Answer(j) == IF j \in applied THEN "succeeded" ELSE "failed"

WriteResult(j) ==
    /\ worker = "publish" /\ j \in active
    /\ worker' = "clean"
    /\ results' = [results EXCEPT ![j] = Answer(j)]
    /\ UNCHANGED <<files, active, client, config, waiting, claimed, faults>>

CleanupClaimedJob ==
    /\ worker = "clean"
    /\ worker' = "idle"
    /\ active' = {}
    /\ UNCHANGED <<files, results, client, config, waiting, claimed, faults>>

WorkerDies ==
    /\ worker \in {"apply", "publish", "clean"}
    /\ faults < MaxFaults /\ faults' = faults + 1
    /\ worker' = "down"
    /\ UNCHANGED <<files, active, results, client, config, waiting, claimed>>

\* Mutant: only claims with a committed receipt are finalized.
FinalizeCommittedOnly ==
    /\ worker = "down"
    /\ worker' = "idle"
    /\ results' = [j \in Jobs |-> IF j \in active \cap applied THEN Answer(j) ELSE results[j]]
    /\ active' = active \ applied
    /\ UNCHANGED <<files, client, config, waiting, claimed, faults>>

\* Mutant: an abandoned claim is always reported as failed, whatever its receipt says.
FinalizeAsFailed ==
    /\ worker = "down"
    /\ worker' = "idle"
    /\ results' = [j \in Jobs |-> IF j \in active /\ results[j] = "none"
                                  THEN "failed" ELSE results[j]]
    /\ active' = {}
    /\ UNCHANGED <<files, client, config, waiting, claimed, faults>>

\* finalize_abandoned_active_jobs: a missing result is written before the claim goes.
FinalizeAbandoned ==
    /\ worker = "down"
    /\ worker' = "idle"
    /\ results' = [j \in Jobs |-> IF j \in active /\ results[j] = "none"
                                  THEN Answer(j) ELSE results[j]]
    /\ active' = {}
    /\ UNCHANGED <<files, client, config, waiting, claimed, faults>>

-----------------------------------------------------------------------------
(* StagedResultWaiter.poll and staged_timeout_state, one lock section per step *)

Moves(j, from, to) == waiter[j] = from /\ waiter' = [waiter EXCEPT ![j] = to]

others == <<active, results, client, config, worker, claimed, faults>>

\* The result is there, before or after the queue state was reconciled.
ReadResult(j) ==
    /\ waiter[j] \in {"poll", "rereadAbandoned", "rereadMissing"}
    /\ results[j] # "none"
    /\ waiter' = [waiter EXCEPT ![j] = "done"]
    /\ outcome' = [outcome EXCEPT ![j] = results[j]]
    /\ UNCHANGED <<files, others>>

\* The interval expired: is the job claimed?
CheckPresence(j) ==
    /\ results[j] = "none"
    /\ Moves(j, "poll", IF Presence(j) = "active" THEN "poll" ELSE "turn")
    /\ UNCHANGED <<files, outcome, others>>

\* staged_job_waiting_for_turn, for a job that has a sequence left
WaitingForTurn(j) ==
    LET n == IF ready[j] > 0 THEN ready[j] ELSE SweptReserve[j]
    IN active # {} \/ (n > 0 /\ (Lower(n, ready) \/ Lower(n, SweptReserve)))

CheckTurn(j) ==
    /\ Moves(j, "turn", IF WaitingForTurn(j) THEN "poll" ELSE "abandon")
    /\ Sweep(SweptReserve)
    /\ queued' = queued \ Unpublished
    /\ UNCHANGED <<sequence, ready, outcome, others>>

\* Mutant: the job is abandoned without looking whether it was claimed meanwhile.
AbandonUnchecked(j) ==
    /\ Moves(j, "abandon", "rereadAbandoned")
    /\ ready' = [ready EXCEPT ![j] = 0]
    /\ queued' = queued \ {j}
    /\ UNCHANGED <<sequence, reserve, stale, staging, outcome, others>>

\* try_abandon_queued_job
TryAbandon(j) ==
    /\ Moves(j, "abandon", IF Presence(j) = "queued" THEN "rereadAbandoned" ELSE "presence")
    /\ ready' = IF Presence(j) = "queued" THEN [ready EXCEPT ![j] = 0] ELSE ready
    /\ queued' = IF Presence(j) = "queued" THEN queued \ {j} ELSE queued
    /\ UNCHANGED <<sequence, reserve, stale, staging, outcome, others>>

\* The client dies between the removal of the marker and that of the directory.
AbandonDies(j) ==
    /\ faults < MaxFaults /\ faults' = faults + 1
    /\ Presence(j) = "queued"
    /\ Moves(j, "abandon", "off")
    /\ ready' = [ready EXCEPT ![j] = 0]
    /\ UNCHANGED <<sequence, reserve, stale, staging, queued, active, results, client,
                   config, worker, outcome, claimed>>

FinalPresence(j) ==
    /\ Moves(j, "presence", IF Presence(j) = "missing" THEN "rereadMissing" ELSE "poll")
    /\ UNCHANGED <<files, outcome, others>>

GiveUp(j) ==
    /\ waiter[j] \in {"rereadAbandoned", "rereadMissing"}
    /\ results[j] = "none"
    /\ waiter' = [waiter EXCEPT ![j] = "done"]
    /\ outcome' = [outcome EXCEPT ![j] = IF waiter[j] = "rereadMissing" THEN "missing"
                                         ELSE "timedout"]
    /\ UNCHANGED <<files, others>>

\* A staging or waiting client dies (service restart, interrupted command).
ClientDies(j) ==
    /\ faults < MaxFaults /\ faults' = faults + 1
    /\ \/ /\ stager[j] \in Early \cup {"failing", "clearing"}
          /\ stager' = [stager EXCEPT ![j] = "dead"]
          /\ UNCHANGED waiter
       \/ /\ waiter[j] \notin {"off", "done"}
          /\ waiter' = [waiter EXCEPT ![j] = "off"]
          /\ UNCHANGED stager
    /\ UNCHANGED <<files, active, results, base, config, worker, outcome, claimed>>

\* StagedJobManager.get after a restart: recover from the result or the queue state, also
\* the job whose client failed after it was published.
RecoverJob(j) ==
    /\ stager[j] \in {"published", "failed"} /\ waiter[j] = "off" /\ outcome[j] = "none"
    /\ \/ /\ results[j] # "none"
          /\ waiter' = [waiter EXCEPT ![j] = "done"]
          /\ outcome' = [outcome EXCEPT ![j] = results[j]]
       \/ /\ results[j] = "none" /\ Presence(j) # "missing"
          /\ waiter' = [waiter EXCEPT ![j] = "poll"]
          /\ UNCHANGED outcome
    /\ UNCHANGED <<files, others>>

-----------------------------------------------------------------------------
Staging(j) ==
    \/ ReserveSlot(j) \/ RequireEmptyQueue(j) \/ LoadCurrent(j) \/ RenderCandidate(j)
    \/ PlaceJob(j) \/ PublishReady(j) \/ PublishFails(j) \/ StagingFails(j) \/ ClearMarkers(j)

Serving ==
    \/ \E j \in Jobs : ClaimNextJob(j) \/ ApplyCommits(j) \/ WriteResult(j)
    \/ ClaimNothing \/ ApplyFails \/ CleanupClaimedJob \/ FinalizeAbandoned

Waiting(j) ==
    \/ ReadResult(j) \/ CheckPresence(j) \/ CheckTurn(j) \/ TryAbandon(j)
    \/ FinalPresence(j) \/ GiveUp(j)

Next ==
    \/ \E j \in Jobs : \/ Staging(j) \/ Waiting(j) \/ RefreshSlot(j) \/ SlotExpires(j)
                       \/ ClientDies(j) \/ PublishDies(j) \/ WaitFails(j) \/ AbandonDies(j)
                       \/ RecoverJob(j) \/ ClaimDies(j)
    \/ Serving
    \/ WorkerDies

\* Clients that reserved a slot go on or fail, waiters poll (but nobody has to ask for a
\* job again after its client died), the path unit and the retry timer
\* keep the worker going, and an unrefreshed reservation gets older than the TTL.
Fairness ==
    /\ WF_vars(Serving)
    /\ \A j \in Jobs :
        /\ WF_vars(stager[j] # "new" /\ Staging(j))
        /\ WF_vars(Waiting(j))
        /\ WF_vars(stager[j] \in {"dead", "published"} /\ SlotExpires(j))

Spec == Init /\ [][Next]_vars /\ Fairness

-----------------------------------------------------------------------------
(* Properties *)

Sequences == 0 .. Cardinality(Jobs)

\* Every variable keeps its type; a job never takes a second place in the line, so
\* publish_ready_marker and the claim see the sequence that was reserved.
TypeOK ==
    /\ sequence \in Sequences
    /\ reserve \in [Jobs -> Sequences] /\ ready \in [Jobs -> Sequences]
    /\ stale \subseteq Jobs /\ staging \subseteq Jobs
    /\ queued \subseteq Jobs /\ active \subseteq Jobs
    /\ results \in [Jobs -> {"none", "succeeded", "failed"}]
    /\ stager \in [Jobs -> {"new", "reserved", "checked", "loaded", "staging", "placed",
                            "failing", "clearing", "published", "failed", "dead"}]
    /\ base \in [Jobs -> Sequences] /\ version \in Sequences
    /\ applied \subseteq Jobs
    /\ worker \in {"idle", "apply", "publish", "clean", "down"}
    /\ waiter \in [Jobs -> {"off", "poll", "turn", "abandon", "presence",
                            "rereadAbandoned", "rereadMissing", "done"}]
    /\ outcome \in [Jobs -> {"none", "succeeded", "failed", "timedout", "missing"}]
    /\ claimed \subseteq Sequences
    /\ faults \in 0 .. MaxFaults

\* reserve_staged_job_slot's limit holds for everything that waits: jobs that hold a
\* reservation, are published with their directory, or are claimed never exceed it,
\* although reservations expire and their clients carry on.
CapacityBound ==
    Cardinality({j \in Jobs : reserve[j] > 0 \/ (ready[j] > 0 /\ j \in queued)
                              \/ j \in active}) <= MaxPending

\* One job is active at a time, and jobs are claimed in the order in which they
\* reserved their place, whatever order they were staged and published in.
ClaimedInOrder ==
    [][\A n \in claimed' \ claimed : \A m \in claimed : m < n]_vars

\* A client that reports a timeout or a missing result is right: the job was not
\* applied, and it never will be.
AbandonedNeverApplied ==
    \A j \in Jobs : outcome[j] \in {"timedout", "missing"} => j \notin applied

\* A partial update is computed outside every lock, yet the configuration it was
\* computed on is the current one when the worker applies it.
PartialOnCurrent ==
    [][\A j \in Partial : j \in applied' \ applied => base[j] = version]_vars

\* Where the job is in the line, as its files say.  A directory without its marker, a marker
\* without its directory, and a reservation whose client will never publish are no place.
PlaceOf(j) ==
    IF stager[j] = "new" THEN "new"
    ELSE IF j \in active THEN "served"
    ELSE IF ready[j] > 0 /\ j \in queued THEN "published"
    ELSE IF reserve[j] > 0 /\ stager[j] \in Early THEN "reserved"
    ELSE "out"
TicketOf(j) ==
    IF PlaceOf(j) = "published" THEN ready[j]
    ELSE IF PlaceOf(j) = "reserved" THEN reserve[j]
    ELSE 0

\* The clients that died before they published, or whose except block ran
Broken == {j \in Jobs : stager[j] \in {"clearing", "failed", "dead"}}

Promise == INSTANCE JobLine
    WITH place <- [j \in Jobs |-> PlaceOf(j)], ticket <- [j \in Jobs |-> TicketOf(j)],
         last <- sequence, tired <- {j \in Jobs : waiter[j] = "abandon"},
         broken <- Broken, effect <- applied, result <- results, report <- outcome

\* The queue keeps the promise of JobLine although its files change one by one, its
\* sections race and its processes die: bounded, first come first served, nothing published
\* is lost but by its own client, and no client is told something that turns out wrong.
RefinesJobLine == Promise!Spec

\* A published job leaves the line and its claim, also when its own client or the one of the
\* job ahead died or failed, at any point of the publication, or the worker died.  Its
\* directory goes with it, unless its own client died while it abandoned the job and nobody
\* asked for the job again.
PublishedJobSettles ==
    \A j \in Jobs : ready[j] > 0 ~>
        (ready[j] = 0 /\ j \notin active /\ (j \in queued => waiter[j] = "off"))

\* A client that keeps waiting gets an answer.
WaiterAnswered == \A j \in Jobs : waiter[j] = "poll" ~> waiter[j] \in {"done", "off"}

=============================================================================
