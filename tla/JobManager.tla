---------------------------- MODULE JobManager -----------------------------
(***************************************************************************)
(* StagedJobManager of jobs.py: the job table of the API process, how      *)
(* ProvisionCoordinator admits work through it, and how GET /api/jobs      *)
(* answers from memory, from the worker's results and from the queue.      *)
(*                                                                         *)
(* StagedQueue says how a reservation becomes a queued, a claimed and a    *)
(* finished job; here that is one variable per job, so that what the API   *)
(* process remembers, forgets and recovers can be compared with it.        *)
(* Command line imports reserve, publish and wait in the same queue from   *)
(* processes of their own: they take queue.lock, not the lock of the API.  *)
(***************************************************************************)
EXTENDS Integers, FiniteSets

CONSTANTS
    Ids,            \* job UUIDs, never reused
    Exclusive,      \* the jobs that are typed partial updates
    Local,          \* the jobs of command line imports
    MaxPending,     \* DEFAULT_MAX_STAGED_JOBS
    MaxRetained,    \* _MAX_RETAINED_JOBS
    MaxReservations,    \* bound: places given in the queue, one per job
    MaxObjects,     \* bound: Job objects made, by submissions and by recoveries
    MaxFaults       \* bound: failures, cancellations and restarts

Nobody == "nobody"

\* What the constants must satisfy; the module that instantiates this one assumes it.
JobManagerConstants ==
    /\ IsFiniteSet(Ids) /\ Exclusive \subseteq Ids /\ Local \subseteq Ids \ Exclusive
    /\ MaxPending \in Nat \ {0} /\ MaxRetained \in Nat \ {0}
    /\ MaxReservations \in Nat /\ MaxObjects \in Nat /\ MaxFaults \in Nat
    /\ Nobody \notin Ids

VARIABLES
    disk,           \* none, reserved, queued or active under /run
    sequence, order,    \* reservations made so far, and the number of each
    result,         \* results/<job>.json
    jobs,           \* the keys of _jobs
    state,          \* Job.state; SUBMITTED and RUNNING are both "pending"
    born, clock,    \* Job.submitted_at
    phase,          \* where the submission of a job is
    holder,         \* the exclusive submission that holds _lock
    monitored,      \* _monitored_job_ids; the monitor of an evicted job has nothing left to do
    reply,          \* the answer to the submission
    lookup,         \* recoveries that found no result and look at the queue next
    answer,         \* the last answer of GET /api/jobs/<job>, since it told a result
    abandoned,      \* history: jobs the monitor took out of the queue
    faults

queue == <<disk, result, sequence, order>>
table == <<jobs, state, born, clock>>
submission == <<phase, holder, reply>>
query == <<lookup, answer>>
vars == <<queue, table, submission, monitored, query, abandoned, faults>>

Init ==
    /\ disk = [i \in Ids |-> "none"]
    /\ result = [i \in Ids |-> "none"]
    /\ sequence = 0 /\ order = [i \in Ids |-> 0]
    /\ jobs = {} /\ state = [i \in Ids |-> "pending"]
    /\ born = [i \in Ids |-> 0] /\ clock = 0
    /\ phase = [i \in Ids |-> "new"]
    /\ holder = Nobody
    /\ monitored = {}
    /\ reply = [i \in Ids |-> "none"]
    /\ lookup = {} /\ answer = [i \in Ids |-> "none"]
    /\ abandoned = {}
    /\ faults = 0

Finished == {i \in jobs : state[i] # "pending"}
Fault == faults < MaxFaults /\ faults' = faults + 1

\* Everything the queue holds: reservations, queued and active jobs
Pending == {i \in Ids : disk[i] # "none"}

\* reserve_staged_job_slot under queue.lock
Reserve(i) ==
    /\ Cardinality(Pending) < MaxPending /\ sequence < MaxReservations
    /\ disk' = [disk EXCEPT ![i] = "reserved"]
    /\ sequence' = sequence + 1
    /\ order' = [order EXCEPT ![i] = sequence + 1]

\* Nothing is active, and no reserved or queued job has a lower number.
Turn(i) == \A k \in Pending \ {i} : disk[k] # "active" /\ order[k] > order[i]

-----------------------------------------------------------------------------
(* Submission *)

\* Job(id=uuid4()): its age is set before _lock is taken.
Create(i) ==
    /\ phase[i] = "new" /\ i \notin Local /\ clock < MaxObjects
    /\ phase' = [phase EXCEPT ![i] = "waiting"]
    /\ clock' = clock + 1
    /\ born' = [born EXCEPT ![i] = clock + 1]
    /\ UNCHANGED <<queue, jobs, state, holder, monitored, reply, query, abandoned, faults>>

\* _evict_old_jobs: the oldest finished jobs, as many as make room for one more
Evicted ==
    {i \in Finished : Cardinality({k \in Finished : born[k] <= born[i]})
                        <= Cardinality(jobs) - MaxRetained + 1}

\* _submit_staged: evict, reserve, and keep _lock for an exclusive job
Admit(i) ==
    /\ phase[i] = "waiting" /\ holder = Nobody
    /\ Reserve(i)
    /\ jobs' = (jobs \ Evicted) \cup {i}
    /\ state' = [state EXCEPT ![i] = "pending"]
    /\ phase' = [phase EXCEPT ![i] = "admitted"]
    /\ holder' = IF i \in Exclusive THEN i ELSE Nobody
    /\ monitored' = monitored \ Evicted
    /\ UNCHANGED <<result, born, clock, reply, query, abandoned, faults>>

\* The queue is full: 409, after old jobs were evicted.
AdmitFull(i) ==
    /\ phase[i] = "waiting" /\ holder = Nobody
    /\ Cardinality(Pending) >= MaxPending
    /\ jobs' = jobs \ Evicted
    /\ phase' = [phase EXCEPT ![i] = "done"]
    /\ reply' = [reply EXCEPT ![i] = "conflict"]
    /\ monitored' = monitored \ Evicted
    /\ UNCHANGED <<queue, state, born, clock, holder, query, abandoned, faults>>

\* The reservation raises: a failed job is kept and returned.
ReserveFails(i) ==
    /\ phase[i] = "waiting" /\ holder = Nobody
    /\ Fault
    /\ jobs' = (jobs \ Evicted) \cup {i}
    /\ state' = [state EXCEPT ![i] = "failed"]
    /\ phase' = [phase EXCEPT ![i] = "done"]
    /\ reply' = [reply EXCEPT ![i] = "failed"]
    /\ monitored' = monitored \ Evicted
    /\ UNCHANGED <<queue, born, clock, holder, query, abandoned>>

Released(i) == IF holder = i THEN Nobody ELSE holder

\* A partial update needs an empty queue (has_staged_jobs) before it is computed.
CheckEmpty(i) ==
    /\ phase[i] = "admitted"
    /\ i \in Exclusive => Pending = {i}
    /\ phase' = [phase EXCEPT ![i] = "staging"]
    /\ UNCHANGED <<queue, table, holder, monitored, reply, query, abandoned, faults>>

\* StagedQueueBusyError: the job is dropped from the table, 409.
Busy(i) ==
    /\ phase[i] = "admitted"
    /\ i \in Exclusive /\ Pending # {i}
    /\ disk' = [disk EXCEPT ![i] = "none"]
    /\ jobs' = jobs \ {i}
    /\ phase' = [phase EXCEPT ![i] = "done"]
    /\ holder' = Released(i)
    /\ reply' = [reply EXCEPT ![i] = "conflict"]
    /\ UNCHANGED <<result, sequence, order, state, born, clock, monitored, query, abandoned,
                   faults>>

\* The candidate is rendered, renamed into the queue and marked ready.
Publish(i) ==
    /\ phase[i] = "staging" /\ disk[i] = "reserved"
    /\ disk' = [disk EXCEPT ![i] = "queued"]
    /\ phase' = [phase EXCEPT ![i] = "staged"]
    /\ UNCHANGED <<result, sequence, order, table, holder, monitored, reply, query, abandoned,
                   faults>>

\* Rendering fails, the reservation expired, or the submission is cancelled
\* twice (the thread then finds its reservation gone): nothing stays queued.
StagingFails(i) ==
    /\ phase[i] \in {"admitted", "staging"}
    /\ Fault
    /\ disk' = [disk EXCEPT ![i] = "none"]
    /\ state' = [state EXCEPT ![i] = "failed"]
    /\ phase' = [phase EXCEPT ![i] = "done"]
    /\ holder' = Released(i)
    /\ \E r \in {"failed", "lost"} : reply' = [reply EXCEPT ![i] = r]
    /\ UNCHANGED <<result, sequence, order, jobs, born, clock, monitored, query, abandoned>>

\* An error after publication: the job is removed without queue.lock, unless the
\* worker renamed it first and applies it all the same.
FailsAfterPublication(i) ==
    /\ phase[i] = "staged"
    /\ Fault
    /\ disk' = [disk EXCEPT ![i] = IF disk[i] = "queued" THEN "none" ELSE disk[i]]
    /\ state' = [state EXCEPT ![i] = "failed"]
    /\ phase' = [phase EXCEPT ![i] = "done"]
    /\ holder' = Released(i)
    /\ reply' = [reply EXCEPT ![i] = "failed"]
    /\ UNCHANGED <<result, sequence, order, jobs, born, clock, monitored, query, abandoned>>

\* _mark_queued and _start_monitor_if_possible; errors of the heartbeat and one
\* cancellation change nothing but the message.
Return(i) ==
    /\ phase[i] = "staged"
    /\ phase' = [phase EXCEPT ![i] = "done"]
    /\ holder' = Released(i)
    /\ monitored' = monitored \cup ({i} \cap jobs)
    /\ reply' = [reply EXCEPT ![i] = "accepted"]
    /\ UNCHANGED <<queue, table, query, abandoned, faults>>

-----------------------------------------------------------------------------
(* A command line import: _stage_and_wait_prepared_sync *)

\* The slot is reserved under queue.lock alone; a full queue changes nothing.
LocalReserve(i) ==
    /\ phase[i] = "new" /\ i \in Local
    /\ Reserve(i)
    /\ phase' = [phase EXCEPT ![i] = "importing"]
    /\ UNCHANGED <<result, table, holder, reply, monitored, query, abandoned, faults>>

LocalPublish(i) ==
    /\ phase[i] = "importing" /\ disk[i] = "reserved"
    /\ disk' = [disk EXCEPT ![i] = "queued"]
    /\ phase' = [phase EXCEPT ![i] = "awaiting"]
    /\ UNCHANGED <<result, sequence, order, table, holder, reply, monitored, query, abandoned,
                   faults>>

\* The result is there, or the import gives up like a monitor: a job that is missing or
\* that nothing precedes is out of the queue.
LocalWaitEnds(i) ==
    /\ phase[i] = "awaiting"
    /\ phase' = [phase EXCEPT ![i] = "done"]
    /\ \/ result[i] # "none" /\ UNCHANGED <<disk, abandoned>>
       \/ /\ result[i] = "none" /\ (disk[i] = "none" \/ (disk[i] = "queued" /\ Turn(i)))
          /\ disk' = [disk EXCEPT ![i] = "none"]
          /\ abandoned' = abandoned \cup {i}
    /\ UNCHANGED <<result, sequence, order, table, holder, reply, monitored, query, faults>>

\* The import raises, and removes a job the worker has not renamed, or it is killed.
LocalFails(i) ==
    /\ phase[i] \in {"importing", "awaiting"}
    /\ Fault
    /\ phase' = [phase EXCEPT ![i] = "done"]
    /\ \/ UNCHANGED disk
       \/ disk[i] # "active" /\ disk' = [disk EXCEPT ![i] = "none"]
    /\ UNCHANGED <<result, sequence, order, table, holder, reply, monitored, query, abandoned>>

-----------------------------------------------------------------------------
(* The worker and the queue (StagedQueue, ConfigStore) *)

Claim(i) ==
    /\ disk[i] = "queued" /\ Turn(i)
    /\ disk' = [disk EXCEPT ![i] = "active"]
    /\ UNCHANGED <<result, sequence, order, table, submission, monitored, query, abandoned, faults>>

\* write_result by the worker or, for one that was killed, by the finalizer
WriteResult(i) ==
    /\ disk[i] = "active" /\ result[i] = "none"
    /\ \E v \in {"succeeded", "failed"} : result' = [result EXCEPT ![i] = v]
    /\ UNCHANGED <<disk, sequence, order, table, submission, monitored, query, abandoned, faults>>

\* Mutant: the claim goes although no result was written.
UnclaimEarly(i) ==
    /\ disk[i] = "active"
    /\ disk' = [disk EXCEPT ![i] = "none"]
    /\ UNCHANGED <<result, sequence, order, table, submission, monitored, query, abandoned, faults>>

\* cleanup_claimed_job
Unclaim(i) ==
    /\ disk[i] = "active" /\ result[i] # "none"
    /\ disk' = [disk EXCEPT ![i] = "none"]
    /\ UNCHANGED <<result, sequence, order, table, submission, monitored, query, abandoned, faults>>

\* A reservation nobody refreshes gets older than its TTL and is swept.
ReservationExpires(i) ==
    /\ disk[i] = "reserved" /\ phase[i] = "done"
    /\ disk' = [disk EXCEPT ![i] = "none"]
    /\ UNCHANGED <<result, sequence, order, table, submission, monitored, query, abandoned, faults>>

-----------------------------------------------------------------------------
(* _monitor_staged *)

\* _refresh_from_result
MonitorReads(i) ==
    /\ i \in monitored /\ result[i] # "none"
    /\ state' = [state EXCEPT ![i] = result[i]]
    /\ monitored' = monitored \ {i}
    /\ UNCHANGED <<queue, jobs, born, clock, submission, query, abandoned, faults>>

\* A job that GET has brought up to date ends the loop.
MonitorEnds(i) ==
    /\ i \in monitored /\ state[i] # "pending"
    /\ monitored' = monitored \ {i}
    /\ UNCHANGED <<queue, table, submission, query, abandoned, faults>>

\* staged_timeout_state: a queued job whose turn it is is abandoned, a missing
\* one has failed; a claimed or waiting one is polled again.
MonitorTimesOut(i) ==
    /\ i \in monitored /\ result[i] = "none"
    /\ \/ disk[i] = "none"
       \/ disk[i] = "queued" /\ Turn(i)
    /\ disk' = [disk EXCEPT ![i] = "none"]
    /\ abandoned' = abandoned \cup {i}
    /\ state' = [state EXCEPT ![i] = "failed"]
    /\ monitored' = monitored \ {i}
    /\ UNCHANGED <<result, sequence, order, jobs, born, clock, submission, query, faults>>

\* Cancellation or an unreadable result: failed, whatever the job was before.
MonitorFails(i) ==
    /\ i \in monitored
    /\ Fault
    /\ state' = [state EXCEPT ![i] = "failed"]
    /\ monitored' = monitored \ {i}
    /\ UNCHANGED <<queue, jobs, born, clock, submission, query, abandoned>>

-----------------------------------------------------------------------------
(* GET /api/jobs/<job>: get under _recovery_lock *)

\* What GET answers is followed from the first answer that was read from a result.
Answers(i, s, read) ==
    answer' = IF read \/ answer[i] # "none" THEN [answer EXCEPT ![i] = s] ELSE answer

\* Mutant: the result is not read again for a finished job.
GetCachedFinished(i) ==
    /\ i \in jobs
    /\ state' = IF result[i] # "none" /\ state[i] = "pending"
                THEN [state EXCEPT ![i] = result[i]] ELSE state
    /\ Answers(i, state'[i], result[i] # "none")
    /\ UNCHANGED <<queue, jobs, born, clock, submission, monitored, lookup, abandoned, faults>>

\* A job in the table, brought up to date by _refresh_from_result
GetCached(i) ==
    /\ i \in jobs
    /\ state' = IF result[i] # "none" THEN [state EXCEPT ![i] = result[i]] ELSE state
    /\ Answers(i, state'[i], result[i] # "none")
    /\ UNCHANGED <<queue, jobs, born, clock, submission, monitored, lookup, abandoned, faults>>

Recovered(i, s, read) ==
    /\ jobs' = jobs \cup {i}
    /\ state' = [state EXCEPT ![i] = s]
    /\ clock' = clock + 1
    /\ born' = [born EXCEPT ![i] = clock + 1]
    /\ Answers(i, s, read)

\* _job_from_result: first the results ...
GetFromResult(i) ==
    /\ i \notin jobs /\ phase[i] \notin {"new", "waiting"} /\ clock < MaxObjects
    /\ IF result[i] # "none"
       THEN Recovered(i, result[i], TRUE) /\ UNCHANGED lookup
       ELSE lookup' = {i} /\ UNCHANGED <<table, answer>>
    /\ UNCHANGED <<queue, submission, monitored, abandoned, faults>>

\* Mutant: a recovered pending job is not monitored.
GetUnmonitored(i) ==
    /\ i \in lookup
    /\ lookup' = {}
    /\ IF disk[i] \in {"queued", "active"}
       THEN Recovered(i, "pending", FALSE)
       ELSE /\ Answers(i, "unknown", FALSE)
            /\ UNCHANGED table
    /\ UNCHANGED <<queue, submission, monitored, abandoned, faults>>

\* ... then the queue state, read under queue.lock
GetFromPresence(i) ==
    /\ i \in lookup
    /\ lookup' = {}
    /\ IF disk[i] \in {"queued", "active"}
       THEN Recovered(i, "pending", FALSE) /\ monitored' = monitored \cup {i}
       ELSE /\ Answers(i, "unknown", FALSE)
            /\ UNCHANGED <<table, monitored>>
    /\ UNCHANGED <<queue, submission, abandoned, faults>>

\* Phases that are not those of an open request to the API
Outside == {"new", "importing", "awaiting", "done"}

\* The API process restarts: memory, tasks and open requests are gone.
Restart ==
    /\ Fault
    /\ jobs' = {} /\ monitored' = {} /\ lookup' = {} /\ holder' = Nobody
    /\ reply' = [i \in Ids |-> IF phase[i] \in Outside THEN reply[i] ELSE "lost"]
    /\ phase' = [i \in Ids |-> IF phase[i] \in Outside THEN phase[i] ELSE "done"]
    /\ UNCHANGED <<queue, state, born, clock, answer, abandoned>>

-----------------------------------------------------------------------------
\* Everything that runs in the event loop.  get does not await, so nothing else
\* in the loop runs between its two reads.
EventLoop(i) ==
    \/ Create(i) \/ Admit(i) \/ AdmitFull(i) \/ ReserveFails(i)
    \/ Busy(i) \/ Return(i) \/ StagingFails(i) \/ FailsAfterPublication(i)
    \/ MonitorFails(i)

Monitoring(i) == MonitorReads(i) \/ MonitorEnds(i) \/ MonitorTimesOut(i)

Getting(i) == GetCached(i) \/ GetFromResult(i)

\* The staging thread, an import, and the worker's process
Thread(i) == CheckEmpty(i) \/ Publish(i)
Import(i) == LocalReserve(i) \/ LocalPublish(i) \/ LocalWaitEnds(i) \/ LocalFails(i)
Working(i) == Claim(i) \/ WriteResult(i) \/ Unclaim(i) \/ ReservationExpires(i)

Next ==
    \/ \E i \in Ids :
        \/ lookup = {} /\ (EventLoop(i) \/ Monitoring(i) \/ Getting(i))
        \/ GetFromPresence(i)
        \/ Thread(i) \/ Import(i) \/ Working(i)
    \/ Restart

Spec == Init /\ [][Next]_vars

\* The worker serves the queue, every monitor keeps polling, get returns.  Staging ends
\* too, in a thread of the API or in an import: jobs wait behind a lower reservation.
\* Fairness is asked of all jobs together, which is less than the code gives.
Fairness ==
    /\ WF_vars(\E i \in Ids : Working(i))
    /\ WF_vars(\E i \in Ids : GetFromPresence(i))
    /\ WF_vars(\E i \in Ids : Thread(i) \/ LocalPublish(i))
    /\ SF_vars(lookup = {} /\ \E i \in Ids : Busy(i) \/ Monitoring(i))

FairSpec == Spec /\ Fairness

-----------------------------------------------------------------------------
(* Properties *)

\* Every variable has its type.
TypeOK ==
    /\ disk \in [Ids -> {"none", "reserved", "queued", "active"}]
    /\ result \in [Ids -> {"none", "succeeded", "failed"}]
    /\ jobs \subseteq Ids /\ monitored \subseteq jobs
    /\ state \in [Ids -> {"pending", "succeeded", "failed"}]
    /\ born \in [Ids -> Nat] /\ clock \in Nat
    /\ phase \in [Ids -> {"new", "waiting", "admitted", "staging", "staged",
                          "importing", "awaiting", "done"}]
    /\ sequence \in Nat /\ order \in [Ids -> Nat]
    /\ holder \in Exclusive \cup {Nobody}
    /\ reply \in [Ids -> {"none", "accepted", "failed", "conflict", "lost"}]
    /\ lookup \subseteq Ids \ jobs /\ Cardinality(lookup) <= 1
    /\ answer \in [Ids -> {"none", "pending", "succeeded", "failed", "unknown"}]
    /\ abandoned \subseteq Ids
    /\ faults \in 0 .. MaxFaults

\* A job that was accepted can be found again from what is in memory and on disk
\* together, after evictions and restarts too, until it is abandoned.
AcceptedFindable ==
    \A i \in Ids : reply[i] = "accepted" =>
        i \in jobs \/ disk[i] \in {"queued", "active"} \/ result[i] # "none" \/ i \in abandoned

\* A partial update is published ahead of everything else in the queue: no job of the API
\* is beside it, and the imports that are have reserved after it found the queue empty, so
\* that none of them was claimed, or will be before it is.
PartialStagedFirst ==
    \A i \in Exclusive : disk[i] = "reserved" /\ disk'[i] = "queued" =>
        \A k \in Pending \ {i} : k \in Local /\ disk[k] # "active" /\ order[k] > order[i]

\* A verdict of the worker that GET has told is never taken back, although the
\* monitor may overwrite the state, the job may be evicted and the API restarts.
VerdictFinal == \A i \in Ids : answer[i] # "none" => answer'[i] = answer[i]

\* A submission leaves no more than _MAX_RETAINED_JOBS in the table, unless more
\* than that are unfinished.
RetentionBound ==
    \A i \in Ids : phase[i] = "waiting" /\ i \in jobs' =>
        \/ Cardinality(jobs') <= MaxRetained
        \/ \A k \in jobs' \ {i} : state[k] = "pending"

\* Every job that is shown as pending after its submission gets a final state.
PendingSettles ==
    \A i \in Ids : (i \in jobs /\ phase[i] = "done" /\ state[i] = "pending")
                       ~> (i \notin jobs \/ state[i] # "pending")
=============================================================================
