---------------------------- MODULE MCApiQueues ----------------------------
(***************************************************************************)
(* The two services the HTTP API keeps beside its requests: the export     *)
(* queue under /run and the job manager in memory.  They share no state,   *)
(* so a behaviour follows one of them (service) and leaves the other as it *)
(* starts.                                                                 *)
(***************************************************************************)
EXTENDS Integers, FiniteSets

CONSTANTS
    ExportIds, MaxExports, MaxVersion,
    JobIds, Exclusive, Local, MaxPending, MaxRetained, MaxReservations, MaxObjects,
    ExportFaults, JobFaults     \* bounds: MaxFaults of each

VARIABLES
    service,            \* exports or jobs
    \* ExportQueue
    request, ack, active, archive, error, old, client, got, since, stepped, version, worker,
    current, payload, finalize, exportFaults,
    \* JobManager
    disk, sequence, order, result, jobs, state, born, clock, phase, holder, monitored, reply,
    lookup, answer, abandoned, jobFaults

Exports == INSTANCE ExportQueue
    WITH Ids <- ExportIds, MaxFaults <- ExportFaults, faults <- exportFaults

Jobs == INSTANCE JobManager
    WITH Ids <- JobIds, MaxFaults <- JobFaults, faults <- jobFaults

ASSUME QueueConstants == Exports!ExportQueueConstants /\ Jobs!JobManagerConstants

exports == <<request, ack, active, archive, error, old, client, got, since, stepped, version,
             worker, current, payload, finalize, exportFaults>>
manager == <<disk, sequence, order, result, jobs, state, born, clock, phase, holder, monitored,
             reply, lookup, answer, abandoned, jobFaults>>
vars == <<service, exports, manager>>

Init ==
    /\ service \in {"exports", "jobs"}
    /\ Exports!Init /\ Jobs!Init

ServeExports == service = "exports" /\ Exports!Next /\ UNCHANGED <<service, manager>>
ManageJobs == service = "jobs" /\ Jobs!Next /\ UNCHANGED <<service, exports>>

Next == ServeExports \/ ManageJobs

StartExports ==
    service = "exports" /\ Exports!StartService /\ UNCHANGED <<service, manager>>

\* Each service has its own fairness.  What it is about cannot happen in the service that a
\* behaviour does not follow: nothing was submitted there, and no timer starts the export.
Spec ==
    /\ Init /\ [][Next]_vars
    /\ WF_vars(StartExports) /\ Exports!Progress
    /\ Jobs!Fairness

-----------------------------------------------------------------------------
(* Properties *)

\* Of the requests that no step of the wall clock hit, at most MAX_EXPORTS have a marker, a
\* claim or a result at any time; none has both an archive and an error, whatever the
\* worker was killed at; and what a client returns was committed between the admission of
\* its request and its answer.
ExportsSound ==
    /\ Exports!TypeOK
    /\ Exports!SlotBound /\ Exports!OneResult /\ Exports!ExportIsFresh

\* A request that has given up its slot never takes one again: no result, error or
\* acknowledgement turns up after the cleanup, but for the one acknowledgement of a client
\* whose entries a step of the clock expired.
SlotReleasedOnce == [][Exports!StaysReleased]_vars

\* Every slot is freed although clients vanish, the clock steps and the worker is killed
\* between any two file operations; a polling client is answered without its timeout,
\* unless a step of the clock hit its request.
ExportsServed == Exports!SlotsFreed /\ Exports!RequestAnswered

\* A job that was accepted can be found from memory and disk together, after evictions,
\* errors of the staging client and restarts, until it is abandoned.
AcceptedFindable == Jobs!TypeOK /\ Jobs!AcceptedFindable

\* A partial update is published ahead of whatever imports reserved beside it, a verdict
\* that was told is not taken back, and finished jobs do not fill the table.
JobStepsSound ==
    [][Jobs!PartialStagedFirst /\ Jobs!VerdictFinal /\ Jobs!RetentionBound]_vars

\* Every job shown as pending gets a final state, after a restart of the API too.
PendingSettles == Jobs!PendingSettles
=============================================================================
