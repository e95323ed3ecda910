---------------------------- MODULE ExportQueue ----------------------------
(***************************************************************************)
(* The configuration export queue under /run/atomixos-provision/export:    *)
(* export_worker.py, its command line and its systemd units.               *)
(*                                                                         *)
(* An HTTP handler admits a fresh UUID as requests/<uuid>.request, polls   *)
(* results/ for that UUID and leaves requests/<uuid>.ack on every exit.    *)
(* The root worker claims a marker by renaming it into active/, exports    *)
(* the configuration, publishes <uuid>.tar.gz or <uuid>.error and drops    *)
(* the claim; an acknowledgement deletes the result.  ExecStopPost and     *)
(* every start resolve what a killed worker left and expire old entries.   *)
(*                                                                         *)
(* A section under queue.lock is one step unless a kill inside it leaves   *)
(* files behind that tell it apart; then its file operations are steps and *)
(* Locked says that the lock is held between them.                         *)
(***************************************************************************)
EXTENDS Integers, FiniteSets

CONSTANTS
    Ids,            \* request UUIDs, each used by one HTTP request
    MaxExports,     \* MAX_EXPORTS
    MaxVersion,     \* bound: configuration versions
    MaxFaults       \* bound: kills, failed acknowledgements and clock steps

\* What the constants must satisfy; the module that instantiates this one assumes it.
ExportQueueConstants ==
    /\ IsFiniteSet(Ids)
    /\ MaxExports \in Nat \ {0}
    /\ MaxVersion \in Nat \ {0}
    /\ MaxFaults \in Nat

NoId == "no id"
Operations == {"request", "ack"}
Kinds == {"request", "ack", "archive", "error"}

VARIABLES
    request, ack,   \* requests/<uuid>.request and requests/<uuid>.ack
    active,         \* claims: <<uuid, operation>>
    archive,        \* results/<uuid>.tar.gz: the version it holds, 0 if missing
    error,          \* results/<uuid>.error
    old,            \* the entries of requests/ and results/ older than RETENTION_SECONDS
    client,         \* where the HTTP request of a UUID is
    got,            \* the version a client returned, 0 if none
    since,          \* history: the version committed when a UUID was admitted
    stepped,        \* history: UUIDs with an entry that got old while the client was there
    version,        \* the version committed to /data/config
    worker,         \* the next step of the export service
    current,        \* the UUID whose marker the worker claimed
    payload,        \* the archive bytes in the worker's memory
    finalize,       \* drain_exports(finalize=True)
    faults

requests == <<request, ack>>
results == <<archive, error>>
clients == <<client, got, since, stepped>>
process == <<worker, current, payload, finalize>>
vars == <<requests, active, results, old, clients, version, process, faults>>

Init ==
    /\ request = {} /\ ack = {} /\ active = {}
    /\ archive = [i \in Ids |-> 0]
    /\ error = {} /\ old = {}
    /\ client = [i \in Ids |-> "new"]
    /\ got = [i \in Ids |-> 0]
    /\ since = [i \in Ids |-> 0]
    /\ stepped = {}
    /\ version = 1
    /\ worker = "idle"
    /\ current = NoId
    /\ payload = 0
    /\ finalize = FALSE
    /\ faults = 0

-----------------------------------------------------------------------------
(* The directories *)

Published(i) == archive[i] > 0 \/ i \in error

\* The UUIDs _submit counts: a marker, a claim or a result, once each.
Occupied ==
    request \cup ack \cup {i \in Ids : Published(i)} \cup {x[1] : x \in active}

\* The entries of requests/ and results/ that _cleanup looks at
Entries ==
    (request \X {"request"}) \cup (ack \X {"ack"}) \cup (error \X {"error"})
        \cup {<<i, "archive">> : i \in {j \in Ids : archive[j] > 0}}

\* queue.lock is held between two steps of the worker
Locked == worker \in {"recover", "cleanup", "unlink_archive", "unlink_error", "unlink_claim"}

-----------------------------------------------------------------------------
(* The HTTP request: request_export *)

\* Mutant: the queue may exceed its limit by one.
SubmitOneTooMany(i) ==
    /\ client[i] = "new" /\ ~Locked
    /\ Cardinality(Occupied) <= MaxExports
    /\ request' = request \cup {i}
    /\ since' = [since EXCEPT ![i] = version]
    /\ client' = [client EXCEPT ![i] = "polling"]
    /\ UNCHANGED <<ack, active, results, old, got, stepped, version, process, faults>>

\* _submit under queue.lock; a fresh UUID is never in Occupied.
Submit(i) ==
    /\ client[i] = "new" /\ ~Locked
    /\ Cardinality(Occupied) < MaxExports
    /\ i \notin Occupied
    /\ request' = request \cup {i}
    /\ since' = [since EXCEPT ![i] = version]
    /\ client' = [client EXCEPT ![i] = "polling"]
    /\ UNCHANGED <<ack, active, results, old, got, stepped, version, process, faults>>

\* ConflictError: nothing was admitted, so nothing is acknowledged.
SubmitBusy(i) ==
    /\ client[i] = "new" /\ ~Locked
    /\ Cardinality(Occupied) >= MaxExports
    /\ client' = [client EXCEPT ![i] = "done"]
    /\ UNCHANGED <<requests, active, results, old, got, since, stepped, version, process, faults>>

\* _read_result finds the error, else the archive.  Reads take no lock.
ReadResult(i) ==
    /\ client[i] = "polling"
    /\ Published(i)
    /\ got' = [got EXCEPT ![i] = IF i \in error THEN 0 ELSE archive[i]]
    /\ client' = [client EXCEPT ![i] = "leaving"]
    /\ UNCHANGED <<requests, active, results, old, since, stepped, version, process, faults>>

\* ExportTimeout, cancellation of the HTTP request, or an unreadable result
GiveUp(i) ==
    /\ client[i] = "polling"
    /\ client' = [client EXCEPT ![i] = "leaving"]
    /\ UNCHANGED <<requests, active, results, old, got, since, stepped, version, process, faults>>

\* _acknowledge: withdraw the request if it is unclaimed, then leave the marker.
Acknowledge(i) ==
    /\ client[i] = "leaving" /\ ~Locked
    /\ request' = request \ {i}
    /\ old' = old \ {<<i, "request">>}
    /\ ack' = ack \cup {i}
    /\ client' = [client EXCEPT ![i] = "done"]
    /\ UNCHANGED <<active, results, got, since, stepped, version, process, faults>>

\* The acknowledgement fails (logged), or the API process dies.
ClientFault(gone) ==
    /\ faults < MaxFaults
    /\ gone # {} /\ \A i \in gone : client[i] \in {"polling", "leaving"}
    /\ client' = [i \in Ids |-> IF i \in gone THEN "done" ELSE client[i]]
    /\ faults' = faults + 1
    /\ UNCHANGED <<requests, active, results, old, got, since, stepped, version, process>>

\* An entry nobody waits for any more gets older than RETENTION_SECONDS.
Age(i, kind) ==
    /\ client[i] = "done"
    /\ <<i, kind>> \in Entries \ old
    /\ old' = old \cup {<<i, kind>>}
    /\ UNCHANGED <<requests, active, results, clients, version, process, faults>>

\* _cleanup compares modification times with the wall clock, the client waits by the
\* monotonic clock, and for less than half of that time.  A step of the wall clock makes
\* entries old whose clients are still there: any that its size is enough for.
ClockSteps(hit) ==
    /\ faults < MaxFaults
    /\ hit # {} /\ hit \subseteq Entries \ old
    /\ old' = old \cup hit
    /\ stepped' = stepped \cup {i \in Ids : /\ client[i] # "done"
                                           /\ \E kind \in Kinds : <<i, kind>> \in hit}
    /\ faults' = faults + 1
    /\ UNCHANGED <<requests, active, results, client, got, since, version, process>>

\* The apply worker commits another configuration (under the provisioning lock).
CommitConfig ==
    /\ version < MaxVersion
    /\ version' = version + 1
    /\ UNCHANGED <<requests, active, results, old, clients, process, faults>>

-----------------------------------------------------------------------------
(* The worker: drain_exports *)

\* The path unit sees a marker, or the one-minute timer elapses.
StartService ==
    /\ worker = "idle"
    /\ worker' = "recover" /\ finalize' = FALSE
    /\ UNCHANGED <<requests, active, results, old, clients, version, current, payload, faults>>

\* _finish_interrupted: a claimed request without an archive has failed.
FailClaim(i) ==
    /\ worker = "recover"
    /\ <<i, "request">> \in active /\ archive[i] = 0 /\ i \notin error
    /\ error' = error \cup {i}
    /\ UNCHANGED <<requests, active, archive, old, clients, version, process, faults>>

\* _finish_interrupted: every claim goes, a request after its error was published.
DiscardClaim(x) ==
    /\ worker = "recover"
    /\ x \in active
    /\ x[2] = "request" => Published(x[1])
    /\ active' = active \ {x}
    /\ UNCHANGED <<requests, results, old, clients, version, process, faults>>

BeginCleanup ==
    /\ worker = "recover" /\ active = {}
    /\ worker' = "cleanup" /\ current' = NoId /\ payload' = 0
    /\ UNCHANGED <<requests, active, results, old, clients, version, finalize, faults>>

\* Mutant: results are never expired.
CleanupRequestsOnly(i, kind) ==
    /\ worker = "cleanup"
    /\ <<i, kind>> \in old
    /\ request' = IF kind = "request" THEN request \ {i} ELSE request
    /\ ack' = IF kind = "ack" THEN ack \ {i} ELSE ack
    /\ old' = old \ {<<i, kind>>}
    /\ UNCHANGED <<active, results, clients, version, process, faults>>

\* _cleanup of one entry.  The random name it has in active/ for a moment
\* counts for nothing and the next start discards it.
Cleanup(i, kind) ==
    /\ worker = "cleanup"
    /\ <<i, kind>> \in old
    /\ request' = IF kind = "request" THEN request \ {i} ELSE request
    /\ ack' = IF kind = "ack" THEN ack \ {i} ELSE ack
    /\ archive' = IF kind = "archive" THEN [archive EXCEPT ![i] = 0] ELSE archive
    /\ error' = IF kind = "error" THEN error \ {i} ELSE error
    /\ old' = old \ {<<i, kind>>}
    /\ UNCHANGED <<active, clients, version, process, faults>>

\* The finalizer returns after cleanup, a worker starts draining.
CleanupDone ==
    /\ worker = "cleanup" /\ old = {}
    /\ worker' = IF finalize THEN "idle" ELSE "drain"
    /\ UNCHANGED <<requests, active, results, old, clients, version, current, payload, finalize,
                   faults>>

\* Mutant: the marker is deleted when it is picked up.
ClaimUnrecorded(i) ==
    /\ worker = "drain" /\ i \in request
    /\ request' = request \ {i}
    /\ old' = old \ {<<i, "request">>}
    /\ current' = i
    /\ worker' = IF Published(i) THEN "unlink_claim" ELSE "export"
    /\ UNCHANGED <<ack, active, results, clients, version, payload, finalize, faults>>

\* Claim a marker by renaming it into active/.  UUIDs are random, so "first in
\* name order" is any of them.
ClaimRequest(i) ==
    /\ worker = "drain" /\ i \in request
    /\ request' = request \ {i}
    /\ old' = old \ {<<i, "request">>}
    /\ active' = active \cup {<<i, "request">>}
    /\ current' = i
    /\ worker' = IF Published(i) THEN "unlink_claim" ELSE "export"
    /\ UNCHANGED <<ack, results, clients, version, payload, finalize, faults>>

ClaimAck(i) ==
    /\ worker = "drain" /\ i \in ack
    /\ ack' = ack \ {i}
    /\ old' = old \ {<<i, "ack">>}
    /\ active' = active \cup {<<i, "ack">>}
    /\ current' = i
    /\ worker' = "unlink_archive"
    /\ UNCHANGED <<request, results, clients, version, payload, finalize, faults>>

UnlinkArchive ==
    /\ worker = "unlink_archive"
    /\ archive' = [archive EXCEPT ![current] = 0]
    /\ old' = old \ {<<current, "archive">>}
    /\ worker' = "unlink_error"
    /\ UNCHANGED <<requests, active, error, clients, version, current, payload, finalize, faults>>

UnlinkError ==
    /\ worker = "unlink_error"
    /\ error' = error \ {current}
    /\ old' = old \ {<<current, "error">>}
    /\ worker' = "unlink_claim"
    /\ UNCHANGED <<requests, active, archive, clients, version, current, payload, finalize, faults>>

\* locked_export_config_bytes: one configuration, read under the provisioning lock
Export ==
    /\ worker = "export"
    /\ payload' = version
    /\ worker' = "publish"
    /\ UNCHANGED <<requests, active, results, old, clients, version, current, finalize, faults>>

\* _publish(archive): the rename makes the complete archive visible at once.
PublishArchive ==
    /\ worker = "publish"
    /\ archive' = [archive EXCEPT ![current] = payload]
    /\ worker' = "published"
    /\ UNCHANGED <<requests, active, error, old, clients, version, current, payload, finalize,
                   faults>>

\* Exporting or publishing raised: _publish(error)
PublishError ==
    /\ worker \in {"export", "publish"}
    /\ error' = error \cup {current}
    /\ worker' = "published"
    /\ UNCHANGED <<requests, active, archive, old, clients, version, current, payload, finalize,
                   faults>>

\* claimed.unlink()
Unclaim ==
    /\ worker \in {"published", "unlink_claim"}
    /\ active' = {x \in active : x[1] # current}
    /\ worker' = "drain"
    /\ UNCHANGED <<requests, results, old, clients, version, current, payload, finalize, faults>>

\* The queue is empty: the service stops.
DrainDone ==
    /\ worker = "drain" /\ request = {} /\ ack = {}
    /\ worker' = "stopped"
    /\ UNCHANGED <<requests, active, results, old, clients, version, current, payload, finalize,
                   faults>>

\* ExecStopPost runs after a clean exit, a failure and a timeout alike.
StopPost ==
    /\ worker = "stopped"
    /\ worker' = "recover" /\ finalize' = TRUE
    /\ UNCHANGED <<requests, active, results, old, clients, version, current, payload, faults>>

\* TimeoutStartSec, a kill, or an error that cannot be published; the locks go
\* with the process.  A finalizer that dies leaves the rest to the next start.
WorkerDies ==
    /\ faults < MaxFaults
    /\ worker \notin {"idle", "stopped"}
    /\ worker' = IF finalize THEN "idle" ELSE "stopped"
    /\ faults' = faults + 1
    /\ UNCHANGED <<requests, active, results, old, clients, version, current, payload, finalize>>

-----------------------------------------------------------------------------
ClientStep(i) == Submit(i) \/ SubmitBusy(i) \/ ReadResult(i) \/ GiveUp(i) \/ Acknowledge(i)

Resolve ==
    \/ \E i \in Ids : FailClaim(i)
    \/ \E x \in active : DiscardClaim(x)
    \/ BeginCleanup
    \/ \E i \in Ids, kind \in Kinds : Cleanup(i, kind)
    \/ CleanupDone

Drain ==
    \/ \E i \in Ids : ClaimRequest(i) \/ ClaimAck(i)
    \/ UnlinkArchive \/ UnlinkError
    \/ Export \/ PublishArchive \/ PublishError
    \/ Unclaim \/ DrainDone

Next ==
    \/ \E i \in Ids : ClientStep(i)
    \/ \E gone \in SUBSET Ids : ClientFault(gone)
    \/ \E i \in Ids, kind \in Kinds : Age(i, kind)
    \/ \E hit \in SUBSET (Entries \ old) : ClockSteps(hit)
    \/ CommitConfig
    \/ StartService \/ Resolve \/ Drain \/ StopPost
    \/ WorkerDies

Spec == Init /\ [][Next]_vars

\* The timer starts the service for ever and its steps end (TimeoutStartSec
\* kills one that does not, which is WorkerDies); a polling client reads a
\* result that is there, and one that leaves gets queue.lock in the end, which
\* is never held for long; entries without a client grow old.  Nobody has to
\* give up, and the clock need not step.  Fairness is asked of the clients together and of
\* all entries together, which is less than the code gives.
Progress ==
    /\ WF_vars(StopPost) /\ WF_vars(Resolve) /\ WF_vars(Drain)
    /\ WF_vars(\E i \in Ids : ReadResult(i)) /\ SF_vars(\E i \in Ids : Acknowledge(i))
    /\ WF_vars(\E i \in Ids, kind \in Kinds : Age(i, kind))

FairSpec == Spec /\ WF_vars(StartService) /\ Progress

-----------------------------------------------------------------------------
(* Properties *)

\* Every variable has its type, and an entry is old only while it exists.
TypeOK ==
    /\ request \subseteq Ids /\ ack \subseteq Ids /\ error \subseteq Ids
    /\ active \subseteq Ids \X Operations
    /\ archive \in [Ids -> 0 .. MaxVersion]
    /\ old \subseteq Entries
    /\ client \in [Ids -> {"new", "polling", "leaving", "done"}]
    /\ got \in [Ids -> 0 .. MaxVersion] /\ since \in [Ids -> 0 .. MaxVersion]
    /\ stepped \subseteq Ids /\ version \in 1 .. MaxVersion
    /\ worker \in {"idle", "recover", "cleanup", "drain", "unlink_archive", "unlink_error",
                   "unlink_claim", "export", "publish", "published", "stopped"}
    /\ current \in Ids \cup {NoId}
    /\ payload \in 0 .. MaxVersion
    /\ finalize \in BOOLEAN
    /\ faults \in 0 .. MaxFaults

\* The files under /run stay bounded: of the requests no clock step has hit, at most
\* MAX_EXPORTS have a marker, a claim or a result at any time, late results and
\* acknowledgements included.  One that was hit may hold one slot more.
SlotBound == Cardinality(Occupied \ stepped) <= MaxExports

\* In no step a UUID that has given up its slot takes one again: no result, error or
\* acknowledgement of a finished request turns up after cleanup.  The exception is the
\* acknowledgement, one per request, of a client whose entries a clock step expired.
StaysReleased ==
    \A i \in Ids : i \notin Occupied /\ client[i] # "new" /\ i \in Occupied' =>
                    i \in stepped /\ client[i] = "leaving" /\ client'[i] = "done"

\* A UUID never has both an archive and an error, whatever the worker was killed at.
OneResult == \A i \in Ids : ~(archive[i] > 0 /\ i \in error)

\* What a client returns was the committed configuration at some moment between
\* the admission of its request and its answer.
ExportIsFresh == \A i \in Ids : got[i] > 0 => got[i] \in since[i] .. version

\* Every slot is freed again, although clients vanish without acknowledging and
\* the worker is killed between any two file operations.
SlotsFreed == \A i \in Ids : (i \in Occupied) ~> (i \notin Occupied)

\* A request is answered while its client polls, without the client's timeout: a worker
\* that dies on it leaves an error instead of silence.  Only a step of the clock leaves a
\* client to its own deadline.
RequestAnswered ==
    \A i \in Ids : (i \in request) ~> (Published(i) \/ client[i] # "polling" \/ i \in stepped)
=============================================================================
