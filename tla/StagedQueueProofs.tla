------------------------- MODULE StagedQueueProofs -------------------------
(***************************************************************************)
(* Proofs about StagedQueue, for any finite set of jobs, any limit and any *)
(* number of dead processes.                                               *)
(***************************************************************************)
EXTENDS StagedQueue, FiniteSetTheorems, TLAPS

Begun == {j \in Jobs : stager[j] # "new"}

\* The types of TypeOK without its bounds, and the counters those bounds follow from
Typed ==
    /\ sequence \in Nat
    /\ reserve \in [Jobs -> Nat] /\ ready \in [Jobs -> Nat]
    /\ stale \subseteq Jobs /\ staging \subseteq Jobs
    /\ queued \subseteq Jobs /\ active \subseteq Jobs
    /\ results \in [Jobs -> {"none", "succeeded", "failed"}]
    /\ stager \in [Jobs -> {"new", "reserved", "checked", "loaded", "staging", "placed",
                            "failing", "clearing", "published", "failed", "dead"}]
    /\ base \in [Jobs -> Nat] /\ version \in Nat
    /\ applied \subseteq Jobs
    /\ worker \in {"idle", "apply", "publish", "clean", "down"}
    /\ waiter \in [Jobs -> {"off", "poll", "turn", "abandon", "presence",
                            "rereadAbandoned", "rereadMissing", "done"}]
    /\ outcome \in [Jobs -> {"none", "succeeded", "failed", "timedout", "missing"}]
    /\ claimed \subseteq Nat
    /\ faults \in 0 .. MaxFaults

Counts ==
    /\ sequence = Cardinality(Begun) /\ version = Cardinality(applied)
    /\ \A j \in Jobs : base[j] <= version

\* What the files say about the client that staged the job
Lifecycle ==
    \A j \in Jobs :
        /\ stager[j] \in Early \cup {"new"} =>
              ready[j] = 0 /\ j \notin active /\ j \notin applied /\ waiter[j] = "off"
              /\ outcome[j] = "none"
        /\ waiter[j] # "off" => stager[j] \in {"published", "failed"}
        /\ stager[j] \in {"new", "reserved", "checked", "loaded", "staging", "clearing",
                          "failed"} => j \notin queued
        /\ stager[j] \in {"new", "failed"} => reserve[j] = 0
        /\ j \in queued => j \notin active /\ j \notin applied

\* One claim at a time; a committed job keeps its claim until it has a result.
Service ==
    /\ \A j, k \in active : j = k
    /\ worker = "apply" => active \cap applied = {}
    /\ worker = "clean" => \A j \in active : results[j] # "none"
    /\ \A j \in applied : results[j] # "none" \/ j \in active

\* A waiter that found its job gone, or removed it, will not see it come back.
Gone(j) == j \notin queued /\ j \notin active

GivenUp ==
    \A j \in Jobs :
        /\ waiter[j] \in {"rereadAbandoned", "rereadMissing"} => Gone(j)
        /\ outcome[j] \in {"timedout", "missing"} => Gone(j) /\ j \notin applied

\* Places in the line are unique, and every claim so far was ahead of all that wait or may
\* still publish; a reservation left by a dead client may be the claimed job's own.
Waits(j) == ready[j] > 0 /\ j \in queued

Line ==
    /\ \A j \in Jobs : reserve[j] <= sequence /\ ready[j] <= sequence
    /\ \A m \in claimed : m <= sequence
    /\ \A j, k \in Jobs : j # k =>
          /\ reserve[j] > 0 => reserve[j] # reserve[k] /\ reserve[j] # ready[k]
          /\ ready[j] > 0 => ready[j] # ready[k]
    /\ \A m \in claimed : \A j \in Jobs :
          /\ stager[j] \in Early /\ reserve[j] > 0 => m < reserve[j]
          /\ Waits(j) => m < ready[j]

\* A partial update that found the queue empty is ahead of every other job as long as it
\* holds its place, so the configuration it was computed on stays the current one.
Holds(j) ==
    \/ stager[j] \in {"checked", "loaded", "staging", "placed"} /\ reserve[j] > 0
    \/ Waits(j)
Place(j) == IF ready[j] > 0 THEN ready[j] ELSE reserve[j]

Fresh ==
    \A j \in Partial :
        /\ Holds(j) => \A k \in Jobs \ {j} :
              k \notin active /\ (reserve[k] > 0 => Place(j) < reserve[k])
              /\ (Waits(k) => Place(j) < ready[k])
        /\ Holds(j) /\ stager[j] # "checked" => base[j] = version
        /\ worker = "apply" /\ j \in active => base[j] = version

IInv == Typed /\ Counts /\ Lifecycle /\ Service /\ GivenUp /\ Line /\ CapacityBound /\ Fresh

\* What a sweep leaves: a reservation stays as it is or goes, and a job whose staging it
\* removes had an expired reservation and was neither published nor claimed.
LEMMA SweptFacts ==
  ASSUME Typed
  PROVE  /\ SweptReserve \in [Jobs -> Nat]
         /\ \A j \in Jobs : SweptReserve[j] = 0 \/ SweptReserve[j] = reserve[j]
         /\ \A j \in Jobs : SweptReserve[j] > 0 => j \notin Unpublished
         /\ \A j \in Unpublished : j \in Jobs /\ ready[j] = 0 /\ j \notin active
                                   /\ SweptReserve[j] = 0
         /\ Unpublished \subseteq Jobs
  BY DEF Typed, SweptReserve, Swept, Unpublished

\* The job a claim takes has its directory and is ahead of all that wait.
LEMMA ClaimableFacts ==
  ASSUME Typed, NEW j \in Jobs, Claimable(j)
  PROVE  /\ j \in queued /\ ready[j] > 0
         /\ \A k \in Jobs : Waits(k) => ready[j] <= ready[k]
         /\ \A k \in Jobs : SweptReserve[k] > 0 => ready[j] <= SweptReserve[k]
  <1>1. SweptReserve \in [Jobs -> Nat]
    BY SweptFacts
  <1>2. ~Lower(ready[j], SweptReserve) /\ Head(j)
    BY DEF Claimable
  <1>3. ready[j] > 0 /\ j \in queued
    BY <1>2 DEF Head, StopsAt
  <1>4. \A k \in Jobs : Waits(k) => ready[j] <= ready[k]
    BY <1>2 DEF Head, StopsAt, Waits
  <1>5. \A k \in Jobs : SweptReserve[k] > 0 => ready[j] <= SweptReserve[k]
    BY <1>1, <1>2 DEF Lower, Typed
  <1> QED
    BY <1>3, <1>4, <1>5

\* The queue starts empty.
LEMMA InitIInv ==
  Init => IInv
  <1> SUFFICES ASSUME Init PROVE IInv
    OBVIOUS
  <1>1. Typed
    BY StagedQueueConstants DEF Init, Typed
  <1>2. Counts
    <2>1. Begun = {}
      BY DEF Init, Begun
    <2> QED
      BY <2>1, FS_EmptySet DEF Init, Counts
  <1>3. Lifecycle /\ Service /\ GivenUp
    BY DEF Init, Lifecycle, Service, GivenUp, Gone
  <1>4. Line /\ Fresh
    BY StagedQueueConstants DEF Init, Line, Fresh, Holds, Waits, Place
  <1>5. CapacityBound
    <2>1. {j \in Jobs : reserve[j] > 0 \/ (ready[j] > 0 /\ j \in queued) \/ j \in active} = {}
      BY DEF Init
    <2> QED
      BY <2>1, FS_EmptySet, StagedQueueConstants DEF CapacityBound
  <1> QED
    BY <1>1, <1>2, <1>3, <1>4, <1>5 DEF IInv

\* Every step keeps the types.
LEMMA TypedStep ==
  ASSUME IInv, [Next]_vars
  PROVE  Typed'
  <1>0. Typed
    BY DEF IInv
  <1>1. ASSUME NEW j \in Jobs, ReserveSlot(j)
        PROVE  Typed'
    BY <1>1, <1>0, StagedQueueConstants, SweptFacts DEF ReserveSlot, Goes, Sweep, config,
       waiting, Typed
  <1>2. ASSUME NEW j \in Jobs, RequireEmptyQueue(j)
        PROVE  Typed'
    BY <1>2, <1>0, StagedQueueConstants, SweptFacts DEF RequireEmptyQueue, Goes, Sweep,
       config, waiting, Typed
  <1>3. ASSUME NEW j \in Jobs, LoadCurrent(j)
        PROVE  Typed'
    BY <1>3, <1>0, StagedQueueConstants DEF LoadCurrent, Goes, files, config, waiting, Typed
  <1>4. ASSUME NEW j \in Jobs, RenderCandidate(j)
        PROVE  Typed'
    BY <1>4, <1>0, StagedQueueConstants DEF RenderCandidate, Goes, config, waiting, Typed
  <1>5. ASSUME NEW j \in Jobs, PlaceJob(j)
        PROVE  Typed'
    BY <1>5, <1>0, StagedQueueConstants DEF PlaceJob, Goes, config, waiting, Typed
  <1>6. ASSUME NEW j \in Jobs, PublishReady(j)
        PROVE  Typed'
    BY <1>6, <1>0, StagedQueueConstants, SweptFacts DEF PublishReady, Goes, Sweep, config,
       Typed
  <1>7. ASSUME NEW j \in Jobs, StagingFails(j)
        PROVE  Typed'
    BY <1>7, <1>0, StagedQueueConstants DEF StagingFails, Early, config, waiting, Typed
  <1>8. ASSUME NEW j \in Jobs, RefreshSlot(j)
        PROVE  Typed'
    BY <1>8, <1>0, StagedQueueConstants DEF RefreshSlot, Early, client, config, waiting, Typed
  <1>9. ASSUME NEW j \in Jobs, SlotExpires(j)
        PROVE  Typed'
    BY <1>9, <1>0, StagedQueueConstants DEF SlotExpires, client, config, waiting, Typed
  <1>10. ASSUME NEW j \in Jobs, ClientDies(j)
        PROVE  Typed'
    BY <1>10, <1>0, StagedQueueConstants DEF ClientDies, Early, files, config, Typed
  <1>11. ASSUME NEW j \in Jobs, ClaimNextJob(j)
        PROVE  Typed'
    <2>1. UNCHANGED <<sequence, results, stager, base, version, applied, waiter, outcome, faults>>
      BY <1>11 DEF ClaimNextJob, client, config, waiting
    <2>2. reserve' \in [Jobs -> Nat]
      BY <1>11, <1>0, SweptFacts DEF ClaimNextJob, Sweep
    <2>3. ready' \in [Jobs -> Nat] /\ claimed' \subseteq Nat
      BY <1>11, <1>0 DEF ClaimNextJob, ReadyWithout, Typed
    <2>4. /\ stale' \subseteq Jobs /\ staging' \subseteq Jobs /\ queued' \subseteq Jobs
          /\ active' \subseteq Jobs /\ worker' = "apply"
      BY <1>11, <1>0 DEF ClaimNextJob, Sweep, Typed
    <2> QED
      BY <2>1, <2>2, <2>3, <2>4, <1>0 DEF Typed
  <1>12. ASSUME NEW j \in Jobs, ClaimDies(j)
        PROVE  Typed'
    <2>1. faults' \in 0 .. MaxFaults
      BY <1>12, <1>0, StagedQueueConstants DEF ClaimDies, Typed
    <2>2. UNCHANGED <<sequence, results, stager, base, version, applied, waiter, outcome>>
      BY <1>12 DEF ClaimDies, client, config, waiting
    <2>3. /\ reserve' \in [Jobs -> Nat]
          /\ ready' \in [Jobs -> Nat] /\ claimed' \subseteq Nat
      <3>1. reserve' \in [Jobs -> Nat]
        BY <1>12, <1>0, SweptFacts DEF ClaimDies, Sweep
      <3>2. ready' \in [Jobs -> Nat] /\ claimed' \subseteq Nat
        BY <1>12, <1>0 DEF ClaimDies, ReadyWithout, Typed
      <3> QED
        BY <3>1, <3>2
    <2>4. /\ stale' \subseteq Jobs /\ staging' \subseteq Jobs /\ queued' \subseteq Jobs
          /\ active' \subseteq Jobs /\ worker' = "down"
      BY <1>12, <1>0 DEF ClaimDies, Sweep, Typed
    <2> QED
      BY <2>1, <2>2, <2>3, <2>4, <1>0 DEF Typed
  <1>13. CASE ClaimNothing
    BY <1>13, <1>0, StagedQueueConstants, SweptFacts DEF ClaimNothing, Sweep, ReadyWithout,
       client, config, waiting, Typed
  <1>14. ASSUME NEW j \in Jobs, ApplyCommits(j)
        PROVE  Typed'
    BY <1>14, <1>0, StagedQueueConstants DEF ApplyCommits, files, client, waiting, Typed
  <1>15. CASE ApplyFails
    BY <1>15, <1>0, StagedQueueConstants DEF ApplyFails, files, client, config, waiting,
       Typed
  <1>16. ASSUME NEW j \in Jobs, WriteResult(j)
        PROVE  Typed'
    BY <1>16, <1>0, StagedQueueConstants DEF WriteResult, Answer, files, client, config,
       waiting, Typed
  <1>17. CASE CleanupClaimedJob
    BY <1>17, <1>0, StagedQueueConstants DEF CleanupClaimedJob, files, client, config,
       waiting, Typed
  <1>18. CASE FinalizeAbandoned
    BY <1>18, <1>0, StagedQueueConstants DEF FinalizeAbandoned, Answer, files, client,
       config, waiting, Typed
  <1>19. CASE WorkerDies
    BY <1>19, <1>0, StagedQueueConstants DEF WorkerDies, files, client, config, waiting,
       Typed
  <1>20. ASSUME NEW j \in Jobs, ReadResult(j)
        PROVE  Typed'
    BY <1>20, <1>0, StagedQueueConstants DEF ReadResult, files, others, client, config,
       Typed
  <1>21. ASSUME NEW j \in Jobs, CheckPresence(j)
        PROVE  Typed'
    BY <1>21, <1>0, StagedQueueConstants DEF CheckPresence, Moves, files, others, client,
       config, Typed
  <1>22. ASSUME NEW j \in Jobs, CheckTurn(j)
        PROVE  Typed'
    BY <1>22, <1>0, StagedQueueConstants, SweptFacts DEF CheckTurn, Moves, Sweep, others,
       client, config, Typed
  <1>23. ASSUME NEW j \in Jobs, TryAbandon(j)
        PROVE  Typed'
    BY <1>23, <1>0, StagedQueueConstants DEF TryAbandon, Moves, Presence, others, client,
       config, Typed
  <1>24. ASSUME NEW j \in Jobs, AbandonDies(j)
        PROVE  Typed'
    BY <1>24, <1>0, StagedQueueConstants DEF AbandonDies, Moves, Presence, client, config,
       Typed
  <1>25. ASSUME NEW j \in Jobs, FinalPresence(j)
        PROVE  Typed'
    BY <1>25, <1>0, StagedQueueConstants DEF FinalPresence, Moves, Presence, files, others,
       client, config, Typed
  <1>26. ASSUME NEW j \in Jobs, GiveUp(j)
        PROVE  Typed'
    BY <1>26, <1>0, StagedQueueConstants DEF GiveUp, files, others, client, config, Typed
  <1>27. ASSUME NEW j \in Jobs, RecoverJob(j)
        PROVE  Typed'
    BY <1>27, <1>0, StagedQueueConstants DEF RecoverJob, files, others, client, config,
       Typed
  <1>31. ASSUME NEW j \in Jobs, PublishDies(j)
        PROVE  Typed'
    BY <1>31, <1>0, StagedQueueConstants, SweptFacts DEF PublishDies, Goes, Sweep,
       config, waiting, Typed, Early
  <1>32. ASSUME NEW j \in Jobs, PublishFails(j)
        PROVE  Typed'
    BY <1>32, <1>0, StagedQueueConstants, SweptFacts DEF PublishFails, Goes, Sweep,
       config, waiting, Typed, Early
  <1>33. ASSUME NEW j \in Jobs, WaitFails(j)
        PROVE  Typed'
    BY <1>33, <1>0, StagedQueueConstants DEF WaitFails, config, Typed, Early
  <1>34. ASSUME NEW j \in Jobs, ClearMarkers(j)
        PROVE  Typed'
    BY <1>34, <1>0, StagedQueueConstants DEF ClearMarkers, Goes, config, waiting, Typed,
       Early
  <1>28. CASE UNCHANGED vars
    BY <1>28, <1>0 DEF vars, files, client, config, waiting, Typed
  <1> QED
    BY <1>1, <1>2, <1>3, <1>4, <1>5, <1>6, <1>7, <1>8, <1>9, <1>10, <1>11, <1>12, <1>13,
       <1>14, <1>15, <1>16, <1>17, <1>18, <1>19, <1>20, <1>21, <1>22, <1>23, <1>24,
       <1>25, <1>26, <1>27, <1>28, <1>31, <1>32, <1>33, <1>34 DEF Next, Staging,
       Serving, Waiting

\* Every step keeps files and clients in agreement.
LEMMA LifecycleStep ==
  ASSUME IInv, [Next]_vars
  PROVE  Lifecycle'
  <1>0. Typed /\ Lifecycle
    BY DEF IInv
  <1>1. ASSUME NEW j \in Jobs, ReserveSlot(j)
        PROVE  Lifecycle'
    BY <1>1, <1>0, StagedQueueConstants, SweptFacts DEF ReserveSlot, Goes, Sweep, config,
       waiting, Typed, Early, Lifecycle
  <1>2. ASSUME NEW j \in Jobs, RequireEmptyQueue(j)
        PROVE  Lifecycle'
    BY <1>2, <1>0, StagedQueueConstants, SweptFacts DEF RequireEmptyQueue, Goes, Sweep,
       config, waiting, Typed, Early, Lifecycle
  <1>3. ASSUME NEW j \in Jobs, LoadCurrent(j)
        PROVE  Lifecycle'
    BY <1>3, <1>0, StagedQueueConstants DEF LoadCurrent, Goes, files, config, waiting,
       Typed, Early, Lifecycle
  <1>4. ASSUME NEW j \in Jobs, RenderCandidate(j)
        PROVE  Lifecycle'
    BY <1>4, <1>0, StagedQueueConstants DEF RenderCandidate, Goes, config, waiting, Typed,
       Early, Lifecycle
  <1>5. ASSUME NEW j \in Jobs, PlaceJob(j)
        PROVE  Lifecycle'
    BY <1>5, <1>0, StagedQueueConstants DEF PlaceJob, Goes, config, waiting, Typed,
       Early, Lifecycle
  <1>6. ASSUME NEW j \in Jobs, PublishReady(j)
        PROVE  Lifecycle'
    BY <1>6, <1>0, StagedQueueConstants, SweptFacts DEF PublishReady, Goes, Sweep, config,
       Typed, Early, Lifecycle
  <1>7. ASSUME NEW j \in Jobs, StagingFails(j)
        PROVE  Lifecycle'
    BY <1>7, <1>0, StagedQueueConstants DEF StagingFails, config, waiting, Typed, Early, Lifecycle
  <1>8. ASSUME NEW j \in Jobs, RefreshSlot(j)
        PROVE  Lifecycle'
    BY <1>8, <1>0, StagedQueueConstants DEF RefreshSlot, client, config, waiting, Typed,
       Early, Lifecycle
  <1>9. ASSUME NEW j \in Jobs, SlotExpires(j)
        PROVE  Lifecycle'
    BY <1>9, <1>0, StagedQueueConstants DEF SlotExpires, client, config, waiting, Typed,
       Early, Lifecycle
  <1>10. ASSUME NEW j \in Jobs, ClientDies(j)
        PROVE  Lifecycle'
    BY <1>10, <1>0, StagedQueueConstants DEF ClientDies, files, config, Typed, Early, Lifecycle
  <1>11. ASSUME NEW j \in Jobs, ClaimNextJob(j)
        PROVE  Lifecycle'
    BY <1>11, <1>0, StagedQueueConstants, SweptFacts, ClaimableFacts DEF ClaimNextJob,
       Sweep, ReadyWithout, client, config, waiting, Typed, Early, Lifecycle
  <1>12. ASSUME NEW j \in Jobs, ClaimDies(j)
        PROVE  Lifecycle'
    BY <1>12, <1>0, StagedQueueConstants, SweptFacts, ClaimableFacts DEF ClaimDies, Sweep,
       ReadyWithout, client, config, waiting, Typed, Early, Lifecycle
  <1>13. CASE ClaimNothing
    BY <1>13, <1>0, StagedQueueConstants, SweptFacts DEF ClaimNothing, Sweep, ReadyWithout,
       client, config, waiting, Typed, Early, Lifecycle
  <1>14. ASSUME NEW j \in Jobs, ApplyCommits(j)
        PROVE  Lifecycle'
    BY <1>14, <1>0, StagedQueueConstants DEF ApplyCommits, files, client, waiting, Typed,
       Early, Lifecycle
  <1>15. CASE ApplyFails
    BY <1>15, <1>0, StagedQueueConstants DEF ApplyFails, files, client, config, waiting,
       Typed, Early, Lifecycle
  <1>16. ASSUME NEW j \in Jobs, WriteResult(j)
        PROVE  Lifecycle'
    BY <1>16, <1>0, StagedQueueConstants DEF WriteResult, Answer, files, client, config,
       waiting, Typed, Early, Lifecycle
  <1>17. CASE CleanupClaimedJob
    BY <1>17, <1>0, StagedQueueConstants DEF CleanupClaimedJob, files, client, config,
       waiting, Typed, Early, Lifecycle
  <1>18. CASE FinalizeAbandoned
    BY <1>18, <1>0, StagedQueueConstants DEF FinalizeAbandoned, Answer, files, client,
       config, waiting, Typed, Early, Lifecycle
  <1>19. CASE WorkerDies
    BY <1>19, <1>0, StagedQueueConstants DEF WorkerDies, files, client, config, waiting,
       Typed, Early, Lifecycle
  <1>20. ASSUME NEW j \in Jobs, ReadResult(j)
        PROVE  Lifecycle'
    BY <1>20, <1>0, StagedQueueConstants DEF ReadResult, files, others, client, config,
       Typed, Early, Lifecycle
  <1>21. ASSUME NEW j \in Jobs, CheckPresence(j)
        PROVE  Lifecycle'
    BY <1>21, <1>0, StagedQueueConstants DEF CheckPresence, Moves, files, others, client,
       config, Typed, Early, Lifecycle
  <1>22. ASSUME NEW j \in Jobs, CheckTurn(j)
        PROVE  Lifecycle'
    BY <1>22, <1>0, StagedQueueConstants, SweptFacts DEF CheckTurn, Moves, Sweep, others,
       client, config, Typed, Early, Lifecycle
  <1>23. ASSUME NEW j \in Jobs, TryAbandon(j)
        PROVE  Lifecycle'
    BY <1>23, <1>0, StagedQueueConstants DEF TryAbandon, Moves, Presence, others, client,
       config, Typed, Early, Lifecycle
  <1>24. ASSUME NEW j \in Jobs, AbandonDies(j)
        PROVE  Lifecycle'
    BY <1>24, <1>0, StagedQueueConstants DEF AbandonDies, Moves, Presence, client, config,
       Typed, Early, Lifecycle
  <1>25. ASSUME NEW j \in Jobs, FinalPresence(j)
        PROVE  Lifecycle'
    BY <1>25, <1>0, StagedQueueConstants DEF FinalPresence, Moves, Presence, files, others,
       client, config, Typed, Early, Lifecycle
  <1>26. ASSUME NEW j \in Jobs, GiveUp(j)
        PROVE  Lifecycle'
    BY <1>26, <1>0, StagedQueueConstants DEF GiveUp, files, others, client, config, Typed,
       Early, Lifecycle
  <1>27. ASSUME NEW j \in Jobs, RecoverJob(j)
        PROVE  Lifecycle'
    BY <1>27, <1>0, StagedQueueConstants DEF RecoverJob, files, others, client, config,
       Typed, Early, Lifecycle
  <1>31. ASSUME NEW j \in Jobs, PublishDies(j)
        PROVE  Lifecycle'
    BY <1>31, <1>0, StagedQueueConstants, SweptFacts DEF PublishDies, Goes, Sweep,
       config, waiting, Typed, Early, Lifecycle
  <1>32. ASSUME NEW j \in Jobs, PublishFails(j)
        PROVE  Lifecycle'
    BY <1>32, <1>0, StagedQueueConstants, SweptFacts DEF PublishFails, Goes, Sweep,
       config, waiting, Typed, Early, Lifecycle
  <1>33. ASSUME NEW j \in Jobs, WaitFails(j)
        PROVE  Lifecycle'
    BY <1>33, <1>0, StagedQueueConstants DEF WaitFails, config, Typed, Early, Lifecycle
  <1>34. ASSUME NEW j \in Jobs, ClearMarkers(j)
        PROVE  Lifecycle'
    BY <1>34, <1>0, StagedQueueConstants DEF ClearMarkers, Goes, config, waiting, Typed,
       Early, Lifecycle
  <1>28. CASE UNCHANGED vars
    BY <1>28, <1>0 DEF vars, files, client, config, waiting, Typed, Early, Lifecycle
  <1> QED
    BY <1>1, <1>2, <1>3, <1>4, <1>5, <1>6, <1>7, <1>8, <1>9, <1>10, <1>11, <1>12, <1>13,
       <1>14, <1>15, <1>16, <1>17, <1>18, <1>19, <1>20, <1>21, <1>22, <1>23, <1>24,
       <1>25, <1>26, <1>27, <1>28, <1>31, <1>32, <1>33, <1>34 DEF Next, Staging,
       Serving, Waiting

\* Every step keeps the claim of a committed job until its result is written.
LEMMA ServiceStep ==
  ASSUME IInv, [Next]_vars
  PROVE  Service'
  <1>0. Typed /\ Lifecycle /\ Service
    BY DEF IInv
  <1>1. ASSUME NEW j \in Jobs, ReserveSlot(j)
        PROVE  Service'
    BY <1>1, <1>0, StagedQueueConstants, SweptFacts DEF ReserveSlot, Goes, Sweep, config,
       waiting, Typed, Early, Lifecycle, Service
  <1>2. ASSUME NEW j \in Jobs, RequireEmptyQueue(j)
        PROVE  Service'
    BY <1>2, <1>0, StagedQueueConstants, SweptFacts DEF RequireEmptyQueue, Goes, Sweep,
       config, waiting, Typed, Early, Lifecycle, Service
  <1>3. ASSUME NEW j \in Jobs, LoadCurrent(j)
        PROVE  Service'
    BY <1>3, <1>0, StagedQueueConstants DEF LoadCurrent, Goes, files, config, waiting,
       Typed, Early, Lifecycle, Service
  <1>4. ASSUME NEW j \in Jobs, RenderCandidate(j)
        PROVE  Service'
    BY <1>4, <1>0, StagedQueueConstants DEF RenderCandidate, Goes, config, waiting, Typed,
       Early, Lifecycle, Service
  <1>5. ASSUME NEW j \in Jobs, PlaceJob(j)
        PROVE  Service'
    BY <1>5, <1>0, StagedQueueConstants DEF PlaceJob, Goes, config, waiting, Typed,
       Early, Lifecycle, Service
  <1>6. ASSUME NEW j \in Jobs, PublishReady(j)
        PROVE  Service'
    BY <1>6, <1>0, StagedQueueConstants, SweptFacts DEF PublishReady, Goes, Sweep, config,
       Typed, Early, Lifecycle, Service
  <1>7. ASSUME NEW j \in Jobs, StagingFails(j)
        PROVE  Service'
    BY <1>7, <1>0, StagedQueueConstants DEF StagingFails, config, waiting, Typed, Early, Lifecycle,
       Service
  <1>8. ASSUME NEW j \in Jobs, RefreshSlot(j)
        PROVE  Service'
    BY <1>8, <1>0, StagedQueueConstants DEF RefreshSlot, client, config, waiting, Typed,
       Early, Lifecycle, Service
  <1>9. ASSUME NEW j \in Jobs, SlotExpires(j)
        PROVE  Service'
    BY <1>9, <1>0, StagedQueueConstants DEF SlotExpires, client, config, waiting, Typed,
       Early, Lifecycle, Service
  <1>10. ASSUME NEW j \in Jobs, ClientDies(j)
        PROVE  Service'
    BY <1>10, <1>0, StagedQueueConstants DEF ClientDies, files, config, Typed, Early, Lifecycle,
       Service
  <1>11. ASSUME NEW j \in Jobs, ClaimNextJob(j)
        PROVE  Service'
    BY <1>11, <1>0, StagedQueueConstants, SweptFacts, ClaimableFacts DEF ClaimNextJob,
       Sweep, ReadyWithout, client, config, waiting, Typed, Early, Lifecycle, Service
  <1>12. ASSUME NEW j \in Jobs, ClaimDies(j)
        PROVE  Service'
    BY <1>12, <1>0, StagedQueueConstants, SweptFacts, ClaimableFacts DEF ClaimDies, Sweep,
       ReadyWithout, client, config, waiting, Typed, Early, Lifecycle, Service
  <1>13. CASE ClaimNothing
    BY <1>13, <1>0, StagedQueueConstants, SweptFacts DEF ClaimNothing, Sweep, ReadyWithout,
       client, config, waiting, Typed, Early, Lifecycle, Service
  <1>14. ASSUME NEW j \in Jobs, ApplyCommits(j)
        PROVE  Service'
    BY <1>14, <1>0, StagedQueueConstants DEF ApplyCommits, files, client, waiting, Typed,
       Early, Lifecycle, Service
  <1>15. CASE ApplyFails
    BY <1>15, <1>0, StagedQueueConstants DEF ApplyFails, files, client, config, waiting,
       Typed, Early, Lifecycle, Service
  <1>16. ASSUME NEW j \in Jobs, WriteResult(j)
        PROVE  Service'
    BY <1>16, <1>0, StagedQueueConstants DEF WriteResult, Answer, files, client, config,
       waiting, Typed, Early, Lifecycle, Service
  <1>17. CASE CleanupClaimedJob
    BY <1>17, <1>0, StagedQueueConstants DEF CleanupClaimedJob, files, client, config,
       waiting, Typed, Early, Lifecycle, Service
  <1>18. CASE FinalizeAbandoned
    BY <1>18, <1>0, StagedQueueConstants DEF FinalizeAbandoned, Answer, files, client,
       config, waiting, Typed, Early, Lifecycle, Service
  <1>19. CASE WorkerDies
    BY <1>19, <1>0, StagedQueueConstants DEF WorkerDies, files, client, config, waiting,
       Typed, Early, Lifecycle, Service
  <1>20. ASSUME NEW j \in Jobs, ReadResult(j)
        PROVE  Service'
    BY <1>20, <1>0, StagedQueueConstants DEF ReadResult, files, others, client, config,
       Typed, Early, Lifecycle, Service
  <1>21. ASSUME NEW j \in Jobs, CheckPresence(j)
        PROVE  Service'
    BY <1>21, <1>0, StagedQueueConstants DEF CheckPresence, Moves, files, others, client,
       config, Typed, Early, Lifecycle, Service
  <1>22. ASSUME NEW j \in Jobs, CheckTurn(j)
        PROVE  Service'
    BY <1>22, <1>0, StagedQueueConstants, SweptFacts DEF CheckTurn, Moves, Sweep, others,
       client, config, Typed, Early, Lifecycle, Service
  <1>23. ASSUME NEW j \in Jobs, TryAbandon(j)
        PROVE  Service'
    BY <1>23, <1>0, StagedQueueConstants DEF TryAbandon, Moves, Presence, others, client,
       config, Typed, Early, Lifecycle, Service
  <1>24. ASSUME NEW j \in Jobs, AbandonDies(j)
        PROVE  Service'
    BY <1>24, <1>0, StagedQueueConstants DEF AbandonDies, Moves, Presence, client, config,
       Typed, Early, Lifecycle, Service
  <1>25. ASSUME NEW j \in Jobs, FinalPresence(j)
        PROVE  Service'
    BY <1>25, <1>0, StagedQueueConstants DEF FinalPresence, Moves, Presence, files, others,
       client, config, Typed, Early, Lifecycle, Service
  <1>26. ASSUME NEW j \in Jobs, GiveUp(j)
        PROVE  Service'
    BY <1>26, <1>0, StagedQueueConstants DEF GiveUp, files, others, client, config, Typed,
       Early, Lifecycle, Service
  <1>27. ASSUME NEW j \in Jobs, RecoverJob(j)
        PROVE  Service'
    BY <1>27, <1>0, StagedQueueConstants DEF RecoverJob, files, others, client, config,
       Typed, Early, Lifecycle, Service
  <1>31. ASSUME NEW j \in Jobs, PublishDies(j)
        PROVE  Service'
    BY <1>31, <1>0, StagedQueueConstants, SweptFacts DEF PublishDies, Goes, Sweep,
       config, waiting, Typed, Early, Lifecycle, Service
  <1>32. ASSUME NEW j \in Jobs, PublishFails(j)
        PROVE  Service'
    BY <1>32, <1>0, StagedQueueConstants, SweptFacts DEF PublishFails, Goes, Sweep,
       config, waiting, Typed, Early, Lifecycle, Service
  <1>33. ASSUME NEW j \in Jobs, WaitFails(j)
        PROVE  Service'
    BY <1>33, <1>0, StagedQueueConstants DEF WaitFails, config, Typed, Early, Lifecycle,
       Service
  <1>34. ASSUME NEW j \in Jobs, ClearMarkers(j)
        PROVE  Service'
    BY <1>34, <1>0, StagedQueueConstants DEF ClearMarkers, Goes, config, waiting, Typed,
       Early, Lifecycle, Service
  <1>28. CASE UNCHANGED vars
    BY <1>28, <1>0 DEF vars, files, client, config, waiting, Typed, Early, Lifecycle, Service
  <1> QED
    BY <1>1, <1>2, <1>3, <1>4, <1>5, <1>6, <1>7, <1>8, <1>9, <1>10, <1>11, <1>12, <1>13,
       <1>14, <1>15, <1>16, <1>17, <1>18, <1>19, <1>20, <1>21, <1>22, <1>23, <1>24,
       <1>25, <1>26, <1>27, <1>28, <1>31, <1>32, <1>33, <1>34 DEF Next, Staging,
       Serving, Waiting

\* A job that was given up never returns to the queue or to the worker.
LEMMA GivenUpStep ==
  ASSUME IInv, [Next]_vars
  PROVE  GivenUp'
  <1>0. Typed /\ Lifecycle /\ Service /\ GivenUp
    BY DEF IInv
  <1>1. ASSUME NEW j \in Jobs, ReserveSlot(j)
        PROVE  GivenUp'
    BY <1>1, <1>0, StagedQueueConstants, SweptFacts DEF ReserveSlot, Goes, Sweep, config,
       waiting, Typed, Early, Lifecycle, Service, GivenUp, Gone
  <1>2. ASSUME NEW j \in Jobs, RequireEmptyQueue(j)
        PROVE  GivenUp'
    BY <1>2, <1>0, StagedQueueConstants, SweptFacts DEF RequireEmptyQueue, Goes, Sweep,
       config, waiting, Typed, Early, Lifecycle, Service, GivenUp, Gone
  <1>3. ASSUME NEW j \in Jobs, LoadCurrent(j)
        PROVE  GivenUp'
    BY <1>3, <1>0, StagedQueueConstants DEF LoadCurrent, Goes, files, config, waiting,
       Typed, Early, Lifecycle, Service, GivenUp, Gone
  <1>4. ASSUME NEW j \in Jobs, RenderCandidate(j)
        PROVE  GivenUp'
    BY <1>4, <1>0, StagedQueueConstants DEF RenderCandidate, Goes, config, waiting, Typed,
       Early, Lifecycle, Service, GivenUp, Gone
  <1>5. ASSUME NEW j \in Jobs, PlaceJob(j)
        PROVE  GivenUp'
    BY <1>5, <1>0, StagedQueueConstants DEF PlaceJob, Goes, config, waiting, Typed,
       Early, Lifecycle, Service, GivenUp, Gone
  <1>6. ASSUME NEW j \in Jobs, PublishReady(j)
        PROVE  GivenUp'
    BY <1>6, <1>0, StagedQueueConstants, SweptFacts DEF PublishReady, Goes, Sweep, config,
       Typed, Early, Lifecycle, Service, GivenUp, Gone
  <1>7. ASSUME NEW j \in Jobs, StagingFails(j)
        PROVE  GivenUp'
    BY <1>7, <1>0, StagedQueueConstants DEF StagingFails, config, waiting, Typed, Early, Lifecycle,
       Service, GivenUp, Gone
  <1>8. ASSUME NEW j \in Jobs, RefreshSlot(j)
        PROVE  GivenUp'
    BY <1>8, <1>0, StagedQueueConstants DEF RefreshSlot, client, config, waiting, Typed,
       Early, Lifecycle, Service, GivenUp, Gone
  <1>9. ASSUME NEW j \in Jobs, SlotExpires(j)
        PROVE  GivenUp'
    BY <1>9, <1>0, StagedQueueConstants DEF SlotExpires, client, config, waiting, Typed,
       Early, Lifecycle, Service, GivenUp, Gone
  <1>10. ASSUME NEW j \in Jobs, ClientDies(j)
        PROVE  GivenUp'
    BY <1>10, <1>0, StagedQueueConstants DEF ClientDies, files, config, Typed, Early, Lifecycle,
       Service, GivenUp, Gone
  <1>11. ASSUME NEW j \in Jobs, ClaimNextJob(j)
        PROVE  GivenUp'
    BY <1>11, <1>0, StagedQueueConstants, SweptFacts, ClaimableFacts DEF ClaimNextJob,
       Sweep, ReadyWithout, client, config, waiting, Typed, Early, Lifecycle, Service, GivenUp,
       Gone
  <1>12. ASSUME NEW j \in Jobs, ClaimDies(j)
        PROVE  GivenUp'
    BY <1>12, <1>0, StagedQueueConstants, SweptFacts, ClaimableFacts DEF ClaimDies, Sweep,
       ReadyWithout, client, config, waiting, Typed, Early, Lifecycle, Service, GivenUp, Gone
  <1>13. CASE ClaimNothing
    BY <1>13, <1>0, StagedQueueConstants, SweptFacts DEF ClaimNothing, Sweep, ReadyWithout,
       client, config, waiting, Typed, Early, Lifecycle, Service, GivenUp, Gone
  <1>14. ASSUME NEW j \in Jobs, ApplyCommits(j)
        PROVE  GivenUp'
    BY <1>14, <1>0, StagedQueueConstants DEF ApplyCommits, files, client, waiting, Typed,
       Early, Lifecycle, Service, GivenUp, Gone
  <1>15. CASE ApplyFails
    BY <1>15, <1>0, StagedQueueConstants DEF ApplyFails, files, client, config, waiting,
       Typed, Early, Lifecycle, Service, GivenUp, Gone
  <1>16. ASSUME NEW j \in Jobs, WriteResult(j)
        PROVE  GivenUp'
    BY <1>16, <1>0, StagedQueueConstants DEF WriteResult, Answer, files, client, config,
       waiting, Typed, Early, Lifecycle, Service, GivenUp, Gone
  <1>17. CASE CleanupClaimedJob
    BY <1>17, <1>0, StagedQueueConstants DEF CleanupClaimedJob, files, client, config,
       waiting, Typed, Early, Lifecycle, Service, GivenUp, Gone
  <1>18. CASE FinalizeAbandoned
    BY <1>18, <1>0, StagedQueueConstants DEF FinalizeAbandoned, Answer, files, client,
       config, waiting, Typed, Early, Lifecycle, Service, GivenUp, Gone
  <1>19. CASE WorkerDies
    BY <1>19, <1>0, StagedQueueConstants DEF WorkerDies, files, client, config, waiting,
       Typed, Early, Lifecycle, Service, GivenUp, Gone
  <1>20. ASSUME NEW j \in Jobs, ReadResult(j)
        PROVE  GivenUp'
    BY <1>20, <1>0, StagedQueueConstants DEF ReadResult, files, others, client, config,
       Typed, Early, Lifecycle, Service, GivenUp, Gone
  <1>21. ASSUME NEW j \in Jobs, CheckPresence(j)
        PROVE  GivenUp'
    BY <1>21, <1>0, StagedQueueConstants DEF CheckPresence, Moves, files, others, client,
       config, Typed, Early, Lifecycle, Service, GivenUp, Gone
  <1>22. ASSUME NEW j \in Jobs, CheckTurn(j)
        PROVE  GivenUp'
    BY <1>22, <1>0, StagedQueueConstants, SweptFacts DEF CheckTurn, Moves, Sweep, others,
       client, config, Typed, Early, Lifecycle, Service, GivenUp, Gone
  <1>23. ASSUME NEW j \in Jobs, TryAbandon(j)
        PROVE  GivenUp'
    BY <1>23, <1>0, StagedQueueConstants DEF TryAbandon, Moves, Presence, others, client,
       config, Typed, Early, Lifecycle, Service, GivenUp, Gone
  <1>24. ASSUME NEW j \in Jobs, AbandonDies(j)
        PROVE  GivenUp'
    BY <1>24, <1>0, StagedQueueConstants DEF AbandonDies, Moves, Presence, client, config,
       Typed, Early, Lifecycle, Service, GivenUp, Gone
  <1>25. ASSUME NEW j \in Jobs, FinalPresence(j)
        PROVE  GivenUp'
    BY <1>25, <1>0, StagedQueueConstants DEF FinalPresence, Moves, Presence, files, others,
       client, config, Typed, Early, Lifecycle, Service, GivenUp, Gone
  <1>26. ASSUME NEW j \in Jobs, GiveUp(j)
        PROVE  GivenUp'
    BY <1>26, <1>0, StagedQueueConstants DEF GiveUp, files, others, client, config, Typed,
       Early, Lifecycle, Service, GivenUp, Gone
  <1>27. ASSUME NEW j \in Jobs, RecoverJob(j)
        PROVE  GivenUp'
    BY <1>27, <1>0, StagedQueueConstants DEF RecoverJob, files, others, client, config,
       Typed, Early, Lifecycle, Service, GivenUp, Gone
  <1>31. ASSUME NEW j \in Jobs, PublishDies(j)
        PROVE  GivenUp'
    BY <1>31, <1>0, StagedQueueConstants, SweptFacts DEF PublishDies, Goes, Sweep,
       config, waiting, Typed, Early, Lifecycle, Service, GivenUp, Gone
  <1>32. ASSUME NEW j \in Jobs, PublishFails(j)
        PROVE  GivenUp'
    BY <1>32, <1>0, StagedQueueConstants, SweptFacts DEF PublishFails, Goes, Sweep,
       config, waiting, Typed, Early, Lifecycle, Service, GivenUp, Gone
  <1>33. ASSUME NEW j \in Jobs, WaitFails(j)
        PROVE  GivenUp'
    BY <1>33, <1>0, StagedQueueConstants DEF WaitFails, config, Typed, Early, Lifecycle,
       Service, GivenUp, Gone
  <1>34. ASSUME NEW j \in Jobs, ClearMarkers(j)
        PROVE  GivenUp'
    BY <1>34, <1>0, StagedQueueConstants DEF ClearMarkers, Goes, config, waiting, Typed,
       Early, Lifecycle, Service, GivenUp, Gone
  <1>28. CASE UNCHANGED vars
    BY <1>28, <1>0 DEF vars, files, client, config, waiting, Typed, Early, Lifecycle, Service,
       GivenUp, Gone
  <1> QED
    BY <1>1, <1>2, <1>3, <1>4, <1>5, <1>6, <1>7, <1>8, <1>9, <1>10, <1>11, <1>12, <1>13,
       <1>14, <1>15, <1>16, <1>17, <1>18, <1>19, <1>20, <1>21, <1>22, <1>23, <1>24,
       <1>25, <1>26, <1>27, <1>28, <1>31, <1>32, <1>33, <1>34 DEF Next, Staging,
       Serving, Waiting

\* Every step keeps the line in order.
LEMMA LineStep ==
  ASSUME IInv, [Next]_vars
  PROVE  Line'
  <1>0. Typed /\ Lifecycle /\ Line
    BY DEF IInv
  <1>1. ASSUME NEW j \in Jobs, ReserveSlot(j)
        PROVE  Line'
    BY <1>1, <1>0, StagedQueueConstants, SweptFacts DEF ReserveSlot, Goes, Sweep, config,
       waiting, Typed, Early, Lifecycle, Line, Waits
  <1>2. ASSUME NEW j \in Jobs, RequireEmptyQueue(j)
        PROVE  Line'
    BY <1>2, <1>0, StagedQueueConstants, SweptFacts DEF RequireEmptyQueue, Goes, Sweep,
       config, waiting, Typed, Early, Lifecycle, Line, Waits
  <1>3. ASSUME NEW j \in Jobs, LoadCurrent(j)
        PROVE  Line'
    BY <1>3, <1>0, StagedQueueConstants DEF LoadCurrent, Goes, files, config, waiting,
       Typed, Early, Lifecycle, Line, Waits
  <1>4. ASSUME NEW j \in Jobs, RenderCandidate(j)
        PROVE  Line'
    BY <1>4, <1>0, StagedQueueConstants DEF RenderCandidate, Goes, config, waiting, Typed,
       Early, Lifecycle, Line, Waits
  <1>5. ASSUME NEW j \in Jobs, PlaceJob(j)
        PROVE  Line'
    BY <1>5, <1>0, StagedQueueConstants DEF PlaceJob, Goes, config, waiting, Typed,
       Early, Lifecycle, Line, Waits
  <1>6. ASSUME NEW j \in Jobs, PublishReady(j)
        PROVE  Line'
    BY <1>6, <1>0, StagedQueueConstants, SweptFacts DEF PublishReady, Goes, Sweep, config,
       Typed, Early, Lifecycle, Line, Waits
  <1>7. ASSUME NEW j \in Jobs, StagingFails(j)
        PROVE  Line'
    BY <1>7, <1>0, StagedQueueConstants DEF StagingFails, config, waiting, Typed, Early, Lifecycle,
       Line, Waits
  <1>8. ASSUME NEW j \in Jobs, RefreshSlot(j)
        PROVE  Line'
    BY <1>8, <1>0, StagedQueueConstants DEF RefreshSlot, client, config, waiting, Typed,
       Early, Lifecycle, Line, Waits
  <1>9. ASSUME NEW j \in Jobs, SlotExpires(j)
        PROVE  Line'
    BY <1>9, <1>0, StagedQueueConstants DEF SlotExpires, client, config, waiting, Typed,
       Early, Lifecycle, Line, Waits
  <1>10. ASSUME NEW j \in Jobs, ClientDies(j)
        PROVE  Line'
    BY <1>10, <1>0, StagedQueueConstants DEF ClientDies, files, config, Typed, Early, Lifecycle,
       Line, Waits
  <1>11. ASSUME NEW j \in Jobs, ClaimNextJob(j)
        PROVE  Line'
    BY <1>11, <1>0, StagedQueueConstants, SweptFacts, ClaimableFacts DEF ClaimNextJob,
       Sweep, ReadyWithout, client, config, waiting, Typed, Early, Lifecycle, Line, Waits
  <1>12. ASSUME NEW j \in Jobs, ClaimDies(j)
        PROVE  Line'
    BY <1>12, <1>0, StagedQueueConstants, SweptFacts, ClaimableFacts DEF ClaimDies, Sweep,
       ReadyWithout, client, config, waiting, Typed, Early, Lifecycle, Line, Waits
  <1>13. CASE ClaimNothing
    BY <1>13, <1>0, StagedQueueConstants, SweptFacts DEF ClaimNothing, Sweep, ReadyWithout,
       client, config, waiting, Typed, Early, Lifecycle, Line, Waits
  <1>14. ASSUME NEW j \in Jobs, ApplyCommits(j)
        PROVE  Line'
    BY <1>14, <1>0, StagedQueueConstants DEF ApplyCommits, files, client, waiting, Typed,
       Early, Lifecycle, Line, Waits
  <1>15. CASE ApplyFails
    BY <1>15, <1>0, StagedQueueConstants DEF ApplyFails, files, client, config, waiting,
       Typed, Early, Lifecycle, Line, Waits
  <1>16. ASSUME NEW j \in Jobs, WriteResult(j)
        PROVE  Line'
    BY <1>16, <1>0, StagedQueueConstants DEF WriteResult, Answer, files, client, config,
       waiting, Typed, Early, Lifecycle, Line, Waits
  <1>17. CASE CleanupClaimedJob
    BY <1>17, <1>0, StagedQueueConstants DEF CleanupClaimedJob, files, client, config,
       waiting, Typed, Early, Lifecycle, Line, Waits
  <1>18. CASE FinalizeAbandoned
    BY <1>18, <1>0, StagedQueueConstants DEF FinalizeAbandoned, Answer, files, client,
       config, waiting, Typed, Early, Lifecycle, Line, Waits
  <1>19. CASE WorkerDies
    BY <1>19, <1>0, StagedQueueConstants DEF WorkerDies, files, client, config, waiting,
       Typed, Early, Lifecycle, Line, Waits
  <1>20. ASSUME NEW j \in Jobs, ReadResult(j)
        PROVE  Line'
    BY <1>20, <1>0, StagedQueueConstants DEF ReadResult, files, others, client, config,
       Typed, Early, Lifecycle, Line, Waits
  <1>21. ASSUME NEW j \in Jobs, CheckPresence(j)
        PROVE  Line'
    BY <1>21, <1>0, StagedQueueConstants DEF CheckPresence, Moves, files, others, client,
       config, Typed, Early, Lifecycle, Line, Waits
  <1>22. ASSUME NEW j \in Jobs, CheckTurn(j)
        PROVE  Line'
    BY <1>22, <1>0, StagedQueueConstants, SweptFacts DEF CheckTurn, Moves, Sweep, others,
       client, config, Typed, Early, Lifecycle, Line, Waits
  <1>23. ASSUME NEW j \in Jobs, TryAbandon(j)
        PROVE  Line'
    BY <1>23, <1>0, StagedQueueConstants DEF TryAbandon, Moves, Presence, others, client,
       config, Typed, Early, Lifecycle, Line, Waits
  <1>24. ASSUME NEW j \in Jobs, AbandonDies(j)
        PROVE  Line'
    BY <1>24, <1>0, StagedQueueConstants DEF AbandonDies, Moves, Presence, client, config,
       Typed, Early, Lifecycle, Line, Waits
  <1>25. ASSUME NEW j \in Jobs, FinalPresence(j)
        PROVE  Line'
    BY <1>25, <1>0, StagedQueueConstants DEF FinalPresence, Moves, Presence, files, others,
       client, config, Typed, Early, Lifecycle, Line, Waits
  <1>26. ASSUME NEW j \in Jobs, GiveUp(j)
        PROVE  Line'
    BY <1>26, <1>0, StagedQueueConstants DEF GiveUp, files, others, client, config, Typed,
       Early, Lifecycle, Line, Waits
  <1>27. ASSUME NEW j \in Jobs, RecoverJob(j)
        PROVE  Line'
    BY <1>27, <1>0, StagedQueueConstants DEF RecoverJob, files, others, client, config,
       Typed, Early, Lifecycle, Line, Waits
  <1>31. ASSUME NEW j \in Jobs, PublishDies(j)
        PROVE  Line'
    BY <1>31, <1>0, StagedQueueConstants, SweptFacts DEF PublishDies, Goes, Sweep,
       config, waiting, Typed, Early, Lifecycle, Line, Waits
  <1>32. ASSUME NEW j \in Jobs, PublishFails(j)
        PROVE  Line'
    BY <1>32, <1>0, StagedQueueConstants, SweptFacts DEF PublishFails, Goes, Sweep,
       config, waiting, Typed, Early, Lifecycle, Line, Waits
  <1>33. ASSUME NEW j \in Jobs, WaitFails(j)
        PROVE  Line'
    BY <1>33, <1>0, StagedQueueConstants DEF WaitFails, config, Typed, Early, Lifecycle,
       Line, Waits
  <1>34. ASSUME NEW j \in Jobs, ClearMarkers(j)
        PROVE  Line'
    BY <1>34, <1>0, StagedQueueConstants DEF ClearMarkers, Goes, config, waiting, Typed,
       Early, Lifecycle, Line, Waits
  <1>28. CASE UNCHANGED vars
    BY <1>28, <1>0 DEF vars, files, client, config, waiting, Typed, Early, Lifecycle, Line, Waits
  <1> QED
    BY <1>1, <1>2, <1>3, <1>4, <1>5, <1>6, <1>7, <1>8, <1>9, <1>10, <1>11, <1>12, <1>13,
       <1>14, <1>15, <1>16, <1>17, <1>18, <1>19, <1>20, <1>21, <1>22, <1>23, <1>24,
       <1>25, <1>26, <1>27, <1>28, <1>31, <1>32, <1>33, <1>34 DEF Next, Staging,
       Serving, Waiting

\* Every reservation takes the next place, and every commit makes the next version.
LEMMA CountsStep ==
  ASSUME IInv, [Next]_vars
  PROVE  Counts'
  <1>0. Typed /\ Counts /\ Lifecycle /\ Service
    BY DEF IInv
  <1>1. ASSUME NEW j \in Jobs, ReserveSlot(j)
        PROVE  Counts'
    <2>1. j \notin Begun /\ Begun' = Begun \cup {j}
      BY <1>1, <1>0 DEF ReserveSlot, Goes, Begun, Typed
    <2>2. IsFiniteSet(Begun)
      BY FS_Subset, StagedQueueConstants DEF Begun
    <2>3. Cardinality(Begun') = Cardinality(Begun) + 1
      BY <2>1, <2>2, FS_AddElement
    <2> QED
      BY <1>1, <2>3, <1>0 DEF ReserveSlot, config, Counts
  <1>2. ASSUME NEW j \in Jobs, RequireEmptyQueue(j)
        PROVE  Counts'
    BY <1>2, <1>0, StagedQueueConstants, SweptFacts DEF RequireEmptyQueue, Goes, Sweep,
       config, waiting, Typed, Counts, Begun
  <1>3. ASSUME NEW j \in Jobs, LoadCurrent(j)
        PROVE  Counts'
    <2>1. Begun' = Begun
      BY <1>3, <1>0 DEF LoadCurrent, Goes, Begun, Typed
    <2>2. \A k \in Jobs : base'[k] <= version
      BY <1>3, <1>0 DEF LoadCurrent, Counts, Typed
    <2> QED
      BY <1>3, <2>1, <2>2, <1>0 DEF LoadCurrent, files, config, Counts
  <1>4. ASSUME NEW j \in Jobs, RenderCandidate(j)
        PROVE  Counts'
    BY <1>4, <1>0, StagedQueueConstants DEF RenderCandidate, Goes, config, waiting, Typed,
       Counts, Begun
  <1>5. ASSUME NEW j \in Jobs, PlaceJob(j)
        PROVE  Counts'
    BY <1>5, <1>0, StagedQueueConstants DEF PlaceJob, Goes, config, waiting, Typed, Counts,
       Begun
  <1>6. ASSUME NEW j \in Jobs, PublishReady(j)
        PROVE  Counts'
    BY <1>6, <1>0, StagedQueueConstants, SweptFacts DEF PublishReady, Goes, Sweep, config,
       Typed, Counts, Begun
  <1>7. ASSUME NEW j \in Jobs, StagingFails(j)
        PROVE  Counts'
    BY <1>7, <1>0, StagedQueueConstants DEF StagingFails, Early, config, waiting, Typed, Counts,
       Begun
  <1>8. ASSUME NEW j \in Jobs, RefreshSlot(j)
        PROVE  Counts'
    BY <1>8, <1>0, StagedQueueConstants DEF RefreshSlot, Early, client, config, waiting, Typed,
       Counts, Begun
  <1>9. ASSUME NEW j \in Jobs, SlotExpires(j)
        PROVE  Counts'
    BY <1>9, <1>0, StagedQueueConstants DEF SlotExpires, client, config, waiting, Typed,
       Counts, Begun
  <1>10. ASSUME NEW j \in Jobs, ClientDies(j)
        PROVE  Counts'
    <2>1. Begun' = Begun
      BY <1>10, <1>0 DEF ClientDies, Early, Begun, Typed
    <2> QED
      BY <1>10, <2>1, <1>0 DEF ClientDies, Early, files, config, Counts
  <1>11. ASSUME NEW j \in Jobs, ClaimNextJob(j)
        PROVE  Counts'
    BY <1>11, <1>0, StagedQueueConstants, SweptFacts, ClaimableFacts DEF ClaimNextJob,
       Sweep, ReadyWithout, client, config, waiting, Typed, Counts, Begun
  <1>12. ASSUME NEW j \in Jobs, ClaimDies(j)
        PROVE  Counts'
    BY <1>12, <1>0, StagedQueueConstants, SweptFacts, ClaimableFacts DEF ClaimDies, Sweep,
       ReadyWithout, client, config, waiting, Typed, Counts, Begun
  <1>13. CASE ClaimNothing
    BY <1>13, <1>0, StagedQueueConstants, SweptFacts DEF ClaimNothing, Sweep, ReadyWithout,
       client, config, waiting, Typed, Counts, Begun
  <1>14. ASSUME NEW j \in Jobs, ApplyCommits(j)
        PROVE  Counts'
    <2>1. j \notin applied /\ applied' = applied \cup {j}
      BY <1>14, <1>0 DEF ApplyCommits, Service
    <2>2. IsFiniteSet(applied)
      BY <1>0, FS_Subset, StagedQueueConstants DEF Typed
    <2>3. Cardinality(applied') = Cardinality(applied) + 1
      BY <2>1, <2>2, FS_AddElement
    <2>4. Begun' = Begun
      BY <1>14 DEF ApplyCommits, client, Begun
    <2> QED
      BY <1>14, <2>3, <2>4, <1>0 DEF ApplyCommits, files, client, Counts, Typed
  <1>15. CASE ApplyFails
    BY <1>15, <1>0, StagedQueueConstants DEF ApplyFails, files, client, config, waiting,
       Typed, Counts, Begun
  <1>16. ASSUME NEW j \in Jobs, WriteResult(j)
        PROVE  Counts'
    BY <1>16, <1>0, StagedQueueConstants DEF WriteResult, Answer, files, client, config,
       waiting, Typed, Counts, Begun
  <1>17. CASE CleanupClaimedJob
    BY <1>17, <1>0, StagedQueueConstants DEF CleanupClaimedJob, files, client, config,
       waiting, Typed, Counts, Begun
  <1>18. CASE FinalizeAbandoned
    BY <1>18, <1>0, StagedQueueConstants DEF FinalizeAbandoned, Answer, files, client,
       config, waiting, Typed, Counts, Begun
  <1>19. CASE WorkerDies
    BY <1>19, <1>0, StagedQueueConstants DEF WorkerDies, files, client, config, waiting,
       Typed, Counts, Begun
  <1>20. ASSUME NEW j \in Jobs, ReadResult(j)
        PROVE  Counts'
    BY <1>20, <1>0, StagedQueueConstants DEF ReadResult, files, others, client, config,
       Typed, Counts, Begun
  <1>21. ASSUME NEW j \in Jobs, CheckPresence(j)
        PROVE  Counts'
    BY <1>21, <1>0, StagedQueueConstants DEF CheckPresence, Moves, files, others, client,
       config, Typed, Counts, Begun
  <1>22. ASSUME NEW j \in Jobs, CheckTurn(j)
        PROVE  Counts'
    BY <1>22, <1>0, StagedQueueConstants, SweptFacts DEF CheckTurn, Moves, Sweep, others,
       client, config, Typed, Counts, Begun
  <1>23. ASSUME NEW j \in Jobs, TryAbandon(j)
        PROVE  Counts'
    BY <1>23, <1>0, StagedQueueConstants DEF TryAbandon, Moves, Presence, others, client,
       config, Typed, Counts, Begun
  <1>24. ASSUME NEW j \in Jobs, AbandonDies(j)
        PROVE  Counts'
    BY <1>24, <1>0, StagedQueueConstants DEF AbandonDies, Moves, Presence, client, config,
       Typed, Counts, Begun
  <1>25. ASSUME NEW j \in Jobs, FinalPresence(j)
        PROVE  Counts'
    BY <1>25, <1>0, StagedQueueConstants DEF FinalPresence, Moves, Presence, files, others,
       client, config, Typed, Counts, Begun
  <1>26. ASSUME NEW j \in Jobs, GiveUp(j)
        PROVE  Counts'
    BY <1>26, <1>0, StagedQueueConstants DEF GiveUp, files, others, client, config, Typed,
       Counts, Begun
  <1>27. ASSUME NEW j \in Jobs, RecoverJob(j)
        PROVE  Counts'
    BY <1>27, <1>0, StagedQueueConstants DEF RecoverJob, files, others, client, config,
       Typed, Counts, Begun
  <1>31. ASSUME NEW j \in Jobs, PublishDies(j)
        PROVE  Counts'
    BY <1>31, <1>0, StagedQueueConstants, SweptFacts DEF PublishDies, Goes, Sweep,
       config, waiting, Typed, Counts, Begun, Early
  <1>32. ASSUME NEW j \in Jobs, PublishFails(j)
        PROVE  Counts'
    BY <1>32, <1>0, StagedQueueConstants, SweptFacts DEF PublishFails, Goes, Sweep,
       config, waiting, Typed, Counts, Begun, Early
  <1>33. ASSUME NEW j \in Jobs, WaitFails(j)
        PROVE  Counts'
    BY <1>33, <1>0, StagedQueueConstants DEF WaitFails, config, Typed, Counts, Begun,
       Early
  <1>34. ASSUME NEW j \in Jobs, ClearMarkers(j)
        PROVE  Counts'
    BY <1>34, <1>0, StagedQueueConstants DEF ClearMarkers, Goes, config, waiting, Typed,
       Counts, Begun, Early
  <1>28. CASE UNCHANGED vars
    BY <1>28, <1>0 DEF vars, files, client, config, waiting, Typed, Counts, Begun
  <1> QED
    BY <1>1, <1>2, <1>3, <1>4, <1>5, <1>6, <1>7, <1>8, <1>9, <1>10, <1>11, <1>12, <1>13,
       <1>14, <1>15, <1>16, <1>17, <1>18, <1>19, <1>20, <1>21, <1>22, <1>23, <1>24,
       <1>25, <1>26, <1>27, <1>28, <1>31, <1>32, <1>33, <1>34 DEF Next, Staging,
       Serving, Waiting

\* Nothing overtakes a partial update that found the queue empty.
LEMMA FreshStep ==
  ASSUME IInv, [Next]_vars
  PROVE  Fresh'
  <1>0. Typed /\ Lifecycle /\ Service /\ Line /\ Fresh
    BY DEF IInv
  <1>1. ASSUME NEW j \in Jobs, ReserveSlot(j)
        PROVE  Fresh'
    BY <1>1, <1>0, StagedQueueConstants, SweptFacts DEF ReserveSlot, Goes, Sweep, config,
       waiting, Typed, Early, Lifecycle, Service, Line, Fresh, Holds, Waits, Place
  <1>2. ASSUME NEW j \in Jobs, RequireEmptyQueue(j)
        PROVE  Fresh'
    <2>1. \A k \in Jobs : SweptReserve[k] = 0 \/ SweptReserve[k] = reserve[k]
      BY <1>0, SweptFacts
    <2>2. Counted({j}) = {} => \A k \in Jobs \ {j} : k \notin active /\ SweptReserve[k] = 0 /\ ~Waits(k)
      BY <1>0, SweptFacts DEF Counted, Waits, Typed
    <2>3. \A k \in Jobs : Waits(k)' => Waits(k)
      BY <1>2 DEF RequireEmptyQueue, Waits
    <2>4. /\ reserve' = SweptReserve /\ UNCHANGED <<ready, active, base, version, worker>>
          /\ \A k \in Jobs \ {j} : stager'[k] = stager[k]
          /\ stager'[j] = IF Counted({j}) = {} THEN "checked" ELSE "failing"
      BY <1>2, <1>0 DEF RequireEmptyQueue, Goes, Sweep, config, Typed
    <2>5. ready[j] = 0
      BY <1>2, <1>0 DEF RequireEmptyQueue, Goes, Early, Lifecycle
    <2>6. \A k \in Jobs \ {j} : Holds(k)' => Holds(k) /\ Place(k)' = Place(k)
      BY <2>1, <2>3, <2>4, <1>0 DEF Holds, Place, Waits, Lifecycle, Typed
    <2>7. ASSUME NEW p \in Partial, p # j, Holds(p)'
          PROVE  /\ \A k \in Jobs \ {p} : k \notin active' /\ (reserve'[k] > 0 => Place(p)' < reserve'[k])
                                          /\ (Waits(k)' => Place(p)' < ready'[k])
                 /\ stager'[p] # "checked" => base'[p] = version'
      BY <2>1, <2>3, <2>4, <2>6, <2>7, <1>0, StagedQueueConstants DEF Fresh
    <2>8. ASSUME Holds(j)'
          PROVE  /\ stager'[j] = "checked"
                 /\ \A k \in Jobs \ {j} : k \notin active' /\ reserve'[k] = 0 /\ ~Waits(k)'
      BY <2>2, <2>3, <2>4, <2>5, <2>8 DEF Holds, Waits
    <2> QED
      BY <2>4, <2>7, <2>8, <1>0 DEF Fresh
  <1>3. ASSUME NEW j \in Jobs, LoadCurrent(j)
        PROVE  Fresh'
    BY <1>3, <1>0, StagedQueueConstants DEF LoadCurrent, Goes, files, config, waiting,
       Typed, Early, Lifecycle, Service, Line, Fresh, Holds, Waits, Place
  <1>4. ASSUME NEW j \in Jobs, RenderCandidate(j)
        PROVE  Fresh'
    BY <1>4, <1>0, StagedQueueConstants DEF RenderCandidate, Goes, config, waiting, Typed,
       Early, Lifecycle, Service, Line, Fresh, Holds, Waits, Place
  <1>5. ASSUME NEW j \in Jobs, PlaceJob(j)
        PROVE  Fresh'
    BY <1>5, <1>0, StagedQueueConstants DEF PlaceJob, Goes, config, waiting, Typed,
       Early, Lifecycle, Service, Line, Fresh, Holds, Waits, Place
  <1>6. ASSUME NEW j \in Jobs, PublishReady(j)
        PROVE  Fresh'
    BY <1>6, <1>0, StagedQueueConstants, SweptFacts DEF PublishReady, Goes, Sweep, config,
       Typed, Early, Lifecycle, Service, Line, Fresh, Holds, Waits, Place
  <1>7. ASSUME NEW j \in Jobs, StagingFails(j)
        PROVE  Fresh'
    BY <1>7, <1>0, StagedQueueConstants DEF StagingFails, config, waiting, Typed, Early, Lifecycle,
       Service, Line, Fresh, Holds, Waits, Place
  <1>8. ASSUME NEW j \in Jobs, RefreshSlot(j)
        PROVE  Fresh'
    BY <1>8, <1>0, StagedQueueConstants DEF RefreshSlot, client, config, waiting, Typed,
       Early, Lifecycle, Service, Line, Fresh, Holds, Waits, Place
  <1>9. ASSUME NEW j \in Jobs, SlotExpires(j)
        PROVE  Fresh'
    BY <1>9, <1>0, StagedQueueConstants DEF SlotExpires, client, config, waiting, Typed,
       Early, Lifecycle, Service, Line, Fresh, Holds, Waits, Place
  <1>10. ASSUME NEW j \in Jobs, ClientDies(j)
        PROVE  Fresh'
    BY <1>10, <1>0, StagedQueueConstants DEF ClientDies, files, config, Typed, Early, Lifecycle,
       Service, Line, Fresh, Holds, Waits, Place
  <1>11. ASSUME NEW j \in Jobs, ClaimNextJob(j)
        PROVE  Fresh'
    BY <1>11, <1>0, StagedQueueConstants, SweptFacts, ClaimableFacts DEF ClaimNextJob,
       Sweep, ReadyWithout, client, config, waiting, Typed, Early, Lifecycle, Service, Line, Fresh,
       Holds, Waits, Place
  <1>12. ASSUME NEW j \in Jobs, ClaimDies(j)
        PROVE  Fresh'
    BY <1>12, <1>0, StagedQueueConstants, SweptFacts, ClaimableFacts DEF ClaimDies, Sweep,
       ReadyWithout, client, config, waiting, Typed, Early, Lifecycle, Service, Line, Fresh, Holds,
       Waits, Place
  <1>13. CASE ClaimNothing
    BY <1>13, <1>0, StagedQueueConstants, SweptFacts DEF ClaimNothing, Sweep, ReadyWithout,
       client, config, waiting, Typed, Early, Lifecycle, Service, Line, Fresh, Holds, Waits, Place
  <1>14. ASSUME NEW j \in Jobs, ApplyCommits(j)
        PROVE  Fresh'
    BY <1>14, <1>0, StagedQueueConstants DEF ApplyCommits, files, client, waiting, Typed,
       Early, Lifecycle, Service, Line, Fresh, Holds, Waits, Place
  <1>15. CASE ApplyFails
    BY <1>15, <1>0, StagedQueueConstants DEF ApplyFails, files, client, config, waiting,
       Typed, Early, Lifecycle, Service, Line, Fresh, Holds, Waits, Place
  <1>16. ASSUME NEW j \in Jobs, WriteResult(j)
        PROVE  Fresh'
    BY <1>16, <1>0, StagedQueueConstants DEF WriteResult, Answer, files, client, config,
       waiting, Typed, Early, Lifecycle, Service, Line, Fresh, Holds, Waits, Place
  <1>17. CASE CleanupClaimedJob
    BY <1>17, <1>0, StagedQueueConstants DEF CleanupClaimedJob, files, client, config,
       waiting, Typed, Early, Lifecycle, Service, Line, Fresh, Holds, Waits, Place
  <1>18. CASE FinalizeAbandoned
    BY <1>18, <1>0, StagedQueueConstants DEF FinalizeAbandoned, Answer, files, client,
       config, waiting, Typed, Early, Lifecycle, Service, Line, Fresh, Holds, Waits, Place
  <1>19. CASE WorkerDies
    BY <1>19, <1>0, StagedQueueConstants DEF WorkerDies, files, client, config, waiting,
       Typed, Early, Lifecycle, Service, Line, Fresh, Holds, Waits, Place
  <1>20. ASSUME NEW j \in Jobs, ReadResult(j)
        PROVE  Fresh'
    BY <1>20, <1>0, StagedQueueConstants DEF ReadResult, files, others, client, config,
       Typed, Early, Lifecycle, Service, Line, Fresh, Holds, Waits, Place
  <1>21. ASSUME NEW j \in Jobs, CheckPresence(j)
        PROVE  Fresh'
    BY <1>21, <1>0, StagedQueueConstants DEF CheckPresence, Moves, files, others, client,
       config, Typed, Early, Lifecycle, Service, Line, Fresh, Holds, Waits, Place
  <1>22. ASSUME NEW j \in Jobs, CheckTurn(j)
        PROVE  Fresh'
    BY <1>22, <1>0, StagedQueueConstants, SweptFacts DEF CheckTurn, Moves, Sweep, others,
       client, config, Typed, Early, Lifecycle, Service, Line, Fresh, Holds, Waits, Place
  <1>23. ASSUME NEW j \in Jobs, TryAbandon(j)
        PROVE  Fresh'
    BY <1>23, <1>0, StagedQueueConstants DEF TryAbandon, Moves, Presence, others, client,
       config, Typed, Early, Lifecycle, Service, Line, Fresh, Holds, Waits, Place
  <1>24. ASSUME NEW j \in Jobs, AbandonDies(j)
        PROVE  Fresh'
    BY <1>24, <1>0, StagedQueueConstants DEF AbandonDies, Moves, Presence, client, config,
       Typed, Early, Lifecycle, Service, Line, Fresh, Holds, Waits, Place
  <1>25. ASSUME NEW j \in Jobs, FinalPresence(j)
        PROVE  Fresh'
    BY <1>25, <1>0, StagedQueueConstants DEF FinalPresence, Moves, Presence, files, others,
       client, config, Typed, Early, Lifecycle, Service, Line, Fresh, Holds, Waits, Place
  <1>26. ASSUME NEW j \in Jobs, GiveUp(j)
        PROVE  Fresh'
    BY <1>26, <1>0, StagedQueueConstants DEF GiveUp, files, others, client, config, Typed,
       Early, Lifecycle, Service, Line, Fresh, Holds, Waits, Place
  <1>27. ASSUME NEW j \in Jobs, RecoverJob(j)
        PROVE  Fresh'
    BY <1>27, <1>0, StagedQueueConstants DEF RecoverJob, files, others, client, config,
       Typed, Early, Lifecycle, Service, Line, Fresh, Holds, Waits, Place
  <1>31. ASSUME NEW j \in Jobs, PublishDies(j)
        PROVE  Fresh'
    BY <1>31, <1>0, StagedQueueConstants, SweptFacts DEF PublishDies, Goes, Sweep,
       config, waiting, Typed, Early, Lifecycle, Service, Line, Fresh, Holds, Waits,
       Place
  <1>32. ASSUME NEW j \in Jobs, PublishFails(j)
        PROVE  Fresh'
    BY <1>32, <1>0, StagedQueueConstants, SweptFacts DEF PublishFails, Goes, Sweep,
       config, waiting, Typed, Early, Lifecycle, Service, Line, Fresh, Holds, Waits,
       Place
  <1>33. ASSUME NEW j \in Jobs, WaitFails(j)
        PROVE  Fresh'
    BY <1>33, <1>0, StagedQueueConstants DEF WaitFails, config, Typed, Early, Lifecycle,
       Service, Line, Fresh, Holds, Waits, Place
  <1>34. ASSUME NEW j \in Jobs, ClearMarkers(j)
        PROVE  Fresh'
    BY <1>34, <1>0, StagedQueueConstants DEF ClearMarkers, Goes, config, waiting, Typed,
       Early, Lifecycle, Service, Line, Fresh, Holds, Waits, Place
  <1>28. CASE UNCHANGED vars
    BY <1>28, <1>0 DEF vars, files, client, config, waiting, Typed, Early, Lifecycle, Service,
       Line, Fresh, Holds, Waits, Place
  <1> QED
    BY <1>1, <1>2, <1>3, <1>4, <1>5, <1>6, <1>7, <1>8, <1>9, <1>10, <1>11, <1>12, <1>13,
       <1>14, <1>15, <1>16, <1>17, <1>18, <1>19, <1>20, <1>21, <1>22, <1>23, <1>24,
       <1>25, <1>26, <1>27, <1>28, <1>31, <1>32, <1>33, <1>34 DEF Next, Staging,
       Serving, Waiting

\* What CapacityBound counts
Charged == {j \in Jobs : reserve[j] > 0 \/ (ready[j] > 0 /\ j \in queued) \/ j \in active}

LEMMA OneMoreAtMost ==
  ASSUME NEW S, IsFiniteSet(S), NEW x
  PROVE  IsFiniteSet(S \cup {x}) /\ Cardinality(S \cup {x}) <= Cardinality(S) + 1
  <1>1. Cardinality(S) \in Nat
    BY FS_CardinalityType
  <1>2. /\ IsFiniteSet(S \cup {x})
        /\ Cardinality(S \cup {x}) = IF x \in S THEN Cardinality(S) ELSE Cardinality(S) + 1
    BY FS_AddElement
  <1> QED
    BY <1>1, <1>2

\* A reservation is made while fewer than MaxPending jobs count, and counts as one more.
LEMMA ReserveCapacity ==
  ASSUME IInv, NEW j \in Jobs, ReserveSlot(j)
  PROVE  Cardinality(Charged') <= MaxPending
  <1>0. Typed
    BY DEF IInv
  <1>1. Charged' \subseteq Counted({}) \cup {j}
    BY <1>0, SweptFacts DEF ReserveSlot, Sweep, Charged, Counted, Typed
  <1>2. IsFiniteSet(Counted({})) /\ Cardinality(Counted({})) \in Nat
    BY FS_Subset, FS_CardinalityType, StagedQueueConstants DEF Counted
  <1>3. Cardinality(Counted({})) < MaxPending
    BY DEF ReserveSlot
  <1>4. /\ IsFiniteSet(Counted({}) \cup {j})
        /\ Cardinality(Counted({}) \cup {j}) <= Cardinality(Counted({})) + 1
    BY <1>2, OneMoreAtMost
  <1>5. /\ Cardinality(Charged') <= Cardinality(Counted({}) \cup {j})
        /\ Cardinality(Charged') \in Nat /\ Cardinality(Counted({}) \cup {j}) \in Nat
    BY <1>1, <1>4, FS_Subset, FS_CardinalityType
  <1> QED
    BY <1>2, <1>3, <1>4, <1>5, StagedQueueConstants

\* Every step keeps within the limit: only a reservation makes a job count.
LEMMA CapacityStep ==
  ASSUME IInv, [Next]_vars
  PROVE  CapacityBound'
  <1>0. Typed /\ Lifecycle /\ CapacityBound
    BY DEF IInv
  <1>1. ASSUME NEW j \in Jobs, ReserveSlot(j)
        PROVE  CapacityBound'
    BY <1>1, ReserveCapacity DEF Charged, CapacityBound
  <1>2. ASSUME NEW j \in Jobs, RequireEmptyQueue(j)
        PROVE  Charged' \subseteq Charged
    BY <1>2, <1>0, SweptFacts DEF RequireEmptyQueue, Goes, Sweep, config, waiting, Typed,
       Early, Lifecycle, Charged
  <1>3. ASSUME NEW j \in Jobs, LoadCurrent(j)
        PROVE  Charged' \subseteq Charged
    BY <1>3, <1>0 DEF LoadCurrent, Goes, files, config, waiting, Typed, Early, Lifecycle, Charged
  <1>4. ASSUME NEW j \in Jobs, RenderCandidate(j)
        PROVE  Charged' \subseteq Charged
    BY <1>4, <1>0 DEF RenderCandidate, Goes, config, waiting, Typed, Early, Lifecycle, Charged
  <1>5. ASSUME NEW j \in Jobs, PlaceJob(j)
        PROVE  Charged' \subseteq Charged
    BY <1>5, <1>0 DEF PlaceJob, Goes, config, waiting, Typed, Early, Lifecycle, Charged
  <1>6. ASSUME NEW j \in Jobs, PublishReady(j)
        PROVE  Charged' \subseteq Charged
    BY <1>6, <1>0, SweptFacts DEF PublishReady, Goes, Sweep, config, Typed, Early, Lifecycle,
       Charged
  <1>7. ASSUME NEW j \in Jobs, StagingFails(j)
        PROVE  Charged' \subseteq Charged
    BY <1>7, <1>0 DEF StagingFails, config, waiting, Typed, Early, Lifecycle, Charged
  <1>8. ASSUME NEW j \in Jobs, RefreshSlot(j)
        PROVE  Charged' \subseteq Charged
    BY <1>8, <1>0 DEF RefreshSlot, client, config, waiting, Typed, Early, Lifecycle, Charged
  <1>9. ASSUME NEW j \in Jobs, SlotExpires(j)
        PROVE  Charged' \subseteq Charged
    BY <1>9, <1>0 DEF SlotExpires, client, config, waiting, Typed, Early, Lifecycle, Charged
  <1>10. ASSUME NEW j \in Jobs, ClientDies(j)
        PROVE  Charged' \subseteq Charged
    BY <1>10, <1>0 DEF ClientDies, files, config, Typed, Early, Lifecycle, Charged
  <1>11. ASSUME NEW j \in Jobs, ClaimNextJob(j)
        PROVE  Charged' \subseteq Charged
    BY <1>11, <1>0, SweptFacts, ClaimableFacts DEF ClaimNextJob, Sweep, ReadyWithout,
       client, config, waiting, Typed, Early, Lifecycle, Charged
  <1>12. ASSUME NEW j \in Jobs, ClaimDies(j)
        PROVE  Charged' \subseteq Charged
    BY <1>12, <1>0, SweptFacts, ClaimableFacts DEF ClaimDies, Sweep, ReadyWithout, client,
       config, waiting, Typed, Early, Lifecycle, Charged
  <1>13. ASSUME ClaimNothing
        PROVE  Charged' \subseteq Charged
    BY <1>13, <1>0, SweptFacts DEF ClaimNothing, Sweep, ReadyWithout, client, config,
       waiting, Typed, Early, Lifecycle, Charged
  <1>14. ASSUME NEW j \in Jobs, ApplyCommits(j)
        PROVE  Charged' \subseteq Charged
    BY <1>14, <1>0 DEF ApplyCommits, files, client, waiting, Typed, Early, Lifecycle, Charged
  <1>15. ASSUME ApplyFails
        PROVE  Charged' \subseteq Charged
    BY <1>15, <1>0 DEF ApplyFails, files, client, config, waiting, Typed, Early, Lifecycle, Charged
  <1>16. ASSUME NEW j \in Jobs, WriteResult(j)
        PROVE  Charged' \subseteq Charged
    BY <1>16, <1>0 DEF WriteResult, Answer, files, client, config, waiting, Typed,
       Early, Lifecycle, Charged
  <1>17. ASSUME CleanupClaimedJob
        PROVE  Charged' \subseteq Charged
    BY <1>17, <1>0 DEF CleanupClaimedJob, files, client, config, waiting, Typed, Early, Lifecycle,
       Charged
  <1>18. ASSUME FinalizeAbandoned
        PROVE  Charged' \subseteq Charged
    BY <1>18, <1>0 DEF FinalizeAbandoned, Answer, files, client, config, waiting, Typed,
       Early, Lifecycle, Charged
  <1>19. ASSUME WorkerDies
        PROVE  Charged' \subseteq Charged
    BY <1>19, <1>0 DEF WorkerDies, files, client, config, waiting, Typed, Early, Lifecycle, Charged
  <1>20. ASSUME NEW j \in Jobs, ReadResult(j)
        PROVE  Charged' \subseteq Charged
    BY <1>20, <1>0 DEF ReadResult, files, others, client, config, Typed, Early, Lifecycle, Charged
  <1>21. ASSUME NEW j \in Jobs, CheckPresence(j)
        PROVE  Charged' \subseteq Charged
    BY <1>21, <1>0 DEF CheckPresence, Moves, files, others, client, config, Typed,
       Early, Lifecycle, Charged
  <1>22. ASSUME NEW j \in Jobs, CheckTurn(j)
        PROVE  Charged' \subseteq Charged
    BY <1>22, <1>0, SweptFacts DEF CheckTurn, Moves, Sweep, others, client, config, Typed,
       Early, Lifecycle, Charged
  <1>23. ASSUME NEW j \in Jobs, TryAbandon(j)
        PROVE  Charged' \subseteq Charged
    BY <1>23, <1>0 DEF TryAbandon, Moves, Presence, others, client, config, Typed,
       Early, Lifecycle, Charged
  <1>24. ASSUME NEW j \in Jobs, AbandonDies(j)
        PROVE  Charged' \subseteq Charged
    BY <1>24, <1>0 DEF AbandonDies, Moves, Presence, client, config, Typed, Early, Lifecycle,
       Charged
  <1>25. ASSUME NEW j \in Jobs, FinalPresence(j)
        PROVE  Charged' \subseteq Charged
    BY <1>25, <1>0 DEF FinalPresence, Moves, Presence, files, others, client, config, Typed,
       Early, Lifecycle, Charged
  <1>26. ASSUME NEW j \in Jobs, GiveUp(j)
        PROVE  Charged' \subseteq Charged
    BY <1>26, <1>0 DEF GiveUp, files, others, client, config, Typed, Early, Lifecycle, Charged
  <1>27. ASSUME NEW j \in Jobs, RecoverJob(j)
        PROVE  Charged' \subseteq Charged
    BY <1>27, <1>0 DEF RecoverJob, files, others, client, config, Typed, Early, Lifecycle, Charged
  <1>31. ASSUME NEW j \in Jobs, PublishDies(j)
        PROVE  Charged' \subseteq Charged
    BY <1>31, <1>0, StagedQueueConstants, SweptFacts DEF PublishDies, Goes, Sweep,
       config, waiting, Typed, Early, Lifecycle, Charged
  <1>32. ASSUME NEW j \in Jobs, PublishFails(j)
        PROVE  Charged' \subseteq Charged
    BY <1>32, <1>0, StagedQueueConstants, SweptFacts DEF PublishFails, Goes, Sweep,
       config, waiting, Typed, Early, Lifecycle, Charged
  <1>33. ASSUME NEW j \in Jobs, WaitFails(j)
        PROVE  Charged' \subseteq Charged
    BY <1>33, <1>0, StagedQueueConstants DEF WaitFails, config, Typed, Early, Lifecycle,
       Charged
  <1>34. ASSUME NEW j \in Jobs, ClearMarkers(j)
        PROVE  Charged' \subseteq Charged
    BY <1>34, <1>0, StagedQueueConstants DEF ClearMarkers, Goes, config, waiting, Typed,
       Early, Lifecycle, Charged
  <1>28. ASSUME UNCHANGED vars
        PROVE  Charged' \subseteq Charged
    BY <1>28 DEF vars, files, client, config, waiting, Charged
  <1>29. ASSUME Charged' \subseteq Charged
        PROVE  CapacityBound'
    <2>1. IsFiniteSet(Charged)
      BY FS_Subset, StagedQueueConstants DEF Charged
    <2>2. /\ Cardinality(Charged') <= Cardinality(Charged)
          /\ Cardinality(Charged') \in Nat /\ Cardinality(Charged) \in Nat
      BY <1>29, <2>1, FS_Subset, FS_CardinalityType
    <2>3. Cardinality(Charged) <= MaxPending
      BY <1>0 DEF CapacityBound, Charged
    <2>4. Cardinality(Charged') <= MaxPending
      BY <2>2, <2>3, StagedQueueConstants
    <2> QED
      BY <2>4 DEF CapacityBound, Charged
  <1> QED
    BY <1>1, <1>2, <1>3, <1>4, <1>5, <1>6, <1>7, <1>8, <1>9, <1>10, <1>11, <1>12, <1>13,
       <1>14, <1>15, <1>16, <1>17, <1>18, <1>19, <1>20, <1>21, <1>22, <1>23, <1>24,
       <1>25, <1>26, <1>27, <1>28, <1>29, <1>31, <1>32, <1>33, <1>34 DEF Next, Staging,
       Serving, Waiting

LEMMA IInvStep ==
  ASSUME IInv, [Next]_vars
  PROVE  IInv'
  BY TypedStep, CountsStep, LifecycleStep, ServiceStep, GivenUpStep, LineStep, CapacityStep,
     FreshStep DEF IInv

LEMMA IInvAlways ==
  Spec => []IInv
  BY InitIInv, IInvStep, PTL DEF Spec

\* The counters never pass the number of jobs, so the sequence in a ready marker is one
\* that reserve_staged_job_slot gave to some job.
LEMMA IInvTypeOK ==
  ASSUME IInv
  PROVE  TypeOK
  <1>0. Typed /\ Counts /\ Line
    BY DEF IInv
  <1>1. Begun \subseteq Jobs /\ applied \subseteq Jobs
    BY <1>0 DEF Begun, Typed
  <1>2. Cardinality(Begun) <= Cardinality(Jobs) /\ Cardinality(applied) <= Cardinality(Jobs)
    BY <1>1, FS_Subset, StagedQueueConstants
  <1>3. Cardinality(Jobs) \in Nat
    BY FS_CardinalityType, StagedQueueConstants
  <1>4. sequence \in Sequences /\ version \in Sequences
    BY <1>0, <1>2, <1>3 DEF Counts, Typed, Sequences
  <1>5. /\ reserve \in [Jobs -> Sequences] /\ ready \in [Jobs -> Sequences]
        /\ claimed \subseteq Sequences
    BY <1>0, <1>3, <1>4 DEF Typed, Line, Sequences
  <1>6. base \in [Jobs -> Sequences]
    BY <1>0, <1>3, <1>4 DEF Typed, Counts, Sequences
  <1> QED
    BY <1>0, <1>4, <1>5, <1>6 DEF Typed, TypeOK

\* The staged queue keeps its types and no job takes a second place in the line, for any
\* finite set of jobs and however many processes die.
THEOREM TypeCorrect ==
  Spec => []TypeOK
  BY IInvAlways, IInvTypeOK, PTL

\* reserve_staged_job_slot's limit is never exceeded, although reservations expire under
\* their clients and the removal of a claim does not take the lock.
THEOREM CapacityAlwaysBounded ==
  Spec => []CapacityBound
  <1>1. IInv => CapacityBound
    BY DEF IInv
  <1> QED
    BY <1>1, IInvAlways, PTL

\* StagedResultWaiter's verdicts "timed out" and "missing" are final: the job was not
\* applied and never will be.
THEOREM AbandonedIsNeverApplied ==
  Spec => []AbandonedNeverApplied
  <1>1. IInv => AbandonedNeverApplied
    BY DEF IInv, GivenUp, AbandonedNeverApplied
  <1> QED
    BY <1>1, IInvAlways, PTL

\* claim_next_job takes jobs in the order of their reservations.
THEOREM ClaimsInOrder ==
  Spec => ClaimedInOrder
  <1>1. ASSUME IInv, [Next]_vars
        PROVE  \A n \in claimed' \ claimed : \A m \in claimed : m < n
    <2>0. Typed /\ Line
      BY <1>1 DEF IInv
    <2>1. ASSUME NEW j \in Jobs, Claimable(j), claimed' = claimed \cup {ready[j]}
          PROVE  \A n \in claimed' \ claimed : \A m \in claimed : m < n
      BY <2>0, <2>1, ClaimableFacts DEF Line, Waits
    <2>2. CASE \E j \in Jobs : ClaimNextJob(j) \/ ClaimDies(j)
      BY <2>1, <2>2 DEF ClaimNextJob, ClaimDies
    <2>3. CASE UNCHANGED claimed
      BY <2>3
    <2>4. UNCHANGED claimed \/ \E j \in Jobs : ClaimNextJob(j) \/ ClaimDies(j)
      BY <1>1 DEF Next, Staging, Serving, Waiting, vars, others, ReserveSlot,
         RequireEmptyQueue, LoadCurrent, RenderCandidate, PlaceJob, PublishReady,
         PublishDies, PublishFails, StagingFails, WaitFails, ClearMarkers, RefreshSlot,
         SlotExpires, ClientDies, ClaimNothing, ApplyCommits,
         ApplyFails, WriteResult, CleanupClaimedJob, FinalizeAbandoned, WorkerDies,
         ReadResult, CheckPresence, CheckTurn, TryAbandon, AbandonDies, FinalPresence,
         GiveUp, RecoverJob
    <2> QED
      BY <2>2, <2>3, <2>4
  <1>2. ASSUME IInv, [Next]_vars
        PROVE  [\A n \in claimed' \ claimed : \A m \in claimed : m < n]_vars
    BY <1>1, <1>2
  <1> QED
    BY <1>2, IInvAlways, PTL DEF Spec, ClaimedInOrder

\* What _stage_prepared_sync computed outside every lock is current when it is applied.
THEOREM PartialsAreCurrent ==
  Spec => PartialOnCurrent
  <1>1. ASSUME IInv, [Next]_vars
        PROVE  \A j \in Partial : j \in applied' \ applied => base[j] = version
    <2>1. CASE \E k \in Jobs : ApplyCommits(k)
      BY <1>1, <2>1, StagedQueueConstants DEF IInv, Fresh, ApplyCommits
    <2>2. CASE UNCHANGED applied
      BY <2>2
    <2>3. UNCHANGED applied \/ \E k \in Jobs : ApplyCommits(k)
      BY <1>1 DEF Next, Staging, Serving, Waiting, vars, others, config, ReserveSlot,
         RequireEmptyQueue, LoadCurrent, RenderCandidate, PlaceJob, PublishReady,
         PublishDies, PublishFails, StagingFails, WaitFails, ClearMarkers, RefreshSlot,
         SlotExpires, ClientDies, ClaimNothing, ClaimNextJob,
         ClaimDies, ApplyFails, WriteResult, CleanupClaimedJob, FinalizeAbandoned,
         WorkerDies, ReadResult, CheckPresence, CheckTurn, TryAbandon, AbandonDies,
         FinalPresence, GiveUp, RecoverJob
    <2> QED
      BY <2>1, <2>2, <2>3
  <1>2. ASSUME IInv, [Next]_vars
        PROVE  [\A j \in Partial : j \in applied' \ applied => base[j] = version]_vars
    BY <1>1, <1>2
  <1> QED
    BY <1>2, IInvAlways, PTL DEF Spec, PartialOnCurrent

-----------------------------------------------------------------------------
(* Refinement of JobLine *)

\* A waiting client was told nothing yet, and a job has its result only once it was claimed.
Told == \A j \in Jobs : waiter[j] \notin {"off", "done"} => outcome[j] = "none"
Answered ==
    /\ \A j \in Jobs : results[j] # "none" =>
          stager[j] \notin Early \cup {"new"} /\ j \notin queued
    /\ worker \in {"apply", "publish"} => \A j \in active : results[j] = "none"

LEMMA ToldStep ==
  ASSUME IInv, Told, [Next]_vars
  PROVE  Told'
  <1>0. Typed /\ Lifecycle
    BY DEF IInv
  <1>1. ASSUME NEW j \in Jobs, ReadResult(j) \/ GiveUp(j) \/ RecoverJob(j) PROVE Told'
    BY <1>0, <1>1 DEF Told, Typed, ReadResult, GiveUp, RecoverJob, others
  <1>2. ASSUME NEW j \in Jobs, CheckPresence(j) \/ CheckTurn(j) \/ TryAbandon(j)
               \/ AbandonDies(j) \/ FinalPresence(j)
        PROVE  Told'
    <2>1. outcome' = outcome /\ waiter[j] \in {"poll", "turn", "abandon", "presence"}
          /\ \A k \in Jobs \ {j} : waiter'[k] = waiter[k]
      BY <1>0, <1>2 DEF Typed, CheckPresence, CheckTurn, TryAbandon, AbandonDies,
         FinalPresence, Moves, others
    <2> QED
      BY <2>1 DEF Told
  <1>3. ASSUME NEW j \in Jobs, PublishReady(j) PROVE Told'
    <2>1. outcome' = outcome /\ stager[j] = "placed"
          /\ \A k \in Jobs \ {j} : waiter'[k] = waiter[k]
      BY <1>0, <1>3 DEF Typed, PublishReady, Goes
    <2>2. outcome[j] = "none"
      BY <1>0, <2>1 DEF Early, Lifecycle
    <2> QED
      BY <2>1, <2>2 DEF Told
  <1>4. ASSUME NEW j \in Jobs, ClientDies(j) \/ WaitFails(j) PROVE Told'
    BY <1>0, <1>4 DEF Told, Typed, ClientDies, WaitFails
  <1>5. CASE UNCHANGED <<waiter, outcome>>
    BY <1>5 DEF Told
  <1>6. \/ UNCHANGED <<waiter, outcome>>
        \/ \E j \in Jobs : \/ ReadResult(j) \/ GiveUp(j) \/ RecoverJob(j)
                           \/ CheckPresence(j) \/ CheckTurn(j) \/ TryAbandon(j)
                           \/ AbandonDies(j) \/ FinalPresence(j)
                           \/ PublishReady(j) \/ ClientDies(j) \/ WaitFails(j)
    BY DEF Next, Staging, Serving, Waiting, vars, waiting, ReserveSlot, RequireEmptyQueue,
       LoadCurrent, RenderCandidate, PlaceJob, PublishDies, PublishFails, StagingFails,
       ClearMarkers, RefreshSlot, SlotExpires,
       ClaimNextJob, ClaimNothing, ClaimDies, ApplyCommits, ApplyFails, WriteResult,
       CleanupClaimedJob, WorkerDies, FinalizeAbandoned
  <1> QED
    BY <1>1, <1>2, <1>3, <1>4, <1>5, <1>6

LEMMA AnsweredStep ==
  ASSUME IInv, Answered, [Next]_vars
  PROVE  Answered'
  <1>0. Typed /\ Lifecycle /\ Service
    BY DEF IInv
  <1>1. ASSUME NEW j \in Jobs, WriteResult(j) PROVE Answered'
    <2>1. stager[j] \notin Early \cup {"new"} /\ j \notin queued
      BY <1>0, <1>1 DEF Lifecycle, WriteResult
    <2> QED
      BY <1>0, <1>1, <2>1 DEF Answered, Typed, WriteResult, files, client
  <1>2. CASE FinalizeAbandoned
    <2>1. \A j \in active : stager[j] \notin Early \cup {"new"} /\ j \notin queued
      BY <1>0 DEF Lifecycle, Typed
    <2> QED
      BY <1>0, <1>2, <2>1 DEF Answered, Typed, FinalizeAbandoned, files, client
  <1>3. ASSUME NEW j \in Jobs, ClaimNextJob(j) \/ ClaimDies(j) PROVE Answered'
    <2>1. j \in queued
      BY <1>0, <1>3, ClaimableFacts DEF ClaimNextJob, ClaimDies
    <2>2. results' = results /\ stager' = stager /\ queued' \subseteq queued /\ active' = {j}
      BY <1>3 DEF ClaimNextJob, ClaimDies, client
    <2> QED
      BY <2>1, <2>2 DEF Answered
  <1>4. CASE \/ ApplyFails \/ CleanupClaimedJob \/ WorkerDies
             \/ \E j \in Jobs : ApplyCommits(j)
    <2>1. /\ results' = results /\ stager' = stager /\ queued' = queued
          /\ active' \subseteq active
          /\ worker' \in {"apply", "publish"} => worker = "apply"
      BY <1>4 DEF ApplyFails, CleanupClaimedJob, WorkerDies, ApplyCommits, files, client
    <2> QED
      BY <2>1 DEF Answered
  <1>5. ASSUME NEW j \in Jobs,
               Staging(j) \/ ClientDies(j) \/ PublishDies(j) \/ WaitFails(j)
        PROVE  Answered'
    <2>1. /\ results' = results /\ active' = active /\ worker' = worker
          /\ \A k \in Jobs \ {j} : stager'[k] = stager[k]
          /\ queued' \subseteq queued \cup {j}
      BY <1>0, <1>5 DEF Typed, Staging, ReserveSlot, RequireEmptyQueue, LoadCurrent,
         RenderCandidate, PlaceJob, PublishReady, PublishDies, PublishFails, StagingFails,
         WaitFails, ClearMarkers, ClientDies, Goes, files
    <2>2. \/ stager[j] \in Early \cup {"new"}
          \/ stager'[j] \notin Early \cup {"new"} /\ queued' \subseteq queued
      BY <1>0, <1>5 DEF Typed, Early, Staging, ReserveSlot, RequireEmptyQueue, LoadCurrent,
         RenderCandidate, PlaceJob, PublishReady, PublishDies, PublishFails, StagingFails,
         WaitFails, ClearMarkers, ClientDies, Goes, files
    <2> QED
      BY <2>1, <2>2 DEF Answered
  <1>6. CASE UNCHANGED <<results, stager, active, worker>> /\ queued' \subseteq queued
    BY <1>6 DEF Answered
  <1>7. \/ UNCHANGED <<results, stager, active, worker>> /\ queued' \subseteq queued
        \/ \E j \in Jobs : \/ WriteResult(j) \/ ClaimNextJob(j) \/ ClaimDies(j)
                           \/ ApplyCommits(j) \/ Staging(j) \/ ClientDies(j)
                           \/ PublishDies(j) \/ WaitFails(j)
        \/ FinalizeAbandoned \/ ApplyFails \/ CleanupClaimedJob \/ WorkerDies
    BY DEF Next, Serving, Waiting, vars, files, client, others, RefreshSlot, SlotExpires,
       ClaimNothing, ReadResult, CheckPresence, CheckTurn, TryAbandon, AbandonDies,
       FinalPresence, GiveUp, RecoverJob
  <1> QED
    BY <1>1, <1>2, <1>3, <1>4, <1>5, <1>6, <1>7

\* What the rest of the line sees of a step: nothing, or a reservation that expired
KeepsPlace(k) ==
    \/ PlaceOf(k)' = PlaceOf(k) /\ TicketOf(k)' = TicketOf(k)
    \/ PlaceOf(k) = "reserved" /\ PlaceOf(k)' = "out" /\ TicketOf(k)' = 0

LEMMA SettleFacts ==
  ASSUME IInv, IInv', NEW j \in Jobs, NEW p, NEW n, PlaceOf(j)' = p, TicketOf(j)' = n,
         \A k \in Jobs \ {j} : KeepsPlace(k),
         UNCHANGED <<applied, results, outcome>>
  PROVE  Promise!Settle(j, p, n)
  <1>1. \A k \in Jobs : /\ PlaceOf(k)' \in {"new", "reserved", "published", "served", "out"}
                        /\ TicketOf(k)' \in 0 .. sequence'
    <2> SUFFICES ASSUME NEW k \in Jobs
                 PROVE  /\ PlaceOf(k)' \in {"new", "reserved", "published", "served", "out"}
                        /\ TicketOf(k)' \in 0 .. sequence'
      OBVIOUS
    <2>1. Typed' /\ Line'
      BY DEF IInv
    <2> QED
      BY <2>1 DEF Typed, Line, PlaceOf, TicketOf
  <1> QED
    BY <1>1 DEF Promise!Settle, Promise!Keeps, KeepsPlace

\* A sweep, and what it leaves of the places of the jobs it does not stand for
LEMMA SweptKeeps ==
  ASSUME Typed, Lifecycle, NEW k \in Jobs,
         stager'[k] = stager[k], k \in active' <=> k \in active,
         Waits(k)' <=> Waits(k), Waits(k) => ready'[k] = ready[k],
         reserve'[k] = SweptReserve[k]
  PROVE  KeepsPlace(k)
  <1>1. SweptReserve[k] = 0 \/ SweptReserve[k] = reserve[k]
    BY SweptFacts
  <1>2. reserve[k] \in Nat /\ ready[k] \in Nat /\ (Waits(k) => ready[k] > 0)
    BY DEF Typed, Waits
  <1> QED
    BY <1>1, <1>2 DEF KeepsPlace, PlaceOf, TicketOf, Waits

\* A section that only sweeps
LEMMA SweepOnly ==
  ASSUME IInv, IInv', \A k \in Jobs : KeepsPlace(k),
         UNCHANGED <<sequence, applied, results, outcome>>, Broken' = Broken,
         \A k \in Jobs : waiter'[k] = "abandon" <=> waiter[k] = "abandon"
  PROVE  [Promise!Next]_(Promise!vars)
  <1>1. {j \in Jobs : waiter[j] = "abandon"}' = {j \in Jobs : waiter[j] = "abandon"}
    OBVIOUS
  <1>2. CASE \A k \in Jobs : PlaceOf(k)' = PlaceOf(k) /\ TicketOf(k)' = TicketOf(k)
    BY <1>1, <1>2 DEF Promise!vars, Promise!line
  <1>3. ASSUME NEW k \in Jobs, PlaceOf(k) = "reserved", PlaceOf(k)' = "out", TicketOf(k)' = 0
        PROVE  [Promise!Next]_(Promise!vars)
    <2>1. Promise!Settle(k, "out", 0)
      BY <1>3, SettleFacts
    <2>2. Promise!Expire(k)
      BY <1>1, <1>3, <2>1 DEF Promise!Expire
    <2> QED
      BY <2>2 DEF Promise!Next
  <1> QED
    BY <1>2, <1>3 DEF KeepsPlace

\* A step that leaves every place, and what the clients know, as it is
LEMMA Stutters ==
  ASSUME \A k \in Jobs : PlaceOf(k)' = PlaceOf(k) /\ TicketOf(k)' = TicketOf(k),
         UNCHANGED <<sequence, applied, results, outcome>>, Broken' = Broken,
         \A k \in Jobs : waiter'[k] = "abandon" <=> waiter[k] = "abandon"
  PROVE  [Promise!Next]_(Promise!vars)
  <1>1. {j \in Jobs : waiter[j] = "abandon"}' = {j \in Jobs : waiter[j] = "abandon"}
    OBVIOUS
  <1> QED
    BY <1>1 DEF Promise!vars, Promise!line

\* A client publishes its job, whatever becomes of the client in that section.
LEMMA PublishRefines ==
  ASSUME IInv, IInv', NEW j \in Jobs, PublishReady(j) \/ PublishFails(j) \/ PublishDies(j)
  PROVE  [Promise!Next]_(Promise!vars)
  <1>0. Typed /\ Lifecycle /\ Line /\ Typed'
    BY DEF IInv
  <1>1. /\ stager[j] = "placed" /\ stager'[j] \in {"published", "failing"}
        /\ \A k \in Jobs \ {j} : /\ stager'[k] = stager[k] /\ ready'[k] = ready[k]
                                 /\ reserve'[k] = SweptReserve[k] /\ waiter'[k] = waiter[k]
        /\ ready'[j] = IF SweptReserve[j] > 0 THEN SweptReserve[j] ELSE ready[j]
        /\ waiter'[j] \in {"poll", waiter[j]}
        /\ sequence' = sequence /\ queued' = queued \ Unpublished /\ active' = active
        /\ UNCHANGED <<applied, results, outcome>>
    <2>1. SweptReserve \in [Jobs -> Nat]
      BY <1>0, SweptFacts
    <2>2. CASE PublishReady(j)
      BY <1>0, <2>1, <2>2 DEF PublishReady, Goes, Sweep, Typed, config
    <2>3. CASE PublishFails(j)
      BY <1>0, <2>1, <2>3 DEF PublishFails, Goes, Sweep, Typed, config, waiting
    <2>4. CASE PublishDies(j)
      BY <1>0, <2>1, <2>4 DEF PublishDies, Goes, Sweep, Typed, config, waiting
    <2> QED
      BY <2>2, <2>3, <2>4
  <1>2. ready[j] = 0 /\ j \notin active /\ waiter[j] = "off"
    BY <1>0, <1>1 DEF Early, Lifecycle
  <1>3. ASSUME NEW k \in Jobs \ {j} PROVE KeepsPlace(k)
    <2>1. Waits(k)' <=> Waits(k)
      BY <1>0, <1>1, SweptFacts DEF Waits, Typed
    <2> QED
      BY <1>0, <1>1, <2>1, SweptKeeps
  <1>4. SweptReserve[j] = 0 \/ SweptReserve[j] = reserve[j]
    BY <1>0, SweptFacts
  <1>5. \A k \in Jobs : waiter'[k] = "abandon" <=> waiter[k] = "abandon"
    BY <1>1, <1>2
  <1>8. Broken' = Broken
    BY <1>0, <1>1 DEF Broken, Typed
  <1>6. CASE SweptReserve[j] > 0 /\ j \in queued'
    <2>1. /\ PlaceOf(j) = "reserved" /\ TicketOf(j) = reserve[j]
          /\ PlaceOf(j)' = "published" /\ TicketOf(j)' = reserve[j]
      BY <1>0, <1>1, <1>2, <1>4, <1>6 DEF PlaceOf, TicketOf, Early, Typed
    <2>2. Promise!Settle(j, "published", TicketOf(j))
      BY <1>1, <1>3, <2>1, SettleFacts
    <2>3. Promise!Publish(j)
      BY <1>1, <1>5, <1>8, <2>1, <2>2 DEF Promise!Publish
    <2> QED
      BY <2>3 DEF Promise!Next
  <1>7. CASE ~ (SweptReserve[j] > 0 /\ j \in queued')
    <2>1. SweptReserve[j] \in Nat /\ reserve[j] \in Nat
      BY <1>0, SweptFacts DEF Typed
    <2>2. PlaceOf(j)' = "out" /\ TicketOf(j)' = 0
      BY <1>1, <1>2, <1>7, <2>1 DEF PlaceOf, TicketOf, Early
    <2>3. PlaceOf(j) = "reserved" \/ (PlaceOf(j) = "out" /\ TicketOf(j) = 0)
      BY <1>1, <1>2 DEF PlaceOf, TicketOf, Early
    <2>4. KeepsPlace(j)
      BY <2>2, <2>3 DEF KeepsPlace
    <2> QED
      BY <1>1, <1>3, <1>5, <1>8, <2>4, SweepOnly
  <1> QED
    BY <1>6, <1>7

\* A client fails or dies, with what its except block removes of its own job.
LEMMA BreakRefines ==
  ASSUME IInv, IInv', NEW j \in Jobs,
         StagingFails(j) \/ WaitFails(j) \/ ClearMarkers(j) \/ ClientDies(j)
  PROVE  [Promise!Next]_(Promise!vars)
  <1>0. Typed /\ Lifecycle
    BY DEF IInv
  <1>1. ASSUME stager[j] \in Early \cup {"failing", "published"},
               stager'[j] \in {"clearing", "dead"},
               waiter'[j] = "off",
               queued' = queued \/ queued' = queued \ {j},
               \A k \in Jobs \ {j} : stager'[k] = stager[k] /\ waiter'[k] = waiter[k],
               UNCHANGED <<sequence, reserve, ready, active, applied, results, outcome>>
        PROVE  [Promise!Next]_(Promise!vars)
    <2>1. j \notin Broken /\ Broken' = Broken \cup {j}
      BY <1>0, <1>1 DEF Broken, Early, Typed
    <2>2. {k \in Jobs : waiter[k] = "abandon"}' = {k \in Jobs : waiter[k] = "abandon"} \ {j}
      BY <1>1
    <2>3. \A k \in Jobs \ {j} : PlaceOf(k)' = PlaceOf(k) /\ TicketOf(k)' = TicketOf(k)
      BY <1>1 DEF PlaceOf, TicketOf
    <2>4. stager[j] # "new" /\ stager'[j] # "new" /\ stager'[j] \notin Early
      BY <1>1 DEF Early
    <2>5. \/ PlaceOf(j)' = PlaceOf(j) /\ TicketOf(j)' = TicketOf(j)
          \/ /\ PlaceOf(j) \in {"reserved", "published"}
             /\ PlaceOf(j)' = "out" /\ TicketOf(j)' = 0
      BY <1>1, <2>4 DEF PlaceOf, TicketOf
    <2>6. Promise!Break(j)
      BY <1>1, <2>1, <2>2, <2>3, <2>5 DEF Promise!Break
    <2> QED
      BY <2>6 DEF Promise!Next
  <1>2. CASE StagingFails(j)
    <2>1. waiter[j] = "off"
      BY <1>0, <1>2 DEF StagingFails, Early, Lifecycle
    <2> QED
      BY <1>0, <1>1, <1>2, <2>1 DEF StagingFails, Typed, config, waiting
  <1>3. CASE WaitFails(j)
    BY <1>0, <1>1, <1>3 DEF WaitFails, Typed, config
  <1>4. CASE ClearMarkers(j)
    <2>1. /\ stager[j] = "clearing" /\ stager'[j] = "failed"
          /\ \A k \in Jobs \ {j} : stager'[k] = stager[k] /\ ready'[k] = ready[k]
                                   /\ reserve'[k] = reserve[k]
          /\ UNCHANGED <<sequence, queued, active, applied, results, waiter, outcome>>
      BY <1>0, <1>4 DEF ClearMarkers, Goes, Typed, config, waiting
    <2>2. j \notin queued
      BY <1>0, <2>1 DEF Lifecycle
    <2>3. \A k \in Jobs : PlaceOf(k)' = PlaceOf(k) /\ TicketOf(k)' = TicketOf(k)
      BY <2>1, <2>2 DEF PlaceOf, TicketOf, Early
    <2>4. Broken' = Broken
      BY <1>0, <2>1 DEF Broken, Typed
    <2> QED
      BY <2>1, <2>3, <2>4, Stutters
  <1>5. CASE ClientDies(j)
    <2>1. UNCHANGED <<sequence, reserve, ready, queued, active, applied, results, outcome>>
      BY <1>5 DEF ClientDies, files, config
    <2>2. CASE stager[j] \in Early \cup {"failing"} /\ stager' = [stager EXCEPT ![j] = "dead"]
               /\ waiter' = waiter
      <3>1. waiter[j] = "off"
        BY <1>0, <2>2 DEF Early, Lifecycle
      <3> QED
        BY <1>0, <1>1, <2>1, <2>2, <3>1 DEF Typed
    <2>3. CASE stager[j] = "clearing" /\ stager' = [stager EXCEPT ![j] = "dead"]
               /\ waiter' = waiter
      <3>1. Broken' = Broken
        BY <1>0, <2>3 DEF Broken, Typed
      <3>2. \A k \in Jobs : PlaceOf(k)' = PlaceOf(k) /\ TicketOf(k)' = TicketOf(k)
        BY <1>0, <2>1, <2>3 DEF PlaceOf, TicketOf, Early, Typed
      <3> QED
        BY <2>1, <2>3, <3>1, <3>2, Stutters
    <2>4. CASE waiter' = [waiter EXCEPT ![j] = "off"] /\ stager' = stager
      <3>1. \A k \in Jobs : PlaceOf(k)' = PlaceOf(k) /\ TicketOf(k)' = TicketOf(k)
        BY <2>1, <2>4 DEF PlaceOf, TicketOf
      <3>2. Broken' = Broken
        BY <2>4 DEF Broken
      <3>3. {k \in Jobs : waiter[k] = "abandon"}' = {k \in Jobs : waiter[k] = "abandon"} \ {j}
        BY <1>0, <2>4 DEF Typed
      <3>4. Promise!Calm(j)
        BY <2>1, <3>1, <3>2, <3>3 DEF Promise!Calm, Promise!line
      <3> QED
        BY <3>4 DEF Promise!Next
    <2> QED
      BY <1>5, <2>2, <2>3, <2>4 DEF ClientDies
  <1> QED
    BY <1>2, <1>3, <1>4, <1>5

\* The clients that stage a job
LEMMA StagingRefines ==
  ASSUME IInv, IInv', NEW j \in Jobs, Staging(j)
  PROVE  [Promise!Next]_(Promise!vars)
  <1>0. Typed /\ Lifecycle /\ Line /\ Typed' /\ CapacityBound'
    BY DEF IInv
  <1>1. CASE ReserveSlot(j)
    <2>1. /\ stager[j] = "new" /\ stager' = [stager EXCEPT ![j] = "reserved"]
          /\ sequence' = sequence + 1 /\ reserve' = [SweptReserve EXCEPT ![j] = sequence + 1]
          /\ queued' = queued \ Unpublished /\ ready' = ready /\ active' = active
          /\ waiter' = waiter /\ UNCHANGED <<applied, results, outcome>>
      BY <1>1 DEF ReserveSlot, Goes, Sweep, config, waiting
    <2>2. ready[j] = 0 /\ j \notin active /\ SweptReserve \in [Jobs -> Nat]
      BY <1>0, <2>1, SweptFacts DEF Lifecycle
    <2>8. Broken' = Broken
      BY <1>0, <2>1 DEF Broken, Typed
    <2>3. PlaceOf(j) = "new" /\ PlaceOf(j)' = "reserved" /\ TicketOf(j)' = sequence + 1
      BY <1>0, <2>1, <2>2 DEF PlaceOf, TicketOf, Early, Typed
    <2>4. ASSUME NEW k \in Jobs \ {j} PROVE KeepsPlace(k)
      <3>1. stager'[k] = stager[k] /\ reserve'[k] = SweptReserve[k]
        BY <1>0, <2>1, <2>2 DEF Typed
      <3>2. Waits(k)' <=> Waits(k)
        BY <1>0, <2>1, SweptFacts DEF Waits, Typed
      <3> QED
        BY <1>0, <2>1, <3>1, <3>2, SweptKeeps
    <2>5. Promise!Settle(j, "reserved", sequence + 1)
      BY <2>1, <2>3, <2>4, SettleFacts
    <2>6. Cardinality(Promise!InLine' \cup Promise!At("served")') <= MaxPending
      <3> DEFINE W == {k \in Jobs : reserve[k] > 0 \/ (ready[k] > 0 /\ k \in queued)
                                    \/ k \in active}
                 V == Promise!InLine \cup Promise!At("served")
      <3>1. Cardinality(W') <= MaxPending
        BY <1>0 DEF CapacityBound
      <3>2. V' \subseteq W'
        BY <1>0 DEF Promise!InLine, Promise!At, PlaceOf
      <3>3. IsFiniteSet(W')
        BY StagedQueueConstants, FS_Subset
      <3>4. Cardinality(V') <= Cardinality(W') /\ Cardinality(V') \in Nat
            /\ Cardinality(W') \in Nat
        BY <3>2, <3>3, FS_Subset, FS_CardinalityType
      <3> QED
        BY <3>1, <3>4, StagedQueueConstants
    <2>7. Promise!Enter(j)
      BY <2>1, <2>3, <2>5, <2>6, <2>8 DEF Promise!Enter, Promise!Cardinality, Cardinality
    <2> QED
      BY <2>7 DEF Promise!Next
  <1>2. CASE RequireEmptyQueue(j)
    <2>1. /\ stager[j] = "reserved" /\ \E s \in {"checked", "failing"} :
                                           stager' = [stager EXCEPT ![j] = s]
          /\ sequence' = sequence /\ reserve' = SweptReserve
          /\ queued' = queued \ Unpublished /\ ready' = ready /\ active' = active
          /\ waiter' = waiter /\ UNCHANGED <<applied, results, outcome>>
      BY <1>2 DEF RequireEmptyQueue, Goes, Sweep, config, waiting
    <2>2. \A k \in Jobs : Waits(k)' <=> Waits(k)
      BY <1>0, <2>1, SweptFacts DEF Waits, Typed
    <2>3. ASSUME NEW k \in Jobs PROVE KeepsPlace(k)
      <3>1. CASE k # j
        <4>1. stager'[k] = stager[k]
          BY <1>0, <2>1, <3>1 DEF Typed
        <4> QED
          BY <1>0, <2>1, <2>2, <4>1, SweptKeeps
      <3>2. CASE k = j
        <4>1. stager'[k] # "new" /\ stager[k] # "new"
          BY <1>0, <2>1, <3>2 DEF Typed
        <4>2. SweptReserve[k] = 0 \/ SweptReserve[k] = reserve[k]
          BY <1>0, SweptFacts
        <4>3. ready[k] = 0 /\ k \notin active /\ stager[k] \in Early
          BY <1>0, <2>1, <3>2 DEF Early, Lifecycle
        <4> QED
          BY <1>0, <2>1, <2>2, <4>1, <4>2, <4>3 DEF KeepsPlace, PlaceOf, TicketOf, Waits, Typed
      <3> QED
        BY <3>1, <3>2
    <2>4. Broken' = Broken
      BY <1>0, <2>1 DEF Broken, Typed
    <2> QED
      BY <2>1, <2>3, <2>4, SweepOnly
  <1>3. CASE LoadCurrent(j) \/ RenderCandidate(j) \/ PlaceJob(j)
    <2>1. /\ stager[j] \in {"checked", "reserved", "loaded", "staging"}
          /\ stager'[j] \in {"loaded", "staging", "placed", "failing"}
          /\ \A k \in Jobs \ {j} : stager'[k] = stager[k] /\ (k \in queued' <=> k \in queued)
          /\ sequence' = sequence /\ reserve' = reserve /\ ready' = ready /\ active' = active
          /\ waiter' = waiter /\ UNCHANGED <<applied, results, outcome>>
      BY <1>0, <1>3
         DEF LoadCurrent, RenderCandidate, PlaceJob, Goes, Typed, files, config, waiting
    <2>2. ready[j] = 0 /\ j \notin active
      BY <1>0, <2>1 DEF Early, Lifecycle
    <2>3. \A k \in Jobs \ {j} : KeepsPlace(k)
      BY <2>1 DEF KeepsPlace, PlaceOf, TicketOf
    <2>4. KeepsPlace(j)
      BY <2>1, <2>2 DEF KeepsPlace, PlaceOf, TicketOf, Early
    <2>5. Broken' = Broken
      BY <1>0, <2>1 DEF Broken, Typed
    <2> QED
      BY <2>1, <2>3, <2>4, <2>5, SweepOnly
  <1>4. CASE PublishReady(j) \/ PublishFails(j)
    BY <1>4, PublishRefines
  <1>5. CASE StagingFails(j) \/ ClearMarkers(j)
    BY <1>5, BreakRefines
  <1> QED
    BY <1>1, <1>2, <1>3, <1>4, <1>5 DEF Staging

\* A claim serves the next job in the line.
LEMMA ClaimRefines ==
  ASSUME IInv, IInv', NEW j \in Jobs, ClaimNextJob(j) \/ ClaimDies(j)
  PROVE  [Promise!Next]_(Promise!vars)
  <1>0. Typed /\ Lifecycle /\ Line
    BY DEF IInv
  <1>1. /\ active = {} /\ Claimable(j) /\ active' = {j} /\ queued' = queued \ (Unpublished \cup {j})
        /\ \E drop \in {Dropped, Dropped \cup {j}} : ready' = ReadyWithout(drop)
        /\ reserve' = SweptReserve /\ stager' = stager /\ waiter' = waiter
        /\ UNCHANGED <<sequence, applied, results, outcome>>
    BY DEF ClaimNextJob, ClaimDies, Sweep, client, config, waiting
  <1>2. /\ j \in queued /\ ready[j] > 0
        /\ \A k \in Jobs : Waits(k) => ready[j] <= ready[k]
        /\ \A k \in Jobs : SweptReserve[k] > 0 => ready[j] <= SweptReserve[k]
    BY <1>0, <1>1, ClaimableFacts
  <1>3. stager[j] # "new" /\ Broken' = Broken
    BY <1>0, <1>1, <1>2 DEF Lifecycle, Typed, Broken
  <1>4. /\ PlaceOf(j) = "published" /\ TicketOf(j) = ready[j]
        /\ PlaceOf(j)' = "served" /\ TicketOf(j)' = 0
    BY <1>1, <1>2, <1>3 DEF PlaceOf, TicketOf
  <1>5. \A k \in Dropped : k \notin queued
    BY DEF Dropped, StopsAt
  <1>6. ASSUME NEW k \in Jobs \ {j}
        PROVE  /\ Waits(k)' <=> Waits(k)
               /\ Waits(k) => ready'[k] = ready[k]
    <2>1. k \in Unpublished => ready[k] = 0
      BY <1>0, SweptFacts
    <2>2. ready'[k] = IF k \in Dropped THEN 0 ELSE ready[k]
      BY <1>1 DEF ReadyWithout
    <2> QED
      BY <1>0, <1>1, <1>5, <2>1, <2>2 DEF Waits, Typed
  <1>7. ASSUME NEW k \in Jobs \ {j} PROVE KeepsPlace(k)
    <2>1. k \in active' <=> k \in active
      BY <1>1
    <2> QED
      BY <1>0, <1>1, <1>6, <2>1, SweptKeeps
  <1>8. Promise!Settle(j, "served", 0)
    BY <1>1, <1>4, <1>7, SettleFacts
  <1>9. \A k \in Jobs : PlaceOf(k) # "served"
    BY <1>1 DEF PlaceOf
  <1>10. ASSUME NEW k \in Jobs \ {j}, PlaceOf(k)' \in {"reserved", "published"}
         PROVE  TicketOf(j) < TicketOf(k)'
    <2>1. CASE PlaceOf(k)' = "published"
      <3>1. Waits(k) /\ TicketOf(k)' = ready[k]
        BY <1>6, <2>1 DEF PlaceOf, TicketOf, Waits
      <3> QED
        BY <1>0, <1>2, <1>4, <3>1 DEF Line, Waits, Typed
    <2>2. CASE PlaceOf(k)' = "reserved"
      <3>1. SweptReserve[k] > 0 /\ TicketOf(k)' = SweptReserve[k]
        BY <1>1, <2>2 DEF PlaceOf, TicketOf
      <3>2. SweptReserve[k] = reserve[k]
        BY <1>0, <3>1, SweptFacts
      <3>3. reserve[k] # ready[j]
        BY <1>0, <3>1, <3>2 DEF Line
      <3>4. ready[j] <= reserve[k] /\ ready[j] \in Nat /\ reserve[k] \in Nat
        BY <1>0, <1>2, <3>1, <3>2 DEF Typed
      <3> QED
        BY <1>4, <3>1, <3>2, <3>3, <3>4
    <2> QED
      BY <1>10, <2>1, <2>2
  <1>11. Promise!IsNext(j)
    BY <1>9, <1>10 DEF Promise!IsNext, Promise!At, Promise!InLine
  <1>12. Promise!Serve(j)
    BY <1>1, <1>3, <1>4, <1>8, <1>11 DEF Promise!Serve
  <1> QED
    BY <1>12 DEF Promise!Next

LEMMA ServingRefines ==
  ASSUME IInv, IInv', Answered, Serving \/ WorkerDies
  PROVE  [Promise!Next]_(Promise!vars)
  <1>b. UNCHANGED stager => Broken' = Broken
    BY DEF Broken
  <1>0. Typed /\ Lifecycle /\ Line /\ Service
    BY DEF IInv
  <1>1. ASSUME NEW j \in Jobs, ClaimNextJob(j) PROVE [Promise!Next]_(Promise!vars)
    BY <1>1, ClaimRefines
  <1>2. CASE ClaimNothing
    <2>1. /\ queued' = queued \ Unpublished /\ ready' = ReadyWithout(Dropped)
          /\ reserve' = SweptReserve /\ stager' = stager /\ waiter' = waiter /\ active' = active
          /\ UNCHANGED <<sequence, applied, results, outcome>>
      BY <1>2 DEF ClaimNothing, Sweep, client, config, waiting
    <2>2. \A k \in Dropped : k \notin queued
      BY DEF Dropped, StopsAt
    <2>3. ASSUME NEW k \in Jobs PROVE KeepsPlace(k)
      <3>1. k \in Unpublished => ready[k] = 0
        BY <1>0, SweptFacts
      <3>2. ready'[k] = IF k \in Dropped THEN 0 ELSE ready[k]
        BY <2>1 DEF ReadyWithout
      <3>3. (Waits(k)' <=> Waits(k)) /\ (Waits(k) => ready'[k] = ready[k])
        BY <1>0, <2>1, <2>2, <3>1, <3>2 DEF Waits, Typed
      <3> QED
        BY <1>0, <2>1, <3>3, SweptKeeps
    <2> QED
      BY <2>1, <2>3, <1>b, SweepOnly
  <1>3. ASSUME NEW j \in Jobs, j \in active PROVE PlaceOf(j) = "served"
    <2>1. stager[j] # "new"
      BY <1>0, <1>3 DEF Lifecycle
    <2> QED
      BY <1>3, <2>1 DEF PlaceOf
  <1>4. ASSUME NEW j \in Jobs, ApplyCommits(j) PROVE [Promise!Next]_(Promise!vars)
    <2>1. /\ j \in active /\ worker = "apply" /\ applied' = applied \cup {j}
          /\ UNCHANGED <<sequence, reserve, ready, queued, active, results, stager, waiter,
                         outcome>>
      BY <1>4 DEF ApplyCommits, files, client, waiting
    <2>2. PlaceOf(j) = "served" /\ results[j] = "none"
      BY <1>3, <2>1 DEF Answered
    <2>3. \A k \in Jobs : PlaceOf(k)' = PlaceOf(k) /\ TicketOf(k)' = TicketOf(k)
      BY <2>1 DEF PlaceOf, TicketOf
    <2>4. Promise!TakeEffect(j)
      BY <2>1, <2>2, <2>3, <1>b DEF Promise!TakeEffect, Promise!line
    <2> QED
      BY <2>4 DEF Promise!Next
  <1>5. ASSUME NEW j \in Jobs, WriteResult(j) PROVE [Promise!Next]_(Promise!vars)
    <2>1. /\ j \in active /\ worker = "publish" /\ results' = [results EXCEPT ![j] = Answer(j)]
          /\ UNCHANGED <<sequence, reserve, ready, queued, active, applied, stager, waiter,
                         outcome>>
      BY <1>5 DEF WriteResult, files, client, config, waiting
    <2>2. PlaceOf(j) = "served" /\ results[j] = "none"
      BY <1>3, <2>1 DEF Answered
    <2>3. \A k \in Jobs : PlaceOf(k)' = PlaceOf(k) /\ TicketOf(k)' = TicketOf(k)
      BY <2>1 DEF PlaceOf, TicketOf
    <2>4. Promise!Answer(j, "served")
      BY <1>0, <2>1, <2>2, <2>3, <1>b DEF Promise!Answer, Promise!Verdict, Answer, Typed
    <2> QED
      BY <2>4 DEF Promise!Next
  <1>6. CASE CleanupClaimedJob \/ FinalizeAbandoned
    <2>1. /\ active' = {}
          /\ UNCHANGED <<sequence, reserve, ready, queued, applied, stager, waiter, outcome>>
      BY <1>6 DEF CleanupClaimedJob, FinalizeAbandoned, files, client, config, waiting
    <2>2. results' = [k \in Jobs |-> IF k \in active /\ results[k] = "none"
                                     THEN Answer(k) ELSE results[k]]
      BY <1>0, <1>6 DEF CleanupClaimedJob, FinalizeAbandoned, Service, Typed
    <2>3. CASE active = {}
      <3>1. results' = results
        BY <1>0, <2>2, <2>3 DEF Typed
      <3>2. \A k \in Jobs : PlaceOf(k)' = PlaceOf(k) /\ TicketOf(k)' = TicketOf(k)
        BY <2>1, <2>3 DEF PlaceOf, TicketOf
      <3> QED
        BY <2>1, <3>1, <3>2, <1>b, Stutters
    <2>4. ASSUME NEW j \in active PROVE [Promise!Next]_(Promise!vars)
      <3>1. j \in Jobs /\ active = {j}
        BY <1>0, <2>4 DEF Typed, Service
      <3>2. stager[j] \notin Early \cup {"new"} /\ j \notin queued
        BY <1>0, <3>1 DEF Lifecycle
      <3>3. PlaceOf(j) = "served" /\ PlaceOf(j)' = "out"
            /\ TicketOf(j)' = 0 /\ TicketOf(j) = 0
        BY <2>1, <3>1, <3>2 DEF PlaceOf, TicketOf
      <3>4. \A k \in Jobs \ {j} : PlaceOf(k)' = PlaceOf(k) /\ TicketOf(k)' = TicketOf(k)
        BY <2>1, <3>1 DEF PlaceOf, TicketOf
      <3>5. results' = [results EXCEPT ![j] = IF @ = "none" THEN Answer(j) ELSE @]
        BY <1>0, <2>2, <3>1 DEF Typed
      <3>6. Promise!Answer(j, "out")
        BY <2>1, <3>1, <3>3, <3>4, <3>5, <1>b DEF Promise!Answer, Promise!Verdict, Answer
      <3> QED
        BY <3>1, <3>6 DEF Promise!Next
    <2> QED
      BY <2>3, <2>4
  <1>7. CASE ApplyFails \/ WorkerDies
    <2>1. UNCHANGED <<sequence, reserve, ready, queued, active, applied, results, stager,
                      waiter, outcome>>
      BY <1>7 DEF ApplyFails, WorkerDies, files, client, config, waiting
    <2>2. \A k \in Jobs : PlaceOf(k)' = PlaceOf(k) /\ TicketOf(k)' = TicketOf(k)
      BY <2>1 DEF PlaceOf, TicketOf
    <2> QED
      BY <2>1, <2>2, <1>b, Stutters
  <1> QED
    BY <1>1, <1>2, <1>4, <1>5, <1>6, <1>7 DEF Serving

\* The clients that wait for a result
LEMMA WaitingRefines ==
  ASSUME IInv, IInv', Told, NEW j \in Jobs,
         \/ Waiting(j) \/ AbandonDies(j) \/ RecoverJob(j)
  PROVE  [Promise!Next]_(Promise!vars)
  <1>b. UNCHANGED stager => Broken' = Broken
    BY DEF Broken
  <1>0. Typed /\ Lifecycle /\ Line /\ GivenUp
    BY DEF IInv
  <1>1. waiter[j] # "off" => stager[j] \notin Early \cup {"new"}
    BY <1>0 DEF Lifecycle, Early
  <1>2. CASE ReadResult(j) \/ GiveUp(j) \/ RecoverJob(j)
    <2>1. /\ waiter[j] # "abandon" /\ waiter'[j] # "abandon"
          /\ \A k \in Jobs \ {j} : waiter'[k] = waiter[k]
          /\ UNCHANGED <<sequence, reserve, ready, queued, active, applied, results, stager>>
      BY <1>0, <1>2 DEF ReadResult, GiveUp, RecoverJob, others, files, client, config, Typed
    <2>2. \A k \in Jobs : PlaceOf(k)' = PlaceOf(k) /\ TicketOf(k)' = TicketOf(k)
      BY <2>1 DEF PlaceOf, TicketOf
    <2>3. {k \in Jobs : waiter[k] = "abandon"}' = {k \in Jobs : waiter[k] = "abandon"}
      BY <2>1
    <2>4. CASE outcome' = outcome
      BY <2>1, <2>2, <2>4, <1>b, Stutters
    <2>5. ASSUME NEW r \in {"succeeded", "failed", "timedout", "missing"}, outcome[j] = "none",
                 outcome' = [outcome EXCEPT ![j] = r],
                 \/ results[j] # "none" /\ r = results[j]
                 \/ results[j] = "none" /\ PlaceOf(j) = "out" /\ r \in {"timedout", "missing"}
          PROVE  [Promise!Next]_(Promise!vars)
      <3>1. Promise!Tell(j, r)
        BY <2>1, <2>2, <2>3, <2>5, <1>b DEF Promise!Tell, Promise!line
      <3> QED
        BY <3>1 DEF Promise!Next
    <2>6. CASE ReadResult(j)
      <3>1. outcome[j] = "none" /\ results[j] \in {"succeeded", "failed"}
            /\ outcome' = [outcome EXCEPT ![j] = results[j]]
        BY <1>0, <2>6 DEF ReadResult, Told, Typed
      <3> QED
        BY <2>5, <3>1
    <2>7. CASE GiveUp(j)
      <3>1. /\ outcome[j] = "none" /\ results[j] = "none" /\ waiter[j] # "off"
            /\ \E r \in {"timedout", "missing"} : outcome' = [outcome EXCEPT ![j] = r]
            /\ Gone(j)
        BY <1>0, <2>7 DEF GiveUp, Told, GivenUp
      <3>2. PlaceOf(j) = "out"
        BY <1>1, <3>1 DEF PlaceOf, Gone
      <3> QED
        BY <2>5, <3>1, <3>2
    <2>8. CASE RecoverJob(j)
      <3>1. \/ outcome' = outcome
            \/ /\ outcome[j] = "none" /\ results[j] \in {"succeeded", "failed"}
               /\ outcome' = [outcome EXCEPT ![j] = results[j]]
        BY <1>0, <2>8 DEF RecoverJob, Typed
      <3> QED
        BY <2>4, <2>5, <3>1
    <2> QED
      BY <1>2, <2>6, <2>7, <2>8
  <1>3. CASE CheckPresence(j) \/ FinalPresence(j)
    <2>1. /\ waiter[j] # "abandon" /\ waiter'[j] # "abandon"
          /\ \A k \in Jobs \ {j} : waiter'[k] = waiter[k]
          /\ UNCHANGED <<sequence, reserve, ready, queued, active, applied, results, stager,
                         outcome>>
      BY <1>0, <1>3
         DEF CheckPresence, FinalPresence, Moves, others, files, client, config, Typed
    <2>2. \A k \in Jobs : PlaceOf(k)' = PlaceOf(k) /\ TicketOf(k)' = TicketOf(k)
      BY <2>1 DEF PlaceOf, TicketOf
    <2> QED
      BY <2>1, <2>2, <1>b, Stutters
  <1>4. CASE CheckTurn(j)
    <2>1. /\ waiter[j] = "turn" /\ waiter'[j] = IF WaitingForTurn(j) THEN "poll" ELSE "abandon"
          /\ \A k \in Jobs \ {j} : waiter'[k] = waiter[k]
          /\ reserve' = SweptReserve /\ queued' = queued \ Unpublished
          /\ UNCHANGED <<sequence, ready, active, applied, results, stager, outcome>>
      BY <1>0, <1>4 DEF CheckTurn, Moves, Sweep, others, client, config, Typed
    <2>2. \A k \in Jobs : Waits(k)' <=> Waits(k)
      BY <1>0, <2>1, SweptFacts DEF Waits, Typed
    <2>3. ASSUME NEW k \in Jobs PROVE KeepsPlace(k)
      BY <1>0, <2>1, <2>2, SweptKeeps
    <2>4. CASE WaitingForTurn(j)
      BY <2>1, <2>3, <2>4, <1>b, SweepOnly
    <2>5. CASE ~ WaitingForTurn(j)
      <3>1. stager[j] \notin Early \cup {"new"}
        BY <1>1, <2>1
      <3>2. PlaceOf(j)' = PlaceOf(j) /\ TicketOf(j)' = TicketOf(j)
        BY <2>1, <2>2, <3>1 DEF PlaceOf, TicketOf, Waits
      <3>3. Promise!Settle(j, PlaceOf(j), TicketOf(j))
        BY <2>1, <2>3, <3>2, SettleFacts
      <3>4. ASSUME PlaceOf(j) = "published" PROVE Promise!IsNext(j)
        <4>1. TicketOf(j) = ready[j] /\ ready[j] > 0 /\ ready[j] \in Nat
          BY <1>0, <3>4 DEF PlaceOf, TicketOf, Typed
        <4>2. active = {} /\ ~ Lower(ready[j], ready) /\ ~ Lower(ready[j], SweptReserve)
          BY <2>5, <4>1 DEF WaitingForTurn
        <4>3. \A k \in Jobs : PlaceOf(k) # "served"
          BY <4>2 DEF PlaceOf
        <4>4. ASSUME NEW k \in Jobs \ {j}, PlaceOf(k)' \in {"reserved", "published"}
              PROVE  TicketOf(j) < TicketOf(k)'
          <5>0. ready[k] \in Nat /\ reserve[k] \in Nat
            BY <1>0 DEF Typed
          <5>1. CASE PlaceOf(k)' = "published"
            <6>1. ready[k] > 0 /\ TicketOf(k)' = ready[k]
              BY <2>1, <5>1 DEF PlaceOf, TicketOf
            <6>2. ready[k] # ready[j] /\ ready[k] \notin 1 .. ready[j] - 1
              BY <1>0, <4>2, <6>1 DEF Line, Lower
            <6> QED
              BY <4>1, <5>0, <6>1, <6>2
          <5>2. CASE PlaceOf(k)' = "reserved"
            <6>1. SweptReserve[k] > 0 /\ TicketOf(k)' = SweptReserve[k]
              BY <2>1, <5>2 DEF PlaceOf, TicketOf
            <6>2. SweptReserve[k] = reserve[k]
              BY <1>0, <5>0, <6>1, SweptFacts
            <6>3. reserve[k] # ready[j] /\ reserve[k] \notin 1 .. ready[j] - 1
              BY <1>0, <4>2, <6>1, <6>2 DEF Line, Lower
            <6> QED
              BY <4>1, <5>0, <6>1, <6>2, <6>3
          <5> QED
            BY <4>4, <5>1, <5>2
        <4> QED
          BY <4>3, <4>4 DEF Promise!IsNext, Promise!At, Promise!InLine
      <3>5. {k \in Jobs : waiter[k] = "abandon"}' = {k \in Jobs : waiter[k] = "abandon"} \cup {j}
        BY <2>1, <2>5
      <3>6. Promise!Tire(j)
        BY <2>1, <3>3, <3>4, <3>5, <1>b DEF Promise!Tire
      <3> QED
        BY <3>6 DEF Promise!Next
    <2> QED
      BY <2>4, <2>5
  <1>5. CASE TryAbandon(j) \/ AbandonDies(j)
    <2>1. /\ waiter[j] = "abandon" /\ waiter'[j] # "abandon"
          /\ \A k \in Jobs \ {j} : waiter'[k] = waiter[k]
          /\ \A k \in Jobs \ {j} : ready'[k] = ready[k] /\ (k \in queued' <=> k \in queued)
          /\ \/ ready'[j] = 0 /\ j \notin active
             \/ ready'[j] = ready[j] /\ queued' = queued
          /\ UNCHANGED <<sequence, reserve, active, applied, results, stager, outcome>>
      BY <1>0, <1>5
         DEF TryAbandon, AbandonDies, Presence, Moves, others, client, config, Typed
    <2>2. {k \in Jobs : waiter[k] = "abandon"}' = {k \in Jobs : waiter[k] = "abandon"} \ {j}
      BY <2>1
    <2>3. \A k \in Jobs \ {j} : PlaceOf(k)' = PlaceOf(k) /\ TicketOf(k)' = TicketOf(k)
      BY <2>1 DEF PlaceOf, TicketOf
    <2>4. CASE PlaceOf(j)' = PlaceOf(j) /\ TicketOf(j)' = TicketOf(j)
      <3>1. Promise!Calm(j)
        BY <2>1, <2>2, <2>3, <2>4, <1>b DEF Promise!Calm, Promise!line
      <3> QED
        BY <3>1 DEF Promise!Next
    <2>5. CASE PlaceOf(j) = "published" /\ PlaceOf(j)' = "out" /\ TicketOf(j)' = 0
      <3>1. Promise!Withdraw(j)
        BY <2>1, <2>2, <2>3, <2>5, <1>b DEF Promise!Withdraw
      <3> QED
        BY <3>1 DEF Promise!Next
    <2>6. \/ PlaceOf(j)' = PlaceOf(j) /\ TicketOf(j)' = TicketOf(j)
          \/ PlaceOf(j) = "published" /\ PlaceOf(j)' = "out" /\ TicketOf(j)' = 0
      BY <1>1, <2>1 DEF PlaceOf, TicketOf
    <2> QED
      BY <2>4, <2>5, <2>6
  <1> QED
    BY <1>2, <1>3, <1>4, <1>5 DEF Waiting

LEMMA RestRefines ==
  ASSUME NEW j \in Jobs, RefreshSlot(j) \/ SlotExpires(j)
  PROVE  [Promise!Next]_(Promise!vars)
  <1>1. UNCHANGED <<sequence, reserve, ready, queued, active, applied, results, stager, waiter,
                    outcome>>
    BY DEF RefreshSlot, SlotExpires, client, config, waiting
  <1>2. \A k \in Jobs : PlaceOf(k)' = PlaceOf(k) /\ TicketOf(k)' = TicketOf(k)
    BY <1>1 DEF PlaceOf, TicketOf
  <1>3. Broken' = Broken
    BY <1>1 DEF Broken
  <1> QED
    BY <1>1, <1>2, <1>3, Stutters

\* The staged queue keeps the promise of JobLine, for any finite set of jobs, any limit and
\* however many processes die: its line is bounded and served in the order of the
\* reservations, a published job leaves it only by being served, withdrawn by its own client
\* while it was next, or removed at the moment its own client fails, and what a client is
\* told is and stays true (reserve_staged_job_slot, publish_ready_marker, claim_next_job,
\* try_abandon_queued_job, finalize_abandoned_active_jobs, StagedResultWaiter.poll).
THEOREM ImplementsJobLine == Spec => RefinesJobLine
  <1>1. Init => Promise!Init /\ Told /\ Answered
    BY DEF Init, Promise!Init, PlaceOf, TicketOf, Broken, Told, Answered
  <1>2. IInv /\ IInv' /\ Told /\ Answered /\ [Next]_vars
        => Told' /\ Answered' /\ [Promise!Next]_(Promise!vars)
    <2> SUFFICES ASSUME IInv, IInv', Told, Answered, [Next]_vars
                 PROVE  Told' /\ Answered' /\ [Promise!Next]_(Promise!vars)
      OBVIOUS
    <2>1. Told' /\ Answered'
      BY ToldStep, AnsweredStep
    <2>2. ASSUME NEW j \in Jobs,
                 \/ Staging(j) \/ Waiting(j) \/ RefreshSlot(j) \/ SlotExpires(j)
                 \/ ClientDies(j) \/ PublishDies(j) \/ WaitFails(j) \/ AbandonDies(j)
                 \/ RecoverJob(j) \/ ClaimDies(j)
          PROVE  [Promise!Next]_(Promise!vars)
      BY <2>2, StagingRefines, PublishRefines, BreakRefines, WaitingRefines, RestRefines,
         ClaimRefines
    <2>3. CASE Serving \/ WorkerDies
      BY <2>1, <2>3, ServingRefines
    <2>4. CASE UNCHANGED vars
      <3>1. UNCHANGED <<sequence, reserve, ready, queued, active, applied, results, stager,
                        waiter, outcome>>
        BY <2>4 DEF vars, files, client, config, waiting
      <3>2. \A k \in Jobs : PlaceOf(k)' = PlaceOf(k) /\ TicketOf(k)' = TicketOf(k)
        BY <3>1 DEF PlaceOf, TicketOf
      <3>3. Broken' = Broken
        BY <3>1 DEF Broken
      <3> QED
        BY <2>1, <3>1, <3>2, <3>3, Stutters
    <2> QED
      BY <2>1, <2>2, <2>3, <2>4 DEF Next
  <1> QED
    BY <1>1, <1>2, IInvAlways, PTL DEF Spec, RefinesJobLine, Promise!Spec
=============================================================================
