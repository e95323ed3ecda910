-------------------------- MODULE ApiQueuesProofs --------------------------
(***************************************************************************)
(* Safety of the export queue and of the job manager, for any sets of      *)
(* requests and jobs and any number of faults.                             *)
(***************************************************************************)
EXTENDS MCApiQueues, FiniteSetTheorems, WellFoundedInduction, TLAPS

-----------------------------------------------------------------------------
(* The export queue *)

\* What keeps the slot of a request, and what keeps it an entry that cleanup looks at
HasSlot(i) ==
    i \in request \/ i \in ack \/ archive[i] > 0 \/ i \in error
        \/ <<i, "request">> \in active \/ <<i, "ack">> \in active

HasEntry(i, kind) ==
    \/ kind = "request" /\ i \in request
    \/ kind = "ack" /\ i \in ack
    \/ kind = "archive" /\ archive[i] > 0
    \/ kind = "error" /\ i \in error

\* TypeOK, with the entries that are old element by element
Typed ==
    /\ request \subseteq ExportIds /\ ack \subseteq ExportIds /\ error \subseteq ExportIds
    /\ active \subseteq ExportIds \X {"request", "ack"}
    /\ archive \in [ExportIds -> 0 .. MaxVersion]
    /\ old \subseteq ExportIds \X Exports!Kinds
    /\ \A i \in ExportIds, kind \in Exports!Kinds : <<i, kind>> \in old => HasEntry(i, kind)
    /\ client \in [ExportIds -> {"new", "polling", "leaving", "done"}]
    /\ got \in [ExportIds -> 0 .. MaxVersion] /\ since \in [ExportIds -> 0 .. MaxVersion]
    /\ stepped \subseteq ExportIds /\ version \in 1 .. MaxVersion
    /\ worker \in {"idle", "recover", "cleanup", "drain", "unlink_archive", "unlink_error",
                   "unlink_claim", "export", "publish", "published", "stopped"}
    /\ current \in ExportIds \cup {Exports!NoId}
    /\ payload \in 0 .. MaxVersion
    /\ finalize \in BOOLEAN
    /\ exportFaults \in 0 .. ExportFaults

\* A client that was admitted keeps its slot until it leaves, unless a clock step hit it;
\* what is acknowledged or old belongs to a client that has left or was hit.
ClientSide ==
    \A i \in ExportIds :
        /\ client[i] = "new" => ~HasSlot(i) /\ got[i] = 0
        /\ client[i] \in {"polling", "leaving"} => HasSlot(i) \/ i \in stepped
        /\ i \in ack \/ <<i, "ack">> \in active => client[i] = "done"
        /\ \A kind \in Exports!Kinds : <<i, kind>> \in old => client[i] = "done" \/ i \in stepped

\* While the worker drains, its claim is the only one; it exports what has no result yet
\* and drops the claim of a request that has one.
WorkerSide ==
    /\ worker \in {"cleanup", "drain"} => active = {}
    /\ worker \in {"export", "publish", "published"} =>
        current \in ExportIds /\ active = {<<current, "request">>}
    /\ worker \in {"unlink_archive", "unlink_error"} =>
        current \in ExportIds /\ active = {<<current, "ack">>}
    /\ worker = "unlink_claim" =>
        /\ current \in ExportIds
        /\ \/ active = {<<current, "request">>} /\ Exports!Published(current)
           \/ active = {<<current, "ack">>}
    /\ worker \in {"export", "publish"} => ~Exports!Published(current)
    /\ worker = "published" => Exports!Published(current)

\* An archive, and the bytes of one, were committed after the request was admitted; so was
\* what a client returned.
Fresh ==
    /\ \A i \in ExportIds :
        /\ since[i] <= version
        /\ archive[i] > 0 => since[i] <= archive[i] /\ archive[i] <= version
        /\ got[i] > 0 => since[i] <= got[i] /\ got[i] <= version
    /\ worker = "publish" => since[current] <= payload /\ payload <= version /\ payload > 0

ExportInv == Typed /\ ClientSide /\ WorkerSide /\ Exports!OneResult /\ Fresh

\* No step but an admission gives a request a slot, or the acknowledgement of a client that
\* a clock step hit.  What was hit stays known.
Admission ==
    /\ stepped \subseteq stepped'
    /\ \A i \in ExportIds : HasSlot(i)' =>
        \/ HasSlot(i)
        \/ client[i] = "new" /\ Exports!Submit(i)
        \/ i \in stepped /\ client[i] = "leaving" /\ client'[i] = "done"

LEMMA ExportStep == ExportInv /\ [Exports!Next]_(Exports!vars) => ExportInv' /\ Admission
  <1>0. SUFFICES ASSUME Typed, ClientSide, WorkerSide, Exports!OneResult, Fresh,
                        [Exports!Next]_(Exports!vars)
                 PROVE  ExportInv' /\ Admission
    BY DEF ExportInv
  <1> USE DEF Exports!ExportQueueConstants, Exports!Kinds, Exports!requests,
              Exports!results, Exports!clients, Exports!process
  <1>1. ASSUME NEW i \in ExportIds, Exports!Submit(i) PROVE ExportInv' /\ Admission
    <2>1. Typed'
      BY <1>0, <1>1, QueueConstants DEF Typed, HasEntry, Exports!Submit
    <2>2. ClientSide'
      BY <1>0, <1>1, QueueConstants DEF Typed, ClientSide, HasSlot, Exports!Submit
    <2>3. WorkerSide'
      BY <1>0, <1>1, QueueConstants DEF Typed, WorkerSide, Exports!Published, Exports!Submit
    <2>4. Exports!OneResult'
      BY <1>0, <1>1, QueueConstants DEF Typed, WorkerSide, Exports!OneResult, Exports!Published,
         Exports!Submit
    <2>5. Fresh'
      <3>1. ~HasSlot(i) /\ got[i] = 0
        BY <1>0, <1>1 DEF ClientSide, Exports!Submit
      <3>2. ~(archive[i] > 0) /\ (worker = "publish" => current # i)
        BY <1>0, <3>1 DEF HasSlot, WorkerSide
      <3> QED
        BY <1>0, <1>1, <3>1, <3>2, QueueConstants DEF Typed, WorkerSide, Fresh, Exports!Submit
    <2>6. Admission
      BY <1>0, <1>1, QueueConstants DEF Typed, HasSlot, Admission, ClientSide, Exports!Submit
    <2> QED
      BY <2>1, <2>2, <2>3, <2>4, <2>5, <2>6 DEF ExportInv
  <1>2. ASSUME NEW i \in ExportIds, Exports!SubmitBusy(i) PROVE ExportInv' /\ Admission
    <2>1. Typed'
      BY <1>0, <1>2, QueueConstants DEF Typed, HasEntry, Exports!SubmitBusy
    <2>2. ClientSide'
      BY <1>0, <1>2, QueueConstants DEF Typed, ClientSide, HasSlot, Exports!SubmitBusy
    <2>3. WorkerSide'
      BY <1>0, <1>2, QueueConstants DEF Typed, WorkerSide, Exports!Published, Exports!SubmitBusy
    <2>4. Exports!OneResult'
      BY <1>0, <1>2, QueueConstants DEF Typed, WorkerSide, Exports!OneResult, Exports!Published,
         Exports!SubmitBusy
    <2>5. Fresh'
      BY <1>0, <1>2, QueueConstants DEF Typed, WorkerSide, Fresh, Exports!SubmitBusy
    <2>6. Admission
      BY <1>0, <1>2, QueueConstants DEF Typed, HasSlot, Admission, Exports!SubmitBusy
    <2> QED
      BY <2>1, <2>2, <2>3, <2>4, <2>5, <2>6 DEF ExportInv
  <1>3. ASSUME NEW i \in ExportIds, Exports!ReadResult(i) PROVE ExportInv' /\ Admission
    <2>1. Typed'
      BY <1>0, <1>3, QueueConstants DEF Typed, HasEntry, Exports!ReadResult
    <2>2. ClientSide'
      BY <1>0, <1>3, QueueConstants DEF Typed, ClientSide, HasSlot, Exports!Published,
         Exports!ReadResult
    <2>3. WorkerSide'
      BY <1>0, <1>3, QueueConstants DEF Typed, WorkerSide, Exports!Published, Exports!ReadResult
    <2>4. Exports!OneResult'
      BY <1>0, <1>3, QueueConstants DEF Typed, WorkerSide, Exports!OneResult, Exports!Published,
         Exports!ReadResult
    <2>5. Fresh'
      BY <1>0, <1>3, QueueConstants DEF Typed, WorkerSide, Fresh, Exports!ReadResult
    <2>6. Admission
      BY <1>0, <1>3, QueueConstants DEF Typed, HasSlot, Admission, Exports!ReadResult
    <2> QED
      BY <2>1, <2>2, <2>3, <2>4, <2>5, <2>6 DEF ExportInv
  <1>4. ASSUME NEW i \in ExportIds, Exports!GiveUp(i) PROVE ExportInv' /\ Admission
    <2>1. Typed'
      BY <1>0, <1>4, QueueConstants DEF Typed, HasEntry, Exports!GiveUp
    <2>2. ClientSide'
      BY <1>0, <1>4, QueueConstants DEF Typed, ClientSide, HasSlot, Exports!GiveUp
    <2>3. WorkerSide'
      BY <1>0, <1>4, QueueConstants DEF Typed, WorkerSide, Exports!Published, Exports!GiveUp
    <2>4. Exports!OneResult'
      BY <1>0, <1>4, QueueConstants DEF Typed, WorkerSide, Exports!OneResult, Exports!Published,
         Exports!GiveUp
    <2>5. Fresh'
      BY <1>0, <1>4, QueueConstants DEF Typed, WorkerSide, Fresh, Exports!GiveUp
    <2>6. Admission
      BY <1>0, <1>4, QueueConstants DEF Typed, HasSlot, Admission, Exports!GiveUp
    <2> QED
      BY <2>1, <2>2, <2>3, <2>4, <2>5, <2>6 DEF ExportInv
  <1>5. ASSUME NEW i \in ExportIds, Exports!Acknowledge(i) PROVE ExportInv' /\ Admission
    <2>1. Typed'
      BY <1>0, <1>5, QueueConstants DEF Typed, HasEntry, Exports!Acknowledge
    <2>2. ClientSide'
      BY <1>0, <1>5, QueueConstants DEF Typed, ClientSide, HasSlot, Exports!Acknowledge
    <2>3. WorkerSide'
      BY <1>0, <1>5, QueueConstants DEF Typed, WorkerSide, Exports!Published, Exports!Acknowledge
    <2>4. Exports!OneResult'
      BY <1>0, <1>5, QueueConstants DEF Typed, WorkerSide, Exports!OneResult, Exports!Published,
         Exports!Acknowledge
    <2>5. Fresh'
      BY <1>0, <1>5, QueueConstants DEF Typed, WorkerSide, Fresh, Exports!Acknowledge
    <2>6. Admission
      BY <1>0, <1>5, QueueConstants DEF Typed, HasSlot, Admission, ClientSide, Exports!Acknowledge
    <2> QED
      BY <2>1, <2>2, <2>3, <2>4, <2>5, <2>6 DEF ExportInv
  <1>6. ASSUME NEW gone \in SUBSET ExportIds, Exports!ClientFault(gone)
      PROVE ExportInv' /\ Admission
    <2>1. Typed'
      BY <1>0, <1>6, QueueConstants DEF Typed, HasEntry, Exports!ClientFault
    <2>2. ClientSide'
      BY <1>0, <1>6, QueueConstants DEF Typed, ClientSide, HasSlot, Exports!ClientFault
    <2>3. WorkerSide'
      BY <1>0, <1>6, QueueConstants DEF Typed, WorkerSide, Exports!Published, Exports!ClientFault
    <2>4. Exports!OneResult'
      BY <1>0, <1>6, QueueConstants DEF Typed, WorkerSide, Exports!OneResult, Exports!Published,
         Exports!ClientFault
    <2>5. Fresh'
      BY <1>0, <1>6, QueueConstants DEF Typed, WorkerSide, Fresh, Exports!ClientFault
    <2>6. Admission
      BY <1>0, <1>6, QueueConstants DEF Typed, HasSlot, Admission, Exports!ClientFault
    <2> QED
      BY <2>1, <2>2, <2>3, <2>4, <2>5, <2>6 DEF ExportInv
  <1>7. ASSUME NEW i \in ExportIds, NEW kind \in Exports!Kinds, Exports!Age(i, kind)
      PROVE ExportInv' /\ Admission
    <2>1. Typed'
      BY <1>0, <1>7, QueueConstants DEF Typed, HasEntry, Exports!Entries, Exports!Age
    <2>2. ClientSide'
      BY <1>0, <1>7, QueueConstants DEF Typed, ClientSide, HasSlot, Exports!Age
    <2>3. WorkerSide'
      BY <1>0, <1>7, QueueConstants DEF Typed, WorkerSide, Exports!Published, Exports!Age
    <2>4. Exports!OneResult'
      BY <1>0, <1>7, QueueConstants DEF Typed, WorkerSide, Exports!OneResult, Exports!Published,
         Exports!Age
    <2>5. Fresh'
      BY <1>0, <1>7, QueueConstants DEF Typed, WorkerSide, Fresh, Exports!Age
    <2>6. Admission
      BY <1>0, <1>7, QueueConstants DEF Typed, HasSlot, Admission, Exports!Age
    <2> QED
      BY <2>1, <2>2, <2>3, <2>4, <2>5, <2>6 DEF ExportInv
  <1>8. CASE Exports!CommitConfig
    <2>1. Typed'
      BY <1>0, <1>8, QueueConstants DEF Typed, HasEntry, Exports!CommitConfig
    <2>2. ClientSide'
      BY <1>0, <1>8, QueueConstants DEF Typed, ClientSide, HasSlot, Exports!CommitConfig
    <2>3. WorkerSide'
      BY <1>0, <1>8, QueueConstants DEF Typed, WorkerSide, Exports!Published, Exports!CommitConfig
    <2>4. Exports!OneResult'
      BY <1>0, <1>8, QueueConstants DEF Typed, WorkerSide, Exports!OneResult, Exports!Published,
         Exports!CommitConfig
    <2>5. Fresh'
      BY <1>0, <1>8, QueueConstants DEF Typed, WorkerSide, Fresh, Exports!CommitConfig
    <2>6. Admission
      BY <1>0, <1>8, QueueConstants DEF Typed, HasSlot, Admission, Exports!CommitConfig
    <2> QED
      BY <2>1, <2>2, <2>3, <2>4, <2>5, <2>6 DEF ExportInv
  <1>9. CASE Exports!StartService
    <2>1. Typed'
      BY <1>0, <1>9, QueueConstants DEF Typed, HasEntry, Exports!StartService
    <2>2. ClientSide'
      BY <1>0, <1>9, QueueConstants DEF Typed, ClientSide, HasSlot, Exports!StartService
    <2>3. WorkerSide'
      BY <1>0, <1>9, QueueConstants DEF Typed, WorkerSide, Exports!Published, Exports!StartService
    <2>4. Exports!OneResult'
      BY <1>0, <1>9, QueueConstants DEF Typed, WorkerSide, Exports!OneResult, Exports!Published,
         Exports!StartService
    <2>5. Fresh'
      BY <1>0, <1>9, QueueConstants DEF Typed, WorkerSide, Fresh, Exports!StartService
    <2>6. Admission
      BY <1>0, <1>9, QueueConstants DEF Typed, HasSlot, Admission, Exports!StartService
    <2> QED
      BY <2>1, <2>2, <2>3, <2>4, <2>5, <2>6 DEF ExportInv
  <1>10. ASSUME NEW i \in ExportIds, Exports!FailClaim(i) PROVE ExportInv' /\ Admission
    <2>1. Typed'
      BY <1>0, <1>10, QueueConstants DEF Typed, HasEntry, Exports!FailClaim
    <2>2. ClientSide'
      BY <1>0, <1>10, QueueConstants DEF Typed, ClientSide, HasSlot, Exports!FailClaim
    <2>3. WorkerSide'
      BY <1>0, <1>10, QueueConstants DEF Typed, WorkerSide, Exports!Published, Exports!FailClaim
    <2>4. Exports!OneResult'
      BY <1>0, <1>10, QueueConstants DEF Typed, WorkerSide, Exports!OneResult, Exports!Published,
         Exports!FailClaim
    <2>5. Fresh'
      BY <1>0, <1>10, QueueConstants DEF Typed, WorkerSide, Fresh, Exports!FailClaim
    <2>6. Admission
      BY <1>0, <1>10, QueueConstants DEF Typed, HasSlot, Admission, Exports!FailClaim
    <2> QED
      BY <2>1, <2>2, <2>3, <2>4, <2>5, <2>6 DEF ExportInv
  <1>11. ASSUME NEW x \in active, Exports!DiscardClaim(x) PROVE ExportInv' /\ Admission
    <2>1. Typed'
      BY <1>0, <1>11, QueueConstants DEF Typed, HasEntry, Exports!DiscardClaim
    <2>2. ClientSide'
      <3>1. PICK i \in ExportIds, op \in {"request", "ack"} : x = <<i, op>>
        BY <1>0, <1>11 DEF Typed
      <3> QED
        BY <1>0, <1>11, <3>1 DEF Typed, ClientSide, HasSlot, Exports!Published, Exports!DiscardClaim
    <2>3. WorkerSide'
      BY <1>0, <1>11, QueueConstants DEF Typed, WorkerSide, Exports!Published, Exports!DiscardClaim
    <2>4. Exports!OneResult'
      BY <1>0, <1>11, QueueConstants DEF Typed, WorkerSide, Exports!OneResult, Exports!Published,
         Exports!DiscardClaim
    <2>5. Fresh'
      BY <1>0, <1>11, QueueConstants DEF Typed, WorkerSide, Fresh, Exports!DiscardClaim
    <2>6. Admission
      BY <1>0, <1>11, QueueConstants DEF Typed, HasSlot, Admission, Exports!Published,
         Exports!DiscardClaim
    <2> QED
      BY <2>1, <2>2, <2>3, <2>4, <2>5, <2>6 DEF ExportInv
  <1>12. CASE Exports!BeginCleanup
    <2>1. Typed'
      BY <1>0, <1>12, QueueConstants DEF Typed, HasEntry, Exports!BeginCleanup
    <2>2. ClientSide'
      BY <1>0, <1>12, QueueConstants DEF Typed, ClientSide, HasSlot, Exports!BeginCleanup
    <2>3. WorkerSide'
      BY <1>0, <1>12, QueueConstants DEF Typed, WorkerSide, Exports!Published, Exports!BeginCleanup
    <2>4. Exports!OneResult'
      BY <1>0, <1>12, QueueConstants DEF Typed, WorkerSide, Exports!OneResult, Exports!Published,
         Exports!BeginCleanup
    <2>5. Fresh'
      BY <1>0, <1>12, QueueConstants DEF Typed, WorkerSide, Fresh, Exports!BeginCleanup
    <2>6. Admission
      BY <1>0, <1>12, QueueConstants DEF Typed, HasSlot, Admission, Exports!BeginCleanup
    <2> QED
      BY <2>1, <2>2, <2>3, <2>4, <2>5, <2>6 DEF ExportInv
  <1>13. ASSUME NEW i \in ExportIds, NEW kind \in Exports!Kinds, Exports!Cleanup(i, kind)
      PROVE ExportInv' /\ Admission
    <2>1. Typed'
      BY <1>0, <1>13, QueueConstants DEF Typed, HasEntry, Exports!Cleanup
    <2>2. ClientSide'
      <3>1. client[i] = "done" \/ i \in stepped
        BY <1>0, <1>13 DEF ClientSide, Exports!Cleanup
      <3>2. ASSUME NEW k \in ExportIds
            PROVE  /\ HasSlot(k)' => HasSlot(k)
                   /\ k # i => (HasSlot(k) => HasSlot(k)')
        BY <1>0, <1>13 DEF Typed, HasSlot, Exports!Cleanup
      <3>3. /\ \A k \in ExportIds : k \in ack' => k \in ack
            /\ \A k \in ExportIds, x \in Exports!Kinds : <<k, x>> \in old' => <<k, x>> \in old
            /\ UNCHANGED <<client, got, stepped, active>>
        BY <1>0, <1>13 DEF Exports!Cleanup
      <3> QED
        BY <1>0, <3>1, <3>2, <3>3, <1>13 DEF ClientSide
    <2>3. WorkerSide'
      BY <1>0, <1>13, QueueConstants DEF Typed, WorkerSide, Exports!Published, Exports!Cleanup
    <2>4. Exports!OneResult'
      BY <1>0, <1>13, QueueConstants DEF Typed, WorkerSide, Exports!OneResult, Exports!Published,
         Exports!Cleanup
    <2>5. Fresh'
      BY <1>0, <1>13, QueueConstants DEF Typed, WorkerSide, Fresh, Exports!Cleanup
    <2>6. Admission
      BY <1>0, <1>13, QueueConstants DEF Typed, HasSlot, Admission, Exports!Cleanup
    <2> QED
      BY <2>1, <2>2, <2>3, <2>4, <2>5, <2>6 DEF ExportInv
  <1>14. CASE Exports!CleanupDone
    <2>1. Typed'
      BY <1>0, <1>14, QueueConstants DEF Typed, HasEntry, Exports!CleanupDone
    <2>2. ClientSide'
      BY <1>0, <1>14, QueueConstants DEF Typed, ClientSide, HasSlot, Exports!CleanupDone
    <2>3. WorkerSide'
      BY <1>0, <1>14, QueueConstants DEF Typed, WorkerSide, Exports!Published, Exports!CleanupDone
    <2>4. Exports!OneResult'
      BY <1>0, <1>14, QueueConstants DEF Typed, WorkerSide, Exports!OneResult, Exports!Published,
         Exports!CleanupDone
    <2>5. Fresh'
      BY <1>0, <1>14, QueueConstants DEF Typed, WorkerSide, Fresh, Exports!CleanupDone
    <2>6. Admission
      BY <1>0, <1>14, QueueConstants DEF Typed, HasSlot, Admission, Exports!CleanupDone
    <2> QED
      BY <2>1, <2>2, <2>3, <2>4, <2>5, <2>6 DEF ExportInv
  <1>15. ASSUME NEW i \in ExportIds, Exports!ClaimRequest(i) PROVE ExportInv' /\ Admission
    <2>1. Typed'
      BY <1>0, <1>15, QueueConstants DEF Typed, HasEntry, Exports!ClaimRequest
    <2>2. ClientSide'
      BY <1>0, <1>15, QueueConstants DEF Typed, ClientSide, HasSlot, Exports!ClaimRequest
    <2>3. WorkerSide'
      BY <1>0, <1>15, QueueConstants DEF Typed, WorkerSide, Exports!Published, Exports!ClaimRequest
    <2>4. Exports!OneResult'
      BY <1>0, <1>15, QueueConstants DEF Typed, WorkerSide, Exports!OneResult, Exports!Published,
         Exports!ClaimRequest
    <2>5. Fresh'
      BY <1>0, <1>15, QueueConstants DEF Typed, WorkerSide, Fresh, Exports!ClaimRequest
    <2>6. Admission
      BY <1>0, <1>15, QueueConstants DEF Typed, HasSlot, Admission, Exports!ClaimRequest
    <2> QED
      BY <2>1, <2>2, <2>3, <2>4, <2>5, <2>6 DEF ExportInv
  <1>16. ASSUME NEW i \in ExportIds, Exports!ClaimAck(i) PROVE ExportInv' /\ Admission
    <2>1. Typed'
      BY <1>0, <1>16, QueueConstants DEF Typed, HasEntry, Exports!ClaimAck
    <2>2. ClientSide'
      BY <1>0, <1>16, QueueConstants DEF Typed, ClientSide, HasSlot, Exports!ClaimAck
    <2>3. WorkerSide'
      BY <1>0, <1>16, QueueConstants DEF Typed, WorkerSide, Exports!Published, Exports!ClaimAck
    <2>4. Exports!OneResult'
      BY <1>0, <1>16, QueueConstants DEF Typed, WorkerSide, Exports!OneResult, Exports!Published,
         Exports!ClaimAck
    <2>5. Fresh'
      BY <1>0, <1>16, QueueConstants DEF Typed, WorkerSide, Fresh, Exports!ClaimAck
    <2>6. Admission
      BY <1>0, <1>16, QueueConstants DEF Typed, HasSlot, Admission, Exports!ClaimAck
    <2> QED
      BY <2>1, <2>2, <2>3, <2>4, <2>5, <2>6 DEF ExportInv
  <1>17. CASE Exports!UnlinkArchive
    <2>1. Typed'
      BY <1>0, <1>17, QueueConstants DEF Typed, HasEntry, WorkerSide, Exports!UnlinkArchive
    <2>2. ClientSide'
      BY <1>0, <1>17, QueueConstants DEF Typed, ClientSide, HasSlot, WorkerSide,
         Exports!UnlinkArchive
    <2>3. WorkerSide'
      BY <1>0, <1>17, QueueConstants DEF Typed, WorkerSide, Exports!Published, Exports!UnlinkArchive
    <2>4. Exports!OneResult'
      BY <1>0, <1>17, QueueConstants DEF Typed, WorkerSide, Exports!OneResult, Exports!Published,
         Exports!UnlinkArchive
    <2>5. Fresh'
      BY <1>0, <1>17, QueueConstants DEF Typed, WorkerSide, Fresh, Exports!UnlinkArchive
    <2>6. Admission
      BY <1>0, <1>17, QueueConstants DEF Typed, HasSlot, Admission, Exports!UnlinkArchive
    <2> QED
      BY <2>1, <2>2, <2>3, <2>4, <2>5, <2>6 DEF ExportInv
  <1>18. CASE Exports!UnlinkError
    <2>1. Typed'
      BY <1>0, <1>18, QueueConstants DEF Typed, HasEntry, WorkerSide, Exports!UnlinkError
    <2>2. ClientSide'
      BY <1>0, <1>18, QueueConstants DEF Typed, ClientSide, HasSlot, WorkerSide, Exports!UnlinkError
    <2>3. WorkerSide'
      BY <1>0, <1>18, QueueConstants DEF Typed, WorkerSide, Exports!Published, Exports!UnlinkError
    <2>4. Exports!OneResult'
      BY <1>0, <1>18, QueueConstants DEF Typed, WorkerSide, Exports!OneResult, Exports!Published,
         Exports!UnlinkError
    <2>5. Fresh'
      BY <1>0, <1>18, QueueConstants DEF Typed, WorkerSide, Fresh, Exports!UnlinkError
    <2>6. Admission
      BY <1>0, <1>18, QueueConstants DEF Typed, HasSlot, Admission, Exports!UnlinkError
    <2> QED
      BY <2>1, <2>2, <2>3, <2>4, <2>5, <2>6 DEF ExportInv
  <1>19. CASE Exports!Export
    <2>1. Typed'
      BY <1>0, <1>19, QueueConstants DEF Typed, HasEntry, Exports!Export
    <2>2. ClientSide'
      BY <1>0, <1>19, QueueConstants DEF Typed, ClientSide, HasSlot, Exports!Export
    <2>3. WorkerSide'
      BY <1>0, <1>19, QueueConstants DEF Typed, WorkerSide, Exports!Published, Exports!Export
    <2>4. Exports!OneResult'
      BY <1>0, <1>19, QueueConstants DEF Typed, WorkerSide, Exports!OneResult, Exports!Published,
         Exports!Export
    <2>5. Fresh'
      BY <1>0, <1>19, QueueConstants DEF Typed, WorkerSide, Fresh, Exports!Export
    <2>6. Admission
      BY <1>0, <1>19, QueueConstants DEF Typed, HasSlot, Admission, Exports!Export
    <2> QED
      BY <2>1, <2>2, <2>3, <2>4, <2>5, <2>6 DEF ExportInv
  <1>20. CASE Exports!PublishArchive
    <2>1. Typed'
      BY <1>0, <1>20, QueueConstants DEF Typed, HasEntry, WorkerSide, Fresh, Exports!PublishArchive
    <2>2. ClientSide'
      BY <1>0, <1>20, QueueConstants DEF Typed, ClientSide, HasSlot, WorkerSide,
         Exports!PublishArchive
    <2>3. WorkerSide'
      BY <1>0, <1>20, QueueConstants DEF Typed, WorkerSide, Exports!Published, Fresh,
         Exports!PublishArchive
    <2>4. Exports!OneResult'
      BY <1>0, <1>20, QueueConstants DEF Typed, WorkerSide, Exports!OneResult, Exports!Published,
         Exports!PublishArchive
    <2>5. Fresh'
      BY <1>0, <1>20, QueueConstants DEF Typed, WorkerSide, Fresh, Exports!PublishArchive
    <2>6. Admission
      BY <1>0, <1>20, QueueConstants DEF Typed, HasSlot, Admission, WorkerSide,
         Exports!PublishArchive
    <2> QED
      BY <2>1, <2>2, <2>3, <2>4, <2>5, <2>6 DEF ExportInv
  <1>21. CASE Exports!PublishError
    <2>1. Typed'
      BY <1>0, <1>21, QueueConstants DEF Typed, HasEntry, WorkerSide, Exports!PublishError
    <2>2. ClientSide'
      BY <1>0, <1>21, QueueConstants DEF Typed, ClientSide, HasSlot, WorkerSide,
         Exports!PublishError
    <2>3. WorkerSide'
      BY <1>0, <1>21, QueueConstants DEF Typed, WorkerSide, Exports!Published, Exports!PublishError
    <2>4. Exports!OneResult'
      BY <1>0, <1>21, QueueConstants DEF Typed, WorkerSide, Exports!OneResult, Exports!Published,
         Exports!PublishError
    <2>5. Fresh'
      BY <1>0, <1>21, QueueConstants DEF Typed, WorkerSide, Fresh, Exports!PublishError
    <2>6. Admission
      BY <1>0, <1>21, QueueConstants DEF Typed, HasSlot, Admission, WorkerSide, Exports!PublishError
    <2> QED
      BY <2>1, <2>2, <2>3, <2>4, <2>5, <2>6 DEF ExportInv
  <1>22. CASE Exports!Unclaim
    <2>1. Typed'
      BY <1>0, <1>22, QueueConstants DEF Typed, HasEntry, Exports!Unclaim
    <2>2. ClientSide'
      BY <1>0, <1>22, QueueConstants DEF Typed, ClientSide, HasSlot, WorkerSide,
         Exports!Published, Exports!Unclaim
    <2>3. WorkerSide'
      BY <1>0, <1>22, QueueConstants DEF Typed, WorkerSide, Exports!Published, Exports!Unclaim
    <2>4. Exports!OneResult'
      BY <1>0, <1>22, QueueConstants DEF Typed, WorkerSide, Exports!OneResult, Exports!Published,
         Exports!Unclaim
    <2>5. Fresh'
      BY <1>0, <1>22, QueueConstants DEF Typed, WorkerSide, Fresh, Exports!Unclaim
    <2>6. Admission
      BY <1>0, <1>22, QueueConstants DEF Typed, HasSlot, Admission, Exports!Unclaim
    <2> QED
      BY <2>1, <2>2, <2>3, <2>4, <2>5, <2>6 DEF ExportInv
  <1>23. CASE Exports!DrainDone
    <2>1. Typed'
      BY <1>0, <1>23, QueueConstants DEF Typed, HasEntry, Exports!DrainDone
    <2>2. ClientSide'
      BY <1>0, <1>23, QueueConstants DEF Typed, ClientSide, HasSlot, Exports!DrainDone
    <2>3. WorkerSide'
      BY <1>0, <1>23, QueueConstants DEF Typed, WorkerSide, Exports!Published, Exports!DrainDone
    <2>4. Exports!OneResult'
      BY <1>0, <1>23, QueueConstants DEF Typed, WorkerSide, Exports!OneResult, Exports!Published,
         Exports!DrainDone
    <2>5. Fresh'
      BY <1>0, <1>23, QueueConstants DEF Typed, WorkerSide, Fresh, Exports!DrainDone
    <2>6. Admission
      BY <1>0, <1>23, QueueConstants DEF Typed, HasSlot, Admission, Exports!DrainDone
    <2> QED
      BY <2>1, <2>2, <2>3, <2>4, <2>5, <2>6 DEF ExportInv
  <1>24. CASE Exports!StopPost
    <2>1. Typed'
      BY <1>0, <1>24, QueueConstants DEF Typed, HasEntry, Exports!StopPost
    <2>2. ClientSide'
      BY <1>0, <1>24, QueueConstants DEF Typed, ClientSide, HasSlot, Exports!StopPost
    <2>3. WorkerSide'
      BY <1>0, <1>24, QueueConstants DEF Typed, WorkerSide, Exports!Published, Exports!StopPost
    <2>4. Exports!OneResult'
      BY <1>0, <1>24, QueueConstants DEF Typed, WorkerSide, Exports!OneResult, Exports!Published,
         Exports!StopPost
    <2>5. Fresh'
      BY <1>0, <1>24, QueueConstants DEF Typed, WorkerSide, Fresh, Exports!StopPost
    <2>6. Admission
      BY <1>0, <1>24, QueueConstants DEF Typed, HasSlot, Admission, Exports!StopPost
    <2> QED
      BY <2>1, <2>2, <2>3, <2>4, <2>5, <2>6 DEF ExportInv
  <1>25. CASE Exports!WorkerDies
    <2>1. Typed'
      BY <1>0, <1>25, QueueConstants DEF Typed, HasEntry, Exports!WorkerDies
    <2>2. ClientSide'
      BY <1>0, <1>25, QueueConstants DEF Typed, ClientSide, HasSlot, Exports!WorkerDies
    <2>3. WorkerSide'
      BY <1>0, <1>25, QueueConstants DEF Typed, WorkerSide, Exports!Published, Exports!WorkerDies
    <2>4. Exports!OneResult'
      BY <1>0, <1>25, QueueConstants DEF Typed, WorkerSide, Exports!OneResult, Exports!Published,
         Exports!WorkerDies
    <2>5. Fresh'
      BY <1>0, <1>25, QueueConstants DEF Typed, WorkerSide, Fresh, Exports!WorkerDies
    <2>6. Admission
      BY <1>0, <1>25, QueueConstants DEF Typed, HasSlot, Admission, Exports!WorkerDies
    <2> QED
      BY <2>1, <2>2, <2>3, <2>4, <2>5, <2>6 DEF ExportInv
  <1>26. ASSUME NEW hit \in SUBSET (Exports!Entries \ old), Exports!ClockSteps(hit)
      PROVE ExportInv' /\ Admission
    <2>0. \A k \in ExportIds, x \in Exports!Kinds : <<k, x>> \in hit => HasEntry(k, x)
      BY <1>0, <1>26 DEF Typed, HasEntry, Exports!Entries
    <2>1. Typed'
      BY <1>0, <1>26, <2>0, QueueConstants DEF Typed, HasEntry, Exports!Entries, Exports!ClockSteps
    <2>2. ClientSide'
      BY <1>0, <1>26, QueueConstants DEF Typed, ClientSide, HasSlot, Exports!ClockSteps
    <2>3. WorkerSide'
      BY <1>0, <1>26, QueueConstants DEF Typed, WorkerSide, Exports!Published, Exports!ClockSteps
    <2>4. Exports!OneResult'
      BY <1>0, <1>26, QueueConstants DEF Typed, WorkerSide, Exports!OneResult, Exports!Published,
         Exports!ClockSteps
    <2>5. Fresh'
      BY <1>0, <1>26, QueueConstants DEF Typed, WorkerSide, Fresh, Exports!ClockSteps
    <2>6. Admission
      BY <1>0, <1>26, QueueConstants DEF Typed, HasSlot, Admission, Exports!ClockSteps
    <2> QED
      BY <2>1, <2>2, <2>3, <2>4, <2>5, <2>6 DEF ExportInv
  <1>27. CASE UNCHANGED Exports!vars
    BY <1>0, <1>27 DEF ExportInv, Typed, ClientSide, WorkerSide, Exports!OneResult, Fresh,
       Admission,
       HasSlot, HasEntry, Exports!Published, Exports!vars
  <1> QED
    BY <1>0, <1>1, <1>2, <1>3, <1>4, <1>5, <1>6, <1>7, <1>8, <1>9, <1>10, <1>11, <1>12, <1>13,
       <1>14, <1>15, <1>16, <1>17, <1>18, <1>19, <1>20, <1>21, <1>22, <1>23, <1>24, <1>25, <1>26,
       <1>27
       DEF Exports!Next, Exports!ClientStep, Exports!Resolve, Exports!Drain

\* What ExportQueue's own definitions say of slots and entries, element by element
LEMMA SlotsAreOccupied ==
    Typed => /\ Exports!Occupied = {i \in ExportIds : HasSlot(i)}
             /\ Exports!TypeOK
  <1> SUFFICES ASSUME Typed
               PROVE  Exports!Occupied = {i \in ExportIds : HasSlot(i)} /\ Exports!TypeOK
    OBVIOUS
  <1>1. Exports!Occupied = {i \in ExportIds : HasSlot(i)}
    <2>1. ASSUME NEW i \in Exports!Occupied PROVE i \in ExportIds /\ HasSlot(i)
      BY <2>1 DEF Typed, Exports!Occupied, Exports!Published, HasSlot
    <2>2. ASSUME NEW i \in ExportIds, HasSlot(i) PROVE i \in Exports!Occupied
      BY <2>2 DEF Typed, Exports!Occupied, Exports!Published, HasSlot
    <2> QED
      BY <2>1, <2>2
  <1>2. old \subseteq Exports!Entries
    <2>1. ASSUME NEW i \in ExportIds, NEW kind \in Exports!Kinds, HasEntry(i, kind)
          PROVE  <<i, kind>> \in Exports!Entries
      BY <2>1 DEF Typed, HasEntry, Exports!Entries
    <2> QED
      BY <2>1 DEF Typed
  <1> QED
    BY <1>1, <1>2 DEF Typed, Exports!TypeOK, Exports!Operations

\* Cardinality and IsFiniteSet are the same operators inside the instance.
LEMMA SameCardinality ==
    ASSUME NEW S
    PROVE  Exports!Cardinality(S) = Cardinality(S) /\ (Exports!IsFiniteSet(S) <=> IsFiniteSet(S))
  BY DEF Exports!Cardinality, Cardinality, Exports!IsFiniteSet, IsFiniteSet

\* Only an admission adds a slot that no clock step has hit, and it finds one free.
LEMMA SlotBoundStep ==
    ASSUME ExportInv, Exports!SlotBound, [Exports!Next]_(Exports!vars)
    PROVE  Exports!SlotBound'
  <1>1. ExportInv' /\ Admission
    BY ExportStep
  <1> DEFINE All == {i \in ExportIds : HasSlot(i)}
             Now == All \ stepped
             Later == {i \in ExportIds : HasSlot(i)'} \ stepped'
  <1>2. Exports!Occupied = All
    BY SlotsAreOccupied DEF ExportInv
  <1>3. Exports!Occupied' \ stepped' = Later
    <2>1. Typed' => (Exports!Occupied = {i \in ExportIds : HasSlot(i)})'
      BY SlotsAreOccupied, PTL
    <2> QED
      BY <1>1, <2>1 DEF ExportInv
  <1>4. IsFiniteSet(All) /\ IsFiniteSet(Now) /\ IsFiniteSet(Later)
    BY QueueConstants, SameCardinality, FS_Subset DEF Exports!ExportQueueConstants
  <1>5. /\ Cardinality(All) \in Nat /\ Cardinality(Now) \in Nat /\ Cardinality(Later) \in Nat
        /\ MaxExports \in Nat
    BY <1>4, FS_CardinalityType, QueueConstants DEF Exports!ExportQueueConstants
  <1>6. Cardinality(Now) <= MaxExports /\ Cardinality(Now) <= Cardinality(All)
    <2>1. Cardinality(Now) <= Cardinality(All)
      BY <1>4, FS_Subset
    <2> QED
      BY <1>2, <2>1, SameCardinality DEF Exports!SlotBound
  <1>7. CASE Later \subseteq Now
    <2>1. Cardinality(Later) <= Cardinality(Now)
      BY <1>4, <1>7, FS_Subset
    <2>2. Cardinality(Later) <= MaxExports
      BY <1>5, <1>6, <2>1
    <2> QED
      BY <1>3, <2>2, SameCardinality DEF Exports!SlotBound
  <1>8. CASE ~(Later \subseteq Now)
    <2>1. PICK i \in ExportIds : Exports!Submit(i) /\ client[i] = "new"
      BY <1>1, <1>8 DEF Admission
    <2>2. Later \subseteq Now \cup {i}
      BY <2>1 DEF HasSlot, Exports!Submit, Exports!results
    <2>3. Cardinality(All) < MaxExports
      BY <1>2, <2>1, SameCardinality DEF Exports!Submit
    <2>4. IsFiniteSet(Now \cup {i}) /\ Cardinality(Now \cup {i}) <= Cardinality(Now) + 1
      <3> HIDE DEF Now
      <3>1. /\ IsFiniteSet(Now \cup {i})
            /\ Cardinality(Now \cup {i}) = IF i \in Now THEN Cardinality(Now)
                                                        ELSE Cardinality(Now) + 1
        BY <1>4, FS_AddElement
      <3> QED
        BY <1>5, <3>1
    <2>5. Cardinality(Later) <= Cardinality(Now \cup {i})
      BY <2>2, <2>4, FS_Subset
    <2>6. Cardinality(Later) <= MaxExports
      BY <1>5, <1>6, <2>3, <2>4, <2>5, FS_CardinalityType
    <2> QED
      BY <1>3, <2>6, SameCardinality DEF Exports!SlotBound
  <1> QED
    BY <1>7, <1>8

LEMMA ExportInit == Exports!Init => ExportInv /\ Exports!SlotBound
  <1> SUFFICES ASSUME Exports!Init PROVE ExportInv /\ Exports!SlotBound
    OBVIOUS
  <1>1. Typed
    <2> USE QueueConstants DEF Exports!Init, Exports!ExportQueueConstants
    <2>1. /\ archive \in [ExportIds -> 0 .. MaxVersion]
          /\ got \in [ExportIds -> 0 .. MaxVersion] /\ since \in [ExportIds -> 0 .. MaxVersion]
          /\ version \in 1 .. MaxVersion /\ payload \in 0 .. MaxVersion
          /\ exportFaults \in 0 .. ExportFaults
      OBVIOUS
    <2>2. client \in [ExportIds -> {"new", "polling", "leaving", "done"}]
      OBVIOUS
    <2> QED
      BY <2>1, <2>2 DEF Typed
  <1>2. \A i \in ExportIds : ~HasSlot(i)
    BY DEF Exports!Init, HasSlot
  <1>3. ExportInv
    BY <1>1, <1>2, QueueConstants DEF Exports!Init, ExportInv, ClientSide, WorkerSide,
       Exports!OneResult, Fresh
  <1>4. Exports!Occupied \ stepped = {}
    BY <1>1, <1>2, SlotsAreOccupied
  <1> QED
    BY <1>3, <1>4, SameCardinality, FS_EmptySet, QueueConstants
       DEF Exports!SlotBound, Exports!ExportQueueConstants

\* A step of the API is a step of the export queue or leaves it alone.
LEMMA ExportSimulation == [Next]_vars => [Exports!Next]_(Exports!vars)
  BY DEF Next, ServeExports, ManageJobs, vars, exports, Exports!vars, Exports!requests,
         Exports!results, Exports!clients, Exports!process

LEMMA ExportInductive == Spec => [](ExportInv /\ Exports!SlotBound)
  <1>1. Init => ExportInv /\ Exports!SlotBound
    BY ExportInit DEF Init
  <1>2. ExportInv /\ Exports!SlotBound /\ [Next]_vars => (ExportInv /\ Exports!SlotBound)'
    BY ExportSimulation, ExportStep, SlotBoundStep
  <1> QED
    BY <1>1, <1>2, PTL DEF Spec

\* The requests that no step of the wall clock hit hold at most MAX_EXPORTS slots, no request
\* has both an archive and an error, and what a client returns was committed while it was
\* waiting: for every number of clients, configurations, clock steps, kills of the worker
\* and lost acknowledgements.
THEOREM ExportsAreSound == Spec => []ExportsSound
  <1>1. ExportInv /\ Exports!SlotBound => ExportsSound
    <2> SUFFICES ASSUME ExportInv, Exports!SlotBound PROVE ExportsSound
      OBVIOUS
    <2>1. Exports!TypeOK
      BY SlotsAreOccupied DEF ExportInv
    <2>2. Exports!ExportIsFresh
      BY QueueConstants DEF ExportInv, Typed, Fresh, Exports!ExportIsFresh,
         Exports!ExportQueueConstants
    <2> QED
      BY <2>1, <2>2 DEF ExportInv, ExportsSound
  <1> QED
    BY <1>1, ExportInductive, PTL

\* No step of a client, of the worker, of its finalizer or of the cleanup gives a request
\* that has released its slot a marker, a claim or a result again, but for the one
\* acknowledgement of a client whose entries expired under it by a step of the clock.
THEOREM SlotsAreReleasedOnce == Spec => SlotReleasedOnce
  <1>1. ExportInv /\ ExportInv' /\ [Next]_vars => [Exports!StaysReleased]_vars
    <2> SUFFICES ASSUME ExportInv, ExportInv', [Next]_vars PROVE Exports!StaysReleased
      OBVIOUS
    <2>1. Admission
      BY ExportSimulation, ExportStep
    <2>2. /\ Exports!Occupied = {i \in ExportIds : HasSlot(i)}
          /\ (Exports!Occupied = {i \in ExportIds : HasSlot(i)})'
      <3>1. (Typed => Exports!Occupied = {i \in ExportIds : HasSlot(i)})'
        BY SlotsAreOccupied, PTL
      <3> QED
        BY <3>1, SlotsAreOccupied DEF ExportInv
    <2> QED
      BY <2>1, <2>2 DEF Admission, Exports!StaysReleased
  <1>2. Spec => [][Next]_vars
    BY PTL DEF Spec
  <1> QED
    BY <1>1, <1>2, ExportInductive, PTL DEF SlotReleasedOnce

-----------------------------------------------------------------------------
(* The job manager *)

\* TypeOK, with the recovery in progress as one job or none
JobTyped ==
    /\ disk \in [JobIds -> {"none", "reserved", "queued", "active"}]
    /\ result \in [JobIds -> {"none", "succeeded", "failed"}]
    /\ jobs \subseteq JobIds /\ monitored \subseteq jobs
    /\ state \in [JobIds -> {"pending", "succeeded", "failed"}]
    /\ born \in [JobIds -> Nat] /\ clock \in Nat
    /\ phase \in [JobIds -> {"new", "waiting", "admitted", "staging", "staged",
                             "importing", "awaiting", "done"}]
    /\ sequence \in Nat /\ order \in [JobIds -> Nat]
    /\ \A i \in JobIds : order[i] <= sequence
    /\ holder \in Exclusive \cup {Jobs!Nobody}
    /\ reply \in [JobIds -> {"none", "accepted", "failed", "conflict", "lost"}]
    /\ lookup \subseteq JobIds \ jobs
    /\ \A i, k \in lookup : i = k
    /\ answer \in [JobIds -> {"none", "pending", "succeeded", "failed", "unknown"}]
    /\ abandoned \subseteq JobIds
    /\ jobFaults \in 0 .. JobFaults

\* Where the traces of a submission are: nowhere before its admission; until it is published
\* in a reservation and in the table, where it is pending and nobody monitors it.
Lifecycle ==
    \A i \in JobIds :
        /\ phase[i] \in {"new", "waiting"} =>
            disk[i] = "none" /\ result[i] = "none" /\ i \notin jobs
        /\ phase[i] \in {"admitted", "staging"} =>
            /\ disk[i] = "reserved" /\ result[i] = "none"
            /\ i \in jobs /\ i \notin monitored /\ state[i] = "pending"
        /\ phase[i] = "importing" => i \in Local /\ disk[i] = "reserved" /\ result[i] = "none"
        /\ reply[i] = "accepted" => phase[i] = "done"
        /\ i \in lookup => phase[i] \notin {"new", "waiting"}

\* An exclusive submission holds _lock from its admission to its return, so only imports
\* enter the queue that it found empty: they get higher numbers and wait for it.
Alone ==
    \A i \in Exclusive :
        /\ phase[i] \in {"admitted", "staging", "staged"} => holder = i
        /\ phase[i] = "staging" =>
            \A k \in JobIds \ {i} : disk[k] # "none" =>
                k \in Local /\ disk[k] # "active" /\ order[k] > order[i]

\* Findable, without the help of the table: eviction and restarts take that away.
OnDisk ==
    \A i \in JobIds : phase[i] = "staged" \/ reply[i] = "accepted" =>
        disk[i] \in {"queued", "active"} \/ result[i] # "none" \/ i \in abandoned

\* What was told is the worker's result, and a recovery in progress has told nothing.
ToldResult ==
    \A i \in JobIds : answer[i] # "none" =>
        result[i] # "none" /\ answer[i] = result[i] /\ i \notin lookup

\* No two Job objects have the same age.
Ages ==
    \A i \in JobIds :
        /\ born[i] <= clock
        /\ i \in jobs \/ phase[i] = "waiting" => born[i] > 0
        /\ \A k \in JobIds : born[i] > 0 /\ born[i] = born[k] => i = k

JobInv == JobTyped /\ Lifecycle /\ Alone /\ OnDisk /\ ToldResult /\ Ages

\* JobInv is inductive; no step publishes a partial update behind another job, and none
\* changes an answer that told a verdict.
LEMMA JobStep ==
    JobInv /\ [Jobs!Next]_(Jobs!vars) => JobInv' /\ Jobs!PartialStagedFirst /\ Jobs!VerdictFinal
  <1>0. SUFFICES ASSUME JobTyped, Lifecycle, Alone, OnDisk, ToldResult, Ages,
                        [Jobs!Next]_(Jobs!vars)
                 PROVE  JobInv' /\ Jobs!PartialStagedFirst /\ Jobs!VerdictFinal
    BY DEF JobInv
  <1> USE DEF Jobs!JobManagerConstants, Jobs!queue, Jobs!table, Jobs!submission, Jobs!query,
              Jobs!Reserve, Jobs!Turn, Jobs!Answers, Jobs!Outside
  <1>1. ASSUME NEW i \in JobIds, lookup = {},
  Jobs!Create(i) PROVE JobInv' /\ Jobs!PartialStagedFirst /\ Jobs!VerdictFinal
    <2>1. JobTyped'
      BY <1>0, <1>1, QueueConstants DEF JobTyped, Jobs!Create
    <2>2. Lifecycle'
      BY <1>0, <1>1, QueueConstants DEF JobTyped, Lifecycle, Jobs!Create
    <2>3. Alone'
      BY <1>0, <1>1, QueueConstants DEF JobTyped, Lifecycle, Alone, Jobs!Create
    <2>4. OnDisk'
      BY <1>0, <1>1, QueueConstants DEF JobTyped, Lifecycle, OnDisk, Jobs!Create
    <2>5. ToldResult'
      BY <1>0, <1>1, QueueConstants DEF JobTyped, ToldResult, Jobs!Create
    <2>6. Ages'
      BY <1>0, <1>1, QueueConstants DEF JobTyped, Lifecycle, Ages, Jobs!Create
    <2>7. Jobs!PartialStagedFirst
      BY <1>0, <1>1, QueueConstants DEF JobTyped, Lifecycle, Alone, Jobs!PartialStagedFirst,
         Jobs!Pending, Jobs!Create
    <2>8. Jobs!VerdictFinal
      BY <1>0, <1>1, QueueConstants DEF JobTyped, ToldResult, Jobs!VerdictFinal, Jobs!Create
    <2> QED
      BY <2>1, <2>2, <2>3, <2>4, <2>5, <2>6, <2>7, <2>8 DEF JobInv
  <1>2. ASSUME NEW i \in JobIds, lookup = {},
  Jobs!Admit(i) PROVE JobInv' /\ Jobs!PartialStagedFirst /\ Jobs!VerdictFinal
    <2>1. JobTyped'
      BY <1>0, <1>2, QueueConstants DEF JobTyped, Jobs!Admit, Jobs!Evicted, Jobs!Finished
    <2>2. Lifecycle'
      BY <1>0, <1>2, QueueConstants DEF JobTyped, Lifecycle, Jobs!Admit, Jobs!Evicted,
         Jobs!Finished
    <2>3. Alone'
      BY <1>0, <1>2, QueueConstants DEF JobTyped, Lifecycle, Alone, Jobs!Admit, Jobs!Evicted,
         Jobs!Finished
    <2>4. OnDisk'
      BY <1>0, <1>2, QueueConstants DEF JobTyped, Lifecycle, OnDisk, Jobs!Admit, Jobs!Evicted,
         Jobs!Finished
    <2>5. ToldResult'
      BY <1>0, <1>2, QueueConstants DEF JobTyped, ToldResult, Jobs!Admit, Jobs!Evicted,
         Jobs!Finished
    <2>6. Ages'
      BY <1>0, <1>2, QueueConstants DEF JobTyped, Lifecycle, Ages, Jobs!Admit, Jobs!Evicted,
         Jobs!Finished
    <2>7. Jobs!PartialStagedFirst
      BY <1>0, <1>2, QueueConstants DEF JobTyped, Lifecycle, Alone, Jobs!PartialStagedFirst,
         Jobs!Pending, Jobs!Admit, Jobs!Evicted, Jobs!Finished
    <2>8. Jobs!VerdictFinal
      BY <1>0, <1>2, QueueConstants DEF JobTyped, ToldResult, Jobs!VerdictFinal, Jobs!Admit,
         Jobs!Evicted, Jobs!Finished
    <2> QED
      BY <2>1, <2>2, <2>3, <2>4, <2>5, <2>6, <2>7, <2>8 DEF JobInv
  <1>3. ASSUME NEW i \in JobIds, lookup = {},
  Jobs!AdmitFull(i) PROVE JobInv' /\ Jobs!PartialStagedFirst /\ Jobs!VerdictFinal
    <2>1. JobTyped'
      BY <1>0, <1>3, QueueConstants DEF JobTyped, Jobs!AdmitFull, Jobs!Evicted, Jobs!Finished
    <2>2. Lifecycle'
      BY <1>0, <1>3, QueueConstants DEF JobTyped, Lifecycle, Jobs!AdmitFull, Jobs!Evicted,
         Jobs!Finished
    <2>3. Alone'
      BY <1>0, <1>3, QueueConstants DEF JobTyped, Lifecycle, Alone, Jobs!AdmitFull, Jobs!Evicted,
         Jobs!Finished
    <2>4. OnDisk'
      BY <1>0, <1>3, QueueConstants DEF JobTyped, Lifecycle, OnDisk, Jobs!AdmitFull,
         Jobs!Evicted, Jobs!Finished
    <2>5. ToldResult'
      BY <1>0, <1>3, QueueConstants DEF JobTyped, ToldResult, Jobs!AdmitFull, Jobs!Evicted,
         Jobs!Finished
    <2>6. Ages'
      BY <1>0, <1>3, QueueConstants DEF JobTyped, Lifecycle, Ages, Jobs!AdmitFull, Jobs!Evicted,
         Jobs!Finished
    <2>7. Jobs!PartialStagedFirst
      BY <1>0, <1>3, QueueConstants DEF JobTyped, Lifecycle, Alone, Jobs!PartialStagedFirst,
         Jobs!Pending, Jobs!AdmitFull, Jobs!Evicted, Jobs!Finished
    <2>8. Jobs!VerdictFinal
      BY <1>0, <1>3, QueueConstants DEF JobTyped, ToldResult, Jobs!VerdictFinal, Jobs!AdmitFull,
         Jobs!Evicted, Jobs!Finished
    <2> QED
      BY <2>1, <2>2, <2>3, <2>4, <2>5, <2>6, <2>7, <2>8 DEF JobInv
  <1>4. ASSUME NEW i \in JobIds, lookup = {},
  Jobs!ReserveFails(i) PROVE JobInv' /\ Jobs!PartialStagedFirst /\ Jobs!VerdictFinal
    <2>1. JobTyped'
      BY <1>0, <1>4, QueueConstants DEF JobTyped, Jobs!ReserveFails, Jobs!Evicted, Jobs!Finished,
         Jobs!Fault
    <2>2. Lifecycle'
      BY <1>0, <1>4, QueueConstants DEF JobTyped, Lifecycle, Jobs!ReserveFails, Jobs!Evicted,
         Jobs!Finished, Jobs!Fault
    <2>3. Alone'
      BY <1>0, <1>4, QueueConstants DEF JobTyped, Lifecycle, Alone, Jobs!ReserveFails,
         Jobs!Evicted, Jobs!Finished, Jobs!Fault
    <2>4. OnDisk'
      BY <1>0, <1>4, QueueConstants DEF JobTyped, Lifecycle, OnDisk, Jobs!ReserveFails,
         Jobs!Evicted, Jobs!Finished, Jobs!Fault
    <2>5. ToldResult'
      BY <1>0, <1>4, QueueConstants DEF JobTyped, ToldResult, Jobs!ReserveFails, Jobs!Evicted,
         Jobs!Finished, Jobs!Fault
    <2>6. Ages'
      BY <1>0, <1>4, QueueConstants DEF JobTyped, Lifecycle, Ages, Jobs!ReserveFails,
         Jobs!Evicted, Jobs!Finished, Jobs!Fault
    <2>7. Jobs!PartialStagedFirst
      BY <1>0, <1>4, QueueConstants DEF JobTyped, Lifecycle, Alone, Jobs!PartialStagedFirst,
         Jobs!Pending, Jobs!ReserveFails, Jobs!Evicted, Jobs!Finished, Jobs!Fault
    <2>8. Jobs!VerdictFinal
      BY <1>0, <1>4, QueueConstants DEF JobTyped, ToldResult, Jobs!VerdictFinal,
         Jobs!ReserveFails, Jobs!Evicted, Jobs!Finished, Jobs!Fault
    <2> QED
      BY <2>1, <2>2, <2>3, <2>4, <2>5, <2>6, <2>7, <2>8 DEF JobInv
  <1>5. ASSUME NEW i \in JobIds,
  Jobs!CheckEmpty(i) PROVE JobInv' /\ Jobs!PartialStagedFirst /\ Jobs!VerdictFinal
    <2>1. JobTyped'
      BY <1>0, <1>5, QueueConstants DEF JobTyped, Jobs!CheckEmpty
    <2>2. Lifecycle'
      BY <1>0, <1>5, QueueConstants DEF JobTyped, Lifecycle, Jobs!CheckEmpty
    <2>3. Alone'
      BY <1>0, <1>5, QueueConstants DEF JobTyped, Lifecycle, Alone, Jobs!Pending, Jobs!CheckEmpty
    <2>4. OnDisk'
      BY <1>0, <1>5, QueueConstants DEF JobTyped, Lifecycle, OnDisk, Jobs!CheckEmpty
    <2>5. ToldResult'
      BY <1>0, <1>5, QueueConstants DEF JobTyped, ToldResult, Jobs!CheckEmpty
    <2>6. Ages'
      BY <1>0, <1>5, QueueConstants DEF JobTyped, Lifecycle, Ages, Jobs!CheckEmpty
    <2>7. Jobs!PartialStagedFirst
      BY <1>0, <1>5, QueueConstants DEF JobTyped, Lifecycle, Alone, Jobs!PartialStagedFirst,
         Jobs!Pending, Jobs!CheckEmpty
    <2>8. Jobs!VerdictFinal
      BY <1>0, <1>5, QueueConstants DEF JobTyped, ToldResult, Jobs!VerdictFinal, Jobs!CheckEmpty
    <2> QED
      BY <2>1, <2>2, <2>3, <2>4, <2>5, <2>6, <2>7, <2>8 DEF JobInv
  <1>6. ASSUME NEW i \in JobIds, lookup = {},
  Jobs!Busy(i) PROVE JobInv' /\ Jobs!PartialStagedFirst /\ Jobs!VerdictFinal
    <2>1. JobTyped'
      BY <1>0, <1>6, QueueConstants DEF JobTyped, Lifecycle, Jobs!Busy, Jobs!Released
    <2>2. Lifecycle'
      BY <1>0, <1>6, QueueConstants DEF JobTyped, Lifecycle, Jobs!Busy, Jobs!Released
    <2>3. Alone'
      BY <1>0, <1>6, QueueConstants DEF JobTyped, Lifecycle, Alone, Jobs!Busy, Jobs!Released
    <2>4. OnDisk'
      BY <1>0, <1>6, QueueConstants DEF JobTyped, Lifecycle, OnDisk, Jobs!Busy, Jobs!Released
    <2>5. ToldResult'
      BY <1>0, <1>6, QueueConstants DEF JobTyped, ToldResult, Jobs!Busy, Jobs!Released
    <2>6. Ages'
      BY <1>0, <1>6, QueueConstants DEF JobTyped, Lifecycle, Ages, Jobs!Busy, Jobs!Released
    <2>7. Jobs!PartialStagedFirst
      BY <1>0, <1>6, QueueConstants DEF JobTyped, Lifecycle, Alone, Jobs!PartialStagedFirst,
         Jobs!Pending, Jobs!Busy, Jobs!Released
    <2>8. Jobs!VerdictFinal
      BY <1>0, <1>6, QueueConstants DEF JobTyped, ToldResult, Jobs!VerdictFinal, Jobs!Busy,
         Jobs!Released
    <2> QED
      BY <2>1, <2>2, <2>3, <2>4, <2>5, <2>6, <2>7, <2>8 DEF JobInv
  <1>7. ASSUME NEW i \in JobIds,
  Jobs!Publish(i) PROVE JobInv' /\ Jobs!PartialStagedFirst /\ Jobs!VerdictFinal
    <2>1. JobTyped'
      BY <1>0, <1>7, QueueConstants DEF JobTyped, Jobs!Publish
    <2>2. Lifecycle'
      BY <1>0, <1>7, QueueConstants DEF JobTyped, Lifecycle, Jobs!Publish
    <2>3. Alone'
      BY <1>0, <1>7, QueueConstants DEF JobTyped, Lifecycle, Alone, Jobs!Publish
    <2>4. OnDisk'
      BY <1>0, <1>7, QueueConstants DEF JobTyped, Lifecycle, OnDisk, Jobs!Publish
    <2>5. ToldResult'
      BY <1>0, <1>7, QueueConstants DEF JobTyped, ToldResult, Jobs!Publish
    <2>6. Ages'
      BY <1>0, <1>7, QueueConstants DEF JobTyped, Lifecycle, Ages, Jobs!Publish
    <2>7. Jobs!PartialStagedFirst
      BY <1>0, <1>7, QueueConstants DEF JobTyped, Lifecycle, Alone, Jobs!PartialStagedFirst,
         Jobs!Pending, Jobs!Publish
    <2>8. Jobs!VerdictFinal
      BY <1>0, <1>7, QueueConstants DEF JobTyped, ToldResult, Jobs!VerdictFinal, Jobs!Publish
    <2> QED
      BY <2>1, <2>2, <2>3, <2>4, <2>5, <2>6, <2>7, <2>8 DEF JobInv
  <1>8. ASSUME NEW i \in JobIds, lookup = {},
  Jobs!StagingFails(i) PROVE JobInv' /\ Jobs!PartialStagedFirst /\ Jobs!VerdictFinal
    <2>1. JobTyped'
      BY <1>0, <1>8, QueueConstants DEF JobTyped, Jobs!StagingFails, Jobs!Fault, Jobs!Released
    <2>2. Lifecycle'
      BY <1>0, <1>8, QueueConstants DEF JobTyped, Lifecycle, Jobs!StagingFails, Jobs!Fault,
         Jobs!Released
    <2>3. Alone'
      BY <1>0, <1>8, QueueConstants DEF JobTyped, Lifecycle, Alone, Jobs!StagingFails,
         Jobs!Fault, Jobs!Released
    <2>4. OnDisk'
      BY <1>0, <1>8, QueueConstants DEF JobTyped, Lifecycle, OnDisk, Jobs!StagingFails,
         Jobs!Fault, Jobs!Released
    <2>5. ToldResult'
      BY <1>0, <1>8, QueueConstants DEF JobTyped, ToldResult, Jobs!StagingFails, Jobs!Fault,
         Jobs!Released
    <2>6. Ages'
      BY <1>0, <1>8, QueueConstants DEF JobTyped, Lifecycle, Ages, Jobs!StagingFails, Jobs!Fault,
         Jobs!Released
    <2>7. Jobs!PartialStagedFirst
      BY <1>0, <1>8, QueueConstants DEF JobTyped, Lifecycle, Alone, Jobs!PartialStagedFirst,
         Jobs!Pending, Jobs!StagingFails, Jobs!Fault, Jobs!Released
    <2>8. Jobs!VerdictFinal
      BY <1>0, <1>8, QueueConstants DEF JobTyped, ToldResult, Jobs!VerdictFinal,
         Jobs!StagingFails, Jobs!Fault, Jobs!Released
    <2> QED
      BY <2>1, <2>2, <2>3, <2>4, <2>5, <2>6, <2>7, <2>8 DEF JobInv
  <1>9. ASSUME NEW i \in JobIds, lookup = {},
  Jobs!FailsAfterPublication(i) PROVE JobInv' /\ Jobs!PartialStagedFirst /\ Jobs!VerdictFinal
    <2>1. JobTyped'
      BY <1>0, <1>9, QueueConstants DEF JobTyped, Jobs!FailsAfterPublication, Jobs!Fault,
         Jobs!Released
    <2>2. Lifecycle'
      BY <1>0, <1>9, QueueConstants DEF JobTyped, Lifecycle, Jobs!FailsAfterPublication,
         Jobs!Fault, Jobs!Released
    <2>3. Alone'
      BY <1>0, <1>9, QueueConstants DEF JobTyped, Lifecycle, Alone, Jobs!FailsAfterPublication,
         Jobs!Fault, Jobs!Released
    <2>4. OnDisk'
      BY <1>0, <1>9, QueueConstants DEF JobTyped, Lifecycle, OnDisk, Jobs!FailsAfterPublication,
         Jobs!Fault, Jobs!Released
    <2>5. ToldResult'
      BY <1>0, <1>9, QueueConstants DEF JobTyped, ToldResult, Jobs!FailsAfterPublication,
         Jobs!Fault, Jobs!Released
    <2>6. Ages'
      BY <1>0, <1>9, QueueConstants DEF JobTyped, Lifecycle, Ages, Jobs!FailsAfterPublication,
         Jobs!Fault, Jobs!Released
    <2>7. Jobs!PartialStagedFirst
      BY <1>0, <1>9, QueueConstants DEF JobTyped, Lifecycle, Alone, Jobs!PartialStagedFirst,
         Jobs!Pending, Jobs!FailsAfterPublication, Jobs!Fault, Jobs!Released
    <2>8. Jobs!VerdictFinal
      BY <1>0, <1>9, QueueConstants DEF JobTyped, ToldResult, Jobs!VerdictFinal,
         Jobs!FailsAfterPublication, Jobs!Fault, Jobs!Released
    <2> QED
      BY <2>1, <2>2, <2>3, <2>4, <2>5, <2>6, <2>7, <2>8 DEF JobInv
  <1>10. ASSUME NEW i \in JobIds, lookup = {},
  Jobs!Return(i) PROVE JobInv' /\ Jobs!PartialStagedFirst /\ Jobs!VerdictFinal
    <2>1. JobTyped'
      BY <1>0, <1>10, QueueConstants DEF JobTyped, Jobs!Return, Jobs!Released
    <2>2. Lifecycle'
      BY <1>0, <1>10, QueueConstants DEF JobTyped, Lifecycle, Jobs!Return, Jobs!Released
    <2>3. Alone'
      BY <1>0, <1>10, QueueConstants DEF JobTyped, Lifecycle, Alone, Jobs!Return, Jobs!Released
    <2>4. OnDisk'
      BY <1>0, <1>10, QueueConstants DEF JobTyped, Lifecycle, OnDisk, Jobs!Return, Jobs!Released
    <2>5. ToldResult'
      BY <1>0, <1>10, QueueConstants DEF JobTyped, ToldResult, Jobs!Return, Jobs!Released
    <2>6. Ages'
      BY <1>0, <1>10, QueueConstants DEF JobTyped, Lifecycle, Ages, Jobs!Return, Jobs!Released
    <2>7. Jobs!PartialStagedFirst
      BY <1>0, <1>10, QueueConstants DEF JobTyped, Lifecycle, Alone, Jobs!PartialStagedFirst,
         Jobs!Pending, Jobs!Return, Jobs!Released
    <2>8. Jobs!VerdictFinal
      BY <1>0, <1>10, QueueConstants DEF JobTyped, ToldResult, Jobs!VerdictFinal, Jobs!Return,
         Jobs!Released
    <2> QED
      BY <2>1, <2>2, <2>3, <2>4, <2>5, <2>6, <2>7, <2>8 DEF JobInv
  <1>11. ASSUME NEW i \in JobIds,
  Jobs!Claim(i) PROVE JobInv' /\ Jobs!PartialStagedFirst /\ Jobs!VerdictFinal
    <2>1. JobTyped'
      BY <1>0, <1>11, QueueConstants DEF JobTyped, Jobs!Claim
    <2>2. Lifecycle'
      BY <1>0, <1>11, QueueConstants DEF JobTyped, Lifecycle, Jobs!Claim
    <2>3. Alone'
      BY <1>0, <1>11, QueueConstants DEF JobTyped, Lifecycle, Alone, Jobs!Pending, Jobs!Claim
    <2>4. OnDisk'
      BY <1>0, <1>11, QueueConstants DEF JobTyped, Lifecycle, OnDisk, Jobs!Claim
    <2>5. ToldResult'
      BY <1>0, <1>11, QueueConstants DEF JobTyped, ToldResult, Jobs!Claim
    <2>6. Ages'
      BY <1>0, <1>11, QueueConstants DEF JobTyped, Lifecycle, Ages, Jobs!Claim
    <2>7. Jobs!PartialStagedFirst
      BY <1>0, <1>11, QueueConstants DEF JobTyped, Lifecycle, Alone, Jobs!PartialStagedFirst,
         Jobs!Pending, Jobs!Claim
    <2>8. Jobs!VerdictFinal
      BY <1>0, <1>11, QueueConstants DEF JobTyped, ToldResult, Jobs!VerdictFinal, Jobs!Claim
    <2> QED
      BY <2>1, <2>2, <2>3, <2>4, <2>5, <2>6, <2>7, <2>8 DEF JobInv
  <1>12. ASSUME NEW i \in JobIds,
  Jobs!WriteResult(i) PROVE JobInv' /\ Jobs!PartialStagedFirst /\ Jobs!VerdictFinal
    <2>1. JobTyped'
      BY <1>0, <1>12, QueueConstants DEF JobTyped, Jobs!WriteResult
    <2>2. Lifecycle'
      BY <1>0, <1>12, QueueConstants DEF JobTyped, Lifecycle, Jobs!WriteResult
    <2>3. Alone'
      BY <1>0, <1>12, QueueConstants DEF JobTyped, Lifecycle, Alone, Jobs!WriteResult
    <2>4. OnDisk'
      BY <1>0, <1>12, QueueConstants DEF JobTyped, Lifecycle, OnDisk, Jobs!WriteResult
    <2>5. ToldResult'
      BY <1>0, <1>12, QueueConstants DEF JobTyped, ToldResult, Jobs!WriteResult
    <2>6. Ages'
      BY <1>0, <1>12, QueueConstants DEF JobTyped, Lifecycle, Ages, Jobs!WriteResult
    <2>7. Jobs!PartialStagedFirst
      BY <1>0, <1>12, QueueConstants DEF JobTyped, Lifecycle, Alone, Jobs!PartialStagedFirst,
         Jobs!Pending, Jobs!WriteResult
    <2>8. Jobs!VerdictFinal
      BY <1>0, <1>12, QueueConstants DEF JobTyped, ToldResult, Jobs!VerdictFinal, Jobs!WriteResult
    <2> QED
      BY <2>1, <2>2, <2>3, <2>4, <2>5, <2>6, <2>7, <2>8 DEF JobInv
  <1>13. ASSUME NEW i \in JobIds,
  Jobs!Unclaim(i) PROVE JobInv' /\ Jobs!PartialStagedFirst /\ Jobs!VerdictFinal
    <2>1. JobTyped'
      BY <1>0, <1>13, QueueConstants DEF JobTyped, Jobs!Unclaim
    <2>2. Lifecycle'
      BY <1>0, <1>13, QueueConstants DEF JobTyped, Lifecycle, Jobs!Unclaim
    <2>3. Alone'
      BY <1>0, <1>13, QueueConstants DEF JobTyped, Lifecycle, Alone, Jobs!Unclaim
    <2>4. OnDisk'
      BY <1>0, <1>13, QueueConstants DEF JobTyped, Lifecycle, OnDisk, Jobs!Unclaim
    <2>5. ToldResult'
      BY <1>0, <1>13, QueueConstants DEF JobTyped, ToldResult, Jobs!Unclaim
    <2>6. Ages'
      BY <1>0, <1>13, QueueConstants DEF JobTyped, Lifecycle, Ages, Jobs!Unclaim
    <2>7. Jobs!PartialStagedFirst
      BY <1>0, <1>13, QueueConstants DEF JobTyped, Lifecycle, Alone, Jobs!PartialStagedFirst,
         Jobs!Pending, Jobs!Unclaim
    <2>8. Jobs!VerdictFinal
      BY <1>0, <1>13, QueueConstants DEF JobTyped, ToldResult, Jobs!VerdictFinal, Jobs!Unclaim
    <2> QED
      BY <2>1, <2>2, <2>3, <2>4, <2>5, <2>6, <2>7, <2>8 DEF JobInv
  <1>14. ASSUME NEW i \in JobIds,
  Jobs!ReservationExpires(i) PROVE JobInv' /\ Jobs!PartialStagedFirst /\ Jobs!VerdictFinal
    <2>1. JobTyped'
      BY <1>0, <1>14, QueueConstants DEF JobTyped, Jobs!ReservationExpires
    <2>2. Lifecycle'
      BY <1>0, <1>14, QueueConstants DEF JobTyped, Lifecycle, Jobs!ReservationExpires
    <2>3. Alone'
      BY <1>0, <1>14, QueueConstants DEF JobTyped, Lifecycle, Alone, Jobs!ReservationExpires
    <2>4. OnDisk'
      BY <1>0, <1>14, QueueConstants DEF JobTyped, Lifecycle, OnDisk, Jobs!ReservationExpires
    <2>5. ToldResult'
      BY <1>0, <1>14, QueueConstants DEF JobTyped, ToldResult, Jobs!ReservationExpires
    <2>6. Ages'
      BY <1>0, <1>14, QueueConstants DEF JobTyped, Lifecycle, Ages, Jobs!ReservationExpires
    <2>7. Jobs!PartialStagedFirst
      BY <1>0, <1>14, QueueConstants DEF JobTyped, Lifecycle, Alone, Jobs!PartialStagedFirst,
         Jobs!Pending, Jobs!ReservationExpires
    <2>8. Jobs!VerdictFinal
      BY <1>0, <1>14, QueueConstants DEF JobTyped, ToldResult, Jobs!VerdictFinal,
         Jobs!ReservationExpires
    <2> QED
      BY <2>1, <2>2, <2>3, <2>4, <2>5, <2>6, <2>7, <2>8 DEF JobInv
  <1>15. ASSUME NEW i \in JobIds, lookup = {},
  Jobs!MonitorReads(i) PROVE JobInv' /\ Jobs!PartialStagedFirst /\ Jobs!VerdictFinal
    <2>1. JobTyped'
      BY <1>0, <1>15, QueueConstants DEF JobTyped, Jobs!MonitorReads
    <2>2. Lifecycle'
      BY <1>0, <1>15, QueueConstants DEF JobTyped, Lifecycle, Jobs!MonitorReads
    <2>3. Alone'
      BY <1>0, <1>15, QueueConstants DEF JobTyped, Lifecycle, Alone, Jobs!MonitorReads
    <2>4. OnDisk'
      BY <1>0, <1>15, QueueConstants DEF JobTyped, Lifecycle, OnDisk, Jobs!MonitorReads
    <2>5. ToldResult'
      BY <1>0, <1>15, QueueConstants DEF JobTyped, ToldResult, Jobs!MonitorReads
    <2>6. Ages'
      BY <1>0, <1>15, QueueConstants DEF JobTyped, Lifecycle, Ages, Jobs!MonitorReads
    <2>7. Jobs!PartialStagedFirst
      BY <1>0, <1>15, QueueConstants DEF JobTyped, Lifecycle, Alone, Jobs!PartialStagedFirst,
         Jobs!Pending, Jobs!MonitorReads
    <2>8. Jobs!VerdictFinal
      BY <1>0, <1>15, QueueConstants DEF JobTyped, ToldResult, Jobs!VerdictFinal,
         Jobs!MonitorReads
    <2> QED
      BY <2>1, <2>2, <2>3, <2>4, <2>5, <2>6, <2>7, <2>8 DEF JobInv
  <1>16. ASSUME NEW i \in JobIds, lookup = {},
  Jobs!MonitorEnds(i) PROVE JobInv' /\ Jobs!PartialStagedFirst /\ Jobs!VerdictFinal
    <2>1. JobTyped'
      BY <1>0, <1>16, QueueConstants DEF JobTyped, Jobs!MonitorEnds
    <2>2. Lifecycle'
      BY <1>0, <1>16, QueueConstants DEF JobTyped, Lifecycle, Jobs!MonitorEnds
    <2>3. Alone'
      BY <1>0, <1>16, QueueConstants DEF JobTyped, Lifecycle, Alone, Jobs!MonitorEnds
    <2>4. OnDisk'
      BY <1>0, <1>16, QueueConstants DEF JobTyped, Lifecycle, OnDisk, Jobs!MonitorEnds
    <2>5. ToldResult'
      BY <1>0, <1>16, QueueConstants DEF JobTyped, ToldResult, Jobs!MonitorEnds
    <2>6. Ages'
      BY <1>0, <1>16, QueueConstants DEF JobTyped, Lifecycle, Ages, Jobs!MonitorEnds
    <2>7. Jobs!PartialStagedFirst
      BY <1>0, <1>16, QueueConstants DEF JobTyped, Lifecycle, Alone, Jobs!PartialStagedFirst,
         Jobs!Pending, Jobs!MonitorEnds
    <2>8. Jobs!VerdictFinal
      BY <1>0, <1>16, QueueConstants DEF JobTyped, ToldResult, Jobs!VerdictFinal, Jobs!MonitorEnds
    <2> QED
      BY <2>1, <2>2, <2>3, <2>4, <2>5, <2>6, <2>7, <2>8 DEF JobInv
  <1>17. ASSUME NEW i \in JobIds, lookup = {},
  Jobs!MonitorTimesOut(i) PROVE JobInv' /\ Jobs!PartialStagedFirst /\ Jobs!VerdictFinal
    <2>1. JobTyped'
      BY <1>0, <1>17, QueueConstants DEF JobTyped, Jobs!MonitorTimesOut
    <2>2. Lifecycle'
      BY <1>0, <1>17, QueueConstants DEF JobTyped, Lifecycle, Jobs!MonitorTimesOut
    <2>3. Alone'
      BY <1>0, <1>17, QueueConstants DEF JobTyped, Lifecycle, Alone, Jobs!MonitorTimesOut
    <2>4. OnDisk'
      BY <1>0, <1>17, QueueConstants DEF JobTyped, Lifecycle, OnDisk, Jobs!MonitorTimesOut
    <2>5. ToldResult'
      BY <1>0, <1>17, QueueConstants DEF JobTyped, ToldResult, Jobs!MonitorTimesOut
    <2>6. Ages'
      BY <1>0, <1>17, QueueConstants DEF JobTyped, Lifecycle, Ages, Jobs!MonitorTimesOut
    <2>7. Jobs!PartialStagedFirst
      BY <1>0, <1>17, QueueConstants DEF JobTyped, Lifecycle, Alone, Jobs!PartialStagedFirst,
         Jobs!Pending, Jobs!MonitorTimesOut
    <2>8. Jobs!VerdictFinal
      BY <1>0, <1>17, QueueConstants DEF JobTyped, ToldResult, Jobs!VerdictFinal,
         Jobs!MonitorTimesOut
    <2> QED
      BY <2>1, <2>2, <2>3, <2>4, <2>5, <2>6, <2>7, <2>8 DEF JobInv
  <1>18. ASSUME NEW i \in JobIds, lookup = {},
  Jobs!MonitorFails(i) PROVE JobInv' /\ Jobs!PartialStagedFirst /\ Jobs!VerdictFinal
    <2>1. JobTyped'
      BY <1>0, <1>18, QueueConstants DEF JobTyped, Jobs!MonitorFails, Jobs!Fault
    <2>2. Lifecycle'
      BY <1>0, <1>18, QueueConstants DEF JobTyped, Lifecycle, Jobs!MonitorFails, Jobs!Fault
    <2>3. Alone'
      BY <1>0, <1>18, QueueConstants DEF JobTyped, Lifecycle, Alone, Jobs!MonitorFails, Jobs!Fault
    <2>4. OnDisk'
      BY <1>0, <1>18, QueueConstants DEF JobTyped, Lifecycle, OnDisk, Jobs!MonitorFails,
         Jobs!Fault
    <2>5. ToldResult'
      BY <1>0, <1>18, QueueConstants DEF JobTyped, ToldResult, Jobs!MonitorFails, Jobs!Fault
    <2>6. Ages'
      BY <1>0, <1>18, QueueConstants DEF JobTyped, Lifecycle, Ages, Jobs!MonitorFails, Jobs!Fault
    <2>7. Jobs!PartialStagedFirst
      BY <1>0, <1>18, QueueConstants DEF JobTyped, Lifecycle, Alone, Jobs!PartialStagedFirst,
         Jobs!Pending, Jobs!MonitorFails, Jobs!Fault
    <2>8. Jobs!VerdictFinal
      BY <1>0, <1>18, QueueConstants DEF JobTyped, ToldResult, Jobs!VerdictFinal,
         Jobs!MonitorFails, Jobs!Fault
    <2> QED
      BY <2>1, <2>2, <2>3, <2>4, <2>5, <2>6, <2>7, <2>8 DEF JobInv
  <1>19. ASSUME NEW i \in JobIds, lookup = {},
  Jobs!GetCached(i) PROVE JobInv' /\ Jobs!PartialStagedFirst /\ Jobs!VerdictFinal
    <2>1. JobTyped'
      BY <1>0, <1>19, QueueConstants DEF JobTyped, Jobs!GetCached
    <2>2. Lifecycle'
      BY <1>0, <1>19, QueueConstants DEF JobTyped, Lifecycle, Jobs!GetCached
    <2>3. Alone'
      BY <1>0, <1>19, QueueConstants DEF JobTyped, Lifecycle, Alone, Jobs!GetCached
    <2>4. OnDisk'
      BY <1>0, <1>19, QueueConstants DEF JobTyped, Lifecycle, OnDisk, Jobs!GetCached
    <2>5. ToldResult'
      BY <1>0, <1>19, QueueConstants DEF JobTyped, ToldResult, Jobs!GetCached
    <2>6. Ages'
      BY <1>0, <1>19, QueueConstants DEF JobTyped, Lifecycle, Ages, Jobs!GetCached
    <2>7. Jobs!PartialStagedFirst
      BY <1>0, <1>19, QueueConstants DEF JobTyped, Lifecycle, Alone, Jobs!PartialStagedFirst,
         Jobs!Pending, Jobs!GetCached
    <2>8. Jobs!VerdictFinal
      BY <1>0, <1>19, QueueConstants DEF JobTyped, ToldResult, Jobs!VerdictFinal, Jobs!GetCached
    <2> QED
      BY <2>1, <2>2, <2>3, <2>4, <2>5, <2>6, <2>7, <2>8 DEF JobInv
  <1>20. ASSUME NEW i \in JobIds, lookup = {},
  Jobs!GetFromResult(i) PROVE JobInv' /\ Jobs!PartialStagedFirst /\ Jobs!VerdictFinal
    <2>1. JobTyped'
      BY <1>0, <1>20, QueueConstants DEF JobTyped, Jobs!GetFromResult, Jobs!Recovered
    <2>2. Lifecycle'
      BY <1>0, <1>20, QueueConstants DEF JobTyped, Lifecycle, Jobs!GetFromResult, Jobs!Recovered
    <2>3. Alone'
      BY <1>0, <1>20, QueueConstants DEF JobTyped, Lifecycle, Alone, Jobs!GetFromResult,
         Jobs!Recovered
    <2>4. OnDisk'
      BY <1>0, <1>20, QueueConstants DEF JobTyped, Lifecycle, OnDisk, Jobs!GetFromResult,
         Jobs!Recovered
    <2>5. ToldResult'
      BY <1>0, <1>20, QueueConstants DEF JobTyped, ToldResult, Jobs!GetFromResult, Jobs!Recovered
    <2>6. Ages'
      BY <1>0, <1>20, QueueConstants DEF JobTyped, Lifecycle, Ages, Jobs!GetFromResult,
         Jobs!Recovered
    <2>7. Jobs!PartialStagedFirst
      BY <1>0, <1>20, QueueConstants DEF JobTyped, Lifecycle, Alone, Jobs!PartialStagedFirst,
         Jobs!Pending, Jobs!GetFromResult, Jobs!Recovered
    <2>8. Jobs!VerdictFinal
      BY <1>0, <1>20, QueueConstants DEF JobTyped, ToldResult, Jobs!VerdictFinal,
         Jobs!GetFromResult, Jobs!Recovered
    <2> QED
      BY <2>1, <2>2, <2>3, <2>4, <2>5, <2>6, <2>7, <2>8 DEF JobInv
  <1>21. ASSUME NEW i \in JobIds,
  Jobs!GetFromPresence(i) PROVE JobInv' /\ Jobs!PartialStagedFirst /\ Jobs!VerdictFinal
    <2>1. JobTyped'
      BY <1>0, <1>21, QueueConstants DEF JobTyped, Jobs!GetFromPresence, Jobs!Recovered
    <2>2. Lifecycle'
      BY <1>0, <1>21, QueueConstants DEF JobTyped, Lifecycle, Jobs!GetFromPresence, Jobs!Recovered
    <2>3. Alone'
      BY <1>0, <1>21, QueueConstants DEF JobTyped, Lifecycle, Alone, Jobs!GetFromPresence,
         Jobs!Recovered
    <2>4. OnDisk'
      BY <1>0, <1>21, QueueConstants DEF JobTyped, Lifecycle, OnDisk, Jobs!GetFromPresence,
         Jobs!Recovered
    <2>5. ToldResult'
      BY <1>0, <1>21, QueueConstants DEF JobTyped, ToldResult, Jobs!GetFromPresence,
         Jobs!Recovered
    <2>6. Ages'
      BY <1>0, <1>21, QueueConstants DEF JobTyped, Lifecycle, Ages, Jobs!GetFromPresence,
         Jobs!Recovered
    <2>7. Jobs!PartialStagedFirst
      BY <1>0, <1>21, QueueConstants DEF JobTyped, Lifecycle, Alone, Jobs!PartialStagedFirst,
         Jobs!Pending, Jobs!GetFromPresence, Jobs!Recovered
    <2>8. Jobs!VerdictFinal
      BY <1>0, <1>21, QueueConstants DEF JobTyped, ToldResult, Jobs!VerdictFinal,
         Jobs!GetFromPresence, Jobs!Recovered
    <2> QED
      BY <2>1, <2>2, <2>3, <2>4, <2>5, <2>6, <2>7, <2>8 DEF JobInv
  <1>22. CASE Jobs!Restart
    <2>1. JobTyped'
      BY <1>0, <1>22, QueueConstants DEF JobTyped, Jobs!Restart, Jobs!Fault
    <2>2. Lifecycle'
      BY <1>0, <1>22, QueueConstants DEF JobTyped, Lifecycle, Jobs!Restart, Jobs!Fault
    <2>3. Alone'
      BY <1>0, <1>22, QueueConstants DEF JobTyped, Lifecycle, Alone, Jobs!Restart, Jobs!Fault
    <2>4. OnDisk'
      BY <1>0, <1>22, QueueConstants DEF JobTyped, Lifecycle, OnDisk, Jobs!Restart, Jobs!Fault
    <2>5. ToldResult'
      BY <1>0, <1>22, QueueConstants DEF JobTyped, ToldResult, Jobs!Restart, Jobs!Fault
    <2>6. Ages'
      BY <1>0, <1>22, QueueConstants DEF JobTyped, Lifecycle, Ages, Jobs!Restart, Jobs!Fault
    <2>7. Jobs!PartialStagedFirst
      BY <1>0, <1>22, QueueConstants DEF JobTyped, Lifecycle, Alone, Jobs!PartialStagedFirst,
         Jobs!Pending, Jobs!Restart, Jobs!Fault
    <2>8. Jobs!VerdictFinal
      BY <1>0, <1>22, QueueConstants DEF JobTyped, ToldResult, Jobs!VerdictFinal, Jobs!Restart,
         Jobs!Fault
    <2> QED
      BY <2>1, <2>2, <2>3, <2>4, <2>5, <2>6, <2>7, <2>8 DEF JobInv
  <1>23. ASSUME NEW i \in JobIds,
  Jobs!LocalReserve(i) PROVE JobInv' /\ Jobs!PartialStagedFirst /\ Jobs!VerdictFinal
    <2>1. JobTyped'
      BY <1>0, <1>23, QueueConstants DEF JobTyped, Jobs!LocalReserve
    <2>2. Lifecycle'
      BY <1>0, <1>23, QueueConstants DEF JobTyped, Lifecycle, Jobs!LocalReserve
    <2>3. Alone'
      BY <1>0, <1>23, QueueConstants DEF JobTyped, Lifecycle, Alone, Jobs!Pending,
         Jobs!LocalReserve
    <2>4. OnDisk'
      BY <1>0, <1>23, QueueConstants DEF JobTyped, Lifecycle, OnDisk, Jobs!LocalReserve
    <2>5. ToldResult'
      BY <1>0, <1>23, QueueConstants DEF JobTyped, ToldResult, Jobs!LocalReserve
    <2>6. Ages'
      BY <1>0, <1>23, QueueConstants DEF JobTyped, Lifecycle, Ages, Jobs!LocalReserve
    <2>7. Jobs!PartialStagedFirst
      BY <1>0, <1>23, QueueConstants DEF JobTyped, Lifecycle, Alone, Jobs!PartialStagedFirst,
         Jobs!Pending, Jobs!LocalReserve
    <2>8. Jobs!VerdictFinal
      BY <1>0, <1>23, QueueConstants DEF JobTyped, ToldResult, Jobs!VerdictFinal,
         Jobs!LocalReserve
    <2> QED
      BY <2>1, <2>2, <2>3, <2>4, <2>5, <2>6, <2>7, <2>8 DEF JobInv
  <1>24. ASSUME NEW i \in JobIds,
  Jobs!LocalPublish(i) PROVE JobInv' /\ Jobs!PartialStagedFirst /\ Jobs!VerdictFinal
    <2>1. JobTyped'
      BY <1>0, <1>24, QueueConstants DEF JobTyped, Jobs!LocalPublish
    <2>2. Lifecycle'
      BY <1>0, <1>24, QueueConstants DEF JobTyped, Lifecycle, Jobs!LocalPublish
    <2>3. Alone'
      BY <1>0, <1>24, QueueConstants DEF JobTyped, Lifecycle, Alone, Jobs!Pending,
         Jobs!LocalPublish
    <2>4. OnDisk'
      BY <1>0, <1>24, QueueConstants DEF JobTyped, Lifecycle, OnDisk, Jobs!LocalPublish
    <2>5. ToldResult'
      BY <1>0, <1>24, QueueConstants DEF JobTyped, ToldResult, Jobs!LocalPublish
    <2>6. Ages'
      BY <1>0, <1>24, QueueConstants DEF JobTyped, Lifecycle, Ages, Jobs!LocalPublish
    <2>7. Jobs!PartialStagedFirst
      BY <1>0, <1>24, QueueConstants DEF JobTyped, Lifecycle, Alone, Jobs!PartialStagedFirst,
         Jobs!Pending, Jobs!LocalPublish
    <2>8. Jobs!VerdictFinal
      BY <1>0, <1>24, QueueConstants DEF JobTyped, ToldResult, Jobs!VerdictFinal,
         Jobs!LocalPublish
    <2> QED
      BY <2>1, <2>2, <2>3, <2>4, <2>5, <2>6, <2>7, <2>8 DEF JobInv
  <1>25. ASSUME NEW i \in JobIds,
  Jobs!LocalWaitEnds(i) PROVE JobInv' /\ Jobs!PartialStagedFirst /\ Jobs!VerdictFinal
    <2>1. JobTyped'
      BY <1>0, <1>25, QueueConstants DEF JobTyped, Jobs!LocalWaitEnds
    <2>2. Lifecycle'
      BY <1>0, <1>25, QueueConstants DEF JobTyped, Lifecycle, Jobs!LocalWaitEnds
    <2>3. Alone'
      BY <1>0, <1>25, QueueConstants DEF JobTyped, Lifecycle, Alone, Jobs!Pending,
         Jobs!LocalWaitEnds
    <2>4. OnDisk'
      BY <1>0, <1>25, QueueConstants DEF JobTyped, Lifecycle, OnDisk, Jobs!LocalWaitEnds
    <2>5. ToldResult'
      BY <1>0, <1>25, QueueConstants DEF JobTyped, ToldResult, Jobs!LocalWaitEnds
    <2>6. Ages'
      BY <1>0, <1>25, QueueConstants DEF JobTyped, Lifecycle, Ages, Jobs!LocalWaitEnds
    <2>7. Jobs!PartialStagedFirst
      BY <1>0, <1>25, QueueConstants DEF JobTyped, Lifecycle, Alone, Jobs!PartialStagedFirst,
         Jobs!Pending, Jobs!LocalWaitEnds
    <2>8. Jobs!VerdictFinal
      BY <1>0, <1>25, QueueConstants DEF JobTyped, ToldResult, Jobs!VerdictFinal,
         Jobs!LocalWaitEnds
    <2> QED
      BY <2>1, <2>2, <2>3, <2>4, <2>5, <2>6, <2>7, <2>8 DEF JobInv
  <1>26. ASSUME NEW i \in JobIds,
  Jobs!LocalFails(i) PROVE JobInv' /\ Jobs!PartialStagedFirst /\ Jobs!VerdictFinal
    <2>1. JobTyped'
      BY <1>0, <1>26, QueueConstants DEF JobTyped, Jobs!LocalFails, Jobs!Fault
    <2>2. Lifecycle'
      BY <1>0, <1>26, QueueConstants DEF JobTyped, Lifecycle, Jobs!LocalFails, Jobs!Fault
    <2>3. Alone'
      BY <1>0, <1>26, QueueConstants DEF JobTyped, Lifecycle, Alone, Jobs!Pending,
         Jobs!LocalFails, Jobs!Fault
    <2>4. OnDisk'
      BY <1>0, <1>26, QueueConstants DEF JobTyped, Lifecycle, OnDisk, Jobs!LocalFails, Jobs!Fault
    <2>5. ToldResult'
      BY <1>0, <1>26, QueueConstants DEF JobTyped, ToldResult, Jobs!LocalFails, Jobs!Fault
    <2>6. Ages'
      BY <1>0, <1>26, QueueConstants DEF JobTyped, Lifecycle, Ages, Jobs!LocalFails, Jobs!Fault
    <2>7. Jobs!PartialStagedFirst
      BY <1>0, <1>26, QueueConstants DEF JobTyped, Lifecycle, Alone, Jobs!PartialStagedFirst,
         Jobs!Pending, Jobs!LocalFails, Jobs!Fault
    <2>8. Jobs!VerdictFinal
      BY <1>0, <1>26, QueueConstants DEF JobTyped, ToldResult, Jobs!VerdictFinal,
         Jobs!LocalFails, Jobs!Fault
    <2> QED
      BY <2>1, <2>2, <2>3, <2>4, <2>5, <2>6, <2>7, <2>8 DEF JobInv
  <1>27. CASE UNCHANGED Jobs!vars
    BY <1>0, <1>27 DEF JobInv, JobTyped, Lifecycle, Alone, OnDisk, ToldResult, Ages,
       Jobs!PartialStagedFirst, Jobs!VerdictFinal, Jobs!Pending, Jobs!vars
  <1> QED
    BY <1>0, <1>1, <1>2, <1>3, <1>4, <1>5, <1>6, <1>7, <1>8, <1>9, <1>10, <1>11, <1>12, <1>13,
       <1>14, <1>15, <1>16, <1>17, <1>18, <1>19, <1>20, <1>21, <1>22, <1>23, <1>24, <1>25,
       <1>26, <1>27
       DEF Jobs!Next, Jobs!EventLoop, Jobs!Monitoring, Jobs!Getting, Jobs!Thread, Jobs!Import,
       Jobs!Working

LEMMA JobInit == Jobs!Init => JobInv
  <1> SUFFICES ASSUME Jobs!Init PROVE JobInv
    OBVIOUS
  <1>1. JobTyped
    BY QueueConstants DEF Jobs!Init, Jobs!JobManagerConstants, JobTyped
  <1> QED
    BY <1>1, QueueConstants
       DEF Jobs!Init, Jobs!JobManagerConstants, JobInv, Lifecycle, Alone, OnDisk, ToldResult, Ages

-----------------------------------------------------------------------------
(* Eviction *)

LEMMA SameJobCardinality ==
    ASSUME NEW S
    PROVE  Jobs!Cardinality(S) = Cardinality(S) /\ (Jobs!IsFiniteSet(S) <=> IsFiniteSet(S))
  BY DEF Jobs!Cardinality, Cardinality, Jobs!IsFiniteSet, IsFiniteSet

\* A set of natural numbers has a least element.
LEMMA LeastNatural == ASSUME NEW T \in SUBSET Nat, T # {} PROVE \E x \in T : \A y \in T : x <= y
  <1>1. \E R : IsWellFoundedOn(R, Nat) /\ \A x, y \in Nat : <<x, y>> \in R <=> x < y
    <2> DEFINE R == OpToRel(<, Nat)
    <2>1. IsWellFoundedOn(R, Nat)
      BY NatLessThanWellFounded
    <2>2. \A x, y \in Nat : <<x, y>> \in R <=> x < y
      BY DEF OpToRel
    <2> HIDE DEF R
    <2> QED
      BY <2>1, <2>2, Zenon
  <1>2. PICK R : IsWellFoundedOn(R, Nat) /\ \A x, y \in Nat : <<x, y>> \in R <=> x < y
    BY <1>1
  <1>3. PICK x \in T : \A y \in T : ~(<<y, x>> \in R)
    <2>1. IsWellFoundedOn(R, Nat) /\ T \subseteq Nat
      BY <1>2
    <2> QED
      BY <2>1, WFMin
  <1>4. \A y \in T : ~(y < x)
    BY <1>2, <1>3
  <1> QED
    BY <1>4

\* When a finished job survives the eviction, as many were evicted as make room for one
\* more: the oldest survivor m has more finished jobs as old as itself than fit, and all of
\* them but m are gone.
LEMMA EvictionMakesRoom ==
    ASSUME JobInv, NEW k \in Jobs!Finished, k \notin Jobs!Evicted
    PROVE  Cardinality(jobs \ Jobs!Evicted) < MaxRetained
  <1> DEFINE Survivors == Jobs!Finished \ Jobs!Evicted
             Births == {born[i] : i \in Survivors}
  <1>1. /\ Jobs!Finished \subseteq jobs /\ jobs \subseteq JobIds
        /\ Jobs!Evicted \subseteq Jobs!Finished
        /\ \A i \in JobIds : born[i] \in Nat
    BY DEF JobInv, JobTyped, Jobs!Finished, Jobs!Evicted
  <1>2. PICK m \in Survivors : \A i \in Survivors : born[m] <= born[i]
    <2>1. Births \in SUBSET Nat /\ Births # {}
      BY <1>1
    <2>2. PICK b \in Births : \A c \in Births : b <= c
      BY <2>1, LeastNatural
    <2> QED
      BY <2>2
  <1> DEFINE Older == {i \in Jobs!Finished : born[i] <= born[m]}
  <1>3. Older \subseteq Jobs!Evicted \cup {m}
    <2> SUFFICES ASSUME NEW i \in Older, i \notin Jobs!Evicted PROVE i = m
      OBVIOUS
    <2>1. born[i] <= born[m] /\ born[m] <= born[i]
      BY <1>2
    <2>2. born[i] = born[m] /\ i \in jobs /\ m \in jobs
      BY <1>1, <2>1
    <2> QED
      BY <1>1, <2>2 DEF JobInv, Lifecycle, Ages
  <1>4. IsFiniteSet(JobIds) /\ MaxRetained \in Nat
    BY QueueConstants, SameJobCardinality DEF Jobs!JobManagerConstants
  <1>5. IsFiniteSet(jobs) /\ IsFiniteSet(Jobs!Evicted)
    BY <1>1, <1>4, FS_Subset
  <1>6. ~(Cardinality(Older) <= Cardinality(jobs) - MaxRetained + 1)
    BY <1>2, SameJobCardinality DEF Jobs!Evicted
  <1> HIDE DEF Older, Survivors
  <1>7. /\ IsFiniteSet(Jobs!Evicted \cup {m})
        /\ Cardinality(Jobs!Evicted \cup {m}) = Cardinality(Jobs!Evicted) + 1
    BY <1>2, <1>5, FS_AddElement DEF Survivors
  <1>8. IsFiniteSet(Older) /\ Cardinality(Older) <= Cardinality(Jobs!Evicted) + 1
    BY <1>3, <1>7, FS_Subset
  <1>9. Cardinality(jobs \ Jobs!Evicted) = Cardinality(jobs) - Cardinality(Jobs!Evicted)
    <2>1. jobs \cap Jobs!Evicted = Jobs!Evicted
      BY <1>1
    <2> QED
      BY <1>5, <2>1, FS_Difference
  <1>10. /\ Cardinality(jobs) \in Nat /\ Cardinality(Jobs!Evicted) \in Nat
         /\ Cardinality(Older) \in Nat
    BY <1>5, <1>8, FS_CardinalityType
  <1> QED
    BY <1>4, <1>6, <1>8, <1>9, <1>10

\* What a submission leaves in the table, when it is admitted and when it fails
LEMMA RetentionStep == JobInv /\ [Jobs!Next]_(Jobs!vars) => Jobs!RetentionBound
  <1> SUFFICES ASSUME JobInv, [Jobs!Next]_(Jobs!vars),
                      NEW i \in JobIds, phase[i] = "waiting", i \in jobs'
               PROVE  \/ Jobs!Cardinality(jobs') <= MaxRetained
                      \/ \A k \in jobs' \ {i} : state[k] = "pending"
    BY DEF Jobs!RetentionBound
  <1>1. i \notin jobs
    BY DEF JobInv, Lifecycle
  <1>2. jobs' = (jobs \ Jobs!Evicted) \cup {i}
    <2> USE <1>1 DEF Jobs!queue, Jobs!table, Jobs!submission, Jobs!query
    <2>1. ASSUME NEW k \in JobIds,
                 Jobs!Create(k) \/ Jobs!AdmitFull(k) \/ Jobs!Busy(k) \/ Jobs!Return(k)
                   \/ Jobs!StagingFails(k) \/ Jobs!FailsAfterPublication(k) \/ Jobs!Monitoring(k)
                   \/ Jobs!MonitorFails(k) \/ Jobs!GetCached(k) \/ Jobs!Thread(k) \/ Jobs!Working(k)
                   \/ Jobs!Import(k)
          PROVE  jobs' \subseteq jobs
      BY <2>1 DEF Jobs!Create, Jobs!AdmitFull, Jobs!Busy, Jobs!Return, Jobs!StagingFails,
         Jobs!FailsAfterPublication, Jobs!Monitoring, Jobs!MonitorReads, Jobs!MonitorEnds,
         Jobs!MonitorTimesOut, Jobs!MonitorFails, Jobs!GetCached, Jobs!Thread, Jobs!CheckEmpty,
         Jobs!Publish, Jobs!Working, Jobs!Claim, Jobs!WriteResult, Jobs!Unclaim,
         Jobs!ReservationExpires, Jobs!Import, Jobs!LocalReserve, Jobs!LocalPublish,
         Jobs!LocalWaitEnds, Jobs!LocalFails
    <2>2. ASSUME NEW k \in JobIds, Jobs!GetFromResult(k) \/ Jobs!GetFromPresence(k)
          PROVE  FALSE
      BY <2>2 DEF JobInv, Lifecycle, Jobs!GetFromResult, Jobs!GetFromPresence, Jobs!Recovered
    <2>3. ASSUME NEW k \in JobIds, Jobs!Admit(k) \/ Jobs!ReserveFails(k)
          PROVE  jobs' = (jobs \ Jobs!Evicted) \cup {i}
      BY <2>3 DEF Jobs!Admit, Jobs!ReserveFails
    <2>4. CASE Jobs!Restart
      BY <2>4 DEF Jobs!Restart
    <2>5. CASE UNCHANGED Jobs!vars
      BY <2>5 DEF Jobs!vars
    <2> QED
      BY <2>1, <2>2, <2>3, <2>4, <2>5 DEF Jobs!Next, Jobs!EventLoop, Jobs!Getting
  <1>3. CASE \E k \in Jobs!Finished : k \notin Jobs!Evicted
    <2>1. Cardinality(jobs \ Jobs!Evicted) < MaxRetained
      BY <1>3, EvictionMakesRoom
    <2>2. IsFiniteSet(jobs \ Jobs!Evicted) /\ MaxRetained \in Nat
      BY QueueConstants, SameJobCardinality, FS_Subset DEF Jobs!JobManagerConstants, JobInv,
         JobTyped
    <2>3. /\ Cardinality(jobs \ Jobs!Evicted) \in Nat
          /\ Cardinality(jobs') = Cardinality(jobs \ Jobs!Evicted) + 1
      BY <1>1, <1>2, <2>2, FS_AddElement, FS_CardinalityType
    <2> QED
      BY <2>1, <2>2, <2>3, SameJobCardinality
  <1>4. CASE Jobs!Finished \subseteq Jobs!Evicted
    BY <1>2, <1>4 DEF Jobs!Finished
  <1> QED
    BY <1>3, <1>4

-----------------------------------------------------------------------------
\* A step of the API is a step of the job manager or leaves it alone.
LEMMA JobSimulation == [Next]_vars => [Jobs!Next]_(Jobs!vars)
  BY DEF Next, ServeExports, ManageJobs, vars, manager, Jobs!vars, Jobs!queue, Jobs!table,
         Jobs!submission, Jobs!query

LEMMA JobInductive == Spec => []JobInv
  <1>1. Init => JobInv
    BY JobInit DEF Init
  <1>2. JobInv /\ [Next]_vars => JobInv'
    BY JobSimulation, JobStep
  <1> QED
    BY <1>1, <1>2, PTL DEF Spec

\* For every number of jobs, evictions, failures of the staging client and restarts, an
\* accepted job is in the table, in the queue or among the results, or was abandoned.
THEOREM AcceptedStaysFindable == Spec => []AcceptedFindable
  <1>1. JobInv => AcceptedFindable
    <2> SUFFICES ASSUME JobInv PROVE AcceptedFindable
      OBVIOUS
    <2>1. Jobs!Cardinality(lookup) <= 1
      <3>1. CASE lookup = {}
        BY <3>1, SameJobCardinality, FS_EmptySet
      <3>2. CASE lookup # {}
        <4>1. PICK i : lookup = {i}
          BY <3>2 DEF JobInv, JobTyped
        <4> QED
          BY <4>1, SameJobCardinality, FS_Singleton
      <3> QED
        BY <3>1, <3>2
    <2>2. Jobs!TypeOK
      BY <2>1 DEF JobInv, JobTyped, Jobs!TypeOK
    <2> QED
      BY <2>2 DEF JobInv, OnDisk, AcceptedFindable, Jobs!AcceptedFindable
  <1> QED
    BY <1>1, JobInductive, PTL

\* Whatever imports reserve, publish and abandon beside the API, a partial update that is
\* published is ahead of every job in the queue, and all of those are imports; a verdict that
\* was told stays as it is; and a submission that enters the table leaves room in it: the
\* oldest finished jobs have gone, whatever their number.
THEOREM JobStepsAreSound == Spec => JobStepsSound
  <1>1. /\ JobInv /\ [Next]_vars
        => [Jobs!PartialStagedFirst /\ Jobs!VerdictFinal /\ Jobs!RetentionBound]_vars
    BY JobSimulation, JobStep, RetentionStep
  <1>2. Spec => [][Next]_vars
    BY PTL DEF Spec
  <1> QED
    BY <1>1, <1>2, JobInductive, PTL DEF JobStepsSound
=============================================================================
