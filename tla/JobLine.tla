------------------------------ MODULE JobLine ------------------------------
(***************************************************************************)
(* What the staged job queue promises, without directories, markers,       *)
(* locks, time stamps or dying processes: a line of limited length, in     *)
(* which a job keeps the ticket it drew when it entered.  The jobs are     *)
(* served one at a time in the order of their tickets.  A place that is    *)
(* only reserved may be lost at any time; a published job leaves the line  *)
(* when it is served, when its own client lost patience while it was the   *)
(* next one, or at the moment its own client breaks.  A job that was       *)
(* served has a result, which says whether the job took effect, and what a *)
(* client is told stays true.                                              *)
(***************************************************************************)
EXTENDS Integers, FiniteSets

CONSTANTS
    Jobs,
    MaxPending      \* how many may wait or be served

VARIABLES
    place,      \* new, reserved, published, served or out
    ticket,     \* the ticket of a job in the line, 0 otherwise
    last,       \* the last ticket drawn
    tired,      \* the jobs whose clients lost patience
    broken,     \* the jobs whose clients failed or died before their work was done
    effect,     \* the jobs that took effect
    result,     \* the result of a job, none until it has one
    report      \* what the client was told, none until then

line == <<place, ticket, last>>
vars == <<line, tired, broken, effect, result, report>>

Init ==
    /\ place = [j \in Jobs |-> "new"] /\ ticket = [j \in Jobs |-> 0] /\ last = 0
    /\ tired = {} /\ broken = {} /\ effect = {}
    /\ result = [j \in Jobs |-> "none"] /\ report = [j \in Jobs |-> "none"]

At(p) == {j \in Jobs : place[j] = p}
InLine == At("reserved") \cup At("published")

\* Another job stays as it is, or loses its reservation.
Keeps(k) ==
    \/ place'[k] = place[k] /\ ticket'[k] = ticket[k]
    \/ place[k] = "reserved" /\ place'[k] = "out" /\ ticket'[k] = 0

\* Job j comes to place p with ticket n; meanwhile reservations of other jobs may expire.
Settle(j, p, n) ==
    /\ place' \in [Jobs -> {"new", "reserved", "published", "served", "out"}]
    /\ ticket' \in [Jobs -> 0 .. last']
    /\ place'[j] = p /\ ticket'[j] = n
    /\ \A k \in Jobs \ {j} : Keeps(k)
    /\ UNCHANGED <<effect, result, report>>

\* Nobody is served, and nobody who stays is ahead of j.
IsNext(j) == At("served") = {} /\ \A k \in InLine' \ {j} : ticket[j] < ticket'[k]

Enter(j) ==
    /\ place[j] = "new"
    /\ last' = last + 1
    /\ Settle(j, "reserved", last + 1) /\ UNCHANGED <<tired, broken>>
    /\ Cardinality(InLine' \cup At("served")') <= MaxPending

Publish(j) ==
    /\ place[j] = "reserved"
    /\ Settle(j, "published", ticket[j]) /\ UNCHANGED <<last, tired, broken>>

Expire(j) ==
    /\ place[j] = "reserved"
    /\ Settle(j, "out", 0) /\ UNCHANGED <<last, tired, broken>>

Serve(j) ==
    /\ place[j] = "published"
    /\ Settle(j, "served", 0) /\ UNCHANGED <<last, tired, broken>>
    /\ IsNext(j)

\* A client loses patience when its job is next and still not served; never because the
\* line is long.
Tire(j) ==
    /\ Settle(j, place[j], ticket[j]) /\ UNCHANGED <<last, broken>>
    /\ place[j] = "published" => IsNext(j)
    /\ tired' = tired \cup {j}

Calm(j) ==
    /\ tired' = tired \ {j}
    /\ UNCHANGED <<line, broken, effect, result, report>>

Withdraw(j) ==
    /\ place[j] = "published" /\ j \in tired
    /\ place' = [place EXCEPT ![j] = "out"] /\ ticket' = [ticket EXCEPT ![j] = 0]
    /\ tired' = tired \ {j}
    /\ UNCHANGED <<last, broken, effect, result, report>>

\* A client breaks once, and takes its job out of the line then or never; a job that is
\* served is out of its reach.
Break(j) ==
    /\ j \notin broken /\ broken' = broken \cup {j}
    /\ tired' = tired \ {j}
    /\ \/ UNCHANGED <<place, ticket>>
       \/ /\ place[j] \in {"reserved", "published"}
          /\ place' = [place EXCEPT ![j] = "out"] /\ ticket' = [ticket EXCEPT ![j] = 0]
    /\ UNCHANGED <<last, effect, result, report>>

TakeEffect(j) ==
    /\ place[j] = "served" /\ result[j] = "none"
    /\ effect' = effect \cup {j}
    /\ UNCHANGED <<line, tired, broken, result, report>>

Verdict(j) == IF j \in effect THEN "succeeded" ELSE "failed"

\* The result is there before the job is gone.
Answer(j, p) ==
    /\ place[j] = "served" /\ p \in {"served", "out"}
    /\ place' = [place EXCEPT ![j] = p]
    /\ result' = [result EXCEPT ![j] = IF @ = "none" THEN Verdict(j) ELSE @]
    /\ UNCHANGED <<ticket, last, tired, broken, effect, report>>

\* A client is told the result, or that there will be none.
Tell(j, r) ==
    /\ report[j] = "none"
    /\ \/ result[j] # "none" /\ r = result[j]
       \/ result[j] = "none" /\ place[j] = "out" /\ r \in {"timedout", "missing"}
    /\ report' = [report EXCEPT ![j] = r]
    /\ UNCHANGED <<line, tired, broken, effect, result>>

Next ==
    \E j \in Jobs :
        \/ Enter(j) \/ Publish(j) \/ Expire(j) \/ Serve(j)
        \/ Tire(j) \/ Calm(j) \/ Withdraw(j) \/ Break(j)
        \/ TakeEffect(j)
        \/ \E p \in {"served", "out"} : Answer(j, p)
        \/ \E r \in {"succeeded", "failed", "timedout", "missing"} : Tell(j, r)

Spec == Init /\ [][Next]_vars
=============================================================================
