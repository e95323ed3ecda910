---------------------------- MODULE RequestProofs ---------------------------
(***************************************************************************)
(* Safety of a configuration request before it is activated, for any       *)
(* bounds: the signed requests of SignedApply, for any requests, keys,     *)
(* clients, handlers and limits of the nonce store, and the typed updates  *)
(* of PartialUpdates, for any keys and depth of the network table.  The    *)
(* theorems are about every instance of this module whose constants        *)
(* satisfy SignedApplyConstants and Upd!PartialConstants.                  *)
(***************************************************************************)
EXTENDS SignedApply, FiniteSetTheorems, WellFoundedInduction, TLAPS

CONSTANTS TableKeys, MaxDepth, Scalars, Names, Tables, MaxChanges

VARIABLES config, staged, result, base, last, updates

Upd == INSTANCE PartialUpdates WITH Keys <- TableKeys, changes <- updates

-----------------------------------------------------------------------------
(* Signed requests *)

\* A nonce in the store has not been accepted, and the next token is new.
Unspent ==
    /\ \A e \in store : e.nonce.token <= token /\ e.nonce \notin accepted
    /\ \A n \in accepted : n.token <= token

\* What root stages is unsigned.  A claimed job has its nonce marked for this boot, was not
\* applied before, and was signed with a key of the signers that are still in force.
Checked ==
    /\ \A k \in DOMAIN queue : queue[k].local => queue[k].msg.nonce = NoNonce
    /\ worker # <<>> =>
        /\ worker[1].msg.nonce # NoNonce =>
            /\ worker[1].msg.nonce \in used /\ worker[1].msg.nonce.boot = boot
            /\ \A k \in DOMAIN applied : applied[k].nonce # worker[1].msg.nonce
        /\ ~worker[1].local /\ signers # {} =>
            worker[1].msg.nonce # NoNonce /\ KeyOf[worker[1].msg.req] \in signers

\* A nonce that took effect is marked or belongs to an earlier boot.
Marked ==
    \A k \in DOMAIN applied : Signed(applied[k]) =>
        \/ applied[k].nonce.boot < boot
        \/ applied[k].nonce.boot = boot /\ applied[k].nonce \in used

SignedInv ==
    /\ TypeOK /\ Unspent /\ Checked /\ Marked /\ AppliedOnce /\ AppliedByTrustedKey
    /\ IsFiniteSet(store) /\ StoreBound

\* The part of the invariant that does not count
StepInv == TypeOK /\ Unspent /\ Checked /\ Marked /\ AppliedOnce /\ AppliedByTrustedKey

\* Every set of naturals that is not empty has a least element.
LEMMA LeastNatural == ASSUME NEW T \in SUBSET Nat, T # {} PROVE \E x \in T : \A y \in T : x <= y
  <1>1. \E R : IsWellFoundedOn(R, Nat) /\ \A x, y \in Nat : <<x, y>> \in R <=> x < y
    <2> DEFINE R == OpToRel(<, Nat)
    <2>1. IsWellFoundedOn(R, Nat)
      BY NatLessThanWellFounded
    <2>2. \A x, y \in Nat : <<x, y>> \in R <=> x < y
      BY DEF OpToRel
    <2> HIDE DEF R
    <2> QED
      BY <2>1, <2>2, Zenon
  <1>2. PICK R : IsWellFoundedOn(R, Nat) /\ \A x, y \in Nat : <<x, y>> \in R <=> x < y
    BY <1>1
  <1>3. PICK x \in T : \A y \in T : ~(<<y, x>> \in R)
    <2>1. IsWellFoundedOn(R, Nat) /\ T \subseteq Nat
      BY <1>2
    <2> QED
      BY <2>1, WFMin
  <1>4. \A y \in T : ~(y < x)
    BY <1>2, <1>3
  <1> QED
    BY <1>4

\* The oldest entry is one of them.
LEMMA OldestIn ==
    ASSUME NEW s, s # {}, s \subseteq [nonce : Nonces, client : Clients]
    PROVE  Oldest(s) \in s
  <1> DEFINE T == {e.nonce.token : e \in s}
  <1>1. \A e \in s : e.nonce \in Nonces
    OBVIOUS
  <1>2. T \in SUBSET Nat /\ T # {}
    BY <1>1 DEF Nonces
  <1>3. PICK x \in T : \A y \in T : x <= y
    BY <1>2, LeastNatural
  <1>4. PICK e \in s : e.nonce.token = x
    BY <1>3
  <1>5. \A f \in s : e.nonce.token <= f.nonce.token
    BY <1>3, <1>4
  <1> QED
    BY <1>5 DEF Oldest

LEMMA EvictedSubset == ASSUME NEW c PROVE Evicted(c) \subseteq Pruned /\ Pruned \subseteq store
  BY DEF Evicted, EvictOldest, EvictClient, Pruned

LEMMA SignedStep ==
    ASSUME SignedApplyConstants, StepInv, [Next]_vars
    PROVE  StepInv' /\ NonceAcceptedOnce
  <1>0. SignedApplyConstants /\ TypeOK /\ Unspent /\ Checked /\ Marked /\ AppliedOnce
        /\ AppliedByTrustedKey
    BY DEF StepInv
  <1> USE DEF api, root
  <1>1. ASSUME NEW r \in Requests, Issue(r) PROVE StepInv' /\ NonceAcceptedOnce
    <2>1. TypeOK'
      <3>1. [boot |-> boot, token |-> token + 1] \in Nonces /\ token' \in Nat
        BY <1>0, <1>1 DEF TypeOK, Nonces, Issue
      <3>2. ClientOf[r] \in Clients
        BY <1>0 DEF SignedApplyConstants
      <3>3. store' \subseteq [nonce : Nonces, client : Clients]
        BY <1>0, <1>1, <3>1, <3>2, EvictedSubset DEF TypeOK, Issue
      <3>4. sent' \subseteq Messages
        BY <1>0, <1>1, <3>1 DEF TypeOK, Messages, Issue
      <3> QED
        BY <1>0, <1>1, <3>1, <3>3, <3>4 DEF TypeOK, Issue
    <2>2. Unspent'
      <3>1. [boot |-> boot, token |-> token + 1].token = token + 1
        OBVIOUS
      <3>2. token \in Nat /\ token' = token + 1 /\ accepted' = accepted /\ accepted \subseteq Nonces
        BY <1>0, <1>1 DEF TypeOK, Issue
      <3>3. \A n \in accepted : n.token <= token /\ n.token \in Nat
        BY <1>0, <3>2 DEF Unspent, Nonces
      <3>4. [boot |-> boot, token |-> token + 1] \notin accepted
        BY <3>1, <3>2, <3>3
      <3>5. ASSUME NEW e \in store' PROVE e.nonce.token <= token' /\ e.nonce \notin accepted'
        <4>1. CASE e \in store
          <5>1. e.nonce \in Nonces
            BY <1>0, <4>1 DEF TypeOK
          <5>2. e.nonce.token \in Nat
            BY <5>1 DEF Nonces
          <5> QED
            BY <1>0, <3>2, <4>1, <5>2 DEF Unspent
        <4>2. CASE e = [nonce |-> [boot |-> boot, token |-> token + 1], client |-> ClientOf[r]]
          BY <3>1, <3>2, <3>4, <4>2
        <4> QED
          BY <1>1, <3>5, <4>1, <4>2, EvictedSubset DEF Issue
      <3> QED
        BY <3>2, <3>3, <3>5 DEF Unspent
    <2>3. Checked'
      BY <1>0, <1>1 DEF TypeOK, Checked, Jobs, Messages, Issue
    <2>4. Marked'
      BY <1>0, <1>1 DEF TypeOK, Checked, Marked, Signed, Issue
    <2>5. AppliedOnce'
      BY <1>0, <1>1 DEF TypeOK, Checked, AppliedOnce, Signed, Issue
    <2>6. AppliedByTrustedKey'
      BY <1>0, <1>1 DEF TypeOK, Checked, AppliedByTrustedKey, Signed, Issue
    <2>7. NonceAcceptedOnce
      BY <1>0, <1>1 DEF TypeOK, Unspent, NonceAcceptedOnce, Idle, Issue
    <2> QED
      BY <2>1, <2>2, <2>3, <2>4, <2>5, <2>6, <2>7 DEF StepInv
  <1>2. ASSUME NEW r \in Requests, SubmitInitial(r) PROVE StepInv' /\ NonceAcceptedOnce
    <2>1. TypeOK'
      BY <1>0, <1>2 DEF TypeOK, Messages, Nonces, Jobs, SignedApplyConstants, SubmitInitial,
         Stage, Unsigned, NoNonce
    <2>2. Unspent'
      BY <1>0, <1>2 DEF TypeOK, Unspent, SubmitInitial, Stage, Unsigned, NoNonce
    <2>3. Checked'
      BY <1>0, <1>2 DEF TypeOK, Checked, Jobs, Messages, SubmitInitial, Stage, Unsigned, NoNonce
    <2>4. Marked'
      BY <1>0, <1>2 DEF TypeOK, Checked, Marked, Signed, SubmitInitial, Stage, Unsigned, NoNonce
    <2>5. AppliedOnce'
      BY <1>0, <1>2 DEF TypeOK, Checked, AppliedOnce, Signed, SubmitInitial, Stage, Unsigned,
         NoNonce
    <2>6. AppliedByTrustedKey'
      BY <1>0, <1>2 DEF TypeOK, Checked, AppliedByTrustedKey, Signed, SubmitInitial, Stage,
         Unsigned, NoNonce
    <2>7. NonceAcceptedOnce
      BY <1>0, <1>2 DEF TypeOK, Unspent, NonceAcceptedOnce, Idle, SubmitInitial, Stage, Unsigned,
         NoNonce
    <2> QED
      BY <2>1, <2>2, <2>3, <2>4, <2>5, <2>6, <2>7 DEF StepInv
  <1>3. ASSUME NEW r \in Requests, StageLocal(r) PROVE StepInv' /\ NonceAcceptedOnce
    <2>1. TypeOK'
      BY <1>0, <1>3 DEF TypeOK, Messages, Nonces, Jobs, SignedApplyConstants, StageLocal, Stage,
         Unsigned, NoNonce
    <2>2. Unspent'
      BY <1>0, <1>3 DEF TypeOK, Unspent, StageLocal, Stage, Unsigned, NoNonce
    <2>3. Checked'
      BY <1>0, <1>3 DEF TypeOK, Checked, Jobs, Messages, StageLocal, Stage, Unsigned, NoNonce
    <2>4. Marked'
      BY <1>0, <1>3 DEF TypeOK, Checked, Marked, Signed, StageLocal, Stage, Unsigned, NoNonce
    <2>5. AppliedOnce'
      BY <1>0, <1>3 DEF TypeOK, Checked, AppliedOnce, Signed, StageLocal, Stage, Unsigned, NoNonce
    <2>6. AppliedByTrustedKey'
      BY <1>0, <1>3 DEF TypeOK, Checked, AppliedByTrustedKey, Signed, StageLocal, Stage,
         Unsigned, NoNonce
    <2>7. NonceAcceptedOnce
      BY <1>0, <1>3 DEF TypeOK, Unspent, NonceAcceptedOnce, Idle, StageLocal, Stage, Unsigned,
         NoNonce
    <2> QED
      BY <2>1, <2>2, <2>3, <2>4, <2>5, <2>6, <2>7 DEF StepInv
  <1>4. CASE Expire
    <2>1. TypeOK'
      <3>1. Pruned \subseteq store /\ store \subseteq [nonce : Nonces, client : Clients]
        BY <1>0 DEF Pruned, TypeOK
      <3>2. Oldest(Pruned) \in Pruned
        BY <1>4, <3>1, OldestIn DEF Expire
      <3>3. Oldest(Pruned).nonce \in Nonces
        BY <3>1, <3>2
      <3> QED
        BY <1>0, <1>4, <3>3 DEF TypeOK, Expire
    <2>2. Unspent'
      BY <1>0, <1>4 DEF TypeOK, Unspent, Expire
    <2>3. Checked'
      BY <1>0, <1>4 DEF TypeOK, Checked, Jobs, Messages, Expire
    <2>4. Marked'
      BY <1>0, <1>4 DEF TypeOK, Checked, Marked, Signed, Expire
    <2>5. AppliedOnce'
      BY <1>0, <1>4 DEF TypeOK, Checked, AppliedOnce, Signed, Expire
    <2>6. AppliedByTrustedKey'
      BY <1>0, <1>4 DEF TypeOK, Checked, AppliedByTrustedKey, Signed, Expire
    <2>7. NonceAcceptedOnce
      BY <1>0, <1>4 DEF TypeOK, Unspent, NonceAcceptedOnce, Idle, Expire
    <2> QED
      BY <2>1, <2>2, <2>3, <2>4, <2>5, <2>6, <2>7 DEF StepInv
  <1>5. ASSUME NEW h \in Handlers, NEW m \in sent, GuardBegin(h, m)
       PROVE  StepInv' /\ NonceAcceptedOnce
    <2>1. TypeOK'
      BY <1>0, <1>5 DEF TypeOK, Messages, Nonces, Jobs, SignedApplyConstants, GuardBegin, Idle
    <2>2. Unspent'
      BY <1>0, <1>5 DEF TypeOK, Unspent, GuardBegin, Idle
    <2>3. Checked'
      BY <1>0, <1>5 DEF TypeOK, Checked, Jobs, Messages, GuardBegin, Idle
    <2>4. Marked'
      BY <1>0, <1>5 DEF TypeOK, Checked, Marked, Signed, GuardBegin, Idle
    <2>5. AppliedOnce'
      BY <1>0, <1>5 DEF TypeOK, Checked, AppliedOnce, Signed, GuardBegin, Idle
    <2>6. AppliedByTrustedKey'
      BY <1>0, <1>5 DEF TypeOK, Checked, AppliedByTrustedKey, Signed, GuardBegin, Idle
    <2>7. NonceAcceptedOnce
      BY <1>0, <1>5 DEF TypeOK, Unspent, NonceAcceptedOnce, Idle, GuardBegin
    <2> QED
      BY <2>1, <2>2, <2>3, <2>4, <2>5, <2>6, <2>7 DEF StepInv
  <1>6. ASSUME NEW h \in Handlers, GuardConsume(h) PROVE StepInv' /\ NonceAcceptedOnce
    <2>1. TypeOK'
      <3>1. store' \subseteq store /\ expired' = {}
        BY <1>6 DEF GuardConsume, Pruned
      <3>2. handler[h] \in [step : {"consume", "verify"}, msg : Messages, allowed : SUBSET Keys]
        BY <1>0, <1>6 DEF TypeOK, GuardConsume, Idle
      <3>3. handler[h].msg.nonce \in Nonces
        BY <3>2 DEF Messages
      <3>4. accepted' \subseteq Nonces
        BY <1>0, <1>6, <3>3 DEF TypeOK, GuardConsume
      <3>5. [handler[h] EXCEPT !.step = "verify"]
              \in [step : {"consume", "verify"}, msg : Messages, allowed : SUBSET Keys]
        BY <3>2
      <3>6. handler' = [handler EXCEPT ![h] = [handler[h] EXCEPT !.step = "verify"]]
            \/ handler' = [handler EXCEPT ![h] = Idle]
        BY <1>0, <1>6 DEF GuardConsume, TypeOK
      <3>7. handler' \in [Handlers ->
              {Idle} \cup [step : {"consume", "verify"}, msg : Messages, allowed : SUBSET Keys]]
        BY <1>0, <3>5, <3>6 DEF TypeOK
      <3> QED
        BY <1>0, <1>6, <3>1, <3>4, <3>7 DEF TypeOK, GuardConsume
    <2>2. Unspent'
      BY <1>0, <1>6 DEF TypeOK, Unspent, GuardConsume, Idle, Pruned, Holds
    <2>3. Checked'
      BY <1>0, <1>6 DEF TypeOK, Checked, Jobs, Messages, GuardConsume, Idle, Pruned, Holds
    <2>4. Marked'
      BY <1>0, <1>6 DEF TypeOK, Checked, Marked, Signed, GuardConsume, Idle, Pruned, Holds
    <2>5. AppliedOnce'
      BY <1>0, <1>6 DEF TypeOK, Checked, AppliedOnce, Signed, GuardConsume, Idle, Pruned, Holds
    <2>6. AppliedByTrustedKey'
      BY <1>0, <1>6 DEF TypeOK, Checked, AppliedByTrustedKey, Signed, GuardConsume, Idle, Pruned,
         Holds
    <2>7. NonceAcceptedOnce
      BY <1>0, <1>6 DEF TypeOK, Unspent, NonceAcceptedOnce, Idle, GuardConsume, Pruned, Holds
    <2> QED
      BY <2>1, <2>2, <2>3, <2>4, <2>5, <2>6, <2>7 DEF StepInv
  <1>7. ASSUME NEW h \in Handlers, GuardVerify(h) PROVE StepInv' /\ NonceAcceptedOnce
    <2>1. TypeOK'
      BY <1>0, <1>7 DEF TypeOK, Messages, Nonces, Jobs, SignedApplyConstants, GuardVerify, Stage,
         Idle
    <2>2. Unspent'
      BY <1>0, <1>7 DEF TypeOK, Unspent, GuardVerify, Stage, Idle
    <2>3. Checked'
      BY <1>0, <1>7 DEF TypeOK, Checked, Jobs, Messages, GuardVerify, Stage, Idle
    <2>4. Marked'
      BY <1>0, <1>7 DEF TypeOK, Checked, Marked, Signed, GuardVerify, Stage, Idle
    <2>5. AppliedOnce'
      BY <1>0, <1>7 DEF TypeOK, Checked, AppliedOnce, Signed, GuardVerify, Stage, Idle
    <2>6. AppliedByTrustedKey'
      BY <1>0, <1>7 DEF TypeOK, Checked, AppliedByTrustedKey, Signed, GuardVerify, Stage, Idle
    <2>7. NonceAcceptedOnce
      BY <1>0, <1>7 DEF TypeOK, Unspent, NonceAcceptedOnce, Idle, GuardVerify, Stage
    <2> QED
      BY <2>1, <2>2, <2>3, <2>4, <2>5, <2>6, <2>7 DEF StepInv
  <1>8. ASSUME NEW h \in Handlers, GuardReject(h) PROVE StepInv' /\ NonceAcceptedOnce
    <2>1. TypeOK'
      BY <1>0, <1>8 DEF TypeOK, GuardReject, Idle
    <2>2. Unspent'
      BY <1>0, <1>8 DEF TypeOK, Unspent, GuardReject, Idle
    <2>3. Checked'
      BY <1>0, <1>8 DEF TypeOK, Checked, Jobs, Messages, GuardReject, Idle
    <2>4. Marked'
      BY <1>0, <1>8 DEF TypeOK, Checked, Marked, Signed, GuardReject, Idle
    <2>5. AppliedOnce'
      BY <1>0, <1>8 DEF TypeOK, Checked, AppliedOnce, Signed, GuardReject, Idle
    <2>6. AppliedByTrustedKey'
      BY <1>0, <1>8 DEF TypeOK, Checked, AppliedByTrustedKey, Signed, GuardReject, Idle
    <2>7. NonceAcceptedOnce
      BY <1>0, <1>8 DEF TypeOK, Unspent, NonceAcceptedOnce, Idle, GuardReject
    <2> QED
      BY <2>1, <2>2, <2>3, <2>4, <2>5, <2>6, <2>7 DEF StepInv
  <1>9. ASSUME NEW m \in sent, StageAgain(m) PROVE StepInv' /\ NonceAcceptedOnce
    <2>1. TypeOK'
      BY <1>0, <1>9 DEF TypeOK, Messages, Nonces, Jobs, SignedApplyConstants, StageAgain, Stage
    <2>2. Unspent'
      BY <1>0, <1>9 DEF TypeOK, Unspent, StageAgain, Stage
    <2>3. Checked'
      BY <1>0, <1>9 DEF TypeOK, Checked, Jobs, Messages, StageAgain, Stage
    <2>4. Marked'
      BY <1>0, <1>9 DEF TypeOK, Checked, Marked, Signed, StageAgain, Stage
    <2>5. AppliedOnce'
      BY <1>0, <1>9 DEF TypeOK, Checked, AppliedOnce, Signed, StageAgain, Stage
    <2>6. AppliedByTrustedKey'
      BY <1>0, <1>9 DEF TypeOK, Checked, AppliedByTrustedKey, Signed, StageAgain, Stage
    <2>7. NonceAcceptedOnce
      BY <1>0, <1>9 DEF TypeOK, Unspent, NonceAcceptedOnce, Idle, StageAgain, Stage
    <2> QED
      BY <2>1, <2>2, <2>3, <2>4, <2>5, <2>6, <2>7 DEF StepInv
  <1>10. CASE Claim
    <2>1. TypeOK'
      <3>1. queue \in Seq(Jobs) /\ queue # <<>>
        BY <1>0, <1>10 DEF TypeOK, Claim
      <3>2. Head(queue) \in Jobs /\ Tail(queue) \in Seq(Jobs)
        BY <3>1
      <3>3. Head(queue).msg.nonce \in Nonces
        BY <3>2 DEF Jobs, Messages
      <3>4. worker' \in Seq(Jobs) /\ Len(worker') <= 1
        BY <1>10, <3>2 DEF Claim
      <3>5. used' \subseteq Nonces
        BY <1>0, <1>10, <3>3 DEF TypeOK, Claim
      <3> QED
        BY <1>0, <1>10, <3>2, <3>4, <3>5 DEF TypeOK, Claim
    <2>2. Unspent'
      BY <1>0, <1>10 DEF TypeOK, Unspent, Claim, Authorized, IsProvisioned
    <2>3. Checked'
      BY <1>0, <1>10 DEF TypeOK, Checked, Jobs, Messages, Marked, Signed,
         nonce_matches_current_boot, Claim, Authorized, IsProvisioned
    <2>4. Marked'
      BY <1>0, <1>10 DEF TypeOK, Checked, Marked, Signed, Claim, Authorized, IsProvisioned
    <2>5. AppliedOnce'
      BY <1>0, <1>10 DEF TypeOK, Checked, AppliedOnce, Signed, Claim, Authorized, IsProvisioned
    <2>6. AppliedByTrustedKey'
      BY <1>0, <1>10 DEF TypeOK, Checked, AppliedByTrustedKey, Signed, Claim, Authorized,
         IsProvisioned
    <2>7. NonceAcceptedOnce
      BY <1>0, <1>10 DEF TypeOK, Unspent, NonceAcceptedOnce, Idle, Claim, Authorized,
         IsProvisioned
    <2> QED
      BY <2>1, <2>2, <2>3, <2>4, <2>5, <2>6, <2>7 DEF StepInv
  <1>11. CASE Reject
    <2>1. TypeOK'
      BY <1>0, <1>11 DEF TypeOK, Reject
    <2>2. Unspent'
      BY <1>0, <1>11 DEF TypeOK, Unspent, Reject
    <2>3. Checked'
      BY <1>0, <1>11 DEF TypeOK, Checked, Jobs, Messages, Reject
    <2>4. Marked'
      BY <1>0, <1>11 DEF TypeOK, Checked, Marked, Signed, Reject
    <2>5. AppliedOnce'
      BY <1>0, <1>11 DEF TypeOK, Checked, AppliedOnce, Signed, Reject
    <2>6. AppliedByTrustedKey'
      BY <1>0, <1>11 DEF TypeOK, Checked, AppliedByTrustedKey, Signed, Reject
    <2>7. NonceAcceptedOnce
      BY <1>0, <1>11 DEF TypeOK, Unspent, NonceAcceptedOnce, Idle, Reject
    <2> QED
      BY <2>1, <2>2, <2>3, <2>4, <2>5, <2>6, <2>7 DEF StepInv
  <1>12. CASE Apply
    <2>1. TypeOK'
      <3> DEFINE Entry == [req : Requests, nonce : Nonces, local : BOOLEAN, signers : SUBSET Keys]
      <3>1. worker[1] \in Jobs
        BY <1>0, <1>12 DEF TypeOK, Apply
      <3>2. worker[1].msg.req \in Requests /\ worker[1].msg.nonce \in Nonces /\ worker[1].local \in BOOLEAN
        BY <3>1 DEF Jobs, Messages
      <3>3. [req |-> worker[1].msg.req, nonce |-> worker[1].msg.nonce,
             local |-> worker[1].local, signers |-> signers] \in Entry
        BY <1>0, <3>2 DEF TypeOK
      <3>4. applied' \in Seq(Entry)
        <4> HIDE DEF Entry
        <4>1. applied \in Seq(Entry)
          BY <1>0 DEF TypeOK, Entry
        <4> QED
          BY <1>12, <3>3, <4>1 DEF Apply
      <3>5. signers' \in SUBSET Keys
        BY <1>0, <1>12, <3>2 DEF SignedApplyConstants, Apply
      <3>6. worker' \in Seq(Jobs) /\ Len(worker') <= 1
        BY <1>12 DEF Apply
      <3> QED
        BY <1>0, <1>12, <3>4, <3>5, <3>6 DEF TypeOK, Apply
    <2>2. Unspent'
      BY <1>0, <1>12 DEF TypeOK, Unspent, Apply
    <2>3. Checked'
      BY <1>0, <1>12 DEF TypeOK, Checked, Jobs, Messages, Apply
    <2>4. Marked'
      BY <1>0, <1>12 DEF TypeOK, Checked, Marked, Signed, Apply
    <2>5. AppliedOnce'
      BY <1>0, <1>12 DEF TypeOK, Checked, AppliedOnce, Signed, Apply
    <2>6. AppliedByTrustedKey'
      BY <1>0, <1>12 DEF TypeOK, Checked, AppliedByTrustedKey, Signed, Apply
    <2>7. NonceAcceptedOnce
      BY <1>0, <1>12 DEF TypeOK, Unspent, NonceAcceptedOnce, Idle, Apply
    <2> QED
      BY <2>1, <2>2, <2>3, <2>4, <2>5, <2>6, <2>7 DEF StepInv
  <1>13. CASE Abort
    <2>1. TypeOK'
      BY <1>0, <1>13 DEF TypeOK, Abort
    <2>2. Unspent'
      BY <1>0, <1>13 DEF TypeOK, Unspent, Abort
    <2>3. Checked'
      BY <1>0, <1>13 DEF TypeOK, Checked, Jobs, Messages, Abort
    <2>4. Marked'
      BY <1>0, <1>13 DEF TypeOK, Checked, Marked, Signed, Abort
    <2>5. AppliedOnce'
      BY <1>0, <1>13 DEF TypeOK, Checked, AppliedOnce, Signed, Abort
    <2>6. AppliedByTrustedKey'
      BY <1>0, <1>13 DEF TypeOK, Checked, AppliedByTrustedKey, Signed, Abort
    <2>7. NonceAcceptedOnce
      BY <1>0, <1>13 DEF TypeOK, Unspent, NonceAcceptedOnce, Idle, Abort
    <2> QED
      BY <2>1, <2>2, <2>3, <2>4, <2>5, <2>6, <2>7 DEF StepInv
  <1>14. CASE RestartApi
    <2>1. TypeOK'
      BY <1>0, <1>14 DEF TypeOK, Messages, Nonces, Jobs, SignedApplyConstants, RestartApi, Idle
    <2>2. Unspent'
      BY <1>0, <1>14 DEF TypeOK, Unspent, RestartApi, Idle
    <2>3. Checked'
      BY <1>0, <1>14 DEF TypeOK, Checked, Jobs, Messages, RestartApi, Idle
    <2>4. Marked'
      BY <1>0, <1>14 DEF TypeOK, Checked, Marked, Signed, RestartApi, Idle
    <2>5. AppliedOnce'
      BY <1>0, <1>14 DEF TypeOK, Checked, AppliedOnce, Signed, RestartApi, Idle
    <2>6. AppliedByTrustedKey'
      BY <1>0, <1>14 DEF TypeOK, Checked, AppliedByTrustedKey, Signed, RestartApi, Idle
    <2>7. NonceAcceptedOnce
      BY <1>0, <1>14 DEF TypeOK, Unspent, NonceAcceptedOnce, Idle, RestartApi
    <2> QED
      BY <2>1, <2>2, <2>3, <2>4, <2>5, <2>6, <2>7 DEF StepInv
  <1>15. CASE Reboot
    <2>1. TypeOK'
      BY <1>0, <1>15 DEF TypeOK, Messages, Nonces, Jobs, SignedApplyConstants, Reboot, Idle
    <2>2. Unspent'
      BY <1>0, <1>15 DEF TypeOK, Unspent, Reboot, Idle
    <2>3. Checked'
      BY <1>0, <1>15 DEF TypeOK, Checked, Jobs, Messages, Reboot, Idle
    <2>4. Marked'
      <3> SUFFICES ASSUME NEW k \in DOMAIN applied, Signed(applied[k])
                   PROVE  applied[k].nonce.boot < boot'
        BY <1>15 DEF Marked, Reboot, Signed
      <3>1. applied[k].nonce \in Nonces
        <4> DEFINE Entry == [req : Requests, nonce : Nonces, local : BOOLEAN,
        signers : SUBSET Keys]
        <4>1. applied \in Seq(Entry)
          BY <1>0 DEF TypeOK
        <4>2. \A e \in Entry : e.nonce \in Nonces
          OBVIOUS
        <4> HIDE DEF Entry
        <4> QED
          BY <4>1, <4>2
      <3>2. applied[k].nonce.boot \in Nat /\ boot \in Nat /\ boot' = boot + 1
        BY <1>0, <1>15, <3>1 DEF TypeOK, Nonces, Reboot
      <3>3. applied[k].nonce.boot <= boot
        BY <1>0, <3>2 DEF Marked
      <3> QED
        BY <3>2, <3>3
    <2>5. AppliedOnce'
      BY <1>0, <1>15 DEF TypeOK, Checked, AppliedOnce, Signed, Reboot, Idle
    <2>6. AppliedByTrustedKey'
      BY <1>0, <1>15 DEF TypeOK, Checked, AppliedByTrustedKey, Signed, Reboot, Idle
    <2>7. NonceAcceptedOnce
      BY <1>0, <1>15 DEF TypeOK, Unspent, NonceAcceptedOnce, Idle, Reboot
    <2> QED
      BY <2>1, <2>2, <2>3, <2>4, <2>5, <2>6, <2>7 DEF StepInv
  <1>16. CASE UNCHANGED vars
    BY <1>0, <1>16 DEF StepInv, TypeOK, Unspent, Checked, Marked, AppliedOnce,
       AppliedByTrustedKey, NonceAcceptedOnce, vars
  <1> QED
    BY <1>0, <1>1, <1>2, <1>3, <1>4, <1>5, <1>6, <1>7, <1>8, <1>9, <1>10, <1>11, <1>12, <1>13,
       <1>14, <1>15, <1>16
       DEF Next

-----------------------------------------------------------------------------
(* The limits of the store *)

LEMMA SubsetCounts ==
    ASSUME NEW S, NEW T, IsFiniteSet(S), T \subseteq S
    PROVE  IsFiniteSet(T) /\ Cardinality(T) \in Nat /\ Cardinality(S) \in Nat
           /\ Cardinality(T) <= Cardinality(S)
  BY FS_Subset, FS_CardinalityType

LEMMA AddCounts ==
    ASSUME NEW S, NEW x, IsFiniteSet(S)
    PROVE  /\ IsFiniteSet(S \cup {x}) /\ Cardinality(S) \in Nat /\ Cardinality(S \cup {x}) \in Nat
           /\ Cardinality(S \cup {x}) <= Cardinality(S) + 1
  <1>1. /\ IsFiniteSet(S \cup {x})
        /\ Cardinality(S \cup {x}) = Cardinality(S) \/ Cardinality(S \cup {x}) = Cardinality(S) + 1
    BY FS_AddElement
  <1>2. Cardinality(S) \in Nat
    BY FS_CardinalityType
  <1> QED
    BY <1>1, <1>2

\* Eviction makes room for one more entry, in all and for the client that asks; when that
\* client is at its limit it takes the client's oldest entry and no other.
LEMMA EvictionMakesRoom ==
    ASSUME SignedApplyConstants, TypeOK, IsFiniteSet(store), StoreBound, NEW c \in Clients
    PROVE  /\ IsFiniteSet(Evicted(c)) /\ Cardinality(Evicted(c)) < MaxOutstanding
           /\ Cardinality(Of(c, Evicted(c))) < PerClient
           /\ Cardinality(Of(c, Pruned)) >= PerClient
                => Evicted(c) = Pruned \ {Oldest(Of(c, Pruned))}
                   /\ Oldest(Of(c, Pruned)) \in Of(c, Pruned)
  <1> DEFINE P == Pruned
             O == Of(c, P)
             o == Oldest(O)
             E == EvictClient(c, P)
             limit == IF PerClient < MaxOutstanding THEN PerClient ELSE MaxOutstanding
  <1>1. MaxOutstanding \in Nat \ {0} /\ PerClient \in Nat \ {0}
    BY DEF SignedApplyConstants
  <1>2. P \subseteq store /\ O \subseteq P /\ O \subseteq Of(c, store)
        /\ Of(c, store) \subseteq store
    BY DEF Pruned, Of
  <1>3. P \subseteq [nonce : Nonces, client : Clients] /\ O \subseteq [nonce : Nonces, client : Clients]
    BY <1>2 DEF TypeOK
  <1>4. IsFiniteSet(P) /\ IsFiniteSet(O) /\ IsFiniteSet(Of(c, store))
    BY <1>2, SubsetCounts
  <1>5. /\ Cardinality(P) \in Nat /\ Cardinality(P) <= MaxOutstanding
        /\ Cardinality(O) \in Nat /\ Cardinality(O) <= PerClient
    <2>1. Cardinality(P) \in Nat /\ Cardinality(P) <= Cardinality(store) /\ Cardinality(store) \in Nat
      BY <1>2, SubsetCounts
    <2>2. Cardinality(O) \in Nat /\ Cardinality(O) <= Cardinality(Of(c, store))
          /\ Cardinality(Of(c, store)) \in Nat
      BY <1>2, <1>4, SubsetCounts
    <2> HIDE DEF P, O
    <2> QED
      BY <1>1, <2>1, <2>2 DEF StoreBound
  <1>6. E = IF Cardinality(O) >= limit THEN P \ {o} ELSE P
    BY DEF EvictClient
  <1>7. limit \in Nat \ {0} /\ limit <= PerClient /\ limit <= MaxOutstanding
    BY <1>1
  <1>8. Cardinality(O) >= limit => o \in O
    <2> SUFFICES ASSUME Cardinality(O) >= limit PROVE o \in O
      OBVIOUS
    <2>1. O # {}
      <3> HIDE DEF O, limit
      <3> QED
        BY <1>7, FS_EmptySet
    <2> QED
      BY <2>1, <1>3, OldestIn
  <1>9. /\ E \subseteq P /\ IsFiniteSet(E) /\ Cardinality(E) \in Nat
        /\ Cardinality(E) <= MaxOutstanding
        /\ Cardinality(O) >= limit => Cardinality(E) < MaxOutstanding
        /\ Cardinality(Of(c, E)) < PerClient
    <2>1. CASE Cardinality(O) >= limit
      <3>1. E = P \ {o} /\ o \in O /\ o \in P
        BY <2>1, <1>6, <1>8, <1>2
      <3>2. Of(c, E) = O \ {o}
        BY <3>1 DEF Of
      <3>3. IsFiniteSet(P \ {o}) /\ Cardinality(P \ {o}) = Cardinality(P) - 1
        BY <1>4, <3>1, FS_RemoveElement
      <3>4. Cardinality(O \ {o}) = Cardinality(O) - 1
        BY <1>4, <3>1, FS_RemoveElement
      <3>5. Cardinality(E) \in Nat
        BY <3>1, <3>3, FS_CardinalityType
      <3> HIDE DEF P, O, o, E, limit
      <3> QED
        BY <1>1, <1>5, <3>1, <3>2, <3>3, <3>4, <3>5
    <2>2. CASE ~(Cardinality(O) >= limit)
      <3>1. E = P
        BY <2>2, <1>6
      <3> HIDE DEF P, O, o, E, limit
      <3>2. Of(c, E) = O
        BY <3>1 DEF O
      <3> QED
        BY <2>2, <1>1, <1>4, <1>5, <1>7, <3>1, <3>2
    <2> QED
      BY <2>1, <2>2
  <1>10. Evicted(c) = IF Cardinality(E) >= MaxOutstanding THEN E \ {Oldest(E)} ELSE E
    BY DEF Evicted, EvictOldest
  <1>11. IsFiniteSet(Evicted(c)) /\ Cardinality(Evicted(c)) < MaxOutstanding
         /\ Evicted(c) \subseteq E
    <2>1. CASE Cardinality(E) >= MaxOutstanding
      <3>1. E # {}
        <4> HIDE DEF E
        <4> QED
          BY <2>1, <1>1, FS_EmptySet
      <3>2. Oldest(E) \in E
        BY <3>1, <1>3, <1>9, OldestIn
      <3> HIDE DEF E
      <3>3. IsFiniteSet(E \ {Oldest(E)}) /\ Cardinality(E \ {Oldest(E)}) = Cardinality(E) - 1
        BY <3>2, <1>9, FS_RemoveElement
      <3> QED
        BY <2>1, <1>1, <1>9, <1>10, <3>3
    <2>2. CASE ~(Cardinality(E) >= MaxOutstanding)
      <3> HIDE DEF E
      <3> QED
        BY <2>2, <1>1, <1>9, <1>10
    <2> QED
      BY <2>1, <2>2
  <1>12. Cardinality(Of(c, Evicted(c))) < PerClient
    <2>1. Of(c, Evicted(c)) \subseteq Of(c, E) /\ Of(c, E) \subseteq E
      BY <1>11 DEF Of
    <2>2. IsFiniteSet(Of(c, E))
      BY <2>1, <1>9, SubsetCounts
    <2>3. /\ Cardinality(Of(c, Evicted(c))) \in Nat /\ Cardinality(Of(c, E)) \in Nat
          /\ Cardinality(Of(c, Evicted(c))) <= Cardinality(Of(c, E))
      BY <2>1, <2>2, SubsetCounts
    <2> HIDE DEF E
    <2> QED
      BY <2>3, <1>1, <1>9
  <1>13. Cardinality(O) >= PerClient => Evicted(c) = P \ {o} /\ o \in O
    <2> HIDE DEF P, O, o, E, limit
    <2> QED
      BY <1>1, <1>5, <1>6, <1>7, <1>8, <1>9, <1>10
  <1> QED
    BY <1>11, <1>12, <1>13

\* The store stays finite and within its limits.
LEMMA StoreStep ==
    ASSUME SignedApplyConstants, TypeOK, IsFiniteSet(store), StoreBound, [Next]_vars
    PROVE  IsFiniteSet(store') /\ StoreBound'
  <1> USE DEF api, root
  <1>0. MaxOutstanding \in Nat \ {0} /\ PerClient \in Nat \ {0}
    BY DEF SignedApplyConstants
  <1>1. ASSUME NEW r \in Requests, Issue(r) PROVE IsFiniteSet(store') /\ StoreBound'
    <2> DEFINE c == ClientOf[r]
               E == Evicted(c)
               x == [nonce |-> [boot |-> boot, token |-> token + 1], client |-> c]
    <2>1. c \in Clients
      BY DEF SignedApplyConstants
    <2>2. IsFiniteSet(E) /\ Cardinality(E) < MaxOutstanding /\ Cardinality(Of(c, E)) < PerClient
      BY <2>1, EvictionMakesRoom
    <2>3. store' = E \cup {x}
      BY <1>1 DEF Issue
    <2>4. IsFiniteSet(store') /\ Cardinality(store') <= Cardinality(E) + 1
          /\ Cardinality(E) \in Nat /\ Cardinality(store') \in Nat
      <3> HIDE DEF E, x
      <3> QED
        BY <2>2, <2>3, AddCounts
    <2>5. Cardinality(store') <= MaxOutstanding
      <3> HIDE DEF E
      <3> QED
        BY <1>0, <2>2, <2>4
    <2>6. ASSUME NEW d \in Clients PROVE Cardinality(Of(d, store')) <= PerClient
      <3>1. CASE d = c
        <4>1. Of(d, store') = Of(c, E) \cup {x}
          BY <3>1, <2>3 DEF Of
        <4>2. IsFiniteSet(Of(c, E)) /\ Cardinality(Of(c, E)) \in Nat
          <5>1. Of(c, E) \subseteq E
            BY DEF Of
          <5> QED
            BY <5>1, <2>2, SubsetCounts
        <4> HIDE DEF E, x
        <4>3. Cardinality(Of(c, E) \cup {x}) <= Cardinality(Of(c, E)) + 1
          BY <4>2, AddCounts
        <4>4. Cardinality(Of(c, E) \cup {x}) \in Nat
          BY <4>2, AddCounts
        <4> HIDE DEF c
        <4> QED
          BY <1>0, <4>1, <4>2, <4>3, <4>4, <2>2
      <3>2. CASE d # c
        <4>1. Of(d, store') \subseteq Of(d, store)
          BY <3>2, <2>3, EvictedSubset DEF Of
        <4>2. Of(d, store) \subseteq store
          BY DEF Of
        <4>3. IsFiniteSet(Of(d, store))
          BY <4>2, SubsetCounts
        <4>4. /\ Cardinality(Of(d, store')) \in Nat /\ Cardinality(Of(d, store)) \in Nat
              /\ Cardinality(Of(d, store')) <= Cardinality(Of(d, store))
          BY <4>1, <4>3, SubsetCounts
        <4> QED
          BY <1>0, <4>4 DEF StoreBound
      <3> QED
        BY <3>1, <3>2
    <2>7. \A d \in Clients : Of(d, store)' = Of(d, store')
      BY DEF Of
    <2> QED
      BY <2>4, <2>5, <2>6, <2>7 DEF StoreBound
  <1>2. ASSUME store' \subseteq store PROVE IsFiniteSet(store') /\ StoreBound'
    <2>1. /\ IsFiniteSet(store') /\ Cardinality(store') \in Nat /\ Cardinality(store) \in Nat
          /\ Cardinality(store') <= Cardinality(store)
      BY <1>2, SubsetCounts
    <2>2. ASSUME NEW d \in Clients PROVE Cardinality(Of(d, store')) <= PerClient
      <3>1. Of(d, store') \subseteq Of(d, store) /\ Of(d, store) \subseteq store
        BY <1>2 DEF Of
      <3>2. IsFiniteSet(Of(d, store))
        BY <3>1, SubsetCounts
      <3>3. /\ Cardinality(Of(d, store')) \in Nat /\ Cardinality(Of(d, store)) \in Nat
            /\ Cardinality(Of(d, store')) <= Cardinality(Of(d, store))
        BY <3>1, <3>2, SubsetCounts
      <3> QED
        BY <1>0, <3>3 DEF StoreBound
    <2>3. Cardinality(store') <= MaxOutstanding
      BY <1>0, <2>1 DEF StoreBound
    <2> QED
      BY <2>1, <2>2, <2>3 DEF StoreBound, Of
  <1>3. (\E r \in Requests : Issue(r)) \/ store' \subseteq store
    <2>1. CASE \E r \in Requests : SubmitInitial(r) \/ StageLocal(r)
      BY <2>1 DEF SubmitInitial, StageLocal
    <2>2. CASE Expire
      BY <2>2 DEF Expire
    <2>3. CASE \E h \in Handlers : \/ \E m \in sent : GuardBegin(h, m)
                                   \/ GuardConsume(h) \/ GuardVerify(h) \/ GuardReject(h)
      BY <2>3 DEF GuardBegin, GuardConsume, GuardVerify, GuardReject, Pruned
    <2>4. CASE \E m \in sent : StageAgain(m)
      BY <2>4 DEF StageAgain
    <2>5. CASE Claim \/ Reject \/ Apply \/ Abort
      BY <2>5 DEF Claim, Reject, Apply, Abort
    <2>6. CASE RestartApi \/ Reboot
      BY <2>6 DEF RestartApi, Reboot
    <2>7. CASE UNCHANGED vars
      BY <2>7 DEF vars
    <2> QED
      BY <2>1, <2>2, <2>3, <2>4, <2>5, <2>6, <2>7 DEF Next
  <1> QED
    BY <1>1, <1>2, <1>3

\* Issuing a nonce to a client that holds its share takes no entry of another client.
LEMMA OthersKeep ==
    ASSUME SignedApplyConstants, TypeOK, IsFiniteSet(store), StoreBound
    PROVE  OthersKeepTheirNonces
  <1> SUFFICES ASSUME NEW r \in Requests, Issue(r),
                      Cardinality(Of(ClientOf[r], Pruned)) >= PerClient,
                      NEW e \in Pruned, e.client # ClientOf[r]
               PROVE  Holds(store', e.nonce)
    BY DEF OthersKeepTheirNonces
  <1>1. ClientOf[r] \in Clients
    BY DEF SignedApplyConstants
  <1>2. /\ Evicted(ClientOf[r]) = Pruned \ {Oldest(Of(ClientOf[r], Pruned))}
        /\ Oldest(Of(ClientOf[r], Pruned)) \in Of(ClientOf[r], Pruned)
    BY <1>1, EvictionMakesRoom
  <1>3. e # Oldest(Of(ClientOf[r], Pruned))
    BY <1>2 DEF Of
  <1>4. e \in store'
    BY <1>2, <1>3 DEF Issue
  <1> QED
    BY <1>4 DEF Holds

-----------------------------------------------------------------------------
(* The theorems *)

LEMMA SignedInit == ASSUME SignedApplyConstants, Init PROVE SignedInv
  <1>1. TypeOK
    BY DEF Init, TypeOK, Idle, SignedApplyConstants
  <1>2. Unspent /\ Checked /\ Marked /\ AppliedOnce /\ AppliedByTrustedKey
    BY DEF Init, Unspent, Checked, Marked, AppliedOnce, AppliedByTrustedKey
  <1>3. IsFiniteSet(store) /\ Cardinality(store) = 0
    BY FS_EmptySet DEF Init
  <1>4. \A c \in Clients : Of(c, store) = {}
    BY DEF Init, Of
  <1>5. StoreBound
    <2>1. \A c \in Clients : Cardinality(Of(c, store)) = 0
      BY <1>4, FS_EmptySet
    <2>2. MaxOutstanding >= 0 /\ PerClient >= 0
      BY DEF SignedApplyConstants
    <2> QED
      BY <1>3, <2>1, <2>2 DEF StoreBound
  <1> QED
    BY <1>1, <1>2, <1>3, <1>5 DEF SignedInv

LEMMA SignedInvStep ==
    ASSUME SignedApplyConstants, SignedInv, [Next]_vars
    PROVE  SignedInv' /\ NonceAcceptedOnce /\ OthersKeepTheirNonces
  <1>1. StepInv' /\ NonceAcceptedOnce
    BY SignedStep DEF SignedInv, StepInv
  <1>2. IsFiniteSet(store') /\ StoreBound'
    BY StoreStep DEF SignedInv
  <1>3. OthersKeepTheirNonces
    BY OthersKeep DEF SignedInv
  <1> QED
    BY <1>1, <1>2, <1>3 DEF SignedInv, StepInv

\* A signed request takes effect at most once and only under a key that the replaced
\* configuration trusts, and the nonce store stays within its limits (auth.py,
\* _verify_staged_authorization, consume_authorization_nonce).
THEOREM SignedApplySafe ==
    ASSUME SignedApplyConstants
    PROVE  Spec => [](TypeOK /\ AppliedOnce /\ AppliedByTrustedKey /\ StoreBound)
  <1>1. Init => SignedInv
    BY SignedInit
  <1>2. SignedInv /\ [Next]_vars => SignedInv'
    BY SignedInvStep
  <1>3. SignedInv => TypeOK /\ AppliedOnce /\ AppliedByTrustedKey /\ StoreBound
    BY DEF SignedInv
  <1> QED
    BY <1>1, <1>2, <1>3, PTL DEF Spec

\* The guard lets a nonce pass once, and issuing one takes no fresh nonce from a client
\* other than the one that is over its limit (NonceStore.issue, NonceStore.consume).
THEOREM NonceStepsAreSound ==
    ASSUME SignedApplyConstants
    PROVE  Spec => [][NonceAcceptedOnce /\ OthersKeepTheirNonces]_vars
  <1>1. Init => SignedInv
    BY SignedInit
  <1>2. SignedInv /\ [Next]_vars => SignedInv'
    BY SignedInvStep
  <1>3. SignedInv /\ [Next]_vars => [NonceAcceptedOnce /\ OthersKeepTheirNonces]_vars
    BY SignedInvStep
  <1> QED
    BY <1>1, <1>2, <1>3, PTL DEF Spec

-----------------------------------------------------------------------------
(* Paths of nested tables, and their prefixes *)

\* A path is a sequence of keys, at most MaxDepth long and never empty.
LEMMA PathsAreSeqs ==
    ASSUME Upd!PartialConstants, NEW p \in Upd!Paths
    PROVE  p \in Seq(TableKeys) /\ Len(p) \in Nat \ {0} /\ Len(p) <= MaxDepth
  <1>1. PICK m \in 0..MaxDepth : p \in [1..m -> TableKeys]
    BY DEF Upd!Paths, Upd!BoundedSeq, Upd!SeqOf
  <1>2. m \in Nat /\ p \in Seq(TableKeys) /\ Len(p) = m
    BY <1>1 DEF Upd!PartialConstants
  <1>3. p # <<>>
    BY DEF Upd!Paths
  <1> QED
    BY <1>2, <1>3, <1>1

\* A prefix agrees with the longer sequence as far as it goes.
LEMMA PrefixIs ==
    ASSUME NEW K, NEW s \in Seq(K), NEW t \in Seq(K)
    PROVE  Upd!IsPrefix(s, t) <=> Len(s) <= Len(t) /\ \A i \in 1..Len(s) : s[i] = t[i]
  <1>1. ASSUME Len(s) <= Len(t) PROVE
          /\ SubSeq(s, 1, Len(s)) = [i \in 1..Len(s) |-> s[i]]
          /\ SubSeq(t, 1, Len(s)) = [i \in 1..Len(s) |-> t[i]]
    BY <1>1
  <1> QED
    BY <1>1 DEF Upd!IsPrefix

\* Two prefixes of a path are comparable, and the prefix order is transitive.
LEMMA PrefixFacts ==
    ASSUME Upd!PartialConstants, NEW r \in Upd!Paths, NEW p \in Upd!Paths
    PROVE  /\ Upd!IsPrefix(p, p)
           /\ Upd!IsStrictPrefix(r, p) => Len(r) \in 1 .. Len(p) - 1
           /\ Upd!IsPrefix(r, p) => r = SubSeq(p, 1, Len(r))
           /\ \A x \in Upd!Paths : Upd!IsPrefix(x, r) /\ Upd!IsPrefix(r, p) => Upd!IsPrefix(x, p)
           /\ \A x \in Upd!Paths : Upd!IsPrefix(x, p) /\ Upd!IsPrefix(r, p)
                               => Upd!IsPrefix(x, r) \/ Upd!IsPrefix(r, x)
  <1>1. \A x \in Upd!Paths : x \in Seq(TableKeys) /\ Len(x) \in Nat \ {0}
    BY PathsAreSeqs
  <1>2. \A x, y \in Upd!Paths :
          Upd!IsPrefix(x, y) <=> Len(x) <= Len(y) /\ \A i \in 1..Len(x) : x[i] = y[i]
    BY <1>1, PrefixIs
  <1>3. Upd!IsPrefix(p, p)
    BY <1>1, <1>2
  <1>4. \A x \in Upd!Paths : Upd!IsPrefix(x, r) /\ Upd!IsPrefix(r, p) => Upd!IsPrefix(x, p)
    BY <1>1, <1>2
  <1>5. \A x \in Upd!Paths : Upd!IsPrefix(x, p) /\ Upd!IsPrefix(r, p)
                            => Upd!IsPrefix(x, r) \/ Upd!IsPrefix(r, x)
    <2> SUFFICES ASSUME NEW x \in Upd!Paths, Upd!IsPrefix(x, p), Upd!IsPrefix(r, p)
                 PROVE  Upd!IsPrefix(x, r) \/ Upd!IsPrefix(r, x)
      OBVIOUS
    <2>1. CASE Len(x) <= Len(r)
      BY <1>1, <1>2, <2>1
    <2>2. CASE Len(r) <= Len(x)
      BY <1>1, <1>2, <2>2
    <2> QED
      BY <1>1, <2>1, <2>2
  <1>6. Upd!IsPrefix(r, p) => r = SubSeq(p, 1, Len(r))
    <2> SUFFICES ASSUME Upd!IsPrefix(r, p) PROVE r = SubSeq(p, 1, Len(r))
      OBVIOUS
    <2>1. SubSeq(r, 1, Len(r)) = SubSeq(p, 1, Len(r))
      BY DEF Upd!IsPrefix
    <2>2. SubSeq(r, 1, Len(r)) = r
      BY <1>1
    <2> QED
      BY <2>1, <2>2
  <1>7. Upd!IsStrictPrefix(r, p) => Len(r) \in 1 .. Len(p) - 1
    <2> SUFFICES ASSUME Upd!IsPrefix(r, p), r # p PROVE Len(r) # Len(p)
      BY <1>1, <1>2 DEF Upd!IsStrictPrefix
    <2>1. SubSeq(p, 1, Len(p)) = p
      BY <1>1
    <2> QED
      BY <1>6, <2>1
  <1> QED
    BY <1>3, <1>4, <1>5, <1>6, <1>7

\* Every initial part of a path is a path.
LEMMA PrefixOfPath ==
    ASSUME Upd!PartialConstants, NEW p \in Upd!Paths, NEW n \in 1 .. Len(p)
    PROVE  /\ SubSeq(p, 1, n) \in Upd!Paths /\ Len(SubSeq(p, 1, n)) = n
           /\ Upd!IsPrefix(SubSeq(p, 1, n), p)
           /\ n < Len(p) => SubSeq(p, 1, n) # p
           /\ n = Len(p) => SubSeq(p, 1, n) = p
  <1>1. p \in Seq(TableKeys) /\ Len(p) \in Nat /\ Len(p) <= MaxDepth /\ MaxDepth \in Nat
    BY PathsAreSeqs DEF Upd!PartialConstants
  <1> DEFINE s == SubSeq(p, 1, n)
  <1>2. s \in Seq(TableKeys) /\ Len(s) = n /\ \A i \in 1..n : s[i] = p[i]
    BY <1>1
  <1>6. n = Len(p) => s = p
    BY <1>1
  <1> HIDE DEF s
  <1>3. s \in [1..n -> TableKeys] /\ n \in 0..MaxDepth /\ s # <<>>
    BY <1>1, <1>2
  <1>4. s \in Upd!Paths
    BY <1>3 DEF Upd!Paths, Upd!BoundedSeq, Upd!SeqOf
  <1>5. Upd!IsPrefix(s, p)
    <2>1. Len(s) <= Len(p) /\ \A i \in 1..Len(s) : s[i] = p[i]
      BY <1>1, <1>2
    <2> QED
      BY <1>1, <1>2, <2>1, PrefixIs
  <1>7. n < Len(p) => s # p
    BY <1>1, <1>2
  <1> QED
    BY <1>2, <1>4, <1>5, <1>6, <1>7 DEF s

\* There are finitely many paths: a path is determined by its graph.
LEMMA FinitePaths == ASSUME Upd!PartialConstants PROVE IsFiniteSet(Upd!Paths)
  <1>1. ASSUME NEW m \in 0..MaxDepth PROVE IsFiniteSet([1..m -> TableKeys])
    <2> DEFINE F == [1..m -> TableKeys]
               G == SUBSET ((1..m) \X TableKeys)
               graph == [f \in F |-> {<<i, f[i]>> : i \in 1..m}]
    <2>1. IsFiniteSet(G)
      <3>1. IsFiniteSet(1..m)
        BY FS_Interval DEF Upd!PartialConstants
      <3>2. IsFiniteSet(TableKeys)
        BY DEF Upd!PartialConstants, Upd!IsFiniteSet, IsFiniteSet
      <3> QED
        BY <3>1, <3>2, FS_Product, FS_SUBSET
    <2>2. graph \in [F -> G]
      OBVIOUS
    <2>3. ASSUME NEW f \in F, NEW g \in F, graph[f] = graph[g] PROVE f = g
      <3>1. ASSUME NEW i \in 1..m PROVE f[i] = g[i]
        <4>1. <<i, f[i]>> \in graph[g]
          BY <2>3
        <4> QED
          BY <4>1
      <3> QED
        BY <3>1
    <2> HIDE DEF F, G, graph
    <2>4. graph \in Injection(F, G)
      BY <2>2, <2>3 DEF Injection, IsInjective
    <2> QED
      BY <2>1, <2>4, FS_Injection DEF F, ExistsInjection
  <1>2. IsFiniteSet({[1..m -> TableKeys] : m \in 0..MaxDepth})
    <2> DEFINE S == 0..MaxDepth
               f == [m \in S |-> [1..m -> TableKeys]]
    <2>1. IsFiniteSet(S)
      BY FS_Interval DEF Upd!PartialConstants
    <2>2. f \in Surjection(S, {[1..m -> TableKeys] : m \in S})
      BY DEF Surjection
    <2> QED
      BY <2>1, <2>2, FS_Surjection
  <1>3. IsFiniteSet(Upd!BoundedSeq(TableKeys, MaxDepth))
    BY <1>1, <1>2, FS_UNION DEF Upd!BoundedSeq, Upd!SeqOf
  <1> QED
    BY <1>3, FS_Difference DEF Upd!Paths

-----------------------------------------------------------------------------
(* _deep_merge *)

\* A nested table
TableOK(t) == t = [p \in DOMAIN t |-> t[p]] /\ DOMAIN t \subseteq Upd!Paths /\ Upd!WellFormed(t)

\* The items that end the recursion, and the table after the turns of the items in s
Ends(t, q, s) == {r \in s : ~ (Upd!IsTable(q, r) /\ Upd!IsTable(t, r))}
Reaches(t, q, s, p) == \E r \in Ends(t, q, s) : Upd!IsPrefix(r, p)
AfterPaths(t, q, s) ==
    {p \in DOMAIN t : ~ Reaches(t, q, s, p)} \cup
    {p \in DOMAIN q : \E r \in Ends(t, q, s) : q[r] # "null" /\ Upd!IsPrefix(r, p)}
After(t, q, s) ==
    [p \in AfterPaths(t, q, s) |-> IF Reaches(t, q, s, p) THEN q[p] ELSE t[p]]

\* Above every path of a nested table there are tables only.
LEMMA TablesAbove ==
    ASSUME Upd!PartialConstants, NEW t, TableOK(t), NEW p \in DOMAIN t, NEW r \in Upd!Paths,
           Upd!IsStrictPrefix(r, p)
    PROVE  Upd!IsTable(t, r)
  <1>1. p \in Upd!Paths /\ Upd!IsPrefix(r, p)
    BY DEF TableOK, Upd!IsStrictPrefix
  <1>2. Len(r) \in 1 .. Len(p) - 1 /\ r = SubSeq(p, 1, Len(r))
    BY <1>1, PrefixFacts
  <1> QED
    BY <1>2 DEF TableOK, Upd!WellFormed

\* No item that ends the recursion is below another.
LEMMA EndsApart ==
    ASSUME Upd!PartialConstants, NEW t, NEW q, TableOK(q), NEW r \in Ends(t, q, Upd!Items(t, q)),
           NEW x \in Upd!Items(t, q), Upd!IsPrefix(r, x)
    PROVE  r = x
  <1>1. r \in DOMAIN q /\ x \in DOMAIN q /\ r \in Upd!Paths
    BY DEF Ends, Upd!Items, TableOK
  <1>2. SUFFICES ASSUME r # x PROVE FALSE
    OBVIOUS
  <1>3. Upd!IsStrictPrefix(r, x)
    BY <1>2 DEF Upd!IsStrictPrefix
  <1>4. Upd!IsTable(t, r)
    BY <1>1, <1>3 DEF Upd!Items
  <1>5. Upd!IsTable(q, r)
    BY <1>1, <1>3, TablesAbove
  <1> QED
    BY <1>4, <1>5 DEF Ends

\* A turn of the loop adds its item to those the table reflects, whichever items went before.
LEMMA OneTurn ==
    ASSUME Upd!PartialConstants, NEW t, NEW q, TableOK(t), TableOK(q),
           NEW s \in SUBSET Upd!Items(t, q), NEW x \in s
    PROVE  Upd!merge_item(After(t, q, s \ {x}), q, x) = After(t, q, s)
  <1> DEFINE C == Ends(t, q, s \ {x})
             M == After(t, q, s \ {x})
             MP == AfterPaths(t, q, s \ {x})
  <1> SUFFICES Upd!merge_item(M, q, x) = After(t, q, s)
    OBVIOUS
  <1>0. /\ x \in Upd!Items(t, q) /\ x \in DOMAIN q /\ x \in Upd!Paths
        /\ DOMAIN q \subseteq Upd!Paths /\ DOMAIN t \subseteq Upd!Paths
        /\ C \subseteq Upd!Items(t, q) /\ C \subseteq DOMAIN q /\ C \subseteq Upd!Paths
    BY DEF TableOK, Upd!Items, Ends
  <1>1. \A r \in C : ~ Upd!IsPrefix(r, x)
    <2> SUFFICES ASSUME NEW r \in C, Upd!IsPrefix(r, x) PROVE FALSE
      OBVIOUS
    <2>1. r \in Ends(t, q, Upd!Items(t, q)) /\ r # x
      BY DEF Ends
    <2> QED
      BY <1>0, <2>1, EndsApart
  <1>2. CASE Upd!IsTable(q, x) /\ Upd!IsTable(t, x)
    <2>1. Ends(t, q, s) = C
      BY <1>2 DEF Ends
    <2>2. After(t, q, s) = M
      BY <2>1 DEF After, AfterPaths, Reaches
    <2>3. ~ Reaches(t, q, s \ {x}, x)
      BY <1>1 DEF Reaches
    <2>4. x \in MP
      BY <1>2, <2>3 DEF AfterPaths, Upd!IsTable
    <2>5. x \in DOMAIN M /\ M[x] = t[x]
      BY <2>3, <2>4 DEF After
    <2>6. Upd!IsTable(M, x)
      BY <1>2, <2>5 DEF Upd!IsTable
    <2> HIDE DEF M
    <2>7. q[x] # "null"
      BY <1>2 DEF Upd!IsTable
    <2>8. Upd!merge_item(M, q, x) = M
      BY <1>2, <2>6, <2>7 DEF Upd!merge_item
    <2> QED
      BY <2>2, <2>8
  <1>3. CASE ~ (Upd!IsTable(q, x) /\ Upd!IsTable(t, x))
    <2>1. Ends(t, q, s) = C \cup {x}
      BY <1>3 DEF Ends
    <2>2. \A p : Reaches(t, q, s, p) <=> Reaches(t, q, s \ {x}, p) \/ Upd!IsPrefix(x, p)
      BY <2>1 DEF Reaches
    <2>3. ASSUME NEW p \in Upd!Paths, Upd!IsPrefix(x, p) PROVE ~ Reaches(t, q, s \ {x}, p)
      <3> SUFFICES ASSUME NEW r \in C, Upd!IsPrefix(r, p) PROVE FALSE
        BY DEF Reaches
      <3>1. Upd!IsPrefix(x, r)
        BY <1>0, <1>1, <2>3, PrefixFacts
      <3>2. x \in Ends(t, q, Upd!Items(t, q)) /\ r \in Upd!Items(t, q)
        BY <1>0, <1>3 DEF Ends
      <3>3. x = r
        BY <3>1, <3>2, EndsApart
      <3> QED
        BY <3>3 DEF Ends
    <2>4. /\ DOMAIN M = MP
          /\ \A p \in MP : M[p] = IF Reaches(t, q, s \ {x}, p) THEN q[p] ELSE t[p]
      BY DEF After
    <2>5. MP \subseteq Upd!Paths
      BY <1>0 DEF AfterPaths
    <2>6. CASE q[x] = "null"
      <3>1. Upd!merge_item(M, q, x) = [p \in MP \ {p \in MP : Upd!IsPrefix(x, p)} |-> M[p]]
        BY <2>4, <2>6 DEF Upd!merge_item, Upd!Without, Upd!Below
      <3>2. AfterPaths(t, q, s) = MP \ {p \in MP : Upd!IsPrefix(x, p)}
        <4>1. ASSUME NEW p \in AfterPaths(t, q, s) PROVE p \in MP /\ ~ Upd!IsPrefix(x, p)
          <5>1. CASE p \in DOMAIN t /\ ~ Reaches(t, q, s, p)
            BY <2>2, <5>1 DEF AfterPaths
          <5>2. CASE p \in DOMAIN q /\ \E r \in Ends(t, q, s) : q[r] # "null" /\ Upd!IsPrefix(r, p)
            <6>1. PICK r \in C : q[r] # "null" /\ Upd!IsPrefix(r, p)
              BY <2>1, <2>6, <5>2
            <6>2. Reaches(t, q, s \ {x}, p)
              BY <6>1 DEF Reaches
            <6>3. ~ Upd!IsPrefix(x, p)
              BY <1>0, <2>3, <5>2, <6>2
            <6> QED
              BY <5>2, <6>1, <6>3 DEF AfterPaths
          <5> QED
            BY <5>1, <5>2 DEF AfterPaths
        <4>2. ASSUME NEW p \in MP, ~ Upd!IsPrefix(x, p) PROVE p \in AfterPaths(t, q, s)
          <5>1. CASE p \in DOMAIN t /\ ~ Reaches(t, q, s \ {x}, p)
            BY <2>2, <4>2, <5>1 DEF AfterPaths
          <5>2. CASE p \in DOMAIN q /\ \E r \in C : q[r] # "null" /\ Upd!IsPrefix(r, p)
            BY <2>1, <5>2 DEF AfterPaths
          <5> QED
            BY <5>1, <5>2 DEF AfterPaths
        <4> QED
          BY <4>1, <4>2
      <3>3. \A p \in AfterPaths(t, q, s) :
              M[p] = IF Reaches(t, q, s, p) THEN q[p] ELSE t[p]
        BY <2>2, <2>4, <3>2
      <3> DEFINE AP == AfterPaths(t, q, s)
      <3> HIDE DEF M, MP, AP
      <3>4. Upd!merge_item(M, q, x) = [p \in AP |-> M[p]]
        BY <3>1, <3>2 DEF AP
      <3>5. After(t, q, s) = [p \in AP |-> IF Reaches(t, q, s, p) THEN q[p] ELSE t[p]]
        BY DEF After, AP
      <3>6. \A p \in AP : M[p] = IF Reaches(t, q, s, p) THEN q[p] ELSE t[p]
        BY <3>3 DEF AP
      <3> QED
        BY <3>4, <3>5, <3>6
    <2>7. CASE q[x] # "null"
      <3>1. ~ (Upd!IsTable(q, x) /\ Upd!IsTable(M, x))
        <4> SUFFICES ASSUME Upd!IsTable(M, x) PROVE Upd!IsTable(t, x)
          BY <1>3
        <4>1. x \in MP /\ ~ Reaches(t, q, s \ {x}, x)
          BY <1>1, <2>4 DEF Upd!IsTable, Reaches
        <4>2. x \in DOMAIN t
          BY <4>1 DEF AfterPaths, Reaches
        <4>3. M[x] = t[x]
          BY <2>4, <4>1
        <4> QED
          BY <4>2, <4>3 DEF Upd!IsTable
      <3>2. Upd!merge_item(M, q, x) = Upd!Grafted(M, q, x)
        BY <2>7, <3>1 DEF Upd!merge_item
      <3> DEFINE B == Upd!Below(q, x)
                 kept == Upd!Without(M, x)
                 KP == MP \ {p \in MP : Upd!IsPrefix(x, p)}
      <3>3. DOMAIN kept = KP /\ \A p \in KP : kept[p] = M[p]
        BY <2>4 DEF Upd!Without, Upd!Below
      <3>4. Upd!Grafted(M, q, x) = [p \in KP \cup B |-> IF p \in B THEN q[p] ELSE kept[p]]
        BY <3>3 DEF Upd!Grafted
      <3>5. B = {p \in DOMAIN q : Upd!IsPrefix(x, p)}
        BY DEF Upd!Below
      <3>6. AfterPaths(t, q, s) = KP \cup B
        <4>1. ASSUME NEW p \in AfterPaths(t, q, s) PROVE p \in KP \cup B
          <5>1. CASE p \in DOMAIN t /\ ~ Reaches(t, q, s, p)
            BY <2>2, <5>1 DEF AfterPaths
          <5>2. CASE p \in DOMAIN q /\ Upd!IsPrefix(x, p)
            BY <3>5, <5>2
          <5>3. CASE ~ Upd!IsPrefix(x, p) /\ p \in DOMAIN q
                     /\ \E r \in Ends(t, q, s) : q[r] # "null" /\ Upd!IsPrefix(r, p)
            BY <2>1, <5>3 DEF AfterPaths
          <5> QED
            BY <5>1, <5>2, <5>3 DEF AfterPaths
        <4>2. ASSUME NEW p \in KP PROVE p \in AfterPaths(t, q, s)
          <5>1. CASE p \in DOMAIN t /\ ~ Reaches(t, q, s \ {x}, p)
            BY <2>2, <4>2, <5>1 DEF AfterPaths
          <5>2. CASE p \in DOMAIN q /\ \E r \in C : q[r] # "null" /\ Upd!IsPrefix(r, p)
            BY <2>1, <5>2 DEF AfterPaths
          <5> QED
            BY <4>2, <5>1, <5>2 DEF AfterPaths
        <4>3. ASSUME NEW p \in B PROVE p \in AfterPaths(t, q, s)
          BY <2>1, <2>7, <3>5 DEF AfterPaths
        <4> QED
          BY <4>1, <4>2, <4>3
      <3>7. ASSUME NEW p \in AfterPaths(t, q, s)
            PROVE  (IF p \in B THEN q[p] ELSE kept[p])
                   = IF Reaches(t, q, s, p) THEN q[p] ELSE t[p]
        <4>1. CASE p \in B
          BY <2>2, <3>5, <4>1
        <4>2. CASE p \notin B
          <5>1. p \in KP /\ p \in MP /\ ~ Upd!IsPrefix(x, p)
            BY <3>6, <3>7, <4>2
          <5>2. kept[p] = IF Reaches(t, q, s \ {x}, p) THEN q[p] ELSE t[p]
            BY <2>4, <3>3, <5>1
          <5> QED
            BY <2>2, <4>2, <5>1, <5>2
        <4> QED
          BY <4>1, <4>2
      <3> DEFINE AP == AfterPaths(t, q, s)
      <3> HIDE DEF M, MP, B, kept, KP, AP
      <3>8. Upd!merge_item(M, q, x) = [p \in AP |-> IF p \in B THEN q[p] ELSE kept[p]]
        BY <3>2, <3>4, <3>6 DEF AP
      <3>9. After(t, q, s) = [p \in AP |-> IF Reaches(t, q, s, p) THEN q[p] ELSE t[p]]
        BY DEF After, AP
      <3>10. \A p \in AP : (IF p \in B THEN q[p] ELSE kept[p])
                            = IF Reaches(t, q, s, p) THEN q[p] ELSE t[p]
        BY <3>7 DEF AP
      <3> QED
        BY <3>8, <3>9, <3>10
    <2> QED
      BY <2>6, <2>7
  <1> QED
    BY <1>2, <1>3

\* The turns of the loop, taken in any order, leave the table After describes.
LEMMA AllTurns ==
    ASSUME Upd!PartialConstants, NEW t, NEW q, TableOK(t), TableOK(q)
    PROVE  Upd!deep_merge(t, q) = After(t, q, Upd!Items(t, q))
  <1> DEFINE I == Upd!Items(t, q)
             x(s) == CHOOSE p \in s : TRUE
             Loop(g) == g = [s \in SUBSET I |->
                                IF s = {} THEN t ELSE Upd!merge_item(g[s \ {x(s)}], q, x(s))]
             iter == CHOOSE g : Loop(g)
             A == [s \in SUBSET I |-> After(t, q, s)]
  <1>1. Upd!deep_merge(t, q) = iter[I]
    BY DEF Upd!deep_merge, Upd!FoldSet, Upd!MapThenFoldSet
  <1>2. IsFiniteSet(I)
    <2>1. IsFiniteSet(Upd!Paths)
      BY FinitePaths
    <2>2. I \subseteq Upd!Paths
      BY DEF Upd!Items, TableOK
    <2> QED
      BY <2>1, <2>2, FS_Subset
  <1>3. After(t, q, {}) = t
    <2>1. AfterPaths(t, q, {}) = DOMAIN t /\ \A p : ~ Reaches(t, q, {}, p)
      BY DEF AfterPaths, Reaches, Ends
    <2> QED
      BY <2>1 DEF After, TableOK
  <1>4. \A s \in SUBSET I : s # {} => x(s) \in s /\ s \ {x(s)} \in SUBSET I
    OBVIOUS
  <1>5. \A s \in SUBSET I : s # {} => Upd!merge_item(A[s \ {x(s)}], q, x(s)) = A[s]
    <2> SUFFICES ASSUME NEW s \in SUBSET I, s # {}
                 PROVE  Upd!merge_item(A[s \ {x(s)}], q, x(s)) = A[s]
      OBVIOUS
    <2>1. x(s) \in s /\ s \ {x(s)} \in SUBSET I /\ s \in SUBSET Upd!Items(t, q)
      BY <1>4
    <2> HIDE DEF x
    <2>2. Upd!merge_item(After(t, q, s \ {x(s)}), q, x(s)) = After(t, q, s)
      BY <2>1, OneTurn
    <2> QED
      BY <2>1, <2>2
  <1> HIDE DEF x, I
  <1>6. Loop(A)
    BY <1>3, <1>5
  <1> HIDE DEF A
  <1>7. Loop(iter)
    BY <1>6
  <1> HIDE DEF iter
  <1>8. \A s \in SUBSET I : iter[s] = A[s]
    <2> DEFINE Bad == {s \in SUBSET I : iter[s] # A[s]}
               Sizes == {Cardinality(s) : s \in Bad}
    <2> SUFFICES ASSUME Bad # {} PROVE FALSE
      OBVIOUS
    <2>1. \A s \in SUBSET I : IsFiniteSet(s) /\ Cardinality(s) \in Nat
      BY <1>2, FS_Subset, FS_CardinalityType
    <2>2. Sizes \subseteq Nat /\ Sizes # {}
      BY <2>1
    <2>3. PICK n \in Sizes : \A m \in Sizes : n <= m
      BY <2>2, LeastNatural
    <2>4. PICK s \in Bad : Cardinality(s) = n
      BY <2>3
    <2>5. s # {}
      BY <1>6, <1>7, <2>4
    <2>6. x(s) \in s /\ s \ {x(s)} \in SUBSET I
      BY <1>4, <2>4, <2>5
    <2>7. Cardinality(s \ {x(s)}) = Cardinality(s) - 1
      BY <2>1, <2>6, FS_RemoveElement
    <2>8. s \ {x(s)} \notin Bad
      BY <2>1, <2>2, <2>3, <2>4, <2>6, <2>7
    <2>9. iter[s \ {x(s)}] = A[s \ {x(s)}]
      BY <2>6, <2>8
    <2>10. iter[s] = A[s]
      BY <1>6, <1>7, <2>4, <2>5, <2>9
    <2> QED
      BY <2>4, <2>10
  <1> QED
    BY <1>1, <1>8 DEF A, I

\* The first item of the patch on the way to a path ends the recursion, or there is none
\* and the path is a table on both sides.
LEMMA FirstEnd ==
    ASSUME Upd!PartialConstants, NEW t, NEW q, TableOK(t), TableOK(q), NEW p \in DOMAIN q
    PROVE  Reaches(t, q, Upd!Items(t, q), p) \/ (Upd!IsTable(q, p) /\ Upd!IsTable(t, p))
  <1> DEFINE At(n) == SubSeq(p, 1, n)
             Both(r) == Upd!IsTable(q, r) /\ Upd!IsTable(t, r)
             N == {n \in 1 .. Len(p) : ~ Both(At(n))}
  <1>1. p \in Upd!Paths /\ Len(p) \in Nat \ {0}
    BY PathsAreSeqs DEF TableOK
  <1>2. At(Len(p)) = p
    BY <1>1, PrefixOfPath
  <1>3. CASE N = {}
    <2>1. Both(At(Len(p)))
      BY <1>1, <1>3
    <2> HIDE DEF At
    <2> QED
      BY <1>2, <2>1
  <1>4. CASE N # {}
    <2>1. N \in SUBSET Nat
      BY <1>1
    <2> HIDE DEF N
    <2>2. PICK n \in N : \A m \in N : n <= m
      BY <1>4, <2>1, LeastNatural
    <2>3. n \in 1 .. Len(p) /\ ~ Both(At(n)) /\ \A m \in 1 .. n - 1 : Both(At(m))
      BY <1>1, <2>2 DEF N
    <2> DEFINE r == At(n)
    <2>4. r \in Upd!Paths /\ Upd!IsPrefix(r, p) /\ Len(r) = n
      BY <1>1, <2>3, PrefixOfPath
    <2>5. r \in DOMAIN q
      <3>1. CASE r = p
        BY <3>1
      <3>2. CASE r # p
        <4>1. Upd!IsStrictPrefix(r, p)
          BY <2>4, <3>2 DEF Upd!IsStrictPrefix
        <4>2. Upd!IsTable(q, r)
          BY <2>4, <4>1, TablesAbove
        <4> QED
          BY <4>2 DEF Upd!IsTable
      <3> QED
        BY <3>1, <3>2
    <2> HIDE DEF r
    <2>6. ASSUME NEW x \in DOMAIN q, Upd!IsStrictPrefix(x, r) PROVE Upd!IsTable(t, x)
      <3>1. x \in Upd!Paths /\ Upd!IsPrefix(x, r)
        BY <2>6 DEF TableOK, Upd!IsStrictPrefix
      <3>2. Len(x) \in 1 .. Len(r) - 1
        BY <2>4, <2>6, <3>1, PrefixFacts
      <3>3. Upd!IsPrefix(x, p)
        BY <1>1, <2>4, <3>1, PrefixFacts
      <3>4. x = At(Len(x))
        BY <1>1, <3>1, <3>3, PrefixFacts
      <3>5. Both(At(Len(x)))
        BY <2>3, <2>4, <3>2
      <3> QED
        BY <3>4, <3>5
    <2>7. r \in Upd!Items(t, q)
      BY <2>5, <2>6 DEF Upd!Items
    <2>8. r \in Ends(t, q, Upd!Items(t, q))
      BY <2>3, <2>7 DEF Ends, r
    <2> QED
      BY <2>4, <2>8 DEF Reaches
  <1> QED
    BY <1>3, <1>4

\* Without a null left over, that is the merge path by path.
LEMMA MergesByPath ==
    ASSUME Upd!PartialConstants, NEW t, NEW q, TableOK(t), TableOK(q),
           \A p \in DOMAIN Upd!deep_merge(t, q) : Upd!deep_merge(t, q)[p] # "null"
    PROVE  Upd!deep_merge(t, q) = Upd!Merged(t, q)
  <1> DEFINE I == Upd!Items(t, q)
             E == Ends(t, q, I)
             R(p) == Reaches(t, q, I, p)
             P == AfterPaths(t, q, I)
  <1>0. DOMAIN t \subseteq Upd!Paths /\ DOMAIN q \subseteq Upd!Paths /\ E \subseteq DOMAIN q
    BY DEF TableOK, Ends, Upd!Items
  <1>1. Upd!deep_merge(t, q) = [p \in P |-> IF R(p) THEN q[p] ELSE t[p]]
    BY AllTurns DEF After
  <1>2. \A p \in P : R(p) => q[p] # "null"
    BY <1>1
  <1>3. \A r \in E : ~ (Upd!IsTable(q, r) /\ Upd!IsTable(t, r))
    BY DEF Ends
  <1>4. \A p \in DOMAIN q : R(p) \/ (Upd!IsTable(q, p) /\ Upd!IsTable(t, p))
    BY FirstEnd
  <1>5. \A p : R(p) <=> \E r \in E : Upd!IsPrefix(r, p)
    BY DEF Reaches
  <1>6. /\ \A p \in DOMAIN q, r \in Upd!Paths : Upd!IsPrefix(r, p) /\ r # p => Upd!IsTable(q, r)
        /\ \A p \in DOMAIN t, r \in Upd!Paths : Upd!IsPrefix(r, p) /\ r # p => Upd!IsTable(t, r)
    BY TablesAbove DEF Upd!IsStrictPrefix
  <1>7. P = {p \in DOMAIN t : ~ R(p)} \cup
            {p \in DOMAIN q : \E r \in E : q[r] # "null" /\ Upd!IsPrefix(r, p)}
    BY DEF AfterPaths
  <1>8. \A x, y, z \in Upd!Paths : Upd!IsPrefix(x, y) /\ Upd!IsPrefix(y, z) => Upd!IsPrefix(x, z)
    BY PrefixFacts
  <1>9. \A p \in Upd!Paths : Upd!IsPrefix(p, p)
    BY PrefixFacts
  <1> HIDE DEF I, E, R, P
  <1>10. ASSUME NEW p \in P PROVE p \in Upd!MergedPaths(t, q)
    <2>1. CASE p \in DOMAIN t /\ ~ R(p)
      <3>1. ASSUME NEW r \in DOMAIN q, Upd!IsPrefix(r, p), q[r] # "table" PROVE FALSE
        <4>1. R(r)
          BY <1>4, <3>1 DEF Upd!IsTable
        <4>2. PICK x \in E : Upd!IsPrefix(x, r)
          BY <1>5, <4>1
        <4>3. Upd!IsPrefix(x, p)
          BY <1>0, <1>8, <2>1, <3>1, <4>2
        <4> QED
          BY <1>5, <2>1, <4>3
      <3>2. ~ Upd!Hidden(q, p)
        BY <3>1 DEF Upd!Hidden
      <3> QED
        BY <2>1, <3>2 DEF Upd!MergedPaths
    <2>2. CASE p \in DOMAIN q /\ \E r \in E : q[r] # "null" /\ Upd!IsPrefix(r, p)
      <3>1. q[p] # "null"
        BY <1>2, <1>5, <2>2
      <3> QED
        BY <2>2, <3>1 DEF Upd!MergedPaths
    <2> QED
      BY <1>7, <2>1, <2>2
  <1>11. ASSUME NEW p \in Upd!MergedPaths(t, q) PROVE p \in P
    <2>1. CASE p \in DOMAIN q /\ q[p] # "null"
      <3>1. CASE R(p)
        <4>1. PICK r \in E : Upd!IsPrefix(r, p)
          BY <1>5, <3>1
        <4>2. q[r] # "null"
          BY <1>0, <1>6, <2>1, <4>1 DEF Upd!IsTable
        <4> QED
          BY <1>7, <2>1, <4>1, <4>2
      <3>2. CASE ~ R(p)
        BY <1>4, <1>7, <2>1, <3>2 DEF Upd!IsTable
      <3> QED
        BY <3>1, <3>2
    <2>2. CASE p \in DOMAIN t /\ ~ Upd!Hidden(q, p)
      <3>1. CASE R(p)
        <4>1. PICK r \in E : Upd!IsPrefix(r, p)
          BY <1>5, <3>1
        <4>2. q[r] = "table" /\ r \in DOMAIN q
          BY <1>0, <2>2, <4>1 DEF Upd!Hidden
        <4>3. r = p
          BY <1>0, <1>3, <1>6, <2>2, <4>1, <4>2 DEF Upd!IsTable
        <4> QED
          BY <1>7, <4>1, <4>2, <4>3
      <3>2. CASE ~ R(p)
        BY <1>7, <2>2, <3>2
      <3> QED
        BY <3>1, <3>2
    <2> QED
      BY <2>1, <2>2 DEF Upd!MergedPaths
  <1>12. ASSUME NEW p \in P
         PROVE  (IF R(p) THEN q[p] ELSE t[p]) = IF p \in DOMAIN q THEN q[p] ELSE t[p]
    <2>1. R(p) => p \in DOMAIN q
      BY <1>7
    <2>2. ~ R(p) /\ p \in DOMAIN q => q[p] = t[p]
      BY <1>4 DEF Upd!IsTable
    <2> QED
      BY <2>1, <2>2
  <1>13. P = Upd!MergedPaths(t, q)
    BY <1>10, <1>11
  <1> DEFINE MP == Upd!MergedPaths(t, q)
  <1> HIDE DEF MP
  <1>14. Upd!Merged(t, q) = [p \in MP |-> IF p \in DOMAIN q THEN q[p] ELSE t[p]]
    BY DEF Upd!Merged, MP
  <1> QED
    BY <1>1, <1>12, <1>13, <1>14 DEF MP

\* The merged table is well formed, and merging again changes nothing.
LEMMA MergeAgain ==
    ASSUME Upd!PartialConstants, NEW t, NEW q, TableOK(t), TableOK(q), NEW m, m = Upd!Merged(t, q)
    PROVE  TableOK(m) /\ Upd!deep_merge(m, q) = m
  <1>0. DOMAIN t \subseteq Upd!Paths /\ DOMAIN q \subseteq Upd!Paths
    BY DEF TableOK
  <1>1. /\ m = [p \in DOMAIN m |-> m[p]] /\ DOMAIN m = Upd!MergedPaths(t, q)
        /\ \A p \in DOMAIN m : m[p] = IF p \in DOMAIN q THEN q[p] ELSE t[p]
    BY DEF Upd!Merged
  <1>2. /\ \A p \in DOMAIN q, r \in Upd!Paths : Upd!IsPrefix(r, p) /\ r # p => Upd!IsTable(q, r)
        /\ \A p \in DOMAIN t, r \in Upd!Paths : Upd!IsPrefix(r, p) /\ r # p => Upd!IsTable(t, r)
    BY TablesAbove DEF Upd!IsStrictPrefix
  <1>3. \A x, y, z \in Upd!Paths : Upd!IsPrefix(x, y) /\ Upd!IsPrefix(y, z) => Upd!IsPrefix(x, z)
    BY PrefixFacts
  <1>4. \A p \in DOMAIN m : \/ p \in DOMAIN q /\ q[p] # "null"
                            \/ p \in DOMAIN t /\ \A r \in DOMAIN q : Upd!IsPrefix(r, p) => q[r] = "table"
    BY <1>1 DEF Upd!MergedPaths, Upd!Hidden
  <1>5. DOMAIN m \subseteq Upd!Paths
    BY <1>0, <1>4
  <1>6. ASSUME NEW p \in DOMAIN m, NEW n \in 1 .. Len(p) - 1 PROVE Upd!IsTable(m, SubSeq(p, 1, n))
    <2> DEFINE r == SubSeq(p, 1, n)
    <2>0. p \in Upd!Paths /\ Len(p) \in Nat
      BY <1>5, PathsAreSeqs
    <2>1. r \in Upd!Paths /\ Upd!IsPrefix(r, p) /\ r # p
      BY <2>0, PrefixOfPath
    <2> HIDE DEF r
    <2>2. CASE p \in DOMAIN q
      <3>1. Upd!IsTable(q, r)
        BY <1>2, <2>1, <2>2
      <3>2. r \in DOMAIN m
        BY <1>1, <3>1 DEF Upd!MergedPaths, Upd!IsTable
      <3> QED
        BY <1>1, <3>1, <3>2 DEF Upd!IsTable, r
    <2>3. CASE p \in DOMAIN t /\ \A x \in DOMAIN q : Upd!IsPrefix(x, p) => q[x] = "table"
      <3>1. Upd!IsTable(t, r)
        BY <1>2, <2>1, <2>3
      <3>2. \A x \in DOMAIN q : Upd!IsPrefix(x, r) => q[x] = "table"
        BY <1>0, <1>3, <2>0, <2>1, <2>3
      <3>3. r \in DOMAIN m
        BY <1>1, <3>1, <3>2 DEF Upd!MergedPaths, Upd!Hidden, Upd!IsTable
      <3>4. r \in DOMAIN q => q[r] = "table"
        BY <2>1, <2>3
      <3> QED
        BY <1>1, <3>1, <3>3, <3>4 DEF Upd!IsTable, r
    <2> QED
      BY <1>4, <2>2, <2>3 DEF r
  <1>7. TableOK(m)
    BY <1>1, <1>5, <1>6 DEF TableOK, Upd!WellFormed
  <1> DEFINE I == Upd!Items(m, q)
             E == Ends(m, q, I)
             R(p) == Reaches(m, q, I, p)
             P == AfterPaths(m, q, I)
  <1>8. Upd!deep_merge(m, q) = [p \in P |-> IF R(p) THEN q[p] ELSE m[p]]
    BY <1>7, AllTurns DEF After
  <1>9. \A r \in E : r \in DOMAIN q /\ ~ (Upd!IsTable(q, r) /\ Upd!IsTable(m, r))
    BY DEF Ends, Upd!Items
  <1>10. \A p : R(p) <=> \E r \in E : Upd!IsPrefix(r, p)
    BY DEF Reaches
  <1>11. P = {p \in DOMAIN m : ~ R(p)} \cup
             {p \in DOMAIN q : \E r \in E : q[r] # "null" /\ Upd!IsPrefix(r, p)}
    BY DEF AfterPaths
  <1> HIDE DEF I, E, R, P
  <1>12. \A r \in E : q[r] # "table"
    BY <1>1, <1>9 DEF Upd!IsTable, Upd!MergedPaths
  <1>13. ASSUME NEW p \in DOMAIN q, NEW r \in E, Upd!IsPrefix(r, p) PROVE r = p
    BY <1>0, <1>2, <1>9, <1>12, <1>13 DEF Upd!IsTable
  <1>14. ASSUME NEW p \in P PROVE p \in DOMAIN m /\ (R(p) => m[p] = q[p])
    <2>1. CASE p \in DOMAIN m /\ ~ R(p)
      BY <2>1
    <2>2. CASE p \in DOMAIN q /\ \E r \in E : q[r] # "null" /\ Upd!IsPrefix(r, p)
      <3>1. q[p] # "null"
        BY <1>13, <2>2
      <3> QED
        BY <1>1, <2>2, <3>1 DEF Upd!MergedPaths
    <2> QED
      BY <1>11, <2>1, <2>2
  <1>15. ASSUME NEW p \in DOMAIN m PROVE p \in P
    <2>1. CASE ~ R(p)
      BY <1>11, <2>1
    <2>2. CASE R(p)
      <3>1. PICK r \in E : Upd!IsPrefix(r, p)
        BY <1>10, <2>2
      <3>2. p \in DOMAIN q /\ q[p] # "null"
        BY <1>4, <1>9, <1>12, <3>1
      <3>3. r = p
        BY <1>13, <3>1, <3>2
      <3> QED
        BY <1>11, <3>1, <3>2, <3>3
    <2> QED
      BY <2>1, <2>2
  <1>16. P = DOMAIN m
    BY <1>14, <1>15
  <1>17. \A p \in P : (IF R(p) THEN q[p] ELSE m[p]) = m[p]
    BY <1>14
  <1>18. Upd!deep_merge(m, q) = [p \in P |-> m[p]]
    BY <1>8, <1>17
  <1> QED
    BY <1>1, <1>7, <1>16, <1>18
-----------------------------------------------------------------------------
(* Typed updates *)

\* The operations a request maps to
UserOps == {"put_user", "delete_user"}
ResourceOps == {"put_resource", "delete_resource"}
ValidOp(o) ==
    /\ o.op \in UserOps \cup ResourceOps \cup {"patch_network"}
    /\ o.op \in UserOps => o.name \in Names
    /\ o.op \in ResourceOps => o.name \in Names /\ o.table \in Tables
    /\ o.op = "put_user" => o.payload \in {"admin", "plain", "malformed"}
    /\ o.op = "put_resource" => o.payload \in {"v1", "v2", "malformed"}
    /\ o.op = "patch_network" => TableOK(o.patch)

\* What TypeOK says of a configuration
ConfigOK(c) ==
    /\ c = [users |-> c.users, resources |-> c.resources, network |-> c.network,
            required |-> c.required]
    /\ c.users \in Upd!Users /\ c.resources \in Upd!Resources
    /\ Upd!Valid(c) /\ TableOK(c.network)

\* What is staged is what the route made of a request; what was applied last is an
\* operation that was rendered on the configuration the worker found.
StagedOK ==
    staged # <<>> =>
        /\ staged = <<staged[1]>> /\ staged[1].request \in Upd!Requests
        /\ staged[1].route = Upd!RouteOperation(staged[1].request, staged[1].patch)
        /\ staged[1].request.method = "PATCH" => TableOK(staged[1].patch)
        /\ updates <= MaxChanges
CountOK ==
    /\ updates \in 0 .. MaxChanges + 1
    /\ result \in {"none", "staged", "applied", "refused", "failed"}
LastOK ==
    \/ last = Upd!NoOp /\ base = config
    \/ /\ ValidOp(last) /\ ConfigOK(base) /\ Upd!Renders(base, last)
       /\ config = Upd!apply_operation(base, last)
UpdatesInv == ConfigOK(config) /\ StagedOK /\ LastOK /\ CountOK

\* The worker reads in the signed request what the route read, or refuses it.
LEMMA SameOperation ==
    ASSUME Upd!PartialConstants, NEW r \in Upd!Requests, NEW q, r.method = "PATCH" => TableOK(q)
    PROVE  LET o == Upd!request_operation(r, q) IN
           /\ o = Upd!NoOp \/ ValidOp(o)
           /\ \/ o = Upd!RouteOperation(r, q)
              \/ o = Upd!NoOp /\ r.method = "DELETE"
  <1> DEFINE o == Upd!request_operation(r, q)
             route == Upd!RouteOperation(r, q)
  <1>1. CASE r \in [method : {"PUT"}, route : {"users"}, name : Names,
                    body : {"admin", "plain", "malformed"}]
    <2>1. r.method = "PUT" /\ r.route = "users" /\ r.name \in Names
          /\ r.body \in {"admin", "plain", "malformed"} /\ r.route \notin Tables
      BY <1>1 DEF Upd!PartialConstants
    <2>2. o = [op |-> "put_user", name |-> r.name, payload |-> r.body]
      BY <2>1 DEF Upd!request_operation
    <2>3. route = o
      BY <2>1, <2>2 DEF Upd!RouteOperation, Upd!put_partial_user
    <2> QED
      BY <2>1, <2>2, <2>3 DEF ValidOp, UserOps, ResourceOps
  <1>2. CASE r \in [method : {"PUT"}, route : Tables, name : Names,
                    body : {"v1", "v2", "malformed"}]
    <2>1. r.method = "PUT" /\ r.route \in Tables /\ r.name \in Names
          /\ r.body \in {"v1", "v2", "malformed"} /\ r.route \notin {"users", "network-settings"}
      BY <1>2 DEF Upd!PartialConstants
    <2>2. o = [op |-> "put_resource", table |-> r.route, name |-> r.name, payload |-> r.body]
      BY <2>1 DEF Upd!request_operation
    <2>3. route = o
      BY <2>1, <2>2 DEF Upd!RouteOperation, Upd!resource_route
    <2> QED
      BY <2>1, <2>2, <2>3 DEF ValidOp, UserOps, ResourceOps
  <1>3. CASE r \in [method : {"DELETE"}, route : Tables \cup {"users"}, name : Names,
                    body : {"empty", "v1"}]
    <2>1. r.method = "DELETE" /\ r.route \in Tables \cup {"users"} /\ r.name \in Names
          /\ r.body \in {"empty", "v1"} /\ "users" \notin Tables
          /\ r.route # "network-settings"
      BY <1>3 DEF Upd!PartialConstants
    <2>2. CASE r.body # "empty"
      BY <2>1, <2>2 DEF Upd!request_operation
    <2>3. CASE r.body = "empty" /\ r.route = "users"
      <3>1. o = [op |-> "delete_user", name |-> r.name]
        BY <2>1, <2>3 DEF Upd!request_operation
      <3>2. route = o
        BY <2>1, <2>3, <3>1 DEF Upd!RouteOperation, Upd!delete_partial_user
      <3> QED
        BY <2>1, <3>1, <3>2 DEF ValidOp, UserOps, ResourceOps
    <2>4. CASE r.body = "empty" /\ r.route \in Tables
      <3>1. o = [op |-> "delete_resource", table |-> r.route, name |-> r.name]
        BY <2>1, <2>4 DEF Upd!request_operation
      <3>2. route = o
        BY <2>1, <2>4, <3>1 DEF Upd!RouteOperation, Upd!resource_route
      <3> QED
        BY <2>1, <2>4, <3>1, <3>2 DEF ValidOp, UserOps, ResourceOps
    <2> QED
      BY <2>1, <2>2, <2>3, <2>4
  <1>4. CASE r \in [method : {"PATCH"}, route : {"network-settings"}, name : {"-"},
                    body : {"patch"}]
    <2>1. r.method = "PATCH" /\ r.route = "network-settings" /\ r.route \notin Tables
          /\ TableOK(q)
      BY <1>4 DEF Upd!PartialConstants
    <2>2. o = [op |-> "patch_network", patch |-> q]
      BY <2>1 DEF Upd!request_operation
    <2>3. route = o
      BY <2>1, <2>2 DEF Upd!RouteOperation, Upd!patch_partial_network
    <2> QED
      BY <2>1, <2>2, <2>3 DEF ValidOp, UserOps, ResourceOps
  <1> QED
    BY <1>1, <1>2, <1>3, <1>4 DEF Upd!Requests

\* What an operation does to each part of a configuration
UsersAfter(c, o) ==
    IF o.op = "put_user" THEN [c.users EXCEPT ![o.name] = o.payload]
    ELSE IF o.op = "delete_user" THEN [c.users EXCEPT ![o.name] = Upd!Absent]
    ELSE c.users
ResourcesAfter(c, o) ==
    IF o.op = "put_resource" THEN [c.resources EXCEPT ![<<o.table, o.name>>] = o.payload]
    ELSE IF o.op = "delete_resource"
    THEN [c.resources EXCEPT ![<<o.table, o.name>>] = Upd!Absent]
    ELSE c.resources
NetworkAfter(c, o) ==
    IF o.op = "patch_network" THEN Upd!deep_merge(c.network, o.patch) ELSE c.network

\* apply_operation, part by part
LEMMA Applied ==
    ASSUME NEW c, ConfigOK(c), NEW o, ValidOp(o)
    PROVE  /\ Upd!apply_operation(c, o) =
                [users |-> UsersAfter(c, o), resources |-> ResourcesAfter(c, o),
                 network |-> NetworkAfter(c, o), required |-> c.required]
           /\ o # Upd!NoOp
  <1> DEFINE d == Upd!apply_operation(c, o)
  <1>0. c = [users |-> c.users, resources |-> c.resources, network |-> c.network,
             required |-> c.required]
    BY DEF ConfigOK
  <1>1. CASE o.op = "put_user"
    <2>1. d = [c EXCEPT !.users[o.name] = o.payload]
      BY <1>1 DEF Upd!apply_operation, Upd!put_user
    <2> QED
      BY <1>0, <1>1, <2>1 DEF Upd!NoOp, UsersAfter, ResourcesAfter, NetworkAfter
  <1>2. CASE o.op = "delete_user"
    <2>1. d = [c EXCEPT !.users[o.name] = Upd!Absent]
      BY <1>2 DEF Upd!apply_operation, Upd!delete_user
    <2> QED
      BY <1>0, <1>2, <2>1 DEF Upd!NoOp, UsersAfter, ResourcesAfter, NetworkAfter
  <1>3. CASE o.op = "put_resource"
    <2>1. d = [c EXCEPT !.resources[<<o.table, o.name>>] = o.payload]
      BY <1>3 DEF Upd!apply_operation, Upd!put_resource
    <2> QED
      BY <1>0, <1>3, <2>1 DEF Upd!NoOp, UsersAfter, ResourcesAfter, NetworkAfter
  <1>4. CASE o.op = "delete_resource"
    <2>1. d = [c EXCEPT !.resources[<<o.table, o.name>>] = Upd!Absent]
      BY <1>4 DEF Upd!apply_operation, Upd!delete_resource
    <2> QED
      BY <1>0, <1>4, <2>1 DEF Upd!NoOp, UsersAfter, ResourcesAfter, NetworkAfter
  <1>5. CASE o.op = "patch_network"
    <2>1. d = [c EXCEPT !.network = Upd!deep_merge(c.network, o.patch)]
      BY <1>5 DEF Upd!apply_operation, Upd!patch_network
    <2> QED
      BY <1>0, <1>5, <2>1 DEF Upd!NoOp, UsersAfter, ResourcesAfter, NetworkAfter
  <1> QED
    BY <1>1, <1>2, <1>3, <1>4, <1>5 DEF ValidOp, UserOps, ResourceOps

LEMMA AppliedParts ==
    ASSUME NEW c, ConfigOK(c), NEW o, ValidOp(o), NEW d, d = Upd!apply_operation(c, o)
    PROVE  /\ d = [users |-> d.users, resources |-> d.resources, network |-> d.network,
                   required |-> d.required]
           /\ d.users = UsersAfter(c, o) /\ d.resources = ResourcesAfter(c, o)
           /\ d.network = NetworkAfter(c, o) /\ d.required = c.required
  <1>1. d = [users |-> UsersAfter(c, o), resources |-> ResourcesAfter(c, o),
             network |-> NetworkAfter(c, o), required |-> c.required]
    BY Applied
  <1> QED
    BY <1>1

\* A rendered operation keeps a configuration one that load_config accepts.
LEMMA AppliedOK ==
    ASSUME Upd!PartialConstants, NEW c, ConfigOK(c), NEW o, ValidOp(o), Upd!Renders(c, o)
    PROVE  ConfigOK(Upd!apply_operation(c, o))
  <1> DEFINE d == Upd!apply_operation(c, o)
  <1>1. Upd!Valid(d) /\ ~ Upd!Malformed(o)
    BY DEF Upd!Renders
  <1>2. /\ o.op \in UserOps => o.name \in Names
        /\ o.op \in ResourceOps => <<o.table, o.name>> \in Tables \X Names
        /\ o.op = "put_user" => o.payload \in {"admin", "plain"}
        /\ o.op = "put_resource" => o.payload \in {"v1", "v2"}
    BY <1>1 DEF ValidOp, Upd!Malformed
  <1>3. /\ Upd!Users = [Names -> {Upd!Absent, "admin", "plain"}]
        /\ Upd!Resources = [Tables \X Names -> {Upd!Absent, "v1", "v2"}]
    BY DEF Upd!Users, Upd!Resources
  <1>4. c.users \in Upd!Users /\ c.resources \in Upd!Resources
    BY DEF ConfigOK
  <1>5. d.users \in Upd!Users
    <2>1. d.users = UsersAfter(c, o)
      BY AppliedParts
    <2> HIDE DEF d
    <2> QED
      BY <1>2, <1>3, <1>4, <2>1 DEF UserOps, UsersAfter
  <1>6. d.resources \in Upd!Resources
    <2>1. d.resources = ResourcesAfter(c, o)
      BY AppliedParts
    <2> DEFINE x == <<o.table, o.name>>
               I == Tables \X Names
    <2>2. /\ ResourcesAfter(c, o) =
                IF o.op = "put_resource" THEN [c.resources EXCEPT ![x] = o.payload]
                ELSE IF o.op = "delete_resource"
                     THEN [c.resources EXCEPT ![x] = Upd!Absent] ELSE c.resources
          /\ o.op \in {"put_resource", "delete_resource"} => x \in I
          /\ c.resources \in [I -> {Upd!Absent, "v1", "v2"}]
          /\ Upd!Resources = [I -> {Upd!Absent, "v1", "v2"}]
      BY <1>2, <1>3, <1>4 DEF ResourcesAfter, ResourceOps
    <2> HIDE DEF d, x, I
    <2> QED
      BY <1>2, <2>1, <2>2
  <1>7. d = [users |-> d.users, resources |-> d.resources, network |-> d.network,
             required |-> d.required]
    BY AppliedParts
  <1>8. TableOK(d.network)
    <2>1. d.network = NetworkAfter(c, o) /\ TableOK(c.network)
      BY AppliedParts DEF ConfigOK
    <2>2. CASE o.op # "patch_network"
      BY <2>1, <2>2 DEF NetworkAfter
    <2>3. CASE o.op = "patch_network"
      <3>1. TableOK(o.patch) /\ d.network = Upd!deep_merge(c.network, o.patch)
        BY <2>1, <2>3 DEF ValidOp, NetworkAfter
      <3>2. \A p \in DOMAIN d.network : d.network[p] # "null"
        BY DEF Upd!Renders, Upd!Serializable
      <3>3. d.network = Upd!Merged(c.network, o.patch)
        BY <2>1, <3>1, <3>2, MergesByPath
      <3> QED
        BY <2>1, <3>1, <3>3, MergeAgain
    <2> QED
      BY <2>2, <2>3
  <1> QED
    BY <1>1, <1>5, <1>6, <1>7, <1>8 DEF ConfigOK

\* The tables and patches of the model are nested tables.
LEMMA NestedOK == ASSUME NEW V, NEW t \in Upd!Nested(V) PROVE TableOK(t)
  <1>1. PICK D \in SUBSET Upd!Paths : t \in [D -> V \cup {"table"}]
    BY DEF Upd!Nested
  <1>2. Upd!WellFormed(t)
    BY DEF Upd!Nested
  <1> QED
    BY <1>1, <1>2 DEF TableOK

LEMMA UpdatesInit == ASSUME Upd!PartialConstants PROVE Upd!Init => UpdatesInv
  <1> SUFFICES ASSUME Upd!Init PROVE UpdatesInv
    OBVIOUS
  <1>1. PICK us \in Upd!Users :
          \E nw \in Upd!Nested(Scalars) : \E req \in {{}, Names} :
            /\ \E n \in Names : us[n] = "admin"
            /\ config = [users |-> us, resources |-> [x \in Tables \X Names |-> "v1"],
                         network |-> nw, required |-> req]
    <2> DEFINE R == {[x \in Tables \X Names |-> "v1"]}
               U == {us \in Upd!Users : \E n \in Names : us[n] = "admin"}
               N == Upd!Nested(Scalars)
    <2>1. config \in [users : U, resources : R, network : N, required : {{}, Names}]
      BY DEF Upd!Init
    <2> HIDE DEF N
    <2>2. config = [users |-> config.users, resources |-> config.resources,
                    network |-> config.network, required |-> config.required]
          /\ config.users \in U /\ config.network \in N /\ config.resources \in R
          /\ config.required \in {{}, Names}
      BY <2>1
    <2> QED
      BY <2>2 DEF N
  <1>2. \A x \in Tables \X Names : config.resources[x] = "v1"
    BY <1>1
  <1>3. \A n \in Names : <<"container", n>> \in Tables \X Names
    BY DEF Upd!PartialConstants
  <1>4. Upd!Valid(config)
    <2>1. \A n \in Names : config.resources[<<"container", n>>] # Upd!Absent
      BY <1>2, <1>3 DEF Upd!Absent
    <2> QED
      BY <1>1, <2>1 DEF Upd!Valid
  <1>5. config.resources \in Upd!Resources
    BY <1>1 DEF Upd!Resources
  <1>6. TableOK(config.network)
    BY <1>1, NestedOK
  <1>7. CountOK
    BY DEF Upd!Init, CountOK, Upd!PartialConstants
  <1> QED
    BY <1>1, <1>4, <1>5, <1>6, <1>7 DEF Upd!Init, UpdatesInv, ConfigOK, StagedOK, LastOK

LEMMA UpdatesStep ==
    ASSUME Upd!PartialConstants, UpdatesInv, [Upd!Next]_(Upd!vars)
    PROVE  UpdatesInv'
  <1>0. ConfigOK(config) /\ StagedOK /\ LastOK /\ CountOK
    BY DEF UpdatesInv
  <1>1. CASE Upd!Route
    <2>0. staged = <<>> /\ updates < MaxChanges
      BY <1>1 DEF Upd!Route
    <2>1. PICK r \in Upd!Requests : \E q : Upd!Submit(r, q) /\ (r.method = "PATCH" => TableOK(q))
      <3>1. CASE \E r \in Upd!Requests : r.method # "PATCH" /\ Upd!Submit(r, <<>>)
        BY <3>1
      <3>2. CASE \E r \in {x \in Upd!Requests : x.method = "PATCH"}, q \in Upd!Patches :
                   Upd!Submit(r, q)
        BY <3>2, NestedOK DEF Upd!Patches
      <3> QED
        BY <1>1, <3>1, <3>2 DEF Upd!Route
    <2>5. PICK q : Upd!Submit(r, q) /\ (r.method = "PATCH" => TableOK(q))
      BY <2>1
    <2>2. config' = config /\ base' = base /\ last' = last /\ updates' = updates
          /\ result' \in {"none", "staged", "applied", "refused", "failed"}
      BY <2>5 DEF Upd!Submit
    <2>3. \/ staged' = staged
          \/ staged' = <<[request |-> r, patch |-> q, route |-> Upd!RouteOperation(r, q)]>>
      BY <2>5 DEF Upd!Submit
    <2>4. StagedOK'
      <3>1. updates <= MaxChanges
        BY <1>0, <2>0 DEF CountOK, Upd!PartialConstants
      <3>2. CASE staged' = staged
        BY <1>0, <2>0, <3>2 DEF StagedOK
      <3>3. CASE staged' = <<[request |-> r, patch |-> q, route |-> Upd!RouteOperation(r, q)]>>
        BY <2>5, <2>2, <3>1, <3>3 DEF StagedOK
      <3> QED
        BY <2>3, <3>2, <3>3
    <2> QED
      BY <1>0, <2>2, <2>4 DEF UpdatesInv, ConfigOK, LastOK, CountOK
  <1>2. ASSUME NEW c \in Upd!Neighbours, Upd!FullApply(c) PROVE UpdatesInv'
    <2>1. config' = c /\ base' = c /\ last' = Upd!NoOp /\ staged' = staged /\ result' = result
          /\ Upd!Valid(c) /\ updates < MaxChanges /\ updates' = updates + 1
      BY <1>2 DEF Upd!FullApply
    <2>2. ConfigOK(c)
      <3>1. /\ config = [users |-> config.users, resources |-> config.resources,
                         network |-> config.network, required |-> config.required]
            /\ config.users \in Upd!Users /\ config.resources \in Upd!Resources
            /\ TableOK(config.network)
        BY <1>0 DEF ConfigOK
      <3>2. CASE \E n \in Names, u \in {Upd!Absent, "admin"} :
                   c = [config EXCEPT !.users[n] = u]
        <4>1. PICK n \in Names, u \in {Upd!Absent, "admin"} :
                     c = [config EXCEPT !.users[n] = u]
          BY <3>2
        <4>2. c = [users |-> [config.users EXCEPT ![n] = u], resources |-> config.resources,
                   network |-> config.network, required |-> config.required]
          BY <3>1, <4>1
        <4>3. [config.users EXCEPT ![n] = u] \in Upd!Users
          BY <3>1 DEF Upd!Users
        <4> QED
          BY <2>1, <3>1, <4>2, <4>3 DEF ConfigOK
      <3>3. CASE c = [config EXCEPT !.network = [p \in {} |-> "table"]]
        <4> DEFINE t == [p \in {} |-> "table"]
        <4>1. c = [users |-> config.users, resources |-> config.resources, network |-> t,
                   required |-> config.required]
          BY <3>1, <3>3
        <4>2. TableOK(t)
          BY DEF TableOK, Upd!WellFormed
        <4> HIDE DEF t
        <4> QED
          BY <2>1, <3>1, <4>1, <4>2 DEF ConfigOK
      <3> QED
        BY <3>2, <3>3 DEF Upd!Neighbours
    <2>3. StagedOK'
      BY <1>0, <2>1 DEF StagedOK, CountOK, Upd!PartialConstants
    <2>4. CountOK'
      BY <1>0, <2>1 DEF CountOK, Upd!PartialConstants
    <2> QED
      BY <2>1, <2>2, <2>3, <2>4 DEF UpdatesInv, LastOK
  <1>3. CASE Upd!WorkerApplies
    <2> DEFINE o == Upd!request_operation(staged[1].request, staged[1].patch)
    <2>1. /\ staged # <<>> /\ Upd!Renders(config, o)
          /\ config' = Upd!apply_operation(config, o) /\ base' = config /\ last' = o
          /\ staged' = <<>> /\ result' = "applied" /\ updates' = updates + 1
      BY <1>3 DEF Upd!WorkerApplies
    <2>2. ValidOp(o)
      <3>1. staged[1].request \in Upd!Requests
            /\ (staged[1].request.method = "PATCH" => TableOK(staged[1].patch))
        BY <1>0, <2>1 DEF StagedOK
      <3>2. o = Upd!NoOp \/ ValidOp(o)
        BY <3>1, SameOperation
      <3> QED
        BY <2>1, <3>2 DEF Upd!Renders
    <2> HIDE DEF o
    <2>3. ConfigOK(Upd!apply_operation(config, o))
      BY <1>0, <2>1, <2>2, AppliedOK
    <2>4. ConfigOK(config)'
      BY <2>1, <2>3
    <2>5. LastOK'
      BY <1>0, <2>1, <2>2 DEF LastOK
    <2>6. CountOK'
      BY <1>0, <2>1 DEF StagedOK, CountOK, Upd!PartialConstants
    <2> QED
      BY <2>1, <2>4, <2>5, <2>6 DEF UpdatesInv, StagedOK
  <1>4. CASE Upd!WorkerRefuses \/ Upd!ActivationFails
    <2>1. config' = config /\ base' = base /\ last' = last /\ staged' = <<>>
          /\ updates' = updates /\ result' = "failed"
      BY <1>4 DEF Upd!WorkerRefuses, Upd!ActivationFails
    <2> QED
      BY <1>0, <2>1 DEF UpdatesInv, ConfigOK, StagedOK, LastOK, CountOK
  <1>5. CASE UNCHANGED Upd!vars
    BY <1>0, <1>5 DEF UpdatesInv, ConfigOK, StagedOK, LastOK, CountOK, Upd!vars
  <1> QED
    BY <1>1, <1>2, <1>3, <1>4, <1>5 DEF Upd!Next

\* A rendered operation, repeated, changes nothing.
LEMMA Repeats ==
    ASSUME Upd!PartialConstants, NEW c, ConfigOK(c), NEW o, ValidOp(o), Upd!Renders(c, o)
    PROVE  LET d == Upd!apply_operation(c, o) IN
           ConfigOK(d) => Upd!apply_operation(d, o) = d
  <1> DEFINE d == Upd!apply_operation(c, o)
             e == Upd!apply_operation(d, o)
  <1> SUFFICES ASSUME ConfigOK(d) PROVE e = d
    OBVIOUS
  <1>1. /\ d = [users |-> d.users, resources |-> d.resources, network |-> d.network,
                required |-> d.required]
        /\ d.users = UsersAfter(c, o) /\ d.resources = ResourcesAfter(c, o)
        /\ d.network = NetworkAfter(c, o)
    BY AppliedParts
  <1>0. \A p \in DOMAIN d.network : d.network[p] # "null"
    BY DEF Upd!Renders, Upd!Serializable
  <1>2. /\ e = [users |-> e.users, resources |-> e.resources, network |-> e.network,
                required |-> e.required]
        /\ e.users = UsersAfter(d, o) /\ e.resources = ResourcesAfter(d, o)
        /\ e.network = NetworkAfter(d, o) /\ e.required = d.required
    BY AppliedParts
  <1>3. c.users \in Upd!Users /\ c.resources \in Upd!Resources
    BY DEF ConfigOK
  <1> HIDE DEF d, e
  <1>4. e.users = d.users
    BY <1>1, <1>2, <1>3 DEF UsersAfter, Upd!Users
  <1>5. e.resources = d.resources
    <2> DEFINE x == <<o.table, o.name>>
    <2>1. /\ d.resources = IF o.op = "put_resource" THEN [c.resources EXCEPT ![x] = o.payload]
                           ELSE IF o.op = "delete_resource"
                                THEN [c.resources EXCEPT ![x] = Upd!Absent]
                                ELSE c.resources
          /\ e.resources = IF o.op = "put_resource" THEN [d.resources EXCEPT ![x] = o.payload]
                           ELSE IF o.op = "delete_resource"
                                THEN [d.resources EXCEPT ![x] = Upd!Absent]
                                ELSE d.resources
      BY <1>1, <1>2 DEF ResourcesAfter
    <2> HIDE DEF x
    <2> QED
      BY <1>3, <2>1 DEF Upd!Resources
  <1>6. e.network = d.network
    <2>1. CASE o.op # "patch_network"
      BY <1>2, <2>1 DEF NetworkAfter
    <2>2. CASE o.op = "patch_network"
      <3>1. /\ TableOK(o.patch) /\ TableOK(c.network) /\ TableOK(d.network)
            /\ d.network = Upd!deep_merge(c.network, o.patch)
            /\ e.network = Upd!deep_merge(d.network, o.patch)
        BY <1>1, <1>2, <2>2 DEF ValidOp, ConfigOK, NetworkAfter
      <3>2. d.network = Upd!Merged(c.network, o.patch)
        BY <1>0, <3>1, MergesByPath
      <3>3. Upd!deep_merge(d.network, o.patch) = d.network
        BY <1>0, <3>1, <3>2, MergesByPath, MergeAgain
      <3> QED
        BY <3>1, <3>3
    <2> QED
      BY <2>1, <2>2
  <1> QED
    BY <1>1, <1>2, <1>4, <1>5, <1>6

LEMMA UpdatesSay ==
    ASSUME Upd!PartialConstants, UpdatesInv
    PROVE  /\ Upd!TypeOK /\ Upd!OnlyNamedChanges /\ Upd!RepeatIsHarmless /\ Upd!WorkerMatchesRoute
           /\ Upd!PatchMerges
  <1>0. ConfigOK(config) /\ StagedOK /\ LastOK /\ CountOK
    BY DEF UpdatesInv
  <1>1. Upd!WorkerMatchesRoute
    <2> SUFFICES ASSUME staged # <<>>
                 PROVE  LET o == Upd!request_operation(staged[1].request, staged[1].patch)
                        IN  \/ o = staged[1].route
                            \/ o = Upd!NoOp /\ staged[1].request.method = "DELETE"
      BY DEF Upd!WorkerMatchesRoute
    <2>1. /\ staged[1].request \in Upd!Requests
          /\ staged[1].route = Upd!RouteOperation(staged[1].request, staged[1].patch)
          /\ staged[1].request.method = "PATCH" => TableOK(staged[1].patch)
      BY <1>0 DEF StagedOK
    <2> QED
      BY <2>1, SameOperation
  <1>2. Upd!TypeOK
    <2>1. Len(staged) <= 1
      <3>1. CASE staged = <<>>
        BY <3>1
      <3>2. CASE staged # <<>>
        <4>1. PICK s : staged = <<s>>
          BY <1>0, <3>2, Zenon DEF StagedOK
        <4> QED
          BY <4>1
      <3> QED
        BY <3>1, <3>2
    <2>2. Upd!WellFormed(config.network)
      BY <1>0 DEF ConfigOK, TableOK
    <2>3. updates \in 0..(MaxChanges + 1)
          /\ result \in {"none", "staged", "applied", "refused", "failed"}
      BY <1>0 DEF CountOK
    <2>4. Upd!Valid(config) /\ config.users \in Upd!Users /\ config.resources \in Upd!Resources
      BY <1>0 DEF ConfigOK
    <2> QED
      BY <2>1, <2>2, <2>3, <2>4 DEF Upd!TypeOK
  <1>3. CASE last = Upd!NoOp /\ base = config
    <2>1. last.op = "none"
      BY <1>3 DEF Upd!NoOp
    <2> QED
      BY <1>1, <1>2, <1>3, <2>1
         DEF Upd!OnlyNamedChanges, Upd!RepeatIsHarmless, Upd!PatchMerges, Upd!Named,
             Upd!NamedResource
  <1>4. CASE /\ ValidOp(last) /\ ConfigOK(base) /\ Upd!Renders(base, last)
             /\ config = Upd!apply_operation(base, last)
    <2>0. config.users = UsersAfter(base, last) /\ config.resources = ResourcesAfter(base, last)
          /\ config.network = NetworkAfter(base, last) /\ config.required = base.required
      BY <1>4, AppliedParts
    <2>1. Upd!OnlyNamedChanges
      <3>1. base.users \in [Names -> {Upd!Absent, "admin", "plain"}]
            /\ base.resources \in [Tables \X Names -> {Upd!Absent, "v1", "v2"}]
        BY <1>4 DEF ConfigOK, Upd!Users, Upd!Resources
      <3>2. \A n \in Names : ~ Upd!Named(last, n) => config.users[n] = base.users[n]
        BY <2>0, <3>1 DEF Upd!Named, UsersAfter
      <3>3. ASSUME NEW x \in Tables \X Names, ~ Upd!NamedResource(last, x)
            PROVE  config.resources[x] = base.resources[x]
        <4> DEFINE y == <<last.table, last.name>>
        <4>1. last.op \in {"put_resource", "delete_resource"} => x # y
          BY <3>3 DEF Upd!NamedResource
        <4>2. config.resources =
                IF last.op = "put_resource" THEN [base.resources EXCEPT ![y] = last.payload]
                ELSE IF last.op = "delete_resource"
                     THEN [base.resources EXCEPT ![y] = Upd!Absent] ELSE base.resources
          BY <2>0 DEF ResourcesAfter
        <4> HIDE DEF y
        <4> QED
          BY <3>1, <4>1, <4>2
      <3> QED
        BY <2>0, <3>2, <3>3 DEF Upd!OnlyNamedChanges, NetworkAfter
    <2>2. Upd!RepeatIsHarmless
      <3>1. Upd!apply_operation(config, last) = config
        BY <1>0, <1>4, Repeats
      <3>2. Upd!Renders(config, last)
        BY <1>4, <3>1 DEF Upd!Renders
      <3> QED
        BY <3>1, <3>2 DEF Upd!RepeatIsHarmless
    <2>3. Upd!PatchMerges
      <3> SUFFICES ASSUME last.op = "patch_network"
                   PROVE  config.network = Upd!Merged(base.network, last.patch)
        BY DEF Upd!PatchMerges
      <3>1. /\ TableOK(last.patch) /\ TableOK(base.network)
            /\ config.network = Upd!deep_merge(base.network, last.patch)
        BY <1>4, <2>0 DEF ValidOp, ConfigOK, NetworkAfter
      <3>2. \A p \in DOMAIN config.network : config.network[p] # "null"
        BY <1>4 DEF Upd!Renders, Upd!Serializable
      <3> QED
        BY <3>1, <3>2, MergesByPath
    <2> QED
      BY <1>1, <1>2, <2>1, <2>2, <2>3
  <1> QED
    BY <1>0, <1>3, <1>4 DEF LastOK

\* Typed updates are sound for any keys, depth of the table, names and resource tables: an
\* update is applied to whatever configuration the worker finds, changes only the user,
\* resource or table its path names and leaves a configuration load_config accepts; the
\* worker derives from the signed request what the route staged, or refuses; a repeated
\* update changes nothing more; and a PATCH gives the merge its client was promised, path by
\* path (_request_operation, apply_operation, _deep_merge).
THEOREM TypedUpdatesAreSound ==
    ASSUME Upd!PartialConstants
    PROVE  Upd!Spec => [](/\ Upd!TypeOK /\ Upd!OnlyNamedChanges /\ Upd!RepeatIsHarmless
                          /\ Upd!WorkerMatchesRoute /\ Upd!PatchMerges)
  <1>1. Upd!Init => UpdatesInv
    BY UpdatesInit
  <1>2. UpdatesInv /\ [Upd!Next]_(Upd!vars) => UpdatesInv'
    BY UpdatesStep
  <1>3. UpdatesInv => /\ Upd!TypeOK /\ Upd!OnlyNamedChanges /\ Upd!RepeatIsHarmless
                      /\ Upd!WorkerMatchesRoute /\ Upd!PatchMerges
    BY UpdatesSay
  <1> QED
    BY <1>1, <1>2, <1>3, PTL DEF Upd!Spec
=============================================================================
