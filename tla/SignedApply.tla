---------------------------- MODULE SignedApply ----------------------------
(***************************************************************************)
(* Who may change the configuration: the nonce store and the guards of     *)
(* auth.py in the API process, and the worker's own verification           *)
(* (_verify_staged_authorization, consume_authorization_nonce) when the    *)
(* job reaches the head of the queue.                                      *)
(*                                                                         *)
(* A client gets a nonce, signs nonce, method, path and payload, and sends *)
(* the request; the network may deliver it late and more than once.  The   *)
(* guard reads the active signers, spends the nonce, then verifies the     *)
(* signature in a thread; the job waits in the queue while other jobs are  *)
(* applied; the worker treats what it finds there as untrusted and checks  *)
(* it again against the configuration of that moment.  The nonce store     *)
(* dies with the API process, the used-nonce markers with the boot.        *)
(***************************************************************************)
EXTENDS Integers, Sequences, FiniteSets

CONSTANTS
    Requests,           \* configuration requests
    Keys,               \* admin SSH keys
    KeyOf,              \* the key a request is signed with
    SignersOf,          \* admin-signers of the configuration a request carries
    Clients, ClientOf,  \* client addresses
    Handlers,           \* HTTP handlers that run at the same time
    MaxOutstanding,     \* MAX_OUTSTANDING_NONCES
    PerClient,          \* MAX_OUTSTANDING_NONCES_PER_CLIENT
    MaxNonces,          \* bound: nonces issued
    MaxQueue,           \* bound: jobs in the queue
    MaxApplied,         \* bound: jobs applied
    MaxFaults           \* bound: API restarts, reboots and killed workers

\* What the constants must satisfy; the module that instantiates this one assumes it.
SignedApplyConstants ==
    /\ KeyOf \in [Requests -> Keys]
    /\ SignersOf \in [Requests -> SUBSET Keys \ {{}}]
    /\ ClientOf \in [Requests -> Clients]
    /\ MaxOutstanding \in Nat \ {0} /\ PerClient \in Nat \ {0}
    /\ MaxNonces \in Nat /\ MaxQueue \in Nat /\ MaxApplied \in Nat /\ MaxFaults \in Nat

Nonces == [boot : Nat, token : Nat]
NoNonce == [boot |-> 0, token |-> 0]

\* What travels with a request: its nonce, and the signature that binds both
Messages == [req : Requests, nonce : Nonces]
Unsigned(r) == [req |-> r, nonce |-> NoNonce]

VARIABLES
    boot,           \* /proc/sys/kernel/random/boot_id
    token,          \* tokens drawn so far; secrets.token_urlsafe never repeats
    store,          \* NonceStore._nonces; its order of issue is the order of the tokens
    expired,        \* the nonces in it that are older than NONCE_TTL_SECONDS
    sent,           \* signed messages; the network never forgets one
    handler,        \* the guards in progress
    accepted,       \* history: the nonces the guard let pass
    queue,          \* staged jobs: their evidence, and whether root owns them
    worker,         \* the job the worker is applying, <<>> if none
    used,           \* used-nonces/, root-owned state under /run
    signers,        \* admin-signers of the active configuration, {} if unprovisioned
    applied,        \* history: what was applied, and under which signers
    faults

api == <<store, expired, handler>>
root == <<worker, used, signers, applied>>
vars == <<boot, token, api, sent, accepted, queue, root, faults>>

Idle == [step |-> "idle"]

Init ==
    /\ boot = 1 /\ token = 0
    /\ store = {} /\ expired = {} /\ sent = {}
    /\ handler = [h \in Handlers |-> Idle]
    /\ accepted = {}
    /\ queue = <<>> /\ worker = <<>> /\ used = {}
    /\ signers = {}
    /\ applied = <<>>
    /\ faults = 0

IsProvisioned == signers # {}

-----------------------------------------------------------------------------
(* NonceStore *)

\* _prune
Pruned == {e \in store : e.nonce \notin expired}

Of(c, s) == {e \in s : e.client = c}
Oldest(s) == CHOOSE e \in s : \A f \in s : e.nonce.token <= f.nonce.token

\* _evict_client_over_limit: its oldest goes, one is enough because every issue runs it.
EvictClient(c, s) ==
    LET limit == IF PerClient < MaxOutstanding THEN PerClient ELSE MaxOutstanding
    IN  IF Cardinality(Of(c, s)) >= limit THEN s \ {Oldest(Of(c, s))} ELSE s

\* _evict_over_limit
EvictOldest(s) == IF Cardinality(s) >= MaxOutstanding THEN s \ {Oldest(s)} ELSE s

Evicted(c) == EvictOldest(EvictClient(c, Pruned))

\* GET /api/nonce and the signature the client makes with the answer
Issue(r) ==
    /\ token < MaxNonces
    /\ token' = token + 1
    /\ LET n == [boot |-> boot, token |-> token + 1]
       IN  /\ store' = Evicted(ClientOf[r]) \cup {[nonce |-> n, client |-> ClientOf[r]]}
           /\ sent' = sent \cup {[req |-> r, nonce |-> n]}
    /\ expired' = {}
    /\ UNCHANGED <<boot, handler, accepted, queue, root, faults>>

\* NONCE_TTL_SECONDS pass for the oldest nonce that is still fresh.
Expire ==
    /\ Pruned # {}
    /\ expired' = expired \cup {Oldest(Pruned).nonce}
    /\ UNCHANGED <<boot, token, store, sent, handler, accepted, queue, root, faults>>

-----------------------------------------------------------------------------
(* The guards and the submission *)

Stage(m, local) ==
    /\ Len(queue) < MaxQueue
    /\ queue' = Append(queue, [msg |-> m, local |-> local])

\* ssh_auth_guard lets an unprovisioned root pass; the job carries no authorization.
SubmitInitial(r) ==
    /\ ~IsProvisioned
    /\ Stage(Unsigned(r), FALSE)
    /\ UNCHANGED <<boot, token, api, sent, accepted, root, faults>>

\* build_allowed_signers: the keys of this moment
GuardBegin(h, m) ==
    /\ handler[h] = Idle
    /\ m \in sent /\ IsProvisioned
    /\ handler' = [handler EXCEPT ![h] = [step |-> "consume", msg |-> m, allowed |-> signers]]
    /\ UNCHANGED <<boot, token, store, expired, sent, accepted, queue, root, faults>>

Holds(s, n) == \E e \in s : e.nonce = n

\* Mutant: the nonce is looked up and left in the store.
ConsumeKeeping(h) ==
    /\ handler[h].step = "consume"
    /\ store' = Pruned
    /\ LET n == handler[h].msg.nonce IN
        IF Holds(Pruned, n)
        THEN /\ accepted' = accepted \cup {n}
             /\ handler' = [handler EXCEPT ![h].step = "verify"]
        ELSE /\ accepted' = accepted
             /\ handler' = [handler EXCEPT ![h] = Idle]
    /\ expired' = {}
    /\ UNCHANGED <<boot, token, sent, queue, root, faults>>

\* NonceStore.consume: spent before the body is read or the signature checked
GuardConsume(h) ==
    /\ handler[h].step = "consume"
    /\ LET n == handler[h].msg.nonce IN
        /\ store' = {e \in Pruned : e.nonce # n}
        /\ IF Holds(Pruned, n)
           THEN /\ accepted' = accepted \cup {n}
                /\ handler' = [handler EXCEPT ![h].step = "verify"]
           ELSE /\ accepted' = accepted
                /\ handler' = [handler EXCEPT ![h] = Idle]
    /\ expired' = {}
    /\ UNCHANGED <<boot, token, sent, queue, root, faults>>

\* verify_ssh_signature against the keys read at the start, then submit_staged
GuardVerify(h) ==
    /\ handler[h].step = "verify"
    /\ KeyOf[handler[h].msg.req] \in handler[h].allowed
    /\ Stage(handler[h].msg, FALSE)
    /\ handler' = [handler EXCEPT ![h] = Idle]
    /\ UNCHANGED <<boot, token, store, expired, sent, accepted, root, faults>>

\* A rejected signature, a full queue or a lost connection
GuardReject(h) ==
    /\ handler[h].step = "verify"
    /\ handler' = [handler EXCEPT ![h] = Idle]
    /\ UNCHANGED <<boot, token, store, expired, sent, accepted, queue, root, faults>>

\* The worker takes nothing on trust from the unprivileged service: evidence
\* that was ever sent may turn up in the queue, and more than once.
StageAgain(m) ==
    /\ m \in sent
    /\ Stage(m, FALSE)
    /\ UNCHANGED <<boot, token, api, sent, accepted, root, faults>>

\* A job staged by root (import or apply on the command line)
StageLocal(r) ==
    /\ Stage(Unsigned(r), TRUE)
    /\ UNCHANGED <<boot, token, api, sent, accepted, root, faults>>

-----------------------------------------------------------------------------
(* The worker *)

\* Mutant: the worker relies on the guard for the signature.
AuthorizedByGuard(job) ==
    IF ~IsProvisioned THEN job.msg.nonce = NoNonce
    ELSE \/ job.local
         \/ /\ job.msg.nonce # NoNonce
            /\ job.msg.nonce.boot = boot
            /\ job.msg.nonce \notin used

\* Mutant: the boot of a nonce is not compared.
AuthorizedAnyBoot(job) ==
    IF ~IsProvisioned THEN job.msg.nonce = NoNonce
    ELSE \/ job.local
         \/ /\ job.msg.nonce # NoNonce
            /\ KeyOf[job.msg.req] \in signers
            /\ job.msg.nonce \notin used

nonce_matches_current_boot(n) == n.boot = boot

\* _verify_staged_authorization and the checks of consume_authorization_nonce
Authorized(job) ==
    IF ~IsProvisioned THEN job.msg.nonce = NoNonce
    ELSE \/ job.local
         \/ /\ job.msg.nonce # NoNonce
            /\ KeyOf[job.msg.req] \in signers
            /\ nonce_matches_current_boot(job.msg.nonce)
            /\ job.msg.nonce \notin used

\* Take the head of the queue; its nonce is marked before anything is rendered.
Claim ==
    /\ worker = <<>> /\ queue # <<>> /\ Len(applied) < MaxApplied
    /\ Authorized(Head(queue))
    /\ queue' = Tail(queue)
    /\ worker' = <<Head(queue)>>
    /\ used' = IF IsProvisioned /\ ~Head(queue).local
               THEN used \cup {Head(queue).msg.nonce} ELSE used
    /\ UNCHANGED <<boot, token, api, sent, accepted, signers, applied, faults>>

Reject ==
    /\ worker = <<>> /\ queue # <<>>
    /\ ~Authorized(Head(queue))
    /\ queue' = Tail(queue)
    /\ UNCHANGED <<boot, token, api, sent, accepted, root, faults>>

\* Activation succeeds: the configuration and its signers are in force.
Apply ==
    /\ worker # <<>>
    /\ applied' = Append(applied,
        [req |-> worker[1].msg.req, nonce |-> worker[1].msg.nonce,
         local |-> worker[1].local, signers |-> signers])
    /\ signers' = SignersOf[worker[1].msg.req]
    /\ worker' = <<>>
    /\ UNCHANGED <<boot, token, api, sent, accepted, queue, used, faults>>

\* Validation or activation fails, or the worker is killed and the job finalized.
Abort ==
    /\ worker # <<>>
    /\ worker' = <<>>
    /\ UNCHANGED <<boot, token, api, sent, accepted, queue, used, signers, applied, faults>>

-----------------------------------------------------------------------------
(* Faults *)

RestartApi ==
    /\ faults < MaxFaults
    /\ faults' = faults + 1
    /\ store' = {} /\ expired' = {}
    /\ handler' = [h \in Handlers |-> Idle]
    /\ UNCHANGED <<boot, token, sent, accepted, queue, root>>

\* /run is empty after a reboot, /data keeps the configuration.
Reboot ==
    /\ faults < MaxFaults
    /\ faults' = faults + 1
    /\ boot' = boot + 1
    /\ store' = {} /\ expired' = {}
    /\ handler' = [h \in Handlers |-> Idle]
    /\ queue' = <<>> /\ worker' = <<>> /\ used' = {}
    /\ UNCHANGED <<token, sent, accepted, signers, applied>>

-----------------------------------------------------------------------------
Next ==
    \/ \E r \in Requests : Issue(r) \/ SubmitInitial(r) \/ StageLocal(r)
    \/ Expire
    \/ \E h \in Handlers :
        \/ \E m \in sent : GuardBegin(h, m)
        \/ GuardConsume(h) \/ GuardVerify(h) \/ GuardReject(h)
    \/ \E m \in sent : StageAgain(m)
    \/ Claim \/ Reject \/ Apply \/ Abort
    \/ RestartApi \/ Reboot

Spec == Init /\ [][Next]_vars

-----------------------------------------------------------------------------
(* Properties *)

Jobs == [msg : Messages, local : BOOLEAN]

\* Every variable has its type.
TypeOK ==
    /\ boot \in Nat \ {0} /\ token \in Nat /\ faults \in Nat
    /\ store \subseteq [nonce : Nonces, client : Clients]
    /\ expired \subseteq Nonces
    /\ sent \subseteq Messages /\ accepted \subseteq Nonces /\ used \subseteq Nonces
    /\ handler \in [Handlers ->
         {Idle} \cup [step : {"consume", "verify"}, msg : Messages, allowed : SUBSET Keys]]
    /\ queue \in Seq(Jobs)
    /\ worker \in Seq(Jobs) /\ Len(worker) <= 1
    /\ signers \in SUBSET Keys
    /\ applied \in Seq([req : Requests, nonce : Nonces, local : BOOLEAN, signers : SUBSET Keys])

\* The store stays within its limits, for every client and in all.
StoreBound ==
    /\ Cardinality(store) <= MaxOutstanding
    /\ \A c \in Clients : Cardinality(Of(c, store)) <= PerClient

\* A client that asks for more nonces than it may hold loses its own oldest one,
\* never a fresh nonce of somebody else.
OthersKeepTheirNonces ==
    \A r \in Requests :
        LET c == ClientOf[r]
        IN  Issue(r) /\ Cardinality(Of(c, Pruned)) >= PerClient
            => \A e \in Pruned : e.client # c => Holds(store', e.nonce)

\* The guard lets a nonce pass once, although duplicates of one message are in
\* flight in several handlers and the API may restart between them.
NonceAcceptedOnce ==
    \A h \in Handlers :
        handler[h].step = "consume" /\ handler'[h].step = "verify"
        => handler[h].msg.nonce \notin accepted

Signed(a) == a.nonce # NoNonce

\* A signed request takes effect at most once, across API restarts, reboots and
\* whatever is staged again.
AppliedOnce ==
    \A k, l \in DOMAIN applied :
        Signed(applied[k]) /\ applied[k].nonce = applied[l].nonce => k = l

\* A request takes effect only under the signature of a key that the replaced
\* configuration trusts: a key revoked while the job waits no longer counts.
AppliedByTrustedKey ==
    \A k \in DOMAIN applied :
        ~applied[k].local /\ applied[k].signers # {}
        => Signed(applied[k]) /\ KeyOf[applied[k].req] \in applied[k].signers
=============================================================================
