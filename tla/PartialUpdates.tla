--------------------------- MODULE PartialUpdates --------------------------
(***************************************************************************)
(* The typed PUT, PATCH and DELETE routes: the route builds an operation   *)
(* and stages a candidate rendered from the configuration of that moment,  *)
(* the worker derives the operation again from the signed request and      *)
(* applies it to the configuration it finds.  A full apply may come in     *)
(* between.                                                                *)
(*                                                                         *)
(* A nested table is a function from paths to scalars or "table"; every    *)
(* proper prefix of a path is a table.  In a patch a value may be "null".  *)
(***************************************************************************)
EXTENDS Integers, Sequences, FiniteSets, SequencesExt

CONSTANTS
    Keys, MaxDepth,     \* keys of the network table, and bound: how deep it nests
    Scalars,            \* its values
    Names,              \* users and resources
    Tables,             \* container, network, volume
    MaxChanges          \* bound: configurations applied

PartialConstants ==
    /\ IsFiniteSet(Keys) /\ MaxDepth \in Nat /\ Scalars \cap {"table", "null"} = {}
    /\ "container" \in Tables /\ Tables \cap {"users", "network-settings"} = {}
    /\ MaxChanges \in Nat

Absent == "absent"
Paths == BoundedSeq(Keys, MaxDepth) \ {<<>>}

IsTable(t, p) == p \in DOMAIN t /\ t[p] = "table"
WellFormed(t) == \A p \in DOMAIN t : \A n \in 1 .. Len(p) - 1 : IsTable(t, SubSeq(p, 1, n))
Nested(values) ==
    {t \in UNION {[D -> values \cup {"table"}] : D \in SUBSET Paths} :
        /\ WellFormed(t)
        /\ \A p \in DOMAIN t : Len(p) = MaxDepth => t[p] # "table"}

\* Configurations that load_config accepts: an admin, a container, every required one
Users == [Names -> {Absent, "admin", "plain"}]
Resources == [Tables \X Names -> {Absent, "v1", "v2"}]
Valid(c) ==
    /\ \E n \in Names : c.users[n] = "admin"
    /\ \E n \in Names : c.resources[<<"container", n>>] # Absent
    /\ \A n \in c.required : c.resources[<<"container", n>>] # Absent

\* A request as the client signs it.  A body is a payload, or empty.
Requests ==
    [method : {"PUT"}, route : {"users"}, name : Names, body : {"admin", "plain", "malformed"}]
    \cup [method : {"PUT"}, route : Tables, name : Names, body : {"v1", "v2", "malformed"}]
    \cup [method : {"DELETE"}, route : Tables \cup {"users"}, name : Names, body : {"empty", "v1"}]
    \cup [method : {"PATCH"}, route : {"network-settings"}, name : {"-"}, body : {"patch"}]

VARIABLES
    config,     \* the active configuration
    staged,     \* the request in the queue, the operation of its route, the patch
    result,     \* none, staged, applied, refused or failed
    base, last, \* history: configuration before the last partial apply, its operation
    changes

vars == <<config, staged, result, base, last, changes>>

NoOp == [op |-> "none"]

-----------------------------------------------------------------------------
(* partial_config.py *)

Below(t, at) == {p \in DOMAIN t : IsPrefix(at, p)}
Without(t, at) == [p \in DOMAIN t \ Below(t, at) |-> t[p]]
Grafted(t, q, at) ==
    LET kept == Without(t, at) IN
    [p \in DOMAIN kept \cup Below(q, at) |-> IF p \in Below(q, at) THEN q[p] ELSE kept[p]]

\* One turn of the loop of _deep_merge.  A table that both sides have is left to the turns
\* of its own keys.
merge_item(target, q, p) ==
    IF q[p] = "null" THEN Without(target, p)
    ELSE IF IsTable(q, p) /\ IsTable(target, p) THEN target
    ELSE Grafted(target, q, p)

\* The items of the patch that the recursion comes to: those in tables that both sides have
Items(t, q) == {p \in DOMAIN q : \A r \in DOMAIN q : IsStrictPrefix(r, p) => IsTable(t, r)}

\* Bug: a table in the patch takes the place of the table it should merge with.
ShallowMerge(t, q) ==
    FoldSet(LAMBDA p, target : IF q[p] = "null" THEN Without(target, p) ELSE Grafted(target, q, p),
            t, {p \in DOMAIN q : Len(p) = 1})

\* _deep_merge, the recursion flattened: every turn changes its own key only, so the order
\* of the items is not told apart.
deep_merge(t, q) == FoldSet(LAMBDA p, target : merge_item(target, q, p), t, Items(t, q))

put_user(c, o) == [c EXCEPT !.users[o.name] = o.payload]
delete_user(c, o) == [c EXCEPT !.users[o.name] = Absent]
put_resource(c, o) == [c EXCEPT !.resources[<<o.table, o.name>>] = o.payload]
delete_resource(c, o) == [c EXCEPT !.resources[<<o.table, o.name>>] = Absent]
patch_network(c, o) == [c EXCEPT !.network = deep_merge(@, o.patch)]

\* apply_operation
apply_operation(c, o) ==
    CASE o.op = "put_user" -> put_user(c, o)
      [] o.op = "delete_user" -> delete_user(c, o)
      [] o.op = "put_resource" -> put_resource(c, o)
      [] o.op = "delete_resource" -> delete_resource(c, o)
      [] o.op = "patch_network" -> patch_network(c, o)

\* _require_payload and the required keys
Malformed(o) == o.op \in {"put_user", "put_resource"} /\ o.payload = "malformed"

\* canonical_config_bytes refuses a null that is left over.
Serializable(c) == \A p \in DOMAIN c.network : c.network[p] # "null"

\* The candidate is rendered: apply_operation, canonical_config_bytes, load_config
Renders(c, o) ==
    /\ o # NoOp /\ ~ Malformed(o)
    /\ Serializable(apply_operation(c, o)) /\ Valid(apply_operation(c, o))

-----------------------------------------------------------------------------
(* controller.py and _request_operation *)

\* The operations the routes build; the DELETE routes do not look at the body.
put_partial_user(r) == [op |-> "put_user", name |-> r.name, payload |-> r.body]
delete_partial_user(r) == [op |-> "delete_user", name |-> r.name]
patch_partial_network(patch) == [op |-> "patch_network", patch |-> patch]

\* The six routes of containers, container networks and container volumes
resource_route(r) ==
    IF r.method = "PUT"
    THEN [op |-> "put_resource", table |-> r.route, name |-> r.name, payload |-> r.body]
    ELSE [op |-> "delete_resource", table |-> r.route, name |-> r.name]

RouteOperation(r, patch) ==
    CASE r.route = "network-settings" -> patch_partial_network(patch)
      [] r.route = "users" /\ r.method = "PUT" -> put_partial_user(r)
      [] r.route = "users" /\ r.method = "DELETE" -> delete_partial_user(r)
      [] r.route \in Tables -> resource_route(r)

\* _request_operation: the same from method, path and body; DELETE requires an empty body.
request_operation(r, patch) ==
    CASE r.method = "PATCH" -> [op |-> "patch_network", patch |-> patch]
      [] r.method = "PUT" /\ r.route = "users" ->
            [op |-> "put_user", name |-> r.name, payload |-> r.body]
      [] r.method = "PUT" /\ r.route \in Tables ->
            [op |-> "put_resource", table |-> r.route, name |-> r.name, payload |-> r.body]
      [] r.method = "DELETE" /\ r.body # "empty" -> NoOp
      [] r.method = "DELETE" /\ r.body = "empty" /\ r.route = "users" ->
            [op |-> "delete_user", name |-> r.name]
      [] r.method = "DELETE" /\ r.body = "empty" /\ r.route \in Tables ->
            [op |-> "delete_resource", table |-> r.route, name |-> r.name]

-----------------------------------------------------------------------------
Init ==
    /\ config \in [users : {u \in Users : \E n \in Names : u[n] = "admin"},
                   resources : {[x \in Tables \X Names |-> "v1"]},
                   network : Nested(Scalars), required : {{}, Names}]
    /\ staged = <<>> /\ result = "none"
    /\ base = config /\ last = NoOp /\ changes = 0

\* _submit_partial_operation and _stage_config_operation_sync: 202, or a refusal
Submit(r, patch) ==
    /\ LET o == RouteOperation(r, patch) IN
        IF Renders(config, o)
        THEN staged' = <<[request |-> r, patch |-> patch, route |-> o]>> /\ result' = "staged"
        ELSE result' = "refused" /\ UNCHANGED staged
    /\ UNCHANGED <<config, base, last, changes>>

\* A full apply that got into the queue first
FullApply(c) ==
    /\ Valid(c) /\ c # config /\ changes < MaxChanges
    /\ config' = c /\ changes' = changes + 1
    /\ base' = c /\ last' = NoOp
    /\ UNCHANGED <<staged, result>>

\* Bug: the worker applies the candidate of the staging client.
WorkerAppliesStaged ==
    /\ staged # <<>>
    /\ LET o == request_operation(staged[1].request, staged[1].patch) IN
        /\ Renders(config, o)
        /\ config' = apply_operation(base, o) /\ base' = config /\ last' = o
    /\ staged' = <<>> /\ result' = "applied" /\ changes' = changes + 1

\* _render_verified_staged_candidate_sync for a partial operation
WorkerApplies ==
    /\ staged # <<>>
    /\ LET o == request_operation(staged[1].request, staged[1].patch) IN
        /\ Renders(config, o)
        /\ config' = apply_operation(config, o) /\ base' = config /\ last' = o
    /\ staged' = <<>> /\ result' = "applied" /\ changes' = changes + 1

\* The request does not map, or no longer fits the configuration.
WorkerRefuses ==
    /\ staged # <<>>
    /\ ~ Renders(config, request_operation(staged[1].request, staged[1].patch))
    /\ staged' = <<>> /\ result' = "failed"
    /\ UNCHANGED <<config, base, last, changes>>

\* Activation fails and the rollback tree comes back.
ActivationFails ==
    /\ staged # <<>>
    /\ staged' = <<>> /\ result' = "failed"
    /\ UNCHANGED <<config, base, last, changes>>

Patches == Nested(Scalars \cup {"null"})

\* What a full apply may bring here: one user less or more, another network table
Neighbours == {[config EXCEPT !.users[n] = u] : n \in Names, u \in {Absent, "admin"}}
                \cup {[config EXCEPT !.network = [p \in {} |-> "table"]]}

\* One request at a time is followed from its route to the worker.
Route ==
    /\ staged = <<>> /\ changes < MaxChanges
    /\ \/ \E r \in Requests : r.method # "PATCH" /\ Submit(r, <<>>)
       \/ \E r \in {x \in Requests : x.method = "PATCH"}, q \in Patches : Submit(r, q)

Next ==
    \/ Route
    \/ \E c \in Neighbours : FullApply(c)
    \/ WorkerApplies \/ WorkerRefuses \/ ActivationFails

Spec == Init /\ [][Next]_vars

-----------------------------------------------------------------------------
(* Properties *)

\* Type invariant; also: whatever was applied is a configuration that load_config accepts.
TypeOK ==
    /\ Valid(config) /\ config.users \in Users /\ config.resources \in Resources
    /\ WellFormed(config.network)
    /\ Len(staged) <= 1 /\ result \in {"none", "staged", "applied", "refused", "failed"}
    /\ changes \in 0..(MaxChanges + 1)

\* The merge a PATCH promises, path by path: what the patch sets it sets, what it sets to
\* null or replaces by something that is not a table is gone with all below it, and
\* everything else stays.
Hidden(q, p) == \E r \in DOMAIN q : IsPrefix(r, p) /\ q[r] # "table"
MergedPaths(t, q) ==
    {p \in DOMAIN q : q[p] # "null"} \cup {p \in DOMAIN t : ~ Hidden(q, p)}
Merged(t, q) ==
    [p \in MergedPaths(t, q) |->
        IF p \in DOMAIN q THEN q[p] ELSE t[p]]

\* A PATCH that was applied gave exactly that merge of the configuration it found
\* (_deep_merge; a null below a table the configuration does not have is refused).
PatchMerges == last.op = "patch_network" => config.network = Merged(base.network, last.patch)

\* A partial update changes the one user, resource or table its path names: nothing that
\* a full apply set while it was in the queue is undone.
Named(o, u) == o.op \in {"put_user", "delete_user"} /\ o.name = u
NamedResource(o, x) == o.op \in {"put_resource", "delete_resource"} /\ x = <<o.table, o.name>>
OnlyNamedChanges ==
    /\ \A n \in Names : ~ Named(last, n) => config.users[n] = base.users[n]
    /\ \A x \in Tables \X Names : ~ NamedResource(last, x) => config.resources[x] = base.resources[x]
    /\ last.op # "patch_network" => config.network = base.network
    /\ config.required = base.required

\* A client that repeats a request it got no answer for changes nothing more.
RepeatIsHarmless == last # NoOp => Renders(config, last) /\ apply_operation(config, last) = config

\* The worker derives from the signed request the operation the route staged, or it
\* refuses a DELETE that carries a body.
WorkerMatchesRoute ==
    staged # <<>> =>
        LET s == staged[1]
            o == request_operation(s.request, s.patch) IN
        o = s.route \/ (o = NoOp /\ s.request.method = "DELETE")
=============================================================================
