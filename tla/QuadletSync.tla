---------------------------- MODULE QuadletSync ----------------------------
(***************************************************************************)
(* Rendering a configuration to Quadlet units (quadlet.py, provision.py)   *)
(* and quadlet-sync.service, which copies the units of the active tree to  *)
(* a rootful and a rootless directory, keeps a manifest of them in each,   *)
(* stops what is stale and restarts what is declared.                      *)
(*                                                                         *)
(* The activation hook only waits for the service: when the hook times out *)
(* the sync goes on while the tree is swapped underneath it, until the     *)
(* next hook restarts the service, which kills it wherever it is.          *)
(***************************************************************************)
EXTENDS Integers, FiniteSets, Sequences

CONSTANTS
    Containers, Networks, Volumes, Builds,   \* units a configuration may declare
    Service,        \* the systemd service Quadlet generates for each unit
    Configs,        \* configurations an operator may send
    MaxApplies,     \* bound: configurations promoted
    MaxFaults       \* bound: failed activations and commands, reboots

Units == Containers \cup Networks \cup Volumes \cup Builds
Modes == {"rootful", "rootless"}

\* image gives the build whose ImageTag a container names; mounts its named volumes.
ConfigType == [containers : SUBSET Containers, privileged : SUBSET Containers,
               image : [Containers -> Builds \cup {"registry"}],
               mounts : [Containers -> SUBSET Volumes],
               networks : SUBSET Networks, volumes : SUBSET Volumes, builds : SUBSET Builds]

\* What the constants must satisfy; the module that instantiates this one assumes it.
QuadletConstants ==
    /\ IsFiniteSet(Units) /\ "registry" \notin Builds
    /\ Containers \cap (Networks \cup Volumes \cup Builds) = {}
    /\ Networks \cap (Volumes \cup Builds) = {} /\ Volumes \cap Builds = {}
    /\ DOMAIN Service = Units
    /\ Configs \subseteq ConfigType
    /\ MaxApplies \in Nat /\ MaxFaults \in Nat

VARIABLES
    sent,           \* the configurations promoted so far, in order
    active, rback,  \* active and rollback tree: a position in sent, or 0
    stage,          \* none, applied (activation under way) or restored
    hooked,         \* the activation hook of this stage has restarted the service
    files,          \* per target directory: tree each unit file came from, or 0
    manifest,       \* per target directory: .atomixos-managed-quadlets.json
    running,        \* per mode: tree each running service was started for, or 0
    pc, mode, todo, \* the running sync: step, directory, what the step has left
    desired, stale, \* units_by_mode and the stale services it computed
    syncFor,        \* history: tree the sync was started for, 0 once it is replaced
    found,          \* history: unmanaged files and services when the sync started
    tried, failed,  \* history: services this sync restarted, and those it failed to
                    \* restart or to stop
    faults

trees == <<sent, active, rback, stage, hooked>>
targets == <<files, manifest>>
sync == <<pc, mode, todo, desired, stale>>
history == <<syncFor, found, tried, failed>>
vars == <<trees, targets, running, sync, history, faults>>

-----------------------------------------------------------------------------
(* Rendering *)

ModeOf(c, u) == IF u \in c.privileged THEN "rootful" ELSE "rootless"

\* Modes of the containers that use a unit; a unit nobody uses is rootful.
Consumers(c, users) == {ModeOf(c, u) : u \in users}
OrRootful(modes) == IF modes = {} THEN {"rootful"} ELSE modes

infer_build_modes(c, b) == OrRootful(Consumers(c, {u \in c.containers : c.image[u] = b}))
infer_volume_modes(c, v) == OrRootful(Consumers(c, {u \in c.containers : v \in c.mounts[u]}))

render_containers(c, m) == {u \in c.containers : ModeOf(c, u) = m}
render_networks(c, m) == IF m = "rootful" THEN c.networks ELSE {}
render_volumes(c, m) == {v \in c.volumes : m \in infer_volume_modes(c, v)}
render_builds(c, m) == {b \in c.builds : m \in infer_build_modes(c, b)}

\* The units quadlet-runtime.json lists for a mode.
Rendered(c, m) == render_containers(c, m) \cup render_networks(c, m)
                    \cup render_volumes(c, m) \cup render_builds(c, m)

\* validate_unique_runtime_services
UniqueServices(c) ==
    \A m \in Modes : \A u, v \in Rendered(c, m) : Service[u] = Service[v] => u = v

Services(units) == {Service[u] : u \in units}
RenderedUnits(tree) == [m \in Modes |-> IF tree = 0 THEN {} ELSE Rendered(sent[tree], m)]

-----------------------------------------------------------------------------
Nowhere(x) == [m \in Modes |-> x]
NoFiles == [u \in Units |-> 0]
NoServices == [s \in Services(Units) |-> 0]

Init ==
    /\ sent = <<>> /\ active = 0 /\ rback = 0 /\ stage = "none" /\ hooked = FALSE
    /\ files = Nowhere(NoFiles) /\ manifest = Nowhere({}) /\ running = Nowhere(NoServices)
    /\ pc = "idle" /\ mode = "rootful" /\ todo = {}
    /\ desired = Nowhere({}) /\ stale = Nowhere({})
    /\ syncFor = 0 /\ tried = Nowhere({}) /\ failed = Nowhere({})
    /\ found = [files |-> Nowhere({}), services |-> Nowhere({})]
    /\ faults = 0

Fault == faults < MaxFaults /\ faults' = faults + 1

-----------------------------------------------------------------------------
(* The worker *)

Promote(c) ==
    /\ stage = "none" /\ Len(sent) < MaxApplies
    /\ UniqueServices(c)
    /\ sent' = Append(sent, c) /\ rback' = active /\ active' = Len(sent')
    /\ stage' = "applied" /\ hooked' = FALSE /\ syncFor' = 0
    /\ UNCHANGED <<targets, running, sync, found, tried, failed, faults>>

Commit ==
    /\ stage = "applied" /\ hooked /\ pc = "idle" /\ syncFor = active
    /\ stage' = "none" /\ rback' = 0
    /\ UNCHANGED <<sent, active, hooked, targets, running, sync, history, faults>>

\* complete_reapply: the hook fails or times out and the rollback tree comes back; a
\* first configuration is discarded, and no hook runs after that.
Restore ==
    /\ stage = "applied" /\ Fault
    /\ active' = rback /\ rback' = 0
    /\ stage' = IF rback = 0 THEN "none" ELSE "restored"
    /\ hooked' = FALSE /\ syncFor' = 0
    /\ UNCHANGED <<sent, targets, running, sync, found, tried, failed>>

\* run_rollback_activation: its outcome changes nothing.
RollbackEnds ==
    /\ stage = "restored"
    /\ IF hooked /\ pc = "idle" THEN UNCHANGED faults ELSE Fault
    /\ stage' = "none"
    /\ UNCHANGED <<sent, active, rback, hooked, targets, running, sync, history>>

-----------------------------------------------------------------------------
(* quadlet-sync.sh *)

\* list_stale_services_by_mode: managed here and no service of the tree
StaleServices(m, tree) == Services(manifest'[m]) \ Services(RenderedUnits(tree)[m])

\* The script up to sync-quadlet reading the metadata.
BeginSync(tree) ==
    /\ stale' = [m \in Modes |-> StaleServices(m, tree)]
    /\ desired' = RenderedUnits(tree)
    /\ pc' = (IF tree = 0 THEN "idle" ELSE "copy") /\ mode' = "rootful" /\ todo' = desired'["rootful"]
    /\ syncFor' = tree /\ tried' = Nowhere({}) /\ failed' = Nowhere({})
    /\ found' = [files |-> [m \in Modes |-> {u \in Units : files'[m][u] # 0} \ manifest'[m]],
                 services |-> [m \in Modes |->
                    {s \in Services(Units) : running'[m][s] # 0} \ Services(manifest'[m])]]

\* The hook restarts the service, killing a sync that still runs.
RestartSync ==
    /\ stage \in {"applied", "restored"} /\ ~ hooked
    /\ UNCHANGED <<targets, running>>
    /\ BeginSync(active)
    /\ hooked' = TRUE
    /\ UNCHANGED <<sent, active, rback, stage, faults>>

To(step, m, rest) == pc' = step /\ mode' = m /\ todo' = rest
Elsewhere == UNCHANGED <<trees, desired, stale, syncFor, found>>
InTree(u) == \E m \in Modes : u \in RenderedUnits(active)[m]

\* sync_quadlet_units: _copy_unit_atomic from the tree that is active by now
CopyUnit(u) ==
    /\ pc = "copy" /\ u \in todo /\ InTree(u)
    /\ files' = [files EXCEPT ![mode][u] = active]
    /\ To("copy", mode, todo \ {u})
    /\ Elsewhere /\ UNCHANGED <<manifest, running, tried, failed, faults>>

\* The unit is not in the tree any more: the copy raises and the service fails.
CopyFails ==
    /\ pc = "copy" /\ \E u \in todo : ~ InTree(u)
    /\ To("idle", mode, {})
    /\ syncFor' = 0
    /\ UNCHANGED <<trees, targets, running, desired, stale, found, tried, failed, faults>>

CopiesDone ==
    /\ pc = "copy" /\ todo = {}
    /\ To("unlink", mode, manifest[mode] \ desired[mode])
    /\ Elsewhere /\ UNCHANGED <<targets, running, tried, failed, faults>>

\* Bug: stale units of the rootless directory stay.
UnlinkRootful(u) ==
    /\ pc = "unlink" /\ u \in todo
    /\ files' = IF mode = "rootful" THEN [files EXCEPT ![mode][u] = 0] ELSE files
    /\ To("unlink", mode, todo \ {u})
    /\ Elsewhere /\ UNCHANGED <<manifest, running, tried, failed, faults>>

UnlinkStale(u) ==
    /\ pc = "unlink" /\ u \in todo
    /\ files' = [files EXCEPT ![mode][u] = 0]
    /\ To("unlink", mode, todo \ {u})
    /\ Elsewhere /\ UNCHANGED <<manifest, running, tried, failed, faults>>

\* _write_managed_manifest, then the rootless directory or the stops
WriteManifest ==
    /\ pc = "unlink" /\ todo = {}
    /\ manifest' = [manifest EXCEPT ![mode] = desired[mode]]
    /\ IF mode = "rootful" THEN To("copy", "rootless", desired["rootless"])
                           ELSE To("stop", "rootful", stale["rootful"])
    /\ Elsewhere /\ UNCHANGED <<files, running, tried, failed, faults>>

\* systemctl stop; a failure is only logged.
StopStale(s) ==
    /\ pc = "stop" /\ s \in todo
    /\ \/ running' = [running EXCEPT ![mode][s] = 0] /\ UNCHANGED <<failed, faults>>
       \/ failed' = [failed EXCEPT ![mode] = @ \cup {s}] /\ Fault /\ UNCHANGED running
    /\ To("stop", mode, todo \ {s})
    /\ Elsewhere /\ UNCHANGED <<targets, tried>>

\* What the script lists from the metadata of the tree that is active by now.
Listed(m, builds) == Services({u \in RenderedUnits(active)[m] : (u \in Builds) = builds})

\* The next list, or the end of the script.
StepDone ==
    /\ pc \in {"stop", "build", "start"} /\ todo = {}
    /\ \/ pc = "stop" /\ mode = "rootful" /\ To("stop", "rootless", stale["rootless"])
       \/ pc = "stop" /\ mode = "rootless" /\ To("build", "rootful", Listed("rootful", TRUE))
       \/ pc = "build" /\ To("start", mode, Listed(mode, FALSE))
       \/ pc = "start" /\ mode = "rootful" /\ To("build", "rootless", Listed("rootless", TRUE))
       \/ pc = "start" /\ mode = "rootless" /\ To("idle", mode, {})
    /\ Elsewhere /\ UNCHANGED <<targets, running, tried, failed, faults>>

Installed(s) == {u \in Units : Service[u] = s /\ files[mode][u] # 0}

\* systemctl restart of a build or of anything else; a failure is only logged.
RestartService(s) ==
    /\ pc \in {"build", "start"} /\ s \in todo
    /\ \/ \E u \in Installed(s) : running' = [running EXCEPT ![mode][s] = files[mode][u]]
          /\ UNCHANGED <<failed, faults>>
       \/ /\ IF Installed(s) = {} THEN UNCHANGED faults ELSE Fault
          /\ running' = [running EXCEPT ![mode][s] = 0]
          /\ failed' = [failed EXCEPT ![mode] = @ \cup {s}]
    /\ tried' = [tried EXCEPT ![mode] = @ \cup {s}]
    /\ To(pc, mode, todo \ {s})
    /\ Elsewhere /\ UNCHANGED targets

\* Both directories are on the overlay root: a boot starts without them.  Recovery has
\* chosen the tree before the service starts, which it does when there is one.
Reboot ==
    /\ Fault
    /\ active' = IF stage = "applied" THEN rback ELSE active
    /\ rback' = 0 /\ stage' = "none" /\ hooked' = FALSE
    /\ files' = Nowhere(NoFiles) /\ manifest' = Nowhere({}) /\ running' = Nowhere(NoServices)
    /\ BeginSync(active')
    /\ UNCHANGED sent

Next ==
    \/ \E c \in Configs : Promote(c)
    \/ Commit \/ Restore \/ RollbackEnds \/ RestartSync \/ Reboot
    \/ \E u \in Units : CopyUnit(u) \/ UnlinkStale(u)
    \/ CopyFails \/ CopiesDone \/ WriteManifest \/ StepDone
    \/ \E s \in Services(Units) : StopStale(s) \/ RestartService(s)

Spec == Init /\ [][Next]_vars

-----------------------------------------------------------------------------
(* Properties *)

TypeOK ==
    /\ sent \in Seq(Configs) /\ Len(sent) <= MaxApplies
    /\ active \in 0..Len(sent) /\ rback \in 0..Len(sent)
    /\ stage \in {"none", "applied", "restored"} /\ hooked \in BOOLEAN
    /\ files \in [Modes -> [Units -> 0..Len(sent)]]
    /\ manifest \in [Modes -> SUBSET Units] /\ desired \in [Modes -> SUBSET Units]
    /\ running \in [Modes -> [Services(Units) -> 0..Len(sent)]]
    /\ pc \in {"idle", "copy", "unlink", "stop", "build", "start"} /\ mode \in Modes
    /\ todo \subseteq IF pc \in {"copy", "unlink"} THEN Units ELSE Services(Units)
    /\ stale \in [Modes -> SUBSET Services(Units)] /\ failed \in [Modes -> SUBSET Services(Units)]
    /\ tried \in [Modes -> SUBSET Services(Units)]
    /\ syncFor \in 0..Len(sent) /\ faults \in 0..MaxFaults
    /\ found.files \in [Modes -> SUBSET Units]
    /\ found.services \in [Modes -> SUBSET Services(Units)]

\* The last sync was started for the active tree and has ended.
Synced == pc = "idle" /\ active # 0 /\ syncFor = active

\* After a sync each directory holds every unit of the active tree in its mode, with
\* the content of that tree, a manifest that lists just these, and no other unit file
\* but one that was there unmanaged when the sync began (sync_quadlet_units).
UnitsFollowConfig ==
    Synced => \A m \in Modes :
        /\ manifest[m] = RenderedUnits(active)[m]
        /\ \A u \in Units : IF u \in manifest[m] THEN files[m][u] = active
                            ELSE files[m][u] # 0 => u \in found.files[m]

\* After a sync every service of the active tree runs the unit of that tree, and no
\* other service runs, but for a command that failed in this sync and for what was
\* there unmanaged when it began: a running service, or a unit file that generates a
\* service of the same name (quadlet-sync.sh).
ServicesFollowConfig ==
    Synced => \A m \in Modes :
        \A s \in Services(Units) \ (failed[m] \cup Services(found.files[m])) :
        IF s \in Services(RenderedUnits(active)[m]) THEN running[m][s] = active
        ELSE running[m][s] # 0 => s \in found.services[m]

\* A container is started after its build was run and its volumes were installed,
\* both in the mode it runs in (infer_build_modes, infer_volume_modes and the
\* order of the restarts).
InputsReady ==
    syncFor = active /\ active # 0 =>
        LET c == sent[active] IN
        \A u \in c.containers : LET m == ModeOf(c, u) IN
            Service[u] \in tried[m] =>
                /\ c.image[u] \in c.builds => Service[c.image[u]] \in tried[m]
                /\ \A v \in c.mounts[u] \cap c.volumes : files[m][v] = active
=============================================================================
