------------------------- MODULE MCActivationUnits -------------------------
(***************************************************************************)
(* The three programs that carry a promoted tree into the system:          *)
(* apply-users.py, the quadlet sync and lan-gateway-apply.py.  They share  *)
(* no state: each reads the active tree, writes files of its own and runs  *)
(* under a unit of its own.  A behaviour therefore follows one of them     *)
(* (program) and leaves the others as they start, which reaches every      *)
(* state of each without the product of all three.                         *)
(***************************************************************************)
EXTENDS Integers, FiniteSets, Sequences, TLC

CONSTANTS
    Users, ImageUsers, Protected,
    Bits, MinPrefix, MaxPrefix, EthKeys, PhysicalKeys,
    MaxApplies,         \* bound: configurations promoted
    UserFaults, SyncFaults, NetworkFaults   \* bounds: MaxFaults of each program

VARIABLES
    program,            \* users, quadlets or network
    \* ManagedUsers
    acct, wheel, owned, root, userBack, phase, purpose, previous, current, userTodo, user,
    applied, stray, dropped, userApplies, userFaults,
    \* QuadletSync
    sent, active, unitBack, unitStage, hooked, unitFiles, manifest, running, unitPc, mode,
    unitTodo, desired, stale, syncFor, found, tried, failed, syncFaults,
    \* LanGateway
    tree, netBack, netStage, netPc, netFiles, loaded, payload, changed, before, behind,
    netApplies, netFaults

-----------------------------------------------------------------------------
(* Quadlets: container "app-volume" and volume "app" both give              *)
(* app-volume.service.                                                     *)

Containers == {"app", "app-volume"}
Networks == {"net"}
Volumes == {"app.volume"}
Builds == {"img"}

Service ==
    [u \in {"app", "app-volume", "net", "app.volume", "img"} |->
        CASE u = "app" -> "app.service"
          [] u \in {"app-volume", "app.volume"} -> "app-volume.service"
          [] u = "net" -> "net-network.service"
          [] u = "img" -> "img-build.service"]

Config(cs, ps, img, vols, nets) ==
    [containers |-> cs, privileged |-> ps,
     image |-> [u \in Containers |-> IF img THEN "img" ELSE "registry"],
     mounts |-> [u \in Containers |-> IF u = "app" THEN vols ELSE {}],
     networks |-> nets, volumes |-> vols, builds |-> IF img THEN {"img"} ELSE {}]

\* Rootless and rootful use of the same build and volume, both modes at once, a
\* collision in the rootful mode, and plain containers that come and go.
Configs == {
    Config({"app"}, {}, TRUE, {"app.volume"}, {}),
    Config({"app"}, {"app"}, FALSE, {"app.volume"}, {}),
    Config({"app", "app-volume"}, {"app"}, TRUE, {}, {}),
    Config({"app-volume"}, {"app-volume"}, FALSE, {}, {"net"}),
    Config({"app", "app-volume"}, {"app", "app-volume"}, FALSE, {"app.volume"}, {}) }

-----------------------------------------------------------------------------
(* Networks *)

DefaultGateway == [ip |-> 1, prefix |-> 1]
NoAddress == [ip |-> -1, prefix |-> -1]
Kinds == {"plain", "dotted", "invalid"}
Static(i, d) == [mode |-> "static", address |-> i, dns |-> d]
Dhcp(d) == [mode |-> "dhcp", address |-> NoAddress, dns |-> d]
NoInterfaces == [k \in {} |-> Dhcp(FALSE)]

Raw(gw, s, e, kinds, dns, ifs) ==
    [gateway_cidr |-> gw, start |-> s, end |-> e, domain |-> kinds[1], pattern |-> kinds[2],
     ntp |-> kinds[3], dns |-> dns, interfaces |-> ifs]

AllPlain == <<"plain", "plain", "plain">>
Gw == [ip |-> 4, prefix |-> 1]

\* Configurations that differ in one file or another, and one that is refused
RawConfigs == {
    Raw(NoAddress, 2, 3, AllPlain, FALSE, NoInterfaces),
    Raw(NoAddress, 2, 3, <<"dotted", "plain", "plain">>, TRUE, ("eth1" :> Dhcp(FALSE))),
    Raw(Gw, 5, 7, AllPlain, FALSE, ("lan" :> Static(Gw, TRUE)) @@ ("wan" :> Static(Gw, FALSE))),
    Raw(NoAddress, 2, 3, AllPlain, FALSE, ("eth0" :> Dhcp(FALSE))) }

\* Every gateway, pool and LAN address, and every kind of each name
EveryRaw ==
    LET Addr == 0..(2^Bits - 1) IN
    {Raw(gw, s, e, AllPlain, FALSE, ifs) :
        gw \in {NoAddress} \cup [ip : {1, 4, 5}, prefix : 0..Bits], s \in Addr, e \in Addr,
        ifs \in {NoInterfaces} \cup {("lan" :> l) : l \in {Dhcp(FALSE), Static(Gw, FALSE),
                    Static([ip |-> 1, prefix |-> 2], FALSE), Static(NoAddress, FALSE)}}}
    \cup {Raw(NoAddress, 2, 3, <<d, p, n>>, FALSE, NoInterfaces) :
            d \in Kinds, p \in Kinds, n \in Kinds}
    \cup {Raw(NoAddress, 2, 3, AllPlain, d, (k :> i)) : d \in BOOLEAN,
            k \in EthKeys \cup {"wan"}, i \in {Dhcp(FALSE), Dhcp(TRUE), Static(Gw, FALSE)}}

-----------------------------------------------------------------------------
Accounts == INSTANCE ManagedUsers
    WITH MaxFaults <- UserFaults, rback <- userBack, todo <- userTodo,
         applies <- userApplies, faults <- userFaults

Quadlets == INSTANCE QuadletSync
    WITH MaxFaults <- SyncFaults, rback <- unitBack, stage <- unitStage, files <- unitFiles,
         pc <- unitPc, todo <- unitTodo, faults <- syncFaults

Network == INSTANCE LanGateway
    WITH MaxFaults <- NetworkFaults, rback <- netBack, stage <- netStage, pc <- netPc,
         files <- netFiles, applies <- netApplies, faults <- netFaults

ASSUME UnitConstants ==
    /\ Accounts!ManagedUsersConstants /\ Quadlets!QuadletConstants
    /\ Network!NetworkConstants /\ Network!LanGatewayConstants

accounts == <<acct, wheel, owned, root, userBack, phase, purpose, previous, current, userTodo,
              user, applied, stray, dropped, userApplies, userFaults>>
quadlets == <<sent, active, unitBack, unitStage, hooked, unitFiles, manifest, running, unitPc,
              mode, unitTodo, desired, stale, syncFor, found, tried, failed, syncFaults>>
network == <<tree, netBack, netStage, netPc, netFiles, loaded, payload, changed, before,
             behind, netApplies, netFaults>>
vars == <<program, accounts, quadlets, network>>

Init ==
    /\ program \in {"users", "quadlets", "network"}
    /\ Accounts!Init /\ Quadlets!Init /\ Network!Init

ApplyUsers ==
    /\ program = "users" /\ Accounts!Next
    /\ UNCHANGED <<program, quadlets, network>>

SyncQuadlets ==
    /\ program = "quadlets" /\ Quadlets!Next
    /\ UNCHANGED <<program, accounts, network>>

ApplyNetwork ==
    /\ program = "network" /\ Network!Next
    /\ UNCHANGED <<program, accounts, quadlets>>

Next == ApplyUsers \/ SyncQuadlets \/ ApplyNetwork

Spec == Init /\ [][Next]_vars

-----------------------------------------------------------------------------
(* Properties *)

\* After a complete run of apply-users no declared user is locked, each owns its key and
\* exactly the declared admins have admin groups; a declared user is without its shell
\* only if a tree activated since the boot left it out.  Every other account it ever made
\* is locked, but for those of a run that failed before it saved its record, or whose
\* record went with a failed tree in a killed restore; accounts of the image are never
\* touched.
AccountsFollowConfig ==
    program = "users" =>
        /\ Accounts!TypeOK
        /\ Accounts!DeclaredOpen /\ Accounts!RemovedLocked /\ Accounts!ImageUntouched

\* apply-users refuses no user of a tree that a rollback or a boot brings back.
RestoredAdmitted == program = "users" => Accounts!RestoredAdmitted

\* After a sync, wherever earlier ones were killed, each unit directory and its manifest
\* hold the units of the active tree, each service manager runs the services of that
\* tree, and a container was started only after its build and its volumes, but for
\* what the sync found unmanaged and for commands that failed.
QuadletsFollowTree ==
    program = "quadlets" =>
        /\ Quadlets!TypeOK
        /\ Quadlets!UnitsFollowConfig /\ Quadlets!ServicesFollowConfig /\ Quadlets!InputsReady

\* A run of lan-gateway-apply that refuses the settings has changed no file; one that
\* succeeds leaves the files of the tree and services that loaded them, but for files an
\* interrupted run had replaced without getting to the restart.
NetworkFollowsTree ==
    program = "network" =>
        /\ Network!TypeOK
        /\ Network!RefusalTouchesNothing /\ Network!FilesFollowTree /\ Network!ServicesFollowFiles

\* Settings that config.py accepts are accepted by lan-gateway-apply, unless a name keeps
\* a trailing dot or a key names the board's own interface: pool, gateway and prefix mean
\* the same at every edge of a network to the two programs.  (A fact about constants,
\* checked where the network part begins.)
ValidatorsAgree ==
    program = "network" /\ netApplies = 0 => \A raw \in EveryRaw : Network!Agreed(raw)
=============================================================================
