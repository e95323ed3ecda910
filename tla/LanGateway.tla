----------------------------- MODULE LanGateway ----------------------------
(***************************************************************************)
(* lan-gateway-apply.service: validate the settings of the active tree,    *)
(* replace the files that differ, restart the services whose files were    *)
(* replaced.  As in QuadletSync, the hook that starts it may give up while *)
(* it runs, and the next hook restarts it.                                 *)
(***************************************************************************)
EXTENDS NetworkSettings

CONSTANTS
    RawConfigs,     \* [network] tables an operator may send
    MaxApplies,     \* bound: configurations promoted
    MaxFaults       \* bound: failing commands and activations, reboots

\* What the constants must satisfy; the module that instantiates this one assumes it.
LanGatewayConstants ==
    /\ \A raw \in RawConfigs : RawOK(raw)
    /\ MaxApplies \in Nat /\ MaxFaults \in Nat

VARIABLES
    tree, rback,    \* the settings of the active and of the rollback tree, or none
    stage,          \* none, applied or restored
    pc,             \* step of the running service, idle, done, refused or failed
    files,          \* content of each managed file
    loaded,         \* what the services have loaded of them
    payload,        \* the settings the run has loaded
    changed,        \* files this run has replaced
    before,         \* history: files when the run started
    behind,         \* history: files some service had not loaded when the run started
    applies, faults

trees == <<tree, rback, stage, applies>>
run == <<pc, payload, changed, before, behind>>
vars == <<trees, run, files, loaded, faults>>

NoTree == {}
IsTree(t) == t # NoTree
SettingsOf(t) == CHOOSE s \in t : TRUE

Plain == {"dnsmasq", "hosts", "chrony", "etc_hosts"}
Files == Plain \cup InterfaceKeys
Image == [from |-> "image", data |-> <<>>]
Absent == [from |-> "nowhere", data |-> <<>>]
Rendered(data) == [from |-> "tree", data |-> data]

\* The content of each file, as main renders it; eth files and the WAN drop-in exist
\* only when they are planned.  The image has its own dnsmasq, chrony and LAN files.
Content(s) ==
    [f \in Files |->
        CASE f = "dnsmasq" -> Rendered(<<s.gateway, s.start, s.end, s.domain>>)
          [] f \in {"hosts", "etc_hosts"} -> Rendered(<<s.gateway.ip, s.pattern, s.domain>>)
          [] f = "chrony" -> Rendered(<<s.ntp, NetworkOf(s.gateway)>>)
          [] f \in PlannedKeys(s) -> Rendered(<<render_interface_network(s, f)>>)
          [] OTHER -> Absent]

ImageContent == [f \in Files |-> IF f \in Plain \cup {"lan"} THEN Image ELSE Absent]

Init ==
    /\ tree = NoTree /\ rback = NoTree /\ stage = "none" /\ applies = 0
    /\ pc = "idle" /\ payload = NoTree /\ changed = {} /\ before = ImageContent /\ behind = {}
    /\ files = ImageContent /\ loaded = ImageContent
    /\ faults = 0

Fault == faults < MaxFaults /\ faults' = faults + 1

-----------------------------------------------------------------------------
(* The worker; the unit is skipped when there is no lan-settings.json *)

StartRun(t, fs) ==
    /\ pc' = IF IsTree(t) THEN "load" ELSE "idle"
    /\ payload' = NoTree /\ changed' = {} /\ before' = fs /\ behind' = {f \in Files : loaded'[f] # fs[f]}

Promote(raw) ==
    /\ stage = "none" /\ applies < MaxApplies
    /\ LoadConfig(raw)
    /\ rback' = tree /\ tree' = {Normalized(raw)} /\ stage' = "applied"
    /\ applies' = applies + 1
    /\ UNCHANGED <<files, loaded, faults>>
    /\ StartRun(tree', files)

Commit ==
    /\ stage = "applied" /\ pc = "done"
    /\ stage' = "none" /\ rback' = NoTree
    /\ UNCHANGED <<tree, applies, run, files, loaded, faults>>

\* complete_reapply after a failure of this unit, of another part of the activation, or
\* a timeout, and the hook of the rollback; a first configuration is discarded.
Restore ==
    /\ stage = "applied"
    /\ IF pc \in {"refused", "failed"} THEN UNCHANGED faults ELSE Fault
    /\ tree' = rback /\ rback' = NoTree
    /\ UNCHANGED <<applies, files, loaded>>
    /\ IF IsTree(rback) THEN stage' = "restored" /\ StartRun(tree', files)
       ELSE stage' = "none" /\ UNCHANGED run

RollbackEnds ==
    /\ stage = "restored"
    /\ IF pc \in {"done", "refused", "failed"} THEN UNCHANGED faults ELSE Fault
    /\ stage' = "none"
    /\ UNCHANGED <<tree, rback, applies, run, files, loaded>>

\* The files are on the overlay root: a boot starts from those of the image.
Reboot ==
    /\ Fault
    /\ tree' = IF stage = "applied" THEN rback ELSE tree
    /\ rback' = NoTree /\ stage' = "none"
    /\ files' = ImageContent /\ loaded' = ImageContent
    /\ StartRun(tree', ImageContent)
    /\ UNCHANGED applies

-----------------------------------------------------------------------------
(* main *)

Settings == SettingsOf(payload)
Goto(next) == pc' = next
Elsewhere == UNCHANGED <<trees, before, behind>>

Valid(s) == load_settings(s) /\ load_host_network_settings(s) /\ LanMatches(s)

\* load_settings, load_host_network_settings and plan_host_network_settings
Load ==
    /\ pc = "load" /\ IsTree(tree)
    /\ payload' = tree
    /\ Goto(IF Valid(SettingsOf(tree)) THEN "dnsmasq" ELSE "refused")
    /\ Elsewhere /\ UNCHANGED <<changed, files, loaded, faults>>

\* The tree was discarded after the unit was started.
LoadNothing ==
    /\ pc = "load" /\ ~ IsTree(tree)
    /\ Goto("idle")
    /\ Elsewhere /\ UNCHANGED <<payload, changed, files, loaded, faults>>

\* replace_file
Replace(fs) ==
    /\ files' = [f \in Files |-> IF f \in fs THEN Content(Settings)[f] ELSE files[f]]
    /\ changed' = changed \cup {f \in fs : files'[f] # files[f]}

WriteFile(f, next) ==
    /\ pc = f
    /\ Replace({f}) /\ Goto(next)
    /\ Elsewhere /\ UNCHANGED <<payload, loaded, faults>>

WriteDnsmasq == WriteFile("dnsmasq", "hosts")
WriteHosts == WriteFile("hosts", "chrony")
WriteChrony == WriteFile("chrony", "etc_hosts")
WriteEtcHosts == WriteFile("etc_hosts", "network")

\* apply_planned_host_network_settings: the planned files, and the WAN drop-in and the
\* eth files that are not planned removed
WriteNetwork ==
    /\ pc = "network"
    /\ Replace(InterfaceKeys) /\ Goto("reload")
    /\ Elsewhere /\ UNCHANGED <<payload, loaded, faults>>

\* A command loads the files when one of them was replaced, or fails and ends the run.
Command(at, fs, next) ==
    /\ pc = at
    /\ \/ /\ loaded' = [f \in Files |-> IF f \in fs /\ changed \cap fs # {}
                                        THEN files[f] ELSE loaded[f]]
          /\ Goto(next) /\ UNCHANGED faults
       \/ /\ changed \cap fs # {} /\ Fault
          /\ Goto("failed") /\ UNCHANGED loaded
    /\ Elsewhere /\ UNCHANGED <<payload, changed, files>>

\* Bug: a change of the hosts file alone does not restart dnsmasq.
RestartOnConfig ==
    /\ pc = "restart dnsmasq"
    /\ loaded' = IF "dnsmasq" \in changed
                 THEN [loaded EXCEPT !["dnsmasq"] = files["dnsmasq"], !["hosts"] = files["hosts"]]
                 ELSE loaded
    /\ Goto("restart chrony")
    /\ Elsewhere /\ UNCHANGED <<payload, changed, files, faults>>

\* networkctl reload and the restarts of networkd and resolved
ReloadNetwork == Command("reload", InterfaceKeys, "restart dnsmasq")
RestartDnsmasq == Command("restart dnsmasq", {"dnsmasq", "hosts"}, "restart chrony")
RestartChrony == Command("restart chrony", {"chrony"}, "socket")

\* apply_bootstrap_socket_rebind: the override, then daemon-reload
RebindSocket ==
    /\ pc = "socket"
    /\ \/ Goto("done") /\ UNCHANGED faults
       \/ Goto("failed") /\ Fault
    /\ Elsewhere /\ UNCHANGED <<payload, changed, files, loaded>>

Next ==
    \/ \E raw \in RawConfigs : Promote(raw)
    \/ Commit \/ Restore \/ RollbackEnds \/ Reboot
    \/ Load \/ LoadNothing \/ WriteDnsmasq \/ WriteHosts \/ WriteChrony \/ WriteEtcHosts \/ WriteNetwork
    \/ ReloadNetwork \/ RestartDnsmasq \/ RestartChrony \/ RebindSocket

Spec == Init /\ [][Next]_vars

-----------------------------------------------------------------------------
(* Properties *)

Steps == {"idle", "load", "dnsmasq", "hosts", "chrony", "etc_hosts", "network", "reload",
          "restart dnsmasq", "restart chrony", "socket", "done", "refused", "failed"}

\* Type invariant; the rollback tree is there only while an apply is under way.
TypeOK ==
    /\ \A t \in {tree, rback, payload} : \A s \in t : \E raw \in RawConfigs : s = Normalized(raw)
    /\ stage \in {"none", "applied", "restored"} /\ pc \in Steps
    /\ stage = "none" => rback = NoTree
    /\ DOMAIN files = Files /\ DOMAIN loaded = Files /\ DOMAIN before = Files
    /\ changed \subseteq Files /\ behind \subseteq Files
    /\ applies \in 0..MaxApplies /\ faults \in 0..MaxFaults

\* A configuration that does not exercise what the two validators disagree about
Ordinary(s) == s.pattern = "plain" /\ s.ntp = "plain"
                 /\ DOMAIN s.interfaces \cap PhysicalKeys = {}

\* Settings that passed the validation of the configuration are not refused when they
\* are applied, unless a name keeps a trailing dot or a key names the board's own
\* interface: the pool, the gateway and the interfaces mean the same to both programs.
Agreed(raw) == LoadConfig(raw) /\ Ordinary(Normalized(raw)) => Valid(Normalized(raw))

\* A run that refuses the settings has changed no file: main validates everything first.
RefusalTouchesNothing == pc = "refused" => files = before

\* After a run every managed file is that of the active tree, and a file it does not
\* plan is gone.
FilesFollowTree == pc = "done" /\ payload = tree => files = Content(Settings)

\* After a run every service has loaded the files, but for those an earlier run had
\* replaced without getting to the restart (change detection in replace_file).
Loadable == Files \ {"etc_hosts"}
ServicesFollowFiles == pc = "done" => \A f \in Loadable \ behind : loaded[f] = files[f]
=============================================================================
