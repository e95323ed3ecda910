--------------------------- MODULE NetworkSettings -------------------------
(***************************************************************************)
(* The two validators of the network settings: config.py, when a           *)
(* configuration is staged, and lan-gateway-apply.py, when the files that  *)
(* were rendered from it are applied.  Addresses are Bits wide; a name is  *)
(* valid as it stands, valid once its trailing dots are removed, or not at *)
(* all.                                                                    *)
(***************************************************************************)
EXTENDS Integers, FiniteSets

CONSTANTS
    Bits,                   \* width of an address
    MinPrefix, MaxPrefix,   \* prefix lengths gateway_cidr may have
    DefaultGateway,         \* gateway_cidr of defaults/lan.json
    EthKeys,                \* interface keys eth<N>
    PhysicalKeys            \* those that are the board's own WAN or LAN interface

Addr == 0..(2^Bits - 1)
Iface == [ip : Addr, prefix : 0..Bits]
NoIface == [ip |-> -1, prefix |-> -1]
NameKinds == {"plain", "dotted", "invalid"}

\* One [network.interfaces] entry; the address of a DHCP interface is NoIface.
Interface == [mode : {"dhcp", "static"}, address : Iface \cup {NoIface}, dns : BOOLEAN]
InterfaceKeys == {"wan", "lan"} \cup EthKeys

\* What the constants must satisfy; the module that instantiates this one assumes it.
NetworkConstants ==
    /\ Bits \in Nat /\ MinPrefix \in Nat /\ MaxPrefix \in MinPrefix..Bits
    /\ DefaultGateway \in Iface
    /\ PhysicalKeys \subseteq EthKeys /\ {"wan", "lan"} \cap EthKeys = {}

\* A [network] table: what the schema lets through.  Absent addresses are NoIface.
RawOK(raw) ==
    /\ raw.gateway_cidr \in Iface \cup {NoIface} /\ raw.start \in Addr /\ raw.end \in Addr
    /\ raw.domain \in NameKinds /\ raw.pattern \in NameKinds /\ raw.ntp \in NameKinds
    /\ raw.dns \in BOOLEAN
    /\ DOMAIN raw.interfaces \subseteq InterfaceKeys
    /\ \A key \in DOMAIN raw.interfaces : raw.interfaces[key] \in Interface

NetworkOf(i) == i.ip - (i.ip % 2^(Bits - i.prefix))
InNetwork(a, i) == NetworkOf([ip |-> a, prefix |-> i.prefix]) = NetworkOf(i)

-----------------------------------------------------------------------------
(* config.py *)

Has(f, key) == key \in DOMAIN f

\* Bug: the pool may hold the gateway.
LanRangeOverGateway(gw, start, end) ==
    /\ gw.prefix \in MinPrefix..MaxPrefix
    /\ InNetwork(start, gw) /\ InNetwork(end, gw)
    /\ start <= end

\* load_lan_settings: the prefix and the DHCP pool
LanRange(gw, start, end) ==
    /\ gw.prefix \in MinPrefix..MaxPrefix
    /\ InNetwork(start, gw) /\ InNetwork(end, gw)
    /\ start <= end
    /\ ~ (start <= gw.ip /\ gw.ip <= end)

\* load_network_interfaces: one entry
InterfaceOK(key, i) ==
    /\ key = "lan" => i.mode = "static"
    /\ (i.mode = "static") = (i.address # NoIface)

\* load_network_settings: the LAN address takes the place of gateway_cidr.
Gateway(raw) ==
    IF Has(raw.interfaces, "lan") THEN raw.interfaces["lan"].address
    ELSE IF raw.gateway_cidr # NoIface THEN raw.gateway_cidr ELSE DefaultGateway

require_dns_name(kind) == kind # "invalid"

\* load_config, as far as [network] goes
LoadConfig(raw) ==
    /\ \A key \in DOMAIN raw.interfaces : InterfaceOK(key, raw.interfaces[key])
    /\ Has(raw.interfaces, "lan") /\ raw.gateway_cidr # NoIface =>
            raw.gateway_cidr = raw.interfaces["lan"].address
    /\ LanRange(Gateway(raw), raw.start, raw.end)
    /\ require_dns_name(raw.domain) /\ require_dns_name(raw.pattern)
    /\ require_dns_name(raw.ntp)

\* lan-settings.json and host-network.json: the domain is stored without its dots, the
\* pattern and the servers as they were written.
Normalized(raw) ==
    [gateway |-> Gateway(raw), start |-> raw.start, end |-> raw.end,
     domain |-> "plain", pattern |-> raw.pattern, ntp |-> raw.ntp,
     dns |-> raw.dns, interfaces |-> raw.interfaces]

-----------------------------------------------------------------------------
(* lan-gateway-apply.py *)

validate_dns_name(kind) == kind = "plain"

\* load_settings on lan-settings.json
load_settings(s) ==
    /\ InNetwork(s.start, s.gateway) /\ InNetwork(s.end, s.gateway)
    /\ s.start <= s.end
    /\ ~ (s.start <= s.gateway.ip /\ s.gateway.ip <= s.end)
    /\ validate_dns_name(s.domain) /\ validate_dns_name(s.pattern) /\ validate_dns_name(s.ntp)

\* load_host_network_settings on host-network.json
load_host_network_settings(s) ==
    \A key \in DOMAIN s.interfaces :
        key \notin PhysicalKeys /\ InterfaceOK(key, s.interfaces[key])

\* plan_host_network_settings raises when the LAN address is not the gateway.
LanMatches(s) == Has(s.interfaces, "lan") => s.interfaces["lan"].address = s.gateway

\* Resolver settings without a wan entry imply one; lan always has its file.
PlannedKeys(s) ==
    DOMAIN s.interfaces \cup (IF s.dns THEN {"wan"} ELSE {}) \cup {"lan"}

\* render_interface_network: only wan falls back on the top-level resolver settings.
render_interface_network(s, key) ==
    LET i == IF Has(s.interfaces, key) THEN s.interfaces[key]
             ELSE IF key = "wan" THEN [mode |-> "dhcp", address |-> NoIface, dns |-> FALSE]
             ELSE [mode |-> "static", address |-> s.gateway, dns |-> FALSE]
    IN [mode |-> i.mode, address |-> i.address,
        dns |-> i.dns \/ (key = "wan" /\ s.dns)]
=============================================================================
