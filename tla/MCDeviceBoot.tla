---------------------------- MODULE MCDeviceBoot ---------------------------
(***************************************************************************)
(* What happens at boot beside the running system: the first-boot script   *)
(* with the configuration root, and the slots of a CM3, whose watchdog     *)
(* ends a boot that hangs and whose U-Boot environment has two copies      *)
(* (MCABBoot has the ROCK64).  All they share is the sentinel, which both  *)
(* only ever set.  A behaviour follows one of them (part) and leaves the   *)
(* other as it starts.                                                     *)
(***************************************************************************)
EXTENDS FirstBoot

CONSTANTS
    Versions, Healthy, Sick, Stalling, Factory, Torn, Tries,
    BootFaults, MaxInstalls     \* bounds: MaxFaults and installations of ABBoot

VARIABLES
    part,               \* script or slots
    \* ABBoot
    order, left, image, running, phase, slotSentinel, confirmed, upgrade, rauc, bundle,
    bootFaults, installs, proven, wanted, fails, outage

Cm3 == INSTANCE ABBoot
    WITH Board <- "cm3", MaxFaults <- BootFaults, sentinel <- slotSentinel,
         faults <- bootFaults

ASSUME SlotConstants ==
    /\ Healthy \subseteq Versions /\ Sick \subseteq Versions /\ Stalling \subseteq Versions
    /\ Healthy \cap (Sick \cup Stalling) = {} /\ Sick \cap Stalling = {}
    /\ Factory \in Healthy /\ Torn \notin Versions
    /\ Tries \in Nat \ {0} /\ BootFaults \in Nat /\ MaxInstalls \in Nat

slots == <<order, left, image, running, phase, slotSentinel, confirmed, upgrade, rauc, bundle,
           bootFaults, installs, proven, wanted, fails, outage>>
device == <<part, vars, slots>>

DeviceInit ==
    /\ part \in {"script", "slots"}
    /\ Init /\ Cm3!Init
    /\ part = "slots" => ~fresh /\ bootSeed = NoConfig /\ usbSeed = NoConfig

RunScript == part = "script" /\ Next /\ UNCHANGED <<part, slots>>
BootSlots == part = "slots" /\ Cm3!Next /\ UNCHANGED <<part, vars>>

DeviceNext == RunScript \/ BootSlots

DeviceSpec ==
    /\ DeviceInit /\ [][DeviceNext]_device
    /\ part = "script" => Fairness
    /\ part = "slots" => Cm3!Fairness

-----------------------------------------------------------------------------
(* Properties *)

\* Whenever the power fails and whatever is installed, a device in service keeps a proven
\* image in one of its slots, and no outage is longer than two rounds of tries.
SlotsSurvive == part = "slots" => Cm3!KnownGoodKept /\ Cm3!OutageBounded

\* The boot method turns away from the slot confirmed or activated last only after that
\* slot was booted as often as it has tries without a confirmation.
FallbackJustified == [][part = "slots" => Cm3!JustifiedFallback]_device

\* A device in service that restarts gets back to a confirmed boot, or comes up in an image
\* that does not pass the checks: the boot counter takes it past images that reset, hang
\* or are torn.
ReturnsToService == Cm3!ReturnsToService
=============================================================================
