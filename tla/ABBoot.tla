------------------------------- MODULE ABBoot -------------------------------
(***************************************************************************)
(* The A/B slots of a device: U-Boot's RAUC boot method and boot.cmd,      *)
(* first-boot.sh, os-verification.sh, os-upgrade.sh and the parts of RAUC  *)
(* and systemd that they rely on.                                          *)
(*                                                                         *)
(* The boot method takes the first slot of BOOT_ORDER with tries left and  *)
(* spends one try before anything of the slot is loaded; a boot that ends  *)
(* in a reset comes back here.  A boot that comes up restores the tries    *)
(* once os-verification has passed, and only such a boot may install an    *)
(* update over the other slot.                                             *)
(*                                                                         *)
(* Images differ in how they behave: a healthy one passes the checks, a    *)
(* sick one comes up and never passes, a stalling one hangs before systemd *)
(* and every other one resets the board (its files do not load, it panics, *)
(* its systemd does not hold the watchdog).  The two boards differ in what *)
(* a stall does and in how the U-Boot environment is kept.  START_UMS, the *)
(* recovery button and the _RUT_OH_ shell are left out: each needs someone *)
(* at the board.                                                           *)
(***************************************************************************)
EXTENDS Integers

CONSTANTS
    Versions,       \* the bundle versions the update server may offer
    Healthy,        \* the versions whose health checks pass
    Sick,           \* the versions that come up and never pass them
    Stalling,       \* the versions that hang before systemd starts
    Factory,        \* the version flashed into slot A
    Torn,           \* the content of a blank or half-written slot
    Board,          \* "rock64" or "cm3"
    Tries,          \* CONFIG_BOOTMETH_RAUC_DEFAULT_TRIES
    MaxFaults,      \* bound: power losses
    MaxInstalls     \* bound: installations

ASSUME ABBootConstants ==
    /\ Healthy \subseteq Versions /\ Sick \subseteq Versions /\ Stalling \subseteq Versions
    /\ Healthy \cap (Sick \cup Stalling) = {}
    /\ Sick \cap Stalling = {}
    /\ Factory \in Healthy
    /\ Torn \notin Versions
    /\ Board \in {"rock64", "cm3"}
    /\ Tries \in Nat \ {0}
    /\ MaxFaults \in Nat
    /\ MaxInstalls \in Nat

VARIABLES
    order,          \* the first slot of BOOT_ORDER
    left,           \* BOOT_A_LEFT and BOOT_B_LEFT
    image,          \* what each slot holds
    running,        \* the slot of this boot: rauc.slot on the kernel command line
    phase,          \* "reset", "boot", "hung" or "up"
    sentinel,       \* /data/.completed_first_boot exists
    confirmed,      \* this boot: "no", "first" (by first-boot), "yes" (os-verification)
    upgrade,        \* os-upgrade.sh: "idle", "waiting" for rauc install, "reboot"
    rauc,           \* the RAUC daemon's installation
    bundle,         \* the version being installed
    faults, installs,
    \* history
    proven,         \* the slots whose image was marked good since it was written
    wanted,         \* the slot that the last confirmation or activation made first choice
    fails,          \* boots of a slot since its tries were last granted, up to Tries
    outage          \* consecutive boots that ended in a reset of their own

env == <<order, left>>
disk == <<image, sentinel>>
runtime == <<confirmed, upgrade, rauc, bundle>>
vars == <<env, disk, running, phase, runtime, faults, installs, proven, wanted, fails, outage>>

Slot == {"A", "B"}
RaucStage == {"idle", "asked", "bad", "writing", "written", "granted"}

Other(s) == IF s = "A" THEN "B" ELSE "A"
Target == Other(running)

\* The types of the variables.
TypeOK ==
    /\ order \in Slot /\ running \in Slot /\ wanted \in Slot
    /\ left \in [Slot -> 0..Tries]
    /\ fails \in [Slot -> 0..Tries]
    /\ image \in [Slot -> Versions \cup {Torn}]
    /\ phase \in {"reset", "boot", "hung", "up"}
    /\ sentinel \in BOOLEAN
    /\ confirmed \in {"no", "first", "yes"}
    /\ upgrade \in {"idle", "waiting", "reboot"}
    /\ rauc \in RaucStage
    /\ bundle \in Versions
    /\ faults \in 0..MaxFaults /\ installs \in 0..MaxInstalls
    /\ proven \in [Slot -> BOOLEAN]
    /\ outage \in Nat

----------------------------------------------------------------------------
\* How an image behaves on this board.

ComesUp(v) == v \in Healthy \cup Sick
MayStall(v) == v \in Stalling \cup {Torn}
Resets(v) == ~ComesUp(v) /\ v \notin Stalling

\* U-Boot of the CM3 starts the watchdog before every kernel.
WatchdogStarted == Board = "cm3"

\* The CM3 keeps two copies of the environment on the eMMC.  The ROCK64 keeps one in SPI
\* flash, which survives flashing the eMMC and is lost when a write of it is interrupted.
SingleEnv == Board = "rock64"

Init ==
    /\ \/ order = "A" /\ left = [s \in Slot |-> Tries]
       \/ SingleEnv /\ order \in Slot /\ left \in [Slot -> 0..Tries]
    /\ image = [s \in Slot |-> IF s = "A" THEN Factory ELSE Torn]
    /\ running = "A" /\ phase = "reset"
    /\ sentinel = FALSE
    /\ confirmed = "no" /\ upgrade = "idle" /\ rauc = "idle" /\ bundle = Factory
    /\ faults = 0 /\ installs = 0
    /\ proven = [s \in Slot |-> FALSE]
    /\ wanted = order
    /\ fails = [s \in Slot |-> Tries - left[s]]
    /\ outage = 0

----------------------------------------------------------------------------
(* U-Boot.                                                                 *)

\* Mutants: the tries come back as soon as the first slot has none, or never.
RefilledByFirst == IF left[order] = 0 THEN [s \in Slot |-> Tries] ELSE left
RefilledNever == left

\* With no tries left on either slot both are tried again.
Refilled == IF \A s \in Slot : left[s] = 0 THEN [s \in Slot |-> Tries] ELSE left

Chosen == IF Refilled[order] > 0 THEN order ELSE Other(order)

\* The boot method picks a slot and saves its decremented counter before it loads boot.scr.
SelectSlot ==
    /\ phase = "reset"
    /\ Refilled[Chosen] > 0
    /\ left' = [Refilled EXCEPT ![Chosen] = @ - 1]
    /\ running' = Chosen /\ phase' = "boot"
    /\ fails' = [fails EXCEPT ![Chosen] = IF @ < Tries THEN @ + 1 ELSE @]
    /\ UNCHANGED <<order, disk, runtime, faults, installs, proven, wanted, outage>>

\* Boot files that do not load, a booti that returns and a panic all end in a reset.
BootFails ==
    /\ phase = "boot"
    /\ Resets(image[running])
    /\ phase' = "reset" /\ outage' = outage + 1
    /\ UNCHANGED <<env, disk, running, runtime, faults, installs, proven, wanted, fails>>

\* A boot that stalls is reset by a watchdog that U-Boot started, and hangs without one.
BootStalls ==
    /\ phase = "boot"
    /\ MayStall(image[running])
    /\ IF WatchdogStarted THEN phase' = "reset" /\ outage' = outage + 1
                          ELSE phase' = "hung" /\ UNCHANGED outage
    /\ UNCHANGED <<env, disk, running, runtime, faults, installs, proven, wanted, fails>>

BootCompletes ==
    /\ phase = "boot"
    /\ ComesUp(image[running])
    /\ phase' = "up" /\ outage' = 0
    /\ UNCHANGED <<env, disk, running, runtime, faults, installs, proven, wanted, fails>>

----------------------------------------------------------------------------
(* Confirmation.                                                           *)

\* Mutant: nothing is done for a slot that RAUC already reports as good.
MarkGoodUnlessGood ==
    /\ left' = IF left[running] > 0 THEN left ELSE [left EXCEPT ![running] = Tries]
    /\ fails' = [fails EXCEPT ![running] = 0]
    /\ proven' = [proven EXCEPT ![running] = TRUE]
    /\ wanted' = running

\* rauc status mark-good of the running slot: its tries are full again.
MarkGood ==
    /\ left' = [left EXCEPT ![running] = Tries]
    /\ fails' = [fails EXCEPT ![running] = 0]
    /\ proven' = [proven EXCEPT ![running] = TRUE]
    /\ wanted' = running

\* first-boot.sh ends with a valid configuration: the slot is marked good without the health
\* checks, and only then the sentinel is written.
FirstBootMarkGood ==
    /\ phase = "up" /\ ~sentinel /\ confirmed = "no"
    /\ MarkGood
    /\ confirmed' = "first"
    /\ UNCHANGED <<order, disk, running, phase, upgrade, rauc, bundle, faults, installs, outage>>

FirstBootSentinel ==
    /\ phase = "up" /\ confirmed = "first"
    /\ sentinel' = TRUE /\ confirmed' = "no"
    /\ UNCHANGED <<env, image, running, phase, upgrade, rauc, bundle, faults, installs,
                   proven, wanted, fails, outage>>

\* os-verification passes, at boot or when the timer of os-upgrade, which requires it, starts
\* it again.  A failed run changes nothing and does not reboot the device.
VerificationPasses ==
    /\ phase = "up" /\ sentinel /\ confirmed = "no"
    /\ image[running] \in Healthy
    /\ MarkGood
    /\ confirmed' = "yes"
    /\ UNCHANGED <<order, disk, running, phase, upgrade, rauc, bundle, faults, installs, outage>>

----------------------------------------------------------------------------
(* Updates.                                                                *)

\* Mutant: the unit does not require os-verification.
MayUpgradeUnverified ==
    /\ phase = "up" /\ sentinel
    /\ left[running] > 0

\* os-upgrade.sh is started only after os-verification succeeded in this boot.
MayUpgrade ==
    /\ phase = "up" /\ sentinel /\ confirmed = "yes"
    /\ left[running] > 0

\* The server offers another version than the running one; the script downloads the bundle
\* and calls rauc install, which fails at once while an installation is running.
Upgrade(v) ==
    /\ MayUpgrade
    /\ upgrade = "idle" /\ rauc = "idle"
    /\ v # image[running]
    /\ installs < MaxInstalls
    /\ installs' = installs + 1
    /\ upgrade' = "waiting" /\ rauc' = "asked" /\ bundle' = v
    /\ UNCHANGED <<env, disk, running, phase, confirmed, faults, proven, wanted, fails, outage>>

\* RAUC takes the tries of the slot it is about to overwrite.
RaucMarkBad ==
    /\ rauc = "asked"
    /\ left' = [left EXCEPT ![Target] = 0]
    /\ wanted' = running
    /\ rauc' = "bad"
    /\ UNCHANGED <<order, disk, running, phase, confirmed, upgrade, bundle, faults, installs,
                   proven, fails, outage>>

RaucWrite ==
    /\ rauc = "bad"
    /\ image' = [image EXCEPT ![Target] = Torn]
    /\ proven' = [proven EXCEPT ![Target] = FALSE]
    /\ rauc' = "writing"
    /\ UNCHANGED <<env, sentinel, running, phase, confirmed, upgrade, bundle, faults, installs,
                   wanted, fails, outage>>

RaucWritten ==
    /\ rauc = "writing"
    /\ image' = [image EXCEPT ![Target] = bundle]
    /\ rauc' = "written"
    /\ UNCHANGED <<env, sentinel, running, phase, confirmed, upgrade, bundle, faults, installs,
                   proven, wanted, fails, outage>>

\* RAUC activates the slot with two writes of the environment: its tries, then the order.
RaucGrantTries ==
    /\ rauc = "written"
    /\ left' = [left EXCEPT ![Target] = Tries]
    /\ fails' = [fails EXCEPT ![Target] = 0]
    /\ wanted' = IF order = Target THEN Target ELSE wanted
    /\ rauc' = "granted"
    /\ UNCHANGED <<order, disk, running, phase, confirmed, upgrade, bundle, faults, installs,
                   proven, outage>>

RaucSetOrder ==
    /\ rauc = "granted"
    /\ order' = Target /\ wanted' = Target
    /\ rauc' = "idle"
    /\ upgrade' = IF upgrade = "waiting" THEN "reboot" ELSE upgrade
    /\ UNCHANGED <<left, disk, running, phase, confirmed, bundle, faults, installs, proven,
                   fails, outage>>

\* rauc install fails (bad signature, I/O error): the script ends with an error.
InstallFails ==
    /\ rauc \in {"asked", "bad", "writing"}
    /\ rauc' = "idle" /\ upgrade' = "idle"
    /\ UNCHANGED <<env, disk, running, phase, confirmed, bundle, faults, installs, proven,
                   wanted, fails, outage>>

\* TimeoutStartSec kills the script; the RAUC daemon carries on with the installation.
UpgradeTimesOut ==
    /\ upgrade = "waiting"
    /\ upgrade' = "idle"
    /\ UNCHANGED <<env, disk, running, phase, confirmed, rauc, bundle, faults, installs, proven,
                   wanted, fails, outage>>

Halted ==
    /\ phase' = "reset"
    /\ confirmed' = "no" /\ upgrade' = "idle" /\ rauc' = "idle"
    /\ UNCHANGED <<bundle, image, sentinel, running, installs, proven, fails>>

Reboot ==
    /\ upgrade = "reboot"
    /\ Halted
    /\ UNCHANGED <<env, faults, wanted, outage>>

----------------------------------------------------------------------------
(* Faults.                                                                 *)

\* Power is lost, or someone resets the device.
PowerLoss ==
    /\ faults < MaxFaults /\ faults' = faults + 1
    /\ Halted
    /\ outage' = 0
    /\ UNCHANGED <<env, wanted>>

\* Power is lost while the only copy of the environment is written: by the boot method, by
\* mark-good or by an installation.  U-Boot then starts from its defaults.
WritesEnv ==
    \/ phase = "reset"
    \/ phase = "up" /\ confirmed = "no"
    \/ rauc \in {"asked", "written", "granted"}

EnvLost ==
    /\ SingleEnv /\ WritesEnv
    /\ faults < MaxFaults /\ faults' = faults + 1
    /\ Halted
    /\ order' = "A" /\ left' = [s \in Slot |-> Tries]
    /\ wanted' = "A" /\ outage' = 0

----------------------------------------------------------------------------
Booting == SelectSlot \/ BootFails \/ BootStalls \/ BootCompletes
Confirming == FirstBootMarkGood \/ FirstBootSentinel \/ VerificationPasses
Installing ==
    \/ RaucMarkBad \/ RaucWrite \/ RaucWritten \/ RaucGrantTries \/ RaucSetOrder
    \/ InstallFails
Updating == (\E v \in Versions : Upgrade(v)) \/ Installing \/ UpgradeTimesOut \/ Reboot
Faults == PowerLoss \/ EnvLost

Next == Booting \/ Confirming \/ Updating \/ Faults

Spec == Init /\ [][Next]_vars

\* U-Boot and the kernel keep going, systemd starts os-verification in every boot, RAUC ends
\* what it began and the script's reboot is carried out.  Nothing obliges the owner of a new
\* device to configure it, the server to offer an update or the power to fail.
Fairness ==
    /\ WF_vars(Booting) /\ WF_vars(FirstBootSentinel) /\ WF_vars(VerificationPasses)
    /\ WF_vars(Installing) /\ WF_vars(Reboot)

FairSpec == Spec /\ Fairness

----------------------------------------------------------------------------
(* Properties.                                                             *)

\* Once a device completed its first boot, one of its slots always holds an intact image that
\* passed its confirmation, whatever is being installed and whenever the power fails:
\* os-upgrade requires os-verification in the same boot and RAUC writes the other slot.
KnownGoodKept ==
    sentinel => \E s \in Slot : proven[s] /\ image[s] \in Healthy

\* A device that comes up at all is never out for longer than two rounds of tries: the boot
\* method leaves a slot that only resets, and starts again when both slots are used up.
OutageBounded == outage =< 2 * Tries

\* The boot method turns away from the slot confirmed or activated last only after that slot
\* was booted Tries times in a row without a confirmation: os-verification restores the tries
\* in every healthy boot, and installations take them from the other slot only.
JustifiedFallback ==
    phase = "reset" /\ phase' = "boot" /\ running' # wanted => fails[wanted] = Tries

\* Every step of a device is of that kind.  It is about the CM3: a lost environment gives
\* a ROCK64 both slots' tries back without a boot.
FallbackJustified == [][JustifiedFallback]_vars

\* A device in service that restarts, for whatever reason, gets back to a confirmed boot,
\* or comes up in an image that does not pass the checks: the boot counter takes it past
\* images that reset, hang or are torn.
ReturnsToService ==
    (sentinel /\ confirmed = "no")
        ~> (confirmed = "yes" \/ (phase = "up" /\ image[running] \in Sick))

\* What src/docs/src/architecture/update-rollback.md:4 says: "If the slot never proves
\* itself, U-Boot goes back to the previous one."
UnprovenFallsBack ==
    \A s \in Slot : (sentinel /\ running = s /\ ~proven[s]) ~> (proven[s] \/ running # s)
=============================================================================
