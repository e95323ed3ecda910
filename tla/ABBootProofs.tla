---------------------------- MODULE ABBootProofs ----------------------------
(***************************************************************************)
(* Proofs about ABBoot, for every set of versions, every number of tries   *)
(* and any number of power losses and installations.                       *)
(***************************************************************************)
EXTENDS ABBoot, TLAPS

\* What the slots hold: only healthy images are proven; the factory state lasts until the
\* first boot is complete and from then on one slot is proven.
Content ==
    /\ \A s \in Slot : proven[s] => image[s] \in Healthy
    /\ ~sentinel => image["A"] = Factory /\ image["B"] = Torn
    /\ sentinel => \E s \in Slot : proven[s]

\* What the services of a boot may rely on: an installation runs only while the running slot
\* is the confirmed one.
Control ==
    /\ phase = "up" => ComesUp(image[running])
    /\ confirmed # "no" => phase = "up" /\ proven[running]
    /\ confirmed = "yes" => sentinel
    /\ rauc # "idle" => confirmed = "yes"
    /\ upgrade # "idle" => confirmed = "yes"
    /\ rauc = "writing" => ~proven[Target]

\* How many more boots can end in a reset before slot g, whose image comes up, is chosen.
Ahead(g) == left[Other(g)] + (IF left[g] > 0 THEN 0 ELSE Tries)

\* The resets so far and those still ahead stay within two rounds of tries.
OutageSoFar(g) ==
    /\ phase = "reset" => outage + Ahead(g) =< 2 * Tries
    /\ phase = "boot" /\ running # g => outage + 1 + Ahead(g) =< 2 * Tries
    /\ phase \in {"boot", "hung"} => outage =< 2 * Tries
    /\ phase = "up" => outage = 0

Progress == \E g \in Slot : ComesUp(image[g]) /\ OutageSoFar(g)

IInv == TypeOK /\ Content /\ Control /\ Progress

\* The initial states satisfy the invariant, on both boards.
LEMMA InitIInv ==
  Init => IInv
  <1> SUFFICES ASSUME Init PROVE IInv
    OBVIOUS
  <1>0. order \in Slot /\ left \in [Slot -> 0..Tries]
    BY ABBootConstants DEF Init, Slot
  <1>1. TypeOK
    <2>1. fails \in [Slot -> 0..Tries]
      BY <1>0, ABBootConstants DEF Init, Slot
    <2>2. image \in [Slot -> Versions \cup {Torn}]
      BY ABBootConstants DEF Init, Slot
    <2>3. bundle \in Versions /\ faults \in 0..MaxFaults /\ installs \in 0..MaxInstalls
      BY ABBootConstants DEF Init
    <2> QED
      BY <1>0, <2>1, <2>2, <2>3 DEF Init, TypeOK, Slot, RaucStage
  <1>2. Content /\ Control
    BY DEF Init, Content, Control, Slot
  <1>3. ComesUp(image["A"]) /\ OutageSoFar("A")
    BY <1>1, ABBootConstants DEF Init, TypeOK, Slot, ComesUp, OutageSoFar, Ahead, Other
  <1> QED
    BY <1>1, <1>2, <1>3 DEF IInv, Progress, Slot

\* Every step of the model keeps the types.
LEMMA TypeStep ==
  ASSUME IInv, [Next]_vars
  PROVE  TypeOK'
  <1>1. CASE SelectSlot
    BY <1>1, ABBootConstants DEF SelectSlot, Refilled, Chosen, Other, vars, env, disk, runtime,
       TypeOK, IInv, Slot, RaucStage
  <1>2. CASE BootFails
    BY <1>2, ABBootConstants DEF BootFails, Resets, ComesUp, vars, env, disk, runtime, TypeOK,
       IInv, Slot, RaucStage
  <1>3. CASE BootStalls
    BY <1>3, ABBootConstants DEF BootStalls, MayStall, ComesUp, vars, env, disk, runtime,
       TypeOK, IInv, Slot, RaucStage
  <1>4. CASE BootCompletes
    BY <1>4, ABBootConstants DEF BootCompletes, vars, env, disk, runtime, TypeOK, IInv, Slot,
       RaucStage
  <1>5. CASE FirstBootMarkGood
    BY <1>5, ABBootConstants DEF FirstBootMarkGood, MarkGood, ComesUp, vars, env, disk, runtime,
       TypeOK, IInv, Slot, RaucStage
  <1>6. CASE FirstBootSentinel
    BY <1>6, ABBootConstants DEF FirstBootSentinel, vars, env, disk, runtime, TypeOK, IInv,
       Slot, RaucStage
  <1>7. CASE VerificationPasses
    BY <1>7, ABBootConstants DEF VerificationPasses, MarkGood, vars, env, disk, runtime, TypeOK,
       IInv, Slot, RaucStage
  <1>8. CASE \E v \in Versions : Upgrade(v)
    BY <1>8, ABBootConstants DEF Upgrade, MayUpgrade, vars, env, disk, runtime, TypeOK, IInv,
       Slot, RaucStage
  <1>9. CASE RaucMarkBad
    BY <1>9, ABBootConstants DEF RaucMarkBad, Target, Other, vars, env, disk, runtime, TypeOK,
       IInv, Slot, RaucStage
  <1>10. CASE RaucWrite
    BY <1>10, ABBootConstants DEF RaucWrite, Target, Other, vars, env, disk, runtime, TypeOK,
       IInv, Slot, RaucStage
  <1>11. CASE RaucWritten
    BY <1>11, ABBootConstants DEF RaucWritten, Target, Other, vars, env, disk, runtime, TypeOK,
       IInv, Slot, RaucStage
  <1>12. CASE RaucGrantTries
    BY <1>12, ABBootConstants DEF RaucGrantTries, Target, Other, vars, env, disk, runtime,
       TypeOK, IInv, Slot, RaucStage
  <1>13. CASE RaucSetOrder
    BY <1>13, ABBootConstants DEF RaucSetOrder, Target, Other, vars, env, disk, runtime, TypeOK,
       IInv, Slot, RaucStage
  <1>14. CASE InstallFails
    BY <1>14, ABBootConstants DEF InstallFails, vars, env, disk, runtime, TypeOK, IInv, Slot,
       RaucStage
  <1>15. CASE UpgradeTimesOut
    BY <1>15, ABBootConstants DEF UpgradeTimesOut, vars, env, disk, runtime, TypeOK, IInv, Slot,
       RaucStage
  <1>16. CASE Reboot
    BY <1>16, ABBootConstants DEF Reboot, Halted, vars, env, disk, runtime, TypeOK, IInv, Slot,
       RaucStage
  <1>17. CASE PowerLoss
    BY <1>17, ABBootConstants DEF PowerLoss, Halted, vars, env, disk, runtime, TypeOK, IInv,
       Slot, RaucStage
  <1>18. CASE EnvLost
    BY <1>18, ABBootConstants DEF EnvLost, Halted, vars, env, disk, runtime, TypeOK, IInv, Slot,
       RaucStage
  <1>19. CASE UNCHANGED vars
    BY <1>19, ABBootConstants DEF vars, env, disk, runtime, TypeOK, IInv, Slot, RaucStage
  <1> QED
    BY <1>1, <1>2, <1>3, <1>4, <1>5, <1>6, <1>7, <1>8, <1>9, <1>10, <1>11, <1>12, <1>13, <1>14,
       <1>15, <1>16, <1>17, <1>18, <1>19 DEF Next, Booting, Confirming, Updating, Installing,
       Faults

\* No step loses the last proven image, nor lets an installation run without a confirmation.
LEMMA ContentStep ==
  ASSUME IInv, [Next]_vars
  PROVE  Content' /\ Control'
  <1>1. CASE SelectSlot
    BY <1>1, ABBootConstants DEF SelectSlot, Refilled, Chosen, Other, vars, env, disk, runtime,
       TypeOK, Content, Control, IInv, Slot, ComesUp, Target, Other
  <1>2. CASE BootFails
    BY <1>2, ABBootConstants DEF BootFails, Resets, ComesUp, vars, env, disk, runtime, TypeOK,
       Content, Control, IInv, Slot
  <1>3. CASE BootStalls
    BY <1>3, ABBootConstants DEF BootStalls, MayStall, ComesUp, vars, env, disk, runtime,
       TypeOK, Content, Control, IInv, Slot
  <1>4. CASE BootCompletes
    BY <1>4, ABBootConstants DEF BootCompletes, vars, env, disk, runtime, TypeOK, Content,
       Control, IInv, Slot, ComesUp, Target, Other
  <1>5. CASE FirstBootMarkGood
    BY <1>5, ABBootConstants DEF FirstBootMarkGood, MarkGood, ComesUp, vars, env, disk, runtime,
       TypeOK, Content, Control, IInv, Slot
  <1>6. CASE FirstBootSentinel
    BY <1>6, ABBootConstants DEF FirstBootSentinel, vars, env, disk, runtime, TypeOK, Content,
       Control, IInv, Slot, ComesUp, Target, Other
  <1>7. CASE VerificationPasses
    BY <1>7, ABBootConstants DEF VerificationPasses, MarkGood, vars, env, disk, runtime, TypeOK,
       Content, Control, IInv, Slot, ComesUp, Target, Other
  <1>8. CASE \E v \in Versions : Upgrade(v)
    BY <1>8, ABBootConstants DEF Upgrade, MayUpgrade, vars, env, disk, runtime, TypeOK, Content,
       Control, IInv, Slot, ComesUp, Target, Other
  <1>9. CASE RaucMarkBad
    BY <1>9, ABBootConstants DEF RaucMarkBad, vars, env, disk, runtime, TypeOK, Content,
       Control, IInv, Slot, ComesUp, Target, Other
  <1>10. CASE RaucWrite
    BY <1>10, ABBootConstants DEF RaucWrite, vars, env, disk, runtime, TypeOK, Content, Control,
       IInv, Slot, ComesUp, Target, Other
  <1>11. CASE RaucWritten
    BY <1>11, ABBootConstants DEF RaucWritten, vars, env, disk, runtime, TypeOK, Content,
       Control, IInv, Slot, ComesUp, Target, Other
  <1>12. CASE RaucGrantTries
    BY <1>12, ABBootConstants DEF RaucGrantTries, vars, env, disk, runtime, TypeOK, Content,
       Control, IInv, Slot, ComesUp, Target, Other
  <1>13. CASE RaucSetOrder
    BY <1>13, ABBootConstants DEF RaucSetOrder, vars, env, disk, runtime, TypeOK, Content,
       Control, IInv, Slot, ComesUp, Target, Other
  <1>14. CASE InstallFails
    BY <1>14, ABBootConstants DEF InstallFails, vars, env, disk, runtime, TypeOK, Content,
       Control, IInv, Slot, ComesUp, Target, Other
  <1>15. CASE UpgradeTimesOut
    BY <1>15, ABBootConstants DEF UpgradeTimesOut, vars, env, disk, runtime, TypeOK, Content,
       Control, IInv, Slot, ComesUp, Target, Other
  <1>16. CASE Reboot
    BY <1>16, ABBootConstants DEF Reboot, Halted, vars, env, disk, runtime, TypeOK, Content,
       Control, IInv, Slot, ComesUp, Target, Other
  <1>17. CASE PowerLoss
    BY <1>17, ABBootConstants DEF PowerLoss, Halted, vars, env, disk, runtime, TypeOK, Content,
       Control, IInv, Slot, ComesUp, Target, Other
  <1>18. CASE EnvLost
    BY <1>18, ABBootConstants DEF EnvLost, Halted, vars, env, disk, runtime, TypeOK, Content,
       Control, IInv, Slot, ComesUp, Target, Other
  <1>19. CASE UNCHANGED vars
    BY <1>19, ABBootConstants DEF vars, env, disk, runtime, TypeOK, Content, Control, IInv,
       Slot, ComesUp, Target, Other
  <1> QED
    BY <1>1, <1>2, <1>3, <1>4, <1>5, <1>6, <1>7, <1>8, <1>9, <1>10, <1>11, <1>12, <1>13, <1>14,
       <1>15, <1>16, <1>17, <1>18, <1>19 DEF Next, Booting, Confirming, Updating, Installing,
       Faults

\* In every reachable state some slot holds an image that comes up.
LEMMA SomeSlotComesUp ==
  ASSUME Content
  PROVE  \E g \in Slot : ComesUp(image[g])
  BY ABBootConstants DEF Content, ComesUp, Slot

\* The count of an outage only grows by boots that were ahead.
LEMMA ProgressStep ==
  ASSUME IInv, [Next]_vars
  PROVE  Progress'
  <1> USE DEF IInv
  <1>a. TypeOK' /\ Content' /\ Control'
    BY TypeStep, ContentStep
  <1>b. PICK g \in Slot : ComesUp(image[g]) /\ OutageSoFar(g)
    BY DEF Progress
  <1>u. ASSUME phase' = "up", UNCHANGED <<phase, outage>>
        PROVE  Progress'
    <2>1. PICK h \in Slot : ComesUp(image[h])'
      BY <1>a, SomeSlotComesUp, ABBootConstants DEF Content, ComesUp, Slot
    <2>2. OutageSoFar(h)'
      BY <1>u, <1>b DEF OutageSoFar
    <2> QED
      BY <2>1, <2>2 DEF Progress
  <1>f. ASSUME phase' = "reset", outage' = 0
        PROVE  Progress'
    <2>1. PICK h \in Slot : ComesUp(image[h])'
      BY <1>a, SomeSlotComesUp, ABBootConstants DEF Content, ComesUp, Slot
    <2>2. left'[h] \in 0..Tries /\ left'[Other(h)] \in 0..Tries
      BY <1>a DEF TypeOK, Slot, Other
    <2>3. OutageSoFar(h)'
      BY <1>f, <2>2, ABBootConstants DEF OutageSoFar, Ahead, Other
    <2> QED
      BY <2>1, <2>3 DEF Progress
  <1>1. CASE SelectSlot
    <2>1. ComesUp(image[g])'
      BY <1>1, <1>b DEF SelectSlot, disk, ComesUp
    <2>2. left[g] \in 0..Tries /\ left[Other(g)] \in 0..Tries /\ outage \in Nat
      BY <1>b DEF TypeOK, Slot, Other
    <2>3. outage + Ahead(g) =< 2 * Tries
      BY <1>1, <1>b DEF SelectSlot, OutageSoFar
    <2>4. phase' = "boot" /\ outage' = outage /\ running' \in Slot
      BY <1>1, <1>a DEF SelectSlot, TypeOK
    <2>5. CASE running' = g
      <3>1. outage =< 2 * Tries
        BY <2>2, <2>3, ABBootConstants DEF Ahead
      <3> QED
        BY <2>1, <2>4, <2>5, <3>1 DEF Progress, OutageSoFar
    <2>6. CASE running' # g
      <3>1. running' = Other(g)
        BY <2>4, <2>6, <1>b DEF Slot, Other
      <3>2. Chosen = Other(g) /\ Refilled[Other(g)] > 0
        BY <1>1, <3>1 DEF SelectSlot
      <3>3. Refilled \in [Slot -> 0..Tries]
        BY ABBootConstants DEF Refilled, TypeOK
      <3>4. left'[Other(g)] = Refilled[Other(g)] - 1 /\ left'[g] = Refilled[g]
        BY <1>1, <1>b, <3>2, <3>3 DEF SelectSlot, Other, Slot
      <3>5. CASE \A s \in Slot : left[s] = 0
        <4>1. left[g] = 0 /\ left[Other(g)] = 0
          BY <1>b, <3>5 DEF Slot, Other
        <4>2. left'[Other(g)] = Tries - 1 /\ left'[g] = Tries
          BY <3>4, <3>5, <1>b DEF Refilled, Slot, Other
        <4>3. outage + 1 + Ahead(g)' =< 2 * Tries
          BY <2>2, <2>3, <4>1, <4>2, <2>4, ABBootConstants DEF Ahead, Other
        <4> QED
          BY <2>1, <2>2, <2>3, <2>4, <4>1, <4>3, ABBootConstants, <1>b DEF Progress,
             OutageSoFar, Ahead, Other, Slot
      <3>6. CASE ~\A s \in Slot : left[s] = 0
        <4>1. left'[Other(g)] = left[Other(g)] - 1 /\ left'[g] = left[g]
          BY <3>4, <3>6 DEF Refilled
        <4>2. outage + 1 + Ahead(g)' =< 2 * Tries
          BY <2>2, <2>3, <4>1, ABBootConstants DEF Ahead, Other
        <4>3. outage =< 2 * Tries
          BY <2>2, <2>3, ABBootConstants DEF Ahead
        <4> QED
          BY <2>1, <2>4, <4>2, <4>3, <1>b DEF Progress, OutageSoFar
      <3> QED
        BY <3>5, <3>6
    <2> QED
      BY <2>5, <2>6
  <1>2. ASSUME BootFails \/ BootStalls
        PROVE  Progress'
    <2>1. running # g
      BY <1>2, <1>b, ABBootConstants DEF BootFails, BootStalls, Resets, MayStall, ComesUp
    <2>2. phase = "boot" /\ UNCHANGED <<left, image, running>>
      BY <1>2 DEF BootFails, BootStalls, env, disk
    <2>3. outage + 1 + Ahead(g) =< 2 * Tries /\ outage =< 2 * Tries
      BY <2>1, <2>2, <1>b DEF OutageSoFar
    <2>4. \/ phase' = "reset" /\ outage' = outage + 1
          \/ phase' = "hung" /\ outage' = outage
      BY <1>2 DEF BootFails, BootStalls
    <2>5. Ahead(g)' = Ahead(g) /\ ComesUp(image[g])'
      BY <2>2, <1>b DEF Ahead, ComesUp
    <2>6. OutageSoFar(g)'
      BY <2>3, <2>4, <2>5 DEF OutageSoFar
    <2> QED
      BY <2>5, <2>6, <1>b DEF Progress
  <1>3. CASE BootCompletes
    BY <1>3, <1>b DEF BootCompletes, disk, Progress, OutageSoFar, ComesUp
  <1>4. CASE Confirming
    BY <1>4, <1>u DEF Confirming, FirstBootMarkGood, FirstBootSentinel, VerificationPasses
  <1>5. CASE (\E v \in Versions : Upgrade(v)) \/ Installing \/ UpgradeTimesOut
    BY <1>5, <1>u DEF Upgrade, MayUpgrade, Installing, RaucMarkBad, RaucWrite, RaucWritten,
       RaucGrantTries, RaucSetOrder, InstallFails, UpgradeTimesOut, Control
  <1>6. CASE Reboot
    <2>1. phase = "up" /\ outage = 0
      BY <1>6, <1>b DEF Reboot, Control, OutageSoFar
    <2> QED
      BY <1>6, <2>1, <1>f DEF Reboot, Halted
  <1>7. CASE Faults
    BY <1>7, <1>f DEF Faults, PowerLoss, EnvLost, Halted
  <1>8. CASE UNCHANGED vars
    BY <1>8, <1>b DEF vars, env, disk, Progress, OutageSoFar, Ahead, ComesUp
  <1> QED
    BY <1>1, <1>2, <1>3, <1>4, <1>5, <1>6, <1>7, <1>8 DEF Next, Booting, Updating

\* The invariant is inductive.
LEMMA IInvIsInductive ==
  ASSUME IInv, [Next]_vars
  PROVE  IInv'
  BY TypeStep, ContentStep, ProgressStep DEF IInv

\* The invariant holds in every reachable state.
LEMMA IInvHolds ==
  Spec => []IInv
  BY InitIInv, IInvIsInductive, PTL DEF Spec

\* Every variable keeps its type on both boards: no try counter leaves 0..Tries however
\* installations, confirmations and power losses interleave.
THEOREM TypeCorrect ==
  Spec => []TypeOK
  <1>1. IInv => TypeOK
    BY DEF IInv
  <1> QED
    BY IInvHolds, <1>1, PTL

LEMMA IInvKeepsGood == IInv => KnownGoodKept
  BY DEF IInv, Content, KnownGoodKept

LEMMA IInvBoundsOutage == IInv => OutageBounded
  <1> SUFFICES ASSUME IInv PROVE OutageBounded
    OBVIOUS
  <1>1. PICK g \in Slot : OutageSoFar(g)
    BY DEF IInv, Progress
  <1>2. left[g] \in 0..Tries /\ left[Other(g)] \in 0..Tries /\ outage \in Nat
    BY <1>1 DEF IInv, TypeOK, Slot, Other
  <1> QED
    BY <1>1, <1>2, ABBootConstants DEF IInv, TypeOK, OutageSoFar, Ahead, OutageBounded

\* After the first boot some slot always holds an intact image that was confirmed.
THEOREM KnownGoodAlwaysKept ==
  Spec => []KnownGoodKept
  BY IInvHolds, IInvKeepsGood, PTL

\* Consecutive boots that end in a reset of their own never exceed two rounds of tries.
THEOREM OutageAlwaysBounded ==
  Spec => []OutageBounded
  BY IInvHolds, IInvBoundsOutage, PTL

----------------------------------------------------------------------------
(* Fallback.  A board that may lose its environment forgets which slot was *)
(* confirmed, so this part is about the CM3.                               *)

\* The slot that is first choice has a try for every boot it is owed and is first in line.
Priority ==
    /\ fails[wanted] + left[wanted] >= Tries
    /\ fails[wanted] < Tries => wanted = order \/ left[order] = 0
    /\ (phase # "reset" /\ confirmed # "yes" /\ running # order) => left[order] = 0
    /\ confirmed = "yes" => left[running] = Tries /\ fails[running] = 0
    /\ rauc \in {"bad", "writing", "written"} => wanted = running
    /\ rauc = "granted" => left[Target] = Tries /\ fails[Target] = 0

\* With two copies of the environment no write of it is lost.
LEMMA EnvKept ==
  ASSUME Board = "cm3"
  PROVE  ~EnvLost
  BY DEF EnvLost, SingleEnv

\* Boots, confirmations, installations and power losses keep the first choice first.
LEMMA PriorityStep ==
  ASSUME Board = "cm3", IInv, Priority, [Next]_vars
  PROVE  Priority'
  <1> USE DEF IInv, TypeOK, Control
  <1>1. CASE SelectSlot
    <2>1. Refilled \in [Slot -> 0..Tries] /\ Chosen \in Slot
      BY ABBootConstants DEF Refilled, Chosen, Other, Slot
    <2>2. left' = [Refilled EXCEPT ![Chosen] = @ - 1] /\ running' = Chosen /\ Refilled[Chosen] > 0
      BY <1>1 DEF SelectSlot
    <2>3. fails' = [fails EXCEPT ![Chosen] = IF @ < Tries THEN @ + 1 ELSE @]
      BY <1>1 DEF SelectSlot
    <2>4. UNCHANGED <<order, wanted, confirmed, rauc>> /\ phase = "reset"
      BY <1>1 DEF SelectSlot, runtime
    <2>5. confirmed = "no" /\ rauc = "idle"
      BY <2>4
    <2>6. fails'[wanted] + left'[wanted] >= Tries
      <3>1. Refilled[wanted] >= left[wanted]
        BY ABBootConstants DEF Refilled
      <3>2. fails[wanted] + left[wanted] >= Tries
        BY DEF Priority
      <3>3. CASE Chosen = wanted
        BY <2>1, <2>2, <2>3, <3>1, <3>2, <3>3, ABBootConstants
      <3>4. CASE Chosen # wanted
        BY <2>1, <2>2, <2>3, <3>1, <3>2, <3>4, ABBootConstants
      <3> QED
        BY <3>3, <3>4
    <2>7. fails'[wanted] < Tries => wanted = order \/ left'[order] = 0
      <3>1. fails'[wanted] >= fails[wanted]
        BY <2>1, <2>3, ABBootConstants
      <3>2. fails[wanted] < Tries => left[wanted] > 0 /\ Refilled = left
        BY ABBootConstants DEF Refilled, Priority
      <3>3. fails[wanted] < Tries /\ wanted # order => left'[order] = 0
        BY <2>1, <2>2, <3>2 DEF Chosen, Other, Slot, Priority
      <3> QED
        BY <3>1, <3>3, <2>1, <2>3, ABBootConstants
    <2>8. running' # order' => left'[order'] = 0
      BY <2>1, <2>2, <2>4 DEF Chosen, Other, Slot
    <2> QED
      BY <2>4, <2>5, <2>6, <2>7, <2>8 DEF Priority
  <1>2. CASE BootFails
    BY <1>2, ABBootConstants DEF BootFails, env, disk, runtime, Priority
  <1>3. CASE BootStalls
    BY <1>3, ABBootConstants DEF BootStalls, WatchdogStarted, env, disk, runtime, Priority
  <1>4. CASE BootCompletes
    BY <1>4, ABBootConstants DEF BootCompletes, env, disk, runtime, Priority
  <1>5. CASE FirstBootMarkGood
    BY <1>5, ABBootConstants DEF FirstBootMarkGood, MarkGood, env, disk, runtime, Priority
  <1>6. CASE FirstBootSentinel
    BY <1>6, ABBootConstants DEF FirstBootSentinel, env, disk, runtime, Priority
  <1>7. CASE VerificationPasses
    BY <1>7, ABBootConstants DEF VerificationPasses, MarkGood, env, disk, runtime, Priority
  <1>8. CASE \E v \in Versions : Upgrade(v)
    BY <1>8, ABBootConstants DEF Upgrade, MayUpgrade, env, disk, runtime, Priority
  <1>9. CASE RaucMarkBad
    BY <1>9, ABBootConstants DEF RaucMarkBad, env, disk, runtime, Priority, Slot, Target, Other
  <1>10. CASE RaucWrite
    BY <1>10, ABBootConstants DEF RaucWrite, env, disk, runtime, Priority, Slot, Target, Other
  <1>11. CASE RaucWritten
    BY <1>11, ABBootConstants DEF RaucWritten, env, disk, runtime, Priority, Slot, Target, Other
  <1>12. CASE RaucGrantTries
    BY <1>12, ABBootConstants DEF RaucGrantTries, env, disk, runtime, Priority, Slot, Target,
       Other
  <1>13. CASE RaucSetOrder
    BY <1>13, ABBootConstants DEF RaucSetOrder, env, disk, runtime, Priority, Slot, Target,
       Other
  <1>14. CASE InstallFails
    BY <1>14, ABBootConstants DEF InstallFails, env, disk, runtime, Priority
  <1>15. CASE UpgradeTimesOut
    BY <1>15, ABBootConstants DEF UpgradeTimesOut, env, disk, runtime, Priority, Target, Other
  <1>16. CASE Reboot
    BY <1>16, ABBootConstants DEF Reboot, Halted, env, disk, runtime, Priority
  <1>17. CASE PowerLoss
    BY <1>17, ABBootConstants DEF PowerLoss, Halted, env, disk, runtime, Priority
  <1>18. CASE UNCHANGED vars
    BY <1>18 DEF vars, env, disk, runtime, Priority, Target, Other
  <1> QED
    BY <1>1, <1>2, <1>3, <1>4, <1>5, <1>6, <1>7, <1>8, <1>9, <1>10, <1>11, <1>12, <1>13, <1>14,
       <1>15, <1>16, <1>17, <1>18, EnvKept DEF Next, Booting, Confirming, Updating, Installing,
       Faults

LEMMA PriorityInit ==
  ASSUME Board = "cm3", Init
  PROVE  Priority
  BY ABBootConstants DEF Init, Priority, SingleEnv, Slot

\* A fallback spends the tries of the first choice, so it happens only after them.
LEMMA FallbackStep ==
  ASSUME Board = "cm3", IInv, Priority, [Next]_vars
  PROVE  JustifiedFallback
  <1> SUFFICES ASSUME phase = "reset", phase' = "boot", running' # wanted
               PROVE  fails[wanted] = Tries
    BY DEF JustifiedFallback
  <1>1. SelectSlot
    BY EnvKept DEF Next, Booting, Confirming, Updating, Installing, Faults, BootFails,
       BootStalls, BootCompletes, FirstBootMarkGood, FirstBootSentinel, VerificationPasses,
       Upgrade, MayUpgrade, RaucMarkBad, RaucWrite, RaucWritten, RaucGrantTries, RaucSetOrder,
       InstallFails, UpgradeTimesOut, Reboot, PowerLoss, Halted, vars
  <1>2. /\ wanted \in Slot /\ order \in Slot
        /\ fails[wanted] \in 0..Tries /\ left \in [Slot -> 0..Tries]
    BY DEF IInv, TypeOK
  <1>3. SUFFICES ASSUME fails[wanted] < Tries PROVE FALSE
    BY <1>2, ABBootConstants
  <1>4. left[wanted] > 0 /\ Refilled = left
    BY <1>2, <1>3, ABBootConstants DEF Priority, Refilled
  <1>5. Chosen = wanted
    BY <1>2, <1>3, <1>4 DEF Priority, Chosen, Other, Slot
  <1> QED
    BY <1>1, <1>5 DEF SelectSlot

\* On the CM3 the boot method leaves the slot that was confirmed or activated last only after
\* all its tries were spent without a confirmation.
THEOREM FallbackIsJustified ==
  ASSUME Board = "cm3"
  PROVE  Spec => FallbackJustified
  <1>1. Init => Priority
    BY PriorityInit
  <1>2. IInv /\ Priority /\ [Next]_vars => Priority'
    BY PriorityStep
  <1>3. IInv /\ Priority /\ [Next]_vars => [JustifiedFallback]_vars
    BY FallbackStep
  <1> QED
    BY IInvHolds, <1>1, <1>2, <1>3, PTL DEF Spec, FallbackJustified
=============================================================================
