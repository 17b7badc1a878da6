----------------------- MODULE Lan87xxWithReset_proofs -----------------------
(***************************************************************************)
(* Proofs about the LAN87xx driver under an nRST pin that may move, or     *)
(* stick, between any two calls.                                           *)
(***************************************************************************)
EXTENDS Lan87xxWithReset, Lan87xxPromise_proofs

(***************************************************************************)
(* The inductive invariant.  The driver's own invariant survives the pin;  *)
(* what init has promised does not, until the next init succeeds.          *)
(***************************************************************************)

\* With the pin low the chip is in reset, silent and without a link, and no
\* method runs while hardware_reset holds it there.
PinInv ==
  /\ nrst \in {"high", "low"} /\ pulse \in {"none", "low"} /\ stale \in BOOLEAN
  /\ nrst = "low" => bmcr = {"RESET"} /\ ~alive /\ ~linkUp
  /\ pulse = "low" => nrst = "low" /\ pc = "idle"

\* A poll that has read LINK_STATUS as 1, on a chip that answers, has seen it.
SeenInv ==
  /\ seen \in BOOLEAN
  /\ pc \in PollSteps /\ linkUp => seen
  /\ pc \in {"bmcr", "pscsr"} /\ alive => seen

Unconditional == ResetAlone /\ InitProgress /\ (asked # Unknown => initOk)

WInv ==
  /\ IInv /\ PinInv /\ SeenInv /\ Unconditional
  /\ ~stale => Promise

\* Before an init has succeeded there is no promise to keep.
LEMMA UngrantedIsPromise == Unconditional /\ ~initOk => Promise
  BY MarkersAreNoModes DEF Unconditional, Promise, Granted, AskedIsSet, Agrees, Unknown, AutoNeg

LEMMA PromiseIsUnconditional == Promise => Unconditional
  BY DEF Promise, AskedIsSet, Unconditional

LEMMA InitWInv == WithResetInit => WInv
  <1>1. WithResetInit => IInv /\ Promise
    BY InitIInv, InitPromise DEF WithResetInit
  <1>2. WithResetInit => PinInv /\ SeenInv
    BY DEF WithResetInit, Init, PinInv, SeenInv, PollSteps
  <1>3. QED BY <1>1, <1>2, PromiseIsUnconditional DEF WInv

LEMMA NextKeepsIInv == IInv /\ [Next]_vars => IInv'
  <1>1. IInv' <=> DriverSound' /\ ChipSound'
    BY DEF IInv, Typed, RestartInv, DriverSound, ChipSound, BmcrSound
  <1>2. QED BY <1>1, NextSound, IInvSplits

\* The inner driver and the silicon, on a PHY that may have lost its setup.
LEMMA NextKeepsUnconditional ==
  ASSUME IInv, Unconditional, [Next]_vars
  PROVE  Unconditional'
  <1>1. CASE ~initOk
    <2>1. Promise'
      BY <1>1, UngrantedIsPromise, NextKeepsPromise
    <2>2. Promise' => Unconditional'
      BY DEF Promise, AskedIsSet, Unconditional
    <2>3. QED BY <2>1, <2>2
  <1>2. CASE initOk
    <2>1. op # "init" \/ pc = "idle"
      BY <1>2 DEF Unconditional, InitProgress
    <2>2. CASE UNCHANGED vars \/ ChipProgress \/ CableMoves \/ ClockChanges
      <3>1. UNCHANGED <<op, pc, initOk, asked>>
        BY <2>2, EnvironmentFrame DEF vars, driver, call, history
      <3>2. ResetAlone'
        BY <2>2, ResetWords DEF vars, silicon, ChipProgress, ResetCompletes, RestartSelfClears,
           AnCompletes, LinkRises, CableMoves, ClockChanges, Unconditional, ResetAlone
      <3>3. QED BY <1>2, <2>1, <3>1, <3>2 DEF Unconditional, InitProgress
    <2>3. CASE ControlStep
      <3>1. UNCHANGED bmcr
        BY <2>3, ControlFrame DEF silicon
      <3>2. ResetAlone'
        BY <3>1 DEF Unconditional, ResetAlone
      <3>3. CASE CallSome \/ New
        BY <3>2, <3>3 DEF CallSome, CallInit, CallPoll, CallQuery, CallEnableAn, CallLoopbackOn,
           CallLoopbackOff, CallForceLink, Call, New, history, Unconditional, InitProgress
      <3>4. CASE ~CallSome /\ ~New
        <4>1. pc # "idle" /\ UNCHANGED <<op, initOk, asked>>
          BY <2>3, <3>4 DEF ControlStep, AwaitReset, CheckId, ReadBmcr, ReadBmsr, ReadMode,
             ReadPscsr, Query, ReadFails, ReadSteps, Return, Goto, Report, report, history
        <4>2. QED BY <2>1, <3>2, <4>1 DEF Unconditional, InitProgress
      <3>5. QED BY <3>3, <3>4
    <2>4. CASE WriteBmcr \/ WriteLoopbackOn
      <3>1. pc # "idle" /\ pc' = "idle" /\ op # "init"
        BY <2>1, <2>4 DEF WriteBmcr, WriteLoopbackOn, Return
      <3>2. ResetAlone'
        <4>1. UNCHANGED bmcr \/ \E w : BmcrWritten(w)
          BY <2>4 DEF WriteBmcr, WriteLoopbackOn
        <4>2. QED BY <4>1, BmcrAfterWrite DEF Unconditional, ResetAlone
      <3>3. asked' # Unknown => initOk'
        BY <2>4 DEF WriteBmcr, WriteLoopbackOn, Expected
      <3>4. QED BY <3>1, <3>2, <3>3 DEF Unconditional, InitProgress
    <2>5. ~(SoftReset \/ WriteMcsr \/ WriteAnar)
      BY <2>1 DEF SoftReset, WriteMcsr, WriteAnar, IInv, OpFollowsStep
    <2>6. QED
      BY <2>2, <2>3, <2>4, <2>5 DEF Next, DriverStep, ControlStep
  <1>3. QED BY <1>1, <1>2

\* A chip that is silent in reset stays so until the pin is released.
LEMMA HeldStaysHeld ==
  ASSUME bmcr = {"RESET"}, ~alive, ~linkUp,
         \/ CallSome \/ DriverStep \/ New
         \/ RestartSelfClears \/ AnCompletes \/ LinkRises \/ CableMoves
  PROVE  bmcr' = {"RESET"} /\ ~alive' /\ ~linkUp'
  <1>1. CASE ControlStep
    BY <1>1, ControlFrame DEF silicon
  <1>2. CASE RestartSelfClears \/ AnCompletes \/ LinkRises \/ CableMoves
    BY <1>2 DEF RestartSelfClears, AnCompletes, LinkRises, CableMoves
  <1>3. CASE SoftReset \/ WriteMcsr \/ WriteAnar \/ WriteBmcr \/ WriteLoopbackOn
    BY <1>3 DEF SoftReset, WriteMcsr, WriteAnar, WriteBmcr, WriteLoopbackOn, Outcome
  <1>4. QED BY <1>1, <1>2, <1>3 DEF DriverStep, ControlStep

\* A poll goes on past BMSR only if LINK_STATUS read 1.
LEMMA PollProgress ==
  ASSUME CallSome \/ DriverStep \/ New, pc' \in {"bmcr", "pscsr"}
  PROVE  UNCHANGED <<alive, linkUp>> /\ (pc \in {"bmcr", "pscsr"} \/ (pc = "bmsr" /\ LinkRead))
  <1>1. ~(SoftReset \/ WriteMcsr \/ WriteAnar \/ WriteBmcr \/ WriteLoopbackOn)
    BY DEF SoftReset, WriteMcsr, WriteAnar, WriteBmcr, WriteLoopbackOn, Goto, Return
  <1>2. ~(CallSome \/ New \/ AwaitReset \/ CheckId \/ ReadBmcr \/ Query \/ ReadFails \/ ReadPscsr)
        \/ UNCHANGED pc
    BY DEF CallSome, CallInit, CallPoll, CallQuery, CallEnableAn, CallLoopbackOn, CallLoopbackOff,
       CallForceLink, Call, New, AwaitReset, CheckId, ReadBmcr, Query, ReadFails, ReadPscsr,
       Report, Goto, Return
  <1>3. CASE ReadBmsr \/ ReadMode
    BY <1>3 DEF ReadBmsr, ReadMode, Report, Goto, silicon
  <1>4. CASE UNCHANGED pc /\ ~(ReadBmsr \/ ReadMode)
    BY <1>1, <1>4, ControlFrame DEF ControlStep, DriverStep, silicon
  <1>5. QED BY <1>1, <1>2, <1>3, <1>4 DEF DriverStep

\* LINK_STATUS as the call in flight has seen it, by the driver and the silicon.
LEMMA LinkSeenKeepsSeenInv ==
  ASSUME SeenInv, LinkSeen,
         \/ CallSome \/ DriverStep \/ New
         \/ UNCHANGED pc /\ (UNCHANGED alive \/ pc = "idle")
  PROVE  SeenInv'
  <1>1. seen' = (pc' \in PollSteps /\ (linkUp' \/ (pc \in PollSteps /\ seen)))
    BY DEF LinkSeen
  <1>2. seen' \in BOOLEAN /\ (pc' \in PollSteps /\ linkUp' => seen')
    BY <1>1
  <1>3. ASSUME pc' \in {"bmcr", "pscsr"}, alive' PROVE seen'
    <2>1. CASE CallSome \/ DriverStep \/ New
      BY <1>1, <1>3, <2>1, PollProgress DEF SeenInv, PollSteps, LinkRead
    <2>2. CASE UNCHANGED pc /\ (UNCHANGED alive \/ pc = "idle")
      BY <1>1, <1>3, <2>2 DEF SeenInv, PollSteps
    <2>3. QED BY <2>1, <2>2
  <1>4. QED BY <1>2, <1>3 DEF SeenInv, PollSteps

LEMMA NextWInv ==
  ASSUME WInv, [WithResetNext]_allVars
  PROVE  WInv'
  <1>1. IInv /\ PinInv /\ SeenInv /\ Unconditional /\ (~stale => Promise)
    BY DEF WInv
  <1>2. CASE DriveLow
    <2>1. /\ UNCHANGED <<link_up, op, pc, n, cur, arg, link, initOk, asked>>
          /\ UNCHANGED <<part, anar, edpd, adv, partner>>
          /\ pc = "idle" /\ bmcr' = {"RESET"} /\ an' = "off" /\ alive' = FALSE /\ linkUp' = FALSE
          /\ nrst' = "low" /\ pulse' = "low" /\ stale' = TRUE /\ seen' = seen
      BY <1>2 DEF DriveLow, driver, call, report, history
    <2>2. IInv'
      BY <1>1, <2>1 DEF IInv, Typed, OpFollowsStep, RestartInv, RestartOnlyWhileNegotiating,
         DoneInv, BmcrBits
    <2>3. QED
      BY <1>1, <2>1, <2>2 DEF WInv, PinInv, SeenInv, PollSteps, Unconditional, ResetAlone, InitProgress
  <1>3. CASE DriveLowFails \/ Release \/ ReleaseFails
    <2>1. /\ UNCHANGED <<link_up, op, pc, n, cur, arg, link, initOk, asked, stale, seen>>
          /\ UNCHANGED <<part, bmcr, anar, edpd, an, adv, linkUp, partner>>
          /\ pc = "idle" /\ alive' \in BOOLEAN
      BY <1>1, <1>3 DEF DriveLowFails, Release, ReleaseFails, driver, call, report, history,
         silicon, negotiation, resetVars, PinInv, IInv, Typed
    <2>2. IInv'
      BY <1>1, <2>1 DEF IInv, Typed, OpFollowsStep, RestartInv, RestartOnlyWhileNegotiating,
         DoneInv, Common
    <2>3. Unconditional' /\ (Promise => Promise')
      BY <1>1, <2>1 DEF Unconditional, Promise, ResetAlone, InitProgress, Granted, Usable,
         AskedIsSet, Agrees
    <2>4. PinInv'
      <3>1. CASE DriveLowFails \/ ReleaseFails
        BY <1>1, <3>1 DEF DriveLowFails, ReleaseFails, call, silicon, resetVars, PinInv
      <3>2. CASE Release
        BY <1>1, <3>2 DEF Release, PinInv
      <3>3. QED BY <1>3, <3>1, <3>2
    <2>5. SeenInv'
      BY <1>1, <2>1 DEF SeenInv, PollSteps
    <2>6. QED BY <1>1, <2>1, <2>2, <2>3, <2>4, <2>5 DEF WInv
  <1>4. CASE Inner(CallSome \/ DriverStep \/ New)
    <2>1. /\ CallSome \/ DriverStep \/ New
          /\ pulse = "none" /\ UNCHANGED <<nrst, pulse>> /\ LinkSeen
          /\ stale' = (stale /\ ~(op = "init" /\ pc = "bmcr_wr" /\ res' = "ok"))
      BY <1>4 DEF Inner
    <2>2. [Next]_vars
      BY <2>1 DEF Next
    <2>3. IInv' /\ Unconditional'
      BY <1>1, <2>2, NextKeepsIInv, NextKeepsUnconditional
    <2>4. PinInv'
      BY <1>1, <2>1, HeldStaysHeld DEF PinInv
    <2>5. ASSUME ~stale' PROVE Promise
      <3>1. CASE op = "init" /\ pc = "bmcr_wr"
        BY <1>1, <3>1, UngrantedIsPromise DEF Unconditional, InitProgress
      <3>2. CASE ~stale
        BY <1>1, <3>2
      <3>3. QED BY <1>1, <2>1, <2>5, <3>1, <3>2 DEF PinInv
    <2>6. ~stale' => Promise'
      BY <1>1, <2>2, <2>5, NextKeepsPromise
    <2>7. SeenInv'
      BY <1>1, <2>1, LinkSeenKeepsSeenInv
    <2>8. QED BY <2>3, <2>4, <2>6, <2>7 DEF WInv
  <1>5. CASE Environment
    <2>1. /\ ChipProgress \/ CableMoves \/ ClockChanges
          /\ UNCHANGED <<nrst, pulse, stale>> /\ LinkSeen
          /\ \/ nrst = "high"
             \/ RestartSelfClears \/ AnCompletes \/ LinkRises \/ CableMoves
      BY <1>5 DEF Environment, ChipProgress
    <2>2. [Next]_vars
      BY <2>1 DEF Next
    <2>3. IInv' /\ Unconditional' /\ (Promise => Promise')
      BY <1>1, <2>2, NextKeepsIInv, NextKeepsUnconditional, NextKeepsPromise
    <2>4. UNCHANGED pc
      BY <2>1, EnvironmentFrame DEF driver, call
    <2>5. PinInv'
      <3>1. CASE nrst = "high"
        BY <1>1, <2>1, <2>4, <3>1 DEF PinInv
      <3>2. CASE nrst # "high"
        BY <1>1, <2>1, <2>4, <3>2, HeldStaysHeld DEF PinInv
      <3>3. QED BY <3>1, <3>2
    <2>6. SeenInv'
      <3>1. UNCHANGED alive \/ pc = "idle"
        BY <2>1 DEF ChipProgress, ResetCompletes, RestartSelfClears, AnCompletes, LinkRises,
           CableMoves, ClockChanges
      <3>2. QED BY <1>1, <2>1, <2>4, <3>1, LinkSeenKeepsSeenInv
    <2>7. QED BY <1>1, <2>1, <2>3, <2>5, <2>6 DEF WInv
  <1>6. CASE UNCHANGED allVars
    <2>1. UNCHANGED vars /\ UNCHANGED <<nrst, pulse, stale, seen>>
      BY <1>6 DEF allVars, resetVars
    <2>2. IInv' /\ Unconditional' /\ (Promise => Promise')
      BY <1>1, <2>1, NextKeepsIInv, NextKeepsUnconditional, NextKeepsPromise
    <2>3. PinInv' /\ SeenInv'
      BY <1>1, <2>1 DEF PinInv, SeenInv, vars, driver, call, silicon
    <2>4. QED BY <1>1, <2>1, <2>2, <2>3 DEF WInv
  <1>7. QED
    BY <1>2, <1>3, <1>4, <1>5, <1>6 DEF WithResetNext

LEMMA WithResetInvariance == WithResetSpec => []WInv
  BY InitWInv, NextWInv, PTL DEF WithResetSpec

(***************************************************************************)
(* The theorems.                                                           *)
(***************************************************************************)

\* An answer of poll_link is a step of the inner driver.
LEMMA PollIsInner ==
  ASSUME WInv, [WithResetNext]_allVars, NEW m \in Modes, Polled(m)
  PROVE  [Next]_vars
  <1>1. pc' # pc /\ pc # "idle"
    BY DEF Polled
  <1>2. ~(DriveLow \/ DriveLowFails \/ Release \/ ReleaseFails \/ UNCHANGED allVars)
    BY <1>1 DEF DriveLow, DriveLowFails, Release, ReleaseFails, allVars, vars, driver, call
  <1>3. ~Environment
    BY <1>1, EnvironmentFrame DEF Environment, ChipProgress, driver, call
  <1>4. QED BY <1>2, <1>3 DEF WithResetNext, Inner, Next

\* With a forgotten init, or a pin that stuck, poll_link still reports a link
\* only if LINK_STATUS has been 1 during the call: every path to an answer leads
\* through a read of BMSR, and the pin cannot move before the answer.
THEOREM NothingInvented == WithResetSpec => PollNeverInvents
  <1>1. ASSUME WInv, [WithResetNext]_allVars, NEW m \in Modes, Polled(m)
        PROVE  seen /\ alive
    <2>1. [Next]_vars /\ alive
      BY <1>1, PollIsInner, PollNeedsChip
    <2>2. pc \in {"bmcr", "pscsr"}
      BY <1>1, <2>1, PollReportsFrom
    <2>3. QED BY <1>1, <2>1, <2>2 DEF WInv, SeenInv
  <1>2. WInv /\ [WithResetNext]_allVars => [\A m \in Modes : Polled(m) => seen /\ alive]_allVars
    BY <1>1
  <1>3. QED BY <1>2, WithResetInvariance, PTL DEF WithResetSpec, PollNeverInvents

\* Full negotiation and forced modes are back once init succeeds after a pulse.
THEOREM ModesRestored == WithResetSpec => ReinitRestoresModes
  <1>1. ASSUME WInv, [WithResetNext]_allVars, NEW m \in Modes, Polled(m), alive, ~stale
        PROVE  /\ asked = AutoNeg => m = Best(partner)
               /\ asked \in Modes => m = asked
    <2>1. [Next]_vars /\ IInv /\ Promise
      BY <1>1, PollIsInner DEF WInv
    <2>2. QED BY <1>1, <2>1, NegotiatedPoll, ForcedPoll
  <1>2. WInv /\ [WithResetNext]_allVars =>
          [\A m \in Modes : Polled(m) /\ alive /\ ~stale =>
             /\ asked = AutoNeg => m = Best(partner)
             /\ asked \in Modes => m = asked]_allVars
    BY <1>1
  <1>3. QED BY <1>2, WithResetInvariance, PTL DEF WithResetSpec, ReinitRestoresModes

(***************************************************************************)
(* The wrapper implements the trait.                                       *)
(***************************************************************************)

Ready == initOk /\ ~stale

LEMMA InnerImplementsTrait ==
  ASSUME WInv, WInv', Inner(CallSome \/ DriverStep \/ New)
  PROVE  [WithResetTrait!Next]_WithResetTrait!vars
  <1> USE DEF WithResetTrait!Next, Restarted
  <1>0. pulse = "none" /\ pulse' = "none"
    BY DEF Inner
  <1>1. WithResetTrait!SiliconMoves
    BY UsableIsBoolean DEF WInv, Promise, Granted, WithResetTrait!SiliconMoves
  <1>2. /\ IsCall \/ IsWork \/ IsCommit \/ IsAnswer \/ IsReturn \/ IsRestart
        /\ stale \in BOOLEAN /\ initOk \in BOOLEAN
        /\ stale' = (stale /\ ~(op = "init" /\ pc = "bmcr_wr" /\ res' = "ok"))
    BY StepKinds DEF WInv, IInv, Typed, Inner, Next, PinInv
  <1>3. initOk' = initOk => Ready' = Ready
    <2>1. CASE op = "init" /\ pc = "bmcr_wr"
      BY <2>1 DEF WInv, Unconditional, InitProgress, Ready
    <2>2. CASE ~(op = "init" /\ pc = "bmcr_wr")
      BY <1>2, <2>2 DEF Ready
    <2>3. QED BY <2>1, <2>2
  <1>4. CASE IsCall
    <2>1. Method = "none" /\ Method' \in {"init", "poll_link", "other"}
          /\ (op' = "init" <=> Method' = "init")
      BY <1>4, MethodOf, MethodAfter DEF IsCall
    <2>2. stale' = stale
      BY <1>2, <1>4 DEF IsCall
    <2>3. Ready' = (Ready /\ Method' # "init")
      BY <1>2, <1>4, <2>1, <2>2 DEF IsCall, Ready
    <2>4. WithResetTrait!Invoke(Method')
      BY <1>0, <1>4, <2>1, <2>3 DEF IsCall, Usable, silicon, Ready, WithResetTrait!Invoke
    <2>5. QED BY <2>1, <2>4
  <1>5. CASE IsWork
    BY <1>0, <1>1, <1>3, <1>5 DEF IsWork, Ready, WithResetTrait!Work
  <1>6. CASE IsCommit
    <2>1. Ready' = TRUE
      BY <1>2, <1>6 DEF IsCommit, Ready
    <2>2. QED
      BY <1>0, <1>1, <1>6, <2>1, MethodOf, MethodAfter
         DEF IsCommit, Ready, WithResetTrait!InitSucceeds, WithResetTrait!Return
  <1>7. CASE IsAnswer
    BY <1>0, <1>1, <1>3, <1>7, MethodOf, MethodAfter
       DEF IsAnswer, Ready, WithResetTrait!PollAnswers, WithResetTrait!Return
  <1>8. CASE IsReturn
    BY <1>0, <1>1, <1>3, <1>8, MethodOf, MethodAfter
       DEF IsReturn, Ready, WithResetTrait!ReturnsOtherwise, WithResetTrait!Return
  <1>9. CASE IsRestart
    <2>1. Ready' = FALSE
      BY <1>9 DEF IsRestart, Ready
    <2>2. QED
      BY <1>0, <1>1, <1>9, <2>1, MethodAfter DEF IsRestart, Ready, WithResetTrait!Lose
  <1>10. QED
    BY <1>2, <1>4, <1>5, <1>6, <1>7, <1>8, <1>9

\* A pulse takes the readiness back, an init grants it anew, and nothing in
\* between looks like a ready PHY.
THEOREM WrapperTraitImplemented == WithResetSpec => WrapperImplementsPhyDriver
  <1>1. WithResetInit => WithResetTrait!Init
    BY UsableIsBoolean, MethodOf DEF WithResetInit, Init, Restarted, WithResetTrait!Init
  <1>2. ASSUME WInv, WInv', [WithResetNext]_allVars
        PROVE  [WithResetTrait!Next]_WithResetTrait!vars
    <2>1. WithResetTrait!SiliconMoves
      BY <1>2, UsableIsBoolean DEF WInv, Promise, Granted, WithResetTrait!SiliconMoves
    <2>2. CASE DriveLow
      BY <2>1, <2>2, MethodAfter
         DEF DriveLow, driver, call, report, WithResetTrait!Next, WithResetTrait!Lose
    <2>3. CASE DriveLowFails \/ Release \/ ReleaseFails \/ Environment \/ UNCHANGED allVars
      <3>1. UNCHANGED <<initOk, stale, op, pc, link>>
        <4>1. CASE Environment
          BY <4>1, EnvironmentFrame
             DEF Environment, ChipProgress, driver, call, report, history, resetVars
        <4>2. CASE DriveLowFails \/ Release \/ ReleaseFails \/ UNCHANGED allVars
          BY <4>2 DEF DriveLowFails, Release, ReleaseFails, allVars, vars, driver, call, report,
             history, resetVars
        <4>3. QED BY <2>3, <4>1, <4>2
      <3>2. UNCHANGED Method
        BY <3>1 DEF Method
      <3>3. (Restarted \/ pulse = "low")' => Restarted \/ pulse = "low"
        <4>1. CASE Environment
          BY <4>1, EnvironmentFrame
             DEF Environment, ChipProgress, driver, call, report, Restarted
        <4>2. CASE DriveLowFails \/ Release \/ ReleaseFails \/ UNCHANGED allVars
          BY <4>2 DEF DriveLowFails, Release, ReleaseFails, allVars, vars, driver, call, report,
             resetVars, Restarted
        <4>3. QED BY <2>3, <4>1, <4>2
      <3>4. QED
        BY <2>1, <3>1, <3>2, <3>3 DEF WithResetTrait!Next, WithResetTrait!Work
    <2>4. QED
      BY <1>2, <2>2, <2>3, InnerImplementsTrait DEF WithResetNext
  <1>3. QED
    BY <1>1, <1>2, WithResetInvariance, PTL
       DEF WithResetSpec, WrapperImplementsPhyDriver, WithResetTrait!Spec
=============================================================================
