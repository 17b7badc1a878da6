----------------------- MODULE Lan867xWithReset_proofs -----------------------
(***************************************************************************)
(* Proofs about the LAN867x driver under a reset pin that may move, or     *)
(* stick, between any two calls.                                           *)
(***************************************************************************)
EXTENDS Lan867xWithReset, Lan867x_proofs

(***************************************************************************)
(* The inductive invariant.  While the cache is stale only what does not   *)
(* rest on an initialised chip is left of the driver's own invariant; from *)
(* the commit of the next init on all of it holds again.                   *)
(***************************************************************************)

\* hardware_reset borrows the driver: no method runs while the pin is held.
PulseInv ==
  /\ pulse \in {"none", "low"} /\ stale \in BOOLEAN
  /\ pulse = "low" => phase = "held" /\ pc = "idle"

Unconditional == InitProgress /\ Valid(cfg) /\ (pst => en)

WInv ==
  /\ Typed /\ PulseInv /\ Unconditional
  /\ ~stale => IInv

LEMMA IInvImpliesUnconditional == IInv => Unconditional
  BY DEF IInv, ConfigureProgress, StatusProgress, Unconditional

\* On an uncommitted driver there is no difference.
LEMMA UncommittedIsCurrent == Unconditional /\ chip = None => IInv
  BY DEF Unconditional, IInv, CommittedImpliesReady, ConfigureProgress, StatusProgress,
         EnabledNodeHasOpportunity, Agreement

LEMMA InitWInv == WithResetInit => WInv
  <1> SUFFICES ASSUME WithResetInit PROVE WInv
    OBVIOUS
  <1>1. Init /\ pulse = "none" /\ stale = FALSE
    BY DEF WithResetInit
  <1>2. TypeOK /\ IInv
    BY <1>1, InitType, InitIInv
  <1>3. QED
    BY <1>1, <1>2, IInvImpliesUnconditional DEF TypeOK, PulseInv, WInv

\* The inner driver, on a chip it may no longer know.
LEMMA InnerKeepsUnconditional ==
  ASSUME Typed, Unconditional, CallSome \/ DriverStep \/ Restart
  PROVE  Unconditional'
  <1>1. [Next]_vars
    BY DEF Next
  <1>2. CASE pc \in InitSteps
    <2>1. chip = None
      BY <1>2 DEF Unconditional, InitProgress
    <2>2. IInv'
      BY <1>1, <2>1, UncommittedIsCurrent, NextIInv
    <2>3. IInv' => Unconditional'
      BY DEF IInv, ConfigureProgress, StatusProgress, Unconditional
    <2>4. QED BY <2>2, <2>3
  <1>3. CASE pc \notin InitSteps
    <2> USE DEF Unconditional, InitProgress, InitSteps, PlcaSteps, StatusSteps, Valid, silicon,
                plcaRegs, cache, Goto, Return
    <2>1. CASE CallSome
      BY <1>3, <2>1 DEF CallSome, CallInit, CallPoll, CallQuery, CallDisable, CallStatus,
         CallConfigure, RejectConfig, Call
    <2>2. CASE PollLink \/ Query \/ ReadEn \/ ReadDis \/ ReadStatus \/ ReadFails
      BY <1>3, <2>2 DEF PollLink, Query, ReadEn, ReadDis, ReadStatus, ReadFails, Report, PlcaStep
    <2>3. CASE WriteCtrl1 \/ WriteBurst
      BY <2>3 DEF WriteCtrl1, WriteBurst, PlcaStep
    <2>4. CASE WriteEn \/ WriteDis
      <3>1. pst' => en'
        BY <2>4 DEF WriteEn, WriteDis, Typed
      <3>2. pc' = "idle" /\ UNCHANGED cfg
        BY <2>4 DEF WriteEn, WriteDis
      <3>3. QED BY <3>1, <3>2
    <2>5. CASE Restart
      BY <2>5 DEF Restart
    <2>6. ~(SoftReset \/ AwaitReset \/ Handshake \/ HandshakeLost \/ Identify \/ ReadMde \/ WriteMde)
      BY <1>3 DEF SoftReset, AwaitReset, Handshake, HandshakeLost, Identify, ReadMde, WriteMde
    <2>7. QED BY <2>1, <2>2, <2>3, <2>4, <2>5, <2>6 DEF DriverStep
  <1>4. QED BY <1>2, <1>3

LEMMA NextWInv ==
  ASSUME WInv, [WithResetNext]_allVars
  PROVE  WInv'
  <1>1. Typed /\ PulseInv /\ Unconditional /\ (~stale => IInv)
    BY DEF WInv
  <1>2. CASE DriveLow
    <2>1. Typed'
      BY <1>1, <1>2, LiteralTypes, ConstantsAssumption
         DEF DriveLow, Defaults, Typed, Phases, cache
    <2>2. Unconditional'
      BY <1>1, <1>2 DEF DriveLow, Defaults, Unconditional, InitProgress, InitSteps, Valid
    <2>3. QED
      BY <1>2, <2>1, <2>2 DEF DriveLow, WInv, PulseInv
  <1>3. CASE Release
    <2>1. pc = "idle" /\ stale' = stale
      BY <1>1, <1>3 DEF Release, PulseInv
    <2>2. stale \/ chip = None
      BY <1>1, <1>3 DEF Release, PulseInv, IInv, CommittedImpliesReady
    <2>3. Typed'
      BY <1>1, <1>3 DEF Release, Typed, Phases, cache, plcaRegs
    <2>4. Unconditional'
      BY <1>1, <1>3, <2>1 DEF Release, Unconditional, InitProgress, InitSteps, Valid, plcaRegs
    <2>5. chip' = chip
      BY <1>3 DEF Release, cache
    <2>6. Unconditional' /\ chip' = None => IInv'
      BY DEF Unconditional, IInv, CommittedImpliesReady, ConfigureProgress, StatusProgress,
             EnabledNodeHasOpportunity, Agreement
    <2>7. QED
      BY <1>1, <1>3, <2>1, <2>2, <2>3, <2>4, <2>5, <2>6 DEF Release, WInv, PulseInv
  <1>4. CASE DriveLowFails \/ ReleaseFails
    <2>1. UNCHANGED <<cache, pc, n, cfg, snap, link, lastPlca, silicon, stale>>
          /\ (pulse' = "none" \/ pulse' = pulse)
      BY <1>4 DEF DriveLowFails, ReleaseFails, resetVars
    <2>2. Typed' /\ PulseInv'
      BY <1>1, <2>1 DEF Typed, PulseInv, cache, silicon, plcaRegs
    <2>3. Unconditional' /\ (IInv => IInv')
      BY <1>1, <2>1 DEF Unconditional, IInv, CommittedImpliesReady, InitProgress, ConfigureProgress,
         StatusProgress, EnabledNodeHasOpportunity, Agreement, Valid, cache, silicon, plcaRegs
    <2>4. QED BY <1>1, <2>1, <2>2, <2>3 DEF WInv
  <1>5. CASE Inner(CallSome \/ DriverStep \/ Restart)
    <2>1. /\ CallSome \/ DriverStep \/ Restart
          /\ pulse = "none" /\ pulse' = pulse
          /\ stale' = (stale /\ ~(pc = "mde_wr" /\ res' = "ok"))
      BY <1>5 DEF Inner
    <2>2. [Next]_vars
      BY <2>1 DEF Next
    <2>3. Typed' /\ PulseInv' /\ Unconditional'
      BY <1>1, <2>1, <2>2, NextTyped, InnerKeepsUnconditional DEF PulseInv
    <2>4. ASSUME ~stale' PROVE IInv
      <3>1. CASE ~stale
        BY <1>1, <3>1
      <3>2. CASE pc = "mde_wr"
        BY <1>1, <3>2, UncommittedIsCurrent DEF Unconditional, InitProgress, InitSteps
      <3>3. QED BY <1>1, <2>1, <2>4, <3>1, <3>2 DEF PulseInv
    <2>5. ~stale' => IInv'
      BY <1>1, <2>2, <2>4, NextIInv
    <2>6. QED BY <2>3, <2>5 DEF WInv
  <1>6. CASE Environment
    <2>1. [Next]_vars /\ (ChipProgress \/ BeaconsChange) /\ UNCHANGED <<pulse, stale>>
      BY <1>6 DEF Environment, resetVars, Next
    <2>2. pc' = pc /\ (phase = "held" => phase' = "held")
      BY <2>1 DEF ChipProgress, SwResetClears, BootCompletes, BeaconsChange
    <2>3. Typed' /\ PulseInv' /\ (IInv => IInv')
      BY <1>1, <2>1, <2>2, NextTyped, NextIInv DEF PulseInv
    <2>4. Unconditional'
      <3>1. CASE ChipProgress
        BY <1>1, <3>1 DEF ChipProgress, SwResetClears, BootCompletes, Unconditional, InitProgress,
           InitSteps, Valid, plcaRegs, cache
      <3>2. CASE BeaconsChange
        BY <1>1, <3>2 DEF BeaconsChange, Running, Unconditional, InitProgress, InitSteps, Valid, cache
      <3>3. QED BY <2>1, <3>1, <3>2
    <2>5. QED BY <1>1, <2>1, <2>3, <2>4 DEF WInv
  <1>7. CASE UNCHANGED allVars
    <2>1. UNCHANGED vars /\ UNCHANGED <<pulse, stale>>
      BY <1>7 DEF allVars, resetVars
    <2>2. Typed' /\ PulseInv'
      BY <1>1, <2>1 DEF vars, Typed, PulseInv, cache, silicon, plcaRegs
    <2>3. Unconditional' /\ (IInv => IInv')
      BY <1>1, <2>1 DEF vars, Unconditional, IInv, CommittedImpliesReady, InitProgress,
         ConfigureProgress, StatusProgress, EnabledNodeHasOpportunity, Agreement, Valid, cache,
         silicon, plcaRegs
    <2>4. QED BY <1>1, <2>1, <2>2, <2>3 DEF WInv
  <1>8. QED
    BY <1>2, <1>3, <1>4, <1>5, <1>6, <1>7 DEF WithResetNext

LEMMA WithResetInvariance == WithResetSpec => []WInv
  BY InitWInv, NextWInv, PTL DEF WithResetSpec

(***************************************************************************)
(* The theorems.                                                           *)
(***************************************************************************)

\* However often the pin moved or stuck, an init that succeeds afterwards makes
\* chip and plca_id true of the silicon again.
THEOREM InitRestores == WithResetSpec => []ReinitRestores
  <1>1. WInv => ReinitRestores
    BY DEF WInv, IInv, Agreement, ReinitRestores, RetryRestoresAgreement
  <1>2. QED BY <1>1, WithResetInvariance, PTL

(***************************************************************************)
(* The wrapper implements the trait.                                       *)
(***************************************************************************)

Ready == chip # None /\ ~stale

LEMMA InnerImplementsTrait ==
  ASSUME WInv, WInv', Inner(CallSome \/ DriverStep \/ Restart)
  PROVE  [WithResetTrait!Next]_WithResetTrait!vars
  <1> USE DEF WithResetTrait!Next, Restarted
  <1>0. pulse = "none" /\ pulse' = "none"
    BY DEF Inner
  <1>1. WithResetTrait!SiliconMoves
    BY UsableIsBoolean DEF WInv, IInv, CommittedImpliesReady, Usable, WithResetTrait!SiliconMoves
  <1>2. /\ IsCall \/ IsRefusal \/ IsWork \/ IsCommit \/ IsAnswer \/ IsReturn \/ IsRestart
        /\ stale \in BOOLEAN /\ stale' = (stale /\ ~(pc = "mde_wr" /\ res' = "ok"))
    BY StepKinds DEF WInv, Unconditional, Inner, Next, PulseInv
  <1>3. chip' = chip => Ready' = Ready
    <2>1. CASE pc = "mde_wr"
      BY <2>1 DEF WInv, Unconditional, InitProgress, InitSteps, Ready
    <2>2. CASE pc # "mde_wr"
      BY <1>2, <2>2 DEF Ready
    <2>3. QED BY <2>1, <2>2
  <1>4. CASE IsCall
    <2>1. Method' \in {"init", "poll_link", "other"} /\ Method = "none"
      BY <1>4, MethodOf, MethodAfter DEF IsCall, InitSteps
    <2>2. pc' \in InitSteps <=> Method' = "init"
      BY <1>4, MethodAfter DEF IsCall, InitSteps
    <2>3. stale' = stale
      BY <1>2, <1>4 DEF IsCall
    <2>4. WithResetTrait!Invoke(Method')
      BY <1>0, <1>4, <2>1, <2>2, <2>3 DEF IsCall, Usable, silicon, WithResetTrait!Invoke
    <2>5. QED BY <2>1, <2>4
  <1>5. CASE IsRefusal
    BY <1>0, <1>3, <1>5, MethodOf, MethodAfter DEF IsRefusal, Usable, silicon, Ready, WithResetTrait!Refuse
  <1>6. CASE IsWork
    BY <1>0, <1>1, <1>3, <1>6 DEF IsWork, Ready, WithResetTrait!Work
  <1>7. CASE IsCommit
    <2>1. Ready' = TRUE
      BY <1>2, <1>7 DEF IsCommit, Ready
    <2>2. QED
      BY <1>0, <1>1, <1>7, <2>1, MethodOf, MethodAfter
         DEF IsCommit, InitSteps, Ready, WithResetTrait!InitSucceeds, WithResetTrait!Return
  <1>8. CASE IsAnswer
    BY <1>0, <1>1, <1>3, <1>8, MethodOf, MethodAfter
       DEF IsAnswer, Ready, WithResetTrait!PollAnswers, WithResetTrait!Return
  <1>9. CASE IsReturn
    <2>1. Method # "none"
      BY <1>9, MethodOf DEF IsReturn, InitSteps
    <2>2. QED
      BY <1>0, <1>1, <1>3, <1>9, <2>1, MethodAfter
         DEF IsReturn, Ready, WithResetTrait!ReturnsOtherwise, WithResetTrait!Return
  <1>10. CASE IsRestart
    <2>1. Ready' = FALSE
      BY <1>10 DEF IsRestart, Ready
    <2>2. QED
      BY <1>0, <1>1, <1>10, <2>1, MethodAfter DEF IsRestart, Ready, WithResetTrait!Lose
  <1>11. QED
    BY <1>2, <1>4, <1>5, <1>6, <1>7, <1>8, <1>9, <1>10

\* With the pin: a pulse takes the readiness back, an init grants it anew, and
\* nothing between the two looks like a ready PHY.
THEOREM WrapperTraitImplemented == WithResetSpec => WrapperImplementsPhyDriver
  <1>1. WithResetInit => WithResetTrait!Init
    BY UsableIsBoolean, MethodOf DEF WithResetInit, Init, Restarted, WithResetTrait!Init
  <1>2. ASSUME WInv, WInv', [WithResetNext]_allVars
        PROVE  [WithResetTrait!Next]_WithResetTrait!vars
    <2>1. WithResetTrait!SiliconMoves
      BY <1>2, UsableIsBoolean
         DEF WInv, IInv, CommittedImpliesReady, Usable, WithResetTrait!SiliconMoves
    <2>2. CASE DriveLow
      BY <2>1, <2>2, MethodAfter
         DEF DriveLow, WithResetTrait!Next, WithResetTrait!Lose
    <2>3. CASE DriveLowFails \/ Release \/ ReleaseFails \/ Environment \/ UNCHANGED allVars
      <3>1. UNCHANGED <<chip, stale, pc, link>>
        BY <2>3 DEF DriveLowFails, Release, ReleaseFails, Environment, ChipProgress,
           BeaconsChange, allVars, vars, resetVars, cache
      <3>2. UNCHANGED Method
        BY <3>1 DEF Method
      <3>3. (Restarted \/ pulse = "low")' => Restarted \/ pulse = "low"
        BY <2>3 DEF DriveLowFails, Release, ReleaseFails, Environment, ChipProgress,
           BeaconsChange, allVars, vars, resetVars, Restarted
      <3>4. QED
        BY <2>1, <3>1, <3>2, <3>3 DEF WithResetTrait!Next, WithResetTrait!Work
    <2>4. QED
      BY <1>2, <2>2, <2>3, InnerImplementsTrait DEF WithResetNext
  <1>3. QED
    BY <1>1, <1>2, WithResetInvariance, PTL
       DEF WithResetSpec, WrapperImplementsPhyDriver, WithResetTrait!Spec
=============================================================================
