------------------------ MODULE Lan87xxPromise_proofs ------------------------
(***************************************************************************)
(* What init of the LAN87xx driver promises, and that nothing called       *)
(* afterwards takes it back: the proofs that rest on the history of the    *)
(* calls, and the refinement of PhyDriver.                                 *)
(***************************************************************************)
EXTENDS Lan87xx_proofs

(***************************************************************************)
(* The inductive invariant.                                                *)
(***************************************************************************)

\* A chip in reset holds no other bit, and the silicon leaves reset once.
ResetAlone == "RESET" \in bmcr => bmcr = {"RESET"}

\* How far an init in flight has got: what it has put behind it stays done.
InitProgress ==
  op = "init" /\ pc # "idle" =>
    /\ ~initOk
    /\ pc = "await_reset" /\ alive => bmcr = {"RESET"} \/ bmcr \in ResetBmcrs
    /\ pc \in {"id", "mcsr_rd", "mcsr_wr", "anar", "bmcr_rd", "bmcr_wr"} =>
         alive /\ bmcr \in ResetBmcrs
    /\ pc \in {"anar", "bmcr_rd", "bmcr_wr"} => ~edpd
    /\ pc \in {"bmcr_rd", "bmcr_wr"} => anar = Modes
    /\ pc = "bmcr_wr" => cur \in ResetBmcrs

\* What init has granted.
Granted == initOk => Usable

\* A word, BMCR or one read from it, that agrees with what was asked for.
Agrees(word) ==
  /\ initOk => word \cap {"RESET", "ISOLATE", "POWER_DOWN"} = {}
  /\ asked = AutoNeg => "AN_ENABLE" \in word
  /\ asked \in Modes => "AN_ENABLE" \notin word /\ ForcedMode(word) = asked

\* BMCR does what the caller asked for, and so will a word on its way there.
AskedIsSet ==
  /\ asked # Unknown => initOk
  /\ asked = AutoNeg => an # "off" /\ adv = Modes
  /\ Agrees(bmcr)
  /\ pc = "bmcr_wr" /\ alive => Agrees(cur)
  /\ pc = "pscsr" /\ alive /\ initOk => "AN_ENABLE" \in bmcr

Promise == ResetAlone /\ InitProgress /\ Granted /\ AskedIsSet

LEMMA ResetWords ==
  ASSUME NEW w \in ResetBmcrs
  PROVE  w \in SUBSET BmcrBits /\ w \cap {"RESET", "AN_RESTART", "LOOPBACK", "POWER_DOWN"} = {}
  BY ConstantsAssumption

LEMMA InitPromise == Init => Promise
  <1> SUFFICES ASSUME Init PROVE Promise
    OBVIOUS
  <1>1. ResetAlone
    BY ResetWords DEF Init, ResetAlone
  <1>2. AskedIsSet
    BY MarkersAreNoModes DEF Init, AskedIsSet, Agrees, Unknown, AutoNeg
  <1>3. QED BY <1>1, <1>2 DEF Init, Promise, InitProgress, Granted

(***************************************************************************)
(* The steps that leave the silicon alone.                                 *)
(***************************************************************************)

LEMMA ControlKeepsPromise ==
  ASSUME IInv, Promise, ControlStep
  PROVE  Promise'
  <1>1. UNCHANGED <<part, alive, bmcr, anar, edpd, an, adv, linkUp, partner>>
    BY ControlFrame DEF silicon, negotiation
  <1>2. ResetAlone' /\ UNCHANGED Usable
    BY <1>1 DEF Promise, ResetAlone, Usable
  <1>3. CASE CallSome
    <2>1. InitProgress' /\ pc' \notin {"bmcr_wr", "pscsr"}
      BY <1>3 DEF CallSome, CallInit, CallPoll, CallQuery, CallEnableAn, CallLoopbackOn,
         CallLoopbackOff, CallForceLink, Call, history, InitProgress
    <2>2. (initOk' = FALSE /\ asked' = Unknown) \/ UNCHANGED <<initOk, asked>>
      BY <1>3 DEF CallSome, CallInit, CallPoll, CallQuery, CallEnableAn, CallLoopbackOn,
         CallLoopbackOff, CallForceLink, history
    <2>3. Granted'
      BY <1>2, <2>2 DEF Promise, Granted
    <2>4. AskedIsSet'
      BY <1>1, <2>1, <2>2, MarkersAreNoModes DEF Promise, AskedIsSet, Agrees, Unknown, AutoNeg
    <2>5. QED BY <1>2, <2>1, <2>3, <2>4 DEF Promise
  <1>4. CASE New
    <2>1. pc' = "idle" /\ initOk' = FALSE /\ asked' = Unknown
      BY <1>4 DEF New
    <2>2. AskedIsSet'
      BY <2>1, MarkersAreNoModes DEF AskedIsSet, Agrees, Unknown, AutoNeg
    <2>3. QED BY <1>2, <2>1, <2>2 DEF Promise, InitProgress, Granted
  <1>5. CASE ControlStep /\ ~CallSome /\ ~New
    <2>1. UNCHANGED <<op, initOk, asked>> /\ pc # "idle"
      BY <1>5 DEF ControlStep, AwaitReset, CheckId, ReadBmcr, ReadBmsr, ReadMode, ReadPscsr,
         Query, ReadFails, ReadSteps, Return, Goto, Report, report, history
    <2>2. Granted'
      BY <1>2, <2>1 DEF Promise, Granted
    <2>3. InitProgress'
      <3>1. CASE AwaitReset
        <4>1. "RESET" \notin BmcrRead => alive /\ "RESET" \notin bmcr
          BY DEF BmcrRead, BmcrBits
        <4>2. QED
          BY <1>1, <2>1, <3>1, <4>1 DEF AwaitReset, Goto, Return, Promise, InitProgress
      <3>2. CASE CheckId
        BY <1>1, <2>1, <3>2 DEF CheckId, Goto, Return, Promise, InitProgress
      <3>3. CASE ReadBmcr
        BY <1>1, <2>1, <3>3 DEF ReadBmcr, Goto, BmcrRead, Promise, InitProgress
      <3>4. CASE ReadBmsr \/ ReadMode \/ ReadPscsr \/ Query \/ ReadFails
        BY <2>1, <3>4 DEF ReadBmsr, ReadMode, ReadPscsr, Query, ReadFails, Goto, Return,
           Report, Promise, InitProgress
      <3>5. QED BY <1>5, <3>1, <3>2, <3>3, <3>4 DEF ControlStep
    <2>4. AskedIsSet'
      <3>1. CASE ReadBmcr
        BY <1>1, <2>1, <3>1 DEF ReadBmcr, Goto, BmcrRead, Promise, AskedIsSet, Agrees
      <3>2. CASE ReadMode
        BY <1>1, <2>1, <3>2 DEF ReadMode, Goto, Report, BmcrRead, Promise, AskedIsSet, Agrees
      <3>3. CASE AwaitReset \/ CheckId \/ ReadBmsr \/ ReadPscsr \/ Query \/ ReadFails
        <4>1. pc' \notin {"bmcr_wr", "pscsr"}
          BY <3>3 DEF AwaitReset, CheckId, ReadBmsr, ReadPscsr, Query, ReadFails, Goto, Return,
             Report
        <4>2. QED BY <1>1, <2>1, <4>1 DEF Promise, AskedIsSet, Agrees
      <3>4. QED BY <1>5, <3>1, <3>2, <3>3 DEF ControlStep
    <2>5. QED BY <1>2, <2>2, <2>3, <2>4 DEF Promise
  <1>6. QED BY <1>3, <1>4, <1>5

(***************************************************************************)
(* The silicon and its surroundings.                                       *)
(***************************************************************************)

LEMMA EnvironmentKeepsPromise ==
  ASSUME IInv, Promise, ChipProgress \/ CableMoves \/ ClockChanges
  PROVE  Promise'
  <1>1. UNCHANGED <<op, pc, cur, initOk, asked>>
    BY EnvironmentFrame DEF driver, call, history
  <1> USE <1>1 DEF Promise, ResetAlone, InitProgress, Granted, Usable, AskedIsSet, Agrees,
                   negotiation
  <1>2. CASE ResetCompletes
    <2>1. ~initOk /\ asked = Unknown
      BY <1>2 DEF ResetCompletes
    <2>2. bmcr' \in ResetBmcrs /\ "RESET" \notin bmcr' /\ UNCHANGED alive
      BY <1>2, ResetWords DEF ResetCompletes
    <2>3. InitProgress'
      BY <1>2, <2>2, ResetWords DEF ResetCompletes
    <2>4. QED
      BY <2>1, <2>2, <2>3, MarkersAreNoModes DEF Unknown, AutoNeg
  <1>3. CASE RestartSelfClears
    <2>1. bmcr' = bmcr \ {"AN_RESTART"} /\ "AN_RESTART" \in bmcr /\ "AN_ENABLE" \in bmcr
          /\ UNCHANGED <<alive, anar, edpd, an, adv>>
      BY <1>3 DEF RestartSelfClears
    <2>2. "RESET" \notin bmcr /\ bmcr \notin ResetBmcrs
      BY <2>1, ResetWords
    <2>3. asked \notin Modes
      BY <2>1
    <2>4. InitProgress'
      BY <2>1, <2>2
    <2>5. ResetAlone' /\ Granted'
      BY <2>1, <2>2
    <2>6. AskedIsSet'
      BY <2>1, <2>3
    <2>7. QED BY <2>4, <2>5, <2>6
  <1>4. CASE AnCompletes
    BY <1>4 DEF AnCompletes
  <1>5. CASE LinkRises
    BY <1>5 DEF LinkRises
  <1>6. CASE CableMoves
    BY <1>6, MarkersAreNoModes DEF CableMoves, Unknown, AutoNeg
  <1>7. CASE ClockChanges
    BY <1>7 DEF ClockChanges
  <1>8. QED BY <1>2, <1>3, <1>4, <1>5, <1>6, <1>7 DEF ChipProgress

(***************************************************************************)
(* The writes of init before the last.                                     *)
(***************************************************************************)

LEMMA InitWritesKeepPromise ==
  ASSUME IInv, Promise, SoftReset \/ WriteMcsr \/ WriteAnar
  PROVE  Promise'
  <1>1. /\ op = "init" /\ UNCHANGED <<op, cur, initOk, asked, alive>>
        /\ pc' \in {"idle", "await_reset", "anar", "bmcr_rd"}
    BY DEF SoftReset, WriteMcsr, WriteAnar, IInv, OpFollowsStep, Goto, Return, history
  <1>2. ~initOk /\ asked = Unknown
    BY <1>1 DEF SoftReset, WriteMcsr, WriteAnar, Promise, InitProgress, AskedIsSet
  <1>3. Granted' /\ AskedIsSet'
    BY <1>1, <1>2, MarkersAreNoModes DEF Granted, AskedIsSet, Agrees, Unknown, AutoNeg
  <1>4. CASE SoftReset
    <2>1. PICK ok, landed \in BOOLEAN :
            /\ Outcome(ok, landed)
            /\ IF landed THEN BmcrWritten({"RESET"}) ELSE UNCHANGED bmcr
            /\ IF ok THEN Goto("await_reset") ELSE Return("Mdio")
      BY <1>4 DEF SoftReset
    <2>2. ResetAlone'
      BY <2>1 DEF BmcrWritten, Promise, ResetAlone
    <2>3. ok /\ alive => bmcr' = {"RESET"}
      BY <2>1 DEF Outcome, BmcrWritten, Promise, ResetAlone
    <2>4. InitProgress'
      BY <1>1, <1>2, <2>1, <2>3 DEF InitProgress, Goto, Return
    <2>5. QED BY <1>3, <2>2, <2>4 DEF Promise
  <1>5. CASE WriteMcsr \/ WriteAnar
    <2>1. bmcr' = bmcr /\ ResetAlone'
      BY <1>5 DEF WriteMcsr, WriteAnar, Promise, ResetAlone
    <2>2. alive /\ bmcr \in ResetBmcrs
      BY <1>1, <1>5 DEF WriteMcsr, WriteAnar, Promise, InitProgress
    <2>3. CASE WriteMcsr
      <3>1. pc' = "idle" \/ (pc' = "anar" /\ ~edpd')
        BY <2>2, <2>3 DEF WriteMcsr, Outcome, Goto, Return
      <3>2. InitProgress'
        BY <1>1, <1>2, <2>1, <2>2, <3>1 DEF InitProgress
      <3>3. QED BY <1>3, <2>1, <3>2 DEF Promise
    <2>4. CASE WriteAnar
      <3>1. pc' = "idle" \/ (pc' = "bmcr_rd" /\ anar' = Modes)
        BY <2>2, <2>4, StandardAnarIsComplete DEF WriteAnar, Outcome, Goto, Return
      <3>2. ~edpd'
        BY <1>1, <2>4 DEF WriteAnar, Promise, InitProgress
      <3>3. InitProgress'
        BY <1>1, <1>2, <2>1, <2>2, <3>1, <3>2 DEF InitProgress
      <3>4. QED BY <1>3, <2>1, <3>3 DEF Promise
    <2>5. QED BY <1>5, <2>3, <2>4
  <1>6. QED BY <1>4, <1>5

(***************************************************************************)
(* The writes of BMCR after init has returned, and the last one of init.   *)
(***************************************************************************)

\* A write of BMCR leaves a lone RESET, or the word written.
LEMMA BmcrAfterWrite ==
  ASSUME ResetAlone, NEW w, BmcrWritten(w)
  PROVE  /\ ResetAlone'
         /\ "RESET" \notin bmcr /\ "RESET" \notin w => bmcr' = w
  BY DEF BmcrWritten, ResetAlone

\* What the last write of init leaves behind when it reached the chip.
LEMMA InitLastWrite ==
  ASSUME IInv, Promise, op = "init", pc = "bmcr_wr", BmcrWritten(Updated), UNCHANGED <<anar, edpd>>
  PROVE  /\ bmcr' \cap {"RESET", "LOOPBACK", "ISOLATE", "POWER_DOWN"} = {}
         /\ "AN_ENABLE" \in bmcr' /\ an' = "running" /\ adv' = Modes
         /\ ~edpd' /\ anar' = Modes
  <1>1. cur \in ResetBmcrs /\ bmcr \in ResetBmcrs /\ ~edpd /\ anar = Modes
    BY DEF Promise, InitProgress
  <1>2. Updated = WithAutoNeg(cur)
    BY DEF Updated
  <1>3. /\ Updated \cap {"RESET", "LOOPBACK", "ISOLATE", "POWER_DOWN"} = {}
        /\ {"AN_ENABLE", "AN_RESTART"} \subseteq Updated
    BY <1>1, <1>2, ResetWords DEF WithAutoNeg
  <1>4. bmcr' = Updated
    BY <1>1, <1>3, ResetWords, BmcrAfterWrite DEF Promise
  <1>5. an' = "running" /\ adv' = anar
    BY <1>3, <1>4 DEF BmcrWritten
  <1>6. QED BY <1>1, <1>3, <1>4, <1>5

\* Forcing a mode and reading it back is the identity.
LEMMA ForcedModeInvertsWithForced ==
  ASSUME NEW m \in Modes, NEW w
  PROVE  ForcedMode(WithForced(w, m)) = m /\ "AN_ENABLE" \notin WithForced(w, m)
  BY ModesAreFour DEF ForcedMode, WithForced, ModeBits

\* The word a caller's read-modify-write puts into BMCR, after init.
LEMMA UpdatedWord ==
  ASSUME IInv, Promise, initOk, alive, pc = "bmcr_wr", op # "init"
  PROVE  /\ Updated \cap {"RESET", "ISOLATE", "POWER_DOWN"} = {}
         /\ op = "enable_an" => {"AN_ENABLE", "AN_RESTART"} \subseteq Updated
         /\ op = "force_link" => "AN_ENABLE" \notin Updated /\ ForcedMode(Updated) = arg
         /\ op = "loopback" /\ asked = AutoNeg => "AN_ENABLE" \in Updated
         /\ op = "loopback" /\ asked \in Modes =>
              "AN_ENABLE" \notin Updated /\ ForcedMode(Updated) = asked
  <1>1. op \in {"enable_an", "force_link", "loopback"} /\ arg \in Modes
    BY ConstantsAssumption DEF IInv, OpFollowsStep, Typed
  <1>2. Agrees(cur)
    BY DEF Promise, AskedIsSet
  <1>3. CASE op = "enable_an"
    BY <1>2, <1>3 DEF Updated, Agrees, WithAutoNeg
  <1>4. CASE op = "force_link"
    <2>1. Updated = WithForced(cur, arg)
      BY <1>4 DEF Updated
    <2>2. Updated \cap {"RESET", "ISOLATE", "POWER_DOWN"} = {}
      BY <1>2, <2>1 DEF Agrees, WithForced, ModeBits
    <2>3. QED BY <1>1, <1>4, <2>1, <2>2, ForcedModeInvertsWithForced
  <1>5. CASE op = "loopback"
    <2>1. Updated = cur \ {"LOOPBACK"}
      BY <1>5 DEF Updated
    <2>2. ForcedMode(Updated) = ForcedMode(cur)
      BY <2>1 DEF ForcedMode
    <2>3. QED BY <1>2, <1>5, <2>1, <2>2 DEF Agrees
  <1>6. QED BY <1>1, <1>3, <1>4, <1>5

LEMMA WriteBmcrKeepsPromise ==
  ASSUME IInv, Promise, WriteBmcr
  PROVE  Promise'
  <1>1. PICK ok, landed \in BOOLEAN :
          /\ Outcome(ok, landed)
          /\ IF landed THEN BmcrWritten(Updated) ELSE UNCHANGED <<bmcr, linkUp, negotiation>>
          /\ initOk' = (initOk \/ (ok /\ op = "init"))
          /\ asked' = Expected(ok, landed)
    BY DEF WriteBmcr
  <1>2. pc = "bmcr_wr" /\ pc' = "idle" /\ UNCHANGED <<op, arg, alive, anar, edpd>>
    BY DEF WriteBmcr, Return
  <1>3. InitProgress'
    BY <1>2 DEF InitProgress
  <1>4. ResetAlone'
    BY <1>1, BmcrAfterWrite DEF Promise, ResetAlone
  <1>5. landed => alive
    BY <1>1 DEF Outcome
  <1>6. op \in {"init", "enable_an", "force_link", "loopback"} /\ arg \in Modes /\ initOk \in BOOLEAN
    BY <1>2, ConstantsAssumption DEF IInv, OpFollowsStep, Typed
  <1>7. op = "init" => alive /\ ~initOk /\ asked = Unknown
    BY <1>2 DEF Promise, InitProgress, AskedIsSet
  <1>8. CASE ~landed
    <2>1. initOk' = initOk /\ asked' = Unknown
      BY <1>1, <1>6, <1>7, <1>8 DEF Outcome, Expected
    <2>2. Granted' /\ AskedIsSet'
      BY <1>1, <1>2, <1>8, <2>1, MarkersAreNoModes DEF Promise, Granted, Usable, AskedIsSet, Agrees,
         Unknown, AutoNeg
    <2>3. QED BY <1>3, <1>4, <2>2 DEF Promise
  <1>9. CASE landed /\ op = "init"
    <2>1. Granted' /\ "AN_ENABLE" \in bmcr' /\ an' # "off" /\ adv' = Modes
          /\ bmcr' \cap {"RESET", "ISOLATE", "POWER_DOWN"} = {}
      BY <1>1, <1>2, <1>9, InitLastWrite DEF Granted, Usable
    <2>2. asked' \in {Unknown, AutoNeg} /\ (asked' = AutoNeg => initOk')
      BY <1>1, <1>9 DEF Expected, Unknown, AutoNeg
    <2>3. AskedIsSet'
      BY <1>2, <2>1, <2>2, MarkersAreNoModes DEF AskedIsSet, Agrees
    <2>4. QED BY <1>3, <1>4, <2>1, <2>3 DEF Promise
  <1>10. CASE landed /\ op # "init" /\ ~initOk
    <2>1. initOk' = FALSE /\ asked' = Unknown
      BY <1>1, <1>10 DEF Expected
    <2>2. Granted' /\ AskedIsSet'
      BY <1>2, <2>1, MarkersAreNoModes DEF Granted, AskedIsSet, Agrees, Unknown, AutoNeg
    <2>3. QED BY <1>3, <1>4, <2>2 DEF Promise
  <1>11. CASE landed /\ op # "init" /\ initOk
    <2>1. initOk' = TRUE
      BY <1>1, <1>11
    <2>2. Usable
      BY <1>11 DEF Promise, Granted
    <2>3. bmcr' = Updated
      BY <1>1, <1>2, <1>5, <1>11, <2>2, UpdatedWord, BmcrAfterWrite DEF Promise, Usable
    <2>4. Granted'
      BY <1>2, <1>5, <1>11, <2>2, <2>3, UpdatedWord DEF Granted, Usable
    <2>5. asked' = Unknown \/ asked' = (IF op = "enable_an" THEN AutoNeg
                                        ELSE IF op = "force_link" THEN arg ELSE asked)
      BY <1>1, <1>6, <1>11 DEF Expected
    <2>6. Agrees(bmcr)'
      BY <1>2, <1>5, <1>6, <1>11, <2>1, <2>3, <2>5, UpdatedWord, MarkersAreNoModes
         DEF Agrees, Unknown, AutoNeg
    <2>7. asked' = AutoNeg => an' # "off" /\ adv' = Modes
      <3>1. SUFFICES ASSUME asked' = AutoNeg PROVE an' # "off" /\ adv' = Modes
        OBVIOUS
      <3>2. "AN_ENABLE" \in bmcr'
        BY <2>6, <3>1 DEF Agrees
      <3>3. op = "enable_an" \/ (op = "loopback" /\ asked = AutoNeg)
        BY <1>6, <1>11, <2>5, <3>1, MarkersAreNoModes DEF Unknown, AutoNeg
      <3>4. op = "enable_an" => "AN_RESTART" \in bmcr'
        BY <1>2, <1>5, <1>11, <2>3, UpdatedWord
      <3>5. anar = Modes /\ (asked = AutoNeg => an # "off" /\ adv = Modes)
        BY <2>2 DEF Usable, Promise, AskedIsSet
      <3>6. QED BY <1>1, <1>11, <3>2, <3>3, <3>4, <3>5 DEF BmcrWritten, negotiation
    <2>8. AskedIsSet'
      BY <1>2, <2>1, <2>6, <2>7 DEF AskedIsSet
    <2>9. QED BY <1>3, <1>4, <2>4, <2>8 DEF Promise
  <1>12. QED BY <1>8, <1>9, <1>10, <1>11

LEMMA LoopbackKeepsPromise ==
  ASSUME IInv, Promise, WriteLoopbackOn
  PROVE  Promise'
  <1>1. /\ pc' = "idle" /\ asked' = Unknown /\ UNCHANGED <<initOk, anar, edpd>>
    BY DEF WriteLoopbackOn, Return
  <1>2. \/ UNCHANGED bmcr
        \/ BmcrWritten({"LOOPBACK", "SPEED_100", "DUPLEX_FULL"})
    BY DEF WriteLoopbackOn
  <1>3. ResetAlone' /\ ("RESET" \notin bmcr =>
          UNCHANGED bmcr \/ bmcr' = {"LOOPBACK", "SPEED_100", "DUPLEX_FULL"})
    BY <1>2, BmcrAfterWrite DEF Promise, ResetAlone
  <1>4. Granted'
    BY <1>1, <1>3 DEF Promise, Granted, Usable
  <1>5. AskedIsSet'
    BY <1>1, <1>4, MarkersAreNoModes DEF AskedIsSet, Agrees, Granted, Usable, Unknown, AutoNeg
  <1>6. QED BY <1>1, <1>3, <1>4, <1>5 DEF Promise, InitProgress

LEMMA NextKeepsPromise ==
  ASSUME IInv, Promise, [Next]_vars
  PROVE  Promise'
  <1>1. CASE UNCHANGED vars
    BY <1>1 DEF vars, driver, call, history, silicon, negotiation, Promise, ResetAlone,
       InitProgress, Granted, Usable, AskedIsSet, Agrees
  <1>2. CASE ControlStep
    BY <1>2, ControlKeepsPromise
  <1>3. CASE ChipProgress \/ CableMoves \/ ClockChanges
    BY <1>3, EnvironmentKeepsPromise
  <1>4. CASE SoftReset \/ WriteMcsr \/ WriteAnar
    BY <1>4, InitWritesKeepPromise
  <1>5. CASE WriteBmcr
    BY <1>5, WriteBmcrKeepsPromise
  <1>6. CASE WriteLoopbackOn
    BY <1>6, LoopbackKeepsPromise
  <1>7. QED
    BY <1>1, <1>2, <1>3, <1>4, <1>5, <1>6 DEF Next, DriverStep, ControlStep

LEMMA PromiseInvariance == Spec => [](IInv /\ Promise)
  <1>1. Init => Promise
    BY InitPromise
  <1>2. IInv /\ Promise /\ [Next]_vars => Promise'
    BY NextKeepsPromise
  <1>3. QED BY <1>1, <1>2, Invariance, PTL DEF Spec

(***************************************************************************)
(* The theorems.                                                           *)
(***************************************************************************)

\* An init that returns Ok ends with the last write, and it reached the chip.
LEMMA InitEndsWithWrite ==
  ASSUME IInv, Promise, [Next]_vars, op = "init", pc # "idle", pc' = "idle", res' = "ok"
  PROVE  pc = "bmcr_wr" /\ BmcrWritten(Updated) /\ UNCHANGED <<anar, edpd>>
  <1>1. ~UNCHANGED driver
    BY DEF driver, call
  <1>2. ~(ChipProgress \/ CableMoves \/ ClockChanges) /\ ~UNCHANGED vars
    BY <1>1, EnvironmentFrame DEF vars
  <1>3. ~CallSome /\ ~New
    BY DEF CallSome, CallInit, CallPoll, CallQuery, CallEnableAn, CallLoopbackOn,
           CallLoopbackOff, CallForceLink, Call, New
  <1>4. pc \notin {"bmsr", "bmcr", "pscsr", "query", "lb_on"}
    BY DEF IInv, OpFollowsStep
  <1>5. /\ ~SoftReset /\ ~AwaitReset /\ ~CheckId /\ ~WriteMcsr /\ ~WriteAnar /\ ~ReadFails
        /\ ~ReadBmcr /\ ~WriteLoopbackOn /\ ~Query /\ ~ReadBmsr /\ ~ReadMode /\ ~ReadPscsr
    BY <1>4 DEF SoftReset, AwaitReset, CheckId, WriteMcsr, WriteAnar, ReadFails, ReadBmcr,
       WriteLoopbackOn, Query, ReadBmsr, ReadMode, ReadPscsr, Goto, Return
  <1>6. WriteBmcr
    BY <1>2, <1>3, <1>5 DEF Next, DriverStep
  <1>7. PICK ok, landed \in BOOLEAN :
          /\ Outcome(ok, landed)
          /\ IF landed THEN BmcrWritten(Updated) ELSE UNCHANGED <<bmcr, linkUp, negotiation>>
          /\ Return(IF ok THEN "ok" ELSE "Mdio")
    BY <1>6 DEF WriteBmcr
  <1>8. alive /\ ok
    BY <1>6, <1>7 DEF WriteBmcr, Return, Promise, InitProgress
  <1>9. QED BY <1>6, <1>7, <1>8 DEF WriteBmcr, Outcome

\* init returns Ok only with the PHY out of reset, loopback, isolation and both
\* power-downs, and negotiating with everything it can do, however it found it.
THEOREM InitNegotiates == Spec => InitLeavesNegotiating
  <1>1. IInv /\ Promise /\ [Next]_vars =>
          [op = "init" /\ pc # "idle" /\ pc' = "idle" /\ res' = "ok" =>
             /\ bmcr' \cap {"RESET", "LOOPBACK", "ISOLATE", "POWER_DOWN"} = {} /\ ~edpd'
             /\ "AN_ENABLE" \in bmcr' /\ an' = "running" /\ adv' = Modes]_vars
    BY InitEndsWithWrite, InitLastWrite
  <1>2. QED BY <1>1, PromiseInvariance, PTL DEF Spec, InitLeavesNegotiating

\* What poll_link reports after an init that returned Ok, or a force_link.
LEMMA NegotiatedPoll ==
  ASSUME IInv, Promise, [Next]_vars, NEW m \in Modes, Polled(m), alive, asked = AutoNeg
  PROVE  m = Best(partner)
  <1>1. "AN_ENABLE" \in bmcr /\ adv = Modes
    BY DEF Promise, AskedIsSet, Agrees
  <1>2. m = Best(Common)
    BY <1>1, PollIsNegotiated
  <1>3. partner \subseteq Modes
    BY ConstantsAssumption DEF IInv, Typed
  <1>4. Common = partner
    BY <1>1, <1>3 DEF Common
  <1>5. QED BY <1>2, <1>4

LEMMA ForcedPoll ==
  ASSUME IInv, Promise, [Next]_vars, NEW m \in Modes, Polled(m), alive, asked \in Modes
  PROVE  m = asked
  <1>1. initOk /\ "AN_ENABLE" \notin bmcr /\ ForcedMode(bmcr) = asked
    BY MarkersAreNoModes DEF Promise, AskedIsSet, Agrees
  <1>2. pc # "pscsr"
    BY <1>1 DEF Promise, AskedIsSet
  <1>3. ReadMode
    BY <1>2, PollReportsFrom
  <1>4. link' = ForcedMode(bmcr)
    BY <1>1, <1>3 DEF ReadMode, Goto, Report, BmcrRead, Polled
  <1>5. QED BY <1>1, <1>4 DEF Polled

\* Nor is a forced link missed: down is what LINK_STATUS says.
LEMMA ForcedDown ==
  ASSUME IInv, Promise, [Next]_vars, Polled(Down), alive, asked \in Modes
  PROVE  pc = "bmsr" /\ ~linkUp
  <1>1. initOk /\ "AN_ENABLE" \notin bmcr /\ ForcedMode(bmcr) = asked
    BY MarkersAreNoModes DEF Promise, AskedIsSet, Agrees
  <1>2. pc # "pscsr"
    BY <1>1 DEF Promise, AskedIsSet
  <1>3. CASE pc = "bmcr"
    <2>1. ReadMode
      BY <1>3, StepOfPoll
    <2>2. link' = asked
      BY <1>1, <2>1 DEF ReadMode, Goto, Report, BmcrRead, Polled
    <2>3. QED BY <2>2, MarkersAreNoModes DEF Polled
  <1>4. CASE pc = "bmsr"
    <2>1. ReadBmsr
      BY <1>4, StepOfPoll
    <2>2. QED BY <1>4, <2>1 DEF ReadBmsr, Goto, LinkRead, Polled
  <1>5. QED BY <1>2, <1>3, <1>4 DEF Polled

\* The cold-boot fix: after an init that returned Ok the mode reported is the
\* best the partner can do, whatever ANAR held after the reset.
THEOREM FullNegotiation == Spec => NegotiatedInFull
  <1>1. IInv /\ Promise /\ [Next]_vars =>
          [\A m \in Modes : Polled(m) /\ alive /\ asked = AutoNeg => m = Best(partner)]_vars
    BY NegotiatedPoll
  <1>2. QED BY <1>1, PromiseInvariance, PTL DEF Spec, NegotiatedInFull

\* The mode last forced is the mode reported, whichever of the helpers wrote
\* BMCR since init, and a forced link is down only when LINK_STATUS says so.
THEOREM ForcedIsReported == Spec => ForcedModeIsReported
  <1>1. IInv /\ Promise /\ [Next]_vars =>
          [\A l \in Modes \cup {Down} : Polled(l) /\ alive /\ asked \in Modes =>
             l = (IF pc = "bmsr" /\ ~linkUp THEN Down ELSE asked)]_vars
    <2>1. ASSUME IInv, Promise, [Next]_vars, NEW m \in Modes, Polled(m), alive, asked \in Modes
          PROVE  m = asked /\ pc # "bmsr"
      BY <2>1, ForcedPoll, PollReportsFrom
    <2>2. QED BY <2>1, ForcedDown
  <1>2. QED BY <1>1, PromiseInvariance, PTL DEF Spec, ForcedModeIsReported

(***************************************************************************)
(* The driver implements the trait: every step is a call, work within a    *)
(* method, a return, or a restart.                                         *)
(***************************************************************************)

IsCall ==
  /\ pc = "idle" /\ pc' # "idle" /\ link' = Nothing /\ UNCHANGED silicon
  /\ initOk' = (IF op' = "init" THEN FALSE ELSE initOk)
IsWork == UNCHANGED <<Method, initOk, link>> /\ (pc' # "idle" \/ UNCHANGED <<pc, res>>)
IsCommit ==
  /\ op = "init" /\ pc = "bmcr_wr" /\ pc' = "idle" /\ res' = "ok"
  /\ initOk' = TRUE /\ UNCHANGED link
IsAnswer ==
  /\ op = "poll_link" /\ pc # "idle" /\ pc' = "idle" /\ res' = "ok"
  /\ link' \in Modes \cup {Down} /\ UNCHANGED initOk
IsReturn == pc # "idle" /\ pc' = "idle" /\ res' # "none" /\ UNCHANGED <<initOk, link>>
IsRestart == pc' = "idle" /\ res' = "none" /\ initOk' = FALSE /\ link' = Nothing

LEMMA MethodOf ==
  /\ pc = "idle" => Method = "none"
  /\ pc # "idle" => Method = (IF op \in {"init", "poll_link"} THEN op ELSE "other")
  BY DEF Method

LEMMA MethodAfter ==
  /\ pc' = "idle" => Method' = "none"
  /\ pc' # "idle" => Method' = (IF op' \in {"init", "poll_link"} THEN op' ELSE "other")
  BY DEF Method

LEMMA UsableIsBoolean == Usable \in BOOLEAN /\ Usable' \in BOOLEAN
  BY ZenonT(20) DEF Usable

LEMMA StepKinds ==
  ASSUME IInv, [Next]_vars
  PROVE  IsCall \/ IsWork \/ IsCommit \/ IsAnswer \/ IsReturn \/ IsRestart
  <1>1. CASE UNCHANGED vars \/ ChipProgress \/ CableMoves \/ ClockChanges
    <2>1. UNCHANGED <<op, pc, res, initOk, link>>
      BY <1>1, EnvironmentFrame DEF vars, driver, call, history, report
    <2>2. QED BY <2>1 DEF IsWork, Method
  <1>2. CASE CallSome
    BY <1>2 DEF CallSome, CallInit, CallPoll, CallQuery, CallEnableAn, CallLoopbackOn,
       CallLoopbackOff, CallForceLink, Call, history, IsCall
  <1>3. CASE WriteBmcr
    <2>1. /\ pc = "bmcr_wr" /\ pc' = "idle" /\ res' # "none" /\ UNCHANGED link
          /\ UNCHANGED initOk \/ (op = "init" /\ initOk' = TRUE /\ res' = "ok")
      BY <1>3 DEF WriteBmcr, Return, IInv, Typed
    <2>2. QED BY <2>1 DEF IsCommit, IsReturn
  <1>4. CASE ReadBmsr \/ ReadMode \/ ReadPscsr
    <2>1. op = "poll_link" /\ pc # "idle" /\ UNCHANGED <<op, initOk>>
      BY <1>4 DEF ReadBmsr, ReadMode, ReadPscsr, history, IInv, OpFollowsStep
    <2>2. ForcedMode(BmcrRead) \in Modes
      BY DEF ForcedMode, Modes
    <2>3. (\E l \in Modes \cup {Down} : Report(l)) \/ (pc' # "idle" /\ UNCHANGED link)
      <3>1. CASE ReadBmsr
        BY <3>1 DEF ReadBmsr, Goto, report
      <3>2. CASE ReadMode
        BY <2>2, <3>2 DEF ReadMode, Goto, report
      <3>3. CASE ReadPscsr
        BY <3>3, DecodedIsMode DEF ReadPscsr
      <3>4. QED BY <1>4, <3>1, <3>2, <3>3
    <2>4. QED BY <2>1, <2>3, MethodOf, MethodAfter DEF Report, IsAnswer, IsWork
  <1>5. CASE SoftReset \/ AwaitReset \/ CheckId \/ WriteMcsr \/ WriteAnar \/ ReadBmcr
             \/ WriteLoopbackOn \/ Query \/ ReadFails
    <2>1. pc # "idle" /\ UNCHANGED <<op, initOk, link>>
      BY <1>5 DEF SoftReset, AwaitReset, CheckId, WriteMcsr, WriteAnar, ReadBmcr,
         WriteLoopbackOn, Query, ReadFails, ReadSteps, Goto, Return, history, report
    <2>2. pc' # "idle" \/ res' # "none"
      BY <1>5 DEF SoftReset, AwaitReset, CheckId, WriteMcsr, WriteAnar, ReadBmcr,
         WriteLoopbackOn, Query, ReadFails, Goto, Return
    <2>3. QED BY <2>1, <2>2, MethodOf, MethodAfter DEF IsReturn, IsWork
  <1>6. CASE New
    BY <1>6 DEF New, IsRestart
  <1>7. QED
    BY <1>1, <1>2, <1>3, <1>4, <1>5, <1>6 DEF Next, DriverStep

LEMMA StepImplementsTrait ==
  ASSUME IInv, Granted', [Next]_vars
  PROVE  [Trait!Next]_Trait!vars
  <1> USE DEF Trait!Next, Restarted
  <1>1. Trait!SiliconMoves
    BY UsableIsBoolean DEF Granted, Trait!SiliconMoves
  <1>2. CASE IsCall
    <2>1. Method = "none" /\ Method' \in {"init", "poll_link", "other"}
          /\ (op' = "init" <=> Method' = "init")
      BY <1>2, MethodOf, MethodAfter DEF IsCall
    <2>2. initOk' = (initOk /\ Method' # "init")
      BY <1>2, <2>1 DEF IsCall, IInv, Typed
    <2>3. Trait!Invoke(Method')
      BY <1>2, <2>1, <2>2 DEF IsCall, Usable, silicon, Trait!Invoke
    <2>4. QED BY <2>1, <2>3
  <1>3. CASE IsWork
    BY <1>1, <1>3 DEF IsWork, Trait!Work
  <1>4. CASE IsCommit
    BY <1>1, <1>4, MethodOf, MethodAfter DEF IsCommit, Trait!InitSucceeds, Trait!Return
  <1>5. CASE IsAnswer
    BY <1>1, <1>5, MethodOf, MethodAfter DEF IsAnswer, Trait!PollAnswers, Trait!Return
  <1>6. CASE IsReturn
    BY <1>1, <1>6, MethodOf, MethodAfter DEF IsReturn, Trait!ReturnsOtherwise, Trait!Return
  <1>7. CASE IsRestart
    BY <1>1, <1>7, MethodAfter DEF IsRestart, Trait!Lose
  <1>8. QED
    BY <1>2, <1>3, <1>4, <1>5, <1>6, <1>7, StepKinds

\* Every behaviour of the driver is one the trait allows: what init has granted
\* lasts until the next init or a restart, and only poll_link speaks of the link.
THEOREM TraitImplemented == Spec => ImplementsPhyDriver
  <1>1. Init => Trait!Init
    BY UsableIsBoolean, MethodOf DEF Init, Restarted, Trait!Init
  <1>2. IInv /\ Promise' /\ [Next]_vars => [Trait!Next]_Trait!vars
    BY StepImplementsTrait DEF Promise
  <1>3. QED
    BY <1>1, <1>2, PromiseInvariance, PTL DEF Spec, ImplementsPhyDriver, Trait!Spec

(***************************************************************************)
(* set_loopback(false): between its read of BMCR and its write the chip    *)
(* clears AN_RESTART and nothing else.                                            *)
(***************************************************************************)

\* A chip negotiates exactly while BMCR enables it to.
NegotiatesIfEnabled == "AN_ENABLE" \in bmcr <=> an # "off"

\* The word to be written back is BMCR, up to a restart that has since begun.
WordStillCurrent ==
  pc = "bmcr_wr" /\ initOk =>
    bmcr \subseteq cur /\ (alive => cur \ {"AN_RESTART"} = bmcr \ {"AN_RESTART"})

LEMMA WrittenKeepsNegotiates ==
  ASSUME NegotiatesIfEnabled, NEW w, BmcrWritten(w) \/ UNCHANGED <<bmcr, linkUp, negotiation>>
  PROVE  NegotiatesIfEnabled'
  BY DEF NegotiatesIfEnabled, BmcrWritten, negotiation

LEMMA NextKeepsNegotiates ==
  ASSUME IInv, NegotiatesIfEnabled, [Next]_vars
  PROVE  NegotiatesIfEnabled'
  <1>1. CASE UNCHANGED silicon
    BY <1>1 DEF silicon, negotiation, NegotiatesIfEnabled
  <1>2. CASE ChipProgress \/ CableMoves \/ ClockChanges
    BY <1>2 DEF ChipProgress, ResetCompletes, RestartSelfClears, AnCompletes, LinkRises,
       CableMoves, ClockChanges, negotiation, NegotiatesIfEnabled
  <1>3. CASE SoftReset
    BY <1>3, WrittenKeepsNegotiates DEF SoftReset
  <1>4. CASE WriteMcsr \/ WriteAnar
    BY <1>4 DEF WriteMcsr, WriteAnar, negotiation, NegotiatesIfEnabled
  <1>5. CASE WriteBmcr
    BY <1>5, WrittenKeepsNegotiates DEF WriteBmcr
  <1>6. CASE WriteLoopbackOn
    BY <1>6, WrittenKeepsNegotiates DEF WriteLoopbackOn
  <1>7. QED
    BY <1>1, <1>2, <1>3, <1>4, <1>5, <1>6, ControlFrame DEF Next, DriverStep, ControlStep, vars

LEMMA NextKeepsWord ==
  ASSUME IInv, Promise, WordStillCurrent, [Next]_vars
  PROVE  WordStillCurrent'
  <1> SUFFICES ASSUME pc' = "bmcr_wr", initOk'
               PROVE  (/\ bmcr \subseteq cur
                       /\ alive => cur \ {"AN_RESTART"} = bmcr \ {"AN_RESTART"})'
    BY DEF WordStillCurrent
  <1>1. CASE ReadBmcr
    <2>1. UNCHANGED <<alive, bmcr>> /\ cur' = IF alive THEN bmcr ELSE BmcrBits
      BY <1>1 DEF ReadBmcr, silicon, BmcrRead
    <2>2. bmcr \subseteq BmcrBits
      BY DEF IInv, Typed
    <2>3. QED BY <2>1, <2>2
  <1>2. CASE ~ReadBmcr /\ (ControlStep \/ SoftReset \/ WriteMcsr \/ WriteAnar \/ WriteBmcr
                           \/ WriteLoopbackOn)
    <2>1. pc' # "bmcr_wr"
      BY <1>2 DEF ControlStep, CallSome, CallInit, CallPoll, CallQuery, CallEnableAn,
         CallLoopbackOn, CallLoopbackOff, CallForceLink, Call, AwaitReset, CheckId, ReadBmsr,
         ReadMode, ReadPscsr, Query, ReadFails, New, SoftReset, WriteMcsr, WriteAnar,
         WriteBmcr, WriteLoopbackOn, Goto, Return, Report
    <2>2. QED BY <2>1
  <1>3. CASE UNCHANGED vars
    BY <1>3 DEF vars, driver, call, history, silicon, WordStillCurrent
  <1>4. CASE ChipProgress \/ CableMoves \/ ClockChanges
    <2>1. UNCHANGED <<op, pc, cur, initOk>>
      BY <1>4, EnvironmentFrame DEF driver, call, history
    <2>2. ~ClockChanges
      BY <2>1 DEF ClockChanges
    <2>3. "RESET" \notin bmcr
      BY <2>1 DEF Promise, Granted, Usable
    <2>4. UNCHANGED alive /\ (UNCHANGED bmcr \/ bmcr' = bmcr \ {"AN_RESTART"})
      BY <1>4, <2>2, <2>3 DEF ChipProgress, ResetCompletes, RestartSelfClears, AnCompletes,
         LinkRises, CableMoves
    <2>5. QED BY <2>1, <2>4 DEF WordStillCurrent
  <1>5. QED
    BY <1>1, <1>2, <1>3, <1>4 DEF Next, DriverStep, ControlStep

LEMMA LoopbackOffStep ==
  ASSUME IInv, Promise, NegotiatesIfEnabled, WordStillCurrent, [Next]_vars,
         op = "loopback", pc = "bmcr_wr", pc' = "idle", initOk
  PROVE  /\ bmcr' \ {"LOOPBACK", "AN_RESTART"} = bmcr \ {"LOOPBACK", "AN_RESTART"}
         /\ res' = "ok" /\ alive => "LOOPBACK" \notin bmcr'
         /\ "AN_RESTART" \notin cur => "AN_RESTART" \notin bmcr' /\ UNCHANGED negotiation
  <1>1. CASE ~WriteBmcr
    <2>1. New \/ ReadFails
      <3>1. ~(UNCHANGED vars \/ ChipProgress \/ CableMoves \/ ClockChanges)
        BY EnvironmentFrame DEF vars, driver, call
      <3>2. QED
        BY <1>1, <3>1 DEF Next, CallSome, CallInit, CallPoll, CallQuery, CallEnableAn,
           CallLoopbackOn, CallLoopbackOff, CallForceLink, Call, DriverStep, AwaitReset,
           CheckId, ReadBmcr, ReadBmsr, ReadMode, ReadPscsr, Query, SoftReset, WriteMcsr,
           WriteAnar, WriteLoopbackOn
    <2>2. New
      BY <2>1 DEF ReadFails, ReadSteps
    <2>3. UNCHANGED <<bmcr, negotiation>> /\ res' # "ok"
      BY <2>2, ControlFrame DEF ControlStep, silicon, New
    <2>4. "AN_RESTART" \notin cur => "AN_RESTART" \notin bmcr
      BY DEF WordStillCurrent
    <2>5. QED BY <2>3, <2>4
  <1>2. CASE WriteBmcr
    <2>1. PICK ok, landed \in BOOLEAN :
            /\ Outcome(ok, landed)
            /\ IF landed THEN BmcrWritten(Updated) ELSE UNCHANGED <<bmcr, linkUp, negotiation>>
            /\ Return(IF ok THEN "ok" ELSE "Mdio")
      BY <1>2 DEF WriteBmcr
    <2>2. CASE landed
      <3>1. alive /\ Updated = cur \ {"LOOPBACK"}
        BY <2>1, <2>2 DEF Outcome, Updated
      <3>2. "RESET" \notin bmcr /\ cur \ {"AN_RESTART"} = bmcr \ {"AN_RESTART"}
        BY <3>1 DEF Promise, Granted, Usable, WordStillCurrent
      <3>3. bmcr' = cur \ {"LOOPBACK"}
        BY <2>1, <2>2, <3>1, <3>2, BmcrAfterWrite DEF Promise
      <3>4. "AN_RESTART" \notin cur => UNCHANGED negotiation
        BY <2>1, <2>2, <3>2, <3>3 DEF BmcrWritten, NegotiatesIfEnabled, negotiation
      <3>5. QED BY <3>2, <3>3, <3>4
    <2>3. CASE ~landed
      <3>1. UNCHANGED <<bmcr, negotiation>> /\ ~(res' = "ok" /\ alive)
        BY <2>1, <2>3 DEF Outcome, Return
      <3>2. QED BY <3>1 DEF WordStillCurrent
    <2>4. QED BY <2>2, <2>3
  <1>3. QED BY <1>1, <1>2

\* set_loopback(false) changes nothing but the loopback bit, and restarts no
\* negotiation but one it found about to restart.
THEOREM LoopbackOffIsPrecise == Spec => LoopbackOffPreserves
  <1>1. Init => NegotiatesIfEnabled /\ WordStillCurrent
    BY DEF Init, NegotiatesIfEnabled, WordStillCurrent
  <1>2. IInv /\ NegotiatesIfEnabled /\ [Next]_vars => NegotiatesIfEnabled'
    BY NextKeepsNegotiates
  <1>3. IInv /\ Promise /\ WordStillCurrent /\ [Next]_vars => WordStillCurrent'
    BY NextKeepsWord
  <1>4. IInv /\ Promise /\ NegotiatesIfEnabled /\ WordStillCurrent /\ [Next]_vars =>
          [op = "loopback" /\ pc = "bmcr_wr" /\ pc' = "idle" /\ initOk =>
             /\ bmcr' \ {"LOOPBACK", "AN_RESTART"} = bmcr \ {"LOOPBACK", "AN_RESTART"}
             /\ res' = "ok" /\ alive => "LOOPBACK" \notin bmcr'
             /\ "AN_RESTART" \notin cur => "AN_RESTART" \notin bmcr' /\ UNCHANGED negotiation]_vars
    BY LoopbackOffStep
  <1>5. QED
    BY <1>1, <1>2, <1>3, <1>4, PromiseInvariance, PTL DEF Spec, LoopbackOffPreserves
=============================================================================
