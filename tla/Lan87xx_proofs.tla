--------------------------- MODULE Lan87xx_proofs ---------------------------
(***************************************************************************)
(* Proofs about the LAN87xx driver, for every number of polls, every set   *)
(* of straps, parts and link partners, and either meaning of a bus error.  *)
(***************************************************************************)
EXTENDS Lan87xx, TLAPS

(***************************************************************************)
(* Link modes: negotiation resolves to a mode, PSCSR encodes it, and       *)
(* parse_pscsr recovers it.                                                *)
(***************************************************************************)

LEMMA ModesAreFour ==
  ASSUME NEW m \in Modes
  PROVE  /\ m.speed \in {10, 100} /\ m.duplex \in {"half", "full"}
         /\ m = [speed |-> m.speed, duplex |-> m.duplex]
  BY DEF Modes

LEMMA MarkersAreNoModes == {Nothing, Down, AutoNeg, Unknown} \cap Modes = {}
  BY DEF Modes, Nothing, Down, AutoNeg, Unknown

\* The word init writes to ANAR advertises every mode.
LEMMA StandardAnarIsComplete == Advertised(StandardAnar) = Modes
  <1>1. StandardAnar \cap DOMAIN AnarMode = {"TX_FD", "TX_HD", "T10_FD", "T10_HD"}
    BY DEF StandardAnar, AnarMode
  <1>2. Advertised(StandardAnar) =
          {AnarMode["TX_FD"], AnarMode["TX_HD"], AnarMode["T10_FD"], AnarMode["T10_HD"]}
    BY <1>1 DEF Advertised
  <1>3. ASSUME NEW m \in Modes
        PROVE  m \in {[speed |-> 100, duplex |-> "full"], [speed |-> 100, duplex |-> "half"],
                       [speed |-> 10, duplex |-> "full"], [speed |-> 10, duplex |-> "half"]}
    BY ModesAreFour
  <1>4. Advertised(StandardAnar) \subseteq Modes
    BY <1>2 DEF AnarMode, Modes
  <1>5. Modes \subseteq Advertised(StandardAnar)
    BY <1>2, <1>3 DEF AnarMode
  <1>6. QED BY <1>4, <1>5

LEMMA BestIsCommon ==
  ASSUME NEW S \in SUBSET Modes, S # {}
  PROVE  Best(S) \in S
  <1> DEFINE Beats(m, k) ==
        m.speed > k.speed \/ (m.speed = k.speed /\ (m.duplex = "full" \/ k.duplex = "half"))
  <1>1. ASSUME NEW m \in S, \A k \in S : Beats(m, k)
        PROVE  Best(S) \in S
    BY <1>1 DEF Best
  <1>2. CASE \E m \in S : m.speed = 100 /\ m.duplex = "full"
    <2>1. PICK m \in S : m.speed = 100 /\ m.duplex = "full"
      BY <1>2
    <2>2. ASSUME NEW k \in S PROVE Beats(m, k)
      <3>1. k.speed \in {10, 100} BY ModesAreFour
      <3>2. QED BY <2>1, <3>1
    <2>3. QED BY <1>1, <2>2
  <1>3. CASE ~(\E m \in S : m.speed = 100 /\ m.duplex = "full") /\ \E m \in S : m.speed = 100
    <2>1. PICK m \in S : m.speed = 100
      BY <1>3
    <2>2. ASSUME NEW k \in S PROVE Beats(m, k)
      <3>1. k.speed \in {10, 100} /\ k.duplex \in {"half", "full"} BY ModesAreFour
      <3>2. QED BY <1>3, <2>1, <3>1
    <2>3. QED BY <1>1, <2>2
  <1>4. CASE ~(\E m \in S : m.speed = 100) /\ \E m \in S : m.duplex = "full"
    <2>1. PICK m \in S : m.duplex = "full"
      BY <1>4
    <2>2. ASSUME NEW k \in S PROVE Beats(m, k)
      <3>1. k.speed = 10 /\ m.speed = 10 BY <1>4, ModesAreFour
      <3>2. QED BY <2>1, <3>1
    <2>3. QED BY <1>1, <2>2
  <1>5. CASE ~(\E m \in S : m.speed = 100) /\ ~(\E m \in S : m.duplex = "full")
    <2>1. PICK m \in S : TRUE
      OBVIOUS
    <2>2. ASSUME NEW k \in S PROVE Beats(m, k)
      <3>1. k.speed = 10 /\ m.speed = 10 /\ k.duplex = "half" BY <1>5, ModesAreFour
      <3>2. QED BY <3>1
    <2>3. QED BY <1>1, <2>2
  <1>6. QED BY <1>2, <1>3, <1>4, <1>5

LEMMA CodeIsInjective ==
  ASSUME NEW m \in Modes, NEW k \in Modes, Code(m) = Code(k)
  PROVE  m = k
  <1>1. m.speed = k.speed /\ m.duplex = k.duplex
    BY ModesAreFour DEF Code
  <1>2. QED BY <1>1, ModesAreFour

LEMMA DecodedIsMode ==
  ASSUME NEW code
  PROVE  Decoded(code) \in Modes \cup {Down}
  BY DEF Decoded

LEMMA DecodeInvertsCode ==
  ASSUME NEW m \in Modes
  PROVE  Decoded(Code(m)) = m
  <1>1. \E k \in Modes : Code(k) = Code(m)
    OBVIOUS
  <1> DEFINE d == CHOOSE k \in Modes : Code(k) = Code(m)
  <1>2. d \in Modes /\ Code(d) = Code(m)
    BY <1>1
  <1>3. d = m
    BY <1>2, CodeIsInjective
  <1>4. QED BY <1>1, <1>3 DEF Decoded

LEMMA SevenIsReserved == Decoded(7) = Down
  <1>1. ASSUME NEW m \in Modes PROVE Code(m) # 7
    BY ModesAreFour DEF Code
  <1>2. QED BY <1>1 DEF Decoded

(***************************************************************************)
(* The inductive invariant.                                                *)
(***************************************************************************)

\* The read-modify-writes of BMCR are entered by these methods only, the steps
\* of init by init only, and those of poll_link by poll_link.
OpFollowsStep ==
  /\ pc \in {"bmcr_rd", "bmcr_wr"} => op \in {"init", "enable_an", "force_link", "loopback"}
  /\ pc \in {"reset", "await_reset", "id", "mcsr_rd", "mcsr_wr", "anar"} => op = "init"
  /\ pc \in {"bmsr", "bmcr", "pscsr"} => op = "poll_link"
  /\ pc = "query" => op = "query"
  /\ pc = "lb_on" => op = "loopback"

\* Neither BMCR nor a word read from it asks for a restart of a negotiation
\* that is switched off.
RestartInv ==
  /\ RestartOnlyWhileNegotiating
  /\ "AN_RESTART" \in cur => "AN_ENABLE" \in cur

DoneInv == an = "done" => Common # {}

IInv == Typed /\ OpFollowsStep /\ RestartInv /\ DoneInv

\* All that BmcrWritten needs to know of the word.
LEMMA UpdatedIsSound ==
  ASSUME Typed, OpFollowsStep, RestartInv, pc = "bmcr_wr"
  PROVE  /\ Updated \in SUBSET BmcrBits
         /\ "AN_RESTART" \in Updated => "AN_ENABLE" \in Updated
  <1>1. op \in {"init", "enable_an", "force_link", "loopback"}
    BY DEF OpFollowsStep
  <1>2. WithAutoNeg(cur) \in SUBSET BmcrBits /\ "AN_ENABLE" \in WithAutoNeg(cur)
    BY DEF Typed, WithAutoNeg, BmcrBits
  <1>3. WithForced(cur, arg) \in SUBSET BmcrBits /\ "AN_RESTART" \notin WithForced(cur, arg)
    BY DEF Typed, WithForced, ModeBits, BmcrBits
  <1>4. /\ cur \ {"LOOPBACK"} \in SUBSET BmcrBits
        /\ "AN_RESTART" \in cur \ {"LOOPBACK"} => "AN_ENABLE" \in cur \ {"LOOPBACK"}
    BY DEF Typed, RestartInv
  <1>5. QED BY <1>1, <1>2, <1>3, <1>4 DEF Updated

\* What a write of BMCR does to the silicon's share of the invariant.
BmcrSound ==
  /\ bmcr \in SUBSET BmcrBits /\ an \in {"off", "running", "done"}
  /\ adv \in SUBSET Modes /\ linkUp \in BOOLEAN
  /\ RestartOnlyWhileNegotiating /\ DoneInv

LEMMA BmcrWrittenSound ==
  ASSUME BmcrSound, anar \in SUBSET Modes, partner' = partner,
         NEW w \in SUBSET BmcrBits, "AN_RESTART" \in w => "AN_ENABLE" \in w,
         BmcrWritten(w)
  PROVE  BmcrSound'
  <1>1. /\ bmcr' \in SUBSET BmcrBits
        /\ "AN_RESTART" \in bmcr' => "AN_ENABLE" \in bmcr'
    BY DEF BmcrWritten, BmcrSound, RestartOnlyWhileNegotiating, BmcrBits
  <1>2. an' \in {"off", "running", "done"} /\ adv' \in SUBSET Modes /\ linkUp' \in BOOLEAN
    BY DEF BmcrWritten, BmcrSound, negotiation
  <1>3. an' = "done" => UNCHANGED <<an, adv>>
    BY DEF BmcrWritten, negotiation
  <1>4. DoneInv'
    BY <1>3 DEF BmcrSound, DoneInv, Common
  <1>5. QED BY <1>1, <1>2, <1>4 DEF BmcrSound, RestartOnlyWhileNegotiating

LEMMA InitIInv == Init => IInv
  <1> SUFFICES ASSUME Init
               PROVE  IInv
    OBVIOUS
  <1>1. bmcr \subseteq BmcrBits /\ "AN_RESTART" \notin bmcr
    BY ConstantsAssumption DEF Init
  <1>2. n \in 0..ResetPolls
    BY ConstantsAssumption DEF Init
  <1>3. anar \subseteq Modes /\ an \in {"off", "running"}
    BY ConstantsAssumption DEF Init
  <1>4. Typed
    BY <1>1, <1>2, <1>3 DEF Init, Typed, Ops, Steps, ReadSteps
  <1>5. QED
    BY <1>1, <1>3, <1>4 DEF Init, IInv, OpFollowsStep, RestartInv,
       RestartOnlyWhileNegotiating, DoneInv

(***************************************************************************)
(* Every step preserves it.                                                *)
(***************************************************************************)

\* The steps that leave the silicon alone.
ControlStep ==
  \/ CallSome \/ AwaitReset \/ CheckId \/ ReadBmcr \/ ReadBmsr \/ ReadMode
  \/ ReadPscsr \/ Query \/ ReadFails \/ New

LEMMA ControlFrame == ControlStep => UNCHANGED silicon
  BY DEF ControlStep, CallSome, CallInit, CallPoll, CallQuery, CallEnableAn,
         CallLoopbackOn, CallLoopbackOff, CallForceLink, AwaitReset, CheckId, ReadBmcr,
         ReadBmsr, ReadMode, ReadPscsr, Query, ReadFails, New, silicon

LEMMA EnvironmentFrame == ChipProgress \/ CableMoves \/ ClockChanges => UNCHANGED driver
  BY DEF ChipProgress, ResetCompletes, RestartSelfClears, AnCompletes, LinkRises,
         CableMoves, ClockChanges, driver

\* The driver's share of the invariant.
DriverSound ==
  /\ link_up \in BOOLEAN /\ op \in Ops /\ pc \in Steps /\ n \in 0..ResetPolls
  /\ cur \in SUBSET BmcrBits /\ arg \in Forced
  /\ link \in Modes \cup {Nothing, Down}
  /\ initOk \in BOOLEAN /\ asked \in Modes \cup {AutoNeg, Unknown}
  /\ OpFollowsStep /\ ("AN_RESTART" \in cur => "AN_ENABLE" \in cur)

ChipSound ==
  /\ BmcrSound
  /\ part \in Parts /\ alive \in BOOLEAN /\ anar \in SUBSET Modes /\ edpd \in BOOLEAN
  /\ partner \in Partners

LEMMA IInvSplits == IInv <=> DriverSound /\ ChipSound
  BY DEF IInv, Typed, RestartInv, DriverSound, ChipSound, BmcrSound

LEMMA ControlSound ==
  ASSUME DriverSound, ChipSound, ControlStep
  PROVE  DriverSound'
  <1> USE DEF DriverSound, OpFollowsStep, Ops, Steps, ReadSteps
  <1>1. CASE CallSome
    BY <1>1 DEF CallSome, CallInit, CallPoll, CallQuery, CallEnableAn, CallLoopbackOn,
       CallLoopbackOff, CallForceLink, Call, history
  <1>2. CASE AwaitReset
    BY <1>2, ConstantsAssumption DEF AwaitReset, Goto, Return, report, history
  <1>3. CASE CheckId \/ Query
    BY <1>3 DEF CheckId, Query, Goto, Return, report, history
  <1>4. CASE ReadBmcr
    <2>1. BmcrRead \in SUBSET BmcrBits
          /\ ("AN_RESTART" \in BmcrRead => "AN_ENABLE" \in BmcrRead)
      BY DEF ChipSound, BmcrSound, RestartOnlyWhileNegotiating, BmcrRead, BmcrBits
    <2>2. QED BY <1>4, <2>1 DEF ReadBmcr, Goto, report, history
  <1>5. CASE ReadBmsr
    <2>1. Down \notin Modes
      BY MarkersAreNoModes
    <2>2. CASE Report(Down)
      BY <1>5, <2>1, <2>2 DEF ReadBmsr, Report, history
    <2>3. CASE Goto("bmcr") /\ UNCHANGED link_up
      BY <1>5, <2>3 DEF ReadBmsr, Goto, report, history
    <2>4. QED BY <1>5, <2>2, <2>3 DEF ReadBmsr
  <1>6. CASE ReadMode
    <2>1. ForcedMode(BmcrRead) \in Modes
      BY DEF ForcedMode, Modes
    <2>2. QED BY <1>6, <2>1 DEF ReadMode, Goto, Report, report, history
  <1>7. CASE ReadPscsr
    <2>1. PICK l \in Modes \cup {Down} : Report(l)
      BY <1>7, DecodedIsMode DEF ReadPscsr
    <2>2. QED BY <1>7, <2>1 DEF ReadPscsr, Report, history
  <1>8. CASE ReadFails
    BY <1>8, ConstantsAssumption DEF ReadFails, Return, history
  <1>9. CASE New
    <2>1. n' \in 0..ResetPolls /\ cur' \in SUBSET BmcrBits
          /\ ("AN_RESTART" \in cur' => "AN_ENABLE" \in cur')
      BY <1>9, ConstantsAssumption DEF New
    <2>2. link_up' \in BOOLEAN /\ initOk' \in BOOLEAN /\ arg' \in Forced
      BY <1>9 DEF New
    <2>3. /\ op' = "init" /\ pc' = "idle" /\ res' = "none"
          /\ link' = Nothing /\ asked' = Unknown
      BY <1>9 DEF New
    <2>4. QED BY <2>1, <2>2, <2>3
  <1>10. QED
    BY <1>1, <1>2, <1>3, <1>4, <1>5, <1>6, <1>7, <1>8, <1>9 DEF ControlStep

LEMMA NextSound ==
  ASSUME DriverSound, ChipSound, [Next]_vars
  PROVE  DriverSound' /\ ChipSound'
  <1>1. CASE UNCHANGED vars
    <2>1. UNCHANGED <<driver, silicon>> BY <1>1 DEF vars
    <2>2. DriverSound'
      BY <2>1 DEF DriverSound, OpFollowsStep, driver, call, report, history
    <2>3. ChipSound'
      BY <2>1 DEF ChipSound, BmcrSound, RestartOnlyWhileNegotiating, DoneInv, Common,
                  silicon, negotiation
    <2>4. QED BY <2>2, <2>3
  <1>2. CASE ControlStep
    <2>1. DriverSound' BY <1>2, ControlSound
    <2>2. ChipSound'
      BY <1>2, ControlFrame DEF ChipSound, BmcrSound, RestartOnlyWhileNegotiating, DoneInv,
                                Common, silicon, negotiation
    <2>3. QED BY <2>1, <2>2
  <1>3. CASE ChipProgress \/ CableMoves \/ ClockChanges
    <2>1. DriverSound'
      BY <1>3, EnvironmentFrame DEF DriverSound, OpFollowsStep, driver, call, report, history
    <2> USE DEF ChipSound, BmcrSound, RestartOnlyWhileNegotiating, DoneInv, Common, negotiation
    <2>2. CASE ResetCompletes
      <3>1. bmcr' \in SUBSET BmcrBits /\ "AN_RESTART" \notin bmcr' /\ anar' \in SUBSET Modes
        BY <2>2, ConstantsAssumption DEF ResetCompletes
      <3>2. an' \in {"off", "running"} /\ adv' = anar'
        BY <2>2 DEF ResetCompletes
      <3>3. QED BY <2>1, <2>2, <3>1, <3>2 DEF ResetCompletes
    <2>3. CASE RestartSelfClears
      BY <2>1, <2>3 DEF RestartSelfClears
    <2>4. CASE AnCompletes
      BY <2>1, <2>4 DEF AnCompletes
    <2>5. CASE LinkRises
      BY <2>1, <2>5 DEF LinkRises
    <2>6. CASE CableMoves
      BY <2>1, <2>6 DEF CableMoves
    <2>7. CASE ClockChanges
      BY <2>1, <2>7 DEF ClockChanges
    <2>8. QED BY <1>3, <2>2, <2>3, <2>4, <2>5, <2>6, <2>7 DEF ChipProgress
  <1>4. CASE SoftReset
    <2>1. DriverSound'
      BY <1>4, ConstantsAssumption DEF SoftReset, DriverSound, OpFollowsStep, Ops, Steps,
         ReadSteps, Goto, Return, report, history
    <2>2. BmcrSound'
      <3>1. CASE BmcrWritten({"RESET"})
        BY <1>4, <3>1, BmcrWrittenSound DEF SoftReset, ChipSound, BmcrBits
      <3>2. CASE UNCHANGED <<bmcr, linkUp, negotiation>>
        BY <1>4, <3>2 DEF SoftReset, ChipSound, BmcrSound, RestartOnlyWhileNegotiating,
                          DoneInv, Common, negotiation
      <3>3. QED BY <1>4, <3>1, <3>2 DEF SoftReset
    <2>3. QED BY <1>4, <2>1, <2>2 DEF SoftReset, ChipSound
  <1>5. CASE WriteMcsr \/ WriteAnar
    <2>1. DriverSound'
      BY <1>5 DEF WriteMcsr, WriteAnar, DriverSound, OpFollowsStep, Ops, Steps, ReadSteps,
         Goto, Return, report, history
    <2>2. ChipSound'
      BY <1>5, StandardAnarIsComplete DEF WriteMcsr, WriteAnar, ChipSound, BmcrSound, RestartOnlyWhileNegotiating,
         DoneInv, Common, negotiation
    <2>3. QED BY <2>1, <2>2
  <1>6. CASE WriteBmcr
    <2>1. Updated \in SUBSET BmcrBits /\ ("AN_RESTART" \in Updated => "AN_ENABLE" \in Updated)
      BY <1>6, UpdatedIsSound, IInvSplits DEF IInv, WriteBmcr
    <2>2. DriverSound'
      <3>1. op \in {"init", "enable_an", "force_link", "loopback"}
        BY <1>6 DEF WriteBmcr, DriverSound, OpFollowsStep
      <3>2. PICK ok, landed \in BOOLEAN :
              /\ Return(IF ok THEN "ok" ELSE "Mdio")
              /\ initOk' = (initOk \/ (ok /\ op = "init"))
              /\ link_up' = (link_up /\ ~(ok /\ op = "init"))
              /\ asked' = Expected(ok, landed)
        BY <1>6 DEF WriteBmcr
      <3>3. asked' \in Modes \cup {AutoNeg, Unknown}
        BY <3>1, <3>2, ConstantsAssumption DEF Expected, DriverSound
      <3>4. QED
        BY <1>6, <3>2, <3>3 DEF WriteBmcr, DriverSound, OpFollowsStep, Steps, ReadSteps,
           Return
    <2>3. BmcrSound'
      <3>1. CASE BmcrWritten(Updated)
        BY <1>6, <2>1, <3>1, BmcrWrittenSound DEF WriteBmcr, ChipSound
      <3>2. CASE UNCHANGED <<bmcr, linkUp, negotiation>>
        BY <1>6, <3>2 DEF WriteBmcr, ChipSound, BmcrSound, RestartOnlyWhileNegotiating,
                          DoneInv, Common, negotiation
      <3>3. QED BY <1>6, <3>1, <3>2 DEF WriteBmcr
    <2>4. QED BY <1>6, <2>2, <2>3 DEF WriteBmcr, ChipSound
  <1>7. CASE WriteLoopbackOn
    <2>1. DriverSound'
      BY <1>7 DEF WriteLoopbackOn, DriverSound, OpFollowsStep, Steps, ReadSteps, Return
    <2>2. BmcrSound'
      <3>1. CASE BmcrWritten({"LOOPBACK", "SPEED_100", "DUPLEX_FULL"})
        BY <1>7, <3>1, BmcrWrittenSound DEF WriteLoopbackOn, ChipSound, BmcrBits
      <3>2. CASE UNCHANGED <<bmcr, linkUp, negotiation>>
        BY <1>7, <3>2 DEF WriteLoopbackOn, ChipSound, BmcrSound, DoneInv, Common,
                          RestartOnlyWhileNegotiating, negotiation
      <3>3. QED BY <1>7, <3>1, <3>2 DEF WriteLoopbackOn
    <2>3. QED BY <1>7, <2>1, <2>2 DEF WriteLoopbackOn, ChipSound
  <1>8. QED
    BY <1>1, <1>2, <1>3, <1>4, <1>5, <1>6, <1>7 DEF Next, DriverStep, ControlStep

LEMMA NextResult ==
  ASSUME res \in Results, [Next]_vars
  PROVE  res' \in Results
  <1>1. CASE UNCHANGED vars \/ ChipProgress \/ CableMoves \/ ClockChanges
    BY <1>1, EnvironmentFrame DEF vars, driver, report
  <1>2. CASE ControlStep
    BY <1>2 DEF ControlStep, CallSome, CallInit, CallPoll, CallQuery, CallEnableAn,
       CallLoopbackOn, CallLoopbackOff, CallForceLink, Call, AwaitReset, CheckId, ReadBmcr,
       ReadBmsr, ReadMode, ReadPscsr, Query, ReadFails, New, Goto, Return, Report, report, Results
  <1>3. CASE SoftReset \/ WriteMcsr \/ WriteAnar \/ WriteBmcr \/ WriteLoopbackOn
    BY <1>3 DEF SoftReset, WriteMcsr, WriteAnar, WriteBmcr, WriteLoopbackOn, Goto, Return,
       report, Results
  <1>4. QED BY <1>1, <1>2, <1>3 DEF Next, DriverStep, ControlStep

LEMMA Invariance == Spec => []IInv
  <1>1. Init => DriverSound /\ ChipSound
    BY InitIInv, IInvSplits
  <1>2. (DriverSound /\ ChipSound) /\ [Next]_vars => (DriverSound /\ ChipSound)'
    BY NextSound
  <1>3. QED BY <1>1, <1>2, IInvSplits, PTL DEF Spec

(***************************************************************************)
(* The theorems.                                                           *)
(***************************************************************************)

\* Every variable keeps its type.
THEOREM TypeCorrect == Spec => []TypeOK
  <1>1. IInv => Typed
    BY DEF IInv
  <1>2. Init => res \in Results
    BY DEF Init, Results
  <1>3. res \in Results /\ [Next]_vars => (res \in Results)'
    BY NextResult
  <1>4. IInv /\ res \in Results => TypeOK
    BY <1>1 DEF TypeOK
  <1>5. QED BY <1>2, <1>3, <1>4, Invariance, PTL DEF Spec

\* force_link, enable_auto_negotiation and set_loopback, in any order, never
\* leave AN_RESTART pending on a PHY that does not negotiate.
THEOREM RestartNeverStale == Spec => []RestartOnlyWhileNegotiating
  <1>1. IInv => RestartOnlyWhileNegotiating
    BY DEF IInv, RestartInv
  <1>2. QED BY <1>1, Invariance, PTL

\* The three accesses poll_link can answer after.
LEMMA StepOfPoll ==
  ASSUME [Next]_vars, NEW l, Polled(l)
  PROVE  \/ pc = "bmsr" /\ ReadBmsr
         \/ pc = "bmcr" /\ ReadMode
         \/ pc = "pscsr" /\ ReadPscsr
  <1>1. pc' # pc /\ pc # "idle" /\ res' = "ok"
    BY DEF Polled
  <1>2. ~UNCHANGED driver
    BY <1>1 DEF driver, call
  <1>3. ~(ChipProgress \/ CableMoves \/ ClockChanges)
    BY <1>2, EnvironmentFrame
  <1>4. ~UNCHANGED vars
    BY <1>2 DEF vars
  <1>5. ~CallSome /\ ~New
    BY <1>1 DEF CallSome, CallInit, CallPoll, CallQuery, CallEnableAn, CallLoopbackOn,
                CallLoopbackOff, CallForceLink, Call, New
  <1>6. /\ ~SoftReset /\ ~AwaitReset /\ ~CheckId /\ ~WriteMcsr /\ ~WriteAnar
        /\ ~ReadBmcr /\ ~WriteBmcr /\ ~WriteLoopbackOn /\ ~Query
    BY DEF Polled, SoftReset, AwaitReset, CheckId, WriteMcsr, WriteAnar, ReadBmcr, WriteBmcr,
           WriteLoopbackOn, Query
  <1>7. ~ReadFails
    BY <1>1 DEF ReadFails, Return
  <1>8. QED
    BY <1>3, <1>4, <1>5, <1>6, <1>7 DEF Next, DriverStep, ReadBmsr, ReadMode, ReadPscsr

\* An up is read from BMCR or from PSCSR.
LEMMA PollReportsFrom ==
  ASSUME [Next]_vars, NEW m \in Modes, Polled(m)
  PROVE  (pc = "bmcr" /\ ReadMode) \/ (pc = "pscsr" /\ ReadPscsr)
  <1>1. m # Down BY MarkersAreNoModes
  <1>2. ~(pc = "bmsr" /\ ReadBmsr)
    BY <1>1 DEF Polled, ReadBmsr, Report, Goto
  <1>3. QED BY <1>2, StepOfPoll

\* An up takes a chip that drives the bus.
LEMMA PollNeedsChip ==
  ASSUME [Next]_vars, NEW m \in Modes, Polled(m)
  PROVE  alive
  <1>1. CASE pc = "bmcr" /\ ReadMode
    BY <1>1 DEF ReadMode, Goto, Polled, BmcrRead, BmcrBits
  <1>2. CASE pc = "pscsr" /\ ReadPscsr
    <2>1. SUFFICES ASSUME ~alive PROVE FALSE
      OBVIOUS
    <2>2. PscsrReads = {[autodone |-> TRUE, code |-> 7]}
      BY <2>1 DEF PscsrReads
    <2>3. link' = Down
      BY <1>2, <2>2, SevenIsReserved DEF ReadPscsr, Report
    <2>4. QED BY <2>3, MarkersAreNoModes DEF Polled
  <1>3. QED BY <1>1, <1>2, PollReportsFrom

\* A link is never reported off a bus that floats high.
THEOREM FloatingBusNeverUp == Spec => FloatingBusIsDown
  <1>1. [Next]_vars => [\A m \in Modes : Polled(m) => alive]_vars
    BY PollNeedsChip
  <1>2. QED BY <1>1, PTL DEF Spec, FloatingBusIsDown

\* With auto-negotiation enabled, an answer of poll_link is the negotiated mode.
LEMMA PollIsNegotiated ==
  ASSUME IInv, [Next]_vars, NEW m \in Modes, Polled(m), alive, "AN_ENABLE" \in bmcr
  PROVE  an = "done" /\ m = Best(Common)
  <1>1. CASE pc = "bmcr" /\ ReadMode
    BY <1>1 DEF ReadMode, Goto, Polled, BmcrRead
  <1>2. CASE pc = "pscsr" /\ ReadPscsr
    <2>1. PICK p \in PscsrReads : link' = IF p.autodone THEN Decoded(p.code) ELSE Down
      BY <1>2 DEF ReadPscsr, Report
    <2>2. link' = m /\ m # Down
      BY MarkersAreNoModes DEF Polled
    <2>3. CASE an = "done"
      <3>1. p = [autodone |-> TRUE, code |-> Code(Best(Common))]
        BY <2>1, <2>3 DEF PscsrReads
      <3>2. Common \in SUBSET Modes /\ Common # {}
        BY <2>3 DEF IInv, Typed, DoneInv, Common
      <3>3. Best(Common) \in Modes
        BY <3>2, BestIsCommon
      <3>4. Decoded(Code(Best(Common))) = Best(Common)
        BY <3>3, DecodeInvertsCode
      <3>5. QED BY <2>1, <2>2, <2>3, <3>1, <3>4
    <2>4. CASE an # "done"
      <3>1. ~p.autodone
        BY <2>1, <2>4 DEF PscsrReads
      <3>2. QED BY <2>1, <2>2, <3>1
    <2>5. QED BY <2>3, <2>4
  <1>3. QED BY <1>1, <1>2, PollReportsFrom

\* With auto-negotiation enabled, a link is reported only when negotiated, and
\* in the mode negotiated.
THEOREM UpMeansNegotiated == Spec => UpIsNegotiated
  <1>1. IInv /\ [Next]_vars =>
          [\A m \in Modes : Polled(m) /\ alive /\ "AN_ENABLE" \in bmcr =>
             an = "done" /\ m = Best(Common)]_vars
    BY PollIsNegotiated
  <1>2. QED BY <1>1, Invariance, PTL DEF Spec, UpIsNegotiated

\* A poll of BMCR always has a read left to make.
LEMMA PollsCounted ==
  ASSUME IInv, pc = "await_reset" => n > 0, [Next]_vars
  PROVE  (pc = "await_reset" => n > 0)'
  <1>1. CASE UNCHANGED vars \/ ChipProgress \/ CableMoves \/ ClockChanges
    BY <1>1, EnvironmentFrame DEF vars, driver, call
  <1>2. CASE CallSome \/ New
    BY <1>2 DEF CallSome, CallInit, CallPoll, CallQuery, CallEnableAn, CallLoopbackOn,
                CallLoopbackOff, CallForceLink, Call, New
  <1>3. CASE SoftReset \/ AwaitReset
    BY <1>3, ConstantsAssumption DEF SoftReset, AwaitReset, Goto, Return, IInv, Typed
  <1>4. CASE CheckId \/ WriteMcsr \/ WriteAnar \/ ReadBmcr \/ WriteBmcr \/ WriteLoopbackOn
    BY <1>4 DEF CheckId, WriteMcsr, WriteAnar, ReadBmcr, WriteBmcr, WriteLoopbackOn, Goto, Return
  <1>5. CASE ReadBmsr \/ ReadMode \/ ReadPscsr \/ Query \/ ReadFails
    BY <1>5 DEF ReadBmsr, ReadMode, ReadPscsr, Query, ReadFails, Report, Goto, Return
  <1>6. QED
    BY <1>1, <1>2, <1>3, <1>4, <1>5 DEF Next, DriverStep

\* EveryStepCounts: a ranking function for every method, for any number of polls.
THEOREM MethodsAreBounded == Spec => EveryStepCounts
  <1>1. ASSUME IInv, pc = "await_reset" => n > 0, DriverStep
        PROVE  StepsLeft' \in 0..(StepsLeft - 1)
    <2>1. /\ ResetPolls \in Nat /\ ResetPolls > 0 /\ n \in 0..ResetPolls
          /\ pc = "await_reset" => n > 0
      BY <1>1, ConstantsAssumption DEF IInv, Typed
    <2> USE <2>1 DEF StepsLeft, StepsFrom, Goto, Return
    <2>2. CASE SoftReset \/ AwaitReset
      BY <2>2 DEF SoftReset, AwaitReset
    <2>3. CASE CheckId \/ WriteMcsr \/ WriteAnar
      BY <2>3 DEF CheckId, WriteMcsr, WriteAnar
    <2>4. CASE ReadBmcr \/ WriteBmcr \/ WriteLoopbackOn \/ Query
      BY <2>4 DEF ReadBmcr, WriteBmcr, WriteLoopbackOn, Query
    <2>5. CASE ReadBmsr \/ ReadMode \/ ReadPscsr
      BY <2>5 DEF ReadBmsr, ReadMode, ReadPscsr, Report
    <2>6. CASE ReadFails
      BY <2>6 DEF ReadFails, ReadSteps
    <2>7. QED
      BY <1>1, <2>2, <2>3, <2>4, <2>5, <2>6 DEF DriverStep
  <1>2. Init => (pc = "await_reset" => n > 0)
    BY DEF Init
  <1>3. IInv /\ (pc = "await_reset" => n > 0) /\ [Next]_vars =>
          [DriverStep => StepsLeft' \in 0..(StepsLeft - 1)]_vars
    BY <1>1
  <1>4. IInv /\ (pc = "await_reset" => n > 0) /\ [Next]_vars => (pc = "await_reset" => n > 0)'
    BY PollsCounted
  <1>5. QED
    BY <1>2, <1>3, <1>4, Invariance, PTL DEF Spec, EveryStepCounts

=============================================================================
