--------------------------- MODULE Lan867x_proofs ---------------------------
(***************************************************************************)
(* Proofs about the LAN867x driver, for every number of polls, every set   *)
(* of parts and configurations, and either meaning of a bus error.         *)
(***************************************************************************)
EXTENDS Lan867x, TLAPS

\* What a configuration is encoded to fits the registers.
LEMMA EncodingTypes ==
  ASSUME NEW c \in Configs
  PROVE  /\ c.node_id \in U8
         /\ Ctrl1Of(c) \in Ctrl1Values
         /\ BurstOf(c) \in [maxbc : U8, btmr : U8]
  BY ConstantsAssumption DEF PlcaConfig, Ctrl1Of, BurstOf, Ctrl1Values

LEMMA ZeroIsU8 == 0 \in U8 /\ U8Max \in U8
  BY ConstantsAssumption DEF U8

\* The values of a snapshot and of PLCA_BURST that are not read from anywhere.
LEMMA LiteralTypes ==
  /\ NoSnap \in [enabled : BOOLEAN, node_id : U8, stable : BOOLEAN]
  /\ [maxbc |-> 0, btmr |-> ChipBtmr] \in [maxbc : U8, btmr : U8]
  BY ZeroIsU8, ConstantsAssumption DEF NoSnap

\* The steps that change nothing but the control state of a call.
ControlStep ==
  \/ CallPoll \/ CallQuery \/ CallDisable \/ CallStatus
  \/ Identify \/ ReadMde \/ PollLink \/ Query \/ ReadEn \/ ReadDis \/ ReadFails

ControlUnchanged == <<cache, cfg, silicon>>

LEMMA ControlFrame == ControlStep => UNCHANGED ControlUnchanged
  BY DEF ControlStep, ControlUnchanged, CallPoll, CallQuery, CallDisable, CallStatus,
         Identify, ReadMde, PollLink, Query, ReadEn, ReadDis, ReadFails

(***************************************************************************)
(* Types.                                                                  *)
(***************************************************************************)

LEMMA InitType == Init => TypeOK
  <1> SUFFICES ASSUME Init
               PROVE  TypeOK
    OBVIOUS
  <1>1. burst \in [maxbc : U8, btmr : U8] /\ ctrl1 \in Ctrl1Values
    BY LiteralTypes, ConstantsAssumption DEF Init
  <1>2. n \in 0..ResetPolls
    BY ConstantsAssumption DEF Init
  <1>3. QED
    BY <1>1, <1>2, LiteralTypes DEF Init, TypeOK, Typed, Steps, Results, Phases

LEMMA NextTyped == Typed /\ [Next]_vars => Typed'
  <1> SUFFICES ASSUME Typed, [Next]_vars
               PROVE  Typed'
    OBVIOUS
  <1> USE DEF Typed
  <1>1. CASE CallInit \/ CallPoll \/ CallQuery \/ CallDisable \/ CallStatus
    BY <1>1, LiteralTypes
       DEF CallInit, CallPoll, CallQuery, CallDisable, CallStatus, Call, NoSnap,
           Steps, InitSteps, PlcaSteps, StatusSteps, cache, silicon, plcaRegs
  <1>2. ASSUME NEW c \in Configs, CallConfigure(c) \/ RejectConfig(c)
        PROVE  Typed'
    BY <1>2, LiteralTypes
       DEF CallConfigure, RejectConfig, Call, Steps, PlcaSteps,
           cache, silicon, plcaRegs
  <1>3. CASE SoftReset
    <2>1. /\ phase' \in Phases /\ mde' \in BOOLEAN /\ en' \in BOOLEAN /\ pst' \in BOOLEAN
          /\ ctrl1' \in Ctrl1Values /\ burst' \in [maxbc : U8, btmr : U8]
      <3>1. CASE Defaults /\ phase' = "resetting"
        BY <3>1, LiteralTypes, ConstantsAssumption DEF Defaults, Phases
      <3>2. CASE UNCHANGED <<phase, mde, plcaRegs>>
        BY <3>2 DEF plcaRegs
      <3>3. QED
        BY <1>3, <3>1, <3>2 DEF SoftReset
    <2>2. n' \in 0..ResetPolls
      BY <1>3, ConstantsAssumption DEF SoftReset
    <2>3. QED
      BY <1>3, <2>1, <2>2
         DEF SoftReset, Goto, Return, Steps, InitSteps, cache
  <1>4. CASE AwaitReset
    BY <1>4, ConstantsAssumption
       DEF AwaitReset, PollFor, Goto, Return, Steps, InitSteps, cache, plcaRegs
  <1>5. CASE Handshake \/ HandshakeLost
    BY <1>5, ConstantsAssumption
       DEF Handshake, HandshakeLost, PollFor, Goto, Return, Steps, InitSteps,
           Phases, cache, plcaRegs
  <1>6. CASE Identify \/ ReadMde \/ ReadFails
    BY <1>6, ConstantsAssumption
       DEF Identify, ReadMde, ReadFails, Goto, Return, Steps, InitSteps, StatusSteps,
           Results, cache, silicon, plcaRegs
  <1>7. CASE WriteMde
    BY <1>7, ConstantsAssumption
       DEF WriteMde, Return, Steps, plcaRegs
  <1>8. CASE PollLink \/ Query
    BY <1>8 DEF PollLink, Query, Report, Return, Steps, cache, silicon, plcaRegs
  <1>9. CASE WriteCtrl1 \/ WriteBurst
    BY <1>9, EncodingTypes
       DEF WriteCtrl1, WriteBurst, PlcaStep, Goto, Return, Steps, PlcaSteps, cache
  <1>10. CASE ReadEn \/ ReadDis
    BY <1>10
       DEF ReadEn, ReadDis, PlcaStep, Goto, Return, Steps, PlcaSteps,
           cache, silicon, plcaRegs
  <1>11. CASE WriteEn
    BY <1>11, EncodingTypes DEF WriteEn, Return, Steps
  <1>12. CASE WriteDis
    BY <1>12 DEF WriteDis, Return, Steps
  <1>13. CASE ReadStatus
    <2>1. EnBit \in BOOLEAN /\ IdBits \in U8 /\ PstBit \in BOOLEAN
      BY ZeroIsU8 DEF EnBit, IdBits, PstBit, Ctrl1Values
    <2>2. snap' \in [enabled : BOOLEAN, node_id : U8, stable : BOOLEAN]
      BY <1>13, <2>1 DEF ReadStatus
    <2>3. QED
      BY <1>13, <2>2
         DEF ReadStatus, Steps, StatusSteps, cache, silicon, plcaRegs
  <1>14. CASE Restart
    BY <1>14, LiteralTypes, ConstantsAssumption
       DEF Restart, Steps, silicon, plcaRegs
  <1>15. CASE ChipProgress \/ BeaconsChange
    <2>1. CASE ChipProgress
      BY <2>1 DEF ChipProgress, SwResetClears, BootCompletes, Phases, cache, plcaRegs
    <2>2. CASE BeaconsChange
      BY <2>2 DEF BeaconsChange, cache
    <2>3. QED BY <1>15, <2>1, <2>2
  <1>16. CASE UNCHANGED vars
    BY <1>16 DEF vars, cache, silicon, plcaRegs
  <1>17. QED
    BY <1>1, <1>2, <1>3, <1>4, <1>5, <1>6, <1>7, <1>8, <1>9, <1>10, <1>11, <1>12,
       <1>13, <1>14, <1>15, <1>16
       DEF Next, CallSome, DriverStep

LEMMA NextResult == res \in Results /\ [Next]_vars => res' \in Results
  <1> SUFFICES ASSUME res \in Results, [Next]_vars
               PROVE  res' \in Results
    OBVIOUS
  <1> USE DEF Results, Goto, Return, PollFor, PlcaStep, Report, Call
  <1>1. CASE CallSome
    BY <1>1 DEF CallSome, CallInit, CallPoll, CallQuery, CallDisable, CallStatus,
       CallConfigure, RejectConfig
  <1>2. CASE SoftReset \/ AwaitReset \/ Handshake \/ HandshakeLost \/ Identify \/ ReadMde
             \/ WriteMde \/ PollLink \/ Query
    BY <1>2 DEF SoftReset, AwaitReset, Handshake, HandshakeLost, Identify, ReadMde, WriteMde,
       PollLink, Query
  <1>3. CASE WriteCtrl1 \/ WriteBurst \/ ReadEn \/ WriteEn \/ ReadDis \/ WriteDis
             \/ ReadStatus \/ ReadFails
    BY <1>3 DEF WriteCtrl1, WriteBurst, ReadEn, WriteEn, ReadDis, WriteDis, ReadStatus,
       ReadFails
  <1>4. CASE Restart \/ ChipProgress \/ BeaconsChange \/ UNCHANGED vars
    BY <1>4 DEF Restart, ChipProgress, BeaconsChange, vars
  <1>5. QED BY <1>1, <1>2, <1>3, <1>4 DEF Next, DriverStep

LEMMA NextType == TypeOK /\ [Next]_vars => TypeOK'
  BY NextTyped, NextResult DEF TypeOK

\* Every reachable state is well typed.
THEOREM TypeCorrect == Spec => []TypeOK
  BY InitType, NextType, PTL DEF Spec

(***************************************************************************)
(* The inductive invariant.                                                *)
(***************************************************************************)

LEMMA InitIInv == Init => IInv
  BY DEF Init, IInv, CommittedImpliesReady, InitProgress, ConfigureProgress,
         StatusProgress, EnabledNodeHasOpportunity, Agreement, InitSteps

LEMMA NextIInv == Typed /\ IInv /\ [Next]_vars => IInv'
  <1> SUFFICES ASSUME Typed, IInv, [Next]_vars
               PROVE  IInv'
    OBVIOUS
  <1> USE ConstantsAssumption
      DEF Typed, IInv, CommittedImpliesReady, InitProgress, ConfigureProgress,
          StatusProgress, EnabledNodeHasOpportunity, Agreement, InitSteps, Valid,
          cache, silicon, plcaRegs, Goto, Return
  <1>1. CASE CallInit
    BY <1>1 DEF CallInit, Call
  <1>2. CASE CallPoll \/ CallQuery \/ CallDisable \/ CallStatus
    BY <1>2 DEF CallPoll, CallQuery, CallDisable, CallStatus, Call
  <1>3. ASSUME NEW c \in Configs, CallConfigure(c) \/ RejectConfig(c)
        PROVE  IInv'
    BY <1>3 DEF CallConfigure, RejectConfig, Call
  <1>4. CASE SoftReset
    <2>1. chip' = None /\ plca_id' = None
      BY <1>4 DEF SoftReset
    <2>2. pc' = "await_reset" => n' > 0 /\ (~en' \/ phase' = "held")
      BY <1>4 DEF SoftReset, Defaults
    <2>3. pst' => en'
      BY <1>4 DEF SoftReset, Defaults
    <2>4. QED
      BY <1>4, <2>1, <2>2, <2>3 DEF SoftReset
  <1>5. CASE AwaitReset
    BY <1>5 DEF AwaitReset, PollFor
  <1>6. CASE Handshake \/ HandshakeLost
    BY <1>6 DEF Handshake, HandshakeLost, PollFor
  <1>7. CASE Identify \/ ReadMde \/ ReadFails
    BY <1>7 DEF Identify, ReadMde, ReadFails, StatusSteps
  <1>8. CASE WriteMde
    <2>1. ASSUME chip' # None
          PROVE  phase = "ready" /\ mde' /\ part.family /\ part.midver /\ part.pkg = chip'
      BY <1>8, <2>1 DEF WriteMde, Outcome
    <2>2. plca_id = None /\ ~en
      BY <1>8 DEF WriteMde
    <2>3. QED
      BY <1>8, <2>1, <2>2 DEF WriteMde
  <1>9. CASE PollLink \/ Query
    BY <1>9 DEF PollLink, Query, Report
  <1>10. CASE WriteCtrl1
    BY <1>10 DEF WriteCtrl1, PlcaStep, Outcome, Ctrl1Of
  <1>11. CASE WriteBurst
    BY <1>11 DEF WriteBurst, PlcaStep, Outcome
  <1>12. CASE ReadEn \/ ReadDis
    BY <1>12 DEF ReadEn, ReadDis, PlcaStep
  <1>13. CASE WriteEn
    <2>1. chip # None => ctrl1 = Ctrl1Of(cfg) /\ burst = BurstOf(cfg) /\ phase = "ready"
      BY <1>13 DEF WriteEn
    <2>2. EnabledNodeHasOpportunity'
      BY <1>13, <2>1 DEF WriteEn, Ctrl1Of
    <2>3. Agreement'
      <3>1. CASE lastPlca' = "ok"
        BY <1>13, <2>1, <3>1, EncodingTypes DEF WriteEn, Outcome
      <3>2. CASE lastPlca' # "ok"
        BY <1>13, <3>2 DEF WriteEn, Outcome
      <3>3. QED
        BY <3>1, <3>2
    <2>4. QED
      BY <1>13, <2>2, <2>3 DEF WriteEn
  <1>14. CASE WriteDis
    <2>1. chip # None => phase = "ready"
      OBVIOUS
    <2>2. Agreement'
      BY <1>14, <2>1 DEF WriteDis, Outcome
    <2>3. QED
      BY <1>14, <2>2 DEF WriteDis
  <1>15. CASE ReadStatus
    BY <1>15 DEF ReadStatus, EnBit, IdBits, PstBit
  <1>16. CASE Restart
    BY <1>16 DEF Restart
  <1>17. CASE ChipProgress
    BY <1>17 DEF ChipProgress, SwResetClears, BootCompletes
  <1>18. CASE BeaconsChange
    BY <1>18 DEF BeaconsChange, Running
  <1>19. CASE UNCHANGED vars
    BY <1>19 DEF vars
  <1>20. QED
    BY <1>1, <1>2, <1>3, <1>4, <1>5, <1>6, <1>7, <1>8, <1>9, <1>10, <1>11, <1>12,
       <1>13, <1>14, <1>15, <1>16, <1>17, <1>18, <1>19
       DEF Next, CallSome, DriverStep

LEMMA Invariance == Spec => [](TypeOK /\ IInv)
  <1>1. TypeOK => Typed
    BY DEF TypeOK
  <1>2. QED BY <1>1, InitType, NextType, InitIInv, NextIInv, PTL DEF Spec

\* chip.is_some() means that init succeeded and still holds: out of reset,
\* handshake done, multidrop on, part identified.
THEOREM InitGate == Spec => []CommittedImpliesReady
  <1>1. IInv => CommittedImpliesReady
    BY DEF IInv
  <1>2. QED
    BY <1>1, Invariance, PTL

\* An initialised chip on which PLCA runs is always granted an opportunity.
THEOREM OpportunityGranted == Spec => []EnabledNodeHasOpportunity
  <1>1. IInv => EnabledNodeHasOpportunity
    BY DEF IInv
  <1>2. QED
    BY <1>1, Invariance, PTL

\* Where an Err means "not written", cache and silicon never disagree on the
\* mode, whatever fails.
THEOREM ModeNeverDisagrees == ASSUME ~LateErr PROVE Spec => []ModeAgrees
  <1>1. IInv => ModeAgrees
    BY DEF IInv, Agreement, ModeAgrees
  <1>2. QED
    BY <1>1, Invariance, PTL

\* Where it may hide a write that landed, one successful PLCA call is enough to
\* make them agree again, on the mode and on every parameter.
THEOREM RetryRecovers == Spec => []RetryRestoresAgreement
  <1>1. IInv => RetryRestoresAgreement
    BY DEF IInv, Agreement, RetryRestoresAgreement
  <1>2. QED
    BY <1>1, Invariance, PTL

(***************************************************************************)
(* Action properties.                                                      *)
(***************************************************************************)

\* Only configure_plca's last write turns PLCA on.
LEMMA OnlyWriteEnEnables ==
  ASSUME IInv, [Next]_vars, chip # None, ~en, en'
  PROVE  WriteEn
  <1>1. ASSUME NEW c \in Configs, CallConfigure(c) \/ RejectConfig(c)
        PROVE  FALSE
    BY <1>1 DEF CallConfigure, RejectConfig, silicon, plcaRegs
  <1>2. ~(CallInit \/ ControlStep)
    BY ControlFrame DEF CallInit, ControlUnchanged, silicon, plcaRegs
  <1>3. ~(SoftReset \/ AwaitReset \/ Handshake \/ HandshakeLost \/ WriteMde)
    BY DEF SoftReset, Defaults, AwaitReset, Handshake, HandshakeLost, WriteMde, plcaRegs
  <1>4. ~(WriteCtrl1 \/ WriteBurst \/ WriteDis \/ ReadStatus)
    BY DEF WriteCtrl1, WriteBurst, WriteDis, ReadStatus, silicon, plcaRegs
  <1>5. ~(Restart \/ ChipProgress \/ BeaconsChange \/ UNCHANGED vars)
    BY DEF Restart, ChipProgress, BeaconsChange, vars, silicon, plcaRegs
  <1>6. QED
    BY <1>1, <1>2, <1>3, <1>4, <1>5 DEF Next, CallSome, DriverStep, ControlStep

\* PLCA is only ever started over the parameters of the call starting it.
THEOREM EnableComesLast == Spec => EnableIsLast
  <1>1. IInv /\ [Next]_vars =>
          [chip # None /\ ~en /\ en' => ctrl1 = Ctrl1Of(cfg) /\ burst = BurstOf(cfg)]_vars
    BY OnlyWriteEnEnables DEF IInv, ConfigureProgress, WriteEn
  <1>2. QED
    BY <1>1, Invariance, PTL DEF Spec, EnableIsLast

\* poll_link returns through PollLink or is cut short by a restart.
LEMMA PollReturns ==
  ASSUME [Next]_vars, pc = "poll", pc' = "idle", res' = "ok"
  PROVE  PollLink
  BY DEF Next, CallSome, DriverStep, CallInit, CallPoll, CallQuery, CallDisable,
         CallStatus, CallConfigure, RejectConfig, Call, SoftReset, AwaitReset, Handshake,
         HandshakeLost, Identify, ReadMde, WriteMde, Query, WriteCtrl1, WriteBurst,
         ReadEn, WriteEn, ReadDis, WriteDis, ReadStatus, ReadFails, InitSteps,
         StatusSteps, Restart, ChipProgress, BeaconsChange, vars

\* An up from poll_link is true of the silicon at that moment, and so is a down.
THEOREM PollTellsTruth == Spec => PollIsTruthful
  <1>1. TypeOK /\ IInv /\ [Next]_vars =>
          [pc = "poll" /\ pc' = "idle" /\ res' = "ok" =>
             IF chip = None THEN link' = "down"
             ELSE lastPlca = "ok" \/ ~LateErr =>
                    (link' = "up" <=> (en => pst))]_vars
    <2> SUFFICES ASSUME TypeOK, IInv, [Next]_vars, pc = "poll", pc' = "idle", res' = "ok"
                 PROVE  IF chip = None THEN link' = "down"
                        ELSE lastPlca = "ok" \/ ~LateErr =>
                               (link' = "up" <=> (en => pst))
      OBVIOUS
    <2>1. PollLink
      BY PollReturns
    <2>2. chip # None => PstBit = pst
      BY DEF TypeOK, Typed, IInv, CommittedImpliesReady, PstBit
    <2>3. CASE chip = None
      BY <2>1, <2>3 DEF PollLink, Report
    <2>4. CASE chip # None /\ plca_id = None
      BY <2>1, <2>4 DEF PollLink, Report, IInv, Agreement
    <2>5. CASE chip # None /\ plca_id # None
      <3>1. link' = IF pst THEN "up" ELSE "down"
        BY <2>1, <2>2, <2>5 DEF PollLink, Report, Return
      <3>2. QED
        BY <2>5, <3>1 DEF IInv, Agreement, TypeOK, Typed
    <2>6. QED
      BY <2>3, <2>4, <2>5
  <1>2. QED
    BY <1>1, Invariance, PTL DEF Spec, PollIsTruthful

\* plca_status returns through ReadStatus or is cut short by a restart.
LEMMA StatusReturns ==
  ASSUME [Next]_vars, pc = "st_sts", pc' = "idle", res' = "ok"
  PROVE  ReadStatus
  BY DEF Next, CallSome, DriverStep, CallInit, CallPoll, CallQuery, CallDisable,
         CallStatus, CallConfigure, RejectConfig, Call, SoftReset, AwaitReset, Handshake,
         HandshakeLost, Identify, ReadMde, WriteMde, PollLink, Query, WriteCtrl1,
         WriteBurst, ReadEn, WriteEn, ReadDis, WriteDis, ReadFails, Return, InitSteps,
         StatusSteps, Restart, ChipProgress, BeaconsChange, vars

\* The three reads of plca_status make one consistent snapshot.
THEOREM StatusNotTorn == Spec => StatusIsConsistent
  <1>1. TypeOK /\ IInv /\ [Next]_vars =>
          [pc = "st_sts" /\ pc' = "idle" /\ res' = "ok" /\ chip # None =>
             /\ snap'.enabled = en /\ snap'.node_id = ctrl1.id
             /\ snap'.stable => snap'.enabled]_vars
    <2> SUFFICES ASSUME TypeOK, IInv, [Next]_vars, chip # None,
                        pc = "st_sts", pc' = "idle", res' = "ok"
                 PROVE  /\ snap'.enabled = en /\ snap'.node_id = ctrl1.id
                        /\ snap'.stable => snap'.enabled
      OBVIOUS
    <2>1. snap' = [snap EXCEPT !.stable = PstBit]
      BY StatusReturns DEF ReadStatus
    <2>2. snap.enabled = en /\ snap.node_id = ctrl1.id /\ (PstBit => en)
      BY DEF IInv, StatusProgress, CommittedImpliesReady, PstBit
    <2>3. QED
      BY <2>1, <2>2 DEF TypeOK, Typed
  <1>2. QED
    BY <1>1, Invariance, PTL DEF Spec, StatusIsConsistent

(***************************************************************************)
(* The driver implements the trait: every step is a call, a refusal, work  *)
(* within a method, a return, or a restart.                                *)
(***************************************************************************)

IsCall ==
  /\ pc = "idle" /\ pc' \in Steps \ {"idle"} /\ link' = "none" /\ UNCHANGED silicon
  /\ chip' = (IF pc' \in InitSteps THEN None ELSE chip)
IsRefusal ==
  /\ pc = "idle" /\ pc' = "idle" /\ link' = "none" /\ res' # "none"
  /\ UNCHANGED <<chip, silicon>>
IsWork == UNCHANGED <<Method, chip, link>> /\ (pc' # "idle" \/ UNCHANGED <<pc, res>>)
IsCommit == pc = "mde_wr" /\ pc' = "idle" /\ res' = "ok" /\ chip' # None /\ UNCHANGED link
IsAnswer ==
  pc = "poll" /\ pc' = "idle" /\ res' = "ok" /\ link' \in {"up", "down"} /\ UNCHANGED chip
IsReturn ==
  pc \in Steps \ {"idle"} /\ pc' = "idle" /\ res' # "none" /\ UNCHANGED <<chip, link>>
IsRestart == pc' = "idle" /\ res' = "none" /\ chip' = None /\ link' = "none"

\* Which method a step belongs to.
LEMMA MethodOf ==
  /\ pc = "idle" => Method = "none"
  /\ pc \in InitSteps => Method = "init"
  /\ pc = "poll" => Method = "poll_link"
  /\ pc \in Steps \ ({"idle", "poll"} \cup InitSteps) => Method = "other"
  BY DEF Method, Steps, InitSteps, PlcaSteps, StatusSteps

LEMMA MethodAfter ==
  /\ pc' = "idle" => Method' = "none"
  /\ pc' \in InitSteps => Method' = "init"
  /\ pc' = "poll" => Method' = "poll_link"
  /\ pc' \in Steps \ ({"idle", "poll"} \cup InitSteps) => Method' = "other"
  BY DEF Method, Steps, InitSteps, PlcaSteps, StatusSteps

LEMMA StepKinds ==
  ASSUME Typed, InitProgress, [Next]_vars
  PROVE  IsCall \/ IsRefusal \/ IsWork \/ IsCommit \/ IsAnswer \/ IsReturn \/ IsRestart
  <1> USE DEF cache
  <1>1. CASE CallInit \/ CallPoll \/ CallQuery \/ CallDisable \/ CallStatus
             \/ \E c \in Configs : CallConfigure(c)
    BY <1>1 DEF CallInit, CallPoll, CallQuery, CallDisable, CallStatus, CallConfigure, Call,
       IsCall, Steps, InitSteps, PlcaSteps, StatusSteps
  <1>2. CASE \E c \in Configs : RejectConfig(c)
    BY <1>2 DEF RejectConfig, IsRefusal
  <1>3. CASE SoftReset \/ AwaitReset \/ Handshake \/ HandshakeLost \/ Identify \/ ReadMde
    <2>1. pc \in InitSteps /\ pc' \in InitSteps \cup {"idle"} /\ UNCHANGED <<chip, link>>
      BY <1>3 DEF SoftReset, AwaitReset, Handshake, HandshakeLost, Identify, ReadMde, PollFor,
         Goto, Return, InitSteps
    <2>2. CASE pc' = "idle"
      <3>1. res' # "none"
        BY <1>3, <2>1, <2>2 DEF SoftReset, AwaitReset, Handshake, HandshakeLost, Identify, ReadMde,
           PollFor, Goto, Return, InitSteps
      <3>2. QED BY <2>1, <2>2, <3>1 DEF IsReturn, Steps, InitSteps
    <2>3. CASE pc' \in InitSteps
      BY <2>1, <2>3, MethodOf, MethodAfter DEF IsWork, InitSteps
    <2>4. QED BY <2>1, <2>2, <2>3
  <1>4. CASE WriteMde
    <2>1. part.pkg # None
      BY <1>4, ConstantsAssumption DEF WriteMde, InitProgress, InitSteps
    <2>2. pc = "mde_wr" /\ pc' = "idle" /\ UNCHANGED link
          /\ ((chip' = part.pkg /\ res' = "ok") \/ (UNCHANGED chip /\ res' # "none"))
      BY <1>4 DEF WriteMde, Return
    <2>3. pc \in Steps \ {"idle"}
      BY <2>2 DEF Steps, InitSteps
    <2>4. QED
      BY <2>1, <2>2, <2>3 DEF IsCommit, IsReturn
  <1>5. CASE PollLink
    BY <1>5 DEF PollLink, Report, Return, IsAnswer, IsReturn, Steps
  <1>6. CASE Query \/ WriteEn \/ WriteDis \/ ReadFails
    BY <1>6 DEF Query, WriteEn, WriteDis, ReadFails, Return, IsReturn, Steps, InitSteps,
       PlcaSteps, StatusSteps
  <1>7. CASE WriteCtrl1 \/ WriteBurst \/ ReadEn \/ ReadDis
    <2>1. pc \in PlcaSteps /\ pc' \in PlcaSteps \cup {"idle"} /\ UNCHANGED <<chip, link>>
      BY <1>7 DEF WriteCtrl1, WriteBurst, ReadEn, ReadDis, PlcaStep, Goto, Return, PlcaSteps
    <2>2. CASE pc' = "idle"
      <3>1. res' # "none"
        BY <1>7, <2>1, <2>2
           DEF WriteCtrl1, WriteBurst, ReadEn, ReadDis, PlcaStep, Goto, Return, PlcaSteps
      <3>2. QED BY <2>1, <2>2, <3>1 DEF IsReturn, Steps, PlcaSteps
    <2>3. CASE pc' \in PlcaSteps
      BY <2>1, <2>3, MethodOf, MethodAfter DEF IsWork, Steps, InitSteps, PlcaSteps
    <2>4. QED BY <2>1, <2>2, <2>3
  <1>8. CASE ReadStatus
    <2>1. pc \in StatusSteps /\ pc' \in StatusSteps \cup {"idle"} /\ UNCHANGED <<chip, link>>
      BY <1>8 DEF ReadStatus, StatusSteps
    <2>2. CASE pc' = "idle"
      <3>1. res' # "none"
        BY <1>8, <2>2 DEF ReadStatus
      <3>2. QED BY <2>1, <2>2, <3>1 DEF IsReturn, Steps, StatusSteps
    <2>3. CASE pc' \in StatusSteps
      BY <2>1, <2>3, MethodOf, MethodAfter DEF IsWork, Steps, InitSteps, StatusSteps
    <2>4. QED BY <2>1, <2>2, <2>3
  <1>9. CASE Restart
    BY <1>9 DEF Restart, IsRestart
  <1>10. CASE ChipProgress \/ BeaconsChange \/ UNCHANGED vars
    BY <1>10 DEF ChipProgress, BeaconsChange, vars, IsWork, Method
  <1>11. QED
    BY <1>1, <1>2, <1>3, <1>4, <1>5, <1>6, <1>7, <1>8, <1>9, <1>10
       DEF Next, CallSome, DriverStep

LEMMA UsableIsBoolean == Usable \in BOOLEAN /\ Usable' \in BOOLEAN
  BY ZenonT(20) DEF Usable

LEMMA StepImplementsTrait ==
  ASSUME Typed, IInv, CommittedImpliesReady', [Next]_vars
  PROVE  [Trait!Next]_Trait!vars
  <1> USE DEF Trait!Next, InitSteps, Restarted
  <1>1. Trait!SiliconMoves
    BY UsableIsBoolean DEF CommittedImpliesReady, Usable, Trait!SiliconMoves
  <1>2. CASE IsCall
    <2>1. Method' \in {"init", "poll_link", "other"} /\ Method = "none"
      BY <1>2, MethodOf, MethodAfter DEF IsCall
    <2>2. pc' \in InitSteps <=> Method' = "init"
      BY <1>2, MethodAfter DEF IsCall
    <2>3. Trait!Invoke(Method')
      BY <1>2, <2>1, <2>2 DEF IsCall, Usable, silicon, Trait!Invoke
    <2>4. QED BY <2>1, <2>3
  <1>3. CASE IsRefusal
    BY <1>3, MethodOf, MethodAfter DEF IsRefusal, Usable, silicon, Trait!Refuse
  <1>4. CASE IsWork
    BY <1>1, <1>4 DEF IsWork, Trait!Work
  <1>5. CASE IsCommit
    BY <1>1, <1>5, MethodOf, MethodAfter DEF IsCommit, Trait!InitSucceeds, Trait!Return
  <1>6. CASE IsAnswer
    BY <1>1, <1>6, MethodOf, MethodAfter DEF IsAnswer, Trait!PollAnswers, Trait!Return
  <1>7. CASE IsReturn
    <2>1. Method # "none"
      BY <1>7, MethodOf DEF IsReturn
    <2>2. QED
      BY <1>1, <1>7, <2>1, MethodAfter DEF IsReturn, Trait!ReturnsOtherwise, Trait!Return
  <1>8. CASE IsRestart
    BY <1>1, <1>8, MethodAfter DEF IsRestart, Trait!Lose
  <1>9. QED
    BY <1>2, <1>3, <1>4, <1>5, <1>6, <1>7, <1>8, StepKinds DEF IInv

\* Every behaviour of the driver is one the trait allows: chip.is_some() is a
\* readiness only init grants, and it lasts through every other call.
THEOREM TraitImplemented == Spec => ImplementsPhyDriver
  <1>1. Init => Trait!Init
    BY UsableIsBoolean, MethodOf DEF Init, Restarted, Trait!Init
  <1>2. Typed /\ IInv /\ IInv' /\ [Next]_vars => [Trait!Next]_Trait!vars
    BY StepImplementsTrait DEF IInv
  <1>3. TypeOK => Typed
    BY DEF TypeOK
  <1>4. QED
    BY <1>1, <1>2, <1>3, Invariance, PTL DEF Spec, ImplementsPhyDriver, Trait!Spec

\* EveryStepCounts: a ranking function for every method, for any number of polls.
\* It needs of the invariant that a poll always has a read left to make.
THEOREM MethodsAreBounded == Spec => EveryStepCounts
  <1>1. ASSUME TypeOK, IInv, DriverStep
        PROVE  StepsLeft' \in 0..(StepsLeft - 1)
    <2>1. /\ ResetPolls \in Nat /\ ResetPolls > 0 /\ n \in 0..ResetPolls
          /\ pc \in {"await_reset", "handshake"} => n > 0
      BY <1>1, ConstantsAssumption DEF TypeOK, Typed, IInv, InitProgress
    <2> USE <2>1 DEF StepsLeft, StepsFrom, Goto, Return
    <2>2. CASE SoftReset
      BY <2>2 DEF SoftReset
    <2>3. CASE AwaitReset
      BY <2>3 DEF AwaitReset, PollFor
    <2>4. CASE Handshake \/ HandshakeLost
      BY <2>4 DEF Handshake, HandshakeLost, PollFor
    <2>5. CASE Identify \/ ReadMde \/ WriteMde \/ PollLink \/ Query
      BY <2>5 DEF Identify, ReadMde, WriteMde, PollLink, Report, Query
    <2>6. CASE WriteCtrl1 \/ WriteBurst \/ ReadEn \/ WriteEn \/ ReadDis \/ WriteDis
      BY <2>6 DEF WriteCtrl1, WriteBurst, ReadEn, WriteEn, ReadDis, WriteDis, PlcaStep
    <2>7. CASE ReadStatus
      BY <2>7 DEF ReadStatus
    <2>8. CASE ReadFails
      BY <2>8 DEF ReadFails, InitSteps, StatusSteps
    <2>9. QED
      BY <1>1, <2>2, <2>3, <2>4, <2>5, <2>6, <2>7, <2>8 DEF DriverStep
  <1>2. TypeOK /\ IInv /\ [Next]_vars => [DriverStep => StepsLeft' \in 0..(StepsLeft - 1)]_vars
    BY <1>1
  <1>3. QED
    BY <1>2, Invariance, PTL DEF Spec, EveryStepCounts

=============================================================================
