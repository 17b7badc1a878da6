---------------------- MODULE Lan867xRegisters_proofs ----------------------
(***************************************************************************)
(* Proofs about the register layer, at full width: the words stay typed,   *)
(* no bit outside a mask changes, and the words implement Lan867x.  Words  *)
(* enter through the lemmas of the first section only; from there on a     *)
(* register is a name and a bit is a boolean.                              *)
(***************************************************************************)
EXTENDS Lan867xRegisters, TLAPS

(***************************************************************************)
(* Words: the register addresses, the bits of the masks, the packing.      *)
(***************************************************************************)

LEMMA Addresses ==
  /\ {T1SPMACTL, STS2, PLCA_CTRL0, PLCA_CTRL1, PLCA_STS, PLCA_BURST} = Registers
  /\ T1SPMACTL \notin {STS2, PLCA_CTRL0, PLCA_CTRL1, PLCA_STS, PLCA_BURST}
  /\ STS2 \notin {PLCA_CTRL0, PLCA_CTRL1, PLCA_STS, PLCA_BURST}
  /\ PLCA_CTRL0 \notin {PLCA_CTRL1, PLCA_STS, PLCA_BURST}
  /\ PLCA_CTRL1 \notin {PLCA_STS, PLCA_BURST}
  /\ PLCA_STS # PLCA_BURST
  BY DEF Registers, T1SPMACTL, STS2, PLCA_CTRL0, PLCA_CTRL1, PLCA_STS, PLCA_BURST,
         MMD_PMA_PMD, MMD_VS2

Masks == {T1SPMACTL_MDE, STS2_RESETC, PLCA_CTRL0_EN, PLCA_STS_PST}

LEMMA OneBit ==
  ASSUME NEW w \in U16, NEW m \in Masks
  PROVE  /\ Without(w, m) \in U16 /\ ~Has(Without(w, m), m)
         /\ With(w, m) \in U16 /\ Has(With(w, m), m)
         /\ Without(With(w, m), m) = Without(w, m)
         /\ Without(Without(w, m), m) = Without(w, m)
         /\ Modified(w, 0, m) = With(w, m)
         /\ Modified(w, m, 0) = Without(w, m)
  <1> USE DEF Masks, T1SPMACTL_MDE, STS2_RESETC, PLCA_CTRL0_EN, PLCA_STS_PST
  <1>1. Without(w, m) \in U16 /\ ~Has(Without(w, m), m)
    BY DEF U16, Has, Without
  <1>2. With(w, m) \in U16 /\ Has(With(w, m), m) /\ Without(With(w, m), m) = Without(w, m)
    BY DEF U16, Has, Without, With
  <1>3. Without(Without(w, m), m) = Without(w, m)
    BY <1>1 DEF Without
  <1>4. Without(w, 0) = w /\ With(Without(w, m), 0) = Without(w, m)
    BY <1>1 DEF Without, With, Has, U16
  <1>5. QED
    BY <1>1, <1>2, <1>3, <1>4 DEF Modified

LEMMA NoBits == \A m \in Masks : ~Has(0, m)
  BY DEF Masks, Has, T1SPMACTL_MDE, STS2_RESETC, PLCA_CTRL0_EN, PLCA_STS_PST

LEMMA Packing ==
  ASSUME NEW upper \in U8, NEW lower \in U8
  PROVE  /\ Packed(upper, lower) \in U16
         /\ Packed(upper, lower) % 256 = lower
         /\ Packed(upper, lower) \div 256 = upper
  BY DEF Packed, U8, U16

LEMMA Unpacking ==
  ASSUME NEW w \in U16
  PROVE  w % 256 \in U8 /\ w \div 256 \in U8
  BY DEF U8, U16

(***************************************************************************)
(* Types.                                                                  *)
(***************************************************************************)

\* Every access leaves 16-bit words in the chip's registers.
LEMMA ConfigWords ==
  ASSUME NEW c \in Configs
  PROVE  /\ c.node_id \in U8 /\ c.node_count \in U8
         /\ Ctrl1Word(c) \in U16 /\ BurstWord(c) \in U16
         /\ Ctrl1Record(Ctrl1Word(c)) = Driver!Ctrl1Of(c)
         /\ BurstRecord(BurstWord(c)) = Driver!BurstOf(c)
  <1>1. /\ c.node_id \in U8 /\ c.node_count \in U8 /\ c.burst_count \in U8
        /\ (IF c.burst_timer = 0 THEN \h80 ELSE c.burst_timer) \in U8
    BY RegistersAssumption DEF U8
  <1>2. QED
    BY <1>1, Packing
       DEF Ctrl1Word, BurstWord, Ctrl1Record, BurstRecord, Driver!Ctrl1Of, Driver!BurstOf

\* What a write does to the register file.
LEMMA WriteLands ==
  ASSUME TypeOK, pc \in MmdWrites, Lands
  PROVE  /\ phase' = phase /\ file' \in [Registers -> U16]
         /\ Written[1] \in {T1SPMACTL, PLCA_CTRL0, PLCA_CTRL1, PLCA_BURST}
         /\ Written[2] \in U16
         /\ file'[Written[1]] = Written[2]
         /\ \A r \in Registers \ {Written[1], PLCA_STS} : file'[r] = file[r]
         /\ file'[PLCA_STS] = IF Has(file'[PLCA_CTRL0], PLCA_CTRL0_EN) THEN file[PLCA_STS] ELSE 0
  <1> DEFINE R == Written[1]
             W == Written[2]
             new == [file EXCEPT ![R] = W]
             sts == IF Has(new[PLCA_CTRL0], PLCA_CTRL0_EN) THEN new[PLCA_STS] ELSE 0
  <1>0. file \in [Registers -> U16] /\ cur \in U16 /\ cfg \in Configs
    BY DEF TypeOK
  <1>1. R \in {T1SPMACTL, PLCA_CTRL0, PLCA_CTRL1, PLCA_BURST} /\ W \in U16
    BY <1>0, OneBit, ConfigWords DEF Written, MmdWrites, Masks
  <1>2. phase' = phase /\ file' = [new EXCEPT ![PLCA_STS] = sts]
    BY DEF Lands, MmdWrites
  <1> HIDE DEF R, W
  <1>3. R \in Registers /\ R # PLCA_STS /\ PLCA_CTRL0 \in Registers /\ PLCA_STS \in Registers
        /\ PLCA_CTRL0 # PLCA_STS
    BY <1>1, Addresses
  <1>4. new \in [Registers -> U16] /\ new[R] = W /\ \A r \in Registers \ {R} : new[r] = file[r]
    BY <1>0, <1>1, <1>3
  <1>5. 0 \in U16
    BY DEF U16
  <1>6. sts \in U16
    BY <1>3, <1>4, <1>5
  <1> HIDE DEF new, sts
  <1>7. /\ file' \in [Registers -> U16] /\ file'[PLCA_STS] = sts
        /\ \A r \in Registers \ {PLCA_STS} : file'[r] = new[r]
    BY <1>2, <1>3, <1>4, <1>6
  <1>8. file'[PLCA_CTRL0] = new[PLCA_CTRL0] /\ new[PLCA_STS] = file[PLCA_STS]
    BY <1>3, <1>4, <1>7
  <1>9. file'[PLCA_STS] = IF Has(file'[PLCA_CTRL0], PLCA_CTRL0_EN) THEN file[PLCA_STS] ELSE 0
    BY <1>7, <1>8 DEF sts
  <1>10. QED
    BY <1>1, <1>2, <1>3, <1>4, <1>7, <1>9 DEF R, W

LEMMA HandshakeLands ==
  ASSUME TypeOK, pc = "handshake", Lands
  PROVE  /\ phase' = phase /\ file' \in [Registers -> U16]
         /\ ~Has(file'[STS2], STS2_RESETC)
         /\ \A r \in Registers \ {STS2} : file'[r] = file[r]
  <1>1. file \in [Registers -> U16] /\ STS2 \in Registers
    BY Addresses DEF TypeOK
  <1>2. phase' = phase /\ file' = [file EXCEPT ![STS2] = Without(file[STS2], STS2_RESETC)]
    BY DEF Lands, MmdWrites
  <1>3. /\ Without(file[STS2], STS2_RESETC) \in U16
        /\ ~Has(Without(file[STS2], STS2_RESETC), STS2_RESETC)
    BY <1>1, OneBit DEF Masks
  <1>4. QED
    BY <1>1, <1>2, <1>3

LEMMA BootLands ==
  ASSUME TypeOK, BootCompletes
  PROVE  /\ file' \in [Registers -> U16] /\ Has(file'[STS2], STS2_RESETC)
         /\ \A r \in Registers \ {STS2} : file'[r] = file[r]
  <1>1. file \in [Registers -> U16] /\ STS2 \in Registers
    BY Addresses DEF TypeOK
  <1>2. With(file[STS2], STS2_RESETC) \in U16 /\ Has(With(file[STS2], STS2_RESETC), STS2_RESETC)
    BY <1>1, OneBit DEF Masks
  <1>3. QED
    BY <1>1, <1>2 DEF BootCompletes

LEMMA BeaconsLand ==
  ASSUME TypeOK, BeaconsChange
  PROVE  /\ file' \in [Registers -> U16]
         /\ Has(file'[PLCA_STS], PLCA_STS_PST) <=> ~Has(file[PLCA_STS], PLCA_STS_PST)
         /\ \A r \in Registers \ {PLCA_STS} : file'[r] = file[r]
  <1> DEFINE w == file[PLCA_STS]
  <1>1. file \in [Registers -> U16] /\ PLCA_STS \in Registers
    BY Addresses DEF TypeOK
  <1>2. /\ With(w, PLCA_STS_PST) \in U16 /\ Has(With(w, PLCA_STS_PST), PLCA_STS_PST)
        /\ Without(w, PLCA_STS_PST) \in U16 /\ ~Has(Without(w, PLCA_STS_PST), PLCA_STS_PST)
    BY <1>1, OneBit DEF Masks
  <1>3. QED
    BY <1>1, <1>2 DEF BeaconsChange

LEMMA OtherLands ==
  ASSUME pc \notin MmdWrites \cup {"reset", "handshake"}, Lands
  PROVE  UNCHANGED <<phase, file>>
  BY DEF Lands

(***************************************************************************)
(* The state stays typed.                                                  *)
(***************************************************************************)

LEMMA AnswersDiffer ==
  /\ Silent # LinkUp /\ Silent # LinkDown /\ LinkUp # LinkDown
  /\ \A sts : Link(sts) \in {LinkUp, LinkDown}
  /\ \A bmsr : Able(bmsr) \notin {LinkUp, LinkDown}
  /\ \A p : PhyId(p) \notin {LinkUp, LinkDown}
  BY DEF Silent, LinkUp, LinkDown, Link, Able, PhyId

LEMMA ZeroIsWord == 0 \in U16 /\ 0 \in U8
  BY DEF U16, U8

LEMMA PackageType == ASSUME NEW s \in U16 PROVE Package(s) \in Chips \cup {None}
  BY DEF Package, Chips, Chip

LEMMA InitType == Init => TypeOK
  BY RegistersAssumption, ZeroIsWord DEF Init, TypeOK, Answers, NoWords, Steps

LEMMA ChipTyped ==
  ASSUME TypeOK, Lands \/ Lost \/ SwResetClears \/ BootCompletes \/ BeaconsChange
  PROVE  phase' \in {"resetting", "booting", "up"} /\ file' \in [Registers -> U16]
  <1>1. CASE Lands /\ pc \in MmdWrites
    BY <1>1, WriteLands DEF TypeOK
  <1>2. CASE Lands /\ pc = "handshake"
    BY <1>2, HandshakeLands DEF TypeOK
  <1>3. CASE Lands /\ pc = "reset"
    BY <1>3, RegistersAssumption DEF Lands, MmdWrites
  <1>4. CASE Lands /\ pc \notin MmdWrites \cup {"reset", "handshake"}
    BY <1>4, OtherLands DEF TypeOK
  <1>5. CASE Lost \/ SwResetClears
    BY <1>5 DEF Lost, SwResetClears, TypeOK
  <1>6. CASE BootCompletes
    BY <1>6, BootLands DEF BootCompletes
  <1>7. CASE BeaconsChange
    BY <1>7, BeaconsLand DEF BeaconsChange, TypeOK
  <1>8. QED
    BY <1>1, <1>2, <1>3, <1>4, <1>5, <1>6, <1>7

LEMMA SucceedsTyped ==
  ASSUME TypeOK, Succeeds
  PROVE  TypeOK'
  <1>0. phase' \in {"resetting", "booting", "up"} /\ file' \in [Registers -> U16]
    BY ChipTyped DEF Succeeds
  <1>1. cfg' \in Configs /\ part' \in Parts /\ part' = part
    BY DEF Succeeds, TypeOK
  <1>2. \A r \in Registers : file[r] \in U16
    BY DEF TypeOK
  <1>3. part.strap \in U16 /\ cfg.node_id \in U8
    BY RegistersAssumption DEF TypeOK
  <1>4. CASE InitContinues
    <2>1. chip' \in Chips \cup {None} /\ plca_id' \in U8 \cup {None} /\ words' = words
      BY <1>3, <1>4, PackageType DEF InitContinues, TypeOK
    <2>2. cur' \in U16
      BY <1>2, <1>4, Addresses, ZeroIsWord
         DEF InitContinues, ReadOf, PollFor, Check
    <2>3. n' \in 0..ResetPolls /\ pc' \in Steps /\ answer' = answer
      BY <1>4, RegistersAssumption
         DEF InitContinues, ReadOf, PollFor, Check, Goto, Return, TypeOK, Steps, InitSteps
    <2>4. QED
      BY <1>0, <1>1, <2>1, <2>2, <2>3 DEF TypeOK
  <1>5. CASE PlcaContinues
    <2>1. chip' = chip /\ plca_id' \in U8 \cup {None} /\ words' = words
      BY <1>3, <1>5 DEF PlcaContinues, TypeOK
    <2>2. cur' \in U16
      BY <1>2, <1>5, Addresses, ZeroIsWord DEF PlcaContinues, ReadOf, TypeOK
    <2>3. n' = n /\ pc' \in Steps /\ answer' = answer
      BY <1>5 DEF PlcaContinues, ReadOf, Goto, Return, Steps, FailStage
    <2>4. QED
      BY <1>0, <1>1, <2>1, <2>2, <2>3 DEF TypeOK
  <1>6. CASE QueryContinues
    <2>1. UNCHANGED <<chip, plca_id, n, cur>> /\ pc' \in Steps
      BY <1>6 DEF QueryContinues, Goto, Return, Steps
    <2>2. answer' \in Answers(part)
      BY <1>6, AnswersDiffer DEF QueryContinues, Goto, Return, TypeOK, Polls, Answers
    <2>3. words' \in [ctrl0 : U16, ctrl1 : U16, sts : U16]
      BY <1>2, <1>6, Addresses DEF QueryContinues, TypeOK
    <2>4. QED
      BY <1>0, <1>1, <2>1, <2>2, <2>3 DEF TypeOK
  <1>7. QED
    BY <1>4, <1>5, <1>6 DEF Succeeds

LEMMA NextType == TypeOK /\ [Next]_vars => TypeOK'
  <1> SUFFICES ASSUME TypeOK, [Next]_vars
               PROVE  TypeOK'
    OBVIOUS
  <1>1. CASE \E s \in {"reset", "poll", "query", "dis_rd", "st_ctrl0"} : Call(s) /\ UNCHANGED cfg
    BY <1>1, ZeroIsWord DEF Call, TypeOK, Answers, Steps, InitSteps, FailStage, NoWords
  <1>2. ASSUME NEW c \in Configs, Configure(c)
        PROVE  TypeOK'
    BY <1>2, ZeroIsWord DEF Configure, Call, Return, TypeOK, Answers, Steps, FailStage, NoWords
  <1>3. CASE Succeeds
    BY <1>3, SucceedsTyped
  <1>4. CASE Fails
    <2>1. phase' \in {"resetting", "booting", "up"} /\ file' \in [Registers -> U16]
      BY <1>4, ChipTyped DEF Fails
    <2>2. QED
      BY <1>4, <2>1, ZeroIsWord, RegistersAssumption DEF Fails, Return, TypeOK, Steps
  <1>5. CASE New
    BY <1>5, ZeroIsWord, RegistersAssumption DEF New, TypeOK, Answers, Steps, NoWords
  <1>6. CASE ChipMoves
    <2>1. phase' \in {"resetting", "booting", "up"} /\ file' \in [Registers -> U16]
      BY <1>6, ChipTyped DEF ChipMoves
    <2>2. QED
      BY <1>6, <2>1 DEF ChipMoves, TypeOK
  <1>7. CASE UNCHANGED vars
    BY <1>7 DEF vars, TypeOK
  <1>8. QED
    BY <1>1, <1>2, <1>3, <1>4, <1>5, <1>6, <1>7 DEF Next, CallSome

\* Every word the driver reads, writes and keeps fits in its 16 bits, every id
\* it caches in 8, and the poll counter in its bound, at the full width of the
\* registers.
THEOREM TypeCorrect == Spec => []TypeOK
  BY InitType, NextType, PTL DEF Spec

(***************************************************************************)
(* The inductive invariant.                                                *)
(***************************************************************************)

LEMMA InitInvariant == Init => IInv
  <1> SUFFICES ASSUME Init
               PROVE  IInv
    OBVIOUS
  <1>1. ~Has(file[STS2], STS2_RESETC) /\ ~Has(file[PLCA_STS], PLCA_STS_PST)
    BY RegistersAssumption, NoBits DEF Init, Masks
  <1>2. QED
    BY <1>1
       DEF Init, IInv, PollsCounted, ResetcAfterBoot, StableNeedsEnable, ReadStillCurrent,
           SilentInFlight

LEMMA PollsStayCounted == TypeOK /\ PollsCounted /\ [Next]_vars => PollsCounted'
  <1> SUFFICES ASSUME TypeOK, PollsCounted, [Next]_vars
               PROVE  PollsCounted'
    OBVIOUS
  <1> USE RegistersAssumption DEF PollsCounted
  <1>1. CASE CallSome
    BY <1>1 DEF CallSome, Call, Configure, Return
  <1>2. CASE Succeeds
    <2>1. CASE InitContinues
      BY <2>1 DEF InitContinues, PollFor, Check, ReadOf, Goto, Return, TypeOK
    <2>2. CASE PlcaContinues \/ QueryContinues
      BY <2>2 DEF PlcaContinues, QueryContinues, ReadOf, Goto, Return
    <2>3. QED
      BY <1>2, <2>1, <2>2 DEF Succeeds
  <1>3. CASE Fails \/ New
    BY <1>3 DEF Fails, New, Return
  <1>4. CASE ChipMoves \/ UNCHANGED vars
    BY <1>4 DEF ChipMoves, vars
  <1>5. QED
    BY <1>1, <1>2, <1>3, <1>4 DEF Next

\* What the chip keeps of its own words, through its own moves and every access.
ChipSide == ResetcAfterBoot /\ StableNeedsEnable

LEMMA ChipStaysConsistent ==
  ASSUME TypeOK, ChipSide, [Next]_vars
  PROVE  ChipSide'
  <1> USE DEF ChipSide, ResetcAfterBoot, StableNeedsEnable
  <1>0. {T1SPMACTL, STS2, PLCA_CTRL0, PLCA_CTRL1, PLCA_STS, PLCA_BURST} = Registers
    BY Addresses
  <1>1. CASE Lands /\ pc \in MmdWrites
    <2>1. file'[STS2] = file[STS2]
      BY <1>1, WriteLands, Addresses
    <2>2. QED
      BY <1>1, <2>1, WriteLands, NoBits DEF Masks
  <1>2. CASE Lands /\ pc = "handshake"
    BY <1>2, HandshakeLands, Addresses
  <1>3. CASE Lands /\ pc = "reset"
    BY <1>3, RegistersAssumption, NoBits DEF Lands, MmdWrites, Masks
  <1>4. CASE Lands /\ pc \notin MmdWrites \cup {"reset", "handshake"}
    BY <1>4, OtherLands
  <1>5. CASE SwResetClears
    BY <1>5 DEF SwResetClears
  <1>6. CASE BootCompletes
    BY <1>6, BootLands, Addresses DEF BootCompletes
  <1>7. CASE BeaconsChange
    BY <1>7, BeaconsLand, Addresses DEF BeaconsChange
  <1>8. CASE UNCHANGED <<phase, file>>
    BY <1>8
  <1>9. Lands \/ SwResetClears \/ BootCompletes \/ BeaconsChange \/ UNCHANGED <<phase, file>>
    BY DEF Next, CallSome, Call, Configure, Succeeds, Fails, New, ChipMoves, Lost, vars
  <1>10. QED
    BY <1>1, <1>2, <1>3, <1>4, <1>5, <1>6, <1>7, <1>8, <1>9

LEMMA ReadStaysCurrent ==
  ASSUME TypeOK, ReadStillCurrent, [Next]_vars
  PROVE  ReadStillCurrent'
  <1> USE DEF ReadStillCurrent
  <1>1. CASE CallSome \/ Fails \/ New
    BY <1>1 DEF CallSome, Call, Configure, Fails, New, Return
  <1>2. CASE Succeeds
    <2>1. CASE pc \in {"mde_rd", "en_rd", "dis_rd"}
      <3>1. UNCHANGED file
        BY <1>2, <2>1, OtherLands DEF Succeeds, Lost, MmdWrites
      <3>2. QED
        BY <1>2, <2>1, <3>1
           DEF Succeeds, InitContinues, PlcaContinues, QueryContinues, ReadOf, Goto
    <2>2. CASE pc \notin {"mde_rd", "en_rd", "dis_rd"}
      BY <1>2, <2>2
         DEF Succeeds, InitContinues, PlcaContinues, QueryContinues, PollFor, Check, Goto,
             Return
    <2>3. QED
      BY <2>1, <2>2
  <1>3. CASE ChipMoves
    <2>1. file'[T1SPMACTL] = file[T1SPMACTL] /\ file'[PLCA_CTRL0] = file[PLCA_CTRL0]
      BY <1>3, BootLands, BeaconsLand, Addresses DEF ChipMoves, SwResetClears
    <2>2. QED
      BY <1>3, <2>1 DEF ChipMoves
  <1>4. CASE UNCHANGED vars
    BY <1>4 DEF vars
  <1>5. QED
    BY <1>1, <1>2, <1>3, <1>4 DEF Next

LEMMA FlightStaysSilent ==
  ASSUME SilentInFlight, [Next]_vars
  PROVE  SilentInFlight'
  <1> USE DEF SilentInFlight
  <1>1. CASE CallSome
    BY <1>1 DEF CallSome, Call, Configure, Return
  <1>2. CASE Succeeds
    <2>1. CASE InitContinues
      BY <2>1 DEF InitContinues, PollFor, Check, ReadOf, Goto, Return
    <2>2. CASE PlcaContinues
      BY <2>2 DEF PlcaContinues, ReadOf, Goto, Return
    <2>3. CASE QueryContinues
      BY <2>3 DEF QueryContinues, Goto, Return
    <2>4. QED
      BY <1>2, <2>1, <2>2, <2>3 DEF Succeeds
  <1>3. CASE Fails \/ New
    BY <1>3 DEF Fails, New, Return
  <1>4. CASE ChipMoves \/ UNCHANGED vars
    BY <1>4 DEF ChipMoves, vars
  <1>5. QED
    BY <1>1, <1>2, <1>3, <1>4 DEF Next

LEMMA NextInvariant == TypeOK /\ IInv /\ [Next]_vars => IInv'
  BY PollsStayCounted, ChipStaysConsistent, ReadStaysCurrent, FlightStaysSilent
     DEF IInv, ChipSide

THEOREM Invariant == Spec => [](TypeOK /\ IInv)
  <1>1. Init => TypeOK /\ IInv
    BY InitType, InitInvariant
  <1>2. TypeOK /\ IInv /\ [Next]_vars => (TypeOK /\ IInv)'
    BY NextType, NextInvariant
  <1>3. QED
    BY <1>1, <1>2, PTL DEF Spec

\* One access leaves alone the bits outside the mask of its register.
LEMMA StepKeepsOtherBits ==
  ASSUME TypeOK, IInv, [Next]_vars, phase' # "resetting"
  PROVE  /\ Without(file[T1SPMACTL], T1SPMACTL_MDE) = Without(file'[T1SPMACTL], T1SPMACTL_MDE)
         /\ Without(file[PLCA_CTRL0], PLCA_CTRL0_EN) = Without(file'[PLCA_CTRL0], PLCA_CTRL0_EN)
  <1>0. file[T1SPMACTL] \in U16 /\ file[PLCA_CTRL0] \in U16
    BY Addresses DEF TypeOK
  <1>1. CASE Lands /\ pc \in MmdWrites
    <2>1. CASE pc = "mde_wr"
      <3>1. Written = <<T1SPMACTL, With(file[T1SPMACTL], T1SPMACTL_MDE)>>
        BY <1>0, <2>1, OneBit DEF Written, IInv, ReadStillCurrent, Masks
      <3>2. file'[T1SPMACTL] = With(file[T1SPMACTL], T1SPMACTL_MDE)
            /\ file'[PLCA_CTRL0] = file[PLCA_CTRL0]
        BY <1>1, <3>1, WriteLands, Addresses
      <3>3. QED
        BY <1>0, <3>2, OneBit DEF Masks
    <2>2. CASE pc \in {"en_wr", "dis_wr"}
      <3>1. \/ Written = <<PLCA_CTRL0, With(file[PLCA_CTRL0], PLCA_CTRL0_EN)>>
            \/ Written = <<PLCA_CTRL0, Without(file[PLCA_CTRL0], PLCA_CTRL0_EN)>>
        BY <1>0, <2>2, OneBit DEF Written, IInv, ReadStillCurrent, Masks
      <3>2. /\ file'[T1SPMACTL] = file[T1SPMACTL]
            /\ \/ file'[PLCA_CTRL0] = With(file[PLCA_CTRL0], PLCA_CTRL0_EN)
               \/ file'[PLCA_CTRL0] = Without(file[PLCA_CTRL0], PLCA_CTRL0_EN)
        BY <1>1, <3>1, WriteLands, Addresses
      <3>3. QED
        BY <1>0, <3>2, OneBit DEF Masks
    <2>3. CASE pc \in {"ctrl1", "burst"}
      <3>1. Written[1] \in {PLCA_CTRL1, PLCA_BURST}
        BY <2>3 DEF Written
      <3>2. QED
        BY <1>1, <3>1, WriteLands, Addresses
    <2>4. QED
      BY <1>1, <2>1, <2>2, <2>3 DEF MmdWrites
  <1>2. CASE Lands /\ pc = "handshake"
    BY <1>2, HandshakeLands, Addresses
  <1>3. CASE Lands /\ pc \notin MmdWrites \cup {"handshake"}
    BY <1>3, OtherLands DEF Lands
  <1>4. CASE BootCompletes \/ BeaconsChange
    BY <1>4, BootLands, BeaconsLand, Addresses
  <1>5. CASE UNCHANGED file
    BY <1>5
  <1>6. Lands \/ BootCompletes \/ BeaconsChange \/ UNCHANGED file
    BY DEF Next, CallSome, Call, Configure, Succeeds, Fails, New, ChipMoves, SwResetClears,
           Lost, vars
  <1>7. QED
    BY <1>1, <1>2, <1>3, <1>4, <1>5, <1>6

\* OtherBitsKept, whatever the words hold and however the calls and faults mix.
THEOREM DriverKeepsOtherBits == Spec => OtherBitsKept
  <1>1. TypeOK /\ IInv /\ [Next]_vars =>
          [phase' = "resetting" \/
           \A r \in {<<T1SPMACTL, T1SPMACTL_MDE>>, <<PLCA_CTRL0, PLCA_CTRL0_EN>>} :
             Without(file[r[1]], r[2]) = Without(file'[r[1]], r[2])]_vars
    BY StepKeepsOtherBits
  <1>2. QED
    BY <1>1, Invariant, PTL DEF Spec, OtherBitsKept

(***************************************************************************)
(* The refinement of Lan867x: the constants, the initial states.           *)
(***************************************************************************)

\* The records of Lan867x stand for constants its own assumption allows.
THEOREM DriverConstants == Driver!ConstantsAssumption
  <1>1. 255 \in Nat /\ Driver!U8 = U8
    BY DEF Driver!U8, U8, PLCA_ID_DISABLED
  <1>2. Ctrl1Record(ResetWords[PLCA_CTRL1]) \in Driver!Ctrl1Values
    BY <1>1, RegistersAssumption, Addresses, Unpacking DEF Ctrl1Record, Driver!Ctrl1Values
  <1>3. \A p \in Parts : Identity(p) \in [family : BOOLEAN, pkg : Chips \cup {None}, midver : BOOLEAN]
    BY RegistersAssumption, PackageType DEF Identity, Family
  <1>4. \h80 \in U8 /\ \h80 # 0
    BY DEF U8
  <1>5. QED
    BY <1>1, <1>2, <1>3, <1>4, RegistersAssumption
       DEF Driver!ConstantsAssumption, Driver!PlcaConfig, PLCA_ID_DISABLED

LEMMA NoSnapWords == PlcaStatus(NoWords) = Driver!NoSnap
  <1>1. Has(0, PLCA_CTRL0_EN) = FALSE /\ Has(0, PLCA_STS_PST) = FALSE
    BY NoBits DEF Masks, Has
  <1>2. 0 % 256 = 0
    OBVIOUS
  <1>3. QED
    BY <1>1, <1>2 DEF NoWords, PlcaStatus, Driver!NoSnap

LEMMA DriverInit == Init => Driver!Init
  <1> SUFFICES ASSUME Init
               PROVE  Driver!Init
    OBVIOUS
  <1>1. DriverStepAt = "idle" /\ DriverLink = "none" /\ DriverPhase = "booting"
    BY AnswersDiffer DEF Init, DriverStepAt, DriverLink, DriverPhase
  <1>2. PlcaStatus(words) = Driver!NoSnap
    BY NoSnapWords DEF Init
  <1>3. Mde = FALSE /\ En = FALSE /\ Pst = FALSE
    BY RegistersAssumption, NoBits DEF Init, Mde, En, Pst, Masks, Has
  <1>4. Burst = [maxbc |-> 0, btmr |-> \h80]
    BY RegistersAssumption DEF Init, Burst, BurstRecord
  <1>5. Ctrl1 = Ctrl1Record(ResetWords[PLCA_CTRL1])
    BY DEF Init, Ctrl1
  <1>6. cfg \in Configs /\ Driver!Valid(cfg)
    BY DEF Init, Valid, Driver!Valid
  <1>7. QED
    BY <1>1, <1>2, <1>3, <1>4, <1>5, <1>6 DEF Init, Driver!Init

(***************************************************************************)
(* The chip's side of an access, in the terms of Lan867x.                  *)
(***************************************************************************)

\* What Lan867x sees of the chip.
SiliconSeen == <<DriverPhase, Mde, En, Pst, Ctrl1, Burst>>

LEMMA ChipFrame ==
  ASSUME UNCHANGED <<phase, file>>
  PROVE  UNCHANGED SiliconSeen
  BY DEF SiliconSeen, DriverPhase, Mde, En, Pst, Ctrl1, Burst

LEMMA PhaseOfReady ==
  ASSUME TypeOK
  PROVE  DriverPhase = "ready" <=> Ready
  BY DEF DriverPhase, Ready, TypeOK

LEMMA ResetMaps ==
  ASSUME pc = "reset", Lands
  PROVE  /\ DriverPhase' = "resetting" /\ Mde' = FALSE /\ En' = FALSE /\ Pst' = FALSE
         /\ Ctrl1' = Ctrl1Record(ResetWords[PLCA_CTRL1])
         /\ Burst' = [maxbc |-> 0, btmr |-> \h80]
  <1>1. phase' = "resetting" /\ file' = ResetWords
    BY DEF Lands, MmdWrites
  <1>2. Mde' = FALSE /\ En' = FALSE /\ Pst' = FALSE
    BY <1>1, RegistersAssumption, NoBits DEF Mde, En, Pst, Masks, Has
  <1>3. QED
    BY <1>1, <1>2, RegistersAssumption DEF DriverPhase, Ctrl1, Burst, BurstRecord

LEMMA HandshakeMaps ==
  ASSUME TypeOK, IInv, pc = "handshake", Lands
  PROVE  /\ DriverPhase' = IF DriverPhase = "resetc" THEN "ready" ELSE DriverPhase
         /\ UNCHANGED <<Mde, En, Pst, Ctrl1, Burst>>
  <1>1. UNCHANGED <<Mde, En, Pst, Ctrl1, Burst>>
    BY HandshakeLands, Addresses DEF Mde, En, Pst, Ctrl1, Burst
  <1>2. QED
    BY <1>1, HandshakeLands DEF DriverPhase, TypeOK

LEMMA WriteMaps ==
  ASSUME TypeOK, IInv, pc \in MmdWrites, Lands
  PROVE  /\ DriverPhase' = DriverPhase
         /\ Mde' = (Mde \/ pc = "mde_wr")
         /\ En' = ((En \/ pc = "en_wr") /\ pc # "dis_wr")
         /\ Pst' = (Pst /\ pc # "dis_wr")
         /\ Ctrl1' = IF pc = "ctrl1" THEN Driver!Ctrl1Of(cfg) ELSE Ctrl1
         /\ Burst' = IF pc = "burst" THEN Driver!BurstOf(cfg) ELSE Burst
  <1>0. /\ file[T1SPMACTL] \in U16 /\ file[PLCA_CTRL0] \in U16 /\ cfg \in Configs
        /\ \A w, m : Has(w, m) \in BOOLEAN
    BY Addresses DEF TypeOK, Has
  <1>1. DriverPhase' = DriverPhase
    BY WriteLands, Addresses DEF DriverPhase
  <1>2. Mde' = (Mde \/ pc = "mde_wr")
    <2>1. CASE pc = "mde_wr"
      <3>1. Written = <<T1SPMACTL, With(file[T1SPMACTL], T1SPMACTL_MDE)>>
        BY <1>0, <2>1, OneBit DEF Written, IInv, ReadStillCurrent, Masks
      <3>2. QED
        BY <1>0, <2>1, <3>1, WriteLands, OneBit DEF Mde, Masks
    <2>2. CASE pc # "mde_wr"
      <3>1. Written[1] # T1SPMACTL
        BY <2>2, Addresses DEF Written, MmdWrites
      <3>2. QED
        BY <1>0, <2>2, <3>1, WriteLands, Addresses DEF Mde
    <2>3. QED
      BY <2>1, <2>2
  <1>3. En' = ((En \/ pc = "en_wr") /\ pc # "dis_wr")
    <2>1. CASE pc = "en_wr"
      <3>1. Written = <<PLCA_CTRL0, With(file[PLCA_CTRL0], PLCA_CTRL0_EN)>>
        BY <1>0, <2>1, OneBit DEF Written, IInv, ReadStillCurrent, Masks
      <3>2. QED
        BY <1>0, <2>1, <3>1, WriteLands, OneBit DEF En, Masks
    <2>2. CASE pc = "dis_wr"
      <3>1. Written = <<PLCA_CTRL0, Without(file[PLCA_CTRL0], PLCA_CTRL0_EN)>>
        BY <1>0, <2>2, OneBit DEF Written, IInv, ReadStillCurrent, Masks
      <3>2. QED
        BY <1>0, <2>2, <3>1, WriteLands, OneBit DEF En, Masks
    <2>3. CASE pc \notin {"en_wr", "dis_wr"}
      <3>1. Written[1] # PLCA_CTRL0
        BY <2>3, Addresses DEF Written, MmdWrites
      <3>2. QED
        BY <1>0, <2>3, <3>1, WriteLands, Addresses DEF En
    <2>4. QED
      BY <2>1, <2>2, <2>3
  <1>4. Pst' = (Pst /\ pc # "dis_wr")
    <2>1. Pst => En
      BY DEF Pst, En, IInv, StableNeedsEnable
    <2>2. Pst' = (IF En' THEN Pst ELSE FALSE)
      BY <1>0, WriteLands, NoBits DEF Pst, En, Masks
    <2>3. Pst \in BOOLEAN /\ En \in BOOLEAN
      BY <1>0 DEF Pst, En
    <2>4. QED
      BY <1>3, <2>1, <2>2, <2>3
  <1>5. Ctrl1' = IF pc = "ctrl1" THEN Driver!Ctrl1Of(cfg) ELSE Ctrl1
    <2>1. CASE pc = "ctrl1"
      BY <1>0, <2>1, WriteLands, ConfigWords DEF Ctrl1, Written
    <2>2. CASE pc # "ctrl1"
      <3>1. Written[1] # PLCA_CTRL1
        BY <2>2, Addresses DEF Written, MmdWrites
      <3>2. QED
        BY <2>2, <3>1, WriteLands, Addresses DEF Ctrl1
    <2>3. QED
      BY <2>1, <2>2
  <1>6. Burst' = IF pc = "burst" THEN Driver!BurstOf(cfg) ELSE Burst
    <2>1. CASE pc = "burst"
      BY <1>0, <2>1, WriteLands, ConfigWords DEF Burst, Written
    <2>2. CASE pc # "burst"
      <3>1. Written[1] # PLCA_BURST
        BY <2>2, Addresses DEF Written, MmdWrites
      <3>2. QED
        BY <2>2, <3>1, WriteLands, Addresses DEF Burst
    <2>3. QED
      BY <2>1, <2>2
  <1>7. QED
    BY <1>1, <1>2, <1>3, <1>4, <1>5, <1>6

\* A write that returned Ok or Err, as Lan867x has it.
LEMMA WriteOutcome ==
  ASSUME TypeOK, IInv, pc \in MmdWrites, NEW ok \in BOOLEAN,
         IF ok THEN Lands \/ (~Ready /\ Lost) ELSE Lost \/ (LateErr /\ Lands)
  PROVE  \E landed \in BOOLEAN :
           /\ Driver!Outcome(ok, landed)
           /\ DriverPhase' = DriverPhase
           /\ Mde' = (Mde \/ (landed /\ pc = "mde_wr"))
           /\ En' = ((En \/ (landed /\ pc = "en_wr")) /\ ~(landed /\ pc = "dis_wr"))
           /\ Pst' = (Pst /\ ~(landed /\ pc = "dis_wr"))
           /\ Ctrl1' = IF landed /\ pc = "ctrl1" THEN Driver!Ctrl1Of(cfg) ELSE Ctrl1
           /\ Burst' = IF landed /\ pc = "burst" THEN Driver!BurstOf(cfg) ELSE Burst
  <1>1. DriverPhase # "held" /\ (DriverPhase = "ready" <=> Ready)
    BY PhaseOfReady DEF DriverPhase, TypeOK
  <1>2. Mde \in BOOLEAN /\ En \in BOOLEAN /\ Pst \in BOOLEAN
    BY DEF Mde, En, Pst, Has
  <1>3. CASE Lands /\ (ok \/ LateErr)
    <2>1. Driver!Outcome(ok, TRUE)
      BY <1>1, <1>3 DEF Driver!Outcome
    <2>2. QED
      BY <1>2, <1>3, <2>1, WriteMaps
  <1>4. CASE Lost /\ (ok => ~Ready)
    <2>1. Driver!Outcome(ok, FALSE)
      BY <1>1, <1>4 DEF Driver!Outcome
    <2>2. UNCHANGED SiliconSeen
      BY <1>4, ChipFrame DEF Lost
    <2>3. QED
      BY <1>2, <2>1, <2>2 DEF SiliconSeen
  <1>5. QED
    BY <1>3, <1>4

(***************************************************************************)
(* The methods' side, in the terms of Lan867x.                             *)
(***************************************************************************)

LEMMA CallMaps ==
  ASSUME NEW s \in {"reset", "poll", "query", "dis_rd", "st_ctrl0", "ctrl1"}, Call(s)
  PROVE  Driver!Call(s) /\ UNCHANGED Driver!silicon /\ UNCHANGED <<n, lastPlca>>
  <1>1. DriverStepAt = "idle" /\ DriverStepAt' = s
    BY DEF Call, DriverStepAt
  <1>2. res' = "none" /\ DriverLink' = "none" /\ PlcaStatus(words)' = Driver!NoSnap
    BY AnswersDiffer, NoSnapWords DEF Call, DriverLink
  <1>3. UNCHANGED SiliconSeen /\ Identity(part)' = Identity(part)
    BY ChipFrame DEF Call
  <1>4. QED
    BY <1>1, <1>2, <1>3 DEF Call, Driver!Call, Driver!silicon, Driver!plcaRegs, SiliconSeen

LEMMA CallSomeMaps == CallSome => Driver!CallSome
  <1> SUFFICES ASSUME CallSome
               PROVE  Driver!CallSome
    OBVIOUS
  <1> USE DEF Driver!cache
  <1>1. ASSUME Call("reset"), UNCHANGED cfg
        PROVE  Driver!CallInit
    BY <1>1, CallMaps DEF Call, Driver!CallInit
  <1>2. ASSUME Call("poll"), UNCHANGED cfg
        PROVE  Driver!CallPoll
    BY <1>2, CallMaps DEF Call, Driver!CallPoll
  <1>3. ASSUME Call("query"), UNCHANGED cfg
        PROVE  Driver!CallQuery
    BY <1>3, CallMaps DEF Call, Driver!CallQuery
  <1>4. ASSUME Call("dis_rd"), UNCHANGED cfg
        PROVE  Driver!CallDisable
    BY <1>4, CallMaps DEF Call, Driver!CallDisable
  <1>5. ASSUME Call("st_ctrl0"), UNCHANGED cfg
        PROVE  Driver!CallStatus
    BY <1>5, CallMaps DEF Call, Driver!CallStatus
  <1>6. ASSUME NEW c \in Configs, Configure(c)
        PROVE  Driver!CallConfigure(c) \/ Driver!RejectConfig(c)
    <2>1. Driver!Valid(c) <=> Valid(c)
      BY DEF Valid, Driver!Valid
    <2>2. CASE Valid(c)
      BY <1>6, <2>1, <2>2, CallMaps DEF Configure, Call, Driver!CallConfigure
    <2>3. CASE ~Valid(c)
      <3>1. DriverStepAt = "idle" /\ DriverStepAt' = "idle" /\ DriverLink' = "none"
            /\ PlcaStatus(words)' = Driver!NoSnap
        BY <1>6, <2>3, AnswersDiffer, NoSnapWords DEF Configure, Return, DriverStepAt, DriverLink
      <3>2. UNCHANGED SiliconSeen /\ Identity(part)' = Identity(part)
        BY <1>6, <2>3, ChipFrame DEF Configure
      <3>3. QED
        BY <1>6, <2>1, <2>3, <3>1, <3>2
           DEF Configure, Return, Driver!RejectConfig, Driver!silicon, Driver!plcaRegs, SiliconSeen
    <2>4. QED
      BY <2>2, <2>3
  <1>7. QED
    BY <1>1, <1>2, <1>3, <1>4, <1>5, <1>6 DEF CallSome, Driver!CallSome

LEMMA GotoMaps ==
  ASSUME NEW s, s \notin {"id0", "id1"}, Goto(s), words' = words
  PROVE  Driver!Goto(s)
  <1>1. DriverStepAt' = s
    BY DEF Goto, DriverStepAt
  <1>2. DriverLink' = DriverLink /\ PlcaStatus(words)' = PlcaStatus(words) /\ res' = res
    BY DEF Goto, DriverLink
  <1>3. QED
    BY <1>1, <1>2 DEF Driver!Goto

LEMMA ReturnMaps ==
  ASSUME NEW r, Return(r, answer), words' = words
  PROVE  Driver!Return(r)
  <1>1. DriverStepAt' = "idle"
    BY DEF Return, DriverStepAt
  <1>2. DriverLink' = DriverLink /\ PlcaStatus(words)' = PlcaStatus(words) /\ res' = r
    BY DEF Return, DriverLink
  <1>3. QED
    BY <1>1, <1>2 DEF Driver!Return

\* What the driver and the part of silicon that no access changes keep.
LEMMA SiliconKept ==
  ASSUME UNCHANGED SiliconSeen, part' = part
  PROVE  UNCHANGED Driver!silicon
  BY DEF SiliconSeen, Driver!silicon, Driver!plcaRegs

LEMMA FailsMaps ==
  ASSUME TypeOK, IInv, Fails
  PROVE  Driver!DriverStep
  <1>1. /\ Driver!Return("Mdio") /\ n' = 0
        /\ UNCHANGED <<chip, plca_id, cfg, Identity(part)>> /\ part' = part
        /\ pc \in Steps /\ pc # "idle"
    BY ReturnMaps DEF Fails, TypeOK
  <1>2. pc \notin DOMAIN FailStage => lastPlca' = lastPlca
    BY DEF Fails
  <1>3. Lost \/ (LateErr /\ Lands)
    BY DEF Fails
  <1> USE DEF Driver!cache
  <1>4. CASE pc = "reset"
    <2>1. n' = n /\ DriverStepAt = "reset" /\ DriverPhase # "held" /\ lastPlca' = lastPlca
      BY <1>1, <1>2, <1>4
         DEF IInv, PollsCounted, DriverStepAt, DriverPhase, TypeOK, FailStage
    <2>2. PICK landed \in BOOLEAN :
            /\ landed => LateErr
            /\ IF landed THEN DriverPhase' = "resetting" /\ Driver!Defaults
                         ELSE UNCHANGED <<DriverPhase, Mde, Driver!plcaRegs>>
      <3>1. CASE Lost
        BY <3>1, ChipFrame DEF Lost, SiliconSeen, Driver!plcaRegs
      <3>2. CASE LateErr /\ Lands
        BY <1>4, <3>2, ResetMaps DEF Driver!Defaults
      <3>3. QED
        BY <1>3, <3>1, <3>2
    <2>3. Driver!SoftReset
      BY <1>1, <2>1, <2>2 DEF Driver!SoftReset
    <2>4. QED
      BY <2>3 DEF Driver!DriverStep
  <1>5. CASE pc = "handshake" /\ Lands /\ DriverPhase = "resetc"
    <2>1. DriverStepAt = "handshake" /\ LateErr
      BY <1>3, <1>5, ChipFrame, HandshakeMaps DEF DriverStepAt, Lost, SiliconSeen
    <2>2. QED
      BY <1>1, <1>2, <1>5, <2>1, HandshakeMaps
         DEF FailStage, Driver!HandshakeLost, Driver!plcaRegs, Driver!DriverStep
  <1>6. CASE \/ pc \in {"await_reset", "id0", "id1", "strap", "midver", "mde_rd",
                        "st_ctrl0", "st_ctrl1", "st_sts"}
             \/ pc = "handshake" /\ (Lost \/ DriverPhase # "resetc")
    <2>1. DriverStepAt \in (Driver!InitSteps \ {"reset", "mde_wr"}) \cup Driver!StatusSteps
      BY <1>6 DEF DriverStepAt, Driver!InitSteps, Driver!StatusSteps
    <2>2. UNCHANGED SiliconSeen
      <3>1. CASE Lost
        BY <3>1, ChipFrame DEF Lost
      <3>2. CASE Lands /\ pc = "handshake" /\ DriverPhase # "resetc"
        BY <3>2, HandshakeMaps DEF SiliconSeen
      <3>3. CASE Lands /\ pc # "handshake"
        BY <1>6, <3>3, OtherLands, ChipFrame DEF MmdWrites
      <3>4. QED
        BY <1>3, <1>6, <3>1, <3>2, <3>3
    <2>3. Driver!ReadFails
      BY <1>1, <1>2, <1>6, <2>1, <2>2, SiliconKept DEF FailStage, Driver!ReadFails
    <2>4. QED
      BY <2>3 DEF Driver!DriverStep
  <1>7. CASE pc \in MmdWrites
    <2>1. n' = n /\ DriverStepAt = pc
      BY <1>1, <1>7 DEF IInv, PollsCounted, DriverStepAt, MmdWrites
    <2>2. PICK landed \in BOOLEAN :
            /\ Driver!Outcome(FALSE, landed)
            /\ DriverPhase' = DriverPhase
            /\ Mde' = (Mde \/ (landed /\ pc = "mde_wr"))
            /\ En' = ((En \/ (landed /\ pc = "en_wr")) /\ ~(landed /\ pc = "dis_wr"))
            /\ Pst' = (Pst /\ ~(landed /\ pc = "dis_wr"))
            /\ Ctrl1' = IF landed /\ pc = "ctrl1" THEN Driver!Ctrl1Of(cfg) ELSE Ctrl1
            /\ Burst' = IF landed /\ pc = "burst" THEN Driver!BurstOf(cfg) ELSE Burst
      BY <1>3, <1>7, WriteOutcome
    <2>3. Mde \in BOOLEAN /\ En \in BOOLEAN /\ Pst \in BOOLEAN
      BY DEF Mde, En, Pst, Has
    <2>4. CASE pc = "mde_wr"
      BY <1>1, <1>2, <2>1, <2>2, <2>3, <2>4
         DEF FailStage, Driver!WriteMde, Driver!plcaRegs, Driver!DriverStep
    <2>5. CASE pc = "ctrl1"
      BY <1>1, <2>1, <2>2, <2>3, <2>5
         DEF Fails, FailStage, Driver!WriteCtrl1, Driver!PlcaStep, Driver!DriverStep
    <2>6. CASE pc = "burst"
      BY <1>1, <2>1, <2>2, <2>3, <2>6
         DEF Fails, FailStage, Driver!WriteBurst, Driver!PlcaStep, Driver!DriverStep
    <2>7. CASE pc = "en_wr"
      BY <1>1, <2>1, <2>2, <2>3, <2>7
         DEF Fails, FailStage, Driver!WriteEn, Driver!DriverStep
    <2>8. CASE pc = "dis_wr"
      BY <1>1, <2>1, <2>2, <2>3, <2>8
         DEF Fails, FailStage, Driver!WriteDis, Driver!DriverStep
    <2>9. QED
      BY <1>7, <2>4, <2>5, <2>6, <2>7, <2>8 DEF MmdWrites
  <1>8. CASE pc \in {"en_rd", "dis_rd", "poll", "query"}
    <2>1. n' = n /\ DriverStepAt = pc
      BY <1>1, <1>8 DEF IInv, PollsCounted, DriverStepAt
    <2>2. UNCHANGED Driver!silicon
      <3>1. UNCHANGED <<phase, file>>
        BY <1>3, <1>8, OtherLands DEF Lost, MmdWrites
      <3>2. QED
        BY <1>1, <3>1, ChipFrame, SiliconKept
    <2>3. CASE pc = "en_rd"
      BY <1>1, <2>1, <2>2, <2>3 DEF Fails, FailStage, Driver!ReadEn, Driver!PlcaStep, Driver!DriverStep
    <2>4. CASE pc = "dis_rd"
      BY <1>1, <2>1, <2>2, <2>4 DEF Fails, FailStage, Driver!ReadDis, Driver!PlcaStep, Driver!DriverStep
    <2>5. CASE pc = "poll"
      BY <1>1, <1>2, <2>1, <2>2, <2>5
         DEF Fails, Polls, FailStage, Driver!PollLink, Driver!DriverStep
    <2>6. CASE pc = "query"
      BY <1>1, <1>2, <2>1, <2>2, <2>6 DEF FailStage, Driver!Query, Driver!DriverStep
    <2>7. QED
      BY <1>8, <2>3, <2>4, <2>5, <2>6
  <1>9. QED
    BY <1>1, <1>3, <1>4, <1>5, <1>6, <1>7, <1>8 DEF Steps, InitSteps, FailStage, MmdWrites

LEMMA QuietAccess ==
  ASSUME Succeeds, pc \notin MmdWrites \cup {"reset", "handshake"}
  PROVE  UNCHANGED SiliconSeen /\ UNCHANGED Driver!silicon
  <1>1. UNCHANGED <<phase, file>> /\ part' = part
    BY OtherLands DEF Succeeds
  <1>2. QED
    BY <1>1, ChipFrame, SiliconKept

\* An MMD write that returned Ok.
LEMMA WriteSucceeds ==
  ASSUME TypeOK, IInv, Succeeds, pc \in MmdWrites
  PROVE  \E landed \in BOOLEAN :
           /\ Driver!Outcome(TRUE, landed)
           /\ DriverPhase' = DriverPhase
           /\ Mde' = (Mde \/ (landed /\ pc = "mde_wr"))
           /\ En' = ((En \/ (landed /\ pc = "en_wr")) /\ ~(landed /\ pc = "dis_wr"))
           /\ Pst' = (Pst /\ ~(landed /\ pc = "dis_wr"))
           /\ Ctrl1' = IF landed /\ pc = "ctrl1" THEN Driver!Ctrl1Of(cfg) ELSE Ctrl1
           /\ Burst' = IF landed /\ pc = "burst" THEN Driver!BurstOf(cfg) ELSE Burst
  BY WriteOutcome DEF Succeeds

LEMMA PollMaps ==
  ASSUME NEW found \in BOOLEAN, NEW next \in {"handshake", "id0"}, PollFor(found, next),
         words' = words, ~found => DriverPhase' = DriverPhase
  PROVE  \/ found /\ Goto(next) /\ n' = (IF next = "handshake" THEN ResetPolls ELSE 0)
         \/ Driver!PollFor(FALSE, FALSE) /\ ~found
  <1>1. CASE ~found /\ n > 1 /\ n' = n - 1 /\ UNCHANGED <<pc, res, answer>>
    <2>1. UNCHANGED <<DriverStepAt, res, DriverLink, PlcaStatus(words), DriverPhase>>
      BY <1>1 DEF DriverStepAt, DriverLink
    <2>2. QED
      BY <1>1, <2>1 DEF Driver!PollFor
  <1>2. CASE ~found /\ n = 1 /\ n' = 0 /\ Return("ResetTimeout", answer)
    BY <1>2, ReturnMaps DEF Driver!PollFor
  <1>3. QED
    BY <1>1, <1>2 DEF PollFor

LEMMA InitContinuesMaps ==
  ASSUME TypeOK, IInv, Succeeds, InitContinues
  PROVE  Driver!DriverStep \/ UNCHANGED Driver!vars
  <1>1. /\ UNCHANGED <<cfg, plca_id, words>> /\ Identity(part)' = Identity(part)
        /\ pc # "mde_wr" => UNCHANGED <<chip, lastPlca>>
    BY DEF Succeeds, InitContinues
  <1>2. DriverPhase # "held"
    BY DEF DriverPhase, TypeOK
  <1> USE DEF Driver!cache
  <1>3. CASE pc = "reset"
    <2>1. DriverStepAt = "reset" /\ Driver!Goto("await_reset") /\ n' = ResetPolls
      BY <1>1, <1>3, GotoMaps DEF InitContinues, DriverStepAt
    <2>2. DriverPhase' = "resetting" /\ Driver!Defaults
      BY <1>3, ResetMaps DEF Succeeds, MmdWrites, Driver!Defaults
    <2>3. Driver!SoftReset
      BY <1>1, <1>2, <1>3, <2>1, <2>2 DEF Driver!SoftReset
    <2>4. QED
      BY <2>3 DEF Driver!DriverStep
  <1>4. CASE pc = "await_reset"
    <2> DEFINE found == DriverPhase \notin {"resetting", "held"}
    <2>1. found <=> ~Has(Bmcr, BMCR_SW_RESET)
      BY DEF Bmcr, BMCR_SW_RESET, Has, DriverPhase, TypeOK
    <2>2. UNCHANGED SiliconSeen /\ UNCHANGED Driver!silicon
      BY <1>4, QuietAccess DEF MmdWrites
    <2>3. \/ found /\ Goto("handshake") /\ n' = ResetPolls
          \/ Driver!PollFor(FALSE, FALSE) /\ ~found
      <3>1. PollFor(~Has(Bmcr, BMCR_SW_RESET), "handshake")
        BY <1>4 DEF InitContinues
      <3>2. (~Has(Bmcr, BMCR_SW_RESET)) \in BOOLEAN
        BY DEF Has
      <3>3. QED
        BY <1>1, <2>1, <2>2, <3>1, <3>2, PollMaps DEF SiliconSeen
    <2>4. DriverStepAt = "await_reset"
      BY <1>4 DEF DriverStepAt
    <2>5. Driver!PollFor(found, Driver!Goto("handshake") /\ n' = ResetPolls /\ DriverPhase' = DriverPhase)
      <3>1. CASE found /\ Goto("handshake") /\ n' = ResetPolls
        BY <1>1, <2>2, <3>1, GotoMaps DEF Driver!PollFor, SiliconSeen
      <3>2. CASE Driver!PollFor(FALSE, FALSE) /\ ~found
        BY <3>2 DEF Driver!PollFor
      <3>3. QED
        BY <2>3, <3>1, <3>2
    <2>6. Driver!AwaitReset
      BY <1>1, <1>4, <2>2, <2>4, <2>5 DEF Driver!AwaitReset, SiliconSeen, Driver!plcaRegs
    <2>7. QED
      BY <2>6 DEF Driver!DriverStep
  <1>5. CASE pc = "handshake"
    <2> DEFINE found == DriverPhase = "resetc"
    <2>1. found <=> Has(file[STS2], STS2_RESETC)
      BY DEF DriverPhase, TypeOK, IInv, ResetcAfterBoot
    <2>2. /\ DriverPhase' = IF found THEN "ready" ELSE DriverPhase
          /\ UNCHANGED <<Mde, En, Pst, Ctrl1, Burst>>
      BY <1>5, HandshakeMaps DEF Succeeds, MmdWrites
    <2>3. \/ found /\ Goto("id0") /\ n' = 0
          \/ Driver!PollFor(FALSE, FALSE) /\ ~found
      <3>1. PollFor(Has(file[STS2], STS2_RESETC), "id0")
        BY <1>5 DEF InitContinues
      <3>2. Has(file[STS2], STS2_RESETC) \in BOOLEAN
        BY DEF Has
      <3>3. QED
        BY <1>1, <2>1, <2>2, <3>1, <3>2, PollMaps
    <2>4. DriverStepAt = "handshake"
      BY <1>5 DEF DriverStepAt
    <2>5. Driver!PollFor(found, Driver!Goto("id") /\ n' = 0 /\ DriverPhase' = "ready")
      <3>1. CASE found /\ Goto("id0") /\ n' = 0
        <4>1. DriverStepAt' = "id" /\ DriverLink' = DriverLink /\ PlcaStatus(words)' = PlcaStatus(words)
          BY <1>1, <3>1 DEF Goto, DriverStepAt, DriverLink
        <4>2. QED
          BY <2>2, <3>1, <4>1 DEF Goto, Driver!Goto, Driver!PollFor
      <3>2. CASE Driver!PollFor(FALSE, FALSE) /\ ~found
        BY <3>2 DEF Driver!PollFor
      <3>3. QED
        BY <2>3, <3>1, <3>2
    <2>6. Driver!Handshake
      BY <1>1, <1>5, <2>2, <2>4, <2>5 DEF Driver!Handshake, Driver!plcaRegs
    <2>7. QED
      BY <2>6 DEF Driver!DriverStep
  <1>6. CASE pc = "id0"
    <2>1. UNCHANGED <<DriverStepAt, DriverLink, res, n, chip, lastPlca>>
      BY <1>1, <1>6 DEF InitContinues, Goto, DriverStepAt, DriverLink
    <2>2. UNCHANGED Driver!silicon
      BY <1>6, QuietAccess DEF MmdWrites
    <2>3. QED
      BY <1>1, <2>1, <2>2 DEF Driver!vars
  <1>7. CASE pc \in {"id1", "strap", "midver", "mde_rd"}
    <2>1. UNCHANGED Driver!silicon /\ UNCHANGED <<chip, lastPlca, n>>
      BY <1>1, <1>7, QuietAccess DEF MmdWrites, InitContinues, Check, ReadOf
    <2>2. DriverStepAt = IF pc = "id1" THEN "id" ELSE pc
      BY <1>7 DEF DriverStepAt
    <2>3. /\ Identity(part).family = Family(part) /\ Identity(part).pkg = Package(part.strap)
          /\ Identity(part).midver = (part.midver = MIDVER_EXPECTED)
      BY DEF Identity
    <2>4. Package(part.strap) \in Chips \cup {None} /\ None \notin Chips
      BY RegistersAssumption, PackageType DEF TypeOK
    <2>5. CASE pc = "id1"
      BY <1>1, <2>1, <2>2, <2>3, <2>5, GotoMaps, ReturnMaps
         DEF InitContinues, Check, Driver!Identify, Driver!DriverStep
    <2>6. CASE pc = "strap"
      BY <1>1, <2>1, <2>2, <2>3, <2>4, <2>6, GotoMaps, ReturnMaps
         DEF InitContinues, Check, Driver!Identify, Driver!DriverStep
    <2>7. CASE pc = "midver"
      BY <1>1, <2>1, <2>2, <2>3, <2>7, GotoMaps, ReturnMaps
         DEF InitContinues, Check, Driver!Identify, Driver!DriverStep
    <2>8. CASE pc = "mde_rd"
      BY <1>1, <2>1, <2>2, <2>8, GotoMaps
         DEF InitContinues, ReadOf, Driver!ReadMde, Driver!DriverStep
    <2>9. QED
      BY <1>7, <2>5, <2>6, <2>7, <2>8
  <1>8. CASE pc = "mde_wr"
    <2>1. /\ Driver!Return("ok") /\ n' = n /\ DriverStepAt = "mde_wr"
          /\ chip' = Identity(part).pkg /\ lastPlca' = "ok"
      BY <1>1, <1>8, ReturnMaps DEF InitContinues, DriverStepAt, Identity
    <2>2. PICK landed \in BOOLEAN :
            /\ Driver!Outcome(TRUE, landed) /\ DriverPhase' = DriverPhase
            /\ Mde' = (Mde \/ landed) /\ UNCHANGED <<En, Pst, Ctrl1, Burst>>
      <3>1. Mde \in BOOLEAN /\ En \in BOOLEAN /\ Pst \in BOOLEAN
        BY DEF Mde, En, Pst, Has
      <3>2. QED
        BY <1>8, <3>1, WriteSucceeds DEF MmdWrites
    <2>3. Driver!WriteMde
      BY <1>1, <2>1, <2>2 DEF Driver!WriteMde, Driver!plcaRegs
    <2>4. QED
      BY <2>3 DEF Driver!DriverStep
  <1>9. QED
    BY <1>3, <1>4, <1>5, <1>6, <1>7, <1>8 DEF InitContinues

LEMMA PlcaContinuesMaps ==
  ASSUME TypeOK, IInv, Succeeds, PlcaContinues
  PROVE  Driver!DriverStep
  <1>1. /\ UNCHANGED <<cfg, chip, words, n>> /\ Identity(part)' = Identity(part)
        /\ pc \notin {"en_wr", "dis_wr"} => UNCHANGED <<plca_id, lastPlca>>
        /\ DriverStepAt = pc
    BY DEF Succeeds, PlcaContinues, ReadOf, DriverStepAt
  <1> USE DEF Driver!cache
  <1>2. CASE pc \in {"en_rd", "dis_rd"}
    <2>1. UNCHANGED Driver!silicon
      BY <1>2, QuietAccess DEF MmdWrites
    <2>2. IF pc = "en_rd" THEN Driver!Goto("en_wr") ELSE Driver!Goto("dis_wr")
      BY <1>1, <1>2, GotoMaps DEF PlcaContinues, ReadOf
    <2>3. Driver!ReadEn \/ Driver!ReadDis
      BY <1>1, <1>2, <2>1, <2>2 DEF Driver!ReadEn, Driver!ReadDis, Driver!PlcaStep
    <2>4. QED
      BY <2>3 DEF Driver!DriverStep
  <1>3. CASE pc \in {"ctrl1", "burst", "en_wr", "dis_wr"}
    <2>1. PICK landed \in BOOLEAN :
            /\ Driver!Outcome(TRUE, landed)
            /\ DriverPhase' = DriverPhase
            /\ Mde' = (Mde \/ (landed /\ pc = "mde_wr"))
            /\ En' = ((En \/ (landed /\ pc = "en_wr")) /\ ~(landed /\ pc = "dis_wr"))
            /\ Pst' = (Pst /\ ~(landed /\ pc = "dis_wr"))
            /\ Ctrl1' = IF landed /\ pc = "ctrl1" THEN Driver!Ctrl1Of(cfg) ELSE Ctrl1
            /\ Burst' = IF landed /\ pc = "burst" THEN Driver!BurstOf(cfg) ELSE Burst
      BY <1>3, WriteSucceeds DEF MmdWrites
    <2>2. Mde \in BOOLEAN /\ En \in BOOLEAN /\ Pst \in BOOLEAN
      BY DEF Mde, En, Pst, Has
    <2>3. CASE pc = "ctrl1"
      <3>1. Driver!Goto("burst")
        BY <1>1, <2>3, GotoMaps DEF PlcaContinues
      <3>2. QED
        BY <1>1, <2>1, <2>2, <2>3, <3>1 DEF Driver!WriteCtrl1, Driver!PlcaStep, Driver!DriverStep
    <2>4. CASE pc = "burst"
      <3>1. Driver!Goto("en_rd")
        BY <1>1, <2>4, GotoMaps DEF PlcaContinues
      <3>2. QED
        BY <1>1, <2>1, <2>2, <2>4, <3>1 DEF Driver!WriteBurst, Driver!PlcaStep, Driver!DriverStep
    <2>5. ASSUME pc \in {"en_wr", "dis_wr"}
          PROVE  /\ Driver!Return("ok") /\ lastPlca' = "ok"
                 /\ plca_id' = IF pc = "en_wr" THEN cfg.node_id ELSE None
      BY <1>1, <2>5, ReturnMaps DEF PlcaContinues
    <2>6. CASE pc = "en_wr"
      BY <1>1, <2>1, <2>2, <2>5, <2>6 DEF Driver!WriteEn, Driver!DriverStep
    <2>7. CASE pc = "dis_wr"
      BY <1>1, <2>1, <2>2, <2>5, <2>7 DEF Driver!WriteDis, Driver!DriverStep
    <2>8. QED
      BY <1>3, <2>3, <2>4, <2>6, <2>7
  <1>4. QED
    BY <1>2, <1>3 DEF PlcaContinues

LEMMA QueryContinuesMaps ==
  ASSUME TypeOK, IInv, Succeeds, QueryContinues
  PROVE  Driver!DriverStep
  <1>1. /\ UNCHANGED <<cfg, chip, plca_id, n, lastPlca>> /\ DriverStepAt = pc
    BY DEF Succeeds, QueryContinues, DriverStepAt
  <1>2. UNCHANGED Driver!silicon
    BY QuietAccess DEF QueryContinues, MmdWrites
  <1>3. /\ En \in BOOLEAN /\ Pst \in BOOLEAN /\ DriverPhase # "held"
        /\ Driver!EnBit = En /\ Driver!PstBit = Pst /\ Driver!IdBits = Ctrl1.id
    BY DEF DriverPhase, TypeOK, Driver!EnBit, Driver!PstBit, Driver!IdBits, En, Pst, Has
  <1> USE DEF Driver!cache
  <1>4. CASE pc = "poll"
    <2>1. /\ DriverStepAt' = "idle" /\ res' = "ok" /\ PlcaStatus(words)' = PlcaStatus(words)
          /\ DriverLink' = CASE chip = None -> "down"
                             [] chip # None /\ plca_id = None -> "up"
                             [] chip # None /\ plca_id # None -> IF Pst THEN "up" ELSE "down"
      BY <1>4, AnswersDiffer DEF QueryContinues, Return, DriverStepAt, DriverLink, Polls, Link, Pst
    <2>2. Driver!PollLink
      BY <1>1, <1>2, <1>3, <1>4, <2>1 DEF Driver!PollLink, Driver!Report
    <2>3. QED
      BY <2>2 DEF Driver!DriverStep
  <1>5. CASE pc = "query"
    <2>1. DriverLink = "none" /\ DriverLink' = "none"
      BY <1>5, AnswersDiffer DEF IInv, SilentInFlight, QueryContinues, Return, DriverLink
    <2>2. Driver!Return("ok")
      BY <1>5, <2>1 DEF QueryContinues, Return, DriverStepAt, Driver!Return
    <2>3. QED
      BY <1>1, <1>2, <1>5, <2>2 DEF QueryContinues, Driver!Query, Driver!DriverStep
  <1>6. CASE pc = "st_ctrl0"
    <2>1. /\ DriverStepAt' = "st_ctrl1" /\ res' = res /\ DriverLink' = DriverLink
          /\ words' = [words EXCEPT !.ctrl0 = file[PLCA_CTRL0]]
      BY <1>6 DEF QueryContinues, Goto, DriverStepAt, DriverLink
    <2>2. PlcaStatus(words)' = [PlcaStatus(words) EXCEPT !.enabled = En]
      BY <2>1 DEF PlcaStatus, En, TypeOK
    <2>3. QED
      BY <1>1, <1>2, <1>3, <1>6, <2>1, <2>2 DEF Driver!ReadStatus, Driver!DriverStep
  <1>7. CASE pc = "st_ctrl1"
    <2>1. /\ DriverStepAt' = "st_sts" /\ res' = res /\ DriverLink' = DriverLink
          /\ words' = [words EXCEPT !.ctrl1 = file[PLCA_CTRL1]]
      BY <1>7 DEF QueryContinues, Goto, DriverStepAt, DriverLink
    <2>2. PlcaStatus(words)' = [PlcaStatus(words) EXCEPT !.node_id = Ctrl1.id]
      BY <2>1 DEF PlcaStatus, Ctrl1, Ctrl1Record, TypeOK
    <2>3. QED
      BY <1>1, <1>2, <1>3, <1>7, <2>1, <2>2 DEF Driver!ReadStatus, Driver!DriverStep
  <1>8. CASE pc = "st_sts"
    <2>1. /\ DriverStepAt' = "idle" /\ res' = "ok" /\ DriverLink' = DriverLink
          /\ words' = [words EXCEPT !.sts = file[PLCA_STS]]
      BY <1>8 DEF QueryContinues, Return, DriverStepAt, DriverLink
    <2>2. PlcaStatus(words)' = [PlcaStatus(words) EXCEPT !.stable = Pst]
      BY <2>1 DEF PlcaStatus, Pst, TypeOK
    <2>3. QED
      BY <1>1, <1>2, <1>3, <1>8, <2>1, <2>2 DEF Driver!ReadStatus, Driver!DriverStep
  <1>9. QED
    BY <1>4, <1>5, <1>6, <1>7, <1>8 DEF QueryContinues

LEMMA ChipMovesMaps ==
  ASSUME TypeOK, IInv, ChipMoves
  PROVE  Driver!ChipProgress \/ Driver!BeaconsChange
  <1>1. UNCHANGED <<chip, plca_id, DriverStepAt, n, cfg, PlcaStatus(words), res, DriverLink,
                    lastPlca, Identity(part)>>
    BY DEF ChipMoves, DriverStepAt, DriverLink
  <1> USE DEF Driver!cache, Driver!plcaRegs
  <1>2. CASE SwResetClears
    <2>1. DriverPhase = "resetting" /\ DriverPhase' = "booting"
          /\ UNCHANGED <<Mde, En, Pst, Ctrl1, Burst>>
      BY <1>2 DEF SwResetClears, DriverPhase, Mde, En, Pst, Ctrl1, Burst
    <2>2. QED
      BY <1>1, <2>1 DEF Driver!ChipProgress, Driver!SwResetClears
  <1>3. CASE BootCompletes
    <2>1. DriverPhase = "booting" /\ DriverPhase' = "resetc"
          /\ UNCHANGED <<Mde, En, Pst, Ctrl1, Burst>>
      BY <1>3, BootLands, Addresses DEF BootCompletes, DriverPhase, Mde, En, Pst, Ctrl1, Burst
    <2>2. QED
      BY <1>1, <2>1 DEF Driver!ChipProgress, Driver!BootCompletes
  <1>4. CASE BeaconsChange
    <2>1. Pst' = ~Pst /\ UNCHANGED <<DriverPhase, Mde, En, Ctrl1, Burst>>
      BY <1>4, BeaconsLand, Addresses
         DEF BeaconsChange, DriverPhase, Mde, En, Pst, Ctrl1, Burst, Has
    <2>2. Pst' => En /\ Ctrl1.id # PLCA_ID_DISABLED
      BY <1>4, <2>1 DEF BeaconsChange, Pst, En, Ctrl1, Ctrl1Record
    <2>3. QED
      BY <1>1, <2>1, <2>2 DEF Driver!BeaconsChange, Driver!Running
  <1>5. QED
    BY <1>2, <1>3, <1>4 DEF ChipMoves

LEMMA NewMaps == New => Driver!Restart
  <1> SUFFICES ASSUME New
               PROVE  Driver!Restart
    OBVIOUS
  <1>1. DriverStepAt' = "idle" /\ DriverLink' = "none" /\ PlcaStatus(words)' = Driver!NoSnap
    BY AnswersDiffer, NoSnapWords DEF New, DriverStepAt, DriverLink
  <1>2. UNCHANGED Driver!silicon
    BY ChipFrame, SiliconKept DEF New
  <1>3. QED
    BY <1>1, <1>2 DEF New, Driver!Restart

\* Every step on words is a step of Lan867x or leaves its state alone.
LEMMA StepMaps == TypeOK /\ IInv /\ [Next]_vars => [Driver!Next]_Driver!vars
  <1> SUFFICES ASSUME TypeOK, IInv, [Next]_vars
               PROVE  Driver!Next \/ UNCHANGED Driver!vars
    OBVIOUS
  <1> USE DEF Driver!Next
  <1>1. CASE CallSome
    BY <1>1, CallSomeMaps
  <1>2. CASE Succeeds
    BY <1>2, InitContinuesMaps, PlcaContinuesMaps, QueryContinuesMaps DEF Succeeds
  <1>3. CASE Fails
    BY <1>3, FailsMaps
  <1>4. CASE New
    BY <1>4, NewMaps
  <1>5. CASE ChipMoves
    BY <1>5, ChipMovesMaps
  <1>6. CASE UNCHANGED vars
    <2>1. UNCHANGED <<DriverStepAt, DriverLink, PlcaStatus(words)>> /\ UNCHANGED Driver!silicon
      BY <1>6, ChipFrame, SiliconKept DEF vars, DriverStepAt, DriverLink
    <2>2. QED
      BY <1>6, <2>1 DEF vars, Driver!vars, Driver!cache
  <1>7. QED
    BY <1>1, <1>2, <1>3, <1>4, <1>5, <1>6 DEF Next

\* ImplementsDriver: on full-width words, with the code's addresses, masks and
\* shifts, the driver is the one that Lan867x describes with records, for every
\* set of parts, configurations and words after a reset.
THEOREM RefinesDriver == Spec => ImplementsDriver
  <1>1. Spec => Driver!Init /\ [][Driver!Next]_Driver!vars
    BY DriverInit, StepMaps, Invariant, PTL DEF Spec
  <1>2. QED
    BY <1>1 DEF ImplementsDriver, Driver!Spec

(***************************************************************************)
(* What is proved of Lan867x holds of the words.                           *)
(***************************************************************************)

DriverProofs == INSTANCE Lan867x_proofs WITH
  U8Max <- PLCA_ID_DISABLED, ChipBtmr <- \h80,
  ResetCtrl1 <- Ctrl1Record(ResetWords[PLCA_CTRL1]), Parts <- {Identity(p) : p \in Parts},
  pc <- DriverStepAt, snap <- PlcaStatus(words), link <- DriverLink,
  part <- Identity(part), phase <- DriverPhase, mde <- Mde, en <- En, pst <- Pst,
  ctrl1 <- Ctrl1, burst <- Burst

\* Lan867x and the module of its proofs are the same specification.
LEMMA SameInit == Driver!Init => DriverProofs!Init
  BY DEF Driver!Init, DriverProofs!Init, Driver!Valid, DriverProofs!Valid,
         Driver!NoSnap, DriverProofs!NoSnap

LEMMA SameFrames ==
  /\ Driver!cache = DriverProofs!cache /\ Driver!plcaRegs = DriverProofs!plcaRegs
  /\ Driver!silicon = DriverProofs!silicon /\ Driver!vars = DriverProofs!vars
  BY DEF Driver!cache, DriverProofs!cache, Driver!plcaRegs, DriverProofs!plcaRegs,
         Driver!silicon, DriverProofs!silicon, Driver!vars, DriverProofs!vars

LEMMA SameNext == [Driver!Next]_Driver!vars => [DriverProofs!Next]_DriverProofs!vars
  <1> USE DEF Driver!Call, DriverProofs!Call, Driver!Goto, DriverProofs!Goto,
       Driver!Return, DriverProofs!Return, Driver!PollFor, DriverProofs!PollFor,
       Driver!NoSnap, DriverProofs!NoSnap, Driver!Outcome, DriverProofs!Outcome,
       Driver!PlcaStep, DriverProofs!PlcaStep, Driver!cache, DriverProofs!cache,
       Driver!plcaRegs, DriverProofs!plcaRegs, Driver!silicon, DriverProofs!silicon
  <1>1. Driver!CallSome => DriverProofs!CallSome
    BY DEF Driver!CallSome, DriverProofs!CallSome, Driver!CallInit, DriverProofs!CallInit,
           Driver!CallPoll, DriverProofs!CallPoll, Driver!CallQuery, DriverProofs!CallQuery,
           Driver!CallDisable, DriverProofs!CallDisable, Driver!CallStatus,
           DriverProofs!CallStatus, Driver!CallConfigure, DriverProofs!CallConfigure,
           Driver!RejectConfig, DriverProofs!RejectConfig, Driver!Valid, DriverProofs!Valid
  <1>2. Driver!SoftReset \/ Driver!AwaitReset \/ Driver!Handshake \/ Driver!HandshakeLost
        \/ Driver!Identify \/ Driver!ReadMde \/ Driver!WriteMde \/ Driver!ReadFails
        => DriverProofs!DriverStep
    BY DEF DriverProofs!DriverStep, Driver!SoftReset, DriverProofs!SoftReset,
           Driver!Defaults, DriverProofs!Defaults, Driver!AwaitReset, DriverProofs!AwaitReset,
           Driver!Handshake, DriverProofs!Handshake, Driver!HandshakeLost,
           DriverProofs!HandshakeLost, Driver!Identify, DriverProofs!Identify,
           Driver!ReadMde, DriverProofs!ReadMde, Driver!WriteMde, DriverProofs!WriteMde,
           Driver!ReadFails, DriverProofs!ReadFails, Driver!InitSteps,
           DriverProofs!InitSteps, Driver!StatusSteps, DriverProofs!StatusSteps
  <1>3. Driver!PollLink \/ Driver!Query \/ Driver!ReadStatus => DriverProofs!DriverStep
    BY DEF DriverProofs!DriverStep, Driver!PollLink, DriverProofs!PollLink, Driver!Report,
           DriverProofs!Report, Driver!Query, DriverProofs!Query, Driver!ReadStatus,
           DriverProofs!ReadStatus, Driver!EnBit, DriverProofs!EnBit, Driver!IdBits,
           DriverProofs!IdBits, Driver!PstBit, DriverProofs!PstBit
  <1>4. Driver!WriteCtrl1 \/ Driver!WriteBurst \/ Driver!ReadEn \/ Driver!WriteEn
        \/ Driver!ReadDis \/ Driver!WriteDis => DriverProofs!DriverStep
    BY DEF DriverProofs!DriverStep, Driver!WriteCtrl1, DriverProofs!WriteCtrl1,
           Driver!WriteBurst, DriverProofs!WriteBurst, Driver!ReadEn, DriverProofs!ReadEn,
           Driver!WriteEn, DriverProofs!WriteEn, Driver!ReadDis, DriverProofs!ReadDis,
           Driver!WriteDis, DriverProofs!WriteDis, Driver!Ctrl1Of, DriverProofs!Ctrl1Of,
           Driver!BurstOf, DriverProofs!BurstOf
  <1>5. Driver!Restart \/ Driver!ChipProgress \/ Driver!BeaconsChange
        => DriverProofs!Restart \/ DriverProofs!ChipProgress \/ DriverProofs!BeaconsChange
    BY DEF Driver!Restart, DriverProofs!Restart, Driver!ChipProgress,
           DriverProofs!ChipProgress, Driver!SwResetClears, DriverProofs!SwResetClears,
           Driver!BootCompletes, DriverProofs!BootCompletes, Driver!BeaconsChange,
           DriverProofs!BeaconsChange, Driver!Running, DriverProofs!Running
  <1>6. UNCHANGED Driver!vars => UNCHANGED DriverProofs!vars
    BY DEF Driver!vars, DriverProofs!vars
  <1>7. QED
    BY <1>1, <1>2, <1>3, <1>4, <1>5, <1>6
       DEF Driver!Next, Driver!DriverStep, DriverProofs!Next

LEMMA ProofsApply == DriverProofs!ConstantsAssumption /\ (Spec => DriverProofs!Spec)
  <1>1. DriverProofs!ConstantsAssumption
    BY DriverConstants
       DEF Driver!ConstantsAssumption, DriverProofs!ConstantsAssumption, Driver!U8,
           DriverProofs!U8, Driver!Ctrl1Values, DriverProofs!Ctrl1Values,
           Driver!PlcaConfig, DriverProofs!PlcaConfig
  <1>2. Spec => DriverProofs!Spec
    BY SameInit, SameNext, RefinesDriver, PTL
       DEF ImplementsDriver, Driver!Spec, DriverProofs!Spec
  <1>3. QED
    BY <1>1, <1>2

\* WordsMatchConfig: Lan867x proves that a successful retry restores the agreement
\* of cache and records, the refinement carries it over, and the two bytes of a
\* word determine the word.
THEOREM RetryRestoresWords == Spec => []WordsMatchConfig
  <1>1. Spec => []DriverProofs!RetryRestoresAgreement
    BY ProofsApply, DriverProofs!RetryRecovers
  <1>2. ASSUME TypeOK, DriverProofs!RetryRestoresAgreement
        PROVE  WordsMatchConfig
    <2> SUFFICES ASSUME chip # None, pc = "idle", lastPlca = "ok"
                 PROVE  /\ plca_id # None <=> Has(file[PLCA_CTRL0], PLCA_CTRL0_EN)
                        /\ plca_id # None =>
                             /\ plca_id = file[PLCA_CTRL1] % 256
                             /\ file[PLCA_CTRL1] = Ctrl1Word(cfg)
                             /\ file[PLCA_BURST] = BurstWord(cfg)
      BY DEF WordsMatchConfig
    <2>1. DriverStepAt = "idle"
      BY DEF DriverStepAt
    <2>2. /\ plca_id # None <=> En
          /\ plca_id # None =>
               /\ plca_id = cfg.node_id
               /\ Ctrl1 = DriverProofs!Ctrl1Of(cfg) /\ Burst = DriverProofs!BurstOf(cfg)
      BY <1>2, <2>1 DEF DriverProofs!RetryRestoresAgreement
    <2>3. \A v, w \in U16 : v % 256 = w % 256 /\ v \div 256 = w \div 256 => v = w
      BY DEF U16
    <2>4. /\ file[PLCA_CTRL1] \in U16 /\ file[PLCA_BURST] \in U16
          /\ Ctrl1Word(cfg) \in U16 /\ BurstWord(cfg) \in U16
      BY <1>2, Addresses, ConfigWords DEF TypeOK
    <2>5. /\ Ctrl1Record(Ctrl1Word(cfg)) = DriverProofs!Ctrl1Of(cfg)
          /\ BurstRecord(BurstWord(cfg)) = DriverProofs!BurstOf(cfg)
      BY <1>2, ConfigWords
         DEF TypeOK, Driver!Ctrl1Of, DriverProofs!Ctrl1Of, Driver!BurstOf, DriverProofs!BurstOf
    <2>6. ASSUME plca_id # None
          PROVE  /\ plca_id = file[PLCA_CTRL1] % 256
                 /\ file[PLCA_CTRL1] = Ctrl1Word(cfg) /\ file[PLCA_BURST] = BurstWord(cfg)
      <3>1. file[PLCA_CTRL1] = Ctrl1Word(cfg)
        BY <2>2, <2>3, <2>4, <2>5, <2>6 DEF Ctrl1, Ctrl1Record
      <3>2. file[PLCA_BURST] = BurstWord(cfg)
        BY <2>2, <2>3, <2>4, <2>5, <2>6 DEF Burst, BurstRecord
      <3>3. plca_id = file[PLCA_CTRL1] % 256
        BY <2>2, <2>6 DEF Ctrl1, Ctrl1Record, DriverProofs!Ctrl1Of
      <3>4. QED
        BY <3>1, <3>2, <3>3
    <2>7. QED
      BY <2>2, <2>6 DEF En
  <1>3. QED
    BY <1>1, <1>2, TypeCorrect, PTL

=============================================================================
