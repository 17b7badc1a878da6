-------------------------- MODULE Lan867xRegisters --------------------------
(***************************************************************************)
(* PhyLan867x down to the 16-bit words it reads and writes: the register   *)
(* map and masks of regs.rs, the packing of PLCA_CTRL1 and PLCA_BURST, the *)
(* masks of mmd_rmw, the decoding of identity, straps and BMSR.  A step is *)
(* one Clause-22 access or one MMD access, made of what the access does to *)
(* the chip and of what the method does next.  The module refines Lan867x, *)
(* which has records where this one has words.                             *)
(***************************************************************************)
EXTENDS Naturals

CONSTANTS
  None,        \* Option::None
  ResetPolls,  \* 500 in the code
  Parts,       \* the Clause-22 identity words and MIDVER of the parts there are
  Configs,     \* the PlcaConfig values callers pass
  ResetWords,  \* the MMD registers after a reset
  LateErr      \* may an access that returns Err still have reached the chip?

U8 == 0..(2^8 - 1)
U16 == 0..(2^16 - 1)

\* enum Chip, by STRAP_CTRL0.PKGTYP.
Chip == <<"Lan8670", "Lan8671", "Lan8672">>
Chips == {Chip[pkgtyp] : pkgtyp \in 1..3}

\* (MMD device, register) of every MMD register the driver uses.
MMD_PMA_PMD == 1
MMD_VS2 == 31
T1SPMACTL == <<MMD_PMA_PMD, \h08F9>>
STS2 == <<MMD_VS2, \h0019>>
PLCA_CTRL0 == <<MMD_VS2, \hCA01>>
PLCA_CTRL1 == <<MMD_VS2, \hCA02>>
PLCA_STS == <<MMD_VS2, \hCA03>>
PLCA_BURST == <<MMD_VS2, \hCA05>>
Registers == {T1SPMACTL, STS2, PLCA_CTRL0, PLCA_CTRL1, PLCA_STS, PLCA_BURST}

BMCR_SW_RESET == 2^15
T1SPMACTL_MDE == 2^10
STS2_RESETC == 2^11
PLCA_CTRL0_EN == 2^15
PLCA_STS_PST == 2^15
PLCA_ID_DISABLED == 255
MIDVER_EXPECTED == \h0A10

\* `word & mask != 0`, `word & !mask` and `word | mask`, for a mask of one bit or none.
Has(word, mask) == mask # 0 /\ (word \div mask) % 2 = 1
Without(word, mask) == IF Has(word, mask) THEN word - mask ELSE word
With(word, mask) == Without(word, mask) + mask

ASSUME RegistersAssumption ==
  /\ None \notin Chips /\ None \notin U8
  /\ ResetPolls \in Nat /\ ResetPolls > 0 /\ LateErr \in BOOLEAN
  /\ Configs \subseteq [node_id : U8, node_count : U8, burst_count : U8, burst_timer : U8]
  /\ Parts \subseteq [id0 : U16, id1 : U16, strap : U16, midver : U16, bmsr : U16]
  /\ ResetWords \in [Registers -> U16]
  /\ ~Has(ResetWords[T1SPMACTL], T1SPMACTL_MDE) /\ ~Has(ResetWords[PLCA_CTRL0], PLCA_CTRL0_EN)
  /\ ResetWords[STS2] = 0 /\ ResetWords[PLCA_STS] = 0 /\ ResetWords[PLCA_BURST] = \h0080

VARIABLES
  chip, plca_id,        \* struct PhyLan867x
  pc, n, cfg,           \* the method in flight, its poll counter, its argument
  cur, words,           \* the word mmd_rmw has read; the words of plca_status
  res, answer,          \* the last method's result: Err kind, value
  lastPlca,             \* history, as in Lan867x
  part, phase, file     \* silicon: identity, its reset, the MMD registers

vars == <<chip, plca_id, pc, n, cfg, cur, words, res, answer, lastPlca, part, phase, file>>

(***************************************************************************)
(* Encodings.                                                              *)
(***************************************************************************)

\* Bugs: the fields swapped; the upper one shifted too far.
BugSwapped(upper, lower) == lower * 2^8 + upper
BugShiftedBy9(upper, lower) == upper * 2^9 + lower

\* Two u8 in one word: NCNT | ID, and MAXBC | BTMR.
Packed(upper, lower) == upper * 2^8 + lower

\* PlcaConfig::default(): the coordinator of eight nodes, no burst.
DefaultConfig == [node_id |-> 0, node_count |-> 8, burst_count |-> 0, burst_timer |-> 0]

Ctrl1Word(c) == Packed(c.node_count, c.node_id)
BurstWord(c) == Packed(c.burst_count, IF c.burst_timer = 0 THEN \h80 ELSE c.burst_timer)

\* Bug: mmd_rmw loses the bits outside its masks.
BugMaskOnly(word, clear, set) == set

\* Bug: mmd_rmw never clears anything.
BugNothingCleared(word, clear, set) == With(word, set)

\* (current & !clear_mask) | set_mask
Modified(word, clear, set) == With(Without(word, clear), set)

\* PHY_OUI_MODEL_MASK drops the silicon revision.
Family(p) == p.id0 = 0 /\ p.id1 \div 2^4 = \hC56

Package(strap) ==
  LET pkgtyp == (strap \div 2^5) % 4 IN
  IF pkgtyp \in DOMAIN Chip THEN Chip[pkgtyp] ELSE None

\* The BMSR bit behind each field of PhyCapabilities; PAUSE is not in BMSR.
Abilities ==
  [speed_100_fd |-> 2^14, speed_100_hd |-> 2^13, speed_10_fd |-> 2^12,
   speed_10_hd |-> 2^11, auto_negotiation |-> 2^3]
PhyCapabilities == DOMAIN Abilities \cup {"pause"}

\* read_capabilities
Capabilities(bmsr) == [c \in PhyCapabilities |-> c # "pause" /\ Has(bmsr, Abilities[c])]

\* The answers of poll_link, capabilities and phy_id; Silent is no value at all.
Silent == [kind |-> "none"]
Able(bmsr) == [kind |-> "capabilities", able |-> Capabilities(bmsr)]
PhyId(p) == [kind |-> "id", id |-> p.id0 * 2^16 + p.id1]
LinkUp == [kind |-> "link", up |-> TRUE, speed |-> 10, duplex |-> "half"]
LinkDown == [kind |-> "link", up |-> FALSE]
Link(sts) == IF Has(sts, PLCA_STS_PST) THEN LinkUp ELSE LinkDown
NoWords == [ctrl0 |-> 0, ctrl1 |-> 0, sts |-> 0]
PlcaStatus(w) ==
  [enabled |-> Has(w.ctrl0, PLCA_CTRL0_EN), node_id |-> w.ctrl1 % 256,
   stable |-> Has(w.sts, PLCA_STS_PST)]

(***************************************************************************)
(* The chip's side of an access.                                           *)
(***************************************************************************)

InitSteps == {"reset", "await_reset", "handshake", "id0", "id1", "strap",
              "midver", "mde_rd", "mde_wr"}
FailStage ==
  [ctrl1 |-> "ctrl1", burst |-> "burst", en_rd |-> "enable", en_wr |-> "enable",
   dis_rd |-> "disable", dis_wr |-> "disable"]
MmdWrites == {"mde_wr", "ctrl1", "burst", "en_wr", "dis_wr"}
Steps == {"idle", "poll", "query", "st_ctrl0", "st_ctrl1", "st_sts"} \cup InitSteps
         \cup DOMAIN FailStage

Ready == phase = "up" /\ ~Has(file[STS2], STS2_RESETC)

Written == \* the register each write goes to, and the word
  CASE pc = "mde_wr" -> <<T1SPMACTL, Modified(cur, 0, T1SPMACTL_MDE)>>
    [] pc = "ctrl1" -> <<PLCA_CTRL1, Ctrl1Word(cfg)>>
    [] pc = "burst" -> <<PLCA_BURST, BurstWord(cfg)>>
    [] pc = "en_wr" -> <<PLCA_CTRL0, Modified(cur, 0, PLCA_CTRL0_EN)>>
    [] pc = "dis_wr" -> <<PLCA_CTRL0, Modified(cur, PLCA_CTRL0_EN, 0)>>

\* The access reaches the chip: BMCR.RESET reloads the registers, a read of STS2
\* clears RESETC, a write replaces its register; without EN there is no PST.
Lands ==
  /\ phase' = IF pc = "reset" THEN "resetting" ELSE phase
  /\ file' =
       CASE pc = "reset" -> ResetWords
         [] pc = "handshake" -> [file EXCEPT ![STS2] = Without(@, STS2_RESETC)]
         [] pc \in MmdWrites ->
              LET new == [file EXCEPT ![Written[1]] = Written[2]] IN
              [new EXCEPT ![PLCA_STS] = IF Has(new[PLCA_CTRL0], PLCA_CTRL0_EN) THEN @ ELSE 0]
         [] OTHER -> file

Lost == UNCHANGED <<phase, file>>

SwResetClears == phase = "resetting" /\ phase' = "booting" /\ UNCHANGED file
BootCompletes ==
  /\ phase = "booting" /\ phase' = "up"
  /\ file' = [file EXCEPT ![STS2] = With(@, STS2_RESETC)]
BeaconsChange ==
  /\ \/ Has(file[PLCA_STS], PLCA_STS_PST)
     \/ Has(file[PLCA_CTRL0], PLCA_CTRL0_EN) /\ file[PLCA_CTRL1] % 256 # PLCA_ID_DISABLED
  /\ file' = [file EXCEPT ![PLCA_STS] =
                IF Has(@, PLCA_STS_PST) THEN Without(@, PLCA_STS_PST) ELSE With(@, PLCA_STS_PST)]
  /\ UNCHANGED phase

ChipMoves ==
  /\ SwResetClears \/ BootCompletes \/ BeaconsChange
  /\ UNCHANGED <<chip, plca_id, pc, n, cfg, cur, words, res, answer, lastPlca, part>>

(***************************************************************************)
(* The methods' side: what follows an access that returned Ok.             *)
(***************************************************************************)

Goto(step) == pc' = step /\ UNCHANGED <<res, answer>>
Return(r, value) == pc' = "idle" /\ res' = r /\ answer' = value
PollFor(found, next) ==
  \/ found /\ Goto(next) /\ n' = (IF next = "handshake" THEN ResetPolls ELSE 0)
  \/ ~found /\ n > 1 /\ n' = n - 1 /\ UNCHANGED <<pc, res, answer>>
  \/ ~found /\ n = 1 /\ n' = 0 /\ Return("ResetTimeout", answer)

Check(passed, next, error) ==
  /\ IF passed THEN Goto(next) ELSE Return(error, answer)
  /\ UNCHANGED n

ReadOf(place, next) == cur' = file[place] /\ Goto(next) /\ UNCHANGED n
Bmcr == IF phase = "resetting" THEN BMCR_SW_RESET ELSE 0

InitContinues ==
  /\ \/ pc = "reset" /\ Goto("await_reset") /\ n' = ResetPolls
     \/ pc = "await_reset" /\ PollFor(~Has(Bmcr, BMCR_SW_RESET), "handshake")
     \/ pc = "handshake" /\ PollFor(Has(file[STS2], STS2_RESETC), "id0")
     \/ pc = "id0" /\ Goto("id1") /\ UNCHANGED n
     \/ pc = "id1" /\ Check(Family(part), "strap", "UnsupportedChip")
     \/ pc = "strap" /\ Check(Package(part.strap) # None, "midver", "UnsupportedPackage")
     \/ pc = "midver" /\ Check(part.midver = MIDVER_EXPECTED, "mde_rd", "UnsupportedChip")
     \/ pc = "mde_wr" /\ Return("ok", answer) /\ UNCHANGED n
     \/ pc = "mde_rd" /\ ReadOf(T1SPMACTL, "mde_wr")
  /\ IF pc = "mde_wr" THEN chip' = Package(part.strap) /\ lastPlca' = "ok"
                      ELSE UNCHANGED <<chip, lastPlca>>
  /\ pc = "mde_rd" \/ cur' = 0
  /\ UNCHANGED <<plca_id, words>>

PlcaContinues ==
  /\ \/ pc = "ctrl1" /\ Goto("burst") /\ UNCHANGED <<n, cur, plca_id, lastPlca>>
     \/ pc = "burst" /\ Goto("en_rd") /\ UNCHANGED <<n, cur, plca_id, lastPlca>>
     \/ pc = "en_rd" /\ ReadOf(PLCA_CTRL0, "en_wr") /\ UNCHANGED <<plca_id, lastPlca>>
     \/ pc = "dis_rd" /\ ReadOf(PLCA_CTRL0, "dis_wr") /\ UNCHANGED <<plca_id, lastPlca>>
     \/ /\ pc \in {"en_wr", "dis_wr"} /\ Return("ok", answer) /\ cur' = 0 /\ UNCHANGED n
        /\ plca_id' = IF pc = "en_wr" THEN cfg.node_id ELSE None
        /\ lastPlca' = "ok"
  /\ UNCHANGED <<chip, words>>

\* poll_link makes an access only with a plca_id cached.
Polls == chip # None /\ plca_id # None
QueryContinues ==
  /\ \/ /\ pc = "poll" /\ UNCHANGED words
        /\ Return("ok", CASE chip = None -> LinkDown
                          [] chip # None /\ plca_id = None -> LinkUp
                          [] Polls -> Link(file[PLCA_STS]))
     \/ /\ pc = "query" /\ UNCHANGED words
        /\ \E value \in {Able(part.bmsr), PhyId(part)} : Return("ok", value)
     \/ pc = "st_ctrl0" /\ Goto("st_ctrl1") /\ words' = [words EXCEPT !.ctrl0 = file[PLCA_CTRL0]]
     \/ pc = "st_ctrl1" /\ Goto("st_sts") /\ words' = [words EXCEPT !.ctrl1 = file[PLCA_CTRL1]]
     \/ pc = "st_sts" /\ Return("ok", answer) /\ words' = [words EXCEPT !.sts = file[PLCA_STS]]
  /\ UNCHANGED <<chip, plca_id, n, cur, lastPlca>>

\* An access that returns Ok; until the handshake an MMD write may be lost.
Succeeds ==
  /\ InitContinues \/ PlcaContinues \/ QueryContinues
  /\ Lands \/ (pc \in MmdWrites /\ ~Ready /\ Lost)
  /\ UNCHANGED <<cfg, part>>

\* An access that returns Err, which `?` and map_err hand to the caller.
Fails ==
  /\ pc # "idle" /\ (pc = "poll" => Polls)
  /\ Return("Mdio", answer) /\ n' = 0 /\ cur' = 0
  /\ lastPlca' = IF pc \in DOMAIN FailStage THEN FailStage[pc] ELSE lastPlca
  /\ Lost \/ (LateErr /\ Lands)
  /\ UNCHANGED <<chip, plca_id, cfg, words, part>>

(***************************************************************************)
(* The calls.                                                              *)
(***************************************************************************)

Valid(c) ==
  c.node_id # PLCA_ID_DISABLED /\ (c.node_count # 0 => c.node_id < c.node_count)

Call(step) ==
  /\ pc = "idle" /\ pc' = step
  /\ res' = "none" /\ answer' = Silent /\ words' = NoWords
  /\ IF step = "reset" THEN chip' = None /\ plca_id' = None ELSE UNCHANGED <<chip, plca_id>>
  /\ UNCHANGED <<n, cur, lastPlca, part, phase, file>>

Configure(c) ==
  IF Valid(c) THEN Call("ctrl1") /\ cfg' = c
  ELSE /\ pc = "idle" /\ Return("InvalidConfig", Silent) /\ words' = NoWords
       /\ UNCHANGED <<chip, plca_id, n, cfg, cur, lastPlca, part, phase, file>>

CallSome ==
  \/ \E s \in {"reset", "poll", "query", "dis_rd", "st_ctrl0"} : Call(s) /\ UNCHANGED cfg
  \/ \E c \in Configs : Configure(c)

New ==
  /\ chip' = None /\ plca_id' = None /\ pc' = "idle" /\ n' = 0 /\ cur' = 0
  /\ res' = "none" /\ answer' = Silent /\ words' = NoWords /\ lastPlca' = "ok"
  /\ UNCHANGED <<cfg, part, phase, file>>

Init ==
  /\ chip = None /\ plca_id = None /\ pc = "idle" /\ n = 0 /\ cur = 0
  /\ cfg \in Configs /\ Valid(cfg)
  /\ res = "none" /\ answer = Silent /\ words = NoWords /\ lastPlca = "ok"
  /\ part \in Parts /\ phase = "booting" /\ file = ResetWords

Next == CallSome \/ Succeeds \/ Fails \/ New \/ ChipMoves

Spec == Init /\ [][Next]_vars

(***************************************************************************)
(* Properties.                                                             *)
(***************************************************************************)

Answers(p) == {Silent, LinkUp, LinkDown, Able(p.bmsr), PhyId(p)}

\* Every word fits in its 16 bits and every cached id in 8.
TypeOK ==
  /\ chip \in Chips \cup {None} /\ plca_id \in U8 \cup {None}
  /\ pc \in Steps /\ n \in 0..ResetPolls /\ cfg \in Configs /\ cur \in U16
  /\ words \in [ctrl0 : U16, ctrl1 : U16, sts : U16]
  /\ answer \in Answers(part) /\ part \in Parts
  /\ phase \in {"resetting", "booting", "up"} /\ file \in [Registers -> U16]

Identity(p) ==
  [family |-> Family(p), pkg |-> Package(p.strap), midver |-> p.midver = MIDVER_EXPECTED]
Ctrl1Record(word) == [id |-> word % 256, ncnt |-> word \div 256]
BurstRecord(word) == [maxbc |-> word \div 256, btmr |-> word % 256]

DriverStepAt == IF pc \in {"id0", "id1"} THEN "id" ELSE pc
DriverLink ==
  CASE answer = LinkUp -> "up" [] answer = LinkDown -> "down" [] OTHER -> "none"
DriverPhase ==
  IF phase # "up" THEN phase ELSE IF Has(file[STS2], STS2_RESETC) THEN "resetc" ELSE "ready"
Mde == Has(file[T1SPMACTL], T1SPMACTL_MDE)
En == Has(file[PLCA_CTRL0], PLCA_CTRL0_EN)
Pst == Has(file[PLCA_STS], PLCA_STS_PST)
Ctrl1 == Ctrl1Record(file[PLCA_CTRL1])
Burst == BurstRecord(file[PLCA_BURST])

Driver == INSTANCE Lan867x WITH
  U8Max <- PLCA_ID_DISABLED, ChipBtmr <- \h80,
  ResetCtrl1 <- Ctrl1Record(ResetWords[PLCA_CTRL1]), Parts <- {Identity(p) : p \in Parts},
  pc <- DriverStepAt, snap <- PlcaStatus(words), link <- DriverLink,
  part <- Identity(part), phase <- DriverPhase, mde <- Mde, en <- En, pst <- Pst,
  ctrl1 <- Ctrl1, burst <- Burst

\* The words implement the records: with the code's own addresses, masks and
\* shifts, and the full range of a u8, every access does to the chip and tells
\* the driver what Lan867x says of it, so that its properties hold of the words.
ImplementsDriver == Driver!Spec

\* The driver leaves alone every bit of T1SPMACTL and PLCA_CTRL0 that it does not
\* own, from one reset of the chip to the next, whichever halves of its
\* read-modify-writes fail, are lost or are cut short by a restart.
OtherBitsKept ==
  [][phase' = "resetting" \/
     \A r \in {<<T1SPMACTL, T1SPMACTL_MDE>>, <<PLCA_CTRL0, PLCA_CTRL0_EN>>} :
       Without(file[r[1]], r[2]) = Without(file'[r[1]], r[2])]_vars

\* When the last PLCA call on an initialised driver succeeded, and every one that
\* failed before it has been made good, the words in the chip are those of the
\* last configuration accepted and the cached id is the one they hold.
WordsMatchConfig ==
  chip # None /\ pc = "idle" /\ lastPlca = "ok" =>
    /\ plca_id # None <=> Has(file[PLCA_CTRL0], PLCA_CTRL0_EN)
    /\ plca_id # None =>
         /\ plca_id = file[PLCA_CTRL1] % 256
         /\ file[PLCA_CTRL1] = Ctrl1Word(cfg) /\ file[PLCA_BURST] = BurstWord(cfg)

(***************************************************************************)
(* The inductive invariant: the counter of the reset polls, what the chip  *)
(* keeps of its own words, the word of a read-modify-write, and no answer  *)
(* from a method still in flight.                                          *)
(***************************************************************************)

PollsCounted == IF pc \in {"await_reset", "handshake"} THEN n > 0 ELSE n = 0
ResetcAfterBoot == Has(file[STS2], STS2_RESETC) => phase = "up"
StableNeedsEnable == Has(file[PLCA_STS], PLCA_STS_PST) => Has(file[PLCA_CTRL0], PLCA_CTRL0_EN)

\* The chip's own moves leave alone what the driver has read and writes back.
ReadStillCurrent ==
  /\ pc = "mde_wr" => cur = file[T1SPMACTL]
  /\ pc \in {"en_wr", "dis_wr"} => cur = file[PLCA_CTRL0]

SilentInFlight == pc # "idle" => answer = Silent

IInv ==
  /\ PollsCounted /\ ResetcAfterBoot /\ StableNeedsEnable /\ ReadStillCurrent /\ SilentInFlight
=============================================================================
