------------------------------ MODULE Lan867x ------------------------------
(***************************************************************************)
(* The PhyLan867x driver (crates/eth-phy-lan867x/src/lib.rs) and the part  *)
(* of the LAN867x silicon it programs.                                     *)
(*                                                                         *)
(* The driver keeps two cached fields, chip and plca_id.  Every method is  *)
(* a sequence of MDIO accesses, any of which may return Err; one action    *)
(* here is one Clause-22 access or one MMD access (mmd_read, mmd_write and *)
(* the two halves of mmd_rmw), which MmdIndirection shows to be atomic in  *)
(* the chip's register file.  Between two accesses the chip moves on its   *)
(* own, and the firmware may restart with the chip left as it was.         *)
(***************************************************************************)
EXTENDS Naturals

CONSTANTS
  Chips,       \* enum Chip: the packages PKGTYP can name
  None,        \* Option::None
  U8Max,       \* 0xFF, the largest u8 and the "PLCA disabled" node id
  ResetPolls,  \* 500 reads of BMCR, then 500 reads of STS2
  ChipBtmr,    \* 0x80, the chip's default burst timer
  ResetCtrl1,  \* PLCA_CTRL1 after a reset
  Parts,       \* the parts that may be soldered at this MDIO address
  Configs,     \* the PlcaConfig values callers pass
  LateErr      \* may an access that returns Err still have reached the chip?

U8 == 0..U8Max
Ctrl1Values == [id : U8, ncnt : U8]
PlcaConfig == [node_id : U8, node_count : U8, burst_count : U8, burst_timer : U8]

ASSUME ConstantsAssumption ==
  /\ None \notin Chips /\ None \notin U8
  /\ U8Max \in Nat /\ U8Max > 0
  /\ ResetPolls \in Nat /\ ResetPolls > 0
  /\ ChipBtmr \in U8 /\ ChipBtmr # 0
  /\ ResetCtrl1 \in Ctrl1Values
  /\ Parts \subseteq [family : BOOLEAN, pkg : Chips \cup {None}, midver : BOOLEAN]
  /\ Configs \subseteq PlcaConfig
  /\ LateErr \in BOOLEAN

VARIABLES
  chip, plca_id,            \* struct PhyLan867x
  pc, n, cfg, snap,         \* the method in flight and its locals
  res, link,                \* how the last method returned; what poll_link said
  lastPlca,                 \* history: "ok", or the step at which PLCA setup failed
  part, phase,              \* silicon: identity, progress of its reset
  mde, en, ctrl1, burst, pst  \* silicon: T1SPMACTL.MDE, PLCA_CTRL0/1, _BURST, _STS

cache == <<chip, plca_id>>
plcaRegs == <<en, ctrl1, burst, pst>>
silicon == <<part, phase, mde, plcaRegs>>
vars == <<cache, pc, n, cfg, snap, res, link, lastPlca, silicon>>

InitSteps == {"reset", "await_reset", "handshake", "id", "strap", "midver",
              "mde_rd", "mde_wr"}
PlcaSteps == {"ctrl1", "burst", "en_rd", "en_wr", "dis_rd", "dis_wr"}
StatusSteps == {"st_ctrl0", "st_ctrl1", "st_sts"}
Steps == {"idle", "poll", "query"} \cup InitSteps \cup PlcaSteps \cup StatusSteps
Results == {"none", "ok", "Mdio", "ResetTimeout", "UnsupportedChip",
            "UnsupportedPackage", "InvalidConfig"}
Phases == {"resetting", "booting", "resetc", "ready", "held"}
NoSnap == [enabled |-> FALSE, node_id |-> 0, stable |-> FALSE]

(***************************************************************************)
(* The silicon.                                                            *)
(***************************************************************************)

\* What a reset, soft or by RESET_N, does to the registers modelled here.
Defaults ==
  /\ mde' = FALSE /\ en' = FALSE /\ pst' = FALSE
  /\ ctrl1' = ResetCtrl1
  /\ burst' = [maxbc |-> 0, btmr |-> ChipBtmr]

\* PLCA runs when enabled with an id other than the disabling sentinel.
Running == en /\ ctrl1.id # U8Max

\* The bits a read returns; a chip held in reset leaves MDIO floating high.
EnBit == en \/ phase = "held"
IdBits == IF phase = "held" THEN U8Max ELSE ctrl1.id
PstBit == pst \/ phase = "held"

\* When an MMD register write that returned Ok / Err has taken effect: until
\* STS2.RESETC has been read "register writes are NOT guaranteed to take effect".
Outcome(ok, landed) ==
  /\ ok => landed \/ phase # "ready"
  /\ ~ok /\ landed => LateErr
  /\ landed => phase # "held"

\* BMCR.SW_RESET self-clears; later RESETC is raised.
SwResetClears == phase = "resetting" /\ phase' = "booting"
BootCompletes == phase = "booting" /\ phase' = "resetc"
ChipProgress ==
  /\ SwResetClears \/ BootCompletes
  /\ UNCHANGED <<cache, pc, n, cfg, snap, res, link, lastPlca, part, mde, plcaRegs>>

\* BEACONs start or stop; they only count while PLCA runs.
BeaconsChange ==
  /\ pst' = ~pst /\ (pst' => Running)
  /\ UNCHANGED <<cache, pc, n, cfg, snap, res, link, lastPlca, part, phase, mde,
                 en, ctrl1, burst>>

(***************************************************************************)
(* Control flow shared by the methods.                                     *)
(***************************************************************************)

Call(step) ==
  /\ pc = "idle" /\ pc' = step
  /\ res' = "none" /\ link' = "none" /\ snap' = NoSnap

Goto(step) == pc' = step /\ UNCHANGED <<res, link, snap>>
Return(r) == pc' = "idle" /\ res' = r /\ UNCHANGED <<link, snap>>

\* Bugs: the poll counter runs past zero; it is reloaded when it runs out.
BugPollUnderflows(found, success) ==
  \/ found /\ success
  \/ ~found /\ n' = n - 1 /\ UNCHANGED <<pc, res, link, snap, phase>>
BugPollForever(found, success) ==
  \/ found /\ success
  \/ ~found /\ n' = (IF n > 1 THEN n - 1 ELSE ResetPolls) /\ UNCHANGED <<pc, res, link, snap, phase>>

\* for _ in 0..ResetPolls { if the read finds `found` { leave } }
PollFor(found, success) ==
  \/ found /\ success
  \/ ~found /\ n > 1 /\ n' = n - 1 /\ UNCHANGED <<pc, res, link, snap, phase>>
  \/ ~found /\ n = 1 /\ n' = 0 /\ Return("ResetTimeout") /\ UNCHANGED phase

(***************************************************************************)
(* init                                                                    *)
(***************************************************************************)

\* Bug: the caches of an earlier init are kept until this one succeeds.
BugInitKeepsCache == Call("reset") /\ UNCHANGED <<cache, n, cfg, lastPlca, silicon>>

CallInit ==
  /\ Call("reset")
  /\ chip' = None /\ plca_id' = None
  /\ UNCHANGED <<n, cfg, lastPlca, silicon>>

\* soft_reset: the raw write of BMCR.RESET, accepted in any phase.
SoftReset ==
  /\ pc = "reset"
  /\ \E ok, landed \in BOOLEAN :
       /\ ok => landed \/ phase = "held"
       /\ ~ok /\ landed => LateErr
       /\ landed => phase # "held"
       /\ IF landed THEN phase' = "resetting" /\ Defaults
                    ELSE UNCHANGED <<phase, mde, plcaRegs>>
       /\ IF ok THEN Goto("await_reset") /\ n' = ResetPolls
                ELSE Return("Mdio") /\ UNCHANGED n
  /\ UNCHANGED <<cache, cfg, lastPlca, part>>

\* soft_reset: poll BMCR until RESET reads 0.
AwaitReset ==
  /\ pc = "await_reset"
  /\ PollFor(phase \notin {"resetting", "held"},
             Goto("handshake") /\ n' = ResetPolls /\ UNCHANGED phase)
  /\ UNCHANGED <<cache, cfg, lastPlca, part, mde, plcaRegs>>

\* Bug: init goes on after soft_reset without the RESETC handshake.
BugNoHandshake ==
  /\ pc = "handshake" /\ Goto("id") /\ n' = 0
  /\ UNCHANGED <<cache, cfg, lastPlca, silicon>>

\* Poll STS2; the read that finds RESETC set clears it.
Handshake ==
  /\ pc = "handshake"
  /\ PollFor(phase = "resetc", Goto("id") /\ n' = 0 /\ phase' = "ready")
  /\ UNCHANGED <<cache, cfg, lastPlca, part, mde, plcaRegs>>

\* A read of STS2 that reached the chip although the bus reported Err.
HandshakeLost ==
  /\ LateErr /\ pc = "handshake" /\ phase = "resetc"
  /\ phase' = "ready" /\ n' = 0 /\ Return("Mdio")
  /\ UNCHANGED <<cache, cfg, lastPlca, part, mde, plcaRegs>>

\* Bug: the chip is committed as soon as its package is known.
BugCommitsEarly ==
  /\ \/ pc = "id" /\ part.family /\ Goto("strap") /\ UNCHANGED chip
     \/ pc = "id" /\ ~part.family /\ Return("UnsupportedChip") /\ UNCHANGED chip
     \/ pc = "strap" /\ part.pkg \in Chips /\ Goto("midver") /\ chip' = part.pkg
     \/ pc = "strap" /\ part.pkg = None /\ Return("UnsupportedPackage") /\ UNCHANGED chip
     \/ pc = "midver" /\ part.midver /\ Goto("mde_rd") /\ UNCHANGED chip
     \/ pc = "midver" /\ ~part.midver /\ Return("UnsupportedChip") /\ UNCHANGED chip
  /\ UNCHANGED <<plca_id, n, cfg, lastPlca, silicon>>

\* PHY id, then STRAP_CTRL0.PKGTYP, then MIDVER.
Identify ==
  /\ \/ pc = "id" /\ part.family /\ Goto("strap")
     \/ pc = "id" /\ ~part.family /\ Return("UnsupportedChip")
     \/ pc = "strap" /\ part.pkg \in Chips /\ Goto("midver")
     \/ pc = "strap" /\ part.pkg = None /\ Return("UnsupportedPackage")
     \/ pc = "midver" /\ part.midver /\ Goto("mde_rd")
     \/ pc = "midver" /\ ~part.midver /\ Return("UnsupportedChip")
  /\ UNCHANGED <<cache, n, cfg, lastPlca, silicon>>

\* mmd_rmw(T1SPMACTL, 0, MDE): the read half.
ReadMde ==
  /\ pc = "mde_rd" /\ Goto("mde_wr")
  /\ UNCHANGED <<cache, n, cfg, lastPlca, silicon>>

\* mmd_rmw(T1SPMACTL, 0, MDE): the write half, then commit self.chip.
WriteMde ==
  /\ pc = "mde_wr"
  /\ \E ok, landed \in BOOLEAN :
       /\ Outcome(ok, landed)
       /\ mde' = (mde \/ landed)
       /\ IF ok THEN Return("ok") /\ chip' = part.pkg /\ lastPlca' = "ok"
                ELSE Return("Mdio") /\ UNCHANGED <<chip, lastPlca>>
  /\ UNCHANGED <<plca_id, n, cfg, part, phase, plcaRegs>>

(***************************************************************************)
(* poll_link, capabilities, phy_id                                         *)
(***************************************************************************)

CallPoll == Call("poll") /\ UNCHANGED <<cache, n, cfg, lastPlca, silicon>>

Report(up) ==
  /\ pc' = "idle" /\ res' = "ok" /\ UNCHANGED snap
  /\ link' = IF up THEN "up" ELSE "down"

\* Bug: poll_link without the chip.is_some() gate.
BugPollUngated ==
  /\ pc = "poll"
  /\ \/ plca_id = None /\ Report(TRUE)
     \/ plca_id # None /\ (Report(PstBit) \/ Return("Mdio"))
  /\ UNCHANGED <<cache, n, cfg, lastPlca, silicon>>

PollLink ==
  /\ pc = "poll"
  /\ \/ chip = None /\ Report(FALSE)
     \/ chip # None /\ plca_id = None /\ Report(TRUE)
     \/ chip # None /\ plca_id # None /\ (Report(PstBit) \/ Return("Mdio"))
  /\ UNCHANGED <<cache, n, cfg, lastPlca, silicon>>

\* capabilities and phy_id only read registers that never change.
CallQuery == Call("query") /\ UNCHANGED <<cache, n, cfg, lastPlca, silicon>>
Query ==
  /\ pc = "query" /\ \E r \in {"ok", "Mdio"} : Return(r)
  /\ UNCHANGED <<cache, n, cfg, lastPlca, silicon>>

(***************************************************************************)
(* configure_plca                                                          *)
(***************************************************************************)

\* Bug: off by one against node_count.
BugValid(c) ==
  /\ c.node_id # U8Max
  /\ c.node_count # 0 => c.node_id <= c.node_count

\* The two checks that return InvalidConfig.
Valid(c) ==
  /\ c.node_id # U8Max
  /\ c.node_count # 0 => c.node_id < c.node_count

\* The register values a configuration is encoded to.
Ctrl1Of(c) == [id |-> c.node_id, ncnt |-> c.node_count]
BurstOf(c) ==
  [maxbc |-> c.burst_count,
   btmr |-> IF c.burst_timer = 0 THEN ChipBtmr ELSE c.burst_timer]

CallConfigure(c) ==
  /\ Call("ctrl1") /\ Valid(c) /\ cfg' = c
  /\ UNCHANGED <<cache, n, lastPlca, silicon>>

RejectConfig(c) ==
  /\ pc = "idle" /\ ~Valid(c)
  /\ res' = "InvalidConfig" /\ link' = "none" /\ snap' = NoSnap
  /\ UNCHANGED <<pc, cache, n, cfg, lastPlca, silicon>>

\* How a PLCA step ends: on to `next`, or Err with the failing step recorded.
PlcaStep(ok, next, failed) ==
  IF ok THEN Goto(next) /\ UNCHANGED lastPlca
        ELSE Return("Mdio") /\ lastPlca' = failed

\* Bug: PLCA_BURST is not programmed.
BugNoBurst ==
  /\ pc = "ctrl1"
  /\ \E ok, landed \in BOOLEAN :
       /\ Outcome(ok, landed) /\ PlcaStep(ok, "en_rd", "ctrl1")
       /\ ctrl1' = IF landed THEN Ctrl1Of(cfg) ELSE ctrl1
  /\ UNCHANGED <<cache, n, cfg, part, phase, mde, en, burst, pst>>

WriteCtrl1 ==
  /\ pc = "ctrl1"
  /\ \E ok, landed \in BOOLEAN :
       /\ Outcome(ok, landed) /\ PlcaStep(ok, "burst", "ctrl1")
       /\ ctrl1' = IF landed THEN Ctrl1Of(cfg) ELSE ctrl1
  /\ UNCHANGED <<cache, n, cfg, part, phase, mde, en, burst, pst>>

\* Bug: PLCA_BURST is programmed only when bursting is asked for.
BugBurstOnlyIfUsed ==
  /\ pc = "burst"
  /\ \E ok, landed \in BOOLEAN :
       /\ Outcome(ok, landed) /\ PlcaStep(ok, "en_rd", "burst")
       /\ burst' = IF landed /\ cfg.burst_count # 0 THEN BurstOf(cfg) ELSE burst
  /\ UNCHANGED <<cache, n, cfg, part, phase, mde, en, ctrl1, pst>>

WriteBurst ==
  /\ pc = "burst"
  /\ \E ok, landed \in BOOLEAN :
       /\ Outcome(ok, landed) /\ PlcaStep(ok, "en_rd", "burst")
       /\ burst' = IF landed THEN BurstOf(cfg) ELSE burst
  /\ UNCHANGED <<cache, n, cfg, part, phase, mde, en, ctrl1, pst>>

ReadEn ==
  /\ pc = "en_rd"
  /\ \E ok \in BOOLEAN : PlcaStep(ok, "en_wr", "enable")
  /\ UNCHANGED <<cache, n, cfg, silicon>>

\* Bug: plca_id is assigned before the result of the write is looked at.
BugEnableCachesEarly ==
  /\ pc = "en_wr" /\ plca_id' = cfg.node_id
  /\ \E ok, landed \in BOOLEAN :
       /\ Outcome(ok, landed)
       /\ en' = (en \/ landed)
       /\ IF ok THEN Return("ok") /\ lastPlca' = "ok"
                ELSE Return("Mdio") /\ lastPlca' = "enable"
  /\ UNCHANGED <<chip, n, cfg, part, phase, mde, ctrl1, burst, pst>>

\* Bug: a failing write drops the caches, as a failing init does.
BugEnableForgets ==
  /\ pc = "en_wr"
  /\ \E ok, landed \in BOOLEAN :
       /\ Outcome(ok, landed)
       /\ en' = (en \/ landed)
       /\ IF ok THEN Return("ok") /\ lastPlca' = "ok" /\ plca_id' = cfg.node_id /\ UNCHANGED chip
                ELSE Return("Mdio") /\ lastPlca' = "enable" /\ plca_id' = None /\ chip' = None
  /\ UNCHANGED <<n, cfg, part, phase, mde, ctrl1, burst, pst>>

WriteEn ==
  /\ pc = "en_wr"
  /\ \E ok, landed \in BOOLEAN :
       /\ Outcome(ok, landed)
       /\ en' = (en \/ landed)
       /\ IF ok THEN Return("ok") /\ lastPlca' = "ok" /\ plca_id' = cfg.node_id
                ELSE Return("Mdio") /\ lastPlca' = "enable" /\ UNCHANGED plca_id
  /\ UNCHANGED <<chip, n, cfg, part, phase, mde, ctrl1, burst, pst>>

(***************************************************************************)
(* disable_plca and plca_status                                            *)
(***************************************************************************)

CallDisable == Call("dis_rd") /\ UNCHANGED <<cache, n, cfg, lastPlca, silicon>>

ReadDis ==
  /\ pc = "dis_rd"
  /\ \E ok \in BOOLEAN : PlcaStep(ok, "dis_wr", "disable")
  /\ UNCHANGED <<cache, n, cfg, silicon>>

\* Bug: plca_id is cleared before the result of the write is looked at.
BugDisableCachesEarly ==
  /\ pc = "dis_wr" /\ plca_id' = None
  /\ \E ok, landed \in BOOLEAN :
       /\ Outcome(ok, landed)
       /\ en' = (en /\ ~landed) /\ pst' = (pst /\ ~landed)
       /\ IF ok THEN Return("ok") /\ lastPlca' = "ok"
                ELSE Return("Mdio") /\ lastPlca' = "disable"
  /\ UNCHANGED <<chip, n, cfg, part, phase, mde, ctrl1, burst>>

WriteDis ==
  /\ pc = "dis_wr"
  /\ \E ok, landed \in BOOLEAN :
       /\ Outcome(ok, landed)
       /\ en' = (en /\ ~landed) /\ pst' = (pst /\ ~landed)
       /\ IF ok THEN Return("ok") /\ lastPlca' = "ok" /\ plca_id' = None
                ELSE Return("Mdio") /\ lastPlca' = "disable" /\ UNCHANGED plca_id
  /\ UNCHANGED <<chip, n, cfg, part, phase, mde, ctrl1, burst>>

CallStatus == Call("st_ctrl0") /\ UNCHANGED <<cache, n, cfg, lastPlca, silicon>>

\* Bug: plca_status answers `enabled` from the driver's cache.
BugStatusFromCache ==
  /\ UNCHANGED link
  /\ \/ /\ pc = "st_ctrl0" /\ pc' = "st_ctrl1" /\ UNCHANGED res
        /\ snap' = [snap EXCEPT !.enabled = (plca_id # None)]
     \/ /\ pc = "st_ctrl1" /\ pc' = "st_sts" /\ UNCHANGED res
        /\ snap' = [snap EXCEPT !.node_id = IdBits]
     \/ /\ pc = "st_sts" /\ pc' = "idle" /\ res' = "ok"
        /\ snap' = [snap EXCEPT !.stable = PstBit]
  /\ UNCHANGED <<cache, n, cfg, lastPlca, silicon>>

\* Three separate reads, assembled into one PlcaStatus.
ReadStatus ==
  /\ UNCHANGED link
  /\ \/ /\ pc = "st_ctrl0" /\ pc' = "st_ctrl1" /\ UNCHANGED res
        /\ snap' = [snap EXCEPT !.enabled = EnBit]
     \/ /\ pc = "st_ctrl1" /\ pc' = "st_sts" /\ UNCHANGED res
        /\ snap' = [snap EXCEPT !.node_id = IdBits]
     \/ /\ pc = "st_sts" /\ pc' = "idle" /\ res' = "ok"
        /\ snap' = [snap EXCEPT !.stable = PstBit]
  /\ UNCHANGED <<cache, n, cfg, lastPlca, silicon>>

\* A read of init or plca_status that returns Err.
ReadFails ==
  /\ pc \in (InitSteps \ {"reset", "mde_wr"}) \cup StatusSteps
  /\ Return("Mdio") /\ n' = 0
  /\ UNCHANGED <<cache, cfg, lastPlca, silicon>>

(***************************************************************************)
(* The specification.                                                      *)
(***************************************************************************)

\* PhyLan867x::new by a restarted firmware: the chip keeps its state.
Restart ==
  /\ chip' = None /\ plca_id' = None
  /\ pc' = "idle" /\ n' = 0 /\ res' = "none" /\ link' = "none"
  /\ snap' = NoSnap /\ lastPlca' = "ok"
  /\ UNCHANGED <<cfg, silicon>>

\* new() on a chip that has just been powered.
Init ==
  /\ chip = None /\ plca_id = None
  /\ pc = "idle" /\ n = 0 /\ res = "none" /\ link = "none" /\ snap = NoSnap
  /\ cfg \in Configs /\ Valid(cfg) /\ lastPlca = "ok"
  /\ part \in Parts /\ phase = "booting"
  /\ mde = FALSE /\ en = FALSE /\ pst = FALSE
  /\ ctrl1 = ResetCtrl1 /\ burst = [maxbc |-> 0, btmr |-> ChipBtmr]

CallSome ==
  \/ CallInit \/ CallPoll \/ CallQuery \/ CallDisable \/ CallStatus
  \/ \E c \in Configs : CallConfigure(c) \/ RejectConfig(c)

DriverStep ==
  \/ SoftReset \/ AwaitReset \/ Handshake \/ HandshakeLost \/ Identify
  \/ ReadMde \/ WriteMde \/ PollLink \/ Query
  \/ WriteCtrl1 \/ WriteBurst \/ ReadEn \/ WriteEn
  \/ ReadDis \/ WriteDis \/ ReadStatus \/ ReadFails

Next == CallSome \/ DriverStep \/ Restart \/ ChipProgress \/ BeaconsChange

Spec == Init /\ [][Next]_vars

\* The processor keeps executing a method it has entered.
LiveSpec == Spec /\ WF_vars(DriverStep)

(***************************************************************************)
(* Properties.                                                             *)
(***************************************************************************)

Typed ==
  /\ chip \in Chips \cup {None} /\ plca_id \in U8 \cup {None}
  /\ pc \in Steps /\ n \in 0..ResetPolls /\ cfg \in Configs
  /\ snap \in [enabled : BOOLEAN, node_id : U8, stable : BOOLEAN]
  /\ link \in {"none", "up", "down"}
  /\ lastPlca \in {"ok", "ctrl1", "burst", "enable", "disable"}
  /\ part \in Parts /\ phase \in Phases
  /\ mde \in BOOLEAN /\ en \in BOOLEAN /\ pst \in BOOLEAN
  /\ ctrl1 \in Ctrl1Values /\ burst \in [maxbc : U8, btmr : U8]

TypeOK == Typed /\ res \in Results

\* "chip.is_some() == init has succeeded": whatever failed before, whenever a
\* chip is cached the silicon is out of reset, its RESETC handshake is done,
\* multidrop is on and the part is one the driver identified.
CommittedImpliesReady ==
  chip # None =>
    /\ phase = "ready" /\ mde
    /\ part.family /\ part.midver /\ part.pkg = chip

\* On an initialised driver the mode poll_link assumes is the silicon's: the
\* cached plca_id is Some exactly when PLCA_CTRL0.EN is set, after any mixture
\* of failed and successful calls (for a bus on which Err means "not written").
ModeAgrees == chip # None => (plca_id # None <=> en)

\* The same agreement, and the agreement of every PLCA parameter with the last
\* configuration accepted, on a bus where an Err may hide a write that landed:
\* it holds again as soon as one PLCA call succeeds ("Recovery: retry").
RetryRestoresAgreement ==
  chip # None /\ pc = "idle" /\ lastPlca = "ok" =>
    /\ plca_id # None <=> en
    /\ plca_id # None =>
         /\ plca_id = cfg.node_id
         /\ ctrl1 = Ctrl1Of(cfg) /\ burst = BurstOf(cfg)

\* An initialised chip never runs PLCA with the disabling id, nor as a node the
\* coordinator grants no transmit opportunity, even between two writes of a
\* reconfiguration or after one of them failed.
EnabledNodeHasOpportunity ==
  chip # None /\ en =>
    /\ ctrl1.id # U8Max
    /\ ctrl1.ncnt # 0 => ctrl1.id < ctrl1.ncnt

\* configure_plca flips EN last: PLCA starts only over the CTRL1 and BURST of
\* the configuration being applied, never over those of an earlier call.
EnableIsLast ==
  [][chip # None /\ ~en /\ en' => ctrl1 = Ctrl1Of(cfg) /\ burst = BurstOf(cfg)]_vars

\* poll_link tells the truth: an initialised driver reports up exactly when the
\* chip can exchange frames - PLCA off, or BEACONs flowing - and a driver not
\* initialised reports down.  Where an Err may hide a write that landed, this
\* excludes the polls between a failed PLCA call and the next that succeeds.
PollIsTruthful ==
  [][pc = "poll" /\ pc' = "idle" /\ res' = "ok" =>
       IF chip = None THEN link' = "down"
       ELSE lastPlca = "ok" \/ ~LateErr =>
              (link' = "up" <=> (en => pst))]_vars

\* A PlcaStatus is not torn although it is three reads: on an initialised chip
\* it never shows an id or an enable bit that is no longer current, and never
\* a stable bus with PLCA off.
StatusIsConsistent ==
  [][pc = "st_sts" /\ pc' = "idle" /\ res' = "ok" /\ chip # None =>
       /\ snap'.enabled = en /\ snap'.node_id = ctrl1.id
       /\ snap'.stable => snap'.enabled]_vars

\* The most steps the method in flight still takes, whatever it finds.
StepsFrom ==
  [idle |-> 0, poll |-> 1, query |-> 1, st_sts |-> 1, st_ctrl1 |-> 2, st_ctrl0 |-> 3,
   dis_wr |-> 1, dis_rd |-> 2, en_wr |-> 1, en_rd |-> 2, burst |-> 3, ctrl1 |-> 4,
   mde_wr |-> 1, mde_rd |-> 2, midver |-> 3, strap |-> 4, id |-> 5,
   handshake |-> 5, await_reset |-> 5 + ResetPolls, reset |-> 6 + ResetPolls + ResetPolls]
StepsLeft == StepsFrom[pc] + (IF pc \in {"await_reset", "handshake"} THEN n ELSE 0)

\* Every method returns, however the chip and the bus behave, because each step
\* brings it nearer to its end: the longest, init, makes at most 6 steps and twice
\* the reset polls.
EveryStepCounts == [][DriverStep => StepsLeft' \in 0..(StepsLeft - 1)]_vars

\* The refinement mapping onto PhyDriver: the trait's method in flight, and a
\* silicon that is out of reset in multidrop mode.
Method ==
  CASE pc = "idle" -> "none"
    [] pc \in InitSteps -> "init"
    [] pc = "poll" -> "poll_link"
    [] pc \in {"query"} \cup PlcaSteps \cup StatusSteps -> "other"
Usable == phase = "ready" /\ mde

\* Every call and every return sets res; only a new driver has none.
Restarted == pc = "idle" /\ res = "none"

Trait == INSTANCE PhyDriver WITH
  Modes <- {"up"}, Down <- "down", NoAnswer <- "none",
  call <- Method, ready <- chip # None, usable <- Usable, answer <- link, lost <- Restarted

\* The driver is a PhyDriver: chip.is_some() is the readiness init grants, a
\* chip so cached stays out of reset in multidrop mode through every other call,
\* failed or not, and only poll_link reports a link, in the one mode of the bus.
ImplementsPhyDriver == Trait!Spec

\* The documentation of configure_plca, on a failure of step 3: "In both cases
\* poll_link reads PLCA_STS.PST correctly from silicon".
PollReadsPstAfterFailedEnable ==
  [][pc = "poll" /\ pc' = "idle" /\ res' = "ok" /\ chip # None /\ lastPlca = "enable"
       => (link' = "up" <=> pst)]_vars

(***************************************************************************)
(* The inductive invariant: what init has established at each of its       *)
(* steps, what configure_plca has, and what agrees between calls.          *)
(***************************************************************************)

\* init works on an uncommitted driver, with PLCA off since its reset, on a
\* chip whose handshake is done, and on a part found good so far.
InitProgress ==
  /\ pc \in InitSteps => chip = None /\ plca_id = None
  /\ pc \in {"await_reset", "handshake"} => n > 0
  /\ pc = "await_reset" => ~en \/ phase = "held"
  /\ pc \in InitSteps \ {"reset", "await_reset"} => ~en
  /\ pc \in {"id", "strap", "midver", "mde_rd", "mde_wr"} => phase = "ready"
  /\ pc \in {"strap", "midver", "mde_rd", "mde_wr"} => part.family
  /\ pc \in {"midver", "mde_rd", "mde_wr"} => part.pkg \in Chips
  /\ pc \in {"mde_rd", "mde_wr"} => part.midver

\* On an initialised chip the writes of configure_plca are in place in order.
ConfigureProgress ==
  /\ Valid(cfg)
  /\ chip # None =>
       /\ pc \in {"burst", "en_rd", "en_wr"} => ctrl1 = Ctrl1Of(cfg)
       /\ pc \in {"en_rd", "en_wr"} => burst = BurstOf(cfg)

\* plca_status has read what the registers still hold.
StatusProgress ==
  /\ pst => en
  /\ chip # None =>
       /\ pc \in {"st_ctrl1", "st_sts"} => snap.enabled = en
       /\ pc = "st_sts" => snap.node_id = ctrl1.id

\* Cache and silicon agree unless an Err hid a write, and on the parameters
\* unless a configuration is being applied.
Agreement ==
  chip # None =>
    /\ lastPlca = "ok" \/ ~LateErr => (plca_id # None <=> en)
    /\ lastPlca = "ok" /\ plca_id # None /\ pc \notin {"ctrl1", "burst", "en_rd", "en_wr"} =>
         plca_id = cfg.node_id /\ ctrl1 = Ctrl1Of(cfg) /\ burst = BurstOf(cfg)

IInv ==
  /\ CommittedImpliesReady /\ InitProgress /\ ConfigureProgress
  /\ StatusProgress /\ EnabledNodeHasOpportunity /\ Agreement
=============================================================================
