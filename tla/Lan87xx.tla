------------------------------ MODULE Lan87xx ------------------------------
(***************************************************************************)
(* The PhyLan87xx driver (crates/eth-phy-lan87xx/src/lib.rs) with the      *)
(* ieee802_3 helpers its callers also use directly, over a LAN87xx that    *)
(* negotiates with a partner on its own.  One action is one MDIO access;   *)
(* any access may return Err.                                              *)
(***************************************************************************)
EXTENDS Ieee8023

CONSTANTS
  ResetPolls,   \* 500 reads of BMCR in soft_reset
  ResetBmcrs,   \* BMCR after a reset, as the configuration straps set it
  ResetAnars,   \* what ANAR may advertise after a reset (the cold-boot quirk)
  Partners,     \* the abilities of link partners that may be plugged in
  Parts,        \* the parts that may answer at this MDIO address
  Forced,       \* the modes callers force
  BusErrors,    \* may MDIO accesses return Err?
  LateErr       \* may an access that returns Err still have reached the chip?

ASSUME ConstantsAssumption ==
  /\ ResetPolls \in Nat /\ ResetPolls > 0
  /\ ResetBmcrs \subseteq SUBSET (BmcrBits \ {"RESET", "AN_RESTART", "LOOPBACK", "POWER_DOWN"})
  /\ ResetAnars \subseteq SUBSET Modes
  /\ Partners \subseteq SUBSET Modes
  /\ Parts \subseteq [oui : BOOLEAN, model : BOOLEAN]
  /\ Forced \subseteq Modes
  /\ BusErrors \in BOOLEAN /\ LateErr \in BOOLEAN

VARIABLES
  link_up,                     \* struct PhyLan87xx
  op, pc, n, cur, arg,         \* the method in flight and its locals
  res, link,                   \* how the last method returned; what poll_link said
  initOk, asked,               \* history: last init Ok; the mode last asked for
  part, alive,                 \* silicon: identity; does it answer on MDIO?
  bmcr, anar, edpd,            \* BMCR, ANAR, MCSR.EDPD_EN
  an, adv,                     \* auto-negotiation: progress, abilities in use
  linkUp, partner              \* BMSR.LINK_STATUS, the other end of the cable

call == <<op, pc, n, cur, arg>>
report == <<res, link>>
history == <<initOk, asked>>
driver == <<link_up, call, report, history>>
negotiation == <<an, adv>>
silicon == <<part, alive, bmcr, anar, edpd, negotiation, linkUp, partner>>
vars == <<driver, silicon>>

\* What stands beside a mode in `link` and `asked`.
Nothing == [speed |-> 0, duplex |-> "none"]
Down == [speed |-> 0, duplex |-> "down"]
AutoNeg == [speed |-> 0, duplex |-> "auto"]
Unknown == [speed |-> 0, duplex |-> "unknown"]

Ops == {"init", "poll_link", "query", "enable_an", "force_link", "loopback"}
ReadSteps == {"query", "await_reset", "id", "mcsr_rd", "bmcr_rd", "bmsr", "bmcr", "pscsr"}
Steps == ReadSteps \cup {"idle", "reset", "mcsr_wr", "anar", "bmcr_wr", "lb_on"}
Results == {"none", "ok", "Mdio", "ResetTimeout", "UnsupportedChip"}

(***************************************************************************)
(* The silicon.                                                            *)
(***************************************************************************)

\* A chip without a clock leaves MDIO floating high.
BmcrRead == IF alive THEN bmcr ELSE BmcrBits
LinkRead == linkUp \/ ~alive

Common == adv \cap partner

\* PSCSR: the encoding of a mode, and what a read returns; the speed field is
\* indeterminate until AUTODONE.
Code(m) == (IF m.speed = 100 THEN 2 ELSE 1) + (IF m.duplex = "full" THEN 4 ELSE 0)
PscsrReads ==
  IF ~alive THEN {[autodone |-> TRUE, code |-> 7]}
  ELSE IF an = "done" THEN {[autodone |-> TRUE, code |-> Code(Best(Common))]}
  ELSE [autodone : {FALSE}, code : 0..7]

\* A write of BMCR that reaches the chip.  A chip in reset ignores it; RESET
\* starts a reset; AN_RESTART, or AN_ENABLE on a chip that was not negotiating,
\* starts a negotiation with the abilities ANAR holds now.
BmcrWritten(w) ==
  /\ bmcr' = IF "RESET" \in bmcr THEN bmcr ELSE IF "RESET" \in w THEN {"RESET"} ELSE w
  /\ linkUp' = (linkUp /\ "RESET" \notin bmcr')
  /\ \/ "AN_ENABLE" \notin bmcr' /\ an' = "off" /\ UNCHANGED adv
     \/ /\ "AN_ENABLE" \in bmcr'
        /\ IF "AN_RESTART" \in bmcr' \/ an = "off"
             THEN an' = "running" /\ adv' = anar
             ELSE UNCHANGED negotiation

\* Whether a write returns Ok and whether it reached the chip.
Outcome(ok, landed) ==
  /\ ok => landed = alive
  /\ ~ok => BusErrors /\ (landed => LateErr /\ alive)

\* RESET self-clears: the registers are reloaded, ANAR perhaps not in full.
ResetCompletes ==
  /\ "RESET" \in bmcr /\ bmcr' \in ResetBmcrs
  /\ anar' \in ResetAnars /\ edpd' \in BOOLEAN
  /\ an' = (IF "AN_ENABLE" \in bmcr' THEN "running" ELSE "off") /\ adv' = anar'
  /\ UNCHANGED <<driver, part, alive, linkUp, partner>>

RestartSelfClears ==
  /\ {"AN_RESTART", "AN_ENABLE"} \subseteq bmcr
  /\ bmcr' = bmcr \ {"AN_RESTART"}
  /\ UNCHANGED <<driver, part, alive, anar, edpd, negotiation, linkUp, partner>>

AnCompletes ==
  /\ an = "running" /\ Common # {} /\ an' = "done"
  /\ UNCHANGED <<driver, part, alive, bmcr, anar, edpd, adv, linkUp, partner>>

\* LINK_STATUS may rise while auto-negotiation is still converging.
LinkRises ==
  /\ ~linkUp /\ "RESET" \notin bmcr /\ linkUp' = TRUE
  /\ UNCHANGED <<driver, part, alive, bmcr, anar, edpd, negotiation, partner>>

\* The cable is pulled or moved to another partner; negotiation starts over.
CableMoves ==
  /\ linkUp' = FALSE /\ partner' \in Partners
  /\ IF an = "off" THEN UNCHANGED negotiation ELSE an' = "running" /\ adv' = anar
  /\ UNCHANGED <<driver, part, alive, bmcr, anar, edpd>>

\* The reference clock stops or returns, between two calls.
ClockChanges ==
  /\ pc = "idle" /\ alive' = ~alive
  /\ UNCHANGED <<driver, part, bmcr, anar, edpd, negotiation, linkUp, partner>>

(***************************************************************************)
(* Control flow shared by the methods.                                     *)
(***************************************************************************)

Call(method, step) ==
  /\ pc = "idle" /\ op' = method /\ pc' = step
  /\ res' = "none" /\ link' = Nothing

Goto(step) == pc' = step /\ UNCHANGED report
Return(r) == pc' = "idle" /\ res' = r /\ UNCHANGED link

\* A read that returns Err ends the method and leaves all else as it was.
ReadFails ==
  /\ BusErrors /\ pc \in ReadSteps
  /\ Return("Mdio") /\ n' = 0
  /\ UNCHANGED <<op, cur, arg, link_up, history, silicon>>

(***************************************************************************)
(* init                                                                    *)
(***************************************************************************)

CallInit ==
  /\ Call("init", "reset")
  /\ initOk' = FALSE /\ asked' = Unknown
  /\ UNCHANGED <<link_up, n, cur, arg, silicon>>

\* soft_reset: the raw write of BMCR.RESET.
SoftReset ==
  /\ pc = "reset"
  /\ \E ok, landed \in BOOLEAN :
       /\ Outcome(ok, landed)
       /\ IF landed THEN BmcrWritten({"RESET"}) ELSE UNCHANGED <<bmcr, linkUp, negotiation>>
       /\ IF ok THEN Goto("await_reset") /\ n' = ResetPolls
                ELSE Return("Mdio") /\ UNCHANGED n
  /\ UNCHANGED <<link_up, op, cur, arg, history, part, alive, anar, edpd, partner>>

\* Bugs: the poll counter runs past zero; it is reloaded when it runs out.
BugAwaitUnderflows ==
  /\ pc = "await_reset"
  /\ \/ "RESET" \notin BmcrRead /\ Goto("id") /\ n' = 0
     \/ "RESET" \in BmcrRead /\ n' = n - 1 /\ UNCHANGED <<pc, report>>
  /\ UNCHANGED <<link_up, op, cur, arg, history, silicon>>
BugAwaitForever ==
  /\ pc = "await_reset"
  /\ \/ "RESET" \notin BmcrRead /\ Goto("id") /\ n' = 0
     \/ "RESET" \in BmcrRead /\ n' = (IF n > 1 THEN n - 1 ELSE ResetPolls) /\ UNCHANGED <<pc, report>>
  /\ UNCHANGED <<link_up, op, cur, arg, history, silicon>>

\* soft_reset: for _ in 0..max_attempts, until RESET reads 0.
AwaitReset ==
  /\ pc = "await_reset"
  /\ \/ "RESET" \notin BmcrRead /\ Goto("id") /\ n' = 0
     \/ "RESET" \in BmcrRead /\ n > 1 /\ n' = n - 1 /\ UNCHANGED <<pc, report>>
     \/ "RESET" \in BmcrRead /\ n = 1 /\ n' = 0 /\ Return("ResetTimeout")
  /\ UNCHANGED <<link_up, op, cur, arg, history, silicon>>

\* The id read under PHY_OUI_MASK: model and revision are masked away, and a
\* floating bus reads as an OUI of all ones.
OuiMatches == part.oui /\ alive

\* read_phy_id against the OUI, and the read half of the MCSR update.
CheckId ==
  /\ \/ pc = "id" /\ OuiMatches /\ Goto("mcsr_rd")
     \/ pc = "id" /\ ~OuiMatches /\ Return("UnsupportedChip")
     \/ pc = "mcsr_rd" /\ Goto("mcsr_wr")
  /\ UNCHANGED <<link_up, op, n, cur, arg, history, silicon>>

\* MCSR without EDPD_EN.
WriteMcsr ==
  /\ pc = "mcsr_wr"
  /\ \E ok, landed \in BOOLEAN :
       /\ Outcome(ok, landed)
       /\ edpd' = (edpd /\ ~landed)
       /\ IF ok THEN Goto("anar") ELSE Return("Mdio")
  /\ UNCHANGED <<link_up, op, n, cur, arg, history, part, alive, bmcr, anar,
                 negotiation, linkUp, partner>>

StandardAnar == {"TX_FD", "TX_HD", "T10_FD", "T10_HD", "SELECTOR_IEEE802_3"}

\* Bug: ANAR is taken to have its documented default after the reset.
BugAnarKept ==
  /\ pc = "anar" /\ Goto("bmcr_rd")
  /\ UNCHANGED <<link_up, op, n, cur, arg, history, silicon>>

\* ANAR = 0x01E1.
WriteAnar ==
  /\ pc = "anar"
  /\ \E ok, landed \in BOOLEAN :
       /\ Outcome(ok, landed)
       /\ anar' = IF landed THEN Advertised(StandardAnar) ELSE anar
       /\ IF ok THEN Goto("bmcr_rd") ELSE Return("Mdio")
  /\ UNCHANGED <<link_up, op, n, cur, arg, history, part, alive, bmcr, edpd,
                 negotiation, linkUp, partner>>

(***************************************************************************)
(* The read-modify-writes of BMCR: enable_auto_negotiation (by init or by  *)
(* the caller), force_link and set_loopback(false).                        *)
(***************************************************************************)

CallEnableAn == Call("enable_an", "bmcr_rd") /\ UNCHANGED <<link_up, n, cur, arg, history, silicon>>

CallForceLink(m) ==
  /\ Call("force_link", "bmcr_rd") /\ arg' = m
  /\ UNCHANGED <<link_up, n, cur, history, silicon>>

CallLoopbackOff ==
  Call("loopback", "bmcr_rd") /\ UNCHANGED <<link_up, n, cur, arg, history, silicon>>

ReadBmcr ==
  /\ pc = "bmcr_rd" /\ Goto("bmcr_wr") /\ cur' = BmcrRead
  /\ UNCHANGED <<link_up, op, n, arg, history, silicon>>

\* Bug: loopback is switched off as it is switched on, with one raw word.
BugRawLoopbackOff ==
  CASE op \in {"init", "enable_an"} -> WithAutoNeg(cur)
    [] op = "force_link" -> WithForced(cur, arg)
    [] op = "loopback" -> {}

Updated ==
  CASE op \in {"init", "enable_an"} -> WithAutoNeg(cur)
    [] op = "force_link" -> WithForced(cur, arg)
    [] op = "loopback" -> cur \ {"LOOPBACK"}

\* What the caller may now expect poll_link to report, given that init had
\* returned Ok before this write of BMCR returned `ok`.
Expected(ok, landed) ==
  IF ~(ok /\ landed /\ initOk') THEN Unknown
  ELSE CASE op \in {"init", "enable_an"} -> AutoNeg
         [] op = "force_link" -> arg
         [] op = "loopback" -> asked

\* The write half; init ends here.
WriteBmcr ==
  /\ pc = "bmcr_wr" /\ cur' = {}
  /\ \E ok, landed \in BOOLEAN :
       /\ Outcome(ok, landed)
       /\ IF landed THEN BmcrWritten(Updated) ELSE UNCHANGED <<bmcr, linkUp, negotiation>>
       /\ Return(IF ok THEN "ok" ELSE "Mdio")
       /\ initOk' = (initOk \/ (ok /\ op = "init"))
       /\ link_up' = (link_up /\ ~(ok /\ op = "init"))
       /\ asked' = Expected(ok, landed)
  /\ UNCHANGED <<op, n, arg, part, alive, anar, edpd, partner>>

\* set_loopback(true): one raw write.
CallLoopbackOn == Call("loopback", "lb_on") /\ UNCHANGED <<link_up, n, cur, arg, history, silicon>>

WriteLoopbackOn ==
  /\ pc = "lb_on" /\ asked' = Unknown
  /\ \E ok, landed \in BOOLEAN :
       /\ Outcome(ok, landed)
       /\ IF landed THEN BmcrWritten({"LOOPBACK", "SPEED_100", "DUPLEX_FULL"})
                    ELSE UNCHANGED <<bmcr, linkUp, negotiation>>
       /\ Return(IF ok THEN "ok" ELSE "Mdio")
       /\ link_up' = (link_up /\ ~ok)
  /\ UNCHANGED <<op, n, cur, arg, initOk, part, alive, anar, edpd, partner>>

(***************************************************************************)
(* poll_link, capabilities, phy_id                                         *)
(***************************************************************************)

\* Bug: a link that was up is not looked for again.
BugTrustsCachedLink ==
  /\ Call("poll_link", IF link_up THEN "bmcr" ELSE "bmsr")
  /\ UNCHANGED <<link_up, n, cur, arg, history, silicon>>

CallPoll == Call("poll_link", "bmsr") /\ UNCHANGED <<link_up, n, cur, arg, history, silicon>>

Report(l) == pc' = "idle" /\ res' = "ok" /\ link' = l /\ link_up' = (l \in Modes)

ReadBmsr ==
  /\ pc = "bmsr"
  /\ \/ ~LinkRead /\ Report(Down)
     \/ LinkRead /\ Goto("bmcr") /\ UNCHANGED link_up
  /\ UNCHANGED <<op, n, cur, arg, history, silicon>>

\* Bug: the mode of a forced link is looked for in PSCSR too.
BugWaitsForAutodone ==
  /\ pc = "bmcr" /\ Goto("pscsr")
  /\ UNCHANGED <<link_up, op, n, cur, arg, history, silicon>>

\* AN_ENABLE decides where the mode is read from.
ReadMode ==
  /\ pc = "bmcr"
  /\ \/ "AN_ENABLE" \in BmcrRead /\ Goto("pscsr") /\ UNCHANGED link_up
     \/ "AN_ENABLE" \notin BmcrRead /\ Report(ForcedMode(BmcrRead))
  /\ UNCHANGED <<op, n, cur, arg, history, silicon>>

\* Bugs: a reserved code is taken for 10 Mbps; 100BASE-TX half is not known.
BugReservedIs10(code) ==
  [speed |-> IF code \in {2, 6} THEN 100 ELSE 10, duplex |-> IF code > 4 THEN "full" ELSE "half"]
BugNoHalfDuplex(code) ==
  IF \E m \in Modes : m.duplex = "full" /\ Code(m) = code THEN CHOOSE m \in Modes : Code(m) = code ELSE Down

\* parse_pscsr, its None mapped to LinkState::down().
Decoded(code) ==
  IF \E m \in Modes : Code(m) = code THEN CHOOSE m \in Modes : Code(m) = code ELSE Down

\* Bug: the speed field is decoded without a look at AUTODONE.
BugNoAutodone ==
  /\ pc = "pscsr"
  /\ \E p \in PscsrReads : Report(Decoded(p.code))
  /\ UNCHANGED <<op, n, cur, arg, history, silicon>>

ReadPscsr ==
  /\ pc = "pscsr"
  /\ \E p \in PscsrReads : Report(IF p.autodone THEN Decoded(p.code) ELSE Down)
  /\ UNCHANGED <<op, n, cur, arg, history, silicon>>

\* capabilities and phy_id only read bits that never change.
CallQuery == Call("query", "query") /\ UNCHANGED <<link_up, n, cur, arg, history, silicon>>
Query ==
  /\ pc = "query" /\ Return("ok")
  /\ UNCHANGED <<op, n, cur, arg, link_up, history, silicon>>

(***************************************************************************)
(* The specification.                                                      *)
(***************************************************************************)

\* PhyLan87xx::new, by a restarted firmware or (Init) on a chip just powered.
New ==
  /\ link_up' = FALSE /\ op' = "init" /\ pc' = "idle" /\ n' = 0 /\ cur' = {}
  /\ res' = "none" /\ link' = Nothing /\ initOk' = FALSE /\ asked' = Unknown
  /\ UNCHANGED <<arg, silicon>>

Init ==
  /\ link_up = FALSE /\ op = "init" /\ pc = "idle" /\ n = 0 /\ cur = {}
  /\ arg \in Forced /\ res = "none" /\ link = Nothing
  /\ initOk = FALSE /\ asked = Unknown
  /\ part \in Parts /\ alive \in BOOLEAN
  /\ bmcr \in ResetBmcrs /\ anar \in ResetAnars /\ edpd \in BOOLEAN
  /\ an = (IF "AN_ENABLE" \in bmcr THEN "running" ELSE "off") /\ adv = anar
  /\ linkUp = FALSE /\ partner \in Partners

CallSome ==
  \/ CallInit \/ CallPoll \/ CallQuery \/ CallEnableAn \/ CallLoopbackOn
  \/ CallLoopbackOff \/ \E m \in Forced : CallForceLink(m)

DriverStep ==
  \/ SoftReset \/ AwaitReset \/ CheckId \/ WriteMcsr \/ WriteAnar
  \/ ReadBmcr \/ WriteBmcr \/ WriteLoopbackOn
  \/ ReadBmsr \/ ReadMode \/ ReadPscsr \/ Query \/ ReadFails

ChipProgress == ResetCompletes \/ RestartSelfClears \/ AnCompletes \/ LinkRises

Next == CallSome \/ DriverStep \/ ChipProgress \/ CableMoves \/ ClockChanges \/ New

Spec == Init /\ [][Next]_vars

\* The program of the README: init once, then poll until the link is up, with
\* the clock running and the cable left in place.
QuickStartNext ==
  \/ ~initOk /\ CallInit
  \/ initOk /\ link \notin Modes /\ CallPoll
  \/ DriverStep \/ ChipProgress
QuickStartInit == Init /\ alive
QuickStart ==
  /\ QuickStartInit /\ [][QuickStartNext]_vars
  /\ WF_vars(DriverStep) /\ WF_vars(initOk /\ link \notin Modes /\ CallPoll)
  /\ WF_vars(AnCompletes) /\ WF_vars(LinkRises)

(***************************************************************************)
(* Properties.                                                             *)
(***************************************************************************)

Typed ==
  /\ link_up \in BOOLEAN /\ op \in Ops /\ pc \in Steps /\ n \in 0..ResetPolls
  /\ cur \subseteq BmcrBits /\ arg \in Forced
  /\ link \in Modes \cup {Nothing, Down}
  /\ initOk \in BOOLEAN /\ asked \in Modes \cup {AutoNeg, Unknown}
  /\ part \in Parts /\ alive \in BOOLEAN
  /\ bmcr \subseteq BmcrBits /\ anar \subseteq Modes /\ edpd \in BOOLEAN
  /\ an \in {"off", "running", "done"} /\ adv \subseteq Modes
  /\ linkUp \in BOOLEAN /\ partner \in Partners

TypeOK == Typed /\ res \in Results

\* poll_link has just returned Ok with link l.
Polled(l) == pc \in {"bmsr", "bmcr", "pscsr"} /\ pc' = "idle" /\ res' = "ok" /\ link' = l

\* The cold-boot fix: once init has returned Ok, a negotiated link is reported
\* in the best mode the partner is capable of, whatever ANAR held after the
\* reset, however often the cable moved and whatever was forced in between.
NegotiatedInFull ==
  [][\A m \in Modes : Polled(m) /\ alive /\ asked = AutoNeg => m = Best(partner)]_vars

\* A forced link is reported in the mode last forced, by whatever path the BMCR
\* got there, until another successful or failed call reprograms it; and it is
\* reported, not lost in an AUTODONE that never comes: down only for LINK_STATUS.
ForcedModeIsReported ==
  [][\A l \in Modes \cup {Down} : Polled(l) /\ alive /\ asked \in Modes =>
       l = (IF pc = "bmsr" /\ ~linkUp THEN Down ELSE asked)]_vars

\* "PSCSR speed/duplex bits are only valid after AUTODONE is set": whatever was
\* called before, a link reported while auto-negotiation is enabled has been
\* negotiated, in that mode, with the partner that is plugged in now.
UpIsNegotiated ==
  [][\A m \in Modes : Polled(m) /\ alive /\ "AN_ENABLE" \in bmcr =>
       an = "done" /\ m = Best(Common)]_vars

\* On a bus that floats high every status bit reads 1, LINK_STATUS and AUTODONE
\* among them; poll_link still never reports a link.
FloatingBusIsDown == [][\A m \in Modes : Polled(m) => alive]_vars

\* When init returns Ok the PHY is out of reset, loopback, isolation and energy
\* detect power-down, and negotiates with all its abilities, whatever loopback,
\* forced or half-finished configuration it was called on.
InitLeavesNegotiating ==
  [][op = "init" /\ pc # "idle" /\ pc' = "idle" /\ res' = "ok" =>
       /\ bmcr' \cap {"RESET", "LOOPBACK", "ISOLATE", "POWER_DOWN"} = {} /\ ~edpd'
       /\ "AN_ENABLE" \in bmcr' /\ an' = "running" /\ adv' = Modes]_vars

\* "Clearing here keeps the behaviour deterministic across the two helpers
\* regardless of call order": no sequence of calls leaves AN_RESTART set on a
\* PHY that is not auto-negotiating, where it would not self-clear.
RestartOnlyWhileNegotiating == "AN_RESTART" \in bmcr => "AN_ENABLE" \in bmcr

\* set_loopback(false) "clears only bit 14, preserving all other BMCR settings",
\* although the chip may clear AN_RESTART between its read and its write; only a
\* restart still pending when BMCR was read is asked for again.
LoopbackOffPreserves ==
  [][op = "loopback" /\ pc = "bmcr_wr" /\ pc' = "idle" /\ initOk =>
       /\ bmcr' \ {"LOOPBACK", "AN_RESTART"} = bmcr \ {"LOOPBACK", "AN_RESTART"}
       /\ res' = "ok" /\ alive => "LOOPBACK" \notin bmcr'
       /\ "AN_RESTART" \notin cur => "AN_RESTART" \notin bmcr' /\ UNCHANGED negotiation]_vars

\* The most steps the method in flight still takes, whatever it finds.
StepsFrom ==
  [idle |-> 0, query |-> 1, lb_on |-> 1, pscsr |-> 1, bmcr |-> 2, bmsr |-> 3,
   bmcr_wr |-> 1, bmcr_rd |-> 2, anar |-> 3, mcsr_wr |-> 4, mcsr_rd |-> 5, id |-> 6,
   await_reset |-> 6, reset |-> 7 + ResetPolls]
StepsLeft == StepsFrom[pc] + (IF pc = "await_reset" THEN n ELSE 0)

\* Every method returns, however the chip and the bus behave, because each step
\* brings it nearer to its end: the longest, init, makes at most 7 steps and the
\* reset polls.
EveryStepCounts == [][DriverStep => StepsLeft' \in 0..(StepsLeft - 1)]_vars

\* The README's loop ends: after an init that returned Ok, polling reports the
\* link up "once auto-neg has converged".
LoopEnds == initOk ~> link \in Modes

\* The refinement mapping onto PhyDriver: the trait's method in flight, and a
\* silicon out of reset, isolation and power-down that advertises all it can.
Method ==
  CASE pc = "idle" -> "none"
    [] pc # "idle" /\ op \in {"init", "poll_link"} -> op
    [] pc # "idle" /\ op \notin {"init", "poll_link"} -> "other"
Usable ==
  bmcr \cap {"RESET", "ISOLATE", "POWER_DOWN"} = {} /\ ~edpd /\ anar = Modes

\* Every call and every return sets res; only a new driver has none.
Restarted == pc = "idle" /\ res = "none"

Trait == INSTANCE PhyDriver WITH
  Modes <- Modes, Down <- Down, NoAnswer <- Nothing,
  call <- Method, ready <- initOk, usable <- Usable, answer <- link, lost <- Restarted

\* The driver is a PhyDriver: no sequence of the BMCR helpers, loopback and
\* polls takes away what init has granted, although each writes back a word it
\* has read before: none restores a RESET or ISOLATE bit of an earlier life.
ImplementsPhyDriver == Trait!Spec

\* The README: init "rejects anything that doesn't decode to a known LAN87xx
\* OUI / model".
InitChecksModel == initOk => part.model

\* The README: init returns UnsupportedChip with id 0xFFFF_FFFF when "MDIO bus
\* reads are floating high".
FloatingBusIsUnsupported ==
  [][op = "init" /\ pc # "idle" /\ pc' = "idle" /\ ~alive /\ res' \notin {"none", "Mdio"} =>
       res' = "UnsupportedChip"]_vars
=============================================================================
