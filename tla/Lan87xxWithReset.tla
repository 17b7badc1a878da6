-------------------------- MODULE Lan87xxWithReset --------------------------
(***************************************************************************)
(* PhyLan87xxWithReset: the driver of Lan87xx and the nRST pin.            *)
(* hardware_reset drives the pin; every other method is the inner          *)
(* driver's, which never learns of it.  A chip held in reset answers       *)
(* nothing, and comes out of it with whatever straps and cold-boot quirk   *)
(* give it: no loopback, no forced mode, ANAR perhaps not in full.         *)
(***************************************************************************)
EXTENDS Lan87xx

VARIABLES
  nrst,    \* the level of the pin
  pulse,   \* "low" while hardware_reset is between set_low and set_high
  stale,   \* history: the pin has moved since the last successful init
  seen     \* history: LINK_STATUS has been 1 during the poll_link in flight

resetVars == <<nrst, pulse, stale, seen>>
allVars == <<vars, resetVars>>

PollSteps == {"bmsr", "bmcr", "pscsr"}
LinkSeen == seen' = (pc' \in PollSteps /\ (linkUp' \/ (pc \in PollSteps /\ seen)))

\* set_low()?
DriveLow ==
  /\ pc = "idle" /\ pulse = "none"
  /\ nrst' = "low" /\ pulse' = "low" /\ stale' = TRUE
  /\ bmcr' = {"RESET"} /\ alive' = FALSE /\ linkUp' = FALSE /\ an' = "off"
  /\ UNCHANGED <<driver, part, anar, edpd, adv, partner, seen>>

\* set_low()? returning Err: the pin did not move.
DriveLowFails ==
  /\ pc = "idle" /\ pulse = "none" /\ res' = "Pin"
  /\ UNCHANGED <<link_up, call, link, history, silicon, resetVars>>

\* set_high()?: in the 25 ms that follow ResetCompletes may happen, or not yet.
Release ==
  /\ pulse = "low" /\ pulse' = "none" /\ nrst' = "high" /\ alive' \in BOOLEAN
  /\ UNCHANGED <<driver, part, bmcr, anar, edpd, negotiation, linkUp, partner, stale, seen>>

\* set_high()? returning Err: hardware_reset is left with nRST still low.
ReleaseFails ==
  /\ pulse = "low" /\ pulse' = "none" /\ res' = "Pin"
  /\ UNCHANGED <<link_up, call, link, history, silicon, nrst, stale, seen>>

\* A step of a delegated method, or of a helper on the same PHY; an init that
\* returns Ok ends what the pin began.
Inner(step) ==
  /\ pulse = "none" /\ step /\ LinkSeen
  /\ stale' = (stale /\ ~(op = "init" /\ pc = "bmcr_wr" /\ res' = "ok"))
  /\ UNCHANGED <<nrst, pulse>>

Environment ==
  /\ \/ nrst = "high" /\ (ResetCompletes \/ ClockChanges)
     \/ RestartSelfClears \/ AnCompletes \/ LinkRises \/ CableMoves
  /\ LinkSeen /\ UNCHANGED <<nrst, pulse, stale>>

WithResetInit ==
  Init /\ nrst = "high" /\ pulse = "none" /\ stale = FALSE /\ seen = FALSE

WithResetNext ==
  \/ DriveLow \/ DriveLowFails \/ Release \/ ReleaseFails
  \/ Inner(CallSome \/ DriverStep \/ New) \/ Environment

WithResetSpec == WithResetInit /\ [][WithResetNext]_allVars

\* hardware_reset, once entered, is executed to its end like any method.
WithResetLive ==
  /\ WithResetSpec
  /\ WF_allVars(Inner(DriverStep)) /\ WF_allVars(Release \/ ReleaseFails)

(***************************************************************************)
(* Properties.                                                             *)
(***************************************************************************)

\* hardware_reset does not tell the inner driver, whose link_up still holds what
\* poll_link said before the pulse.  Whether init is called again or forgotten,
\* and whether the pin was released or stuck low, poll_link reports a link only
\* if LINK_STATUS has been 1 since that very call began, on a chip that answers.
PollNeverInvents == [][\A m \in Modes : Polled(m) => seen /\ alive]_allVars

\* An init that returns Ok after the last movement of the pin gives the caller
\* the full negotiation and the forced modes back, for good.
ReinitRestoresModes ==
  [][\A m \in Modes : Polled(m) /\ alive /\ ~stale =>
       /\ asked = AutoNeg => m = Best(partner)
       /\ asked \in Modes => m = asked]_allVars

\* No method hangs on a chip held in reset, and hardware_reset comes to an end.
EverythingReturns ==
  (pc # "idle" \/ pulse = "low") ~> (pc = "idle" /\ pulse = "none")

WithResetTrait == INSTANCE PhyDriver WITH
  Modes <- Modes, Down <- Down, NoAnswer <- Nothing,
  call <- Method, ready <- initOk /\ ~stale, usable <- Usable, answer <- link,
  lost <- Restarted \/ pulse = "low"

\* The wrapper is a PhyDriver too; a movement of the pin takes back what the
\* last init had granted, and the next one grants it again.
WrapperImplementsPhyDriver == WithResetTrait!Spec
=============================================================================
