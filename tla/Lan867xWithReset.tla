-------------------------- MODULE Lan867xWithReset --------------------------
(***************************************************************************)
(* PhyLan867xWithReset: the driver of Lan867x and the RESET_N pin.  The    *)
(* wrapper delegates every PhyDriver method to the inner driver and adds   *)
(* hardware_reset, which drives the pin and leaves the inner driver alone. *)
(* The pin resets the same silicon the inner driver programs.              *)
(***************************************************************************)
EXTENDS Lan867x

VARIABLES
  pulse,   \* "none", or "low" while hardware_reset holds RESET_N down
  stale    \* history: the pin has moved since the last successful init

resetVars == <<pulse, stale>>
allVars == <<vars, resetVars>>

\* set_low()? - on success the chip is in reset and its registers are gone.
DriveLow ==
  /\ pc = "idle" /\ pulse = "none"
  /\ phase' = "held" /\ Defaults
  /\ pulse' = "low" /\ stale' = TRUE
  /\ UNCHANGED <<cache, pc, n, cfg, snap, res, link, lastPlca, part>>

\* set_low()? returning Err: the pin did not move.
DriveLowFails ==
  /\ pc = "idle" /\ pulse = "none" /\ res' = "Pin"
  /\ UNCHANGED <<cache, pc, n, cfg, snap, link, lastPlca, silicon, resetVars>>

\* set_high()? - the chip boots; the 25 ms delay is time for it to make progress.
Release ==
  /\ pulse = "low" /\ pulse' = "none"
  /\ phase' = "booting"
  /\ UNCHANGED <<cache, pc, n, cfg, snap, res, link, lastPlca, part, mde, plcaRegs, stale>>

\* set_high()? returning Err: hardware_reset is left with RESET_N still low.
ReleaseFails ==
  /\ pulse = "low" /\ pulse' = "none" /\ res' = "Pin"
  /\ UNCHANGED <<cache, pc, n, cfg, snap, link, lastPlca, silicon, stale>>

\* A step of the inner driver: init's commit makes the cache current again.
Inner(step) ==
  /\ pulse = "none" /\ UNCHANGED pulse
  /\ step
  /\ stale' = (stale /\ ~(pc = "mde_wr" /\ res' = "ok"))

Environment == (ChipProgress \/ BeaconsChange) /\ UNCHANGED resetVars

WithResetInit == Init /\ pulse = "none" /\ stale = FALSE

WithResetNext ==
  \/ DriveLow \/ DriveLowFails \/ Release \/ ReleaseFails
  \/ Inner(CallSome \/ DriverStep \/ Restart) \/ Environment

WithResetSpec == WithResetInit /\ [][WithResetNext]_allVars

\* hardware_reset, once entered, is executed to its end like any method.
WithResetLive ==
  /\ WithResetSpec
  /\ WF_allVars(Inner(DriverStep)) /\ WF_allVars(Release \/ ReleaseFails)

(***************************************************************************)
(* Properties.                                                             *)
(***************************************************************************)

\* Once init has succeeded after the last movement of the pin, the cache is
\* current again, however many pulses, failed pulses and failed inits came
\* before: chip.is_some() means a ready chip, and plca_id means its PLCA mode.
ReinitRestores == ~stale => CommittedImpliesReady /\ RetryRestoresAgreement

\* No method hangs on a chip that is held in reset and floats the bus high, and
\* hardware_reset itself comes to an end.
EverythingReturns ==
  (pc # "idle" \/ pulse = "low") ~> (pc = "idle" /\ pulse = "none")

WithResetTrait == INSTANCE PhyDriver WITH
  Modes <- {"up"}, Down <- "down", NoAnswer <- "none",
  call <- Method, ready <- chip # None /\ ~stale, usable <- Usable, answer <- link,
  lost <- Restarted \/ pulse = "low"

\* The wrapper is a PhyDriver too; a movement of the pin takes back what the
\* last init had granted, and the next one grants it again.
WrapperImplementsPhyDriver == WithResetTrait!Spec
=============================================================================
