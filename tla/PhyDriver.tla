------------------------------ MODULE PhyDriver ------------------------------
(***************************************************************************)
(* What a caller of the trait PhyDriver (eth-mdio-phy/src/phy.rs) may rely *)
(* on, whichever chip is behind it.  Methods run one at a time.  Only init *)
(* makes a PHY ready, by returning Ok, and from then on the PHY stays      *)
(* usable until the next init begins, the firmware restarts or a reset pin *)
(* moves - whatever else is called, and whichever of those calls fail.     *)
(* poll_link is the only method that says anything of the link, and what   *)
(* it says is a link state in full.                                        *)
(***************************************************************************)
CONSTANTS
  Modes,     \* the modes an up LinkState may have
  Down,      \* LinkState::down()
  NoAnswer   \* no LinkState returned since the last call began

VARIABLES
  call,      \* the method in flight, or "none"
  ready,     \* has init returned Ok, with nothing since to undo it?
  usable,    \* is the silicon configured, and able to bring up a link?
  answer,    \* what poll_link has returned
  lost       \* has the firmware restarted, or the reset pin moved, with no call since?

vars == <<call, ready, usable, answer, lost>>

\* A silicon that is not known to be ready may be in any state.
SiliconMoves == usable' \in BOOLEAN /\ (ready' => usable')

Invoke(method) ==
  /\ call = "none" /\ call' = method /\ answer' = NoAnswer
  /\ ready' = (ready /\ method # "init") /\ lost' = FALSE /\ UNCHANGED usable

\* A call refused for its arguments, before any access to the PHY.
Refuse ==
  /\ call = "none" /\ answer' = NoAnswer /\ lost' = FALSE
  /\ UNCHANGED <<call, ready, usable>>

\* The silicon by itself, an access of the method in flight, or the end of a pulse.
Work == SiliconMoves /\ lost' \in {lost, FALSE} /\ UNCHANGED <<call, ready, answer>>

Return == call # "none" /\ call' = "none" /\ lost' = FALSE /\ SiliconMoves

InitSucceeds == call = "init" /\ ready' = TRUE /\ Return /\ UNCHANGED answer
PollAnswers ==
  call = "poll_link" /\ answer' \in Modes \cup {Down} /\ Return /\ UNCHANGED ready
\* Any other Ok, and every Err.
ReturnsOtherwise == Return /\ UNCHANGED <<ready, answer>>

\* A restart of the firmware, also in the middle of a call; a reset by pin.
\* No method that returns, however it fails, may look like one.
Lose ==
  /\ call' = "none" /\ ready' = FALSE /\ answer' \in {answer, NoAnswer} /\ lost' = TRUE
  /\ SiliconMoves

Init ==
  call = "none" /\ ready = FALSE /\ usable \in BOOLEAN /\ answer = NoAnswer /\ lost = TRUE

Next ==
  \/ \E method \in {"init", "poll_link", "other"} : Invoke(method)
  \/ Refuse \/ Work \/ InitSucceeds \/ PollAnswers \/ ReturnsOtherwise \/ Lose

Spec == Init /\ [][Next]_vars
=============================================================================
