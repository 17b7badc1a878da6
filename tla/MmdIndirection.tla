--------------------------- MODULE MmdIndirection ---------------------------
(***************************************************************************)
(* crates/eth-phy-lan867x/src/mmd.rs: access to the Clause-45 registers    *)
(* through the Clause-22 pair MMDCTRL / MMDAD.  Four MDIO accesses make    *)
(* one MMD access, each can return Err, and the pair then stays as it was  *)
(* left, for the next call to start from.                                  *)
(***************************************************************************)
EXTENDS Naturals

CONSTANTS Devs, Bits, Requests, NoCall, Ok, Err, Volatile, Sticky, LateErr

VARIABLES
  file, req, got,   \* as in MmdRegisters
  step,             \* the MDIO access of the call that comes next, 1..4
  fnctn, devad,     \* MMDCTRL: function and device
  address           \* each device's address register, reached through MMDAD

chip == <<file, fnctn, devad, address>>
vars == <<chip, req, got, step>>

Abstract == INSTANCE MmdRegisters
Words == Abstract!Words
Places == Abstract!Places

ASSUME MmdAssumption ==
  /\ Requests \subseteq Abstract!RequestType
  /\ \A q \in Requests : q.rmw => q.op = "read"
  /\ NoCall \notin Abstract!RequestType
  /\ Volatile \subseteq Bits /\ Sticky \subseteq Bits
  /\ LateErr \in BOOLEAN

(***************************************************************************)
(* The chip's side of the window.                                          *)
(***************************************************************************)

WriteMmdctrl(f, d) ==
  fnctn' = f /\ devad' = d /\ UNCHANGED <<file, address>>

Window == <<devad, address[devad]>>

\* MMDAD stands for the address register or the addressed register, as
\* MMDCTRL.FNCTN says.
WriteMmdad(w) ==
  /\ IF fnctn = "addr"
       THEN address' = [address EXCEPT ![devad] = w] /\ UNCHANGED file
       ELSE file' = [file EXCEPT ![Window] = w] /\ UNCHANGED address
  /\ UNCHANGED <<fnctn, devad>>

MmdadBits == IF fnctn = "addr" THEN address[devad] ELSE file[Window]

MmdadRead ==
  /\ file' = IF fnctn = "addr" THEN file
             ELSE [file EXCEPT ![Window] = @ \ Sticky]
  /\ UNCHANGED <<address, fnctn, devad>>

(***************************************************************************)
(* The driver's side.                                                      *)
(***************************************************************************)

\* Bug: the call relies on the window an earlier call has selected.
BugReusesWindow(q) ==
  /\ req = NoCall /\ req' = q /\ got' = Ok /\ step' = 2
  /\ UNCHANGED chip

Call(q) ==
  /\ req = NoCall /\ req' = q /\ got' = Ok /\ step' = 1
  /\ UNCHANGED chip

InCall(s) == req # NoCall /\ step = s

\* Bug: MMDCTRL is not switched to data access.
BugNoDataSwitch == step' = (IF step = 2 THEN 4 ELSE step + 1) /\ UNCHANGED <<req, got>>

Advance == step' = step + 1 /\ UNCHANGED <<req, got>>
Finish(result) == req' = NoCall /\ got' = result /\ step' = 1

\* The effect of the MDIO access that comes next, were it to reach the chip.
Access ==
  \/ step = 1 /\ WriteMmdctrl("addr", req.at[1])
  \/ step = 2 /\ WriteMmdad(req.at[2])
  \/ step = 3 /\ WriteMmdctrl("data", req.at[1])
  \/ step = 4 /\ req.op = "read" /\ MmdadRead
  \/ step = 4 /\ req.op = "write" /\ WriteMmdad(req.value)

\* MMDCTRL = ADDR | DEVAD, MMDAD = register, MMDCTRL = DATA | DEVAD.
Select == (InCall(1) \/ InCall(2) \/ InCall(3)) /\ Access /\ Advance

\* The fourth access of mmd_read.
Read ==
  /\ InCall(4) /\ req.op = "read" /\ ~req.rmw
  /\ Access /\ Finish(MmdadBits)

\* Bugs: mmd_rmw writes its mask alone; it goes on counting accesses.
BugWritesMask ==
  /\ InCall(4) /\ req.op = "read" /\ req.rmw
  /\ Access /\ step' = 1 /\ UNCHANGED got
  /\ req' = [req EXCEPT !.op = "write", !.value = req.set]
BugCountsOn ==
  /\ InCall(4) /\ req.op = "read" /\ req.rmw
  /\ Access /\ step' = 5 /\ UNCHANGED got
  /\ req' = [req EXCEPT !.op = "write",
                        !.value = Abstract!Modified(req, MmdadBits)]

\* The end of mmd_rmw's mmd_read: its mmd_write starts over at access 1.
ReadModify ==
  /\ InCall(4) /\ req.op = "read" /\ req.rmw
  /\ Access /\ step' = 1 /\ UNCHANGED got
  /\ req' = [req EXCEPT !.op = "write",
                        !.value = Abstract!Modified(req, MmdadBits)]

\* The fourth access of mmd_write.
Write == InCall(4) /\ req.op = "write" /\ Access /\ Finish(Ok)

\* Any access may return Err, and `?` leaves the function at once.
Fail ==
  /\ req # NoCall /\ Finish(Err)
  /\ UNCHANGED chip \/ (LateErr /\ Access)

\* Between two accesses the chip may clear a bit by itself.
ChipClears ==
  /\ Abstract!ChipClears
  /\ UNCHANGED <<step, fnctn, devad, address>>

Init ==
  /\ Abstract!Init /\ step = 1
  /\ fnctn \in {"addr", "data"} /\ devad \in Devs
  /\ address \in [Devs -> Words]

DriverStep == Select \/ Read \/ ReadModify \/ Write \/ Fail
Next == (\E q \in Requests : Call(q)) \/ DriverStep \/ ChipClears

Spec == Init /\ [][Next]_vars

(***************************************************************************)
(* Properties.                                                             *)
(***************************************************************************)

TypeOK ==
  /\ file \in [Places -> Words]
  /\ req \in Abstract!RequestType \cup {NoCall}
  /\ step \in 1..4
  /\ fnctn \in {"addr", "data"} /\ devad \in Devs
  /\ address \in [Devs -> Words]

\* The window points where the call in flight wants it, whatever an earlier
\* call that failed half way left in MMDCTRL, MMDAD or the address registers.
WindowFollowsCall ==
  req # NoCall =>
    /\ step \in {2, 3} => fnctn = "addr" /\ devad = req.at[1]
    /\ step \in {3, 4} => address[req.at[1]] = req.at[2]
    /\ step = 4 => fnctn = "data" /\ devad = req.at[1]

\* The four-access sequence, with failures at every access, behaves as single
\* accesses to the register file: reads return the addressed register, writes
\* reach it and nothing else.
AtomicAccess == Abstract!Spec

\* mmd_rmw "preserves any other bits": its write changes only bits of its two
\* masks, bits the chip clears by itself and bits its own read cleared.
RmwKeepsOtherBits ==
  [][ \A p \in Places, b \in Bits :
        /\ req # NoCall /\ req.rmw /\ req.op = "write"
        /\ (b \in file[p]) # (b \in file'[p])
        => /\ p = req.at \/ b \in Volatile
           /\ b \in req.clear \cup req.set \cup Volatile \cup Sticky ]_vars
=============================================================================
