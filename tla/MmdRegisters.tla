---------------------------- MODULE MmdRegisters ----------------------------
(***************************************************************************)
(* What mmd_read, mmd_write and mmd_rmw promise their callers: the chip's  *)
(* Clause-45 registers behave as a register file accessed one register at  *)
(* a time.  A read returns the addressed register, a write replaces it, a  *)
(* read-modify-write is a read and then a write of the same register, and  *)
(* any access may end in Err.  No other register is ever written.          *)
(*                                                                         *)
(* A register is a 16-bit word, here the set of its 1 bits; the chip       *)
(* itself clears Volatile bits (self-clearing commands), and a read clears *)
(* Sticky ones (STS2.RESETC).                                              *)
(***************************************************************************)
EXTENDS Naturals

CONSTANTS
  Devs,       \* MMD device addresses (MMD_PMA_PMD, MMD_VS2, ...)
  Bits,       \* the bit positions of a word
  Requests,   \* the calls callers make
  NoCall,     \* no call in flight
  Ok, Err,    \* results of a call that are not a word read
  Volatile, Sticky,
  LateErr     \* may an access that returns Err still have reached the chip?

Words == SUBSET Bits
Places == Devs \X Words
RequestType == [op : {"read", "write"}, rmw : BOOLEAN, at : Places,
                value : Words, clear : Words, set : Words]

VARIABLES
  file,  \* the registers: one word per device and register address
  req,   \* the call in flight, or NoCall
  got    \* the last call's result: Err, Ok, or the word read

vars == <<file, req, got>>

Finish(result) == req' = NoCall /\ got' = result

Call(q) == req = NoCall /\ req' = q /\ got' = Ok /\ UNCHANGED file

\* Reading a register clears its sticky bits.
AfterRead == [file EXCEPT ![req.at] = @ \ Sticky]

\* mmd_read as a call of its own.
Read ==
  /\ req # NoCall /\ req.op = "read" /\ ~req.rmw
  /\ Finish(file[req.at]) /\ file' = AfterRead

\* (current & !clear_mask) | set_mask
Modified(q, current) == (current \ q.clear) \cup q.set

\* The read half of mmd_rmw; what is left is a write of the modified word.
ReadModify ==
  /\ req # NoCall /\ req.op = "read" /\ req.rmw
  /\ req' = [req EXCEPT !.op = "write", !.value = Modified(req, file[req.at])]
  /\ file' = AfterRead /\ UNCHANGED got

\* mmd_write.
Write ==
  /\ req # NoCall /\ req.op = "write"
  /\ Finish(Ok) /\ file' = [file EXCEPT ![req.at] = req.value]

\* Err: nothing happened, or the last access did reach the chip.
Fail ==
  /\ req # NoCall /\ Finish(Err)
  /\ \/ UNCHANGED file
     \/ LateErr /\ req.op = "read" /\ file' = AfterRead
     \/ LateErr /\ req.op = "write" /\ file' = [file EXCEPT ![req.at] = req.value]

ChipClears ==
  /\ \E p \in Places, b \in Volatile : file' = [file EXCEPT ![p] = @ \ {b}]
  /\ UNCHANGED <<req, got>>

Init == file \in [Places -> Words] /\ req = NoCall /\ got = Ok

Next ==
  \/ \E q \in Requests : Call(q)
  \/ Read \/ ReadModify \/ Write \/ Fail \/ ChipClears

Spec == Init /\ [][Next]_vars
=============================================================================
