----------------------- MODULE MmdIndirection_proofs -----------------------
(***************************************************************************)
(* Proofs about MmdIndirection for every set of devices, registers and     *)
(* calls: the window invariant is inductive together with the types, and   *)
(* under it the four-access sequence implements single register accesses.  *)
(***************************************************************************)
EXTENDS MmdIndirection, TLAPS

RequestType == Abstract!RequestType

LEMMA RequestFields ==
  ASSUME NEW q \in RequestType
  PROVE  /\ q.op \in {"read", "write"} /\ q.rmw \in BOOLEAN
         /\ q.at \in Places /\ q.at[1] \in Devs /\ q.at[2] \in Words
         /\ q.at = <<q.at[1], q.at[2]>>
         /\ q.value \in Words /\ q.clear \in Words /\ q.set \in Words
  BY DEF RequestType, Abstract!RequestType, Places, Abstract!Places, Words

\* An rmw whose read is done is a well-formed write request.
LEMMA ModifiedRequest ==
  ASSUME NEW q \in RequestType, NEW w \in Words
  PROVE  [q EXCEPT !.op = "write", !.value = Abstract!Modified(q, w)] \in RequestType
  <1>1. Abstract!Modified(q, w) \in Words
    BY RequestFields DEF Abstract!Modified, Words, Abstract!Words
  <1>2. QED
    BY <1>1 DEF RequestType, Abstract!RequestType, Words

Inv == TypeOK /\ WindowFollowsCall

LEMMA InitInv == Init => Inv
  BY DEF Init, Abstract!Init, Inv, TypeOK, WindowFollowsCall, Places, Words

\* One access of a call leaves the chip in a well-typed state.
LEMMA AccessTypes ==
  ASSUME TypeOK, req # NoCall, Access
  PROVE  /\ file' \in [Places -> Words]
         /\ fnctn' \in {"addr", "data"} /\ devad' \in Devs
         /\ address' \in [Devs -> Words]
  <1> USE DEF TypeOK
  <1>0. req \in RequestType
    BY DEF RequestType
  <1>1. CASE step = 1
    BY <1>1, <1>0, RequestFields DEF Access, WriteMmdctrl
  <1>2. CASE step = 3
    BY <1>2, <1>0, RequestFields DEF Access, WriteMmdctrl
  <1>3. Window \in Places
    BY DEF Window, Places, Abstract!Places, Words
  <1>4. ASSUME NEW w \in Words, WriteMmdad(w)
        PROVE  /\ file' \in [Places -> Words] /\ address' \in [Devs -> Words]
               /\ fnctn' = fnctn /\ devad' = devad
    BY <1>3, <1>4 DEF WriteMmdad
  <1>5. CASE step = 2
    BY <1>5, <1>4, <1>0, RequestFields DEF Access
  <1>6. CASE step = 4 /\ req.op = "read"
    BY <1>6, <1>3 DEF Access, MmdadRead, Words, Abstract!Words
  <1>7. CASE step = 4 /\ req.op = "write"
    BY <1>7, <1>4, <1>0, RequestFields DEF Access
  <1>8. QED
    BY <1>1, <1>2, <1>5, <1>6, <1>7 DEF Access

LEMMA NextInv == Inv /\ [Next]_vars => Inv'
  <1> SUFFICES ASSUME TypeOK, WindowFollowsCall, [Next]_vars
               PROVE  TypeOK' /\ WindowFollowsCall'
    BY DEF Inv
  <1>0. req # NoCall => req \in RequestType
    BY DEF TypeOK, RequestType
  <1>1. ASSUME NEW q \in Requests, Call(q)
        PROVE  TypeOK' /\ WindowFollowsCall'
    BY <1>1, MmdAssumption DEF Call, chip, TypeOK, WindowFollowsCall
  <1>2. CASE Select
    <2>1. TypeOK'
      BY <1>2, AccessTypes DEF Select, InCall, Advance, TypeOK
    <2>2. WindowFollowsCall'
      <3>1. req.at[1] \in Devs /\ req.at[2] \in Words
        BY <1>0, <1>2, RequestFields DEF Select, InCall
      <3>2. CASE step = 1
        BY <1>2, <3>2 DEF Select, InCall, Advance, Access, WriteMmdctrl, WindowFollowsCall
      <3>3. CASE step = 2
        BY <1>2, <3>1, <3>3 DEF Select, InCall, Advance, Access, WriteMmdad,
                                WindowFollowsCall, TypeOK
      <3>4. CASE step = 3
        BY <1>2, <3>4 DEF Select, InCall, Advance, Access, WriteMmdctrl, WindowFollowsCall
      <3>5. QED
        BY <1>2, <3>2, <3>3, <3>4 DEF Select, InCall
    <2>3. QED
      BY <2>1, <2>2
  <1>3. CASE Read
    BY <1>3, AccessTypes DEF Read, InCall, Finish, TypeOK, WindowFollowsCall
  <1>4. CASE ReadModify
    <2>1. MmdadBits \in Words
      BY <1>4, <1>0, RequestFields
         DEF ReadModify, InCall, MmdadBits, Window, TypeOK, Places, Abstract!Places, Words
    <2>2. req' \in RequestType
      BY <1>0, <1>4, <2>1, ModifiedRequest DEF ReadModify, InCall
    <2>3. QED
      BY <1>4, <2>2, AccessTypes
         DEF ReadModify, InCall, TypeOK, WindowFollowsCall, RequestType
  <1>5. CASE Write
    BY <1>5, AccessTypes DEF Write, InCall, Finish, TypeOK, WindowFollowsCall
  <1>6. CASE Fail
    <2>1. CASE UNCHANGED chip
      BY <1>6, <2>1 DEF Fail, Finish, chip, TypeOK, WindowFollowsCall
    <2>2. CASE LateErr /\ Access
      BY <1>6, <2>2, AccessTypes DEF Fail, Finish, TypeOK, WindowFollowsCall
    <2>3. QED
      BY <1>6, <2>1, <2>2 DEF Fail
  <1>7. CASE ChipClears
    BY <1>7 DEF ChipClears, Abstract!ChipClears, TypeOK, WindowFollowsCall,
                Places, Words, Abstract!Words
  <1>8. CASE UNCHANGED vars
    BY <1>8 DEF vars, chip, TypeOK, WindowFollowsCall
  <1>9. QED
    BY <1>1, <1>2, <1>3, <1>4, <1>5, <1>6, <1>7, <1>8 DEF Next, DriverStep

LEMMA Invariance == Spec => []Inv
  <1>1. Init => Inv
    BY InitInv
  <1>2. Inv /\ [Next]_vars => Inv'
    BY NextInv DEF Inv
  <1>3. QED BY <1>1, <1>2, PTL DEF Spec

\* Every reachable state is well typed; an access is never left without a call.
THEOREM TypeCorrect == Spec => []TypeOK
  <1>1. Inv => TypeOK
    BY DEF Inv
  <1>2. QED BY <1>1, Invariance, PTL

\* However many earlier calls failed at whichever access, the access that
\* carries data is made with the window on the register the call names.
THEOREM WindowAlwaysFollowsCall == Spec => []WindowFollowsCall
  <1>1. Inv => WindowFollowsCall
    BY DEF Inv
  <1>2. QED BY <1>1, Invariance, PTL

(***************************************************************************)
(* The refinement.  The first three accesses are stuttering steps of the   *)
(* register file; the fourth is the abstract access itself.                *)
(***************************************************************************)

\* Accesses 1 to 3 never touch the register file.
LEMMA SelectionKeepsFile ==
  ASSUME Inv, req # NoCall, step \in {1, 2, 3}, Access
  PROVE  UNCHANGED file
  <1>1. CASE step = 1
    BY <1>1 DEF Access, WriteMmdctrl
  <1>2. CASE step = 2
    <2>1. fnctn = "addr" /\ WriteMmdad(req.at[2])
      BY <1>2 DEF Inv, WindowFollowsCall, Access
    <2>2. QED
      BY <2>1 DEF WriteMmdad
  <1>3. CASE step = 3
    BY <1>3 DEF Access, WriteMmdctrl
  <1>4. QED
    BY <1>1, <1>2, <1>3

\* Access 4 reads or writes the register the call names.
LEMMA DataAccess ==
  ASSUME Inv, req # NoCall, step = 4
  PROVE  /\ Window = req.at /\ MmdadBits = file[req.at]
         /\ Access => file' = IF req.op = "read" THEN Abstract!AfterRead
                              ELSE [file EXCEPT ![req.at] = req.value]
  <1>1. req \in RequestType
    BY DEF Inv, TypeOK, RequestType
  <1>2. Window = req.at /\ fnctn = "data"
    BY <1>1, RequestFields DEF Inv, WindowFollowsCall, Window
  <1>3. QED
    BY <1>2 DEF MmdadBits, Access, MmdadRead, WriteMmdad, Abstract!AfterRead

LEMMA NextRefines == Inv /\ [Next]_vars => [Abstract!Next]_(Abstract!vars)
  <1> SUFFICES ASSUME Inv, [Next]_vars
               PROVE  [Abstract!Next]_(Abstract!vars)
    OBVIOUS
  <1> USE DEF Abstract!vars
  <1>1. ASSUME NEW q \in Requests, Call(q)
        PROVE  Abstract!Next
    BY <1>1 DEF Call, chip, Abstract!Call, Abstract!Next
  <1>2. CASE Select
    BY <1>2, SelectionKeepsFile DEF Select, InCall, Advance
  <1>3. CASE Read
    BY <1>3, DataAccess
       DEF Read, InCall, Finish, Abstract!Read, Abstract!Finish, Abstract!Next
  <1>4. CASE ReadModify
    BY <1>4, DataAccess DEF ReadModify, InCall, Abstract!ReadModify, Abstract!Next
  <1>5. CASE Write
    BY <1>5, DataAccess
       DEF Write, InCall, Finish, Abstract!Write, Abstract!Finish, Abstract!Next
  <1>6. CASE Fail
    <2>1. UNCHANGED file \/ (LateErr /\ step = 4 /\ Access)
      BY <1>6, SelectionKeepsFile DEF Fail, chip, Inv, TypeOK
    <2>2. req.op \in {"read", "write"}
      BY <1>6, RequestFields DEF Fail, Inv, TypeOK, RequestType
    <2>3. Abstract!Fail
      BY <1>6, <2>1, <2>2, DataAccess DEF Fail, Finish, Abstract!Fail, Abstract!Finish
    <2>4. QED
      BY <2>3 DEF Abstract!Next
  <1>7. CASE ChipClears
    BY <1>7 DEF ChipClears, Abstract!Next
  <1>8. CASE UNCHANGED vars
    BY <1>8 DEF vars, chip
  <1>9. QED
    BY <1>1, <1>2, <1>3, <1>4, <1>5, <1>6, <1>7, <1>8 DEF Next, DriverStep

\* The indirection implements the register file, for every device, register,
\* word width and call, with failures possible at every MDIO access.
THEOREM ImplementsRegisterFile == Spec => AtomicAccess
  <1>1. Init => Abstract!Init
    BY DEF Init
  <1>2. QED
    BY <1>1, InitInv, NextInv, NextRefines, PTL DEF Spec, AtomicAccess, Abstract!Spec

(***************************************************************************)
(* mmd_rmw and the bits outside its masks.                                 *)
(***************************************************************************)

\* Bits only the rmw in flight has business changing, or the chip itself.
Touchable == req.clear \cup req.set \cup Volatile \cup Sticky

\* The word mmd_rmw is about to write still agrees with the register on every
\* bit outside: nobody else writes between the two halves.
RmwValue ==
  req # NoCall /\ req.rmw /\ req.op = "write" =>
    \A b \in Bits \ Touchable : b \in req.value <=> b \in file[req.at]

LEMMA NextRmwValue == Inv /\ RmwValue /\ [Next]_vars => RmwValue'
  <1> SUFFICES ASSUME Inv, RmwValue, [Next]_vars
               PROVE  RmwValue'
    OBVIOUS
  <1>0. req # NoCall => req \in RequestType /\ req.at \in Places
    BY RequestFields DEF Inv, TypeOK, RequestType
  <1>1. ASSUME NEW q \in Requests, Call(q)
        PROVE  RmwValue'
    BY <1>1, MmdAssumption DEF Call, RmwValue
  <1>2. CASE Select
    BY <1>2, SelectionKeepsFile DEF Select, InCall, Advance, RmwValue, Touchable
  <1>3. CASE ReadModify
    <2>1. /\ MmdadBits = file[req.at] /\ req \in RequestType
          /\ file' = [file EXCEPT ![req.at] = @ \ Sticky]
      BY <1>0, <1>3, DataAccess DEF ReadModify, InCall, Abstract!AfterRead
    <2>2. /\ req'.value = (file[req.at] \ req.clear) \cup req.set
          /\ req'.clear = req.clear /\ req'.set = req.set /\ req'.at = req.at
      BY <1>3, <2>1 DEF ReadModify, Abstract!Modified, RequestType, Abstract!RequestType
    <2>3. file'[req.at] = file[req.at] \ Sticky
      BY <1>0, <1>3, <2>1 DEF ReadModify, InCall, Inv, TypeOK
    <2>4. QED
      BY <2>2, <2>3 DEF RmwValue, Touchable
  <1>4. CASE Read \/ Write \/ Fail
    BY <1>4 DEF Read, Write, Fail, Finish, RmwValue
  <1>5. CASE ChipClears
    <2>1. PICK p \in Places, b \in Volatile : file' = [file EXCEPT ![p] = @ \ {b}]
      BY <1>5 DEF ChipClears, Abstract!ChipClears, Places
    <2>2. req # NoCall => \A c \in Bits \ Volatile :
             c \in file'[req.at] <=> c \in file[req.at]
      BY <1>0, <2>1 DEF Inv, TypeOK
    <2>3. QED
      BY <1>5, <2>2 DEF ChipClears, Abstract!ChipClears, RmwValue, Touchable
  <1>6. CASE UNCHANGED vars
    BY <1>6 DEF vars, chip, RmwValue, Touchable
  <1>7. QED
    BY <1>1, <1>2, <1>3, <1>4, <1>5, <1>6 DEF Next, DriverStep

LEMMA StepKeepsOtherBits ==
  ASSUME Inv, RmwValue, [Next]_vars, req # NoCall, req.rmw, req.op = "write",
         NEW p \in Places, NEW b \in Bits, (b \in file[p]) # (b \in file'[p])
  PROVE  /\ p = req.at \/ b \in Volatile
         /\ b \in Touchable
  <1>0. req.at \in Places /\ file \in [Places -> Words]
    BY RequestFields DEF Inv, TypeOK, RequestType
  <1>1. CASE ChipClears
    <2>1. PICK r \in Places, c \in Volatile : file' = [file EXCEPT ![r] = @ \ {c}]
      BY <1>1 DEF ChipClears, Abstract!ChipClears, Places
    <2>2. b = c
      BY <1>0, <2>1
    <2>3. QED
      BY <2>2 DEF Touchable
  <1>2. CASE \E q \in Requests : Call(q)
    BY <1>2 DEF Call
  <1>3. CASE Select
    BY <1>3, SelectionKeepsFile DEF Select, InCall
  <1>4. ASSUME file' = [file EXCEPT ![req.at] = req.value]
        PROVE  p = req.at /\ b \in Touchable
    BY <1>0, <1>4 DEF RmwValue
  <1>5. CASE Write
    BY <1>4, <1>5, DataAccess DEF Write, InCall
  <1>6. CASE Fail
    <2>1. step \in {1, 2, 3} \/ step = 4
      BY DEF Inv, TypeOK
    <2>2. file' = file \/ file' = [file EXCEPT ![req.at] = req.value]
      BY <1>6, <2>1, SelectionKeepsFile, DataAccess DEF Fail, chip
    <2>3. QED
      BY <1>4, <2>2
  <1>7. CASE Read \/ ReadModify
    BY <1>7 DEF Read, ReadModify
  <1>8. CASE UNCHANGED vars
    BY <1>8 DEF vars, chip
  <1>9. QED
    BY <1>1, <1>2, <1>3, <1>5, <1>6, <1>7, <1>8 DEF Next, DriverStep

\* mmd_rmw never disturbs a bit outside its masks, other than one the chip
\* clears by itself or clears on being read.
THEOREM RmwPreserves == Spec => RmwKeepsOtherBits
  <1>1. Init => RmwValue
    BY DEF Init, Abstract!Init, RmwValue
  <1> DEFINE Keeps ==
        \A p \in Places, b \in Bits :
          /\ req # NoCall /\ req.rmw /\ req.op = "write"
          /\ (b \in file[p]) # (b \in file'[p])
          => /\ p = req.at \/ b \in Volatile
             /\ b \in req.clear \cup req.set \cup Volatile \cup Sticky
  <1>2. Inv /\ RmwValue /\ [Next]_vars => Keeps
    BY StepKeepsOtherBits DEF Touchable
  <1>3. QED
    BY <1>1, <1>2, InitInv, NextInv, NextRmwValue, PTL DEF Spec, RmwKeepsOtherBits
=============================================================================
