-------------------------- MODULE MCMmdIndirection --------------------------
(* A small instance of MmdIndirection for TLC: two devices, words of three *)
(* bits (0 cleared by a read, 1 by the chip, 2 by neither), three target   *)
(* registers, two of them in one device.                                   *)
EXTENDS MmdIndirection

CONSTANTS Pma, Vs2

MCDevs == {Pma, Vs2}
MCBits == {0, 1, 2}
MCVolatile == {1}

R(place) == [op |-> "read", rmw |-> FALSE, at |-> place,
             value |-> {}, clear |-> {}, set |-> {}]
W(place, w) == [R(place) EXCEPT !.op = "write", !.value = w]
RMW(place, c, s) == [R(place) EXCEPT !.rmw = TRUE, !.clear = c, !.set = s]

MCRequests ==
  { R(<<Vs2, {0}>>), R(<<Pma, {1}>>), W(<<Vs2, {0}>>, {0, 1, 2}), W(<<Vs2, {}>>, {1, 2}),
    RMW(<<Vs2, {0}>>, {}, {1}), RMW(<<Vs2, {}>>, {1}, {0}), RMW(<<Pma, {1}>>, {}, {0}) }

\* Registers start cleared: the windows, not the contents, are what varies.
MCInit ==
  /\ file = [p \in Places |-> {}] /\ address = [d \in Devs |-> {1}]
  /\ Init
MCSpec == MCInit /\ [][Next]_vars
=============================================================================
