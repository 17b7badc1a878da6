----------------------------- MODULE MCLan867x -----------------------------
(* Instances of Lan867x for TLC. *)
EXTENDS Lan867x

CONSTANTS Lan8670, Lan8671

MCChips == {Lan8670, Lan8671}
MCResetCtrl1 == [id |-> U8Max, ncnt |-> 2]

Conf(id, count, bursts, timer) ==
  [node_id |-> id, node_count |-> count, burst_count |-> bursts, burst_timer |-> timer]

\* A coordinator and two followers, one with the count left at 0, one bursting;
\* then the two kinds of invalid configuration.
MCConfigs == { Conf(0, 2, 0, 0), Conf(1, 2, 1, 3), Conf(2, 0, 0, 1),
               Conf(U8Max, 0, 0, 0), Conf(2, 2, 0, 0) }

\* A supported part, and one failing each identity check.
MCParts == { [family |-> TRUE, pkg |-> Lan8671, midver |-> TRUE],
             [family |-> FALSE, pkg |-> Lan8671, midver |-> TRUE],
             [family |-> TRUE, pkg |-> None, midver |-> TRUE],
             [family |-> TRUE, pkg |-> Lan8670, midver |-> FALSE] }
GoodParts == { [family |-> TRUE, pkg |-> Lan8671, midver |-> TRUE] }
OneConfig == { Conf(1, 2, 0, 0) }
=============================================================================
