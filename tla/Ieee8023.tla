------------------------------ MODULE Ieee8023 ------------------------------
(***************************************************************************)
(* The Clause-22 vocabulary of crates/eth-mdio-phy: the bits of BMCR, the  *)
(* link modes, and what the ieee802_3 helpers make of a BMCR word they     *)
(* have read.  A BMCR word is the set of its 1 bits.                       *)
(***************************************************************************)
EXTENDS Naturals

BmcrBits == {"RESET", "LOOPBACK", "SPEED_100", "AN_ENABLE", "POWER_DOWN",
             "ISOLATE", "AN_RESTART", "DUPLEX_FULL"}

\* (Speed, Duplex), and the four modes a 10/100 PHY can advertise.
Modes == [speed : {10, 100}, duplex : {"half", "full"}]

\* The bits of ANAR that advertise a mode, and the modes a word advertises.
AnarMode ==
  [TX_FD |-> [speed |-> 100, duplex |-> "full"], TX_HD |-> [speed |-> 100, duplex |-> "half"],
   T10_FD |-> [speed |-> 10, duplex |-> "full"], T10_HD |-> [speed |-> 10, duplex |-> "half"]]
Advertised(word) == {AnarMode[b] : b \in word \cap DOMAIN AnarMode}

\* The mode two ends with common abilities S negotiate: the fastest, then full
\* duplex before half.
Best(S) ==
  CHOOSE m \in S : \A k \in S :
    m.speed > k.speed \/ (m.speed = k.speed /\ (m.duplex = "full" \/ k.duplex = "half"))

\* Bugs: auto-negotiation is enabled but not restarted; ISOLATE is left set.
BugNoRestart(word) == (word \cup {"AN_ENABLE"}) \ {"ISOLATE"}
BugStaysIsolated(word) == word \cup {"AN_ENABLE", "AN_RESTART"}

\* enable_auto_negotiation
WithAutoNeg(word) == (word \cup {"AN_ENABLE", "AN_RESTART"}) \ {"ISOLATE"}

ModeBits(m) ==
  (IF m.speed = 100 THEN {"SPEED_100"} ELSE {}) \cup
  (IF m.duplex = "full" THEN {"DUPLEX_FULL"} ELSE {})

\* Bug: force_link leaves AN_RESTART as it found it.
BugForcedKeepsRestart(word, m) ==
  (word \ {"AN_ENABLE", "ISOLATE", "SPEED_100", "DUPLEX_FULL"}) \cup ModeBits(m)

\* force_link
WithForced(word, m) ==
  (word \ {"AN_ENABLE", "AN_RESTART", "ISOLATE", "SPEED_100", "DUPLEX_FULL"})
    \cup ModeBits(m)

\* How poll_link reads a forced mode back.
ForcedMode(word) ==
  [speed |-> IF "SPEED_100" \in word THEN 100 ELSE 10,
   duplex |-> IF "DUPLEX_FULL" \in word THEN "full" ELSE "half"]
=============================================================================
