----------------------------- MODULE MCLan87xx -----------------------------
(***************************************************************************)
(* Small instances of Lan87xx.                                             *)
(***************************************************************************)
EXTENDS Lan87xx

Mode(s, d) == [speed |-> s, duplex |-> d]

\* Straps for auto-negotiation, or for an isolated PHY in a fixed mode.
MCResetBmcrs == {{"SPEED_100", "AN_ENABLE"}, {"ISOLATE"}}
AutoBmcr == {{"SPEED_100", "AN_ENABLE"}}

\* The documented default and a partial advertisement.
MCResetAnars == {Modes, {Mode(10, "half")}}

\* A 10/100 switch and a half-duplex hub.
MCPartners == {Modes, {Mode(10, "half"), Mode(100, "half")}}
Hub == {{Mode(10, "half"), Mode(100, "half")}}

\* A LAN87xx, another part of the vendor, another vendor's part.
MCParts == {[oui |-> TRUE, model |-> TRUE], [oui |-> TRUE, model |-> FALSE],
            [oui |-> FALSE, model |-> FALSE]}
GoodPart == {[oui |-> TRUE, model |-> TRUE]}

MCForced == {Mode(10, "full"), Mode(100, "half")}
OneForced == {Mode(10, "full")}
=============================================================================
