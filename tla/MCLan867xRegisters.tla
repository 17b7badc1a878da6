------------------------- MODULE MCLan867xRegisters -------------------------
(* An instance of Lan867xRegisters for TLC, at full width. *)
EXTENDS Lan867xRegisters, Bitwise

Part(id0, id1, strap, midver, bmsr) ==
  [id0 |-> id0, id1 |-> id1, strap |-> strap, midver |-> midver, bmsr |-> bmsr]

\* A LAN8671 of revision B1 with other straps set; then a LAN8720A, an undefined
\* PKGTYP and a foreign register map.
MCParts == { Part(0, \hC562, \h00C7, \h0A10, \h0805), Part(7, \hC0F0, \h0060, \h0A10, \h7809),
             Part(0, \hC560, \h0080, \h0A10, \h0805), Part(0, \hC56F, \h0160, \h0A11, \h0805) }

Conf(id, count, bursts, timer) ==
  [node_id |-> id, node_count |-> count, burst_count |-> bursts, burst_timer |-> timer]

\* The default, and every field near its upper edge.
MCConfigs == { DefaultConfig, Conf(254, 255, 128, 255), Conf(255, 0, 0, 0) }

\* MDE and EN clear, neighbouring bits set.
MCResetWords ==
  [r \in Registers |->
     CASE r = T1SPMACTL -> 2^14 + 2^0 [] r = PLCA_CTRL0 -> 2^0
       [] r = PLCA_CTRL1 -> \h08FF [] r = PLCA_BURST -> \h0080 [] OTHER -> 0]

\* The arithmetic of Has, With, Without and of the packing is that of &, | and !.
ASSUME MasksAreBits ==
  \A w \in {0, 1, \h0805, \h7FFF, \h8000, \hA5A5, \hFFFF}, k \in 0..15 :
    /\ Has(w, 2^k) <=> (w & 2^k) # 0
    /\ Without(w, 2^k) = w & (65535 - 2^k)
    /\ With(w, 2^k) = w | 2^k
    /\ Without(w, 0) = w /\ With(w, 0) = w
ASSUME PackingIsBits ==
  \A upper, lower \in {0, 1, 127, 128, 255} : upper * 2^8 + lower = (upper * 2^8) | lower
=============================================================================
