# eth-phy in TLA+

A verification project for the `eth-phy` workspace: two Ethernet PHY drivers for
bare-metal Rust, the Clause-22 helpers they share, and the access protocol to
the Clause-45 registers of one of them. It holds TLA+ modules that model the
code, TLC configurations that check small instances of them, and theorems
checked by TLAPS for every value of the constants. `PROJECT.json` is the index:
runs, mutants, the source lines of each definition, hazards, findings, theorems.

    tlc -config MmdIndirection.cfg MCMmdIndirection    # a run
    tlapm Lan867x_proofs.tla                           # the proofs of a module

## 1. The system

The workspace has three crates (paths below are under `crates/`). No code owns a
thread: every method is called by a firmware, goes through a `&mut M: MdioBus`
and returns when its last MDIO access has. What makes it concurrent is the
silicon, which moves on its own between any two accesses, and what makes it
unreliable is that *every* access may return `Err`, after which `?` leaves the
method with whatever it has done so far.

| Component | State | Operations | Talks to |
| --- | --- | --- | --- |
| `MdioBus` (`eth-mdio-phy/src/mdio.rs`) | none | `read`, `write` of a 16-bit register | the MAC's MDIO master (outside the repository) |
| `PhyDriver`, `PhyError` (`phy.rs`) | none | the trait `init`, `poll_link`, `capabilities`, `phy_id` | implemented by the drivers and wrappers |
| Shared types (`types.rs`) | none | `Speed`, `Duplex`, `LinkState`, `PhyCapabilities` | all |
| Clause-22 helpers (`ieee802_3.rs`) | none | `soft_reset`, `enable_auto_negotiation`, `force_link`, `is_link_up`, `read_phy_id`, `read_capabilities` | `MdioBus`; called by the drivers and directly by firmware |
| MMD indirection (`eth-phy-lan867x/src/mmd.rs`) | none in the code; MMDCTRL, MMDAD and the address registers in the chip | `mmd_read`, `mmd_write`, `mmd_rmw` | `MdioBus` |
| `PhyLan867x` (`eth-phy-lan867x/src/lib.rs`) | `chip`, `plca_id` (caches of silicon state) | `init`, `poll_link`, `capabilities`, `phy_id`, `configure_plca`, `disable_plca`, `plca_status` | helpers, MMD indirection |
| `PhyLan867xWithReset` | the inner driver and a pin | `hardware_reset`, delegation, `inner_mut` | the inner driver, RESET_N |
| `PhyLan87xx` (`eth-phy-lan87xx/src/lib.rs`) | `link_up` | `init`, `poll_link`, `capabilities`, `phy_id`, `set_loopback` | helpers, `MdioBus` |
| `PhyLan87xxWithReset` | the inner driver and a pin | `hardware_reset`, delegation | the inner driver, nRST |
| Register definitions (`regs.rs` of both drivers) | none | constants, `PLCA_*` packing | the drivers |
| LAN867x silicon (external) | reset progress and RESETC, MDE, PLCA_CTRL0/1, PLCA_BURST, PLCA_STS | resets, BEACON detection | the driver, the multidrop bus |
| LAN87xx silicon (external) | BMCR, ANAR, MCSR, auto-negotiation, link | resets, negotiates, loses the link | the driver, the link partner |

What is hard in it, and what must hold (each hazard at its line is in
`PROJECT.json`):

- **MMD indirection.** Four MDIO accesses make one register access, and an error
  after any of them leaves the window half moved. Correct: it behaves as a
  register file all the same, and `mmd_rmw` preserves the bits outside its masks.
- **`PhyLan867x::init`.** Register writes are not guaranteed to take effect until
  STS2.RESETC has been read, and the read that finds it clears it. Any step can
  fail, on a first or a repeated `init`. Correct: `chip.is_some()` means the whole
  sequence has been done on this chip and still holds.
- **PLCA configuration.** Four accesses change three registers and one cache;
  `poll_link` chooses from the cache what "up" means. Correct: cache and silicon
  agree, or agree again after the retry the documentation prescribes; a node
  never runs PLCA under an id that is granted no transmit opportunity.
- **`plca_status`.** One answer is assembled from three reads.
- **`PhyLan87xx`.** BMCR is rewritten by four methods with read-modify-writes while
  two of its bits clear themselves; ANAR may come up truncated after a reset; the
  speed field of PSCSR is indeterminate until AUTODONE; without a clock the bus
  floats high and all status bits read 1. Correct: every link that `poll_link`
  reports is the one the silicon has.
- **The reset wrappers.** The pin resets the chip underneath a driver that does
  not learn of it.
- **Everywhere.** Bounded polls must be bounded whatever the chip does.

## 2. The modules

| Module | Models |
| --- | --- |
| `PhyDriver` | what a caller of the trait may rely on (abstract); both drivers and both wrappers refine it |
| `MmdRegisters` | what `mmd_read`, `mmd_write`, `mmd_rmw` promise: an atomic register file (abstract) |
| `MmdIndirection` | `mmd.rs`, one action per MDIO access; refines `MmdRegisters` |
| `Lan867x` | `PhyLan867x` and the silicon it programs |
| `Lan867xWithReset` | `PhyLan867xWithReset`: `Lan867x` composed with the RESET_N pin |
| `Lan867xRegisters` | `PhyLan867x` over 16-bit words: `regs.rs`, packing, masks; refines `Lan867x` |
| `Ieee8023` | BMCR, ANAR, the link modes, and the words `enable_auto_negotiation` and `force_link` write (operators only) |
| `Lan87xx` | `PhyLan87xx`, the helpers its callers use beside it, the silicon and the link partner |
| `Lan87xxWithReset` | `PhyLan87xxWithReset`: `Lan87xx` composed with the nRST pin |
| `MC*` | constants for TLC |
| `*_proofs` | theorems |

Operators named `Bug...` are faulty variants of the definition that follows them.
No specification uses them; `PROJECT.json` pairs each with the property that
detects it.

How they stack (an arrow is a refinement, checked by TLC and proved):

    MmdIndirection    --> MmdRegisters
    Lan867xRegisters  --> Lan867x          --> PhyDriver
                          Lan867xWithReset --> PhyDriver
                          Lan87xx          --> PhyDriver
                          Lan87xxWithReset --> PhyDriver

### PhyDriver

Five variables: the method in flight (`call`), whether `init` has granted readiness
(`ready`), whether the silicon is set up to carry a link (`usable`), what
`poll_link` has said (`answer`), and whether the firmware has restarted or the reset
pin moved with no call since (`lost`). A silicon that is not ready does as it likes; a
ready one stays usable through every other call and every error, until the next
`init` begins, the firmware restarts or a reset pin moves. Only `init` makes ready
and only `poll_link` answers. Readiness goes with a call of `init` or with `Lose`,
which sets `lost`; the drivers map `lost` to a driver just built (`Restarted`) or a pin
held low, so a method that drops what `init` granted, by failing say, refines neither.
The drivers map `ready` to what they have for it:
`chip.is_some()` in `Lan867x`, the history `initOk` in `Lan87xx`, in the wrappers
the same without `stale`. `usable` is a set-up register file: out of reset, in
multidrop mode; or out of reset, isolation and power-down, with a full ANAR and
EDPD off.

### MmdRegisters, MmdIndirection

`file` is the chip's Clause-45 register file: a word (the set of its 1 bits) for
each device and register address. `req` is the call in flight and `got` the last
result. `MmdIndirection` adds the program counter `step` (which of the four
accesses comes next) and the chip's window: `fnctn` and `devad` are MMDCTRL,
`address` is the address register of each device, reached through MMDAD.
`Select` is one of accesses 1 to 3, `Read` and `Write` the fourth, `ReadModify`
the end of `mmd_rmw`'s read, after which its write starts over at access 1.
`Fail` is an `Err` at any access. `ChipClears` is a self-clearing bit between two
accesses. `mmd_rmw` is *not* atomic in `MmdRegisters` either: a read and then a
write, with the chip free to move in between, and `Lan867x` models it that way.

Initially the window is anywhere: the firmware may have been restarted in the
middle of a call.

### Lan867x

`chip` and `plca_id` are the fields of the struct. `pc` is the access that comes
next in the method in flight; `n` counts down the reads left in a poll; `cfg` is
the `PlcaConfig` argument and `snap` the `PlcaStatus` under construction; `res`
and `link` are the last method's return value. `lastPlca` is history: "ok", or
the step at which the last PLCA call failed (the successful end of `init` counts
as "ok" too, because it follows a reset).

The silicon: `part` (what PHY id, PKGTYP and MIDVER say), `phase` (held in reset,
resetting, booting, RESETC raised, ready), `mde` (T1SPMACTL.MDE), `en`, `ctrl1`,
`burst`, `pst`. An action is one Clause-22 access or one whole MMD access;
`MmdIndirection` is the justification for taking the latter as one step.

| Code | Actions |
| --- | --- |
| `init` | `CallInit`, `SoftReset`, `AwaitReset`, `Handshake`, `HandshakeLost`, `Identify`, `ReadMde`, `WriteMde` |
| `poll_link` | `CallPoll`, `PollLink` |
| `configure_plca` | `CallConfigure` or `RejectConfig`, `WriteCtrl1`, `WriteBurst`, `ReadEn`, `WriteEn` |
| `disable_plca` | `CallDisable`, `ReadDis`, `WriteDis` |
| `plca_status` | `CallStatus`, `ReadStatus` |
| `capabilities`, `phy_id` | `CallQuery`, `Query` |
| any read returning `Err` | `ReadFails`, or a disjunct of the action |
| `new` in a restarted firmware | `Restart` |
| silicon | `SwResetClears`, `BootCompletes`, `BeaconsChange` |

### Lan867xWithReset

Extends `Lan867x` with `pulse` (`hardware_reset` is between `set_low` and
`set_high`) and the history `stale` (the pin has moved since the last successful
`init`). The pin may fail in either direction; a failed `set_high` leaves the
chip held in reset, where MDIO floats high. `Inner(step)` is a step of the inner
driver, taken by delegation or through `inner_mut`, and excluded while
`hardware_reset` has the borrow.

### Lan867xRegisters

The same methods and the same silicon as `Lan867x`, with words in place of records:
`file` holds the six MMD registers at their addresses, `part` the identity words, and
every value goes through the masks and shifts of `regs.rs`. A step is one access; it
is split the other way round than in `Lan867x`, into what the access does to the chip
(`Lands`, or `Lost`) and what the method does next (`InitContinues`,
`PlcaContinues`, `QueryContinues`, or `Fails`). The refinement mapping unpacks the
words. `read_phy_id` is two reads here and one step in `Lan867x`. `answer` holds
what the last method returned: a link state, the abilities `read_capabilities` decodes from
BMSR, or the id `read_phy_id` puts together; the last two map to no link state.

The masks are arithmetic, so that they can be reasoned about: every mask of the driver
is one bit or none, and `Has`, `Without` and `With` test, clear and set it with
`\div`, `%`, `-` and `+`. `MCLan867xRegisters` assumes, and TLC evaluates over sample
words, that they agree with the `&` and `|` of the `Bitwise` module, and `Packed` with
shift and or.

### Ieee8023, Lan87xx

`link_up` is the field of the struct. `op`, `pc`, `n`, `cur` and `arg` are the
method in flight, its access, its poll counter, the BMCR word it has read and the
mode it forces. `initOk` and `asked` are history: whether the last `init` returned
Ok, and which mode the last call that succeeded since then asked for (auto, or a
forced one; unknown after a failure or loopback).

The silicon: `alive` (a chip without its clock answers nothing), `bmcr`, `anar`,
`edpd`, the negotiation (`an` and the abilities `adv` it is using), `linkUp` and
the abilities of the `partner`. `BmcrWritten` is what a write of BMCR does.

| Code | Actions |
| --- | --- |
| `init` | `CallInit`, `SoftReset`, `AwaitReset`, `CheckId`, `WriteMcsr`, `WriteAnar`, `ReadBmcr`, `WriteBmcr` |
| `poll_link` | `CallPoll`, `ReadBmsr`, `ReadMode`, `ReadPscsr` |
| `enable_auto_negotiation`, `force_link`, `set_loopback(false)` | their `Call...`, `ReadBmcr`, `WriteBmcr` |
| `set_loopback(true)` | `CallLoopbackOn`, `WriteLoopbackOn` (a full overwrite, no read) |
| `capabilities`, `phy_id` | `CallQuery`, `Query` |
| any read returning `Err` | `ReadFails` |
| `new` | `New` |
| silicon and board | `ResetCompletes`, `RestartSelfClears`, `AnCompletes`, `LinkRises`, `CableMoves`, `ClockChanges` |

### Lan87xxWithReset

Extends `Lan87xx` with the level of `nrst`, with `pulse` and with `stale`, as
`Lan867xWithReset` does, and with the history `seen`: LINK_STATUS has been 1 at some
moment of the `poll_link` in flight. While the pin is low the chip is in reset and silent; at its
release the reset may already be over at the end of the 25 ms (`alive'`) or not. What
comes out of reset is what the straps and the cold-boot quirk give: `ResetBmcrs`,
`ResetAnars`, EDPD anyhow. The wrapper has no `inner_mut`; the helpers of
`ieee802_3` need none, as they take the bus and the address.

## 3. What the models assume

- **An error.** An access that returns `Err` leaves the chip alone, or, with
  `LateErr = TRUE`, may have reached it. Both are checked; the stronger claims are
  stated for `LateErr = FALSE` only and say so.
- **Before RESETC is read** a write of an MMD register may be lost although it
  returned Ok. BMCR and the MMD window work in every phase.
- **PST** is 0 whenever PLCA is not enabled or the chip is reset.
- **A chip that does not answer** (held in reset, or without clock) leaves MDIO
  floating high, so that a read returns all ones; a write is lost and returns Ok.
- **The clock** stops and returns between calls, not in the middle of one.
- **AUTODONE** falls as soon as negotiation restarts. The latching of
  BMSR.LINK_STATUS is not modelled: `LinkRises` and `CableMoves` already let the
  bit a read returns be anything the cable allows.
- **BMCR in reset** ignores writes.
- **Ownership.** One driver owns the PHY, the contract both drivers document.
- **A restart** of the firmware may come at any access. It builds a new driver and
  leaves the silicon as it is.
- **Other silicon bits.** LAN867x registers change only by the driver's writes, by a
  reset, by RESETC and by PST.
- **Data.** In `Lan867x` PLCA registers are records and of the identity registers only
  whether each check passes is kept; `Lan867xRegisters` has the words. Clause-22
  words of the LAN87xx are sets of bits and PSCSR is a record, in `Lan87xx` as below
  it: the positions of its bits are left out.

## 4. The runs

| Run | Specification | What it shows |
| --- | --- | --- |
| `mmd` | `MCSpec` | the window always follows the call in flight; the four accesses refine an atomic register file; `mmd_rmw` keeps the other bits |
| `lan867x_late` | `Spec`, `LateErr` | the init gate; agreement after one successful call; no PLCA without a transmit opportunity; EN is last; `poll_link` and `plca_status` are truthful; the driver refines `PhyDriver` |
| `lan867x_exact` | `Spec`, no `LateErr` | the cached mode agrees with the silicon *always*, `poll_link` is right without exception, each step of a method brings its return nearer |
| `lan867x_reset` | `WithResetLive` | one successful `init` after the last movement of the pin restores gate and agreement; nothing hangs on a held chip; the wrapper refines `PhyDriver` |
| `lan867x_registers` | `Spec`, `LateErr` | the words refine the records at full width; bits beside MDE and EN survive; after a successful call the chip holds the packed configuration |
| `lan87xx` | `Spec` | full negotiation after cold boot, forced links reported as forced and as soon as LINK_STATUS is up, no link while negotiating or off a floating bus, `init` from any state, no stale AN_RESTART, `set_loopback(false)` disturbs nothing else, each step of a method brings its return nearer, the driver refines `PhyDriver` |
| `lan87xx_reset` | `WithResetLive`, `LateErr` | a link is reported only if LINK_STATUS has been 1 since that very call began, also after a pulse without `init`; one successful `init` gives full negotiation and forced modes back; nothing hangs with the pin stuck low; the wrapper refines `PhyDriver` |
| `lan87xx_quick_start` | `QuickStart` | the polling loop of the crate's README ends |
| `lan867x_failed_enable` | violation | see finding 1 |
| `lan867x_stale_gate` | violation | see finding 2 |
| `lan87xx_model` | violation | see finding 3 |
| `lan87xx_floating` | violation | see finding 4 |

### Bounds, and why they are enough

- `mmd`: two devices, words of three bits and seven requests over three registers. Two
  devices are needed for a window left on the wrong device, two registers of one
  device for a wrong address, and a bit each that the chip clears by itself, that a
  read clears, and that only writes change. Calls are checked one after the other
  without limit.
- `lan867x_*`: `U8Max = 3` stands for 0xFF: what matters of a u8 is 0, the edge of
  `node_count`, and the largest value with its special meaning. `ResetPolls = 2`
  stands for the 500 reads of each poll: a first read that goes on and a last one
  that gives up. Five configurations: coordinator, follower with bursts, follower
  with the count left at 0, and the two kinds of invalid one; two differ in every
  field. Four parts: a supported one, and one that fails each identity check (runs
  about PLCA alone use the supported one). The reset run takes two configurations.
- `lan87xx`: two reset values of BMCR (strapped for negotiation; isolated in a fixed
  mode), two of ANAR (complete; truncated to 10BASE-T half), two partners (a 10/100
  switch; a half-duplex hub), three parts, two forced modes that differ in speed and in
  duplex (10 full, which no negotiation of the instance ends in; 100 half, which the
  hub's does).
- `lan87xx_reset`: the sets of `lan87xx`, with one reset value of BMCR, one
  forced mode and the supported part, since the pin multiplies the states; both values of ANAR stay.
- `lan867x_registers`: full 16-bit words and the whole range of a u8 in the packed
  fields; configurations are the default one, one near the upper edge of every
  field, and the invalid sentinel. The parts are a revision with extra strap bits, and
  one that fails each identity check. Registers come out of reset with bits set beside
  those the driver owns. `ResetPolls = 1`; the countdown is checked in `lan867x_*`.
- `lan87xx_quick_start`: `ResetPolls = 3`, no bus errors (an error ends the program),
  the clock running, the cable left in place. The loop ends, so this run alone
  switches the deadlock check off.

No other run needs a bound: the state spaces are finite (up to half a million
states) and are explored completely.

### Fairness

`LiveSpec` and `WithResetLive` assume weak fairness of `DriverStep` (and of the
second half of `hardware_reset`): a processor that has entered a method keeps
executing it. Nothing is assumed of the chip or the bus, so "every method
returns" holds even on a chip that never leaves reset. It is checked of the wrappers
only, as `EverythingReturns`: a driver without a wrapper is one whose pin never moves.
`QuickStart` adds what its program has: the loop calls `poll_link` again, negotiation
between ends with a common ability completes, and the link of a plugged cable rises.
Without the last two the README's loop, which has no exit but the link, has no reason
to end.

### Findings

1. `configure_plca` documents of a failure of its third step that "in both cases
   `poll_link` reads `PLCA_STS.PST`". If PLCA was off before, `plca_id` is `None`,
   and `poll_link` reports up without reading PST. (The answer is right, the
   multidrop link being usable without PLCA; the description is not.)
2. `hardware_reset` leaves `chip` and `plca_id` cached, so that until the next
   `init` the gate "`chip.is_some()`" is open on a chip that has been reset. The
   passing run `lan867x_reset` shows what holds instead.
3. `PhyLan87xx::init` checks the OUI only; its README promises the model too.
4. On a bus that floats high `init` returns `ResetTimeout`, because the first thing
   it does is to wait for BMCR.RESET to read 0. The READMEs name `UnsupportedChip`
   with id `0xFFFF_FFFF` as the symptom.

## 5. The proofs

All theorems hold for every value of the constants under the modules' named
assumptions (`MmdAssumption`, `ConstantsAssumption`, `RegistersAssumption`), which say little more than what the constants are; TLC evaluates them
in every run.

**MmdIndirection_proofs.** `WindowFollowsCall` with `TypeOK` is inductive: each
access establishes its own part of the window and no access of the same call
disturbs it (`WindowAlwaysFollowsCall`). From it, accesses 1 to 3 are stuttering
steps of `MmdRegisters` and the fourth, which goes to the addressed register, is
its `Read`, `ReadModify` or `Write`; a failure is its `Fail`
(`ImplementsRegisterFile`). `RmwPreserves` needs one invariant more, which links
the word about to be written to what the register still holds.

**Lan867x_proofs.** No safety property of the driver is inductive: each speaks of
the end of a method. `IInv` adds what holds on the way:

- `InitProgress`: `init` works on an uncommitted driver, PLCA is off since its
  reset, the handshake is done from the identity checks on, and the part has
  passed the checks made so far;
- `ConfigureProgress`: the configuration in hand is valid, and CTRL1 and BURST are
  in place by the time EN is written;
- `StatusProgress`: what `plca_status` has read is still in the registers;
- `Agreement`: cache and silicon agree except where an `Err` hid a write, and on
  the parameters except while they are being written.

`InitGate`, `OpportunityGranted`, `ModeNeverDisagrees` and `RetryRecovers` follow
from it as invariants, `EnableComesLast`, `PollTellsTruth` and `StatusNotTorn` as
action properties.

`TraitImplemented` maps every step: `ready => usable` is `CommittedImpliesReady`.

`MethodsAreBounded` is what can be proved of "every method returns": `StepsLeft`, a
natural number read off the program counter and the poll counter, falls with every
step of a method (`EveryStepCounts`), whatever the chip answers and for any
`ResetPolls`. It needs of `IInv` that a poll in progress has a read left. That a
processor keeps taking those steps is the fairness under which TLC checks
`EverythingReturns`.

**Lan867xRegisters_proofs.** The words, for every configuration of u8 values, every
part and every word the registers come up with. The lemmas at its head are the
arithmetic of the encodings, on which the rest leans: a mask of one bit can be tested,
cleared and set without a neighbour noticing (`OneBit`), packing stays in 16 bits and
can be undone (`Packing`, `Unpacking`), and the six addresses differ (`Addresses`).
`IInv` has the parts one would take for granted of a chip and a caller, and which the
words do not give by themselves: the poll counter (`PollsCounted`), RESETC only on a
booted chip (`ResetcAfterBoot`), PST only under EN (`StableNeedsEnable`), the word
between the halves of a read-modify-write being what the register still holds
(`ReadStillCurrent`), and no link state left over from an earlier call while another is
in flight (`SilentInFlight`).

- `TypeCorrect` and, as an action property, `DriverKeepsOtherBits` follow directly.
- `RefinesDriver` maps the initial states and every step onto `Lan867x`: an access
  that lands or is lost, times what the method does next, is the one action of
  `Lan867x` at that program counter; the first half of `read_phy_id` is a stutter.
- `RetryRestoresWords` brings a theorem of `Lan867x` down to the words. By
  `RefinesDriver` a behaviour of the words is, mapped, a behaviour of `Lan867x`, so
  `RetryRecovers` applies to it (`DriverConstants` discharges its assumptions), and
  the unpacked records it speaks of determine the words.

**Lan867xWithReset_proofs.** `IInv` says nothing true of a driver whose chip has been
reset behind its back. `WInv` keeps the part that does not rest on an initialised
chip (`Unconditional`: how far an `init` in flight has got, a valid configuration,
no PST without EN) at all times, and `IInv` while `~stale`. It is inductive because
`init` begins by dropping the caches, on an uncommitted driver the two say the same,
and `stale` falls only as `init` succeeds. A part of its own, `PulseInv`, says that a
chip whose pin is low is held and that no method is in flight then. `InitRestores` and
`WrapperTraitImplemented` follow.

**Lan87xx_proofs.** `IInv` has the types, `OpFollowsStep` (which method may be at
which access), `RestartInv` (AN_RESTART only with AN_ENABLE, in BMCR and, for a
method that keeps it, in the word read) and `DoneInv` (a finished negotiation has
a common ability). With it come lemmas on the decoding of PSCSR: the encoding of
the modes is injective, 7 is reserved, and decoding inverts encoding.
`TypeCorrect`, `RestartNeverStale`, `FloatingBusNeverUp`, `UpMeansNegotiated` and
`MethodsAreBounded` (the ranking function, as for the LAN867x) follow.

**Lan87xxPromise_proofs.** What `init` promises needs the history of the calls.
`Promise`, inductive relative to `IInv`, says that a BMCR with RESET is RESET alone
(`ResetAlone`); what each stage of `init` has put behind it (`InitProgress`: out of
reset, EDPD off, ANAR complete); that what a successful `init` has granted stays
(`Granted`); and that BMCR, *and any word read from it that a read-modify-write is
about to put back*, does what was last asked for (`AskedIsSet`). The last part is
the one a method-by-method reading misses. For `ForcedIsReported` it also gives the
converse: a forced PHY has AN_ENABLE clear, so a poll ends without reading PSCSR, and
says down only where the link is. `InitNegotiates`, `FullNegotiation`,
`ForcedIsReported` and `TraitImplemented` follow.

`LoopbackOffIsPrecise` is about the two halves of `set_loopback(false)`, between which
the chip may clear AN_RESTART. It adds that the word read is still BMCR up to that bit
(`WordStillCurrent`, from `Granted`: a granted PHY is not in reset, so the chip changes
nothing else), and that the chip negotiates exactly while AN_ENABLE is set
(`NegotiatesIfEnabled`), so that writing the same bits back starts nothing.

**Lan87xxWithReset_proofs.** As for the LAN867x: `IInv` survives the pin, `Promise`
holds while `~stale`, its `Unconditional` part always, and `PinInv` says that a chip
whose pin is low is silent and without a link. `SeenInv` is the argument for
`NothingInvented`: past its first read a `poll_link` has seen LINK_STATUS at 1 or is
reading a chip that does not answer, whose PSCSR decodes to the reserved code.
`NothingInvented`, `ModesRestored` and `WrapperTraitImplemented` follow.

**Model-checked only.** Liveness (`EverythingReturns`, `LoopEnds`) is
out of the prover's reach: it rests on fairness, hence on ENABLED. Its safety core is
proved for the two drivers as `MethodsAreBounded`. The agreement of the arithmetic
masks with the bitwise ones is evaluated by TLC, not proved, because the provers have
no theory of the `Bitwise` operators. The four violations are TLC's counterexamples.

## 6. What is not modelled

- The positions of the bits in the words of the LAN87xx (BMCR, ANAR, MCSR, PSCSR): each
  is a set of bits or a record, translated mask by mask. The speed field of
  PSCSR is the only one wider than a bit, and it keeps its numeric code.
- The register definitions no code uses: interrupt sources and masks of both chips,
  PCS registers, STRAP_CTRL0.MITYP and SMIADR.
- The ids and straps that `PhyError` carries, and `is_coordinator`, which is
  `node_id == 0`: values nothing acts on.
- `link_up` of `PhyLan87xx` is modelled, but outside tests nothing reads it, so no
  property is stated of it.
- A second MDIO master, which both drivers exclude by contract.
- That `set_loopback(false)` never restarts a negotiation: one it finds about to
  restart may have begun, or even ended, by the time it writes AN_RESTART back. The
  model has it; `LoopbackOffPreserves` excludes every other disturbance, and
  `UpIsNegotiated` a wrong link meanwhile.
- The MAC and its MDIO master, the `defmt` feature, manifests, CI, and the unit tests.

## 7. Plan

Done, in this order, the most important first: `MmdIndirection` with its abstract
specification, `Lan867x`, its proofs, `Lan867xWithReset`, `Lan87xx`, its proofs,
`PhyDriver` and the four refinements, `Lan87xxWithReset`, `Lan867xRegisters`, the
proofs of all of them, and the bounds on every method.

To do: several `Lan867x` nodes on one segment: transmit opportunities by node id, one
coordinator, and what a failed reconfiguration does to the others. The medium is
outside the repository, so this would rest on Clause 148 more than on the code.
