# TLROT: a formal model of the root of trust

TLROT is a root of trust derived from OpenTitan: a boot ROM checker, KMAC, a key
manager, OTBN, HMAC, an entropy chain, SM3/SM4, PUFs and a Reed-Solomon codec behind
one TL-UL socket (`src/src/lowrisc_systems_rot_top_0.1/rtl/rot_top.sv`), written in
SystemVerilog, with a C++ layer that loads memory images into the Verilator
simulation. This directory holds TLA+ models of it, the TLC runs that check them, and
proofs for TLAPS. Paths below leave out the leading `src/src/`.

## 1. Inventory

| Part | State it keeps | Operations | Hard behaviour |
|---|---|---|---|
| `rom_ctrl` (`lowrisc_ip_rom_ctrl_0.1`) | FSM, address counter, comparator, mux select, DIGEST, EXP_DIGEST, sticky alert | hash the ROM below the digest through KMAC, compare, hand the ROM to the bus, release the digest | the counter races with KMAC; the ROM changes hands under a read in flight; no hang, no early release |
| `kmac_app`, `kmac_errchk`, `sha3` (`lowrisc_ip_kmac_0.1`, `lowrisc_ip_sha3_0.1`) | FSM, selected application, refusal flag, checker state, engine state | arbitrate, configure, absorb, squeeze, refuse, drain, software commands | three users of one engine; commands delayed by a register; errors confirmed by software at any time |
| `keymgr` (`lowrisc_ip_keymgr_0.1`) | working state, key of each CDI, operation state and counter, sideload slots, output registers, sticky errors | advance, generate, disable, clear slots, wipe after a fault | faults and refusals in the middle of an advance, which derives two keys in two rounds; CONTROL is read a cycle late |
| `otbn` (`lowrisc_ip_otbn_0.1`) | STATUS, the FSMs of `otbn_controller` and `otbn_start_stop_control`, memory windows, the URND request | execute, end or fail, wipe registers and memories, lock | two FSMs stop and lock in different cycles; seeds arrive after the stop; locking takes back the answers to reads that were granted |
| `otbn_scramble_ctrl`, `prim_sync_reqack`, `otbn_otp_controller` | key, valid and pending flag of each memory; two-phase handshake; key source | withdraw a key, ask for another, answer | request and acknowledge across a synchroniser; an answer that repeats while the request is held |
| scrambled RAM of OTBN (`prim_ram_1p_scr`, `prim_ram_1p_adv`, `sram_array_*`) | array, write stage, holding register, cipher register, key and nonce | read, masked write, change of key, fall silent | a write is delivered cycles after its grant, reads overtake it, the key changes meanwhile |
| `edn`, `csrng`, `entropy_src` | main and acknowledge FSMs, FIFOs, command streams | generate, reseed, serve endpoints | back-pressure, disabling in mid-command, endpoints in different clock domains |
| TL-UL (`lowrisc_tlul_*`) | outstanding counters, request FIFOs | route, adapt to registers and SRAM, gate | response to a device that was deselected; error responder in order with real ones |
| Alerts, escalation, CDC (`lowrisc_prim_alert_0`, `prim_esc`, `prim_fifo`) | handshake FSMs, ping, gray pointers | send, acknowledge, ping | skewed differential pairs, lost pulses |
| `DpiMemUtil`, `SVScoped` (`lowrisc_dv_verilator_memutil_dpi_0`) | registry of memories, address map, staging area, the scope of the moment | register, stage an ELF file, load by address, load by name (ELF, vmem), read back | overlaps in every order, 32-bit wrap-around, exceptions midway, relative names |
| `Ecc32MemArea`, `ScrambledEcc32MemArea`, `scramble_model`, `prince_ref`, `secded_enc` | none of their own (rows behind `simutil_set_mem`) | pack and protect 39-bit words, scramble, read back | two implementations of one cipher and of five codes; unaligned bit positions, odd widths, byte orders |
| `hmac`, `sm3`, `sm4`, `puf`, `rs_*`, `aes` | mostly data path | | small control; `aes` is not instantiated |

How they interact: `rom_ctrl` is application 1 and `keymgr` application 0 of `kmac_app`
(valid/ready words, one `done` pulse with the digest); `rom_ctrl` passes digest and
verdict to `keymgr` and to the power manager; software reaches every block through
TL-UL registers; `edn` serves `keymgr`, `kmac` and `otbn`; `otbn` orders new scrambling keys
for its two memories, and `otbn_scramble_ctrl` drives their key ports. `rot_top` ties alert
receivers to their defaults and life-cycle escalation to Off.

What makes each part correct: the ROM checker hashes every word once and in order,
compares complete digests and gives nothing away before that; a digest KMAC returns is
the digest of that application's message and everyone who asks is answered; the
key manager's keys are those of its state, and a fault leaves none of them behind; OTBN's
STATUS tells the truth, and a program leaves neither registers nor keys to what follows; handshakes
neither lose nor duplicate; a scrambled RAM answers as a plain one would, and simulation and
hardware scramble alike; the loader puts the last segment's byte at every address or
says that it could not. `PROJECT.json` lists each hazard at its line.

## 2. Modules

| Module | Models | Built on |
|---|---|---|
| `RomGate` | abstract: a window that is shut, then open, then perhaps dead | |
| `RomCtrl` | the ROM checker, one step per clock cycle | refines `RomGate` |
| `RomCtrlProofs` | its theorems | `RomCtrl`, TLAPS |
| `KmacApp` | application interface, command checker, engine control | |
| `KmacAppProofs` | its theorems | `KmacApp`, TLAPS |
| `Keymgr` | the key manager, one step per clock cycle | |
| `KeymgrProofs` | its theorems | `Keymgr`, TLAPS |
| `KeyPort` | abstract: the key port a scrambled RAM relies on | |
| `OtbnScramble` | scrambling keys of OTBN's memories, synchroniser, key source | |
| `OtbnControl` | OTBN's commands, status, memory windows, stopping, wiping, locking | `OtbnScramble`, implements `KeyPort` |
| `OtbnProofs` | its theorems | `OtbnControl`, TLAPS |
| `WordMemory` | abstract: an array of words that forgets when its key changes | |
| `ScrRam` | the scrambled RAM, one step per clock cycle | refines `WordMemory` |
| `ScrRamProofs` | its theorems | `ScrRam`, TLAPS |
| `RangedMap` | the C++ template of that name | |
| `RangedMapProofs` | lemmas about it | `RangedMap`, TLAPS |
| `SvScope` | how names of instances resolve against the current scope | |
| `MemUtil` | registry, staging, loading and the word-wise accesses | `RangedMap`, `SvScope` |
| `MemUtilProofs` | its theorems | `MemUtil`, `RangedMapProofs`, TLAPS |
| `Bits` | bit vectors as sets of positions, with substitution tables | |
| `PrinceRef`, `ScrambleModel` | `prince_ref.h` and `scramble_model.cc` | `Bits` |
| `ScrDatapath` | the same functions in the RTL: cipher, permutation network, code for 39 bits | `Bits` |
| `Secded` | the encoders of `secded_enc.c` against the decoders in hardware | `Bits` |
| `ScrambledArea` | a scrambled memory written and read from both sides | `ScrambleModel`, `ScrDatapath`, `Secded` |
| `ScrambledAreaProofs` | its theorems | `ScrambledArea`, TLAPS |
| `MCRomCtrl`, `MCMemUtil`, `MCScrRam`, `MCScrambledArea` | concrete images and memories for TLC | |

Some definitions stand in front of a slightly wrong twin, marked "Mutant": a plausible
mistake in that piece of code. Put in place of the right definition, each makes TLC
report exactly the property it is paired with in `PROJECT.json`, which shows that the
property depends on the code it is about. The specifications do not use them.

### RomCtrl

One step is one clock cycle; each flip-flop's next value is computed from the old values
and the inputs of the cycle, block by block: `CounterStep` (`rom_ctrl_counter`),
`FsmStep` with `Scheduled` (its case statement) and `Inconsistent` (the checks below it),
`CompareStep` (`rom_ctrl_compare`), `MuxStep` (`rom_ctrl_mux` and the output register of
the ROM), `RegsStep` (DIGEST, EXP_DIGEST and the alert cause in `rom_ctrl`). `Quiet` is a
cycle without and `Answer` one with `kmac_done`. The environment chooses KMAC's `ready`,
the time and content of its answer, whether it is an error, and a bus request, in each
cycle; with `KmacMisbehaves` the answer may come in any cycle at all, before the message
is complete or after the verdict.

A 64-bit ROM word is a pair of 32-bit halves, because the comparator steps in halves
over registers filled in words; `HalfOf` is that indexing. Scrambling and SHA-3 are
abstracted: any digest may come back. The redundant encodings and their detectors are
left out; they react to glitches, which are no behaviour of the code.

### KmacApp

One step is a clock cycle and one action a state of the FSM in `kmac_app.sv`; `Around`
adds what happens in that cycle elsewhere: `Engine` (the FSM of `sha3.sv`), `Errchk` (with
the freeze that a refused command causes and the one-cycle latch of `sw_cmd_o`) and
`Clients` (the FSM of `keymgr_kmac_if`, which is also how `rom_ctrl` looks from KMAC). A
word of application *i* is `<<i, k>>`, and `fed` collects what the engine has taken, so
that "the digest is that of the message" can be said without computing it.

Software is one of three kinds (`sw`, fixed in a behaviour): *orderly* writes only
commands the checker allows, *free* any command in any cycle, both confirm an error
only when the refused message has drained; *eager* confirms it whenever it likes. A
register write takes two cycles on the bus (`outstanding_q` in `tlul_adapter_reg.sv`), so
none writes in two consecutive cycles; otherwise it may write in every cycle.

One start is lost. In the cycle in which an application gets its digest (StAppWait, absorbed) the checker stays in
Idle, because an application is active, but raises no error and passes the start on; one cycle later
`kmac_app` is idle and takes it, the engine is still flushing and refuses it with
ErrSha3SwControl, and `kmac_app` is left in StSw with a checker in Idle and an idle engine. The run `kmac_engine`
shows this for orderly software: `EngineAccepts`, that the engine accepts whatever the checker passes on to it, is
violated, although `kmac_errchk.sv:70` speaks of valid commands only and `kmac_errchk.sv:22-23` of filters behind the checker.
The passing run has these behaviours too. What it claims of them is `ToldIsAccepted`: a start with which the checker has moved on, and
every command of an application, is accepted; and `EveryRequestEnds`: the applications are served, or a start was lost
(`StartLost`), after which they wait until software happens to write another.

Abstracted: the datapath and masking, the FIFO and packer (a word is accepted at once or
later), rounds (the engine takes any time), `kmac_entropy` (whether entropy or key is
there is chosen when it is looked at), error codes.

### Keymgr

A key is the history of its derivation: `<<"root", "Sealing", "Creator">>` is what the root
key becomes for sealing in the first stage, so that two keys are equal only if they were derived alike, and a
property can say which key it should be. One step is a clock cycle, `Clock(i)`, with one
definition per block: `KmacIf` (`keymgr_kmac_if`), `OpState` and `Counter`
(`keymgr_op_state_ctrl`), `Errors` (`keymgr_err`), `KeyState` and `Fsm` (`keymgr_ctrl`), `DataEnable`
(`keymgr_data_en_state`), `Sideload` (`keymgr_sideload_key_ctrl` and the slots), `SwOutput` and
`Registers` (what software may write, given `cfg_regwen`, and that reading the output registers clears them). `Purpose` is the
seed for the use of a generated key, which `hw_sel` chooses and not the operation. The inputs of a cycle are a fault
found elsewhere, what KMAC does (take the message, answer, fail) and a seed from EDN.
`refused` in CONTROL stands for everything `keymgr_input_checks` refuses (versions, keys of all
zeros or ones are found in `Refused` itself); generations for hardware are refused as those for software are, and either may
name no destination.

Left out: the reseed timer, `lc_keymgr_en` (tied on by `rot_top`), masking shares, the width of
messages, glitched encodings.

### OtbnScramble, OtbnControl and KeyPort

One step is a clock cycle of all blocks; `rot_top` drives both sides of the synchroniser from one
clock. `OtbnScramble` has the FSM of `otbn_scramble_ctrl` (`Controller`), both halves of `prim_sync_reqack`
with the flops between them (`Synchroniser`; in its odd phase a side inverts what it sends and
receives), and `otbn_otp_controller` (`OtpController`), which answers with keys 0, 1, 2 and so on.
`OtbnControl` adds the rest: the signals between the blocks by their names (`FatalErr`, `Stop`,
`WipeReq`, `Done`, `Locks`, ...), then the registers: `StartStop` (`otbn_start_stop_control`, with
`AfterRefresh`, the one state that a stop leaves in two ways), `Controllers`
(`otbn_controller`), `UrndRequest` (`otbn_rnd`), `Top` (`otbn.sv`) and `Bus` (the access of the last cycle, or the one that
will never be answered). An instruction is the way it ends. `exposed` and `owed` are
history variables: the memories that still have the key of the last program, and how many rounds of wiping
the registers need.

`KeyPort` is what `ScrRam` assumes of its key port: a key is withdrawn before it is replaced, and
the order to suppress accesses stays. `FeedsKeyPort` says that `OtbnControl` implements it, for each memory; thus
`ScrRam` and `OtbnControl` compose.

Left out: the instruction set, loop and call stacks, RND prefetching, the data of bus reads and its blanking (`*_rdata_bus_en_q`), escalation and RMA requests
(tied off), glitched encodings.

### ScrRam and WordMemory

A write is granted one cycle before it can be scrambled (the cipher has a register in the
middle), waits in the write stage and, if a read takes the port, in a holding register; a
read of the same row meanwhile is answered from the plain copy, lane by lane. One step is
one clock cycle, of one of three kinds: `Read`, `Write` or `Idle`. Each says what the
signals `read_en` and `macro_write` make of the array (`Array`), the holding register
(`Hold`), the cipher (`Keystream`) and the ports (`KeyPort`, `Errors`).

A lane is a group of bits under one bit of the mask, as wide as a block of the diffusion.
A stored lane is the pair of the address whose keystream hides it and its value; under any
other keystream, and under any other key, it is `Garbage`. That is all the model takes from the
ciphers, together with the address scrambling being injective for every nonce
(`ScramblingAssumption`; `ScrambledArea` has the network itself, and `AddressesStayApart` proves it of that network). What may happen at the key port is `KeyPort`: keep, wipe (valid falls), and load, only
while nothing is valid. `locking` stays, as OTBN's locked state does until reset. `OtbnProofs` proves
both of `otbn_scramble_ctrl` and OTBN's locking logic.

`WordMemory` is what the user is promised. The refinement mapping `Store` puts the undelivered
write into the array and decodes each row for the address that scrambles to it.

Left out: a reset in mid-operation, and `raddr_o`, which only reports.

### RangedMap, SvScope and MemUtil

A `RangedMap` is a set of entries `[lo, hi, val]`; the iterator walks of `Emplace`,
`EmplaceDisjoint` and `find` become the sets of entries they stop at. `MemUtil` has one action per API
call where a call is atomic (`RegisterMemoryArea`) and one per segment where a call loops
and an iteration may throw (`StageSegment`, `LoadSegment`, `FlattenSegment`); the
`...Rejects` actions are the ways out. Addresses are `0 .. Lim-1` and wrap as `uint32_t` does. A byte of a file is
`<<segment, offset>>`, so every byte knows where it came from. `Emplace` and its
merging loop are in `MemUtil`, because the code passes them the function that merges segments. The loops that build up a
value are functions of how far they are: `MergeHits` (the merging loop, by the address it has reached) and `Flattened` (the second pass over a
file, by the number of segments). A write goes word by word,
and the simulator may refuse any word. An assertion that fails is the outcome `"abort"`,
after which nothing happens. Indices start at 1 here and at 0 in the code.

`SvScope` resolves the name of a memory against the scope that is set at the moment, as `SVScoped` does in its
constructor; `MemUtil` does so at every access of a word, for callers in several scopes (`caller`). A memory in
the design (`Memories`) may be shorter than its area, be missing, or lack the key of a scrambled one; each
makes an access throw. `mem` holds what the design holds, and `ReadBack` is what the loader reads of it. What
libelf finds in a file is reduced to its segments, and every complaint about the file to `elf_error`.

### ScrambledArea and the modules below it

Here nothing is abstracted but the representation: a bit vector is the set of the positions of
its ones. `PrinceRef` and `ScrambleModel` translate the C++, with its byte reversals
folded into which half of the key is which; `ScrDatapath` translates the SystemVerilog, with packed
arrays, masks and shuffles as they are there. Neither uses the other. The results of the C++
modules were compared with the compiled code, bit for bit, on keys, addresses and widths.

`ScrambledArea` puts both beside one memory. `Write` and `WriteWithIntegrity` are the loops of
`MemArea::Write` and `Ecc32MemArea::WriteWithIntegrity` for one row: check bits (inverted for
a word that shall not be good), packing at 39-bit distances across bytes, scrambling, and
`simutil_set_mem`. `HwWrite` encodes, scrambles and stores as the hardware does; that takes two
cycles there, which is the subject of `ScrRam`. `NewKey` puts another key and nonce on the
ports that both sides use. An address has at most 32 bits, as `vbits` of a `uint32_t` has (`scrambled_ecc32_mem_area.cc:67`). `mem` and `array` are two variables because the code has two arrays: the one
in `prim_generic_ram_1p.sv` that the loader reaches (`mem`, lines 48 and 77-100), and `sram_array_*`, which the hardware uses. In this
repository nothing joins them: what the loader puts into `mem` never reaches the hardware, and it never sees what the hardware wrote.
`Secded` has the five codes with their plain and inverted variants: the encoders take masks and the
decoders syndromes, two tables written down separately in the code, and the assumption `DecodersFit` checks that
they fit, for every single and double error (the codes are linear, so two words are enough). `SwRead` and `HwRead` are what each side's functions make of given rows, whoever made them, and the
properties compare them on both arrays: they are about encoding and decoding, not about a path from one side to the other. `loaded` and `stored` are history variables.

## 3. Runs

| Run | Question | Bounds | States |
|---|---|---|---|
| `rom_boot` | do the safety properties, the refinement and termination hold? | 5 words, 2 of them digest, two values of a half word | 1,617 |
| `rom_digest` | does "good" mean equal digests? No | the same | |
| `kmac_app` | do the three users get along? | 2 applications (one KMAC mode), 2 words, 2 requests each, 1 software word, software writing in any cycle | 7,766 |
| `kmac_engine` | does the engine accept whatever the checker passes on? No | 1 request each | |
| `kmac_ack` | is a refused message drained? No | 1 request each | |
| `keymgr` | do keys and state belong together, whatever is refused, fails or strikes? | two sideload slots, 2 words of entropy, one output in use at a time (`MaxInUse`) | 214,054 |
| `otbn` | does STATUS tell the truth, and is everything wiped that has to be, is every read answered? | address counter to 1, 3 keys | 50,985 |
| `otbn_key` | is an acknowledgement the answer to the request? No | the same | |
| `scr_ram` | does the RAM answer as a plain memory? | 2 words of 2 lanes, 2 nonces of which one swaps the addresses | 169,468 |
| `mem_load` | is what is loaded the image? | 8 addresses, 2 of 5 areas, files of up to 3 segments of up to 3 bytes, 4 loads and segments in all | 1,016,341 |
| `mem_clash` | is every overlap reported? No | 1 segment | |
| `scrambled_views` | do C++ and RTL scramble, protect and pack alike, so that each would decode the other's rows? | OTBN's data memory: 128 rows of 8 words, 2 of them accessed, 2 keys, with and without repeated keystream | 2,664 |

The properties, in short:

* `HashedInOrder`, `ExpDigestComplete`, `GoodMeansCompared`: what is
  hashed, expected and compared. `NoSpontaneousAlert` and `ReleaseIsStable`: no
  alert before KMAC has answered, and a verdict stays. `ImplementsGate`: the window
  refines `RomGate`. `CheckEnds`: the check ends in Done or Invalid.
* `AnswerIsOwn`, `SwSeesOwnHash`: an application gets the digest of its own message, or a refusal
  that its own request earned; software sees no digest of others.
  `DoneWhenWaiting`: no `done` the key manager or ROM checker would take for a fault.
  `ToldIsAccepted`: whoever has been given the engine finds it ready. `EveryRequestEnds`: applications are not starved, but by
  a lost start.
* `KeysMatchState`: between operations both keys are those of the state, also after an advance of which one
  derivation failed. `OutputMatchesRequest`: a key that reaches software or a slot is the one that was
  ordered, by an order for it. `Forgotten`: in Invalid nothing is left, and nothing comes back. `NoFalseFault`: the checks
  of the key manager on itself never fire by themselves. `OperationsEnd`: every order is answered.
* `StatusTruthful`: STATUS against both FSMs, keys and locking. `NoFalseAlarm`: the checks between
  OTBN's blocks never fire by themselves. `UnansweredIsFatal`: a bus read that is never answered comes with
  a fatal error, also when no program runs. `FatalRekeys`: a fatal error takes the keys away. `RegistersWiped`: two rounds, however the
  program ended. `FeedsKeyPort`: the refinement of `KeyPort`. `WipesEnd`: wipes and key exchanges end.
* `RegistryConsistent`: maps and vectors agree after every success, failure and roll-back.
  `StagedIsImage`, `LoadedIsImage`, `NamedIsImage`: the bytes, in the staging area, and as the loader reads
  them back after loading by address (which also never aborts) and by name.
* `NoOverrun`: one holding register is enough. `UndeliveredReadable`: the scrambled and the
  plain copy of a waiting write agree, for the row it goes to. `ImplementsMemory`: the refinement.
* `ViewsAgree`: the functions of simulation and hardware find the same words and integrity in any row, also in
  rows of another key. `WrittenDecodes`: either's functions would decode what the other wrote, at the
  address it was written to, with the words marked bad that were written so.

Why the bounds are enough. Five ROM words are three to hash, the least with a first, a middle and a last, and two
of digest, so that EXP_DIGEST has an order to get wrong. The proofs cover the rest. Two
applications are what `rot_top` connects; one is in KMAC mode and can be refused, the other
not; two requests let one follow the other's success and failure. Three
segments in eight addresses cover all relations of two segments and one that bridges
two others; areas touch, overlap, share a name and wrap around; four units of work are a file of three segments, or a
load that fails midway with another after it.

Two sideload slots and the output registers are three places, of which a key must find the right one. To keep the run
short, software orders a key into an output only while neither of the other two holds one (`MaxInUse` is 1), and clears the slot for OTBN
or none (`Clears`). So the same order is given again into a place that is in use, and another place is filled once
the registers have been read or the slot cleared, but two places are never full together; the proofs hold for every value of both bounds. Two words of entropy
are the least for the counter to have to be cleared; the state is otherwise finite and explored
in full. OTBN's address counter runs to 32 and 31 in hardware; to 1 it still has a first, a last and a
reset in between, and the proofs cover every size. Three keys are one for each memory and one more, so that a second exchange
meets the synchroniser in either phase; with three the model stops ordering wipes, but OTBN's own go on.

In `scr_ram` two rows are the least for which
reads hit the row of a waiting write or miss it; two lanes, for a mask between none and all; the
lanes outside the first are always 0, which keeps words apart by one lane. `scrambled_views` uses the
real shape of the memory: 312 bits end in the middle of a keystream block, and 39-bit
chunks are odd, no multiple of four, and cross bytes. Two rows suffice to see one overwrite
the other. It checks examples of keys and data; the proofs cover all of them.

`MemUtil` runs with deadlock checking off: the program ends when its calls are used up.

Fairness. `RomCtrl`: the clock runs with KMAC ready again and again, and KMAC answers a
complete message (its FSM leads from every state to an answer, as `kmac_app` checks in its turn).
`KmacApp`: the clock runs, the FIFO drains and Keccak ends (24 rounds), orderly software sends the Process and Done of what it
has started, and confirms an error once it may. Nothing is
assumed of free software, for which `EveryRequestEnds` is not claimed. `Keymgr`: the clock runs, and again and again there is
a cycle in which KMAC does what is asked of it (it takes and answers every request of an application, see
`EveryRequestEnds`) and EDN delivers a seed that is awaited. `OtbnControl`: the same for the clock and EDN, whose
request `otbn_rnd` keeps up until it is answered; the key source needs no fairness, as it answers in a fixed number of cycles.

## 4. Disagreements between code and documentation

1. `rom_ctrl_compare.sv:147`: of 256 digest bits 128 are compared (`GoodMeansEqual`). What holds, and is proved, is
   `GoodMeansCompared`.
2. `dpi_memutil.cc:339`: a clash with the first memory aborts (`ClashIsReported`).
3. `kmac_errchk.sv:404`: a start that the checker neither refuses nor follows reaches an engine that is flushing (`EngineAccepts`). What
   holds, and is proved, is `ToldIsAccepted`.
4. `kmac_app.sv:535`: a refused message not drained (`RefusalIsFlushed`).
5. `otbn_otp_controller.sv:26`: the request is still up in the cycle of its answer, and starts a second one. It
   reaches the other side after that has asked again: a memory is then given a key as the answer to a request that has not been
   answered, though each side should see one handshake (`prim_sync_reqack.sv:8`; `AckAnswersRequest`). What holds,
   and is proved, is `FeedsKeyPort`: even then no key is exchanged under a valid port.

Seen while reading, without a run:

* `rom_ctrl_fsm.sv:118` calls Invalid "only reachable by a glitch", but `kmac_err_i` leads there (`:156`).
* `kmac_pkg.sv` configures application 1 for the life-cycle controller and 2 for the ROM checker, while
  `rot_top.sv:455` connects the ROM checker to 1.
* `kmac_errchk.sv:22-23` says that bad commands are passed on, but `block_swcmd` stops those that raise an error, and one that
  the checker ignores (3.) is passed on.
* `kmac_errchk.sv:404`: the checker looks at `app_active` of the cycle of the write, `kmac_app` sees the start a cycle later. If an application asks in
  that cycle, the start is accepted by the checker, which goes to StMsgFeed, and dropped without an error by `kmac_app`, although
  `kmac_errchk.sv:405-406` has it proceed only for a start in a valid period. Software then finds its words and its Process ignored.
* `mem_area.h:33` documents a size in bytes for a parameter that counts words; `mem_area.h:51-53` promises zeros after the
  data, but `ecc32_mem_area.cc:162` takes bytes from behind the vector for an incomplete last word (`Junk` in `MemUtil`).
* `prim_generic_ram_1p.sv:62`: the array that `prim_util_memload.svh:6-7` loads is read by no hardware; the rows moved to `sram_array_*`. So an image
  that `DpiMemUtil` has loaded into a RAM without an error is not what OTBN runs on, and reading back after a run shows the image, not the memory.
* `dpi_memutil.cc:294`: `GetFlat` of an empty `StagedMem` computes two bytes; no caller does that.
* `scramble_model.cc:281`: a last block narrower than the others gets vectors as wide as a whole block; no memory has one.
* `scrambled_ecc32_mem_area.h:33` repeats the keystream by default, `prim_ram_1p_scr.sv:47` does not.
* `prince_ref.h:204` shifts a 64-bit word by 64 for row 0, which C leaves undefined (whatever
  a machine gives, the OR with the other shift is right).
* `prim_ram_1p_scr.sv:131`: a write stays undelivered while reads come in every cycle; no harm, as reads see it.
* `otbn.sv:809-814`: an access to a memory whose key is being exchanged is neither granted nor answered and raises a fatal
  error, though the comment rules it out. The two orders in which that happens are in `OtbnControl` (`MissedGrant`).
* `otbn.sv:448`: "When OTBN is locked all imem bus reads should return 0", but `locking` is also the `intg_error_i` of the memories (`:351`, `:556`),
  which kills `rvalid_o` (`prim_ram_1p_scr.sv:315`): a read that is granted while OTBN locks or is locked is not answered with zeros but not at all,
  and the bus waits for ever (`"lost"` in `OtbnControl`).
* `otbn.sv:458`: the assertion that the window is open in Idle fails for an illegal access in the last busy cycle, which closes it for one cycle more.
* `otbn.sv:602-603`: errors in the data memory's code are masked (`& 1'b0`), though the comment calls all of them fatal.
* `otbn.sv:795-801`: the order to take the keys away is obeyed only while OTBN is busy. A fatal error with no program under
  way, and an illegal access in the last busy cycle of one, lock OTBN with the keys in place. `FatalRekeys` says so: `busy`.
* In `keymgr_ctrl` an order to disable runs both rounds for the CDI in CONTROL, so that the other CDI's key stays in its register in
  Disabled, where it is never presented. There GenHw still marks a slot valid, with a key made of random input.
  An advance of which only the second derivation were refused would leave one key ahead; inputs are refused for both.

## 5. Proofs

`RomCtrlProofs` proves, for every ROM size, digest length, image and set of half words
allowed by the assumptions of `RomCtrl` (`SizesAssumption` is what `rom_ctrl_counter.sv:57-58`
asserts, `ContentAssumption` and `NoneAssumption` are types), and for a KMAC that behaves or
misbehaves, the safety properties of `rom_boot` and the refinement of `RomGate`.

None of the properties is inductive: that words are hashed in order depends on the counter being
in step with the ROM's output register and with `kmacVld`, which depends on the FSM state, and so on.
`IInv` says how the blocks stay in step, in parts: `CounterInv` (flags follow the address, the
output register shows the word at the address), `MuxInv` (the mux turns only in Done),
`PhaseInv` (counter, `kmacVld` and KMAC in each FSM state), `HashInv`, `DigestInv` (every
word of the top the counter has passed is in EXP_DIGEST) and `CompareInv` (the comparator starts once, and its
verdict is about the halves it has passed). `NoAlert` shows that in `IInv` no alert is up
outside Invalid, `FsmMoves` what transitions remain (`AlertsCorrect` says of the one to Invalid that KMAC answers in it, with an error or out of place), and one lemma per part shows that a
cycle preserves it. The safety properties follow from `IInv`; `ReleaseCorrect` and
`GateRefinement` use it for the step. `LastFlagCorrect` adds `LastImpliesValid`, which no run repeats.

`OtbnProofs` proves the six safety properties and the refinement of the run `otbn`, for every `LastWdr` and `LastBase`
that a counter of six bits can reach (`ControlAssumption`) and any number of keys. Again none of
them is inductive, except that `StatusTruthful`, `FatalRekeys` and `UnansweredIsFatal` are parts of `IInv`. What carries the
proof is how the two FSMs, which never share a register, keep agreeing: `FsmInv` (they run and wipe
together; nothing runs before the first wipe or after an order to lock), `LockInv` (the
controller locks at once, `otbn_start_stop_control` when the wipe is over, and until then one of them
remembers it), `InputInv` (a seed is on its way only while one is awaited, or after a stop has locked the
block), `BusyInv` (who is busy, with which keys), `KeyInv` (a memory is without its key
exactly while one is asked for), `OwedInv` and `CountInv`. `LockTogether` and `StopWhileExecuting` are the two lemmas about signals that
cross between the FSMs; `Moves` and `Registers` restate the clock edge with the alarms gone; then one lemma
per part shows that a cycle preserves it. `OtbnFeedsKeyPort` follows from `KeyInv`, `LockInv` and what a cycle
does to one key (`KeysMove`).

`ScrRamProofs` proves the safety properties and the refinement of `scr_ram` for every depth, every set of lanes,
values, words and masks, and every address scrambling that is injective. The invariant
(`IInv`, which the run does not repeat, as its parts are checked there) is the type
invariant, `NoOverrun`, `UndeliveredReadable` and two facts that tie the registered error flags
to `locking`. `ReadKeeps` shows that a read leaves an undelivered write undelivered, in
the stage or the holding register; `OthersDeliver` that any other cycle puts it in the array;
`KeyChangeBlanks` that after a change of key no row decodes. `ReadMaps`, `WriteMaps`, `IdleMaps`,
`KeyChangeMaps` and `ErrorMaps` map each kind of cycle to an action of `WordMemory`, and
`StepMaps` puts them together. Its assumption about the key port is what `OtbnFeedsKeyPort` proves.

`KeymgrProofs` proves the four safety properties of the run `keymgr` and its action property, for every set of slots,
every amount of entropy and every value of the bounds. The key of the second derivation is taken several cycles after that of
the first, and each from an input that was put together cycles before; so `IInv` says what is under
way (`OrderInv`: software's order stands as long as an operation runs, and selects hardware or software output),
how far it is (`CounterInv`), with what (`KmacInv`: one input, `Given`, from the
first word to the answer, unless the keys are wiped), what was noted meanwhile (`DataInv`, `ErrInv`), and which keys result
(`LadderInv`: between the two derivations the first key is one stage ahead, unless its
input was refused, and then so will be the second's). `Orders` and `Completion` reduce the handshakes to
the one cycle in which KMAC answers, `Input` and `Outcome` say what went in and what is made of it, `KeysDiffer` keeps keys apart from
random and constant values, and `LadderStep` follows the keys through a cycle. `GeneratedKey` then gives `OutputIsOrdered`.

`KmacAppProofs` proves the five safety properties of the run `kmac_app`, for any number of applications, message
length and bounds, and for orderly and free software; of eager software, for which they fail
(`RefusalIsFlushed`), only the types. The three FSMs hand the engine on without a common signal for it, so the
invariant says what each state of `kmac_app` allows the others. `EngineInv`: whoever gets the engine gets it idle, and a
flush that is still under way meets no start, but for the one that the checker has not moved on with, which leaves `StartLost`. `InStep`: while software has the engine, the checker follows it,
but for the one command that is in its register and after a lost start. `CommandInv`: that register holds a command for one cycle only, which needs the bus's two cycles per write.
`ClientInv`: only the selected application is in the middle of a message or awaits an answer. `RefusalInv`: the flag
`rejected` goes with the request that caused it. `FedInv`: what the engine has absorbed is a prefix of that
application's message. `Transitions`, `EngineTold` and `ClientsTold` reduce a cycle to what one block is told by the others,
`ClientMoves` to what becomes of one client, and one lemma per part shows that a cycle preserves it.

`MemUtilProofs` proves the five safety properties of the run `mem_load`, for every size of the address
space, set of areas, memories and files. Assumed are types (`AreasAssumption`, `MemoriesAssumption`, `BoundsAssumption`) and
that no size wraps around to 0 (`SizeAssumption`; `mem_area.h:30` asks for a positive size): such an area would be
refused, or at address 0 claim the whole address space. `LoadedIsTheImage` has a hypothesis, `DistinctMemories`: areas that can be
registered together are different memories, seen from any scope. Nothing in the loader checks it, and without it a load may write one area's segments over another's; `MCMemUtil` asserts it of the areas of the runs.

The invariant `IInv` adds to the properties what keeps them: `RegistryInv` (no
area wraps around, no name occurs twice; after an abort the name map may hold one name too many), `CallInv` (no result before the end of a
call, which then knows its memory), `FileInv` (accepted segments do not wrap around), `StagingInv` (staged segments are disjoint, within the
bounds that `AddSegment` keeps, and under the names of registered areas). `LInv` adds `FitInv` (staged segments
start on a word and end within their area, so the two assertions in `LoadElfToMemories` hold) and `LoadingInv` (what has been taken from
the list is in its memory and lies below what is left for it, so that no padding reaches it).

The argument for the bytes goes up the code. `HitsMeet` shows that the iterator walks of `RangedMap` find the entries
that meet a range; `MergeOne` (from `MergeRight` and `MergeLeft`, the two cases of `MergeSegments`) that one merge lays the
newer bytes over the older; `MergeLoop` that the loop over all hits does, whatever number there are; `EmplaceLays` and
`AddSegmentLays` carry it to the staging area and `StageSegmentIsImage` to the area that `find` has returned (`FindIsHolder`, `RegionHolds`).
`FlatIsImage` and `FlattenIsImage` do the same for a file put together as one vector. `WriteLands` says that a write of
which no word is refused leaves the data in the memory, `WriteKeeps` that it leaves alone what is below it and
elsewhere; `NamedIsImageStep` and `LoadingStep` put them to use. The two loops are inductions over data, for which the
library's theorems cannot be used; `MergeHitsIsDefined`, `MergeLoop`, `FlattenedIsDefined` and `FlattenLoop` argue with the
least number at which the claim fails instead (`LeastNatural`, as the order of the naturals is well-founded). `MergeOne` and the lemmas it rests on are the part a test would hardly reach: all relations of
any number of segments of any length.

`ScrambledAreaProofs` proves the three properties of the run `scrambled_views`, for every key and nonce, every content of
the memory, one to eight words in a row and addresses of up to 32 bits (`AreaAssumption`). Nothing is assumed
of the ciphers: the proof goes through them bit by bit. For each layer a lemma gives the bits of its result, and with them that the C++
and the SystemVerilog, which move bits in opposite directions, read tables in opposite orders and write a linear map once as a matrix and once as masks, are
the same function. `SwRounds` and `HwRounds` reduce both implementations of the permutation network to one pair of rounds, of which
`DecUndoesEnc` shows that they are undone; the tables are inverse by `PresentInverse`, entry by entry. `SwCipher` and
`HwCipher` do the same for PRINCE with two half rounds (`ShiftRowsAgree`, `MixAgrees`, `WhiteningAgrees`), so `StreamsAgree`: one keystream.
`EncodersAgree` and `DecodersAgree` compare the codes, `InsertedWordBits` and `PackedBits` show that the byte-wise packing puts each coded
word into its 39 bits, `UnpackedBits` that it is found there. `ReadsAgree` then is `ViewsAgree`. For `WrittenDecodes` the invariant (`IInv`)
says more than what can be read: every row a side knows it has written is exactly the scrambled, packed code of these words (`Holds`). A write keeps
that for the other rows because no two addresses share one (`Places`), which is `AddressesStayApart`, the assumption of `ScrRam`.
Loops of a fixed number of rounds are unrolled; the one over words argues with the least index at which the claim fails.

Only model-checked: liveness (`CheckEnds`, `EveryRequestEnds`, `WipesEnd`, `OperationsEnd`), which is out of the
prover's reach; the assumption `DecodersFit`, on the codes of other widths, which TLC evaluates; and the properties of the runs that
are expected to fail, which are false.

## 6. Plan

1. An abstract "one request, one answer" service that `KmacApp` implements and `RomCtrl` and `Keymgr` rely on.
2. `EdnCtrl`: main FSM, acknowledge FSMs, endpoint arbitration, disabling in mid-command; it would justify the fairness assumed of
   EDN.
3. `TlSocket`: outstanding counters of `tlul_socket_1n` with the error responder; `AsyncFifo`.
4. The reseed timer of `keymgr`, and the loop and call stacks of OTBN.

## 7. Not modelled

Entropy distribution, TL-UL, and alerts are planned or, as far as `rot_top` ties them off, without
behaviour here: EDN is an environment that answers in any cycle, the bus one access at a time. Not planned: hash cores and block
ciphers other than PRINCE (SHA-2, SM3, SM4), the PUF and Reed-Solomon codes (data path behind simple front ends), generated register files, AES
(not instantiated), and OTBN's instruction set.
