# QL4M65: models, checks and proofs

TLA+ models of the control logic of QL4M65, the Sinclair QL core for the MEGA65, with
the TLC runs that check them and TLAPS proofs of what matters most. Paths below are
relative to the repository's root.

## 1. The system

QL4M65 is an FPGA core. A Sinclair QL (68000, chipset, microdrives, a QL-SD card) runs
in one clock domain; a small soft CPU, QNICE, runs the *Shell* (menu, file browser,
loading and saving of images) in another; RAM chips are reached through shared Avalon
buses. Everything runs at once: the QL, the Shell's single thread, the RAM controllers,
the user and the reset button. The hard part of the repository is in how these meet:

| Part | State it keeps | Operations | Meets |
|---|---|---|---|
| Microdrive write-back (`CORE/m2m-rom/m2m-rom.asm` 398-962, `p_dirty` in `CORE/vhdl/main.vhd` 1780) | one dirty bit per sector; a session: snapshot, sector, byte, gate; the image's file handle | a time slice per `HANDLE_IO`; forced flush before a mount | the QL's writes, mounts, resets, card swaps |
| Microdrive buffer port (`CORE/vhdl/mdv_dpram.vhd`) | a one-deep write latch, settle and refresh counters, held words, an owner | writes and reads of two ports over one memory port | QNICE bridge (A), tape motor of mdv.v (B), cache |
| Line cache (`M2M/vhdl/memory/avm_cache.vhd`) | one line, its address, fill progress | hit, miss, prefetch, write through | mdv_dpram above, HyperRAM below |
| Microdrive bridge (`CORE/vhdl/mdv_qnice_bridge.vhd`) | two state machines a side, request/answer handshakes | load a word, read a byte, clear the bitmap | QNICE bus, buffer port A, reset of either side |
| Image loader (`LOAD_IMAGE` in `M2M/rom/shell.asm` 684-840, `HANDLE_CRTROM_M`, `p_mdv1_size_check` in `mega65.vhd` 1316) | the file's position, status, length and verdict of a load | send a file byte by byte, tell its length, poll for the verdict | the bridge, the control register of the drive |
| QL main RAM port (`CORE/vhdl/ql_sdram_ram.vhd`) | command state, DTACK, watchdog | a 68000 bus cycle as one Avalon transaction | 68000, arbiter, SDRAM |
| SDRAM controller (`M2M/vhdl/controllers/SDRAM/sdram.vhd`) | a state, a command timer and a refresh timer, the word of a write | power up, refresh, one read or write at a time | the chip, the arbiter |
| Clock-domain FIFO (`M2M/vhdl/memory/avm_fifo.vhd`) | requests one way, words the other | take a request if there is room, bring a word back | cache and arbiter on one side, HyperRAM on the other |
| Avalon arbiter (`M2M/vhdl/memory/avm_arbit.vhd`) | grants, last grant, burst count | grant, route answers | two masters and a slave (HyperRAM: `mega65.vhd` 526; SDRAM: 712) |
| Virtual drive and disk cache (`M2M/vhdl/vdrives.vhd`, `M2M/rom/shell.asm` 912-1366) | dirty, flushing, start, countdown, write latch; the flush's position | serve sector requests, flush the buffer in pieces, mount | QL-SD card, menu, resets |
| Reset manager, keyboard, menu, chipset, video and the rest | see section 8 | | |

**What is hard here.** State that a routine keeps between calls while its premises
change (a flush session across a mount); flags of several writes cleared in one stroke;
caches next to their memory; handshakes across clocks when one side is reset; answers
without a tag on a shared bus; a watchdog that races a late answer; polling loops
without a limit; and core resets, which clear registers but not memories. `PROJECT.json`
lists each such place with its line and the properties that cover it.

**What makes each part correct** is what the properties of section 4 state.

## 2. Modules

| Module | Models | Composed with |
|---|---|---|
| `MdvFlush` | `MDV1_FLUSH_STEP`, its callers, `p_dirty`, mounts, resets, swaps | |
| `DpRam` | `mdv_dpram.vhd` (entity dpram) | its memory is what `WordMemory` promises |
| `WordMemory` | abstract: a word memory with one client | abstract side of `AvmCache` |
| `AvmCache` | `avm_cache.vhd`, its client and memory | `Promise == INSTANCE WordMemory WITH ...` |
| `AvmFifo` | `avm_fifo.vhd` | |
| `HyperRamPath` | the cache, the FIFO and the HyperRAM in its own clock; the other drive's turns; a reset of the core | `AvmCache` (its abstract memory is implemented), `AvmFifo` |
| `RamSlave` | abstract: the SDRAM as `ql_sdram_ram.vhd` may see it, a slow slave that may also fail | abstract side of `SdramBus` |
| `QlSdramRam` | `ql_sdram_ram.vhd`, 68000 | `RamSlave` |
| `AvmArbit` | `avm_arbit.vhd`, two masters, a slave | |
| `Sdram` | `sdram.vhd` and the chip behind it | |
| `SdramBus` | main RAM and the QL-SD buffer on arbiter and controller | `AvmArbit` (its abstract slave is implemented), `Sdram`; `RamSide == INSTANCE RamSlave WITH ...` |
| `MdvQniceBridge` | `mdv_qnice_bridge.vhd`, a load's firmware and size check, QNICE's bus cycles, the reset button | nothing: what port A shows is free |
| `MdvReadBack` | the bridge's `reader_core` and address mux on the buffer | `DpRam` (each step is one of its clocks) |
| `VDrives` | `vdrives.vhd`, `HANDLE_IO`'s services and `FLUSH_CACHE`, mounts, menu resets | |
| `MC*` | small instances; `*_proofs`: theorems | |

Every definition that stands for code is listed under "map" with its lines. A definition
marked "Seeded fault" is a plausible bug of the definition it precedes; "mutants" pairs
each checked property with one that breaks it. They are in no specification.

Hardware modules take **one clock edge per step** where one clock matters (`DpRam`,
`QlSdramRam`, `AvmCache`, `AvmArbit`, `Sdram`, `SdramBus`): processes are operators over
the old registers, conjoined. With two clocks (`MdvQniceBridge`, `VDrives`,
`HyperRamPath`) the edges of each side are actions of their own. Firmware is a **program
counter**, one step per access that another actor can see.

### MdvFlush

State: the image `buf`, the bitmap `dirty`, the files `disk`; `mode` (what the Shell
does), `pc`/`rd` (where the step is), the variables `MDV1_FL_*`, `MDV1_DIRTY_*`,
`MDV1_GATE_CNT`; the image handle (`file`, `pos`); the card slot. `HandleIO` and
`ForceStep` are a call with and without card detection. `ReadBitmapByte` reads one byte
of the bitmap, since the QL may write between two; `IdleDecide` opens the gate or
freezes the snapshot; `StreamByte` writes one byte where the handle is, and seeks or
closes the pass at a sector's end; `ClosePass` compares and clears. `SelectMdv` ...
`LoadDone` are the menu: a mount forces a flush first, opens the browser, opens the
picked file on the *same* handle and copies it. Items that belong to no drive skip the
flush, and leaving their browser resets the core (`OSM_SEL_POST`). `risk`, `foreign` and
`stale` are history: what was written where a pass can forget it or lost its flag to a
reset, a write that went to another card, an image re-opened under a session. Only one
drive is modelled: `MDV2_FLUSH_STEP` (707-962) is the same routine on variables of its
own.

Two cases are left out. A file that is too long is rejected after `LoadDone`'s loaded
flag is set (`crts-and-roms.asm` 565-567), and the browser stays open with `HANDLE_IO`
polled (`shell.asm` 470-537): a step may then stream to that file's handle, in place, what
is the beginning of the same file. And of the errors of the file calls (`m2m-rom.asm` 570,
586, 638) only the write at the end of the file is an action (`StreamFatal`); all of them
stop the Shell in FATAL at a step of the stream.

Two more behaviours are in the model and no finding is claimed for them: a session that
begins while the drive's own browser is open, and is still under way when a file is
picked, goes on at the end of the newly read file and stops in FATAL (`stale`; the
handle is re-opened at `shell.asm` 702); and after a swap, another item's browser clears
`SD_CHANGED` (`shell.asm` 345), after which the pass streams to a card the handle was
not opened on (`foreign`).

### DpRam

Registers carry the names of `mdv_dpram.vhd`. A step is `p_track` (`PortA`, `PortB`),
`req_track` and `p_arbiter` (`Arbiter`) at once, plus the memory (`Memory`, at any
latency up to `MaxLatency`) and the ports' masters, which may write and move at any
time. `Forget` is a reset of the HyperRAM side that loses a refill under the cache
(`mega65.vhd` 569-583): the port then waits for ever, and its liveness properties say
so. The same reset drops the writes still in the FIFO, which this module does not show:
an accepted write is in memory here.

An answer of port A is stored under the address latch of the cycle in which it arrives
(531). `RightUntilOvertaken` says exactly when the held word is the last written of the
address it goes by: a write sets it right, so does an answer, and nothing makes it wrong
but an answer that was *overtaken*, by a newer address in the latch (`a_pend_read_addr #
s_address`) or by a write of the word it read. The bridge brings the first about in
ordinary use (see MdvReadBack) and the QL's writes the second, so `q_a_valid` may be up
for another word or an old one. Liveness has one exception too: when an address is
written while the read of *another* one is under way, that read's answer takes the place
of the written word, and as a write counts as settled no read follows
(`stranded`; `PortAAnswered`, `PortAInTime` and `AnswersDue` except it, until the address
moves). A bridge that waits for this address would wait for ever; that takes a write of
the QL to the very word the bridge asks for while the read of another word is under way.
Byte enables are left out; the power-on counter has run out at the start.

### MdvReadBack

`DpRam` with the masters that port A has while a drive is read back: `reader_core`'s
states with its handshakes shortened to "at any time", the address mux of the bridge
(`dl_addr_o`, 471-480: back to the loader's last address whenever `reader_core` is idle)
and mdv.v's, which gives the QL's writes the address for their clock. Every step is a
clock of `DpRam`. With nothing written at all the run finds that `reader_core` latches
another word than it asked for: the idle address settles and its read goes out; the next
byte's address settles while that read is under way; its answer is labelled with the new
address; `q_a_valid` is up, and the wrong word is latched. The label is what goes wrong,
but not all: were it taken from `s_address`, `RDC_LATCH2`, which takes the word a clock
after `RDC_LATCH1` saw it valid, could still meet the older answer in that clock; and
with writes of the QL, an older answer may replace a word just written, or a write of
the held word make it valid for another address than the reader's. On the board the read
of the idle address must be under way longer than the next request takes to come through
the crossings and to settle (8 clocks), which a miss in a cache that is shared with port
B, in front of a HyperRAM that is shared with the other drive and the framework, makes
possible and rare. `MdvFlush` takes the bytes it reads back to be right.

### AvmCache and WordMemory

`WordMemory` promises: one request at a time, a write takes effect when accepted, a read
returns the memory's word once. `AvmCache` implements it for the client `mdv_dpram` is:
single words, one outstanding. For such a client the write-burst continuation and the
burst branches (152-167, 185-193) do nothing and are left out; a client that pipelines
reads could lose an answer (a hit in the cycle in which the last miss is answered),
which `mdv_dpram` never does. The cache is never reset after the start. Addresses do not
wrap.

### AvmFifo and HyperRamPath

`HyperRamPath` puts the FIFO and the HyperRAM in the place of `AvmCache`'s memory:
`CoreEdge` is the cache with the near side of the FIFO, `TakesRequest` and `SendsWord`
are the HyperRAM in its clock, working on one request after the other. The asynchronous
FIFOs are vendor macros: queues, of which the far side may see an entry at once or later
(`shown`). Of the arbiter the other drive's `turn`s remain. `CoreReset` is what a menu
item or a long press does to the path (`top_mega65-r6.vhd` 849): arbiter and slave side
of the FIFO forget, the cache does not. The words of the FIFO to come go to the other
drive, since a reset sets `last_grant` to 1; what the *other* drive's cache makes of
words it has not asked for when it is filling a line itself is not modelled.

### QlSdramRam

The 68000 holds a bus cycle until DTACK; the command register, the DTACK process and the
watchdog are operators. The slave (`RamSlave`) may stall a command `MaxStall` clocks, take
`MaxLatency` to answer, or be `faulty` (lose answers), which the watchdog exists for. A
core reset may come at any time and leaves the transaction in the slave.
`ConstantsAssumption` says how long the watchdog must be against the slave's worst case
(`MaxStall + 2 * MaxLatency + 3 < Timeout`); in the code it is 4096 clocks. The SDRAM's
power-on initialisation is longer than that, but the QL is held in reset meanwhile.

That this slave is there is no assumption: `SlaveSpec` of `SdramBus` says that arbiter,
controller, chip and the other master make a step of `RamSlave` with each clock, its
`wait` being the `s0_avm_waitrequest_o` of that clock, `MaxStall` and `MaxLatency` being
43 and 7, and `faulty` never set. The other half is `RequestHeld`: what the state machine
puts on its pins is what `AvmArbit` lets a master that may withdraw put there
(`NextRequests`, `Operands`). So `AckMeansDone` and the other properties of `QlSdramRam`
hold of main RAM in the core, where 43 + 2 * 7 + 3 < 4096 and the watchdog is silent.
The two are proved apart; their conjunction is this argument, not a module.

### AvmArbit

A master's `req` stands until accepted, with two exceptions the users have: main RAM may
withdraw a request (`Withdrawing`), by watchdog or reset, which is sound only when the
slave serves one transaction at a time (`Serial`, as the SDRAM does; assumed by name).
The statistics process is left out.

### Sdram and SdramBus

A step is one edge of the 84 MHz clock: `avm_proc` by state (`PowerUp`, `Refresh`,
`Accept`, `Active`, ...), the timers, the FIFO of one word, and the chip on the pins as they
were. `since` counts the edges since each command, against which the chip's minimum
times are stated (`CommandsInTime`); the refresh interval is stated with the grace that
a command under way takes (`RefreshOnTime`): 644 + 12 = 656 clocks, within the 7.8 us of
the data sheet. `SdramBus` is `AvmArbit`'s masters and arbiter with this controller as
the slave: `waitrequest`, words and ledger are the controller's. What `AvmArbit` assumes
of a serial slave (no acceptance while a read is unanswered, words only where one is
owed) is thereby a property, `ArbiterSpec`, the specification of `AvmArbit` itself. Each
master has an address of its own, as in `globals.vhd`; the masters are quiet while the
controller powers up (`Booting`), because the firmware holds the core in reset that long
(the reset value of the control register, `qnice.vhd` 95-120). Two ACTs are 8 clocks
apart where C_TIME_RC says 10, which at 84 MHz is still longer than the chip asks for;
`CommandsInTime` holds C_TIME_RC against refreshes only.

### MdvQniceBridge

Actions are the two clock edges (`QnicEdge`, `CoreEdge`) and the crossings. The vendor's
synchronisers are external: a level crosses at any time, with the data that was stable
under it. Of the buffer's port A nothing is assumed: in `RDC_LATCH2` it shows any word
(`PortA`), valid at any time, so that what is shown of the bridge holds whatever
`mdv_dpram.vhd` does; whether the word is right is a matter of `DpRam` and `MdvReadBack`.
`seen` is history: what the byte that is being read has shown since it was asked for. QNICE's CPU is external too: a read holds while `qnice_wait_o` stands and
takes its data in the cycle in which wait drops (where the bridge starts a second,
redundant read that the next fetch waits for, `mega65.vhd` 1107-1118); a write is taken
in its first cycle. `Crossed` says that an instruction takes longer than a crossing, and
`ticked` that the core's clock is the faster one. The firmware is a load as the bridge
and the size check see it: the status "loading", the bytes of the file one by one
(`LoadByte`), its length, the status "OK" and the poll for the verdict (`StartLoad` ...
`Poll`), or a read of the file that fails and stops the machine (`ReadFails`); outside a
load it reads bytes and clears the bitmap. Nothing bounds the bytes of a load, so the
model keeps what the code does with a file that is too long: it goes on into the next
drive's memory and through the bitmap and the clear register, and is rejected
afterwards. A short press of the button (at least 50 ms, `Settled`) resets the core's
side, a long one QNICE's too.

### VDrives

`cache` is the record of `vdrives.vhd`'s flags; `Watched` is what every QNICE edge does
to them (latch a write request, restart or count down), and the `...Written` operators
what a register write adds in the same edge. `PollRead` ... `MarkClean` are `HANDLE_IO`
from top to bottom: one read request, one write request, one iteration of the flush. The
core's SD card is external: a request stands until its acknowledge is seen, and is over
when the acknowledge is gone; `Settled` and `Seen` say that the firmware is slower than
the crossing. The menu's `Select`, `Cancel`, `Pick`, `SelectOther` end in
`OSM_SEL_POST`'s reset. `VDRIVES_FL_4K/OFS` is one `cursor`; the count of bytes left
moves with it and is left out. The check of a dirty drive (`shell.asm` 589) is in
`Select`; no drive is ever known as mounted there, since every mount is followed by a
reset that takes the mark away. `written` and `dropped` are history: what the QL put
into each image, and images whose flag a reset or a new mount took away. Left out: a
card swap while the drive is dirty (`FLUSH_CACHE` does not look at `SD_CHANGED`), and
the write enable the send loop leaves raised (`XOR 0, R9` in `shell.asm` 1065), which
during a later write's acknowledge stores one stale byte into the core's own, already
copied, buffer.

## 3. Runs and bounds

| Run | Module, cfg | Expect | Bounds |
|---|---|---|---|
| `flush` | MCMdvFlush, all | pass | 2 sectors of 2 bytes, a bitmap byte each, chunk 1, gate 1; 2 files, 2 cards; 2 writes, 2 loads, 1 reset, 1 swap |
| `flush_reset` | reset | violation | 1 write, 1 load, 1 reset |
| `flush_rewrite` | rewrite | violation | 2 writes, 1 load |
| `dpram` | MCDpRam, core | pass | 2 words that differ, settle 2, refresh 3, latency 4; 2 writes, 1 move a port, 1 forgotten read |
| `readback` | MCMdvReadBack, stale | violation | the same, 4 moves a port, nothing written or forgotten |
| `cache` | MCHyperRamPath, core | pass | a line of 4 words in front of 4, 2 writes, one byte lane, room for 2 requests and 4 words |
| `cache_reset` | MCHyperRamPath, reset | violation | 1 write, 1 reset |
| `ram` | MCQlSdramRam, core | pass | 2 words of 2 bytes, timeout 7, stall 1, latency 1; 2 writes, 1 reset |
| `arbit` | MCSdramBus, core | pass | an address a master, two lanes of two values, refresh 22, power-on 2; main RAM may withdraw; traffic itself is unbounded |
| `bridge` | MCMdvQniceBridge, core | pass | a buffer of 2 words in a memory of 3, images of 2 bytes at most; files of 2 and of 8 bytes; one byte read back and QL-written; 2 loads or clears, 1 QL write, 1 press |
| `bridge_reset` | reset | violation | as above |
| `vdrives` | MCVDrives, core | pass | 2 sectors of 2 bytes, iterations of 3, delay 1; 2 writes, 2 selections, 1 press, 1 failure |

Why they are enough: two sectors (words, files, cards) are the fewest with an "other
one", which every confusion needs; two bytes a sector give an inside and a boundary, an
iteration of three bytes one that straddles a sector and leaves a rest. Counters (gate,
delay, settle, refresh, watchdog) matter as "expired or not": the smallest values at
which both happen with other steps in between are used. Each outside event is counted by
a budget, high enough that an event can hit an operation and also the one after it; two
writes are needed for a write that meets the flush of another. The refresh interval of
`arbit` is the smallest the controller allows for, so that a refresh meets every step of
a command. `arbit`'s limits for a wait (`MaxStall`, 43 clocks) and a read
(`MaxLatency`, 7) are sums of the controller's times and were met exactly: they are what
`RamSlave` takes as constants of these names. The longer file of `bridge` goes past the buffer (byte 4 is the bitmap, byte 6 the clear
register) and past the end of port A's addresses, where it wraps onto the buffer again.
The words' FIFO of `cache` has room for one line and no more: as many as the cache may
ask for. What was proved (section 6) does not depend on the bounds. `CHECK_DEADLOCK
FALSE` is set for `MdvFlush` only: FATAL stops the Shell, and the user and the QL need
not do anything. Everything else has a clock.

## 4. What is checked

*flush*: every byte of the image that differs from its file is flagged dirty, or is in
one of the named, recorded loss windows (`UnsavedAccounted`); a chunk of a pass writes
at the byte's own place in the file (`WritesLandInPlace`); flagged sectors are cleared
in the end (`DirtyIsFlushed`); the forced flush before a mount ends, also under swaps
(`ForcedFlushEnds`).
*dpram*: a write is lost only to the overflow of the latch (`NoWriteLost`); requests
stand still (`RequestStable`); only an overtaken answer spoils the word of port A
(`RightUntilOvertaken`); port A becomes valid for the address it rests at unless it is
stranded (`PortAAnswered`), and port B comes right (`PortBHeals`).
*cache*: every word asked for has room on the way back and comes in order and as last
written (`InOrder`); FIFO and HyperRAM are the memory the cache needs (`CacheSpec`), the
cache is the plain memory its client needs (`Implements`, a refinement of `WordMemory`);
every read is answered (`Served`).
*ram*: a bus cycle is performed at most once (`AtMostOnce`); a DTACK that the watchdog
did not give means done rightly (`AckMeansDone`); no other byte changes
(`OnlyStrobedBytes`); the watchdog stays quiet on slow but working traffic; every cycle
is answered (`CpuAnswered`).
*arbit*: the controller is the slave the arbiter needs (`ArbiterSpec`, a refinement of
`AvmArbit`); every word goes home although the arbiter keeps no record (`RoutedHome`),
transactions whole (`OneAtATime`), at most one overtaking (`FairTurns`); a word read is
the one last written, and an accepted write is in the chip (`Coherent`); main RAM sees the
slave that its state machine is written for, with its limits (`SlaveSpec`, a refinement
of `RamSlave`, which `WithinBudget` is a part of); the
chip's times and refreshes are kept (`CommandsInTime`, `RefreshOnTime`); every request
is accepted or withdrawn (`Served`).
*bridge*: the byte read is what port A showed for this read, and no answer to an earlier
one (`AnswerIsThisReads`); a word lands, in
place, before QNICE goes on (`WordsLand`) and under the load flag (`LandsInLoad`); one
pulse a clear (`OneClear`); a load's verdict is about its own file, and a load that
wrote outside the buffer is rejected (`VerdictIsThisLoads`); accesses and loads end
(`AccessesEnd`, `LoadEnds`).
*vdrives*: unsaved sectors are flagged or their loss recorded (`UnsavedAccounted`); the
flush stays in place (`FlushInPlace`); the QL reads what it wrote (`ReadsCurrent`);
requests are answered and the drive gets clean.

### Findings

| Run | The code against what is said of it |
|---|---|
| `flush_reset` | A core reset clears the dirty bits of sectors that are still unsaved (`main.vhd` 1783): the LED turns red. `README.md` 90-92 says red means written out. Not only the button does it: so do the menu items of `m2m-rom.asm` 206-216, which the accepted limitation of `INSTRUCTIONS.md` 171-174 does not cover. |
| `flush_rewrite` | A sector written again after it was streamed is the same bit: the comparison of `m2m-rom.asm` 668 holds and its flag is cleared. The comment at 411-418 says such sectors are "never lost". |
| `cache_reset` | The path to the HyperRAM is reset in its middle only: FIFO and arbiter (`mega65.vhd` 534, 583) with the core, the cache at power-on (`mdv_dpram.vhd` 325). A line being filled is never finished, and the drive's buffer answers no more. `mega65.vhd` 569 says that a reset must not leave one side with a transaction the other has forgotten. |
| `bridge_reset` | A core reset under a read in progress leaves QNICE waiting for ever (`mdv_qnice_bridge.vhd` 415). |
| `readback` | An answer of port A is labelled with the newest settled address (`mdv_dpram.vhd` 531), also when it is an older read's, and the bridge's mux (480) moves the address under reads of its idle one: a word of another address is read back as valid. `mdv_dpram.vhd` 293 calls it "KNOWN CORRECT for wraddress RIGHT NOW". |

Observations for which no run is kept. A menu item that resets the core
(`m2m-rom.asm` 259, also when its browser was only opened and left) clears `cache_dirty`
of the QL-SD image before its flush (`vdrives.vhd` 328-349): the writes stay in memory
only, until the QL writes again, although `INSTRUCTIONS.md` 117-118 says that they are
flushed in the background. It is what `flush_reset` shows of the microdrives;
`UnsavedAccounted` has it as a recorded loss (`dropped`). 
A file that is too long is checked only after all of it was sent. Drive 1's slot in the
HyperRAM is 90112 words and port A's address reaches 131072 of them, so such an image
overwrites the start of drive 2's buffer (drive 2's, the unused HyperRAM behind it),
passes the clear register 0x30020 and is only then rejected. An over-long Main ROM
likewise overwrites the Back ROM, which lies behind it in one memory. The last byte of a
file of odd length stays in `ld_byte0`. `req_length` has 23 bits, so a file just over 8
MB would be measured short.

## 5. Fairness

Only what the system's clocks and loops give. `flush`: the Shell's loops have no exit
but FATAL, so *some* firmware step is always taken; nothing is assumed of the QL, the
user, resets or cards. `dpram`, `ram`: the clock ticks (latencies are bounded in the
action itself). `arbit`: the clock ticks, and nothing else: that the slave accepts and
answers is the controller's doing. `cache`: both clocks tick, the arbiter gives its
turns (what `FairTurns` and `Served` of `arbit` show of it), and what is in a FIFO shows
in the end. `bridge`: both clocks tick, each channel's crossings happen, the button is
let go; a CPU in a load does not idle between two accesses once the last one's levels
are across (the third disjunct of `Cpu`), but it may stay in the Shell for ever.
`vdrives`: the clock ticks, the card reacts to acknowledges, the firmware goes on. No
strong fairness is used.

## 6. What is proved

For every value of the constants that meets the named assumption of each module:

| Theorem | Says |
|---|---|
| `MdvFlush_proofs` `NothingElseLosesWrites`, `WriteBackInPlace`, `TypeCorrect` | the accounting of unsaved bytes and in-place streaming, for every geometry, bitmap layout, chunk size, card and file set |
| `MdvFlush_proofs` `ForcedLoopAdvances`, `FlushGetsNearer` | each step of the Shell gets OSM_SEL_PRE's forced loop, or the flush of what is dirty, further on; a write, a load or a reset sets it back by one pass at most |
| `DpRam_proofs` `WritesReachMemory`, `OnlyOvertakenAnswersSpoil`, `RequestsStandStill`, `TypeCorrect` | no write is lost but by the latch's overflow; of all that happens only an overtaken answer spoils port A's word; requests stand |
| `DpRam_proofs` `AnswersAreDue`, `PortAWaitsNoLonger`, `PortBWaitsNoLonger` | every read has its answer coming; port A is valid, unless stranded, within Settle + 3 (latency + 3) + 1 clocks, port B's within a refresh period and 5 (latency + 3) |
| `QlSdramRam_proofs` `OneTransactionPerCycle`, `DtackMeansDone`, `WatchdogNeverFires`, `WritesStayInBounds`, `TypeCorrect` | the safety properties of run `ram` |
| `QlSdramRam_proofs` `ProperMaster` | the state machine is the master that arbiter and controller take it for |
| `QlSdramRam_proofs` `AnsweredInTime`, `AnsweredSoon` | DTACK comes within Timeout + 3 clocks, on any controller; on one that works, the wait for it takes MaxStall + 2 MaxLatency + 3 clocks at most, which is 60 in the core |
| `AvmArbit_proofs` `GrantsExclude`, `WordsComeHome`, `TransactionsWhole`, `OvertakenOnce`, `TypeCorrect` | the safety properties of run `arbit`, also for `PreferSwap` and for the HyperRAM's setting, where nobody withdraws |
| `SdramBus_proofs` `Implements`, `BusWordsComeHome`, `BusCoherent`, `Delays`, `Refreshed`, `BusTypeCorrect` | arbiter and controller implement `AvmArbit` on a serial slave; words come home on the real controller and are the ones last written; the chip's command times and refresh interval; for every traffic, address set, refresh interval and power-on time |
| `SdramBus_proofs` `MainRamSlave`, `MainRamInTime` | arbiter, controller and chip implement the slave that `QlSdramRam` assumes: a request of main RAM waits 43 clocks at most, its read takes 7 and brings main RAM's own word |
| `MdvQniceBridge_proofs` `AnswersAreThisReads`, `WordsAreWritten`, `WordsAreLoads`, `ClearsOnce`, `VerdictsMatch`, `TypeCorrect` | the safety properties of run `bridge`, for every buffer, reach of port A, limit, set of files and number of loads, clears, QL writes and presses |
| `MdvQniceBridge_proofs` `WordsAdvance`, `ReadsAdvance`, `ReadsDoNotStick` | a word takes 8 steps, a read 19 at most, none of them idle or undone; while a read stands, one of the two sides has a step to take (all while the core is not reset) |
| `AvmCache_proofs` `ImplementsWordMemory`, `TypeCorrect`, `WordsInOrder`, `PathImplementsCache`, `PathIsWordMemory` | the cache's refinement, for every line length and memory size; the path to the HyperRAM is the memory the cache needs, for FIFOs of any depth that hold a line |
| `AvmCache_proofs` `MemoryIsAllItWaitsFor`, `PathIsAllItWaitsFor` | a client waits Line + 3 clocks at most, not counting those on which the memory keeps the cache waiting; also on the path to the HyperRAM |
| `VDrives_proofs` `UnsavedIsAccounted`, `ReadsAreCurrent`, `FlushIsInPlace`, `TypeCorrect` | the safety properties of run `vdrives`, for every image, sector and iteration size, waiting period and number of events |
| `VDrives_proofs` `RequestsAdvance`, `RequestsDoNotStick`, `FlushesGoOn`, `FlushesDoNotStick` | each step of the Shell and of the card gets a request further on, and one of the two always has a step to take; a dirty drive gets clean, stage by stage, unless FATAL stops the Shell, and at each stage somebody has a step to take |

The argument is the same throughout: an invariant `IInv`, checked by TLC while it was
found, shown to hold at the start and to be kept by every action, one step per action
(`Inductive`); the properties follow from it. Why it must be stronger than the property:

* `MdvFlush`: that unsaved bytes are flagged survives `ClosePass` only if what the pass
  has behind it is saved (`StreamedIsSaved`) and the re-read bitmap hides nothing
  (`RereadIsFresh`); both need the cursor, the handle and the snapshot to agree
  (`SessionShape`).
* `DpRam`: the latch and the request in flight must name the same write
  (`RequestShape`). That an answer nothing overtook sets the held word right needs
  `HoldShape`: a read is that of the address it was dispatched with, and its answer is
  what memory holds there, since no write gets between them; what memory lacks is in the
  latch (`NoWriteLost`). How long a port waits is a rank that each
  clock lowers (`ToPortA`, `ToPortB`): the rest of the request under way, the requests that
  go first, the time to settle or to the next refresh. It needs `AnswersDue`: who waits is
  being served or will be asked for. Port B's fetch can get lost, when the acceptance of
  the read before clears the flag that the new address has just set; the rank holds a
  whole period for that, and no more, as the address then rests.
* `QlSdramRam`: an answer belongs to this cycle only because a transaction, the command
  and the slave's state determine each other (`TransactionShape`), and the watchdog's
  count is bounded by what the slave has left (`Budget`). `ToAck` ranks the states of
  `p_fsm` with the watchdog's count in them.
* `AvmArbit`: routing by `last_grant` works because a grant is held while words are due
  (`Holding`), and the burst counter equals them; fairness, because the one that waits
  is next (`NextInTurn`).
* `SdramBus`: the arbiter's account of its slave must be the controller's state
  (`Account`: a read is owed to the master whose address the controller has, exactly
  from its acceptance to its word), and that needs the controller's timetable
  (`Schedule`: which state with which timer, which command on the pins, how long since
  each). Then a step of the bus is a step of `AvmArbit` on a slave that accepts and
  answers as the controller does. `Coherent` follows the word under way (`DataPath`): a
  write in the FIFO, on the pins, in the chip, a read down the chip's pipe, one step
  with each count of the timer, in the row that the address names.
  `WithinBudget` needs a clock for what is left (`Budget`): `ToWait` adds up the rest of
  the command under way, the refreshes that can come before the next one and the other
  master's turn, and each clock without an acceptance makes it smaller. It never exceeds
  43, because a refresh that is due and a write that has just begun exclude each other's
  worst case (`PauseBounds`). `SlaveSpec` needs all of it: the account says which of
  `RamSlave`'s branches a clock takes, `Budget'` that its `age` had room for one more,
  `DataPath` that the word is right, and the two masters' addresses, which do not
  overlap, that the other one's writes are not in it.
* `MdvQniceBridge`: each handshake has four levels that change one at a time on either
  side of two clocks; `WordHandshake`, `RequestHandshake` and `AnswerHandshake` say
  which combinations occur, with and without the core in reset, and that the CPU begins
  an access only with all of the last one's gone. Then `WordUnderWay` says which one
  word memory still lacks, `AnswerUnderWay` that each register on the way back holds what
  the byte has shown since it was asked for, `ClearUnderWay` where the one clear is;
  `Firmware` and `Checked` tie the bus cycle and the verdict to the load.
* `AvmCache`: `LineCoherent` (the filled part of the line is the memory's, the rest on
  its way in order), `FillShape`, `ClientShape`; each step of the cache then is a step
  of `WordMemory` or a stutter.
* `HyperRamPath`: with a read waiting or under way the cache asks for nothing
  (`ReadShape`, from the cache's own `FillShape`), so the words that come are of one read,
  and each byte of the memory as the cache accounts for it is the HyperRAM's or that of
  the last waiting write (`WritesInOrder`). A read is the last request in the FIFO: when
  its words are fetched, the writes before it are done.
* `VDrives`: that a drive marked clean has its writes in the file needs the flush to
  have copied all before its position (`Flushed`) from a buffer that is what the QL
  wrote (`BufferShape`, which also says what it is half way through a sector). Between a
  sector's first byte and its acknowledge that does not hold, and there the write latch
  must already be set, or the flush already be stopped (`FlushShape`); and nothing but a
  reset moves the core meanwhile (`ServiceShape`).

The theorems about progress (`AnsweredInTime`, `MainRamInTime`, `...WaitsNoLonger`,
`...Advance`, `...GetsNearer`, `FlushesGoOn`) are action properties: a rank, a number or
a tuple ordered by its first difference (`FurtherOn`), that every step of the actors one
may rely on brings further, and that nobody else sets back. An action property lets every
step pass that changes nothing, so a system that hangs would satisfy it. Two things
exclude that: the proofs are about the actions themselves (an edge of the clock or a
step of the firmware that changed nothing would not lower the rank), and where somebody
has to be able to move at all there is an invariant that says who (`NoReadStuck`,
`NoRequestStuck`, `NoFlushStuck`; of the two sides of a word's handshake one can always
move by its guards, as `ld_ack` says which state `loader_core` is in). What the proofs need besides `IInv`:

* `MdvQniceBridge`: `ToWord` and `ToRead` count the changes of level that the handshakes
  still have to make. A read may begin while `reader_core` still ends the last one, so
  its levels are added up in pairs that `ReadKept` ties together; it holds as long as
  the core is not reset under the read (`dropped`).
* `AvmCache`: `ToServe`. A read that finds a fill of another line under way waits for
  its end and for its own; that costs Line + 1 answers of the memory, not the client's
  place.
* `MdvFlush`: what a pass knows of the bitmap is current (`PassIsCurrent`), or a write or
  a reset has overtaken it and one more pass may follow: `PassesToCome` bounds them by the
  events to come. Within a pass, `Position` runs from the first read of the bitmap over
  the sectors to the second read, from call to call. Outside the forced loop the idle
  gate comes first (`GateLeft`: a write restarts it), and a menu may hold the Shell up,
  but each of its steps leads out (`MenuPosition`).
* `VDrives`: `Way` leads from where the Shell is in its loop to where it sees the request,
  through the sector and to the acknowledge's end; that a write keeps the card waiting
  until then is `WriteHeld`, no conjunct of `IInv`. `FlushGoesOn` has three nested parts:
  the writes to come and the one `vdrives.vhd` has yet to see (`WritesToCome`), the
  waiting period, start and flush (`Stage`), and the Shell's loop between two looks at
  the flags (`Round`). It needs that a flush about to start is not under way
  (`StartIsDue`): `FLUSH_CACHE` would begin again from byte 0.

## 7. What stays with TLC

Liveness (`DirtyIsFlushed`, `ForcedFlushEnds`, `PortAAnswered`, `PortBHeals`,
`CpuAnswered`, `Served`, `AccessesEnd`, `LoadEnds`, `RequestsServed`): the prover
handles neither fairness nor ENABLED. What makes them true without those is proved: how
far one still has to go, and that each step of the actors that are fair is one less.

| Liveness property | Proved about it | Left to fairness |
|---|---|---|
| `CpuAnswered` | `CountsDown` | the clock ticks |
| `PortAAnswered`, `PortBHeals` | `PortAInTime`, `PortBInTime` | the clock ticks |
| `Served` (run `arbit`) | `FairTurns`; on the SDRAM, for main RAM, `SlaveSpec` | the clock ticks, the slave answers |
| `Served` (run `cache`) | `WaitsForMemoryOnly` | the clocks tick, the memory accepts and answers |
| `LoadEnds` | `WordAdvances`, for each word | the clocks tick, levels cross, the firmware goes on |
| `AccessesEnd` | `ReadAdvances`, `NoReadStuck` | the same, and the button is let go (a reset under a read is outside both) |
| `ForcedFlushEnds` | `ForcedFlushAdvances` | the firmware goes on |
| `DirtyIsFlushed` (`MdvFlush`) | `FlushAdvances` | the firmware goes on |
| `RequestsServed` | `RequestAdvances`, `NoRequestStuck` | the card and the firmware go on |
| `DirtyIsFlushed` (`VDrives`) | `FlushGoesOn`, `NoFlushStuck` | the clock ticks, the card and the firmware go on |

The properties in the middle column were checked by TLC, with the constants of the run
whose liveness property they support, before they were proved; only `FairTurns` and
`SlaveSpec` are in a cfg. Every safety property of the passing runs is proved.
The other way round, the type invariants of all components with theorems
are proved and not run again, except where they are a conjunct of a checked `IInv`.

## 8. Not modelled

| Part | Why |
|---|---|
| QNICE's toolchain and emulator (`M2M/QNICE/c`, `tools`, `emulator`) | vendored: vasm, vbcc and an assembler for a dozen processors, used on the developer's machine. They are all of the repository's C, some 190000 lines, and nothing of them is in the core; the core itself is VHDL and QNICE assembler, which is what these modules are mapped to. Shares of mapped C lines are therefore zero, and should be |
| Bursts of `sdram.vhd` and of `avm_cache.vhd`'s client | no master of the core asks for one |
| The ROM loads and the automatic load (`CRTROM_AUTOLOAD`) | the same protocol and checks as a drive's load, with an exact size and without the bridge |
| A second drive | `MDV2_FLUSH_STEP` and the second bridge are the same code on variables of their own; what drives share (the Shell's thread, the card, the arbiter) is in the models as another item's browser and as another master |
| Two caches on one arbiter across a reset | see HyperRamPath: which cache takes a forgotten word |
| Keyboard matrix, menu tables, file browser, screens, fonts | data and presentation; their calls into the modelled parts are actions |
| HyperRAM controller, QNICE CPU and monitor, FAT32 library, video, HDMI, audio, clocks | vendored; external in the models, as a memory that answers in order, a CPU that waits when told to, file calls that succeed or fail |
| fx68k, zx8301, zx8302, mdv.v, sd_card.sv | a git submodule that is not part of the repository; external, as `main.vhd` uses them |

## 9. Plan

1. Done: write-back, buffer port, cache, main RAM port, arbiter, bridge, virtual
   drive; the SDRAM under the arbiter, the HyperRAM path under the cache, the load in
   front of the bridge; the theorems of section 6: the safety properties, the
   refinements, and for each liveness property the rank behind it.
2. Done: `QlSdramRam` on `SdramBus`, slave and master shown apart (`SlaveSpec`,
   `RequestHeld`).
3. Two drives in `MdvFlush`: they share `HANDLE_IO`, SD_CHANGED and the card.
