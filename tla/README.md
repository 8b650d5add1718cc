# neschan: specification and verification

`neschan` is a NES emulator: a library (`src/lib`) with the machine, an SDL
application (`src/src`) that feeds it wall-clock time, and tests that run
ROMs to a stop. This directory specifies the machine in TLA+, checks the
specifications with TLC on small instances and proves most of their properties
with TLAPS for every value of the constants.

## Contents

| module | models | checked by | proofs |
|---|---|---|---|
| `NesSystem` | `nes_system::step`, CPU and PPU scheduling, vblank, NMI, OAM DMA, stops | run `system` | `NesSystemProofs` |
| `Console` | the abstract machine `NesSystem` implements: frames, one vblank and at most one NMI in each | refinement in run `system` | `NesSystemProofs` |
| `PpuSprites` | sprite evaluation, OAM masking, sprite 0 hit | `sprites`, `sprites_hit`, `sprites_overflow` | `PpuSpritesProofs` |
| `PpuScroll` | background fetches, `v`/`t`/fine X/toggle | `scroll`, `scroll_first_line` | `PpuScrollProofs` |
| `PpuPicture` | the pixels of tiles and sprites, the two frame buffers | `picture`, `picture_background` | `PpuPictureProofs` |
| `NesBus` | CPU bus, `$2003`-`$2007` data ports, OAM DMA copy, controllers | `bus`, `bus_mirroring_switch` | `NesBusProofs` |
| `VideoMap`, `VideoMemory` | the abstract video memory `NesBus` implements | refinement in run `bus` | `NesBusProofs` |
| `Cartridge` | loader, NROM, MMC1, MMC3 | `cartridges` | `CartridgeProofs` |
| `NesCpu` | the instruction set and what the trace peeks at | `cpu` | `NesCpuProofs`, `NesCpuStackProofs` |

`MC...` modules give a module's constants values; definitions named `Bug...`
are plausible mistakes, each of which breaks one property when it replaces the
definition that follows it.

## Inventory

Everything runs in one thread; what is concurrent is the *emulated* hardware,
interleaved by `nes_system::step`. Components talk by direct calls and by flags
that are read later.

| part | state | operations | hard behaviour | correct when |
|---|---|---|---|---|
| `nes_system` | `_master_cycle`, `_stop_requested` | `step`, `power_on`, `run_rom`, `run_program`, `stop` | three clocks in two units; a stop in the middle of a turn | the clocks stay together, a stop is final, `step` returns |
| `nes_cpu` scheduling | `_cycle`, `_nmi_pending`, `_dma_pending`, armed stops | `step_to`, `exec_one_instruction`, `NMI`, `OAMDMA`, `request_*` | whole instructions overshoot; requests are served later | no request is lost, merged or late |
| `nes_cpu` instruction set | A, X, Y, P, SP, PC | the opcodes, addressing modes, stack | 8-bit wrap, flags, page wrap | every operation equals its arithmetic definition |
| tracing | none of its own | `get_op_str` before each instruction | decodes operands a second time, with code of its own, and reads registers | the log shows the operand the instruction uses |
| `nes_ppu` timing | `_scanline_cycle`, `_cur_scanline`, `_frame_count`, `_vblank_started` | `step_to`, `step_ppu` | skipped dot, early end of vblank, NMI request, automatic stop | vblank is where the program expects it |
| `nes_ppu` sprites | OAM, `_sprite_buf`, `_last_sprite_id`, `_has_sprite_0`, `_mask_oam_read`, flags | `fetch_sprite_pipeline`, `fetch_sprite` | the guest changes OAM, size and visibility between dots | the first eight covering sprites, right flags, no write beyond the buffer |
| `nes_ppu` background | `_ppu_addr` (v), `_temp_ppu_addr` (t), `_fine_x_scroll`, `_scroll_y`, `_addr_toggle` | `fetch_tile_pipeline`, `fetch_tile`, `$2000/5/6` | one address register for fetches, scrolling and data access | every tile comes from where the scroll position names |
| `nes_ppu` pictures | two frame buffers, `_frame_buffer_bg`, `_x_offset` | `fetch_tile`, `fetch_sprite`, `swap_buffer` | nothing clears a buffer; rows are one linear array; the prefetch draws in the next row | a picture is all of its own frame |
| `nes_ppu` registers, VRAM | `_latch`, `_vram_read_buf`, `_vram`, mirroring, `_oam_addr` | `$2000`-`$2007`, `$4014`, `read_byte`, `write_byte` | delayed reads, palette exceptions, shared toggle, writes ignored before the PPU is ready | a read returns what was written where it belongs |
| `nes_memory` | `_ram`, the mapper | `get_byte`, `set_byte`, `get_bytes`, `set_bytes` | mirrors, I/O dispatch, mapper registers over ROM | every address reaches its one device |
| `nes_input` | `_strobe_on`, `_button_flags`, `_button_id` | `write_CONTROLLER`, `read_CONTROLLER` | strobe and serial reads | eight reads give the eight buttons of one poll |
| mappers, loader | MMC1 shift register and control, MMC3 bank select, `_prev_prg_mode` | `write_reg`, `on_load_ram`, `on_load_ppu`, `load_from` | serial writes, mode bits that only later writes apply, header bits spread over two bytes | each window shows the bank the registers name |
| `nes_apu` | the audio ring | `read_buffer`, `write_buffer` | wrap, full against empty | a FIFO; constructed nowhere in the program: not modelled |
| application, tests, `blip_buf` | | | | input and output, drivers, vendored code: not modelled |

## Plan

In the order of importance; what is done is marked.

1. `NesSystem` with its proofs: the interleaving everything else relies on. (done)
2. `PpuSprites` with its proofs. (done)
3. `PpuScroll`, `Cartridge`, `NesBus` with the abstract `VideoMemory`, `NesCpu`. (done)
4. `Console`, the abstract machine, and that `NesSystem` implements it. (done, proved)
5. `PpuPicture`: pixels, sprites at the right edge, double buffering. (done, proved)
6. Proofs of `NesCpu` and its stack, `NesBus` with its refinement, `Cartridge`, and
   of the typing and the data port of `PpuScroll`. (done)
7. The picture of `PpuScroll`: `ColumnIsRight` and `RowIsRight`, and how far the
   finding `scroll_first_line`, the stop at an infinite loop and MMC3's mask go. (done, proved)
8. Left: a composition of `NesSystem` with the ports of `PpuScroll`, which would
   add little as they share only the beam position; the audio ring of `nes_apu`,
   should something come to use it.

## How the modules correspond to the code

**NesSystem.** `phase` is where `step()` is: between calls, in `nes_cpu::step_to`
or in `nes_ppu::step_to`. `Step` is the call, `CpuStep` one pass of the CPU's loop
(`exec_one_instruction` with everything it calls), `PpuStep` one pass of the PPU's
loop (one dot), `CpuReturns` and `PpuReturns` the ends of the loops. An
instruction is reduced to its length and to what it does to shared state: read
`$2002`, write `$2000`, write `$4014`, arm or hit a stop. Opcodes without an
implementation take no time and change nothing; they are stuttering steps. The
clocks count dots, as `nes_cycle.h` does. `DotsTaken` is the dot an odd frame
skips: `step_ppu` counts it in `_master_cycle`, so it is skipped and not saved.

**Console** is what is left of it without the clocks: a frame is a picture and then
a vblank; the vblank raises the flag of `$2002` and perhaps an NMI, both are over
before the frame ends, and a run limited to *n* frames halts with the end of
frame *n* + 1. The mapping reads `part` off the beam position and the rest off
the variables of the same meaning. It hides everything that makes the code hard:
that the CPU has run ahead when the flag rises, that the NMI is served an
instruction later, that the dot an odd frame skips is run between two bodies.

**PpuSprites.** `Tick` is one call of `fetch_sprite_pipeline` with the dot it
belongs to; `ShowSprites`, `SetHeight` and `WriteOAM` are the guest's writes to
`$2001`, `$2000` and OAM between two dots. Pixels are reduced to the question
whether sprite 0 meets an opaque background pixel, which is a free choice. The
properties speak of *steady* lines, on which sprites were on at dot 0 and the
guest changed nothing of theirs since; the finding `sprites_hit` shows what
happens on others. One more thing does, of which the repository says nothing:
sprites switched off in dots 1 to 64 leave `$2004` masked until they come back, in
vblank too (`nes_ppu.cpp:352`); `MaskWindow`, a statement about steady lines, shows
only that the next of those ends it. The overflow flag is split in two: when it goes
up (`OverflowIsRight`, which holds) and how long it stays (`OverflowLasts`, which
does not).

**PpuScroll.** `Tick` is one dot of `fetch_tile_pipeline` with the copies of `t`
to `v`; the guest's writes to `$2000`, `$2001`, `$2005`, `$2006` and accesses to
`$2007` are actions. An address is the record of its fields, `Word` and
`AddressOf` convert. What a fetch returns is reduced to the address it was made
at, so "the right pixel" means "from the right address".

**PpuPicture.** A dot of this module is one of `nes_ppu`'s at which something is
drawn or reset. A pixel is who drew it: an older frame, the background, a sprite
in its row, or a sprite that ran over the right edge of the row above. `DrawDot`
is the dot, `NextLine` the end of a line, `SwapBuffer` the end of the frame;
`WritePPUMASK` and `WritePPUSCROLL` are the guest. `_frame_buffer_bg`, which sprites
are compared with, is the set `fresh` of the pixels written in this frame; the pixels
of a sprite (`SpritePixels`) include those beyond the right edge, in the row below.
On a steady frame `fresh` holds all of a sprite's own row and nothing of the other
(`OldBeyondEdge`): that part is the finding `picture_background`.

**NesBus.** One action per register access that changes state. Addresses are the
real 16-bit ones. `Memory` instantiates `VideoMemory` with cells read out of the
byte array through `Place`; `VideoMemoryKept` is that specification. `SetByte` and
`GetByte` are the CPU's own RAM accesses; `told`, `port` and `polled` are history
(what was last written or asked for), read only by the properties. `$2007` and
the controllers can be read twice, by the instruction and, when tracing is on, by
the log before it: the parameter `logged`. The four groups (RAM and dispatch,
video, sprites, controllers) share nothing but the open-bus latch, which is not
modelled, so one behaviour uses one group.

**Cartridge.** `LoadFrom` is `nes_rom_loader::load_from` from the header on: the
mapper is spelled by two half bytes of flags 6 and 7, the mirroring by flag 6, the
ROMs are as long as the header says. The mappers copy banks into windows on
register writes; a window's content is the number of the bank in it. `Mmc1Shift`
and `Mmc1Fifth` are the serial write, `WriteBankSelect`, `WriteBankData`,
`WriteMirroring` MMC3's registers. Members without an initialiser start as any of
`Garbage`. MMC3's mode bit is in `bankSelect.mode` as soon as it is written;
`prevPrgMode` is the code's `_prev_prg_mode`, which follows at the next bank data
write, and so does the second last bank. `Mmc3FixedBanks` is stated over the bit and
excepts the time between the two (`ModePending`).

**NesCpu.** One action per group of handlers that share their shape (`Read`,
`Store`, `Modify`, `NoOperand`, `Branch`) and one each for jumps, stack
operations and the NMI. The fetched bytes are chosen freely, so the program is
arbitrary and code is not in `mem`. `did`, `frames` and `depth` are history: the
last instruction with the operand the log found for it (`Logged...`, the operand
decoding of `get_op_str`), and the set of calls and interrupts not yet returned
from. One leaves the set when S goes past it, when `TXS` moves the stack, and when
the stack has gone all the way round its page and is about to overwrite it.
Programs of the "flow" group do not store: what a program writes into its own
stack frames is its own affair.

## Runs

| run | what it shows | bounds and why they are enough |
|---|---|---|
| `system` | the clocks stay together, an NMI request is served in its vblank, vblank is where `$2002` says, stops are final, DMA ends on an even cycle, the system implements `Console`, `step()` returns, an automatic stop happens | 9 lines of 4 dots, instructions of 1 or 2 cycles, DMA of 3 or 4, `MaxMaster` 84: two frames, one with the skipped dot, and the start of a third; an instruction can straddle any dot, line and frame end. The proofs cover every size |
| `sprites` | buffer bounded, on undisturbed lines evaluation right, overflow raised by the first sprite left out, rows inside tiles, masking at exactly its dots, the hit flag | 3 sprites for 2 slots and heights 1 and 2: lines with none, some and too many; no bound on the guest's writes |
| `sprites_hit`, `sprites_overflow` | see findings | as above |
| `scroll` | each drawn tile comes from the column and row of the scroll position, `v` is left alone while rendering is off | 2 by 2 tiles with attribute rows, so name table edges are crossed both ways on every picture; `MaxWrites` 5 guest accesses at the `Slots` (vblank, in a fetch, in a prefetch): both parts of `$2005` and `$2006` and a mask write |
| `scroll_first_line` | see findings | guest in vblank only |
| `picture` | sprite pixels beyond the right edge are covered, a picture is whole, sprites meet the background of their own frame in their own row and only there | 3 by 3 tiles of 2 pixels, fine X 0 or 1, 3 guest writes (on, a change, off or a scroll), one sprite, at the left or over the right edge; pictures come round, so a buffer is reused |
| `picture_background` | see findings | as above |
| `cartridges` | MMC1 selects what the five bits spell, banks are whole, MMC3 fixed banks are where the mode bit puts them once it has taken effect, and windows show what was written | headers that spell NROM, MMC1 and MMC3 and both mirrorings; ROMs of 16 and 64 KB, with CHR ROM of 8 KB or CHR RAM; bank bytes inside and outside the ROM; one register of each MMC3 kind; no bound on the writes |
| `bus` | mirrors and dispatch, the refinement of `VideoMemory`, DMA from any `OAMADDR`, the serial controllers | addresses at the seams of pattern memory, the four name tables and the palette with its mirrors; OAM and page of 4 bytes, 3 buttons; mirroring may switch between vertical and one-screen |
| `bus_mirroring_switch` | see findings | name table addresses, all switches |
| `cpu` | arithmetic, flags, the log, returns, timing | operands, registers and pointers around 0, 127 and 255, addresses that cross a page; four instructions of control flow round the end of the stack, enough for an interrupt in a call and for a push and a pull in either |

Deadlock is checked in every run. `NesSystem` and `NesCpu` end a bounded behaviour
with `AtBound`, a stuttering step where the real program goes on.

Fairness: only `NesSystem` states liveness. `Fairness` is weak fairness of the
call of `step()` (every caller, application and tests, calls it in a loop), of
the CPU's loop and of the PPU's loop (plain `while` loops of one thread). An
instruction that takes no cycle and neither stops nor requests anything is not
part of it: the code asserts on such opcodes.

## Findings

- `sprites_hit`: sprites switched on in the middle of a line are drawn from an
  older buffer, and its first sprite can set the sprite 0 hit (`nes_ppu.cpp:379`).
- `scroll_first_line`: the first line of every picture is drawn two tiles too far
  to the right (`nes_ppu.cpp:148`).
- `sprites_overflow`: the overflow flag is taken back by dot 0 of the next line with
  sprites on, and not by the pre-render line (`nes_ppu.cpp:344` against
  `nes_ppu.h:71`).
- `picture_background`: what a sprite at x > 248 has in the row below is compared with
  the background of an older picture, and can set the sprite 0 hit
  (`nes_ppu.cpp:466`).
- `bus_mirroring_switch`: table B is kept at `$2400` or at `$2800` by mode, so a
  switch between vertical and horizontal mirroring shows old bytes
  (`nes_ppu.h:235`).

Four more disagreements are stated by theorems, which say what the code does instead:

- an odd frame is as long as an even one, although `nes_ppu.cpp:544` says it skips the
  last cycle: the dot is counted all the same (`FrameClockHolds`);
- `~0xb0` drops bits 4 and 5 of an MMC3 PRG bank and keeps bit 6, where
  `nes_mapper_mmc3.cpp:134` ignores bits 6 and 7 (`WindowsShowMasked`);
- after MMC3's mode bit changes, the second last bank stays at the other window until
  the next bank data write, against the table at `nes_mapper_mmc3.cpp:88-91`
  (`SecondLastMovesLate`);
- `stop_at_infinite_loop` (`nes_cpu.h:604`) notices branches to themselves but no `JMP`
  to itself: `nes_cpu.cpp:1079` compares with a PC that has moved
  (`LoopStopLimits`).

## Proofs

Every module has a `TypeCorrect` theorem; the invariants below are what it has to
be strengthened with.

**NesSystemProofs**, for every screen size, cycle count and step size:

- `FrameClockHolds`: the equation between frame, line, dot and PPU clock is
  inductive given the ranges, because the skipped dot is counted; so all frames are
  equally long.
- `ClocksStayInStep`, `PpuIsFresh` from `SyncInv`, which says in each phase how far
  each clock may be from the master clock: `ClocksInStep` alone speaks only of
  the moments between two calls and is not inductive.
- `NmiInTime` from `SyncInv` and `NmiInv`: while a request is pending the beam is
  in vblank *and* the CPU clock is less than a longest operation and a step ahead
  of the dot that raised it, so that the CPU is bound to run before vblank is over.
- `VBlankIsWhereItBelongs`: the flag is down from the early end on until the next
  (241, 1), whatever the program reads.
- `DmaEndsEven` from `CpuCycleInv`: the CPU clock is a multiple of three.
- `StopsAreFinal`.
- `StepBounded` and `LimitedRunStops`, what the liveness properties need besides
  fairness. Of a running `step()` no more component steps are left than `Distance`:
  an instruction takes time or asks for a stop (`CpuStepTakesTime`), a pass of the
  PPU takes a dot or two, so every step lowers it, and a `step(count)` starts with
  at most 2 * count and the two returns. A limited run that goes on has not passed
  its last frame (`FrameLimit`), and by `FrameClock` frames are time.
- `SystemIsAConsole`: every step is a step of `Console` or a stutter. It needs the
  previous results: that a frame ends with no NMI pending is `NmiInTime`, that it
  ends with the flag down is `VBlankIsWhereItBelongs`.

Assumptions: `ClockAssumption` (a screen has lines after vblank begins),
`CycleAssumption` (no operation is longer than `MaxCycles`, a DMA is odd when it
begins on an odd cycle), `VBlankAssumption` (the longest operation and a step fit
in the vblank: 3 * 514 + 1 dots against 21 lines of 341).

**PpuSpritesProofs**, for any number of sprites, slots and lines:
`EvaluationIsRight` speaks of finished pairs of dots; `EvalInv` adds the sprite
under evaluation between its two dots (its Y has been read, it is not yet copied)
and the empty buffer at the start of the line. From it follow
`EvaluationCorrect`, `OverflowCorrect` (a sprite is left out where the flag is up),
`RowsInTile` (a copied sprite covers the line) and `HitFlagCorrect` (slot 0 holds
sprite 0 if the flag says so). `BufferIsBounded` is separate, and so is
`MaskInWindow`: the first dot of the clearing masks and the first of the evaluation
unmasks, whatever was left behind. `SpriteAssumption` says that the evaluation has
two dots for every sprite and that the fetches follow it.

**PpuPictureProofs**, for tiles and screens of any size and any guest:
`SpillInv` says, dot by dot, how much of the next row the prefetch and the tiles
have drawn over since the sprites; `SpillCovered` is its end. `FrameInv` says of a
steady frame which rows are whole and how far the present one is, in pixels that
depend on the fine X scroll, and of the row the prefetch began before the frame
changed; `PicturesAreWhole` follows. `RowsReached` is its counterpart, what has not
been drawn: nothing of this frame lies below the present row before the prefetch, and
nothing below the next row after it. `OnlyBeyondEdge` needs both.

**NesBusProofs**, for every set of addresses, bytes, pages and buttons:
`BusDecoded` (`ToldIsKept`: the RAM cell behind every mirror holds what was last
told it), `DmaRotation` for any length of OAM and any `OAMADDR`, `OnePoll`
(`FlagsArePolled`), and `MemoryImplemented`: the byte array, its address rewriting
and the read buffer implement `VideoMemory`. The latter assumes `OneLayout`, that a
cartridge with horizontal mirroring never switches to another: the finding
`bus_mirroring_switch` shows that it is needed. `BusAssumption` leaves the mirror
at `$3000`-`$3eff` out and asks that with a name table address the one two tables
further is in the set.

**CartridgeProofs**, for ROMs of every size and every series of writes:
`SecondLastMovesLate` (`SecondLastIsLate`: the second last bank is where `prevPrgMode`
says, which is inductive while the statement over the mode bit is not), and
`FixedBanksStay` from it; `WindowsShowMasked`, for every byte: CHR windows show the banks
they were told, PRG windows what the mask leaves of them (`PrgBits`), and so
`WindowsShowBanks` for bytes the mask leaves alone (`PrgBits(b) = b`);
`BanksStayWhole`, by the arithmetic of copies of two and four windows;
`SerialSwitches` from `Serial`, which says what the shift register holds after
each of the four writes, its start bit included.

**PpuScrollProofs**: `TypeCorrect` (v and t are addresses after every carry, every
decoding and every half write), `PortUndisturbed`, and that the picture comes from
where `t` and the fine X scroll say: `ColumnsCorrect` and `RowsCorrect`, for every
size of tile and screen. The two properties speak of the moment a tile is drawn;
`ScrollInv`, which carries them, of every dot between:

- `ColumnInv`: on a line that began with the horizontal reset `v` is at the column
  of `t` plus the tiles drawn so far (`Drawn`, a count over the dots), modulo the
  two name tables, and `_x_offset` has advanced by their pixels. Without the second
  half the first does not say where on the line the tile lands. Both advance at the
  last access to a tile and nowhere else (`TilesStep`), the prefetched ones included.
- `RowInv`: in a frame that began with a scroll position `v` is the row of `t` plus
  the lines done, within the 30 rows that the carry into the next name table keeps.
- `LatchInv`: between the accesses to a tile `v` has not moved since the first, so
  name table byte, palette and plane are of one tile and of one row of it.

`FirstLineTwoBehind` says how far `scroll_first_line` goes: line 0 gets its two
prefetched tiles again, and all its others come from two columns to the left.

**NesCpuProofs**, for every program, every register content and all 256 values of
each byte: `ArithmeticCorrect` (`ADC`, `SBC`, shifts, rotations and the unofficial
opcodes built of them, against integer arithmetic; Z and N), `LogCorrect` and
`TimingCorrect`. These are properties of single steps; given `TypeOK` each
follows by cases over the groups of instructions and, for the tables of modes and
cycles, over their rows. `LoopStopLimits` says where an armed stop stops: it
is exact for taken branches and never comes at a `JMP` to itself.

**NesCpuStackProofs**: `ReturnsCorrect`, for programs of any length, any nesting of
calls, interrupts, pushes and pulls, and any S. The property speaks only of the
moment of a return; `StackInv` says of every open call and interrupt that the bytes
its return will pull are still in the cells they were pushed to (`Place`, counted
from where the stack began, `Bottom`, which no operation moves), that what S was
then follows from its depth, and that U and B, which a pull does not take from the
stack, are constant. A push preserves it because the cell it writes is less than a
page away from, and so different from, those of the frames that are still open.

Only model-checked: liveness (`StepReturns`, `AutoStopHappens`), which the prover
does not support; `StepBounded` and `LimitedRunStops` are its safety halves, to
which TLC adds that under the fairness of `FairSpec` the steps are taken.

## Not modelled

- Colours: palette lookup, tile and attribute bits. What the properties need of a
  pixel is where it comes from, where it lands and who drew it.
- The open-bus latch, a copy of the last byte on the PPU's bus.
- Addresses of `v` beyond `$3fff` and the name table mirror at `$3000`.
- Reading files and the trainer: input, without a decision that later state depends on.
- `nes_system::reset`, which nothing calls and which leaves the CPU clock as it is.
- The APU: no object of the program constructs it and no register reaches it.
- The SDL application: window, keyboard, joystick, wall clock. `NesSystem` assumes
  that it calls `step(1)` for ever, `NesBus` takes any buttons.
- Levels, streams and layout of the trace; `blip_buf`, used by nothing; the tests,
  whose stops are in `NesSystem` and `NesCpu`; opcodes that assert.
