----------------------------- MODULE NesSystem -----------------------------
(***************************************************************************)
(* How nes_system interleaves the CPU and the PPU of the emulated console. *)
(*                                                                         *)
(* There is one thread.  nes_system::step(count) moves the master clock,   *)
(* lets the CPU run whole instructions until its own clock has caught up,  *)
(* then lets the PPU run single dots until its clock has caught up.  The   *)
(* CPU therefore always runs first and overshoots, by up to an OAM DMA;    *)
(* the two talk through flags: an NMI request (PPU to CPU), an OAM DMA     *)
(* request (CPU register write to CPU), the vblank flag (PPU, cleared by a *)
(* CPU read) and the stop flag (both).  All clocks count PPU dots; a CPU   *)
(* cycle is three dots (nes_cycle.h).                                      *)
(*                                                                         *)
(* The guest program is abstracted to what its instructions do to that     *)
(* state: any instruction may come next and take any of InstrCycles.       *)
(* Opcodes the CPU does not implement take no cycle and change nothing     *)
(* here when asserts are compiled out: they are stuttering steps.          *)
(*                                                                         *)
(* A definition whose name begins with Bug is no part of the model: it is  *)
(* a plausible mistake in the definition that follows it, and PROJECT.json *)
(* names the property that notices when it takes that one's place.         *)
(***************************************************************************)
EXTENDS Integers

CONSTANTS
    Dots,           \* dots of a scanline (341)
    Lines,          \* scanlines of a frame (262)
    VBlankLine,     \* the scanline where vblank begins (241)
    EarlyEnd,       \* vblank ends this many dots before line Lines-1 (12)
    ReadyAt,        \* PPUCTRL is ignored up to this dot (29658)
    InstrCycles,    \* CPU cycles an instruction may take
    NmiCycles,      \* CPU cycles of the NMI sequence (7)
    DmaCycles,      \* CPU cycles of an OAM DMA begun on an odd cycle (513)
    MaxCycles,      \* no CPU operation takes more CPU cycles than this
    StepSizes,      \* the counts step() is called with (always 1 in the repository)
    StopFrames,     \* the arguments stop_after_frame may be given
    MaxMaster       \* BOUND on the master clock

NoAutoStop == -1

VBlankStart == VBlankLine * Dots + 1      \* position of (241, 1) in a frame

ASSUME ClockAssumption ==
    /\ Dots \in Nat /\ Dots > 2
    /\ Lines \in Nat /\ VBlankLine \in Nat
    /\ VBlankLine > 0 /\ VBlankLine + 2 < Lines
    /\ EarlyEnd \in 1 .. Dots - 2
    /\ ReadyAt \in Nat /\ MaxMaster \in Nat
    /\ StopFrames \subseteq Nat

ASSUME CycleAssumption ==
    /\ MaxCycles \in Nat
    /\ InstrCycles \subseteq 1 .. MaxCycles
    /\ NmiCycles \in 1 .. MaxCycles
    /\ DmaCycles \in 1 .. MaxCycles - 1 /\ DmaCycles % 2 = 1
    /\ StepSizes \subseteq 1 .. MaxCycles

(* The longest CPU operation, and a step, fit in what is left of a frame   *)
(* when vblank begins: 3 * 514 + 1 dots against 21 lines of 341.           *)
ASSUME VBlankAssumption ==
    \A n \in StepSizes : VBlankStart + 3 * MaxCycles + n < Lines * Dots

VARIABLES
    phase,          \* which loop of step() is running: "idle", "cpu", "ppu"
    master,         \* nes_system::_master_cycle
    stop,           \* nes_system::_stop_requested
    cpuCycle,       \* nes_cpu::_cycle
    nmiPending,     \* nes_cpu::_nmi_pending
    dmaPending,     \* nes_cpu::_dma_pending
    stopAt,         \* armed test stops: "addr" (_is_stop_at_addr), "loop"
    ppuCycle,       \* nes_ppu::_master_cycle
    dot,            \* nes_ppu::_scanline_cycle
    scanline,       \* nes_ppu::_cur_scanline
    frame,          \* nes_ppu::_frame_count
    vblank,         \* nes_ppu::_vblank_started
    vblankNmi,      \* nes_ppu::_vblank_nmi
    stopAfter       \* nes_ppu::_stop_after_frame, NoAutoStop without _auto_stop

sysVars == <<phase, master>>
cpuVars == <<cpuCycle, nmiPending, dmaPending, stopAt>>
beam    == <<ppuCycle, dot, scanline, frame>>
ppuVars == <<beam, vblank, vblankNmi, stopAfter>>
vars    == <<sysVars, stop, cpuVars, ppuVars>>

Init ==
    /\ phase = "idle" /\ master = 0 /\ stop = FALSE
    /\ cpuCycle = 0 /\ nmiPending = FALSE /\ dmaPending = FALSE
    /\ stopAt \in SUBSET {"addr", "loop"}
    /\ ppuCycle = 0 /\ dot = 0 /\ scanline = 0 /\ frame = 0
    /\ vblank = FALSE /\ vblankNmi = FALSE
    /\ stopAfter \in StopFrames \cup {NoAutoStop}

-----------------------------------------------------------------------------
(* nes_system::step *)

Step(count) ==
    /\ phase = "idle" /\ master + count <= MaxMaster
    /\ master' = master + count
    /\ phase' = "cpu"
    /\ UNCHANGED <<stop, cpuVars, ppuVars>>

BugPpuRunsWhenStopped == phase = "ppu" /\ ppuCycle < master
BugPpuRunsOnceMore == phase = "ppu" /\ ppuCycle <= master /\ ~stop
BugPpuRunsByLines == phase = "ppu" /\ ppuCycle + Dots < master /\ ~stop

CpuRuns == phase = "cpu" /\ cpuCycle < master /\ ~stop
PpuRuns == phase = "ppu" /\ ppuCycle < master /\ ~stop

BugCpuIgnoresStop ==
    /\ phase = "cpu" /\ cpuCycle >= master
    /\ phase' = "ppu"
    /\ UNCHANGED <<master, stop, cpuVars, ppuVars>>

CpuReturns ==
    /\ phase = "cpu" /\ ~CpuRuns
    /\ phase' = "ppu"
    /\ UNCHANGED <<master, stop, cpuVars, ppuVars>>

PpuReturns ==
    /\ phase = "ppu" /\ ~PpuRuns
    /\ phase' = "idle"
    /\ UNCHANGED <<master, stop, cpuVars, ppuVars>>

(* Where the bound ends a run: the real program goes on. *)
AtBound ==
    /\ phase = "idle" /\ \A n \in StepSizes : master + n > MaxMaster
    /\ UNCHANGED vars

-----------------------------------------------------------------------------
(* nes_cpu::exec_one_instruction.  Whatever it goes on to do, it first     *)
(* asks for a stop if PC is at the armed address (hit).                    *)

StopAtAddr(hit) == hit => "addr" \in stopAt

Disarmed(hit) == IF hit THEN stopAt \ {"addr"} ELSE stopAt

StepCpu(cycles) == cpuCycle' = cpuCycle + 3 * cycles

BugNmiStaysPending(hit) ==
    /\ CpuRuns /\ nmiPending /\ StopAtAddr(hit)
    /\ StepCpu(NmiCycles)
    /\ stopAt' = Disarmed(hit) /\ stop' = (stop \/ hit)
    /\ UNCHANGED <<sysVars, nmiPending, dmaPending, ppuVars>>

NMI(hit) ==
    /\ CpuRuns /\ nmiPending /\ StopAtAddr(hit)
    /\ StepCpu(NmiCycles)
    /\ nmiPending' = FALSE
    /\ stopAt' = Disarmed(hit) /\ stop' = (stop \/ hit)
    /\ UNCHANGED <<sysVars, dmaPending, ppuVars>>

BugDmaParity == IF cpuCycle % 2 = 0 THEN DmaCycles ELSE DmaCycles + 1

(* _cycle % 2 is taken of the clock in dots. *)
DmaLength == IF cpuCycle % 2 = 0 THEN DmaCycles + 1 ELSE DmaCycles

OAMDMA(hit) ==
    /\ CpuRuns /\ ~nmiPending /\ dmaPending /\ StopAtAddr(hit)
    /\ StepCpu(DmaLength)
    /\ dmaPending' = FALSE
    /\ stopAt' = Disarmed(hit) /\ stop' = (stop \/ hit)
    /\ UNCHANGED <<sysVars, nmiPending, ppuVars>>

(* An instruction starts only with no NMI and no DMA request pending. *)
Fetches(hit) == CpuRuns /\ ~nmiPending /\ ~dmaPending /\ StopAtAddr(hit)

(* What an instruction that neither stops nor spins leaves behind. *)
Completes(hit, cycles) ==
    /\ StepCpu(cycles)
    /\ stopAt' = Disarmed(hit) /\ stop' = (stop \/ hit)
    /\ UNCHANGED <<sysVars, nmiPending>>

Plain(hit, cycles) ==
    /\ Fetches(hit) /\ Completes(hit, cycles)
    /\ UNCHANGED <<dmaPending, ppuVars>>

(* Switching the NMI on during vblank raises none: only the flag changes. *)
IsReady == ppuCycle > ReadyAt

WritePPUCTRL(hit, cycles, nmi) ==
    /\ Fetches(hit) /\ Completes(hit, cycles)
    /\ vblankNmi' = IF IsReady THEN nmi ELSE vblankNmi
    /\ UNCHANGED <<dmaPending, beam, vblank, stopAfter>>

ReadPPUSTATUS(hit, cycles) ==
    /\ Fetches(hit) /\ Completes(hit, cycles)
    /\ vblank' = FALSE
    /\ UNCHANGED <<dmaPending, beam, vblankNmi, stopAfter>>

WriteOAMDMA(hit, cycles) ==
    /\ Fetches(hit) /\ Completes(hit, cycles)
    /\ dmaPending' = TRUE
    /\ UNCHANGED ppuVars

(* BRK stops the system after its 7 cycles, KIL at once. *)
BRK(hit, cycles) ==
    /\ Fetches(hit)
    /\ StepCpu(cycles)
    /\ stop' = TRUE /\ stopAt' = Disarmed(hit)
    /\ UNCHANGED <<sysVars, nmiPending, dmaPending, ppuVars>>

(* A taken branch to itself, while stop_at_infinite_loop is armed. *)
SpinBranch(hit, cycles) ==
    /\ Fetches(hit) /\ "loop" \in stopAt
    /\ StepCpu(cycles)
    /\ stop' = TRUE /\ stopAt' = Disarmed(hit) \ {"loop"}
    /\ UNCHANGED <<sysVars, nmiPending, dmaPending, ppuVars>>

CpuStep ==
    \E hit \in BOOLEAN :
        \/ NMI(hit)
        \/ OAMDMA(hit)
        \/ BRK(hit, NmiCycles)
        \/ BRK(hit, 0)
        \/ \E cycles \in InstrCycles :
              \/ Plain(hit, cycles)
              \/ \E nmi \in BOOLEAN : WritePPUCTRL(hit, cycles, nmi)
              \/ ReadPPUSTATUS(hit, cycles)
              \/ WriteOAMDMA(hit, cycles)
              \/ SpinBranch(hit, cycles)

-----------------------------------------------------------------------------
(* nes_ppu::step_to, one pass of its loop. *)

BugNextDot(b) ==
    IF b.dot + 1 < Dots
      THEN [b EXCEPT !.dot = b.dot + 1]
    ELSE IF b.line < Lines
      THEN [dot |-> 0, line |-> b.line + 1, frame |-> b.frame]
    ELSE [dot |-> 0, line |-> 0, frame |-> b.frame + 1]

(* step_ppu(1): where the beam is one dot later. *)
NextDot(b) ==
    IF b.dot + 1 < Dots
      THEN [b EXCEPT !.dot = b.dot + 1]
    ELSE IF b.line + 1 < Lines
      THEN [dot |-> 0, line |-> b.line + 1, frame |-> b.frame]
    ELSE [dot |-> 0, line |-> 0, frame |-> b.frame + 1]

Beam == [dot |-> dot, line |-> scanline, frame |-> frame]

(* How many dots into its frame the beam is. *)
Position(b) == b.line * Dots + b.dot

AtVBlankStart(b) == b.line = VBlankLine /\ b.dot = 1

BugNoEarlyEnd(b) == b.line = Lines - 1 /\ b.dot = 0

(* The early end is the code's own work-around for a read of $2002 that    *)
(* races with the end of vblank; line Lines-1 then finds the flag clear.   *)
AtVBlankEnd(b) ==
    \/ b.line = Lines - 2 /\ b.dot > Dots - EarlyEnd
    \/ b.line = Lines - 1 /\ b.dot = 0

(* On the last dot of an odd frame the loop body runs step_ppu once more:  *)
(* the first dot of the next frame gets no body of its own.  The comment   *)
(* at nes_ppu.cpp:544 says "odd frame skip the last cycle", but step_ppu   *)
(* counts that dot in _master_cycle as well: it is skipped, not saved.     *)
SkipsDot(b) == b.line = Lines - 1 /\ b.dot = Dots - 1 /\ b.frame % 2 = 1

DotsTaken(b) == IF SkipsDot(b) THEN 2 ELSE 1

BugAutoStopOnce(f) == stopAfter # NoAutoStop /\ f = stopAfter
BugAutoStopLate(f) == stopAfter # NoAutoStop /\ f > stopAfter + 1

(* step_ppu() checks the automatic stop when the frame count changes. *)
AutoStop(f) == stopAfter # NoAutoStop /\ f > stopAfter

PpuStep ==
    LET b == NextDot(Beam)
        e == IF SkipsDot(b) THEN NextDot(b) ELSE b
    IN  /\ PpuRuns
        /\ ppuCycle' = ppuCycle + DotsTaken(b)
        /\ dot' = e.dot /\ scanline' = e.line /\ frame' = e.frame
        /\ stop' = (stop \/ (e.frame # frame /\ AutoStop(e.frame)))
        /\ vblank' = ((vblank \/ AtVBlankStart(b)) /\ ~AtVBlankEnd(b))
        /\ nmiPending' = (nmiPending \/ (AtVBlankStart(b) /\ vblankNmi))
        /\ UNCHANGED <<sysVars, cpuCycle, dmaPending, stopAt, vblankNmi, stopAfter>>

Next ==
    \/ \E count \in StepSizes : Step(count)
    \/ CpuStep
    \/ CpuReturns
    \/ PpuStep
    \/ PpuReturns
    \/ AtBound

Spec == Init /\ [][Next]_vars

(* Every caller calls step() in a loop, and the loops of step() run.       *)
Fairness ==
    /\ WF_vars(\E count \in StepSizes : Step(count))
    /\ WF_vars(CpuStep \/ CpuReturns)
    /\ WF_vars(PpuStep \/ PpuReturns)

FairSpec == Spec /\ Fairness

-----------------------------------------------------------------------------
TypeOK ==
    /\ phase \in {"idle", "cpu", "ppu"}
    /\ master \in 0 .. MaxMaster
    /\ stop \in BOOLEAN
    /\ cpuCycle \in Nat /\ nmiPending \in BOOLEAN /\ dmaPending \in BOOLEAN
    /\ stopAt \subseteq {"addr", "loop"}
    /\ ppuCycle \in Nat
    /\ dot \in 0 .. Dots - 1 /\ scanline \in 0 .. Lines - 1 /\ frame \in Nat
    /\ vblank \in BOOLEAN /\ vblankNmi \in BOOLEAN
    /\ stopAfter \in StopFrames \cup {NoAutoStop}

(* When step() has returned and nothing asked for a stop, no component is  *)
(* behind the master clock; the PPU is at most the skipped dot ahead and   *)
(* the CPU less than its longest operation.                                *)
ClocksInStep ==
    phase = "idle" /\ ~stop =>
        /\ ppuCycle \in {master, master + 1}
        /\ cpuCycle \in master .. master + 3 * MaxCycles - 1

(* What an instruction reads from the PPU is not stale: when the CPU is    *)
(* about to execute, the PPU is at most one dot ahead of it and less than  *)
(* one step() behind, although the CPU has overshot earlier steps.         *)
PpuFreshForCpu ==
    CpuRuns => \E n \in StepSizes : ppuCycle - cpuCycle \in (1 - n) .. 1

(* The beam position, the frame count and the PPU clock always agree, so   *)
(* every frame is Lines * Dots dots of the clock.  That is what step_ppu   *)
(* does, not what the comment at nes_ppu.cpp:544 says of odd frames, which *)
(* would be a dot shorter had they skipped a cycle.  The length of a       *)
(* limited run is computed from it (LimitedRunStops in NesSystemProofs).   *)
FrameClock == ppuCycle = (frame * Lines + scanline) * Dots + dot

(* An NMI request is served in the vblank that raised it: it never         *)
(* survives into the picture, so the next one can not be merged with it.   *)
NmiServedInVBlank ==
    nmiPending => Position(Beam) >= VBlankStart

(* $2002 shows vblank only between (241, 1) and the early end on line 260. *)
VBlankWindow ==
    vblank => /\ scanline > VBlankLine \/ (scanline = VBlankLine /\ dot >= 1)
              /\ scanline < Lines - 2 \/ (scanline = Lines - 2 /\ dot <= Dots - EarlyEnd)

(* A stop is final: no component moves once it is requested, so what a     *)
(* test reads afterwards is the state at the stop.                         *)
StopIsFinal == [][stop => UNCHANGED <<stop, cpuVars, ppuVars>>]_vars

(* An OAM DMA always ends on an even CPU cycle, whichever cycle it began   *)
(* on: the parity test is made on a clock that counts three per cycle.     *)
DmaEndsOnEvenCycle == [][dmaPending /\ ~dmaPending' => cpuCycle' % 6 = 0]_vars

(* What remains of the machine when its clocks are taken away: frames of a *)
(* picture and a vblank, the flag of $2002, the NMI, and the stop.         *)
Machine == INSTANCE Console WITH
    Limits <- StopFrames, NoLimit <- NoAutoStop,
    part <- IF Position(Beam) >= VBlankStart THEN "vblank" ELSE "picture",
    flag <- vblank, nmi <- nmiPending, limit <- stopAfter, halted <- stop

(* Although the CPU runs ahead of the PPU and requests are served later,   *)
(* the program lives in one line of time: every vblank raises the flag     *)
(* once and at most one NMI, both are over before its frame ends, a frame  *)
(* comes after a frame, and a run limited to n frames halts in the step    *)
(* that ends frame n + 1.                                                  *)
ConsoleKept == Machine!Spec

(* step() returns: neither component's loop can run for ever.              *)
StepReturns == phase # "idle" ~> phase = "idle"

(* stop_after_frame() ends the run, whatever the program does.             *)
AutoStopHappens == (stopAfter # NoAutoStop) ~> stop

=============================================================================
