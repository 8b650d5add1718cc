-------------------------- MODULE NesSystemProofs --------------------------
(***************************************************************************)
(* Proofs, for every screen size, cycle count and bound that satisfy the   *)
(* assumptions of NesSystem, that its clocks stay in step, that the beam   *)
(* agrees with the PPU clock, that an NMI request is served in the vblank  *)
(* that raised it, that a DMA ends on an even cycle, that a stop is final, *)
(* that the system implements Console, and that step() does a bounded      *)
(* number of steps and a limited run stops in time: the safety halves of   *)
(* StepReturns and AutoStopHappens, which only TLC checks.                 *)
(***************************************************************************)
EXTENDS NesSystem, TLAPS

-----------------------------------------------------------------------------
(* The beam. *)

BeamType == [dot : 0 .. Dots - 1, line : 0 .. Lines - 1, frame : Nat]

(* One dot later the beam is in range again; it has moved on by one        *)
(* position, or has left the last position of the frame.                   *)
LEMMA NextDotMoves ==
    ASSUME NEW b \in BeamType
    PROVE  /\ NextDot(b) \in BeamType
           /\ \/ /\ NextDot(b).frame = b.frame
                 /\ Position(NextDot(b)) = Position(b) + 1
              \/ /\ NextDot(b).frame = b.frame + 1
                 /\ NextDot(b).dot = 0 /\ NextDot(b).line = 0
                 /\ b.line = Lines - 1 /\ b.dot = Dots - 1
  <1> USE ClockAssumption DEF BeamType, Position
  <1>1. CASE b.dot + 1 < Dots
    BY <1>1 DEF NextDot
  <1>2. CASE b.dot + 1 >= Dots /\ b.line + 1 < Lines
    <2>1. NextDot(b) = [dot |-> 0, line |-> b.line + 1, frame |-> b.frame]
      BY <1>2 DEF NextDot
    <2>2. b.dot = Dots - 1
      BY <1>2
    <2>3. (b.line + 1) * Dots = b.line * Dots + Dots
      OBVIOUS
    <2> QED
      BY <1>2, <2>1, <2>2, <2>3
  <1>3. CASE b.dot + 1 >= Dots /\ b.line + 1 >= Lines
    BY <1>3 DEF NextDot
  <1> QED
    BY <1>1, <1>2, <1>3

(* The last position of a frame. *)
LEMMA LastPosition ==
    ASSUME NEW b \in BeamType, b.line = Lines - 1, b.dot = Dots - 1
    PROVE  Position(b) = Lines * Dots - 1
  <1>1. (Lines - 1) * Dots = Lines * Dots - Dots
    BY ClockAssumption
  <1> QED
    BY <1>1, ClockAssumption DEF BeamType, Position

-----------------------------------------------------------------------------
(* Type correctness. *)

LEMMA TypeInit == Init => TypeOK
  <1> SUFFICES ASSUME Init PROVE TypeOK
    OBVIOUS
  <1>1. 0 \in 0 .. MaxMaster /\ 0 \in 0 .. Dots - 1 /\ 0 \in 0 .. Lines - 1
    BY ClockAssumption
  <1> QED
    BY <1>1 DEF Init, TypeOK

(* The CPU clock moves by whole cycles, and by those of the DMA if one is   *)
(* served; no NMI request survives a step of the CPU that moves its clock. *)
LEMMA CpuStepTakes ==
    ASSUME TypeOK, CpuStep
    PROVE  /\ CpuRuns
           /\ \E c \in 0 .. MaxCycles : cpuCycle' = cpuCycle + 3 * c
           /\ nmiPending' = FALSE
           /\ UNCHANGED <<phase, master, ppuCycle, dot, scanline, frame, stopAfter>>
           /\ dmaPending /\ ~dmaPending' => cpuCycle' = cpuCycle + 3 * DmaLength
  <1> DEFINE Takes(c) == c \in 0 .. MaxCycles /\ cpuCycle' = cpuCycle + 3 * c
             Still == UNCHANGED <<phase, master, ppuCycle, dot, scanline, frame, stopAfter>>
             DmaTime == dmaPending /\ ~dmaPending' => cpuCycle' = cpuCycle + 3 * DmaLength
             Goal == /\ CpuRuns /\ (\E c \in 0 .. MaxCycles : Takes(c))
                     /\ nmiPending' = FALSE /\ Still /\ DmaTime
  <1> USE DEF sysVars, ppuVars, beam, StepCpu
  <1>1. ASSUME NEW hit, NMI(hit)
        PROVE  Goal
    <2>1. Takes(NmiCycles)
      BY <1>1, CycleAssumption DEF NMI
    <2>2. CpuRuns /\ nmiPending' = FALSE /\ Still /\ DmaTime
      BY <1>1 DEF NMI
    <2> QED
      BY <2>1, <2>2
  <1>2. ASSUME NEW hit, OAMDMA(hit)
        PROVE  Goal
    <2>1. Takes(DmaLength)
      BY <1>2, CycleAssumption DEF OAMDMA, DmaLength
    <2>2. CpuRuns /\ nmiPending' = FALSE /\ Still /\ DmaTime
      BY <1>2, <2>1 DEF OAMDMA, TypeOK
    <2> QED
      BY <2>1, <2>2
  <1>3. ASSUME NEW hit, NEW c \in 0 .. MaxCycles, Fetches(hit), StepCpu(c),
               UNCHANGED <<phase, master, nmiPending, beam, stopAfter>>
        PROVE  Goal
    <2>1. Takes(c)
      BY <1>3
    <2>2. CpuRuns /\ nmiPending' = FALSE /\ Still /\ DmaTime
      BY <1>3 DEF Fetches, TypeOK
    <2> QED
      BY <2>1, <2>2
  <1>4. ASSUME NEW hit, BRK(hit, NmiCycles) \/ BRK(hit, 0)
        PROVE  Goal
    <2>1. NmiCycles \in 0 .. MaxCycles /\ 0 \in 0 .. MaxCycles
      BY CycleAssumption
    <2> QED
      BY <1>3, <1>4, <2>1 DEF BRK
  <1>5. ASSUME NEW hit, NEW c \in InstrCycles,
               \/ Plain(hit, c)
               \/ \E nmi \in BOOLEAN : WritePPUCTRL(hit, c, nmi)
               \/ ReadPPUSTATUS(hit, c)
               \/ WriteOAMDMA(hit, c)
               \/ SpinBranch(hit, c)
        PROVE  Goal
    <2>1. c \in 0 .. MaxCycles
      BY CycleAssumption
    <2>2. /\ Fetches(hit) /\ StepCpu(c)
          /\ UNCHANGED <<phase, master, nmiPending, beam, stopAfter>>
      BY <1>5 DEF Plain, WritePPUCTRL, ReadPPUSTATUS, WriteOAMDMA, SpinBranch, Completes
    <2> QED
      BY <1>3, <2>1, <2>2
  <1>6. Goal
    BY <1>1, <1>2, <1>4, <1>5 DEF CpuStep
  <1> QED
    BY <1>6

(* What an instruction does to the flags. *)
LEMMA CpuStepFlags ==
    ASSUME TypeOK, CpuStep
    PROVE  /\ stop' \in BOOLEAN /\ dmaPending' \in BOOLEAN
           /\ stopAt' \subseteq {"addr", "loop"}
           /\ vblankNmi' \in BOOLEAN /\ vblank' \in {vblank, FALSE}
  <1> USE DEF TypeOK, Disarmed, ppuVars
  <1>1. ASSUME NEW hit \in BOOLEAN,
               NMI(hit) \/ OAMDMA(hit) \/ BRK(hit, NmiCycles) \/ BRK(hit, 0)
        PROVE  /\ stop' \in BOOLEAN /\ dmaPending' \in BOOLEAN
               /\ stopAt' \subseteq {"addr", "loop"}
               /\ vblankNmi' \in BOOLEAN /\ vblank' \in {vblank, FALSE}
    BY <1>1 DEF NMI, OAMDMA, BRK
  <1>2. ASSUME NEW hit \in BOOLEAN, NEW c \in InstrCycles,
               \/ Plain(hit, c)
               \/ \E nmi \in BOOLEAN : WritePPUCTRL(hit, c, nmi)
               \/ ReadPPUSTATUS(hit, c)
               \/ WriteOAMDMA(hit, c)
               \/ SpinBranch(hit, c)
        PROVE  /\ stop' \in BOOLEAN /\ dmaPending' \in BOOLEAN
               /\ stopAt' \subseteq {"addr", "loop"}
               /\ vblankNmi' \in BOOLEAN /\ vblank' \in {vblank, FALSE}
    BY <1>2 DEF Plain, WritePPUCTRL, ReadPPUSTATUS, WriteOAMDMA, SpinBranch, Completes
  <1> QED
    BY <1>1, <1>2 DEF CpuStep

(* What the loop of nes_ppu::step_to does, in terms of the beam.           *)
LEMMA PpuStepMoves ==
    ASSUME TypeOK, PpuStep
    PROVE  /\ PpuRuns
           /\ Beam \in BeamType /\ Beam' \in BeamType
           /\ NextDot(Beam) \in BeamType
           /\ \/ /\ ~SkipsDot(NextDot(Beam))
                 /\ Beam' = NextDot(Beam) /\ ppuCycle' = ppuCycle + 1
              \/ /\ SkipsDot(NextDot(Beam))
                 /\ Beam' = NextDot(NextDot(Beam)) /\ ppuCycle' = ppuCycle + 2
           /\ UNCHANGED <<phase, master, cpuCycle, dmaPending, stopAt, vblankNmi, stopAfter>>
  <1>1. Beam \in BeamType
    BY DEF TypeOK, Beam, BeamType
  <1>2. NextDot(Beam) \in BeamType
    BY <1>1, NextDotMoves
  <1>3. NextDot(NextDot(Beam)) \in BeamType
    BY <1>2, NextDotMoves
  <1>4. Beam' = IF SkipsDot(NextDot(Beam)) THEN NextDot(NextDot(Beam)) ELSE NextDot(Beam)
    BY <1>2, <1>3 DEF PpuStep, Beam, BeamType
  <1> QED
    BY <1>1, <1>2, <1>3, <1>4 DEF PpuStep, DotsTaken, sysVars

LEMMA TypeStep == TypeOK /\ [Next]_vars => TypeOK'
  <1> SUFFICES ASSUME TypeOK, [Next]_vars PROVE TypeOK'
    OBVIOUS
  <1>1. ASSUME NEW n \in StepSizes, Step(n) PROVE TypeOK'
    BY <1>1, CycleAssumption, ClockAssumption
       DEF TypeOK, Step, cpuVars, ppuVars, beam
  <1>2. CASE CpuStep
    <2>1. cpuCycle' \in Nat
      <3>1. PICK c \in 0 .. MaxCycles : cpuCycle' = cpuCycle + 3 * c
        BY <1>2, CpuStepTakes
      <3>2. MaxCycles \in Nat /\ cpuCycle \in Nat
        BY CycleAssumption DEF TypeOK
      <3> QED
        BY <3>1, <3>2
    <2> QED
      BY <1>2, <2>1, CpuStepTakes, CpuStepFlags DEF TypeOK
  <1>3. CASE CpuReturns \/ PpuReturns
    BY <1>3 DEF TypeOK, CpuReturns, PpuReturns, cpuVars, ppuVars, beam
  <1>4. CASE PpuStep
    <2>1. /\ ppuCycle' \in Nat /\ dot' \in 0 .. Dots - 1
          /\ scanline' \in 0 .. Lines - 1 /\ frame' \in Nat
      BY <1>4, PpuStepMoves DEF TypeOK, Beam, BeamType
    <2>2. stop' \in BOOLEAN /\ vblank' \in BOOLEAN /\ nmiPending' \in BOOLEAN
      BY <1>4 DEF PpuStep, TypeOK
    <2> QED
      BY <1>4, <2>1, <2>2, PpuStepMoves DEF TypeOK
  <1>5. CASE AtBound \/ UNCHANGED vars
    BY <1>5 DEF TypeOK, AtBound, vars, sysVars, cpuVars, ppuVars, beam
  <1> QED
    BY <1>1, <1>2, <1>3, <1>4, <1>5 DEF Next

(* Every variable keeps its range: the clocks stay natural numbers and the *)
(* beam stays on the screen.                                               *)
THEOREM TypeCorrect == Spec => []TypeOK
  BY TypeInit, TypeStep, PTL DEF Spec

-----------------------------------------------------------------------------
(* The clocks. *)

(* Behind(c): clock c has not reached the master clock yet, but it had     *)
(* reached what the master clock was before the running step() moved it.   *)
NotTooFarBehind(c) == \E n \in StepSizes : c >= master - n

(* The inductive invariant.  ClocksInStep alone says nothing while step()  *)
(* is running; what carries it is that the CPU phase ends with the CPU at  *)
(* the master clock or past it, the PPU phase with the PPU there, and that *)
(* neither moves once it is there.                                         *)
SyncInv ==
    /\ ppuCycle <= cpuCycle + 1 /\ ppuCycle <= master + 1
    /\ cpuCycle < master + 3 * MaxCycles
    /\ ~stop => CASE phase = "idle" -> cpuCycle >= master /\ ppuCycle >= master
                  [] phase = "cpu" -> /\ NotTooFarBehind(cpuCycle)
                                      /\ NotTooFarBehind(ppuCycle)
                  [] phase = "ppu" -> cpuCycle >= master /\ NotTooFarBehind(ppuCycle)

LEMMA SyncInit == Init => SyncInv
  BY CycleAssumption DEF Init, SyncInv

LEMMA SyncStep == TypeOK /\ SyncInv /\ [Next]_vars => SyncInv'
  <1> SUFFICES ASSUME TypeOK, SyncInv, [Next]_vars PROVE SyncInv'
    OBVIOUS
  <1> USE DEF TypeOK
  <1>1. ASSUME NEW n \in StepSizes, Step(n) PROVE SyncInv'
    <2>1. n \in Nat /\ n >= 1 /\ MaxCycles \in Nat
      BY CycleAssumption
    <2>2. /\ phase = "idle" /\ phase' = "cpu" /\ master' = master + n
          /\ UNCHANGED <<stop, cpuCycle, ppuCycle>>
      BY <1>1 DEF Step, cpuVars, ppuVars, beam
    <2>3. ~stop => cpuCycle' >= master' - n /\ ppuCycle' >= master' - n
      BY <2>1, <2>2 DEF SyncInv
    <2> QED
      BY <2>1, <2>2, <2>3 DEF SyncInv, NotTooFarBehind
  <1>2. CASE CpuStep
    <2>1. PICK c \in 0 .. MaxCycles : cpuCycle' = cpuCycle + 3 * c
      BY <1>2, CpuStepTakes
    <2>2. /\ phase = "cpu" /\ cpuCycle < master /\ ~stop
          /\ UNCHANGED <<phase, master, ppuCycle>>
      BY <1>2, CpuStepTakes DEF CpuRuns
    <2>3. cpuCycle' >= cpuCycle /\ cpuCycle' < master + 3 * MaxCycles
      BY <2>1, <2>2, CycleAssumption
    <2>4. ppuCycle' <= cpuCycle' + 1 /\ ppuCycle' <= master' + 1
      BY <2>1, <2>2, <2>3, CycleAssumption DEF SyncInv
    <2>5. NotTooFarBehind(cpuCycle)' /\ NotTooFarBehind(ppuCycle)'
      <3>1. PICK n \in StepSizes : cpuCycle >= master - n
        BY <2>2 DEF SyncInv, NotTooFarBehind
      <3>2. cpuCycle' >= master' - n
        BY <2>1, <2>2, <2>3, <3>1, CycleAssumption
      <3> QED
        BY <2>2, <3>2 DEF SyncInv, NotTooFarBehind
    <2> QED
      BY <2>2, <2>3, <2>4, <2>5 DEF SyncInv
  <1>3. CASE CpuReturns
    BY <1>3 DEF SyncInv, NotTooFarBehind, CpuReturns, CpuRuns, cpuVars, ppuVars, beam
  <1>4. CASE PpuReturns
    BY <1>4 DEF SyncInv, NotTooFarBehind, PpuReturns, PpuRuns, cpuVars, ppuVars, beam
  <1>5. CASE PpuStep
    <2>1. /\ phase = "ppu" /\ ppuCycle < master /\ ~stop
          /\ UNCHANGED <<phase, master, cpuCycle>>
          /\ ppuCycle' \in {ppuCycle + 1, ppuCycle + 2}
      BY <1>5, PpuStepMoves DEF PpuRuns
    <2>2. PICK n \in StepSizes : ppuCycle >= master - n
      BY <2>1 DEF SyncInv, NotTooFarBehind
    <2>3. ppuCycle' >= master' - n
      BY <2>1, <2>2, CycleAssumption
    <2>4. cpuCycle >= master
      BY <2>1 DEF SyncInv
    <2> QED
      BY <2>1, <2>3, <2>4 DEF SyncInv, NotTooFarBehind
  <1>6. CASE AtBound \/ UNCHANGED vars
    BY <1>6 DEF SyncInv, NotTooFarBehind, AtBound, vars, sysVars, cpuVars, ppuVars, beam
  <1> QED
    BY <1>1, <1>2, <1>3, <1>4, <1>5, <1>6 DEF Next

LEMMA Sync == Spec => []SyncInv
  BY SyncInit, SyncStep, TypeCorrect, PTL DEF Spec

(* When step() has returned, no component is behind the master clock, the  *)
(* PPU is at most one dot ahead and the CPU less than its longest          *)
(* operation (nes_system::step).                                           *)
THEOREM ClocksStayInStep == Spec => []ClocksInStep
  <1>1. TypeOK /\ SyncInv => ClocksInStep
    BY CycleAssumption DEF TypeOK, SyncInv, ClocksInStep
  <1> QED
    BY <1>1, TypeCorrect, Sync, PTL

(* An instruction never sees a PPU that is a whole step() behind it or     *)
(* more than the skipped dot ahead of it (nes_cpu::step_to).               *)
THEOREM PpuIsFresh == Spec => []PpuFreshForCpu
  <1>1. TypeOK /\ SyncInv => PpuFreshForCpu
    <2> SUFFICES ASSUME TypeOK, SyncInv, CpuRuns
                 PROVE  \E n \in StepSizes : ppuCycle - cpuCycle \in (1 - n) .. 1
      BY DEF PpuFreshForCpu
    <2>1. PICK n \in StepSizes : ppuCycle >= master - n
      BY DEF CpuRuns, SyncInv, NotTooFarBehind, TypeOK
    <2>2. ppuCycle - cpuCycle >= 1 - n /\ ppuCycle - cpuCycle <= 1
      BY <2>1, CycleAssumption DEF CpuRuns, SyncInv, TypeOK
    <2> QED
      BY <2>1, <2>2, CycleAssumption DEF TypeOK
  <1> QED
    BY <1>1, TypeCorrect, Sync, PTL

-----------------------------------------------------------------------------
(* The beam and the PPU clock. *)

Elapsed(b) == (b.frame * Lines + b.line) * Dots + b.dot

(* The PPU clock counts the dots the beam has moved, across the line and   *)
(* the frame boundaries.                                                   *)
LEMMA NextDotElapses ==
    ASSUME NEW b \in BeamType
    PROVE  Elapsed(NextDot(b)) = Elapsed(b) + 1
  <1> USE ClockAssumption DEF BeamType, Elapsed
  <1>1. CASE b.dot + 1 < Dots
    BY <1>1 DEF NextDot
  <1>2. CASE b.dot + 1 >= Dots /\ b.line + 1 < Lines
    <2>1. NextDot(b) = [dot |-> 0, line |-> b.line + 1, frame |-> b.frame]
      BY <1>2 DEF NextDot
    <2>2. (b.frame * Lines + (b.line + 1)) * Dots = (b.frame * Lines + b.line) * Dots + Dots
      OBVIOUS
    <2> QED
      BY <1>2, <2>1, <2>2
  <1>3. CASE b.dot + 1 >= Dots /\ b.line + 1 >= Lines
    <2>1. NextDot(b) = [dot |-> 0, line |-> 0, frame |-> b.frame + 1]
      BY <1>3 DEF NextDot
    <2>2. b.line = Lines - 1 /\ b.dot = Dots - 1
      BY <1>3
    <2>3. (b.frame + 1) * Lines = b.frame * Lines + b.line + 1
      BY <2>2
    <2>4. (b.frame * Lines + b.line + 1) * Dots = (b.frame * Lines + b.line) * Dots + Dots
      OBVIOUS
    <2> QED
      BY <2>1, <2>2, <2>3, <2>4
  <1> QED
    BY <1>1, <1>2, <1>3

LEMMA FrameClockStep == TypeOK /\ FrameClock /\ [Next]_vars => FrameClock'
  <1> SUFFICES ASSUME TypeOK, FrameClock, [Next]_vars PROVE FrameClock'
    OBVIOUS
  <1>1. FrameClock <=> ppuCycle = Elapsed(Beam)
    BY DEF FrameClock, Elapsed, Beam
  <1>2. FrameClock' <=> ppuCycle' = Elapsed(Beam')
    BY DEF FrameClock, Elapsed, Beam
  <1>3. ASSUME UNCHANGED <<ppuCycle, dot, scanline, frame>> PROVE FrameClock'
    BY <1>3 DEF FrameClock
  <1>4. CASE PpuStep
    <2>1. CASE Beam' = NextDot(Beam) /\ ppuCycle' = ppuCycle + 1
      BY <1>1, <1>2, <1>4, <2>1, PpuStepMoves, NextDotElapses
    <2>2. CASE Beam' = NextDot(NextDot(Beam)) /\ ppuCycle' = ppuCycle + 2
      <3>1. Elapsed(NextDot(Beam)) = ppuCycle + 1
        BY <1>1, <1>4, PpuStepMoves, NextDotElapses
      <3>2. Elapsed(NextDot(NextDot(Beam))) = ppuCycle + 1 + 1
        BY <1>4, <3>1, PpuStepMoves, NextDotElapses
      <3> QED
        BY <1>2, <2>2, <3>2 DEF TypeOK
    <2> QED
      BY <1>4, <2>1, <2>2, PpuStepMoves
  <1>5. CASE CpuStep
    BY <1>3, <1>5, CpuStepTakes
  <1>6. CASE UNCHANGED ppuVars
    BY <1>3, <1>6 DEF ppuVars, beam
  <1> QED
    BY <1>4, <1>5, <1>6 DEF Next, Step, CpuReturns, PpuReturns, AtBound, vars

(* The frame count, the scanline and the dot are the PPU clock written in  *)
(* base Lines and Dots (nes_ppu::step_ppu).  In particular an odd frame    *)
(* lasts as long as an even one, although the comment at nes_ppu.cpp:544   *)
(* says it skips a cycle.                                                  *)
THEOREM FrameClockHolds == Spec => []FrameClock
  <1>1. Init => FrameClock
    BY ClockAssumption DEF Init, FrameClock
  <1> QED
    BY <1>1, FrameClockStep, TypeCorrect, PTL DEF Spec

-----------------------------------------------------------------------------
(* NMI requests. *)

(* The inductive invariant: while a request is pending the CPU clock is    *)
(* where the request found it, so the PPU, which can not pass it, can not  *)
(* reach the end of the frame (VBlankAssumption).  ppuCycle -              *)
(* Position(Beam) is the PPU clock at the start of this frame.             *)
NmiInv ==
    nmiPending =>
        /\ Position(Beam) >= VBlankStart
        /\ \E n \in StepSizes :
              cpuCycle < ppuCycle - Position(Beam) + VBlankStart + 3 * MaxCycles + n

(* A pending request is served before the last two dots of the frame: the  *)
(* PPU can not pass the CPU, whose clock still is where it was raised.     *)
LEMMA NmiNotLast ==
    ASSUME TypeOK, SyncInv, NmiInv, PpuStep, nmiPending
    PROVE  Position(Beam) < Lines * Dots - 2
  <1>1. ppuCycle < master /\ master <= cpuCycle
    BY PpuStepMoves DEF PpuRuns, SyncInv, TypeOK
  <1>2. PICK n \in StepSizes :
           cpuCycle < ppuCycle - Position(Beam) + VBlankStart + 3 * MaxCycles + n
    BY DEF NmiInv
  <1>3. Position(Beam) \in Nat /\ VBlankStart \in Nat /\ Lines * Dots \in Nat
    <2>1. Beam \in BeamType
      BY PpuStepMoves
    <2>2. \A c \in BeamType : Position(c) \in Nat
      BY ClockAssumption DEF BeamType, Position
    <2>3. VBlankStart \in Nat /\ Lines * Dots \in Nat
      BY ClockAssumption DEF VBlankStart
    <2> QED
      BY <2>1, <2>2, <2>3
  <1>4. n \in Nat /\ 3 * MaxCycles \in Nat /\ VBlankStart + 3 * MaxCycles + n < Lines * Dots
    BY VBlankAssumption, CycleAssumption
  <1> QED
    BY <1>1, <1>2, <1>3, <1>4 DEF TypeOK

LEMMA NmiStep == TypeOK /\ SyncInv /\ NmiInv /\ [Next]_vars => NmiInv'
  <1> SUFFICES ASSUME TypeOK, SyncInv, NmiInv, [Next]_vars, nmiPending'
               PROVE  NmiInv'
    BY DEF NmiInv
  <1>1. ASSUME UNCHANGED <<nmiPending, cpuCycle, ppuCycle, dot, scanline, frame>>
        PROVE  NmiInv'
    BY <1>1 DEF NmiInv, Beam
  <1>2. CASE CpuStep
    BY <1>2, CpuStepTakes
  <1>3. CASE PpuStep
    <2> DEFINE b == NextDot(Beam)
               P(c) == Position(c)
    <2>1. /\ ppuCycle < master /\ master <= cpuCycle /\ cpuCycle' = cpuCycle
          /\ \E n \in StepSizes : ppuCycle >= master - n
          /\ cpuCycle < master + 3 * MaxCycles
      BY <1>3, PpuStepMoves DEF PpuRuns, SyncInv, NotTooFarBehind, TypeOK
    <2>2. /\ Beam \in BeamType /\ b \in BeamType
          /\ P(Beam) \in Nat /\ P(b) \in Nat /\ VBlankStart \in Nat /\ Lines * Dots \in Nat
      <3>1. Beam \in BeamType /\ b \in BeamType
        BY <1>3, PpuStepMoves
      <3>2. \A c \in BeamType : P(c) \in Nat
        BY ClockAssumption DEF BeamType, Position
      <3>3. VBlankStart \in Nat /\ Lines * Dots \in Nat
        BY ClockAssumption DEF VBlankStart
      <3> QED
        BY <3>1, <3>2, <3>3
    <2>3. \A n \in StepSizes :
             n \in Nat /\ 3 * MaxCycles \in Nat /\ VBlankStart + 3 * MaxCycles + n < Lines * Dots
      BY VBlankAssumption, CycleAssumption
    <2>4. CASE nmiPending
      <3>1. PICK n \in StepSizes :
               cpuCycle < ppuCycle - P(Beam) + VBlankStart + 3 * MaxCycles + n
        BY <2>4 DEF NmiInv
      <3>2. P(Beam) < Lines * Dots - 2
        BY <1>3, <2>4, NmiNotLast
      <3>3. P(b) = P(Beam) + 1
        BY <2>2, <3>2, NextDotMoves, LastPosition
      <3>4. ~SkipsDot(b)
        BY <2>2, <3>2, <3>3, LastPosition DEF SkipsDot
      <3>5. Beam' = b /\ ppuCycle' = ppuCycle + 1
        BY <1>3, <3>4, PpuStepMoves
      <3>6. cpuCycle' < ppuCycle' - P(b) + VBlankStart + 3 * MaxCycles + n
        BY <2>1, <2>2, <2>3, <3>1, <3>3, <3>5 DEF TypeOK
      <3>7. Position(b) >= VBlankStart
        BY <2>2, <2>4, <3>3 DEF NmiInv
      <3>8. Position(Beam)' = P(b)
        BY <3>5
      <3> QED
        BY <3>6, <3>7, <3>8 DEF NmiInv
    <2>5. CASE ~nmiPending
      <3>1. AtVBlankStart(b)
        BY <1>3, <2>5 DEF PpuStep
      <3>2. P(b) = VBlankStart
        BY <3>1 DEF AtVBlankStart, Position, VBlankStart
      <3>3. ~SkipsDot(b)
        BY <3>1, ClockAssumption DEF SkipsDot, AtVBlankStart
      <3>4. Beam' = b /\ ppuCycle' = ppuCycle + 1
        BY <1>3, <3>3, PpuStepMoves
      <3>5. PICK n \in StepSizes : ppuCycle >= master - n
        BY <2>1
      <3>6. cpuCycle' < ppuCycle' - P(b) + VBlankStart + 3 * MaxCycles + n
        BY <2>1, <2>2, <2>3, <3>2, <3>4, <3>5 DEF TypeOK
      <3>7. Position(Beam)' = P(b)
        BY <3>4
      <3> QED
        BY <2>2, <3>2, <3>6, <3>7 DEF NmiInv
    <2> QED
      BY <2>4, <2>5
  <1> QED
    BY <1>1, <1>2, <1>3
       DEF Next, Step, CpuReturns, PpuReturns, AtBound, vars, sysVars, cpuVars, ppuVars, beam

LEMMA NmiHolds == Spec => []NmiInv
  <1>1. Init => NmiInv
    BY DEF Init, NmiInv
  <1> QED
    BY <1>1, NmiStep, Sync, TypeCorrect, PTL DEF Spec

(* A requested NMI is served before the vblank that raised it is over, so  *)
(* the request of one vblank is never merged with that of the next.        *)
THEOREM NmiInTime == Spec => []NmiServedInVBlank
  <1>1. NmiInv => NmiServedInVBlank
    BY DEF NmiInv, NmiServedInVBlank
  <1> QED
    BY <1>1, NmiHolds, PTL

-----------------------------------------------------------------------------
(* The length of an OAM DMA. *)

CpuCycleInv == cpuCycle % 3 = 0

LEMMA CpuCycleStep == TypeOK /\ CpuCycleInv /\ [Next]_vars => CpuCycleInv'
  <1> SUFFICES ASSUME TypeOK, CpuCycleInv, [Next]_vars PROVE CpuCycleInv'
    OBVIOUS
  <1>1. ASSUME cpuCycle' = cpuCycle PROVE CpuCycleInv'
    BY <1>1 DEF CpuCycleInv
  <1>2. CASE CpuStep
    <2>1. PICK c \in 0 .. MaxCycles : cpuCycle' = cpuCycle + 3 * c
      BY <1>2, CpuStepTakes
    <2> QED
      BY <2>1, CycleAssumption DEF CpuCycleInv, TypeOK
  <1>3. CASE PpuStep
    BY <1>1, <1>3 DEF PpuStep
  <1> QED
    BY <1>1, <1>2, <1>3 DEF Next, Step, CpuReturns, PpuReturns, AtBound, vars, cpuVars

(* The CPU leaves an OAM DMA on an even cycle: the parity of the clock in  *)
(* dots is that of the clock in cycles (nes_cpu::OAMDMA).                  *)
THEOREM DmaEndsEven == Spec => DmaEndsOnEvenCycle
  <1>1. Init => CpuCycleInv
    BY DEF Init, CpuCycleInv
  <1>2. TypeOK /\ CpuCycleInv /\ [Next]_vars
           => [dmaPending /\ ~dmaPending' => cpuCycle' % 6 = 0]_vars
    <2> SUFFICES ASSUME TypeOK, CpuCycleInv, [Next]_vars, dmaPending, ~dmaPending'
                 PROVE  cpuCycle' % 6 = 0
      OBVIOUS
    <2>1. CpuStep
      BY DEF Next, Step, CpuReturns, PpuReturns, AtBound, PpuStep, vars, cpuVars
    <2>2. cpuCycle' = cpuCycle + 3 * DmaLength
      BY <2>1, CpuStepTakes
    <2>3. cpuCycle % 3 = 0 /\ cpuCycle \in Nat /\ DmaCycles \in Nat /\ DmaCycles % 2 = 1
      BY CycleAssumption DEF CpuCycleInv, TypeOK
    <2>4. CASE cpuCycle % 2 = 0
      BY <2>2, <2>3, <2>4 DEF DmaLength
    <2>5. CASE cpuCycle % 2 # 0
      BY <2>2, <2>3, <2>5 DEF DmaLength
    <2> QED
      BY <2>4, <2>5
  <1> QED
    BY <1>1, <1>2, CpuCycleStep, TypeCorrect, PTL DEF Spec, DmaEndsOnEvenCycle

-----------------------------------------------------------------------------
(* The vblank flag. *)

InWindow(b) ==
    /\ b.line > VBlankLine \/ (b.line = VBlankLine /\ b.dot >= 1)
    /\ b.line < Lines - 2 \/ (b.line = Lines - 2 /\ b.dot <= Dots - EarlyEnd)

LEMMA NextDotInWindow ==
    ASSUME NEW b \in BeamType, InWindow(b), ~AtVBlankEnd(NextDot(b))
    PROVE  InWindow(NextDot(b)) /\ ~SkipsDot(NextDot(b))
  <1> USE ClockAssumption DEF BeamType
  <1>1. CASE b.dot + 1 < Dots
    BY <1>1 DEF NextDot, InWindow, AtVBlankEnd, SkipsDot
  <1>2. CASE b.dot + 1 >= Dots /\ b.line + 1 < Lines
    BY <1>2 DEF NextDot, InWindow, AtVBlankEnd, SkipsDot
  <1>3. CASE b.dot + 1 >= Dots /\ b.line + 1 >= Lines
    BY <1>3 DEF InWindow
  <1> QED
    BY <1>1, <1>2, <1>3

LEMMA WindowStep == TypeOK /\ VBlankWindow /\ [Next]_vars => VBlankWindow'
  <1> SUFFICES ASSUME TypeOK, VBlankWindow, [Next]_vars, vblank'
               PROVE  InWindow(Beam')
    BY DEF VBlankWindow, InWindow, Beam
  <1>1. vblank => InWindow(Beam)
    BY DEF VBlankWindow, InWindow, Beam
  <1>2. CASE CpuStep
    BY <1>1, <1>2, CpuStepTakes, CpuStepFlags DEF Beam, TypeOK
  <1>3. CASE PpuStep
    <2> DEFINE b == NextDot(Beam)
    <2>1. b \in BeamType /\ (vblank \/ AtVBlankStart(b)) /\ ~AtVBlankEnd(b)
      BY <1>3, PpuStepMoves DEF PpuStep
    <2>2. CASE AtVBlankStart(b)
      <3>1. InWindow(b) /\ ~SkipsDot(b)
        BY <2>2, ClockAssumption DEF AtVBlankStart, InWindow, SkipsDot
      <3> QED
        BY <1>3, <3>1, PpuStepMoves
    <2>3. CASE vblank
      BY <1>1, <1>3, <2>1, <2>3, NextDotInWindow, PpuStepMoves
    <2> QED
      BY <2>1, <2>2, <2>3
  <1>4. CASE UNCHANGED ppuVars
    BY <1>1, <1>4 DEF ppuVars, beam, Beam
  <1> QED
    BY <1>2, <1>3, <1>4 DEF Next, Step, CpuReturns, PpuReturns, AtBound, vars

(* $2002 shows vblank from (241, 1) to the early end of vblank and at no   *)
(* other dot, whatever the program reads and when (nes_ppu::step_to).      *)
THEOREM VBlankIsWhereItBelongs == Spec => []VBlankWindow
  <1>1. Init => VBlankWindow
    BY DEF Init, VBlankWindow
  <1> QED
    BY <1>1, WindowStep, TypeCorrect, PTL DEF Spec

-----------------------------------------------------------------------------
(* Stops. *)

(* Once a stop is requested nothing moves any more but the returns of the  *)
(* loops and the master clock (nes_cpu::step_to, nes_ppu::step_to).        *)
THEOREM StopsAreFinal == Spec => StopIsFinal
  <1>1. TypeOK /\ [Next]_vars => [stop => UNCHANGED <<stop, cpuVars, ppuVars>>]_vars
    <2> SUFFICES ASSUME TypeOK, Next, stop
                 PROVE  UNCHANGED <<stop, cpuVars, ppuVars>>
      BY DEF vars
    <2>1. ~CpuStep
      BY CpuStepTakes DEF CpuRuns
    <2>2. ~PpuStep
      BY DEF PpuStep, PpuRuns
    <2> QED
      BY <2>1, <2>2 DEF Next, Step, CpuReturns, PpuReturns, AtBound, vars
  <1> QED
    BY <1>1, TypeCorrect, PTL DEF Spec, StopIsFinal

-----------------------------------------------------------------------------
(* The system implements Console. *)

(* The vblank flag is only ever seen in the vblank part of the frame, and  *)
(* vblank begins at one dot.                                               *)
LEMMA VBlankPart ==
    ASSUME NEW b \in BeamType
    PROVE  /\ Position(b) \in Nat /\ VBlankStart \in Nat \ {0}
           /\ InWindow(b) => Position(b) >= VBlankStart
           /\ Position(b) = VBlankStart <=> AtVBlankStart(b)
           /\ b.line = Lines - 1 => Position(b) >= VBlankStart
  <1> USE ClockAssumption DEF BeamType, Position, VBlankStart
  <1>1. Position(b) \in Nat /\ VBlankStart \in Nat \ {0}
    OBVIOUS
  <1>2. CASE b.line < VBlankLine
    <2>1. b.line + 1 <= VBlankLine
      BY <1>2
    <2>2. (b.line + 1) * Dots <= VBlankLine * Dots
      BY <2>1
    <2>3. (b.line + 1) * Dots = b.line * Dots + Dots
      OBVIOUS
    <2>4. Position(b) < VBlankStart
      BY <2>2, <2>3
    <2> QED
      BY <1>1, <1>2, <2>4 DEF InWindow, AtVBlankStart
  <1>3. CASE b.line = VBlankLine
    BY <1>1, <1>3 DEF InWindow, AtVBlankStart
  <1>4. CASE b.line > VBlankLine
    <2>1. VBlankLine + 1 <= b.line
      BY <1>4
    <2>2. (VBlankLine + 1) * Dots <= b.line * Dots
      BY <2>1
    <2>3. (VBlankLine + 1) * Dots = VBlankLine * Dots + Dots
      OBVIOUS
    <2>4. Position(b) > VBlankStart
      BY <2>2, <2>3
    <2> QED
      BY <1>1, <1>4, <2>4 DEF InWindow, AtVBlankStart
  <1> QED
    BY <1>2, <1>3, <1>4

LEMMA ConsoleInit == Init => Machine!Init
  <1> SUFFICES ASSUME Init PROVE Machine!Init
    OBVIOUS
  <1>1. VBlankStart \in Nat \ {0} /\ Position(Beam) = 0
    BY ClockAssumption DEF Init, VBlankStart, Position, Beam
  <1>2. ~(Position(Beam) >= VBlankStart)
    BY <1>1
  <1> QED
    BY <1>2 DEF Init, Machine!Init

(* An instruction takes the NMI, or lowers the flag, or neither.           *)
LEMMA ConsoleCpuStep ==
    ASSUME TypeOK, NmiInv, VBlankWindow, CpuStep
    PROVE  [Machine!Next]_Machine!vars
  <1>1. /\ ~stop /\ stop' \in BOOLEAN /\ nmiPending' = FALSE /\ vblank' \in {vblank, FALSE}
        /\ UNCHANGED <<dot, scanline, frame, stopAfter>>
    BY CpuStepTakes, CpuStepFlags DEF CpuRuns, TypeOK
  <1>2. UNCHANGED Position(Beam)
    BY <1>1 DEF Position, Beam
  <1>3. CASE nmiPending
    <2>1. vblank' = vblank
      BY <1>3 DEF CpuStep, NMI, OAMDMA, BRK, Plain, WritePPUCTRL, ReadPPUSTATUS,
                  WriteOAMDMA, SpinBranch, Fetches, ppuVars
    <2>2. Position(Beam) >= VBlankStart
      BY <1>3 DEF NmiInv
    <2>3. Machine!TakeNmi
      BY <1>1, <1>2, <1>3, <2>1, <2>2 DEF Machine!TakeNmi
    <2> QED
      BY <2>3 DEF Machine!Next
  <1>4. CASE ~nmiPending /\ vblank' # vblank
    <2>1. vblank /\ ~vblank' /\ vblank' = FALSE
      BY <1>1, <1>4 DEF TypeOK
    <2>2. Beam \in BeamType /\ InWindow(Beam)
      BY <2>1 DEF VBlankWindow, InWindow, Beam, BeamType, TypeOK
    <2>3. Position(Beam) >= VBlankStart
      BY <2>2, VBlankPart
    <2>4. Machine!LowerFlag
      BY <1>1, <1>2, <1>4, <2>1, <2>3 DEF Machine!LowerFlag, TypeOK
    <2> QED
      BY <2>4 DEF Machine!Next
  <1>5. CASE ~nmiPending /\ vblank' = vblank /\ stop'
    <2>1. Machine!Halt
      BY <1>1, <1>2, <1>5 DEF Machine!Halt, TypeOK
    <2> QED
      BY <2>1 DEF Machine!Next
  <1>6. CASE ~nmiPending /\ vblank' = vblank /\ ~stop'
    BY <1>1, <1>2, <1>6 DEF Machine!vars, TypeOK
  <1> QED
    BY <1>3, <1>4, <1>5, <1>6

(* A dot begins vblank, ends a frame, lowers the flag or shows nothing.    *)
LEMMA ConsolePpuStep ==
    ASSUME TypeOK, SyncInv, NmiInv, VBlankWindow, PpuStep
    PROVE  [Machine!Next]_Machine!vars
  <1> DEFINE b == NextDot(Beam)
             late == Position(Beam) >= VBlankStart
  <1>1. /\ Beam \in BeamType /\ b \in BeamType /\ Beam' \in BeamType
        /\ ~stop /\ stopAfter' = stopAfter
    BY PpuStepMoves DEF PpuRuns
  <1>2. vblank => InWindow(Beam) /\ late
    BY <1>1, VBlankPart DEF VBlankWindow, InWindow, Beam
  <1>3. nmiPending => late
    BY DEF NmiInv
  <1>4. /\ vblank' = ((vblank \/ AtVBlankStart(b)) /\ ~AtVBlankEnd(b))
        /\ nmiPending' = (nmiPending \/ (AtVBlankStart(b) /\ vblankNmi))
        /\ stop' = (stop \/ (frame' # frame /\ AutoStop(frame')))
    <2>1. frame' = Beam'.frame
      BY DEF Beam
    <2> QED
      BY <2>1 DEF PpuStep
  <1>5. CASE AtVBlankStart(b)
    <2>1. ~SkipsDot(b) /\ ~AtVBlankEnd(b) /\ b.line # 0
      BY <1>5, ClockAssumption DEF AtVBlankStart, SkipsDot, AtVBlankEnd
    <2>2. Beam' = b
      BY <2>1, PpuStepMoves
    <2>3. b.frame = Beam.frame /\ Position(b) = Position(Beam) + 1
      BY <1>1, <2>1, NextDotMoves
    <2>4. ~late /\ (Position(Beam) >= VBlankStart)'
      BY <1>1, <1>5, <2>2, <2>3, VBlankPart
    <2>5. frame' = frame
      BY <2>2, <2>3 DEF Beam
    <2>6. ~nmiPending /\ nmiPending' \in BOOLEAN /\ vblank' = TRUE /\ vblank = FALSE
      BY <1>2, <1>3, <1>4, <1>5, <2>1, <2>4 DEF TypeOK
    <2>7. stop' = stop
      BY <1>4, <2>5 DEF TypeOK
    <2>8. Machine!BeginVBlank
      BY <1>1, <2>4, <2>5, <2>6, <2>7 DEF Machine!BeginVBlank
    <2> QED
      BY <2>8 DEF Machine!Next
  <1>6. CASE ~AtVBlankStart(b) /\ frame' = frame
    <2>1. Beam' = b /\ Position(b) = Position(Beam) + 1
      <3>1. Beam.frame = frame /\ Beam'.frame = frame' /\ frame \in Nat
        BY DEF Beam, TypeOK
      <3>2. CASE Beam' = b
        BY <1>1, <1>6, <3>1, <3>2, NextDotMoves
      <3>3. CASE SkipsDot(b) /\ Beam' = NextDot(b)
        <4>1. b.dot = Dots - 1 /\ b.line = Lines - 1
          BY <3>3 DEF SkipsDot
        <4>2. NextDot(b) = [dot |-> 0, line |-> 0, frame |-> b.frame + 1]
          BY <1>1, <4>1, ClockAssumption DEF NextDot, BeamType
        <4>3. b.frame \in Nat /\ b.frame >= frame
          BY <1>1, <3>1, NextDotMoves DEF BeamType
        <4> QED
          BY <1>6, <3>1, <3>3, <4>2, <4>3
      <3> QED
        BY <3>2, <3>3, PpuStepMoves
    <2>2. late <=> (Position(Beam) >= VBlankStart)'
      BY <1>1, <1>6, <2>1, VBlankPart
    <2>3. stop' = stop /\ nmiPending' = nmiPending
      BY <1>4, <1>6 DEF TypeOK
    <2>4. vblank' = (vblank /\ ~AtVBlankEnd(b))
      BY <1>4, <1>6
    <2>5. CASE vblank /\ AtVBlankEnd(b)
      <3>1. Machine!LowerFlag
        BY <1>1, <1>2, <1>6, <2>2, <2>3, <2>4, <2>5 DEF Machine!LowerFlag, TypeOK
      <3> QED
        BY <3>1 DEF Machine!Next
    <2>6. CASE ~(vblank /\ AtVBlankEnd(b))
      <3>1. vblank' = vblank
        BY <2>4, <2>6 DEF TypeOK
      <3> QED
        BY <1>1, <1>6, <2>2, <2>3, <3>1 DEF Machine!vars
    <2> QED
      BY <2>5, <2>6
  <1>7. CASE ~AtVBlankStart(b) /\ frame' # frame
    <2>1. /\ Beam.line = Lines - 1 /\ Position(Beam) >= Lines * Dots - 2
          /\ Position(Beam') = 0 /\ frame' = frame + 1
      <3>1. Beam.frame = frame /\ Beam'.frame = frame' /\ frame \in Nat
        BY DEF Beam, TypeOK
      <3>2. Lines * Dots \in Nat /\ Lines - 1 \in Nat
        BY ClockAssumption
      <3>3. CASE Beam' = b
        <4>1. /\ b.frame = Beam.frame + 1 /\ b.dot = 0 /\ b.line = 0
              /\ Beam.line = Lines - 1 /\ Beam.dot = Dots - 1
          BY <1>1, <1>7, <3>1, <3>3, NextDotMoves
        <4>2. Position(Beam) = Lines * Dots - 1
          BY <1>1, <4>1, LastPosition
        <4>3. Position(b) = 0
          BY <4>1, ClockAssumption DEF Position
        <4> QED
          BY <3>1, <3>2, <3>3, <4>1, <4>2, <4>3
      <3>4. CASE SkipsDot(b) /\ Beam' = NextDot(b)
        <4>1. b.dot = Dots - 1 /\ b.line = Lines - 1
          BY <3>4 DEF SkipsDot
        <4>2. NextDot(b) = [dot |-> 0, line |-> 0, frame |-> b.frame + 1]
          BY <1>1, <4>1, ClockAssumption DEF NextDot, BeamType
        <4>3. Position(NextDot(b)) = 0
          BY <4>2, ClockAssumption DEF Position
        <4>4. b.frame = Beam.frame /\ Position(b) = Position(Beam) + 1
          BY <1>1, <4>1, NextDotMoves, ClockAssumption
        <4>5. Position(b) = Lines * Dots - 1
          BY <1>1, <4>1, LastPosition
        <4>6. Beam.line = Lines - 1
          <5>1. CASE Beam.dot + 1 < Dots
            BY <1>1, <4>1, <5>1 DEF NextDot, BeamType
          <5>2. CASE ~(Beam.dot + 1 < Dots)
            BY <1>1, <4>1, <5>2, ClockAssumption DEF NextDot, BeamType
          <5> QED
            BY <5>1, <5>2
        <4>7. Position(Beam) \in Nat
          BY <1>1, VBlankPart
        <4>8. Position(Beam) >= Lines * Dots - 2
          BY <3>2, <4>4, <4>5, <4>7
        <4>9. Beam'.frame = frame + 1
          BY <3>1, <3>4, <4>2, <4>4
        <4> QED
          BY <3>1, <3>4, <4>3, <4>6, <4>8, <4>9
      <3> QED
        BY <3>3, <3>4, PpuStepMoves
    <2>2. late /\ ~((Position(Beam) >= VBlankStart)')
      <3>1. late
        BY <1>1, <2>1, VBlankPart
      <3>2. VBlankStart \in Nat \ {0}
        BY <1>1, VBlankPart
      <3> QED
        BY <2>1, <3>1, <3>2
    <2>3. ~vblank /\ ~nmiPending
      <3>1. ~vblank
        BY <1>1, <1>2, <2>1, ClockAssumption DEF InWindow
      <3>2. Position(Beam) \in Nat /\ Lines * Dots \in Nat
        BY <1>1, VBlankPart, ClockAssumption
      <3>3. ~nmiPending
        BY <2>1, <3>2, NmiNotLast
      <3> QED
        BY <3>1, <3>3
    <2>4. vblank' = vblank /\ nmiPending' = nmiPending
      BY <1>4, <1>7, <2>3 DEF TypeOK
    <2>5. stop' = (stopAfter # NoAutoStop /\ frame + 1 > stopAfter)
      BY <1>1, <1>4, <1>7, <2>1 DEF AutoStop
    <2>6. Machine!EndFrame
      BY <1>1, <2>1, <2>2, <2>3, <2>4, <2>5 DEF Machine!EndFrame
    <2> QED
      BY <2>6 DEF Machine!Next
  <1> QED
    BY <1>5, <1>6, <1>7

LEMMA ConsoleStep ==
    TypeOK /\ SyncInv /\ NmiInv /\ VBlankWindow /\ [Next]_vars => [Machine!Next]_Machine!vars
  <1> SUFFICES ASSUME TypeOK, SyncInv, NmiInv, VBlankWindow, [Next]_vars
               PROVE  [Machine!Next]_Machine!vars
    OBVIOUS
  <1>1. CASE CpuStep
    BY <1>1, ConsoleCpuStep
  <1>2. CASE PpuStep
    BY <1>2, ConsolePpuStep
  <1>3. CASE UNCHANGED <<stop, cpuVars, ppuVars>>
    <2>1. UNCHANGED <<stop, nmiPending, vblank, frame, stopAfter, dot, scanline>>
      BY <1>3 DEF cpuVars, ppuVars, beam
    <2>2. UNCHANGED Position(Beam)
      BY <2>1 DEF Position, Beam
    <2> QED
      BY <2>1, <2>2 DEF Machine!vars
  <1> QED
    BY <1>1, <1>2, <1>3 DEF Next, Step, CpuReturns, PpuReturns, AtBound, vars

(* Although the CPU runs ahead and requests are served later, a program    *)
(* sees one line of time: one vblank in a frame, at most one NMI in a      *)
(* vblank, nothing left over at the end of a frame, and a limited run      *)
(* that halts when its last frame ends (nes_system::step and all it calls).*)
THEOREM SystemIsAConsole == Spec => ConsoleKept
  BY ConsoleInit, ConsoleStep, TypeCorrect, Sync, NmiHolds, VBlankIsWhereItBelongs, PTL
     DEF Spec, ConsoleKept, Machine!Spec

-----------------------------------------------------------------------------
(* How long step() takes, and how long a limited run. *)

(* How far clock c is behind master clock m, once no stop (s) is requested. *)
Left(m, c, s) == IF c < m /\ ~s THEN m - c ELSE 0

LEMMA LeftType == ASSUME NEW m \in Nat, NEW c \in Nat, NEW s PROVE Left(m, c, s) \in Nat
  BY DEF Left

(* A component that steps comes nearer, and so does a stop that is asked   *)
(* for meanwhile.                                                          *)
LEMMA LeftLess ==
    ASSUME NEW m \in Nat, NEW c \in Nat, NEW d \in Nat, NEW s \in BOOLEAN, NEW t \in BOOLEAN,
           c < m, ~s, t \/ d > c
    PROVE  Left(m, d, t) < Left(m, c, s)
  <1>1. Left(m, c, s) = m - c
    BY DEF Left
  <1>2. CASE t
    <2>1. Left(m, d, t) = 0
      BY <1>2 DEF Left
    <2> QED
      BY <1>1, <2>1
  <1>3. CASE d > c
    <2>1. Left(m, d, t) = m - d \/ Left(m, d, t) = 0
      BY DEF Left
    <2> QED
      BY <1>1, <1>3, <2>1
  <1> QED
    BY <1>2, <1>3

LEMMA LeftAfterStop ==
    ASSUME NEW m \in Nat, NEW c \in Nat, NEW s \in BOOLEAN, NEW t \in BOOLEAN, ~s
    PROVE  Left(m, c, t) <= Left(m, c, s)
  <1>1. CASE t
    <2>1. Left(m, c, t) = 0
      BY <1>1 DEF Left
    <2> QED
      BY <2>1, LeftType
  <1>2. CASE ~t
    BY <1>2, LeftType DEF Left
  <1> QED
    BY <1>1, <1>2

(* No more than so many steps of a component are left of the step() that   *)
(* is running.                                                             *)
Distance ==
    IF phase = "idle" THEN 0
    ELSE IF phase = "cpu" THEN 2 + Left(master, cpuCycle, stop) + Left(master, ppuCycle, stop)
    ELSE 1 + Left(master, ppuCycle, stop)

(* An instruction takes time or stops the system.                          *)
LEMMA CpuStepTakesTime == ASSUME TypeOK, CpuStep PROVE stop' \/ cpuCycle' > cpuCycle
  <1> USE CycleAssumption DEF TypeOK, StepCpu
  <1>1. ASSUME NEW hit \in BOOLEAN, NMI(hit) \/ BRK(hit, NmiCycles) PROVE cpuCycle' > cpuCycle
    <2>1. cpuCycle' = cpuCycle + 3 * NmiCycles
      BY <1>1 DEF NMI, BRK
    <2> QED
      BY <2>1
  <1>2. ASSUME NEW hit \in BOOLEAN, OAMDMA(hit) PROVE cpuCycle' > cpuCycle
    <2>1. cpuCycle' = cpuCycle + 3 * DmaLength /\ DmaLength \in {DmaCycles, DmaCycles + 1}
      BY <1>2 DEF OAMDMA, DmaLength
    <2> QED
      BY <2>1
  <1>3. ASSUME NEW hit \in BOOLEAN, BRK(hit, 0) PROVE stop'
    BY <1>3, Zenon DEF BRK
  <1>4. ASSUME NEW hit \in BOOLEAN, NEW c \in InstrCycles,
               \/ Plain(hit, c)
               \/ \E nmi \in BOOLEAN : WritePPUCTRL(hit, c, nmi)
               \/ ReadPPUSTATUS(hit, c)
               \/ WriteOAMDMA(hit, c)
               \/ SpinBranch(hit, c)
        PROVE  cpuCycle' > cpuCycle
    <2>1. cpuCycle' = cpuCycle + 3 * c
      BY <1>4 DEF Plain, WritePPUCTRL, ReadPPUSTATUS, WriteOAMDMA, SpinBranch, Completes
    <2>2. c \in 1 .. MaxCycles
      OBVIOUS
    <2> QED
      BY <2>1, <2>2
  <1> QED
    BY <1>1, <1>2, <1>3, <1>4 DEF CpuStep

(* step(count) does at most 2 * count steps of its components, and each    *)
(* leaves it fewer to do (the loops of nes_cpu::step_to and                *)
(* nes_ppu::step_to): what StepReturns needs besides that the loops run.   *)
StepIsBounded ==
    [][IF phase = "idle" THEN Distance' <= 2 + 2 * (master' - master)
                         ELSE Distance' < Distance]_vars

THEOREM StepBounded == Spec => StepIsBounded
  <1> DEFINE A == IF phase = "idle" THEN Distance' <= 2 + 2 * (master' - master)
                                    ELSE Distance' < Distance
  <1>1. TypeOK /\ TypeOK' /\ SyncInv /\ [Next]_vars => (A \/ UNCHANGED vars)
    <2> SUFFICES ASSUME TypeOK, TypeOK', SyncInv, Next PROVE A \/ UNCHANGED vars
      OBVIOUS
    <2>1. master \in Nat /\ cpuCycle \in Nat /\ ppuCycle \in Nat /\ stop \in BOOLEAN
      BY ClockAssumption DEF TypeOK
    <2>2. Left(master, cpuCycle, stop) \in Nat /\ Left(master, ppuCycle, stop) \in Nat
      BY <2>1, LeftType
    <2>3. Left(master', cpuCycle', stop') \in Nat /\ Left(master', ppuCycle', stop') \in Nat
      <3>1. master' \in Nat /\ cpuCycle' \in Nat /\ ppuCycle' \in Nat
        BY ClockAssumption DEF TypeOK
      <3> QED
        BY <3>1, LeftType
    <2>4. ASSUME NEW n \in StepSizes, Step(n) PROVE A
      <3>1. /\ phase = "idle" /\ phase' = "cpu" /\ master' = master + n
            /\ UNCHANGED <<stop, cpuCycle, ppuCycle>> /\ n \in Nat
        BY <2>4, CycleAssumption DEF Step, cpuVars, ppuVars, beam
      <3>2. ~stop => cpuCycle >= master /\ ppuCycle >= master
        BY <3>1 DEF SyncInv
      <3>3. Left(master', cpuCycle', stop') <= n /\ Left(master', ppuCycle', stop') <= n
        BY <2>1, <3>1, <3>2 DEF Left
      <3>4. Distance' = 2 + Left(master', cpuCycle', stop') + Left(master', ppuCycle', stop')
        BY <3>1 DEF Distance
      <3> QED
        BY <2>1, <2>3, <3>1, <3>3, <3>4
    <2>5. CASE CpuStep
      <3>1. /\ phase = "cpu" /\ cpuCycle < master /\ ~stop
            /\ phase' = phase /\ master' = master /\ ppuCycle' = ppuCycle
            /\ cpuCycle' \in Nat /\ stop' \in BOOLEAN
        BY <2>5, CpuStepTakes DEF CpuRuns, TypeOK
      <3>2. stop' \/ cpuCycle' > cpuCycle
        BY <2>5, CpuStepTakesTime
      <3>3. Left(master', cpuCycle', stop') < Left(master, cpuCycle, stop)
        BY <2>1, <3>1, <3>2, LeftLess
      <3>4. Left(master', ppuCycle', stop') <= Left(master, ppuCycle, stop)
        BY <2>1, <3>1, LeftAfterStop
      <3>5. /\ Distance = 2 + Left(master, cpuCycle, stop) + Left(master, ppuCycle, stop)
            /\ Distance' = 2 + Left(master', cpuCycle', stop') + Left(master', ppuCycle', stop')
        BY <3>1 DEF Distance
      <3> QED
        BY <2>2, <2>3, <3>1, <3>3, <3>4, <3>5
    <2>6. CASE PpuStep
      <3>1. /\ phase = "ppu" /\ ppuCycle < master /\ ~stop
            /\ phase' = phase /\ master' = master
            /\ ppuCycle' > ppuCycle /\ ppuCycle' \in Nat /\ stop' \in BOOLEAN
        BY <2>1, <2>6, PpuStepMoves DEF PpuRuns, TypeOK
      <3>2. Left(master', ppuCycle', stop') < Left(master, ppuCycle, stop)
        BY <2>1, <3>1, LeftLess
      <3>3. Distance = 1 + Left(master, ppuCycle, stop) /\ Distance' = 1 + Left(master', ppuCycle', stop')
        BY <3>1 DEF Distance
      <3> QED
        BY <2>2, <2>3, <3>1, <3>2, <3>3
    <2>7. CASE CpuReturns \/ PpuReturns
      <3>1. /\ (phase = "cpu" /\ phase' = "ppu") \/ (phase = "ppu" /\ phase' = "idle")
            /\ UNCHANGED <<master, stop, cpuCycle, ppuCycle>>
        BY <2>7 DEF CpuReturns, PpuReturns, cpuVars, ppuVars, beam
      <3>2. Left(master', ppuCycle', stop') = Left(master, ppuCycle, stop)
        BY <3>1 DEF Left
      <3>3. CASE phase = "cpu" /\ phase' = "ppu"
        BY <2>2, <3>2, <3>3 DEF Distance
      <3>4. CASE phase = "ppu" /\ phase' = "idle"
        BY <2>2, <3>4 DEF Distance
      <3> QED
        BY <3>1, <3>3, <3>4
    <2>8. AtBound => UNCHANGED vars
      BY DEF AtBound
    <2> QED
      BY <2>4, <2>5, <2>6, <2>7, <2>8 DEF Next
  <1>2. StepIsBounded <=> [][A]_vars
    BY DEF StepIsBounded
  <1> HIDE DEF A
  <1>3. TypeOK /\ TypeOK' /\ SyncInv /\ [Next]_vars => [A]_vars
    BY <1>1
  <1> QED
    BY <1>2, <1>3, TypeCorrect, Sync, PTL DEF Spec

(* A run limited to stopAfter frames, counted from 0, has stopped by the   *)
(* time the master clock has counted the dots of those frames              *)
(* (stop_after_frame and step_ppu): what AutoStopHappens needs besides     *)
(* that step() is called.                                                  *)
StopsInTime ==
    stopAfter # NoAutoStop /\ phase = "idle" /\ master >= (stopAfter + 1) * Lines * Dots => stop

(* What carries it: a run that goes on has not passed its last frame.      *)
FrameLimit == stopAfter # NoAutoStop /\ ~stop => frame <= stopAfter

LEMMA FrameLimitStep == TypeOK /\ FrameLimit /\ [Next]_vars => FrameLimit'
  <1> SUFFICES ASSUME TypeOK, FrameLimit, [Next]_vars PROVE FrameLimit'
    OBVIOUS
  <1>1. CASE PpuStep
    <2>1. stopAfter' = stopAfter /\ (stop' <=> stop \/ (frame' # frame /\ AutoStop(frame')))
      BY <1>1 DEF PpuStep
    <2>2. frame' \in Nat /\ frame \in Nat
      BY <1>1, PpuStepMoves DEF TypeOK, Beam, BeamType
    <2>3. stopAfter # NoAutoStop => stopAfter \in Nat
      BY ClockAssumption DEF TypeOK
    <2> QED
      BY <2>1, <2>2, <2>3 DEF FrameLimit, AutoStop
  <1>2. CASE CpuStep
    <2>1. UNCHANGED <<frame, stopAfter>> /\ ~stop
      BY <1>2, CpuStepTakes DEF CpuRuns
    <2> QED
      BY <2>1 DEF FrameLimit
  <1>3. CASE UNCHANGED <<frame, stopAfter, stop>>
    BY <1>3 DEF FrameLimit
  <1> QED
    BY <1>1, <1>2, <1>3 DEF Next, Step, CpuReturns, PpuReturns, AtBound, vars, ppuVars, beam

THEOREM LimitedRunStops == Spec => []StopsInTime
  <1>1. Init => FrameLimit
    BY ClockAssumption DEF Init, FrameLimit, NoAutoStop
  <1>2. Spec => []FrameLimit
    BY <1>1, FrameLimitStep, TypeCorrect, PTL DEF Spec
  <1>3. TypeOK /\ FrameLimit /\ FrameClock /\ ClocksInStep => StopsInTime
    <2> SUFFICES ASSUME TypeOK, FrameLimit, FrameClock, ClocksInStep,
                        stopAfter # NoAutoStop, phase = "idle", ~stop
                 PROVE  ~(master >= (stopAfter + 1) * Lines * Dots)
      BY DEF StopsInTime
    <2> DEFINE s == stopAfter
               k == frame * Lines + scanline
               e == (s + 1) * Lines
    <2>1. /\ Lines \in Nat /\ Dots \in Nat /\ s \in Nat /\ frame \in Nat /\ frame <= s
          /\ scanline \in 0 .. Lines - 1 /\ dot \in 0 .. Dots - 1 /\ master \in Nat /\ ppuCycle \in Nat
      BY ClockAssumption DEF TypeOK, FrameLimit
    <2>2. master <= ppuCycle /\ ppuCycle = k * Dots + dot
      BY <2>1 DEF ClocksInStep, FrameClock
    <2>3. k + 1 <= e /\ k \in Nat /\ e \in Nat
      <3>1. (s - frame) * Lines >= 0
        BY <2>1
      <3>2. (s + 1) * Lines = frame * Lines + (s - frame) * Lines + Lines
        BY <2>1
      <3>3. frame * Lines \in Nat /\ (s - frame) * Lines \in Int
        BY <2>1
      <3> QED
        BY <2>1, <3>1, <3>2, <3>3
    <2> HIDE DEF k, e
    <2>4. (k + 1) * Dots <= e * Dots
      <3>1. (e - (k + 1)) * Dots >= 0
        BY <2>1, <2>3
      <3>2. (e - (k + 1)) * Dots = e * Dots - (k + 1) * Dots
        BY <2>1, <2>3
      <3>3. e * Dots \in Int /\ (k + 1) * Dots \in Int
        BY <2>1, <2>3
      <3> QED
        BY <3>1, <3>2, <3>3
    <2>5. (k + 1) * Dots = k * Dots + Dots /\ k * Dots \in Int /\ e * Dots \in Int
      BY <2>1, <2>3
    <2>6. master < e * Dots
      BY <2>1, <2>2, <2>4, <2>5
    <2> QED
      BY <2>1, <2>5, <2>6 DEF e, s
  <1> QED
    BY <1>2, <1>3, TypeCorrect, FrameClockHolds, ClocksStayInStep, PTL

===============================================================================
