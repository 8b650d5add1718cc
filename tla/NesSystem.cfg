SPECIFICATION FairSpec
CONSTANTS
    Dots = 4
    Lines = 9
    VBlankLine = 5
    EarlyEnd = 2
    ReadyAt = 8
    NmiCycles = 3
    DmaCycles = 3
    MaxCycles = 4
    MaxMaster = 84
    InstrCycles <- MCInstrCycles
    StepSizes <- MCStepSizes
    StopFrames <- MCStopFrames
INVARIANTS
    TypeOK
    ClocksInStep
    PpuFreshForCpu
    NmiServedInVBlank
    VBlankWindow
PROPERTIES
    StopIsFinal
    ConsoleKept
    DmaEndsOnEvenCycle
    StepReturns
    AutoStopHappens
