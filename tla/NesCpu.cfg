SPECIFICATION Spec
CONSTANTS
    Cells <- MCCells
    Mem0 <- MCMem0
    Accs <- MCAccs
    Indexes <- MCIndexes
    Stacks = {1}
    Pcs = {33021}
    Lows <- MCLows
    Highs = {2}
    Rels = {2, 128, 254}
    Targets <- MCTargets
    FlowSteps = 4
INVARIANTS
    TypeOK
PROPERTIES
    ArithmeticIsRight
    LogShowsOperand
    ReturnsWhereCalled
    TimingIsBusTime
