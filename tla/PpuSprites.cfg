SPECIFICATION Spec
CONSTANTS
    Dots = 15
    Lines = 5
    VisibleLines = 3
    ClearEnd = 3
    EvalEnd = 10
    FetchEnd = 14
    FetchPeriod = 2
    FetchPhase = 1
    SpriteMax = 3
    ActiveMax = 2
    Heights = {1, 2}
    SpriteY = {0, 1}
INVARIANTS
    TypeOK
    BufferBounded
    EvaluationIsRight
    RowInTile
    MaskWindow
PROPERTIES
    HitFlagIsRight
    OverflowIsRight
