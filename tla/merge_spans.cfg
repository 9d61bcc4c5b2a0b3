SPECIFICATION Spec
CONSTANTS
    TextLen = 4
    Blanks <- WhiteSpace
    Kinds <- SomeKinds
    MinConfidence <- Thresholds
    OverlapBonus = 20
    OutputMinConfidence = 500
    Actions = {"keep", "mask", "tokenize", "aggregate"}
    MaxFindings = 3
CHECK_DEADLOCK FALSE
INVARIANTS
    SpansDisjoint
    OneSpanPerChain
    HigherLayerWins
    SpansReplacedInPlace
    RescanMasksAll
