SPECIFICATION Spec
CONSTANTS
    Window = 3
    ComboCap = 80  RepeatWeight = 5  RepeatCap = 15
    HardBlocks = {60, 80}
    Turns <- SomeTurns
    Gaps = {30, 31}
    MaxTurns = 5
CHECK_DEADLOCK FALSE
INVARIANTS
    ScoreOfConversation
    BlockedForRecentCombination
    RepresentativeScenarioBlocks
