SPECIFICATION Spec
CONSTANTS
    p1 = p1  p2 = p2  s1 = s1  s2 = s2
    support = support  billing = billing  None = None
    Window = 1
    ComboCap = 80  RepeatWeight = 5  RepeatCap = 15
    Threads = {p1, p2}
    Sids = {s1}
    Inputs <- TwoTurns
    Ttl = 2  TickSeconds = 900
    Settings <- AllSettings
    MaxCalls = 3
CHECK_DEADLOCK FALSE
SYMMETRY Symmetry
INVARIANTS
    TurnsCounted
    PurposeOfLastTurn
    RiskOfOwnTurn
    EntitiesKept
    ExpiredTokensRevoked
PROPERTY OnlyExpiredRevoked
