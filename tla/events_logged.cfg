SPECIFICATION Spec
CONSTANTS
    w1 = w1  w2 = w2  s1 = s1  s2 = s2
    Writers = {w1, w2}
    Streams = {s1, s2}
    Settings <- SomeSettings
    Directions = {"input", "output"}
    Wanted <- Filters
    QueueSize = 1
    MaxEvents = 2
    MaxTime = 2  StatsWindow = 1  Sections = 3
SYMMETRY Symmetry
CHECK_DEADLOCK FALSE
INVARIANTS
    AnsweredIsRecorded
    SentIsLogged
    DeliveredOrDropped
    TimelineInOrder
    StatsSectionsGrow
