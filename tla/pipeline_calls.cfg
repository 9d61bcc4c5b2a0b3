SPECIFICATION Spec
CONSTANTS
    Threads = {t1, t2}
    Values = {"PHONE"}
    Roles = {"none", "agent_l2"}
    NoRole = "none"
    Purposes = {"doc_summarize", "fraud_investigation"}
    NoPurpose = "undefined"
    InjectionThreshold = 75
    Risks = {0, 60, 80}
    HardBlock = 60
    FailAction = "block"
SYMMETRY Symmetry
INVARIANTS
    PassedWithinPolicy
    RawIsRestored
    RestoredToItsRole
PROPERTY BlockedTouchesNothing
