SPECIFICATION Spec
CONSTANTS
    Threads = {t1}
    Values = {"PHONE"}
    Roles = {"none", "agent_l2"}
    NoRole = "none"
    Purposes = {"doc_summarize", "data_analysis"}
    NoPurpose = "undefined"
    InjectionThreshold = 75
    Risks = {0, 60}
    HardBlock = 60
    FailAction = "block"
INVARIANTS
    ScopeMatches
