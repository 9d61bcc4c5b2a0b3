SPECIFICATION Spec
CONSTANTS
    Threads = {t1, t2}
    Policies <- SomePolicies
    Entities = {"RRN", "CARD", "PHONE"}
    Roles = {"agent_l1", "agent_l2", "none"}
    Risks = {0, 79, 80}
    NotLoaded = NotLoaded
    MaxRuns = 3
INVARIANTS
    NoTornRuleset
    OneBestRule
