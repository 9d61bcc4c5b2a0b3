SPECIFICATION FairSpec
CONSTANTS
    p1 = p1  p2 = p2  s1 = s1  s2 = s2  u1 = u1  u2 = u2
    RRN = RRN  UNKNOWN = UNKNOWN  FOO = FOO
    v1 = v1  v2 = v2  agent = agent  support = support
    Wildcard = Wildcard  None = None  Unknown = UNKNOWN
    Procs = {p1, p2}
    RawIds = {s1}
    Uuids = {u1, u2}
    Uuid <- AloneUuid
    TypeNames = {RRN, FOO}
    EntityTypes = {RRN}
    Values = {v1, v2}
    Roles = {}  Purposes = {}
    Scopes <- OpenScope
    Ttl = 1  Grace = 0  MaxTime = 2
    MaxRows = 2  MaxAttempts = 1
INVARIANTS
    OneLiveLabelPerValue
    LabelsUnambiguous
    LabelDenotesOneValue
    RestoresTheTokenizedValue
    RestorationsAudited
PROPERTIES ImplementsRegistry CallsEnd
