SPECIFICATION Spec
CONSTANTS
    p1 = p1  p2 = p2  s1 = s1  s2 = s2  u1 = u1  u2 = u2
    RRN = RRN  UNKNOWN = UNKNOWN  FOO = FOO
    v1 = v1  v2 = v2  agent = agent  support = support
    Wildcard = Wildcard  None = None  Unknown = UNKNOWN
    Procs = {p1, p2}
    RawIds = {s1}
    Uuids = {u1, u2}
    Uuid <- AloneUuid
    TypeNames = {RRN}
    EntityTypes = {RRN}
    Values = {v1, v2}
    Roles = {agent}  Purposes = {support}
    Scopes <- OpenScope
    Ttl = 1  Grace = 0  MaxTime = 2
    MaxRows = 3  MaxAttempts = 0
INVARIANTS LabelsNeverReused
