SPECIFICATION BodySpec
CONSTANTS
    Words <- Vocabulary
    Roles <- AnyRole
    Requests <- PlainRequests
    Responses <- AnyResponses
    NewTexts <- Masked
    Missing = Missing
CHECK_DEADLOCK FALSE
INVARIANTS
    SentBodyHoldsTurns
PROPERTIES
    OnlyLatestTextReplaced
