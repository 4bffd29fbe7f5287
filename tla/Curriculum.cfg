SPECIFICATION FairSpec
CONSTANTS
    MaxChunkSize = 4
    Verses = {v, n}
    Numbered = {n}
    Topics <- SmallTopics
    MaxRetries = 1
INVARIANTS
    ChunksKeepTheText
    ChunksAreBounded
    DeliveredIsGrounded
    AuditIsTruthful
    PromptsAreBounded
PROPERTY EveryRequestEnds
CHECK_DEADLOCK FALSE
