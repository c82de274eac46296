\* Two edges, the first signalled twice; of two messages the second is sampled.
CONSTANTS
    first = first
    second = second
    Edges = {first, second}
    EveryN = 2
    MaxSignals <- MCSignals
    MaxLines <- MCLines
    MaxSeq <- MCSeq
SPECIFICATION RecordsSpec
INVARIANTS ManifestKept AuditSampled
PROPERTY ShutdownEnds
CHECK_DEADLOCK FALSE
