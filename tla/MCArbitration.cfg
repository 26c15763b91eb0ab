SPECIFICATION Spec
CONSTANTS
    SourceNames = {s1, s2, s3}
    MaxDecisions = 3
    MaxOrder = 3
INVARIANTS
    ReduceReturnsWinner
    DenyBeatsEscalateBeatsAllow
    OrderDecides
    ConflictIffResolverMatters
PROPERTIES
    MoreSourcesNeverRelax
CHECK_DEADLOCK FALSE
