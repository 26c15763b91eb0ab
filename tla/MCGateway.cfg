SPECIFICATION Spec
CONSTANTS
    None = None
    GENESIS = GENESIS
    BootLoad = BootLoad
    Forged = Forged
    demo = demo
    strict = strict
    broken = broken
    read = read
    send = send
    bare = bare
    Requests = {r1, r2, r3}
    Bundles = {demo, strict, broken}
    Loadable = {demo, strict}
    Proposals = {read, send}
    Reads = {read}
    Routed = {read, send}
    Malformed = {}
    Untraced = {r3}
    Arbitrations = {}
    VersionOf <- MCVersionOf
    VocabularyOf <- MCVocabularyOf
    SourceRegistry <- NoSources
    EngineEffect <- MCEngineEffect
SYMMETRY Symmetry
INVARIANTS
    TypeOK
    ChainIntact
    RecordsAgree
    ExecutionMatchesReceipts
    ExecutedAtMostOnce
    QueueMatchesChain
    ReplayFaithful
    PolicyInForce
    ContextComesEarlier
    AuditPassesUnlessResolvedBetween
PROPERTIES
    RecordOnlyGrows
    PolicyMovesByLoading
    ImplementsEnactment
