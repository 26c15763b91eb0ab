SPECIFICATION FairSpec
CONSTANTS
    None = None
    GENESIS = GENESIS
    BootLoad = BootLoad
    Forged = Forged
    demo = demo
    strict = strict
    broken = broken
    read = read
    send = send
    bare = bare
    Requests = {r1, r2}
    Bundles = {demo, strict, broken, foreign}
    foreign = foreign
    Loadable = {demo, strict, foreign}
    Proposals = {read, bare}
    Reads = {read}
    Routed = {read}
    Malformed = {bare}
    Untraced = {r2}
    Arbitrations <- AllRequests
    VersionOf <- MCVersionOf
    VocabularyOf <- TwoVocabularies
    SourceRegistry <- Registry
    EngineEffect <- FourAnswers
INVARIANTS
    ReadYourWrites
    ConflictsAreDisagreements
    ArbitratedExecutionIsUnanimous
    ConflictsFindDecisions
PROPERTIES
    HandlersSettle
    LoadsTakeEffect
