SPECIFICATION MCSpec
CONSTANTS
    None = None
    GENESIS = GENESIS
    BootLoad = BootLoad
    Forged = Forged
    demo = demo
    strict = strict
    broken = broken
    bobReads = bobReads
    aliceWrites = aliceWrites
    Requests = {r1, r2, r3}
    previewer = previewer
    reporter = reporter
    Readers = {reporter}
    Sinces = {0, 1}
    Bundles = {demo, strict, broken}
    Loadable = {demo, strict}
    Proposals = {bobReads, aliceWrites}
    Reads = {bobReads}
    Writes = {aliceWrites}
    Routed = {bobReads, aliceWrites}
    Malformed = {}
    Untraced = {}
    Arbitrations = {}
    VersionOf <- MCVersionOf
    VocabularyOf <- MCVocabularyOf
    SourceRegistry <- NoSources
    EngineEffect <- MCEngineEffect
    PrincipalOf <- MCPrincipalOf
    ResourceOf <- MCResourceOf
SYMMETRY Symmetry
INVARIANT
    DriftIsADifferentDecision
