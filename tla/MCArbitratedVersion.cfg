SPECIFICATION Spec
CONSTANTS
    None = None
    GENESIS = GENESIS
    BootLoad = BootLoad
    Forged = Forged
    demo = demo
    strict = strict
    broken = broken
    read = read
    send = send
    bare = bare
    Requests = {r1, r2}
    Bundles = {demo, strict, broken, foreign}
    foreign = foreign
    Loadable = {demo, strict, foreign}
    Proposals = {read, send, bare}
    Reads = {read}
    Routed = {read, send}
    Malformed = {bare}
    Untraced = {}
    Arbitrations <- AllRequests
    VersionOf <- MCVersionOf
    VocabularyOf <- TwoVocabularies
    SourceRegistry <- Registry
    EngineEffect <- MCEngineEffect
SYMMETRY Symmetry
INVARIANT ArbitratedVersionWasEvaluated
