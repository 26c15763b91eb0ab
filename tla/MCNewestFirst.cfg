SPECIFICATION Spec
CONSTANTS
    None = None
    GENESIS = GENESIS
    BootLoad = BootLoad
    Forged = Forged
    demo = demo
    strict = strict
    broken = broken
    read = read
    send = send
    bare = bare
    Requests = {r1, r2, r3}
    Bundles = {demo, strict, broken}
    Loadable = {demo, strict}
    Proposals = {read, send, bare}
    Reads = {read}
    Routed = {read, send}
    Malformed = {bare}
    Untraced = {}
    Arbitrations = {}
    VersionOf <- MCVersionOf
    VocabularyOf <- MCVocabularyOf
    SourceRegistry <- NoSources
    EngineEffect <- MCEngineEffect
SYMMETRY Symmetry
INVARIANT DecisionsAreNewestFirst
