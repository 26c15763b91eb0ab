SPECIFICATION MCSpec
CONSTANTS
    None = None
    GENESIS = GENESIS
    BootLoad = BootLoad
    Forged = Forged
    demo = demo
    strict = strict
    broken = broken
    hook = hook
    proxied = proxied
    caller = caller
    Requests = {hook, proxied, caller}
    HookCalls = {hook}
    ProxyCalls = {proxied}
    HookTools = {"Read", "Edit", "Task"}
    LowerCase <- MCLowerCase
    ProxyTools = {"read_file", "delete_file", "run", "egress"}
    Bundles = {demo, strict, broken}
    Loadable = {demo, strict}
    Proposals <- MCProposals
    Reads <- MCReads
    Routed <- MCRouted
    Malformed = {}
    Untraced = {}
    Arbitrations = {}
    VersionOf <- MCVersionOf
    VocabularyOf <- MCVocabularyOf
    SourceRegistry <- NoSources
    EngineEffect <- MCEngineEffect
INVARIANTS
    FailClosedNeedsAnAllow
    HookSaysWhatIsRecorded
    ErrorRepliesLeaveNoRecord
    ProxyTellsWhatHappened
PROPERTIES
    FrontCallsEnd
