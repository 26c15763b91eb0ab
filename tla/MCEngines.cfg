SPECIFICATION EnginesSpec
CONSTANTS
    None = None
    Principals = {agent, clerk}
    Agents = {agent}
    MaxPolicies = 3
    Covers <- DemoCovers
    Fails <- NoCedarValue
INVARIANTS
    EnginesDifferOnlyAtTheEdges
    DemoEffectIsDetermined
    ReadbackMissesOnlySandboxReads
    DistinctForbidsDeny
    RefusedPermitIsDead
PROPERTIES
    ForbidsNeverRelax
    CarryingMoreNeverRelaxes
CHECK_DEADLOCK FALSE
