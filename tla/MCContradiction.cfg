SPECIFICATION EnginesSpec
CONSTANTS
    None = None
    Principals = {agent, clerk}
    Agents = {agent}
    MaxPolicies = 3
    Covers <- DemoCovers
    Fails <- NoCedarValue
INVARIANT
    ContradictionsAreRefused
CHECK_DEADLOCK FALSE
