CONSTANTS
    a1 = a1
    n1 = n1
    d1 = d1
    Instances = {i1, i2}
    Calls = {c1}
    Apps = {a1}
    Nodes = {n1}
    Deployments = {d1}
    Loop = Loop
    Free = Free
    None = None
    NoDeployment = NoDeployment
    NoEntry = NoEntry
    Plans = {"pro"}
    PlanConcurrency <- MCPlanConcurrency
    PlanOf <- MCPlanOf
    NodeCeiling <- MCNodeCeiling
    NodeBudget <- MCNodeBudget
    MaxMB = 2
    MaxVCPU = 1
    DefaultCeiling = 3
    DefaultVCPUs = 3
    MaxConc <- MCMaxConc
    RamMB <- MCRamOne
    DepOf <- MCDepOf
    Ops = {"wake", "park", "kill", "prime"}
    Faults = {}
    MaxCrashes = 1
SPECIFICATION FairSpec
PROPERTIES
    StuckResolved
CHECK_DEADLOCK FALSE
