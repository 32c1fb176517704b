CONSTANTS
    a1 = a1
    n1 = n1
    d1 = d1
    Instances = {i1, i2, i3}
    Calls = {c1}
    Apps = {a1}
    Nodes = {n1}
    Deployments = {d1}
    Loop = Loop
    Free = Free
    None = None
    NoDeployment = NoDeployment
    NoEntry = NoEntry
    Plans = {"pro"}
    PlanConcurrency <- MCPlanConcurrency
    PlanOf <- MCPlanOf
    NodeCeiling <- MCNodeCeiling
    NodeBudget <- MCNodeBudget
    MaxMB = 2
    MaxVCPU = 1
    DefaultCeiling = 3
    DefaultVCPUs = 3
    MaxConc <- MCMaxConc
    RamMB <- MCRamOne
    DepOf <- MCDepOf
    Ops = {"floor"}
    Faults = {}
    MaxCrashes = 0
SPECIFICATION Spec
INVARIANTS
    IdleHoldsNothing
SYMMETRY Symmetry
CHECK_DEADLOCK FALSE
