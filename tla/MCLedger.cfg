CONSTANTS
    a1 = a1
    a2 = a2
    n1 = n1
    n2 = n2
    d1 = d1
    d2 = d2
    Instances = {i1, i2, i3}
    Apps = {a1, a2}
    Deployments = {d1, d2}
    Nodes = {n1, n2}
    Plans = {"pro"}
    PlanConcurrency <- MCPlanConcurrency
    PlanOf <- MCPlanOf
    NodeCeiling <- MCNodeCeiling
    NodeBudget <- MCNodeBudget
    MaxMB = 2
    MaxVCPU = 2
    DefaultCeiling = 4
    DefaultVCPUs = 4
    NoDeployment = NoDeployment
    NoEntry = NoEntry
    Requests <- MCRequests
SPECIFICATION LedgerSpec
INVARIANTS
    LedgerTypeOK
    TotalsExact
    WithinLimits
PROPERTY LedgerRefinesBook
SYMMETRY InstanceSymmetry
