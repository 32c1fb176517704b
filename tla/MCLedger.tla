------------------------------ MODULE MCLedger ------------------------------
(* A small instance of the admission ledger: three instances of two apps on *)
(* two nodes, one of which takes the default ceilings.                      *)
EXTENDS AdmissionLedger, TLC

CONSTANTS a1, a2, n1, n2, d1, d2

MCPlanConcurrency == [p \in Plans |-> 2]

\* a2's account names a plan that api.LimitsFor does not know.
MCPlanOf == [a \in Apps |-> IF a = a1 THEN "pro" ELSE "legacy"]

MCNodeCeiling == [n \in Nodes |-> IF n = n1 THEN 3 ELSE 0]

MCNodeBudget == [n \in Nodes |-> IF n = n1 THEN 0 ELSE 2]

\* maxConc covers an unset value and one below the plan.
MCRequests ==
    {r \in [instance: Instances, app: Apps, dep: {d1, NoDeployment},
            kind: {"wake", "migration"}, node: Nodes, mb: 1..MaxMB,
            vcpu: 1..MaxVCPU, maxConc: {0, 1}] : r.vcpu = r.mb}


\* Instance ids are interchangeable.
InstanceSymmetry == Permutations(Instances)

=============================================================================
