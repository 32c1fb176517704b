------------------------------ MODULE MCEngine ------------------------------
(* Small instances of the engine.  With two apps, a1 is stopped by the RAM  *)
(* of the node before its plan stops it, the other by its own limit.        *)
EXTENDS Engine, TLC

CONSTANTS a1, n1, d1

MCPlanConcurrency == [p \in Plans |-> 2]

MCPlanOf == [a \in Apps |-> "pro"]

MCNodeCeiling == [n \in Nodes |-> 3]

MCNodeBudget == [n \in Nodes |-> 3]

MCMaxConc == [a \in Apps |-> IF a = a1 THEN 0 ELSE 1]

MCMaxConcOne == [a \in Apps |-> 1]

MCRamMB == [a \in Apps |-> IF a = a1 THEN 2 ELSE 1]

MCRamOne == [a \in Apps |-> 1]

MCDepOf == [a \in Apps |-> d1]

\* Instance ids and handler goroutines are interchangeable.
Symmetry == Permutations(Instances) \cup Permutations(Calls)

=============================================================================
