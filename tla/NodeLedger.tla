----------------------------- MODULE NodeLedger -----------------------------
(***************************************************************************)
(* The admission ledger of pkg/sched/admission.go: what schedd has         *)
(* promised to whom.  A ledger value holds the reservation of every        *)
(* admitted instance and, beside it, the running totals that the admission *)
(* decision reads: RAM and vCPUs per node, concurrency per app and per     *)
(* deployment.  Each operation runs under the ledger's own mutex, so it is *)
(* one operator from a ledger value to the next.                           *)
(*                                                                         *)
(* A total that the code keeps in a map and deletes at zero is a total     *)
(* function here, zero standing for the missing key.                       *)
(***************************************************************************)
EXTENDS Integers, FiniteSets

CONSTANTS
    Instances,      \* instance ids
    Apps,           \* app ids
    Deployments,    \* deployment ids
    Nodes,          \* compute node ids
    Plans,          \* the billing plans api.LimitsFor knows
    PlanConcurrency,\* plan -> limits.MaxConcurrency
    PlanOf,         \* app -> its account's plan, known or not
    NodeCeiling,    \* node -> compute_nodes.admission_ceiling_mb, 0 if unset
    NodeBudget,     \* node -> compute_nodes.vcpu_budget, 0 if unset
    MaxMB,          \* the largest admissionMB of one instance
    MaxVCPU,        \* the largest vCPU count of one instance
    DefaultCeiling, \* api.RAMAdmissionCeilingMB
    DefaultVCPUs,   \* api.VCPUSlots
    NoDeployment,   \* Request.DeploymentID == ""
    NoEntry         \* an instance without a reservation

Reservation ==
    [app: Apps, dep: Deployments \cup {NoDeployment}, node: Nodes,
     mb: 1..MaxMB, vcpu: 1..MaxVCPU, countsConc: BOOLEAN]

ASSUME LedgerAssumption ==
    /\ IsFiniteSet(Instances)
    /\ MaxMB \in Nat /\ MaxVCPU \in Nat
    /\ DefaultCeiling \in Nat /\ DefaultVCPUs \in Nat
    /\ PlanConcurrency \in [Plans -> Nat \ {0}]
    /\ NodeCeiling \in [Nodes -> Int] /\ NodeBudget \in [Nodes -> Int]
    /\ NoDeployment \notin Deployments
    /\ NoEntry \notin Reservation

\* A request to admit.  The wake path asks with kind "wake", the live
\* migration handoff with kind "migration" (no plan, no concurrency).  Every
\* caller passes the ceiling and the budget of the node it names, so they are
\* read from the node.  maxConc is the app's own setting, 0 if never set.
Request ==
    [instance: Instances, app: Apps, dep: Deployments \cup {NoDeployment},
     kind: {"wake", "migration"}, node: Nodes, mb: 1..MaxMB, vcpu: 1..MaxVCPU,
     maxConc: Int]

Ledger ==
    [entries: [Instances -> Reservation \cup {NoEntry}],
     ram: [Nodes -> Nat], vcpu: [Nodes -> Nat],
     perApp: [Apps -> Nat], perDep: [Apps \X Deployments -> Nat]]

NewNodeLedger ==
    [entries |-> [i \in Instances |-> NoEntry],
     ram     |-> [n \in Nodes |-> 0],
     vcpu    |-> [n \in Nodes |-> 0],
     perApp  |-> [a \in Apps |-> 0],
     perDep  |-> [k \in Apps \X Deployments |-> 0]]

Admitted(l, i) == l.entries[i] # NoEntry

-----------------------------------------------------------------------------
(* Admit.  The checks run in the order of the code; the first that fails is *)
(* the error returned, and a refused request changes nothing.              *)

PlanLimit(a) == IF PlanOf[a] \in Plans THEN PlanConcurrency[PlanOf[a]] ELSE 0

EffectiveMaxConc(r) ==
    IF r.maxConc <= 0 \/ r.maxConc > PlanLimit(r.app) THEN PlanLimit(r.app) ELSE r.maxConc

Ceiling(n) == IF NodeCeiling[n] <= 0 THEN DefaultCeiling ELSE NodeCeiling[n]

VCPUCeiling(n) == IF NodeBudget[n] <= 0 THEN DefaultVCPUs ELSE NodeBudget[n]

\* Mutant of AdmitOutcome: the concurrency test is off by one.
AdmitOutcomeOffByOne(l, r) ==
    IF r.kind = "wake" /\ PlanOf[r.app] \notin Plans THEN "unknown_plan"
    ELSE IF Admitted(l, r.instance) THEN "duplicate"
    ELSE IF r.kind = "wake" /\ l.perApp[r.app] > EffectiveMaxConc(r) THEN "plan_limit_concurrency"
    ELSE IF l.ram[r.node] + r.mb > Ceiling(r.node) THEN "capacity_ram"
    ELSE IF l.vcpu[r.node] + r.vcpu > VCPUCeiling(r.node) THEN "capacity_vcpu"
    ELSE "ok"

\* Mutant of AdmitOutcome: RAM is compared with the ceiling without the RAM
\* that is already resident.
AdmitOutcomeForgetsResident(l, r) ==
    IF r.kind = "wake" /\ PlanOf[r.app] \notin Plans THEN "unknown_plan"
    ELSE IF Admitted(l, r.instance) THEN "duplicate"
    ELSE IF r.kind = "wake" /\ l.perApp[r.app] >= EffectiveMaxConc(r) THEN "plan_limit_concurrency"
    ELSE IF r.mb > Ceiling(r.node) THEN "capacity_ram"
    ELSE IF l.vcpu[r.node] + r.vcpu > VCPUCeiling(r.node) THEN "capacity_vcpu"
    ELSE "ok"

\* The callers read the plan's limits and the node's ceilings anew for every
\* request; here they are constants, so a change of plan or of a ceiling between
\* two requests is left out.
AdmitOutcome(l, r) ==
    IF r.kind = "wake" /\ PlanOf[r.app] \notin Plans THEN "unknown_plan"
    ELSE IF Admitted(l, r.instance) THEN "duplicate"
    ELSE IF r.kind = "wake" /\ l.perApp[r.app] >= EffectiveMaxConc(r) THEN "plan_limit_concurrency"
    ELSE IF l.ram[r.node] + r.mb > Ceiling(r.node) THEN "capacity_ram"
    ELSE IF l.vcpu[r.node] + r.vcpu > VCPUCeiling(r.node) THEN "capacity_vcpu"
    ELSE "ok"

AtLeastZero(n) == IF n < 0 THEN 0 ELSE n

\* The per-deployment counters after one more, or one fewer, instance of
\* (app, dep); a reservation without a deployment only counts for its app.
Bump(perDep, app, dep, d) ==
    IF dep = NoDeployment THEN perDep
    ELSE [perDep EXCEPT ![<<app, dep>>] = AtLeastZero(@ + d)]

Admit(l, r) ==
    LET counts == r.kind # "migration" IN
    [entries |-> [l.entries EXCEPT ![r.instance] =
                    [app |-> r.app, dep |-> r.dep, node |-> r.node,
                     mb |-> r.mb, vcpu |-> r.vcpu, countsConc |-> counts]],
     ram     |-> [l.ram EXCEPT ![r.node] = @ + r.mb],
     vcpu    |-> [l.vcpu EXCEPT ![r.node] = @ + r.vcpu],
     perApp  |-> IF counts THEN [l.perApp EXCEPT ![r.app] = @ + 1] ELSE l.perApp,
     perDep  |-> IF counts THEN Bump(l.perDep, r.app, r.dep, 1) ELSE l.perDep]

\* What Admit leaves behind, refused or not.
AfterAdmit(l, r) == IF AdmitOutcome(l, r) = "ok" THEN Admit(l, r) ELSE l

-----------------------------------------------------------------------------
(* BeginSnapshot gives the concurrency slot back and keeps the RAM; Release *)
(* gives everything back.  Both ignore an instance they do not know.       *)

BeginSnapshot(l, i) ==
    IF Admitted(l, i) /\ l.entries[i].countsConc
      THEN LET e == l.entries[i] IN
           [l EXCEPT !.entries[i].countsConc = FALSE,
                     !.perApp[e.app] = AtLeastZero(@ - 1),
                     !.perDep = Bump(@, e.app, e.dep, -1)]
      ELSE l

\* Mutant of Release: the slot of an instance that is already snapshotting is
\* given back a second time.
ReleaseSlotTwice(l, i) ==
    IF ~Admitted(l, i) THEN l
    ELSE LET e == l.entries[i] IN
         [entries |-> [l.entries EXCEPT ![i] = NoEntry],
          ram     |-> [l.ram EXCEPT ![e.node] = AtLeastZero(@ - e.mb)],
          vcpu    |-> [l.vcpu EXCEPT ![e.node] = AtLeastZero(@ - e.vcpu)],
          perApp  |-> [l.perApp EXCEPT ![e.app] = AtLeastZero(@ - 1)],
          perDep  |-> Bump(l.perDep, e.app, e.dep, -1)]

\* Mutant of Release: as above, and without the clamp at zero.
ReleaseBelowZero(l, i) ==
    IF ~Admitted(l, i) THEN l
    ELSE LET e == l.entries[i] IN
         [l EXCEPT !.entries[i] = NoEntry,
                   !.ram[e.node] = @ - e.mb,
                   !.vcpu[e.node] = @ - e.vcpu,
                   !.perApp[e.app] = @ - 1]

Release(l, i) ==
    IF ~Admitted(l, i) THEN l
    ELSE LET e == l.entries[i] IN
         [entries |-> [l.entries EXCEPT ![i] = NoEntry],
          ram     |-> [l.ram EXCEPT ![e.node] = AtLeastZero(@ - e.mb)],
          vcpu    |-> [l.vcpu EXCEPT ![e.node] = AtLeastZero(@ - e.vcpu)],
          perApp  |-> IF e.countsConc THEN [l.perApp EXCEPT ![e.app] = AtLeastZero(@ - 1)] ELSE l.perApp,
          perDep  |-> IF e.countsConc THEN Bump(l.perDep, e.app, e.dep, -1) ELSE l.perDep]

-----------------------------------------------------------------------------
(* What the totals are totals of.  A sum of sizes is the number of pairs    *)
(* <<instance, unit>>, so that every total is a cardinality.                *)

Total(size, max) == Cardinality({p \in Instances \X (1..max) : p[2] <= size[p[1]]})

OnNode(entries, i, n) == entries[i] # NoEntry /\ entries[i].node = n

ReservedMB(entries, n) ==
    Total([i \in Instances |-> IF OnNode(entries, i, n) THEN entries[i].mb ELSE 0], MaxMB)

ReservedVCPU(entries, n) ==
    Total([i \in Instances |-> IF OnNode(entries, i, n) THEN entries[i].vcpu ELSE 0], MaxVCPU)

Counted(entries, a) ==
    {i \in Instances : entries[i] # NoEntry /\ entries[i].app = a /\ entries[i].countsConc}

CountedFor(entries, a, d) == {i \in Counted(entries, a) : entries[i].dep = d}

Exact(l) ==
    /\ \A a \in Apps :
          /\ l.perApp[a] = Cardinality(Counted(l.entries, a))
          /\ \A d \in Deployments :
                l.perDep[<<a, d>>] = Cardinality(CountedFor(l.entries, a, d))
    /\ \A n \in Nodes :
          /\ l.ram[n] = ReservedMB(l.entries, n)
          /\ l.vcpu[n] = ReservedVCPU(l.entries, n)

InLimits(entries) ==
    /\ \A a \in Apps : Cardinality(Counted(entries, a)) <= PlanLimit(a)
    /\ \A n \in Nodes :
          /\ ReservedMB(entries, n) <= Ceiling(n)
          /\ ReservedVCPU(entries, n) <= VCPUCeiling(n)

=============================================================================
