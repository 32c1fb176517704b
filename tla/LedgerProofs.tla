---------------------------- MODULE LedgerProofs ----------------------------
(***************************************************************************)
(* Proofs about the admission ledger, for any number of instances, apps,   *)
(* deployments and nodes and for any requests.                             *)
(***************************************************************************)
EXTENDS AdmissionLedger, FiniteSetTheorems, TLAPS

-----------------------------------------------------------------------------
(* Sums as cardinalities.                                                   *)

\* Raising one size from zero to m raises the sum by m: what Admit adds to a
\* node's RAM or vCPU total, and what Release takes away again.
LEMMA TotalRaise ==
  ASSUME NEW max \in Nat, NEW f \in [Instances -> 0..max],
         NEW i \in Instances, f[i] = 0, NEW m \in 0..max
  PROVE  /\ Total(f, max) \in Nat
         /\ Total([f EXCEPT ![i] = m], max) = Total(f, max) + m
PROOF
  <1> DEFINE P(g) == {p \in Instances \X (1..max) : p[2] <= g[p[1]]}
             g == [f EXCEPT ![i] = m]
             New == {i} \X (1..m)
  <1>1. IsFiniteSet(Instances \X (1..max))
    <2>1. IsFiniteSet(1..max)
      BY FS_Interval
    <2>2. IsFiniteSet(Instances)
      BY LedgerAssumption
    <2> QED
      BY <2>1, <2>2, FS_Product
  <1>2. IsFiniteSet(P(f)) /\ Cardinality(P(f)) \in Nat
    BY <1>1, FS_Subset, FS_CardinalityType
  <1>3. IsFiniteSet(New) /\ Cardinality(New) = m
    <2>1. IsFiniteSet(1..m) /\ Cardinality(1..m) = m
      <3>1. IsFiniteSet(1..m) /\ Cardinality(1..m) = IF 1 > m THEN 0 ELSE m - 1 + 1
        BY m \in Int, 1 \in Int, FS_Interval
      <3> QED
        BY <3>1
    <2>2. IsFiniteSet({i}) /\ Cardinality({i}) = 1
      BY Zenon, FS_Singleton
    <2> QED
      BY <2>1, <2>2, FS_Product
  <1>4. P(g) = P(f) \cup New
    <2>1. ASSUME NEW p \in Instances \X (1..max)
          PROVE  p[2] <= g[p[1]] <=> (p[2] <= f[p[1]] \/ p \in New)
      <3>1. p = <<p[1], p[2]>> /\ p[1] \in Instances /\ p[2] \in 1..max
        OBVIOUS
      <3>2. CASE p[1] = i
        BY <3>1, <3>2
      <3>3. CASE p[1] # i
        BY <3>1, <3>3
      <3> QED
        BY <3>2, <3>3
    <2>2. New \subseteq Instances \X (1..max)
      OBVIOUS
    <2> QED
      BY <2>1, <2>2
  <1>5. P(f) \cap New = {}
    OBVIOUS
  <1>6. Cardinality(P(g)) = Cardinality(P(f)) + m
    BY <1>2, <1>3, <1>4, <1>5, FS_Union, FS_EmptySet
  <1> QED
    BY <1>2, <1>6 DEF Total

-----------------------------------------------------------------------------
(* What one more reservation adds to every total.  Release is the same step *)
(* read backwards, so the lemma serves both.                                *)

AddsToNode(f, g, e, n) ==
    /\ ReservedMB(f, n) \in Nat /\ ReservedVCPU(f, n) \in Nat
    /\ e.node = n => /\ ReservedMB(g, n) = ReservedMB(f, n) + e.mb
                     /\ ReservedVCPU(g, n) = ReservedVCPU(f, n) + e.vcpu
    /\ e.node # n => /\ ReservedMB(g, n) = ReservedMB(f, n)
                     /\ ReservedVCPU(g, n) = ReservedVCPU(f, n)

LEMMA EntryAdded ==
  ASSUME NEW f \in [Instances -> Reservation \cup {NoEntry}],
         NEW i \in Instances, f[i] = NoEntry,
         NEW e \in Reservation,
         NEW n \in Nodes
  PROVE  AddsToNode(f, [f EXCEPT ![i] = e], e, n)
PROOF
  <1> DEFINE g == [f EXCEPT ![i] = e]
  <1>1. NoEntry \notin Reservation
    BY LedgerAssumption
  <1>2. /\ ReservedMB(f, n) \in Nat
        /\ e.node = n => ReservedMB(g, n) = ReservedMB(f, n) + e.mb
        /\ e.node # n => ReservedMB(g, n) = ReservedMB(f, n)
    <2> DEFINE Size(h) == [j \in Instances |-> IF OnNode(h, j, n) THEN h[j].mb ELSE 0]
               m == IF e.node = n THEN e.mb ELSE 0
    <2>1. MaxMB \in Nat
      BY LedgerAssumption
    <2>2. Size(f) \in [Instances -> 0..MaxMB] /\ Size(f)[i] = 0 /\ m \in 0..MaxMB
      BY <1>1, <2>1 DEF OnNode, Reservation
    <2>3. Size(g) = [Size(f) EXCEPT ![i] = m]
      BY Zenon, <1>1 DEF OnNode, Reservation
    <2> HIDE DEF Size, m
    <2>4. /\ Total(Size(f), MaxMB) \in Nat
          /\ Total([Size(f) EXCEPT ![i] = m], MaxMB) = Total(Size(f), MaxMB) + m
      BY Zenon, <2>1, <2>2, TotalRaise
    <2> QED
      BY <2>3, <2>4 DEF Size, m, ReservedMB
  <1>3. /\ ReservedVCPU(f, n) \in Nat
        /\ e.node = n => ReservedVCPU(g, n) = ReservedVCPU(f, n) + e.vcpu
        /\ e.node # n => ReservedVCPU(g, n) = ReservedVCPU(f, n)
    <2> DEFINE Size(h) == [j \in Instances |-> IF OnNode(h, j, n) THEN h[j].vcpu ELSE 0]
               m == IF e.node = n THEN e.vcpu ELSE 0
    <2>1. MaxVCPU \in Nat
      BY LedgerAssumption
    <2>2. Size(f) \in [Instances -> 0..MaxVCPU] /\ Size(f)[i] = 0 /\ m \in 0..MaxVCPU
      BY <1>1, <2>1 DEF OnNode, Reservation
    <2>3. Size(g) = [Size(f) EXCEPT ![i] = m]
      BY Zenon, <1>1 DEF OnNode, Reservation
    <2> HIDE DEF Size, m
    <2>4. /\ Total(Size(f), MaxVCPU) \in Nat
          /\ Total([Size(f) EXCEPT ![i] = m], MaxVCPU) = Total(Size(f), MaxVCPU) + m
      BY Zenon, <2>1, <2>2, TotalRaise
    <2> QED
      BY <2>3, <2>4 DEF Size, m, ReservedVCPU
  <1> QED
    BY <1>2, <1>3 DEF AddsToNode

\* The same for the numbers of concurrency slots.
AddsToApp(f, g, e, a) ==
    /\ Cardinality(Counted(f, a)) \in Nat
    /\ (e.app = a /\ e.countsConc) => Cardinality(Counted(g, a)) = Cardinality(Counted(f, a)) + 1
    /\ ~(e.app = a /\ e.countsConc) => Cardinality(Counted(g, a)) = Cardinality(Counted(f, a))

AddsToDep(f, g, e, a, d) ==
    /\ Cardinality(CountedFor(f, a, d)) \in Nat
    /\ (e.app = a /\ e.dep = d /\ e.countsConc) =>
          Cardinality(CountedFor(g, a, d)) = Cardinality(CountedFor(f, a, d)) + 1
    /\ ~(e.app = a /\ e.dep = d /\ e.countsConc) =>
          Cardinality(CountedFor(g, a, d)) = Cardinality(CountedFor(f, a, d))

LEMMA SlotsAdded ==
  ASSUME NEW f \in [Instances -> Reservation \cup {NoEntry}],
         NEW i \in Instances, f[i] = NoEntry,
         NEW e \in Reservation,
         NEW a \in Apps
  PROVE  /\ AddsToApp(f, [f EXCEPT ![i] = e], e, a)
         /\ \A d \in Deployments : AddsToDep(f, [f EXCEPT ![i] = e], e, a, d)
PROOF
  <1> DEFINE g == [f EXCEPT ![i] = e]
  <1>1. /\ IsFiniteSet(Counted(f, a)) /\ Cardinality(Counted(f, a)) \in Nat
        /\ Counted(g, a) = IF e.app = a /\ e.countsConc
                            THEN Counted(f, a) \cup {i} ELSE Counted(f, a)
        /\ i \notin Counted(f, a)
    <2>1. IsFiniteSet(Instances) /\ Counted(f, a) \in SUBSET Instances
      BY LedgerAssumption DEF Counted
    <2>2. IsFiniteSet(Counted(f, a)) /\ Cardinality(Counted(f, a)) \in Nat
      BY <2>1, FS_Subset, FS_CardinalityType
    <2>3. NoEntry \notin Reservation
      BY LedgerAssumption
    <2>4. /\ Counted(g, a) = IF e.app = a /\ e.countsConc
                              THEN Counted(f, a) \cup {i} ELSE Counted(f, a)
          /\ i \notin Counted(f, a)
      BY <2>3 DEF Counted, Reservation
    <2> QED
      BY <2>2, <2>4
  <1>2. Cardinality(Counted(f, a) \cup {i}) = Cardinality(Counted(f, a)) + 1
    BY Zenon, <1>1, FS_AddElement
  <1>3. ASSUME NEW d \in Deployments
        PROVE  AddsToDep(f, g, e, a, d)
    <2>1. CountedFor(f, a, d) \in SUBSET Counted(f, a)
      BY DEF CountedFor
    <2>2. IsFiniteSet(CountedFor(f, a, d)) /\ Cardinality(CountedFor(f, a, d)) \in Nat
      BY <1>1, <2>1, FS_Subset, FS_CardinalityType
    <2>3. CountedFor(g, a, d) = IF e.app = a /\ e.dep = d /\ e.countsConc
                                THEN CountedFor(f, a, d) \cup {i} ELSE CountedFor(f, a, d)
      <3>1. Counted(f, a) \subseteq Instances
        BY DEF Counted
      <3> QED
        BY <1>1, <3>1 DEF CountedFor
    <2>4. Cardinality(CountedFor(f, a, d) \cup {i}) = Cardinality(CountedFor(f, a, d)) + 1
      BY Zenon, <1>1, <2>1, <2>2, FS_AddElement
    <2> HIDE DEF g
    <2> QED
      BY <2>2, <2>3, <2>4 DEF AddsToDep
  <1> HIDE DEF g
  <1>4. AddsToApp(f, g, e, a)
    BY <1>1, <1>2 DEF AddsToApp
  <1> QED
    BY Zenon, <1>3, <1>4 DEF g

-----------------------------------------------------------------------------
(* Each ledger operation keeps the totals exact and the limits respected.   *)

Sound(l) == l \in Ledger /\ Exact(l) /\ InLimits(l.entries)

LEMMA NewLedgerSound == Sound(NewNodeLedger)
PROOF
  <1> DEFINE f == NewNodeLedger.entries
  <1>1. NewNodeLedger \in Ledger
    BY DEF NewNodeLedger, Ledger
  <1>2. \A i \in Instances : f[i] = NoEntry
    BY DEF NewNodeLedger
  <1>3. \A a \in Apps : Counted(f, a) = {} /\ \A d \in Deployments : CountedFor(f, a, d) = {}
    BY <1>2 DEF Counted, CountedFor
  <1>4. \A n \in Nodes : ReservedMB(f, n) = 0 /\ ReservedVCPU(f, n) = 0
    <2>1. ASSUME NEW max \in Nat
          PROVE  Total([i \in Instances |-> 0], max) = 0
      <3>1. {p \in Instances \X (1..max) : p[2] <= [i \in Instances |-> 0][p[1]]} = {}
        OBVIOUS
      <3> QED
        BY <3>1, FS_EmptySet DEF Total
    <2>2. MaxMB \in Nat /\ MaxVCPU \in Nat
      BY LedgerAssumption
    <2>3. ASSUME NEW n \in Nodes
          PROVE  /\ ReservedMB(f, n) = Total([i \in Instances |-> 0], MaxMB)
                 /\ ReservedVCPU(f, n) = Total([i \in Instances |-> 0], MaxVCPU)
      <3>1. \A i \in Instances : ~OnNode(f, i, n)
        BY <1>2 DEF OnNode
      <3>2. /\ [i \in Instances |-> IF OnNode(f, i, n) THEN f[i].mb ELSE 0] = [i \in Instances |-> 0]
            /\ [i \in Instances |-> IF OnNode(f, i, n) THEN f[i].vcpu ELSE 0] = [i \in Instances |-> 0]
        BY <3>1
      <3> QED
        BY <3>2 DEF ReservedMB, ReservedVCPU
    <2> QED
      BY <2>1, <2>2, <2>3
  <1>5. Exact(NewNodeLedger)
    BY Zenon, <1>3, <1>4, FS_EmptySet DEF Exact, NewNodeLedger
  <1>6. \A a \in Apps : PlanLimit(a) \in Nat
    BY LedgerAssumption DEF PlanLimit
  <1>7. \A n \in Nodes : Ceiling(n) >= 0 /\ VCPUCeiling(n) >= 0
    BY LedgerAssumption DEF Ceiling, VCPUCeiling
  <1>8. InLimits(f)
    BY <1>3, <1>4, <1>6, <1>7, FS_EmptySet DEF InLimits, Ceiling, VCPUCeiling
  <1> QED
    BY <1>1, <1>5, <1>8 DEF Sound

\* A granted request passed every check of Admit.
LEMMA AdmitOk ==
  ASSUME NEW l \in Ledger, NEW r \in Request, AdmitOutcome(l, r) = "ok"
  PROVE  /\ l.entries[r.instance] = NoEntry
         /\ r.kind # "migration" => l.perApp[r.app] < PlanLimit(r.app)
         /\ l.ram[r.node] + r.mb <= Ceiling(r.node)
         /\ l.vcpu[r.node] + r.vcpu <= VCPUCeiling(r.node)
PROOF
  <1>1. PlanLimit(r.app) \in Nat
    BY LedgerAssumption DEF PlanLimit, Request
  <1>2. EffectiveMaxConc(r) \in Int /\ EffectiveMaxConc(r) <= PlanLimit(r.app)
    BY <1>1 DEF EffectiveMaxConc, Request
  <1>3. Ceiling(r.node) \in Int /\ VCPUCeiling(r.node) \in Int
    BY LedgerAssumption DEF Ceiling, VCPUCeiling, Request
  <1>4. l.perApp[r.app] \in Nat /\ l.ram[r.node] \in Nat /\ l.vcpu[r.node] \in Nat
    BY DEF Ledger, Request
  <1>5. r.mb \in Int /\ r.vcpu \in Int /\ r.kind \in {"wake", "migration"}
    BY LedgerAssumption DEF Request
  <1> QED
    BY <1>1, <1>2, <1>3, <1>4, <1>5 DEF AdmitOutcome, Admitted

LEMMA AdmitSound ==
  ASSUME NEW l, Sound(l), NEW r \in Request, AdmitOutcome(l, r) = "ok"
  PROVE  Sound(Admit(l, r))
PROOF
  <1> DEFINE e == [app |-> r.app, dep |-> r.dep, node |-> r.node, mb |-> r.mb,
                   vcpu |-> r.vcpu, countsConc |-> r.kind # "migration"]
             i == r.instance
             f == l.entries
             g == Admit(l, r).entries
  <1>1. l \in Ledger /\ Exact(l) /\ InLimits(f)
    BY DEF Sound
  <1>2. /\ f[i] = NoEntry
        /\ e.countsConc => l.perApp[e.app] < PlanLimit(e.app)
        /\ l.ram[e.node] + e.mb <= Ceiling(e.node)
        /\ l.vcpu[e.node] + e.vcpu <= VCPUCeiling(e.node)
    BY Zenon, <1>1, AdmitOk
  <1>3. e \in Reservation /\ i \in Instances /\ g = [f EXCEPT ![i] = e]
    BY DEF Reservation, Request, Admit
  <1>4. f \in [Instances -> Reservation \cup {NoEntry}]
    BY <1>1 DEF Ledger
  <1>5. g \in [Instances -> Reservation \cup {NoEntry}]
    BY <1>3, <1>4
  <1>6. /\ Admit(l, r).ram = [l.ram EXCEPT ![e.node] = @ + e.mb]
        /\ Admit(l, r).vcpu = [l.vcpu EXCEPT ![e.node] = @ + e.vcpu]
        /\ Admit(l, r).perApp = IF e.countsConc THEN [l.perApp EXCEPT ![e.app] = @ + 1] ELSE l.perApp
        /\ Admit(l, r).perDep = IF e.countsConc THEN Bump(l.perDep, e.app, e.dep, 1) ELSE l.perDep
        /\ Admit(l, r) = [entries |-> g, ram |-> Admit(l, r).ram, vcpu |-> Admit(l, r).vcpu,
                          perApp |-> Admit(l, r).perApp, perDep |-> Admit(l, r).perDep]
    BY Zenon DEF Admit
  <1>7. /\ l.ram \in [Nodes -> Nat] /\ l.vcpu \in [Nodes -> Nat]
        /\ l.perApp \in [Apps -> Nat] /\ l.perDep \in [Apps \X Deployments -> Nat]
    BY <1>1 DEF Ledger
  <1>8. /\ e.app \in Apps /\ e.node \in Nodes /\ e.mb \in Nat /\ e.vcpu \in Nat
        /\ e.dep \in Deployments \cup {NoDeployment} /\ e.countsConc \in BOOLEAN
    <2>1. MaxMB \in Nat /\ MaxVCPU \in Nat
      BY LedgerAssumption
    <2> HIDE DEF e
    <2> QED
      BY <1>3, <2>1 DEF Reservation
  <1> HIDE DEF e, i, f, g
  <1>9. ASSUME NEW n \in Nodes
        PROVE  /\ Admit(l, r).ram[n] = ReservedMB(g, n) /\ ReservedMB(g, n) <= Ceiling(n)
               /\ Admit(l, r).vcpu[n] = ReservedVCPU(g, n) /\ ReservedVCPU(g, n) <= VCPUCeiling(n)
    <2>1. AddsToNode(f, g, e, n)
      BY Zenon, <1>2, <1>3, <1>4, EntryAdded
    <2>2. /\ l.ram[n] = ReservedMB(f, n) /\ l.vcpu[n] = ReservedVCPU(f, n)
          /\ ReservedMB(f, n) <= Ceiling(n) /\ ReservedVCPU(f, n) <= VCPUCeiling(n)
      BY <1>1 DEF Exact, InLimits, f
    <2>3. CASE e.node = n
      BY <1>2, <1>6, <1>7, <1>8, <2>1, <2>2, <2>3 DEF AddsToNode
    <2>4. CASE e.node # n
      BY <1>6, <1>7, <1>8, <2>1, <2>2, <2>4 DEF AddsToNode
    <2> QED
      BY <2>3, <2>4
  <1>10. ASSUME NEW a \in Apps
         PROVE  /\ Admit(l, r).perApp[a] = Cardinality(Counted(g, a))
                /\ Cardinality(Counted(g, a)) <= PlanLimit(a)
    <2>1. AddsToApp(f, g, e, a)
      BY Zenon, <1>2, <1>3, <1>4, SlotsAdded
    <2>2. l.perApp[a] = Cardinality(Counted(f, a)) /\ Cardinality(Counted(f, a)) <= PlanLimit(a)
      BY <1>1 DEF Exact, InLimits, f
    <2>3. PlanLimit(a) \in Nat
      BY LedgerAssumption DEF PlanLimit
    <2>4. CASE e.app = a /\ e.countsConc
      BY <1>2, <1>6, <1>7, <1>8, <2>1, <2>2, <2>3, <2>4 DEF AddsToApp
    <2>5. CASE ~(e.app = a /\ e.countsConc)
      BY <1>6, <1>7, <1>8, <2>1, <2>2, <2>3, <2>5 DEF AddsToApp
    <2> QED
      BY <2>4, <2>5
  <1>11. ASSUME NEW a \in Apps, NEW d \in Deployments
         PROVE  Admit(l, r).perDep[<<a, d>>] = Cardinality(CountedFor(g, a, d))
    <2>1. AddsToDep(f, g, e, a, d)
      BY Zenon, <1>2, <1>3, <1>4, SlotsAdded
    <2>2. l.perDep[<<a, d>>] = Cardinality(CountedFor(f, a, d))
      BY <1>1 DEF Exact, f
    <2>3. d # NoDeployment
      BY LedgerAssumption
    <2>4. CASE e.app = a /\ e.dep = d /\ e.countsConc
      BY <1>6, <1>7, <1>8, <2>1, <2>2, <2>3, <2>4 DEF AddsToDep, Bump, AtLeastZero
    <2>5. CASE ~(e.app = a /\ e.dep = d /\ e.countsConc)
      BY <1>6, <1>7, <1>8, <2>1, <2>2, <2>3, <2>5 DEF AddsToDep, Bump, AtLeastZero
    <2> QED
      BY <2>4, <2>5
  <1>12. Admit(l, r) \in Ledger
    <2>1. Bump(l.perDep, e.app, e.dep, 1) \in [Apps \X Deployments -> Nat]
      BY <1>7, <1>8 DEF Bump, AtLeastZero
    <2>2. Admit(l, r).ram \in [Nodes -> Nat] /\ Admit(l, r).vcpu \in [Nodes -> Nat]
      BY <1>6, <1>7, <1>8
    <2>3. Admit(l, r).perApp \in [Apps -> Nat]
      BY <1>6, <1>7, <1>8
    <2> QED
      BY <1>5, <1>6, <1>7, <2>1, <2>2, <2>3 DEF Ledger
  <1> QED
    BY <1>9, <1>10, <1>11, <1>12 DEF Sound, Exact, InLimits, g

\* Release is Admit read backwards: the ledger without the entry, plus the
\* entry, is the ledger before the call.
LEMMA ReleaseSound ==
  ASSUME NEW l, Sound(l), NEW i \in Instances
  PROVE  Sound(Release(l, i))
PROOF
  <1>1. CASE ~Admitted(l, i)
    BY <1>1 DEF Release
  <1>2. CASE Admitted(l, i)
    <2> DEFINE f == l.entries
               e == f[i]
               base == [f EXCEPT ![i] = NoEntry]
               m == Release(l, i)
    <2>1. l \in Ledger /\ Exact(l) /\ InLimits(f)
      BY DEF Sound
    <2>2. /\ f \in [Instances -> Reservation \cup {NoEntry}] /\ e \in Reservation
          /\ base \in [Instances -> Reservation \cup {NoEntry}] /\ base[i] = NoEntry
          /\ f = [base EXCEPT ![i] = e]
      BY Zenon, <1>2, <2>1 DEF Ledger, Admitted
    <2>3. /\ l.ram \in [Nodes -> Nat] /\ l.vcpu \in [Nodes -> Nat]
          /\ l.perApp \in [Apps -> Nat] /\ l.perDep \in [Apps \X Deployments -> Nat]
      BY <2>1 DEF Ledger
    <2>4. /\ e.app \in Apps /\ e.node \in Nodes /\ e.mb \in Nat /\ e.vcpu \in Nat
          /\ e.dep \in Deployments \cup {NoDeployment} /\ e.countsConc \in BOOLEAN
      <3>1. MaxMB \in Nat /\ MaxVCPU \in Nat
        BY LedgerAssumption
      <3> HIDE DEF e
      <3> QED
        BY <2>2, <3>1 DEF Reservation
    <2>5. /\ m = [entries |-> base, ram |-> m.ram, vcpu |-> m.vcpu,
                   perApp |-> m.perApp, perDep |-> m.perDep]
          /\ m.entries = base
          /\ m.ram = [l.ram EXCEPT ![e.node] = AtLeastZero(@ - e.mb)]
          /\ m.vcpu = [l.vcpu EXCEPT ![e.node] = AtLeastZero(@ - e.vcpu)]
          /\ m.perApp = IF e.countsConc THEN [l.perApp EXCEPT ![e.app] = AtLeastZero(@ - 1)] ELSE l.perApp
          /\ m.perDep = IF e.countsConc THEN Bump(l.perDep, e.app, e.dep, -1) ELSE l.perDep
      BY <1>2 DEF Release
    <2> HIDE DEF e, base, m, f
    <2>6. ASSUME NEW n \in Nodes
          PROVE  /\ m.ram[n] = ReservedMB(base, n) /\ ReservedMB(base, n) <= Ceiling(n)
                 /\ m.vcpu[n] = ReservedVCPU(base, n) /\ ReservedVCPU(base, n) <= VCPUCeiling(n)
      <3>1. AddsToNode(base, f, e, n)
        BY Zenon, <2>2, EntryAdded
      <3>2. /\ l.ram[n] = ReservedMB(f, n) /\ l.vcpu[n] = ReservedVCPU(f, n)
            /\ ReservedMB(f, n) <= Ceiling(n) /\ ReservedVCPU(f, n) <= VCPUCeiling(n)
        BY <2>1 DEF Exact, InLimits, f
      <3>3. Ceiling(n) \in Int /\ VCPUCeiling(n) \in Int
        BY LedgerAssumption DEF Ceiling, VCPUCeiling
      <3>4. CASE e.node = n
        <4>1. /\ m.ram[n] = AtLeastZero(l.ram[n] - e.mb)
              /\ m.vcpu[n] = AtLeastZero(l.vcpu[n] - e.vcpu)
          BY <2>3, <2>4, <2>5, <3>4
        <4> QED
          BY <2>4, <3>1, <3>2, <3>3, <3>4, <4>1 DEF AddsToNode, AtLeastZero
      <3>5. CASE e.node # n
        BY <2>3, <2>4, <2>5, <3>1, <3>2, <3>5 DEF AddsToNode
      <3> QED
        BY <3>4, <3>5
    <2>7. ASSUME NEW a \in Apps
          PROVE  /\ m.perApp[a] = Cardinality(Counted(base, a))
                 /\ Cardinality(Counted(base, a)) <= PlanLimit(a)
      <3>1. AddsToApp(base, f, e, a)
        BY Zenon, <2>2, SlotsAdded
      <3>2. l.perApp[a] = Cardinality(Counted(f, a)) /\ Cardinality(Counted(f, a)) <= PlanLimit(a)
        BY <2>1 DEF Exact, InLimits, f
      <3>3. PlanLimit(a) \in Nat
        BY LedgerAssumption DEF PlanLimit
      <3>4. CASE e.app = a /\ e.countsConc
        <4>1. m.perApp[a] = AtLeastZero(l.perApp[a] - 1)
          BY <2>3, <2>4, <2>5, <3>4
        <4> QED
          BY <3>1, <3>2, <3>3, <3>4, <4>1 DEF AddsToApp, AtLeastZero
      <3>5. CASE ~(e.app = a /\ e.countsConc)
        BY <2>3, <2>4, <2>5, <3>1, <3>2, <3>5 DEF AddsToApp
      <3> QED
        BY <3>4, <3>5
    <2>8. ASSUME NEW a \in Apps, NEW d \in Deployments
          PROVE  m.perDep[<<a, d>>] = Cardinality(CountedFor(base, a, d))
      <3>1. AddsToDep(base, f, e, a, d)
        BY Zenon, <2>2, SlotsAdded
      <3>2. l.perDep[<<a, d>>] = Cardinality(CountedFor(f, a, d))
        BY <2>1 DEF Exact, f
      <3>3. d # NoDeployment
        BY LedgerAssumption
      <3>4. CASE e.app = a /\ e.dep = d /\ e.countsConc
        <4>1. m.perDep[<<a, d>>] = AtLeastZero(l.perDep[<<a, d>>] + (-1))
          BY <2>3, <2>4, <2>5, <3>3, <3>4 DEF Bump
        <4> QED
          BY <3>1, <3>2, <3>4, <4>1 DEF AddsToDep, AtLeastZero
      <3>5. CASE ~(e.app = a /\ e.dep = d /\ e.countsConc)
        BY <2>3, <2>4, <2>5, <3>1, <3>2, <3>3, <3>5 DEF AddsToDep, Bump, AtLeastZero
      <3> QED
        BY <3>4, <3>5
    <2>9. m \in Ledger
      <3>1. Bump(l.perDep, e.app, e.dep, -1) \in [Apps \X Deployments -> Nat]
        BY <2>3, <2>4 DEF Bump, AtLeastZero
      <3>2. /\ m.ram \in [Nodes -> Nat] /\ m.vcpu \in [Nodes -> Nat]
            /\ m.perApp \in [Apps -> Nat]
        BY <2>3, <2>4, <2>5 DEF AtLeastZero
      <3> QED
        BY <2>2, <2>3, <2>5, <3>1, <3>2 DEF Ledger
    <2>10. Sound(m)
      BY <2>5, <2>6, <2>7, <2>8, <2>9 DEF Sound, Exact, InLimits
    <2> QED
      BY <2>10 DEF m
  <1> QED
    BY <1>1, <1>2

\* BeginSnapshot replaces an entry by the same entry without its slot: both
\* ledgers are the one without the entry, plus one entry.
LEMMA BeginSnapshotSound ==
  ASSUME NEW l, Sound(l), NEW i \in Instances
  PROVE  Sound(BeginSnapshot(l, i))
PROOF
  <1>1. CASE ~(Admitted(l, i) /\ l.entries[i].countsConc)
    BY <1>1 DEF BeginSnapshot
  <1>2. CASE Admitted(l, i) /\ l.entries[i].countsConc
    <2> DEFINE f == l.entries
               e == f[i]
               low == [e EXCEPT !.countsConc = FALSE]
               base == [f EXCEPT ![i] = NoEntry]
               m == BeginSnapshot(l, i)
               g == m.entries
    <2>1. l \in Ledger /\ Exact(l) /\ InLimits(f)
      BY DEF Sound
    <2>2. /\ f \in [Instances -> Reservation \cup {NoEntry}] /\ e \in Reservation
          /\ base \in [Instances -> Reservation \cup {NoEntry}] /\ base[i] = NoEntry
          /\ f = [base EXCEPT ![i] = e]
      BY Zenon, <1>2, <2>1 DEF Ledger, Admitted
    <2>3. /\ l.ram \in [Nodes -> Nat] /\ l.vcpu \in [Nodes -> Nat]
          /\ l.perApp \in [Apps -> Nat] /\ l.perDep \in [Apps \X Deployments -> Nat]
      BY <2>1 DEF Ledger
    <2>4. /\ low \in Reservation
          /\ low.app = e.app /\ low.dep = e.dep /\ low.node = e.node
          /\ low.mb = e.mb /\ low.vcpu = e.vcpu /\ ~low.countsConc /\ e.countsConc
          /\ e.app \in Apps /\ e.node \in Nodes /\ e.dep \in Deployments \cup {NoDeployment}
      BY Zenon, <1>2, <2>2 DEF Reservation
    <2>5. /\ m.entries = [f EXCEPT ![i].countsConc = FALSE]
          /\ m.ram = l.ram /\ m.vcpu = l.vcpu
          /\ m.perApp = [l.perApp EXCEPT ![e.app] = AtLeastZero(@ - 1)]
          /\ m.perDep = Bump(l.perDep, e.app, e.dep, -1)
          /\ m = [entries |-> m.entries, ram |-> m.ram, vcpu |-> m.vcpu,
                   perApp |-> m.perApp, perDep |-> m.perDep]
      BY Zenon, <1>2, <2>1 DEF BeginSnapshot, Ledger
    <2>6. g = [base EXCEPT ![i] = low]
      BY Zenon, <2>2, <2>5
    <2>7. g \in [Instances -> Reservation \cup {NoEntry}]
      BY <2>2, <2>4, <2>6
    <2> HIDE DEF e, low, base, m, f, g
    <2>8. ASSUME NEW n \in Nodes
          PROVE  /\ m.ram[n] = ReservedMB(g, n) /\ ReservedMB(g, n) <= Ceiling(n)
                 /\ m.vcpu[n] = ReservedVCPU(g, n) /\ ReservedVCPU(g, n) <= VCPUCeiling(n)
      <3>1. AddsToNode(base, f, e, n) /\ AddsToNode(base, g, low, n)
        BY Zenon, <2>2, <2>4, <2>6, EntryAdded
      <3>2. /\ l.ram[n] = ReservedMB(f, n) /\ l.vcpu[n] = ReservedVCPU(f, n)
            /\ ReservedMB(f, n) <= Ceiling(n) /\ ReservedVCPU(f, n) <= VCPUCeiling(n)
        BY <2>1 DEF Exact, InLimits, f
      <3>3. ReservedMB(g, n) = ReservedMB(f, n) /\ ReservedVCPU(g, n) = ReservedVCPU(f, n)
        BY <2>4, <3>1 DEF AddsToNode
      <3> QED
        BY <2>5, <3>2, <3>3
    <2>9. ASSUME NEW a \in Apps
          PROVE  /\ m.perApp[a] = Cardinality(Counted(g, a))
                 /\ Cardinality(Counted(g, a)) <= PlanLimit(a)
      <3>1. AddsToApp(base, f, e, a) /\ AddsToApp(base, g, low, a)
        BY Zenon, <2>2, <2>4, <2>6, SlotsAdded
      <3>2. l.perApp[a] = Cardinality(Counted(f, a)) /\ Cardinality(Counted(f, a)) <= PlanLimit(a)
        BY <2>1 DEF Exact, InLimits, f
      <3>3. PlanLimit(a) \in Nat
        BY LedgerAssumption DEF PlanLimit
      <3>4. CASE e.app = a
        <4>1. m.perApp[a] = AtLeastZero(l.perApp[a] - 1)
          BY <2>3, <2>4, <2>5, <3>4
        <4> QED
          BY <2>4, <3>1, <3>2, <3>3, <3>4, <4>1 DEF AddsToApp, AtLeastZero
      <3>5. CASE e.app # a
        <4>1. m.perApp[a] = l.perApp[a]
          BY <2>3, <2>4, <2>5, <3>5
        <4> QED
          BY <2>4, <3>1, <3>2, <3>5, <4>1 DEF AddsToApp
      <3> QED
        BY <3>4, <3>5
    <2>10. ASSUME NEW a \in Apps, NEW d \in Deployments
           PROVE  m.perDep[<<a, d>>] = Cardinality(CountedFor(g, a, d))
      <3>1. AddsToDep(base, f, e, a, d) /\ AddsToDep(base, g, low, a, d)
        BY Zenon, <2>2, <2>4, <2>6, SlotsAdded
      <3>2. l.perDep[<<a, d>>] = Cardinality(CountedFor(f, a, d))
        BY <2>1 DEF Exact, f
      <3>3. d # NoDeployment
        BY LedgerAssumption
      <3>4. CASE e.app = a /\ e.dep = d
        <4>1. m.perDep[<<a, d>>] = AtLeastZero(l.perDep[<<a, d>>] + (-1))
          BY <2>3, <2>4, <2>5, <3>3, <3>4 DEF Bump
        <4> QED
          BY <2>4, <3>1, <3>2, <3>4, <4>1 DEF AddsToDep, AtLeastZero
      <3>5. CASE ~(e.app = a /\ e.dep = d)
        <4>1. m.perDep[<<a, d>>] = l.perDep[<<a, d>>]
          BY <2>3, <2>4, <2>5, <3>3, <3>5 DEF Bump
        <4> QED
          BY <2>4, <3>1, <3>2, <3>5, <4>1 DEF AddsToDep
      <3> QED
        BY <3>4, <3>5
    <2>11. m \in Ledger
      <3>1. Bump(l.perDep, e.app, e.dep, -1) \in [Apps \X Deployments -> Nat]
        BY <2>3, <2>4 DEF Bump, AtLeastZero
      <3>2. m.perApp \in [Apps -> Nat]
        BY <2>3, <2>4, <2>5 DEF AtLeastZero
      <3> QED
        BY Zenon, <2>3, <2>5, <2>7, <3>1, <3>2 DEF Ledger, g
    <2>12. Sound(m)
      BY <2>8, <2>9, <2>10, <2>11 DEF Sound, Exact, InLimits, g
    <2> QED
      BY <2>12 DEF m
  <1> QED
    BY <1>1, <1>2

-----------------------------------------------------------------------------
(* The theorems.  Sound is inductive as it stands: exactness is what makes  *)
(* the limits, which Admit checks on the totals, hold of the reservations.  *)

\* Whatever the order of the calls, the ledger's totals stay exact and its
\* reservations stay within the limits.
THEOREM LedgerSound == LedgerSpec => []Sound(led)
PROOF
  <1>1. LedgerInit => Sound(led)
    BY NewLedgerSound DEF LedgerInit
  <1>2. Sound(led) /\ [LedgerNext]_led => Sound(led)'
    <2> SUFFICES ASSUME Sound(led), [LedgerNext]_led
                 PROVE  Sound(led')
      BY DEF Sound, Exact, InLimits
    <2>1. ASSUME NEW r \in Requests, CallAdmit(r)
          PROVE  Sound(led')
      <3>1. r \in Request
        BY RequestsAssumption
      <3> QED
        BY <2>1, <3>1, AdmitSound DEF CallAdmit, AfterAdmit
    <2>2. ASSUME NEW i \in Instances, CallBeginSnapshot(i)
          PROVE  Sound(led')
      BY <2>2, BeginSnapshotSound DEF CallBeginSnapshot
    <2>3. ASSUME NEW i \in Instances, CallRelease(i)
          PROVE  Sound(led')
      BY <2>3, ReleaseSound DEF CallRelease
    <2>4. CASE UNCHANGED led
      BY <2>4
    <2> QED
      BY <2>1, <2>2, <2>3, <2>4 DEF LedgerNext
  <1> QED
    BY <1>1, <1>2, PTL DEF LedgerSpec

\* The ledger always has its type: no total ever goes below zero.
THEOREM LedgerTypeCorrect == LedgerSpec => []LedgerTypeOK
PROOF
  <1>1. Sound(led) => LedgerTypeOK
    BY DEF Sound, LedgerTypeOK
  <1> QED
    BY <1>1, LedgerSound, PTL

\* The running totals of Admit, BeginSnapshot and Release never drift from
\* the reservations, for any number of instances, apps and nodes.
THEOREM LedgerTotalsExact == LedgerSpec => []TotalsExact
PROOF
  <1>1. Sound(led) => TotalsExact
    BY DEF Sound, TotalsExact
  <1> QED
    BY <1>1, LedgerSound, PTL

\* Sections 6.2-1 and 6.2-2 hold of the reservations, for any number of
\* instances, apps and nodes and any ceilings.
THEOREM LedgerWithinLimits == LedgerSpec => []WithinLimits
PROOF
  <1>1. Sound(led) => WithinLimits
    BY DEF Sound, WithinLimits
  <1> QED
    BY <1>1, LedgerSound, PTL

\* The book's operators are the ledger's.
LEMMA BookSums ==
  /\ \A f, a : Book!Cardinality(Book!Counted(f, a)) = Cardinality(Counted(f, a))
  /\ \A f, n : /\ Book!ReservedMB(f, n) = ReservedMB(f, n)
               /\ Book!ReservedVCPU(f, n) = ReservedVCPU(f, n)
  /\ \A a : Book!PlanLimit(a) = PlanLimit(a)
  /\ \A n : Book!Ceiling(n) = Ceiling(n) /\ Book!VCPUCeiling(n) = VCPUCeiling(n)
  /\ Book!Reservation = Reservation
PROOF
  <1>1. ASSUME NEW S
        PROVE Book!Cardinality(S) = Cardinality(S)
    BY DEF Book!Cardinality, Cardinality
  <1> QED
    BY <1>1 DEF Book!Counted, Book!PlanLimit, Book!ReservedMB,
             Book!ReservedVCPU, Book!Ceiling, Book!VCPUCeiling, Counted, PlanLimit, ReservedMB,
             ReservedVCPU, Ceiling, VCPUCeiling, Book!OnNode, OnNode, Book!Total, Total,
             Book!Reservation, Reservation

\* The ledger implements the book of reservations.
THEOREM LedgerImplementsBook == LedgerSpec => LedgerRefinesBook
PROOF
  <1>1. LedgerInit => Book!BookInit
    BY DEF LedgerInit, NewNodeLedger, Book!BookInit
  <1>2. Sound(led) /\ [LedgerNext]_led => [Book!BookNext]_(led.entries)
    <2> SUFFICES ASSUME Sound(led), [LedgerNext]_led
                 PROVE  Book!BookNext \/ led'.entries = led.entries
      OBVIOUS
    <2>1. led \in Ledger /\ Exact(led)
      BY DEF Sound
    <2>2. ASSUME NEW r \in Requests, CallAdmit(r)
          PROVE  Book!BookNext \/ led'.entries = led.entries
      <3>1. r \in Request
        BY RequestsAssumption
      <3>2. CASE AdmitOutcome(led, r) # "ok"
        BY <2>2, <3>2 DEF CallAdmit, AfterAdmit
      <3>3. CASE AdmitOutcome(led, r) = "ok"
        <4> DEFINE e == [app |-> r.app, dep |-> r.dep, node |-> r.node, mb |-> r.mb,
                         vcpu |-> r.vcpu, countsConc |-> r.kind # "migration"]
        <4>1. /\ led.entries[r.instance] = NoEntry
              /\ r.kind # "migration" => led.perApp[r.app] < PlanLimit(r.app)
              /\ led.ram[r.node] + r.mb <= Ceiling(r.node)
              /\ led.vcpu[r.node] + r.vcpu <= VCPUCeiling(r.node)
          BY <2>1, <3>1, <3>3, AdmitOk
        <4>2. /\ r.app \in Apps /\ r.node \in Nodes /\ r.instance \in Instances
              /\ e \in Reservation
          BY <3>1 DEF Request, Reservation
        <4>3. /\ led.perApp[r.app] = Cardinality(Counted(led.entries, r.app))
              /\ led.ram[r.node] = ReservedMB(led.entries, r.node)
              /\ led.vcpu[r.node] = ReservedVCPU(led.entries, r.node)
          BY <2>1, <4>2 DEF Exact
        <4>4. led'.entries = [led.entries EXCEPT ![r.instance] = e]
          BY <2>2, <3>3 DEF CallAdmit, AfterAdmit, Admit
        <4>5. /\ e.app = r.app /\ e.node = r.node /\ e.mb = r.mb /\ e.vcpu = r.vcpu
              /\ e.countsConc = (r.kind # "migration")
          OBVIOUS
        <4> HIDE DEF e
        <4>6. /\ e.countsConc =>
                   Book!Cardinality(Book!Counted(led.entries, e.app)) < Book!PlanLimit(e.app)
              /\ Book!ReservedMB(led.entries, e.node) + e.mb <= Book!Ceiling(e.node)
              /\ Book!ReservedVCPU(led.entries, e.node) + e.vcpu <= Book!VCPUCeiling(e.node)
          BY Zenon, <4>1, <4>3, <4>5, BookSums
        <4>7. Book!Reserve(r.instance, e)
          BY <4>1, <4>4, <4>6 DEF Book!Reserve
        <4> QED
          BY <4>2, <4>7, BookSums DEF Book!BookNext
      <3> QED
        BY <3>2, <3>3
    <2>3. ASSUME NEW i \in Instances, CallBeginSnapshot(i)
          PROVE  Book!BookNext \/ led'.entries = led.entries
      <3>1. CASE Admitted(led, i) /\ led.entries[i].countsConc
        <4>1. Book!GiveBackSlot(i)
          BY <2>1, <2>3, <3>1 DEF CallBeginSnapshot, BeginSnapshot, Admitted, Ledger, Book!GiveBackSlot
        <4> QED
          BY <4>1 DEF Book!BookNext
      <3>2. CASE ~(Admitted(led, i) /\ led.entries[i].countsConc)
        BY <2>3, <3>2 DEF CallBeginSnapshot, BeginSnapshot
      <3> QED
        BY <3>1, <3>2
    <2>4. ASSUME NEW i \in Instances, CallRelease(i)
          PROVE  Book!BookNext \/ led'.entries = led.entries
      <3>1. CASE Admitted(led, i)
        <4>1. Book!GiveBack(i)
          BY <2>4, <3>1 DEF CallRelease, Release, Book!GiveBack
        <4> QED
          BY <4>1 DEF Book!BookNext
      <3>2. CASE ~Admitted(led, i)
        BY <2>4, <3>2 DEF CallRelease, Release
      <3> QED
        BY <3>1, <3>2
    <2> QED
      BY <2>2, <2>3, <2>4 DEF LedgerNext
  <1> QED
    BY <1>1, <1>2, LedgerSound, PTL DEF LedgerSpec, LedgerRefinesBook, Book!BookSpec

=============================================================================
