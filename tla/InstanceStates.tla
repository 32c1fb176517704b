--------------------------- MODULE InstanceStates ---------------------------
(***************************************************************************)
(* The instance lifecycle of pkg/state/machine.go: the states a row of the *)
(* instances table can be in, the edges the state machine allows, and the  *)
(* two sets of states that admission control counts.                       *)
(***************************************************************************)

States == {"PARKED", "WAKING", "COLD_BOOTING", "RUNNING", "SNAPSHOTTING",
           "STOPPED", "FAILED", "EVICTING", "MIGRATING"}

Targets == [s \in States |->
    CASE s = "PARKED"       -> {"WAKING", "COLD_BOOTING"}
      [] s = "WAKING"       -> {"RUNNING", "COLD_BOOTING", "FAILED", "STOPPED", "EVICTING"}
      [] s = "COLD_BOOTING" -> {"RUNNING", "FAILED", "STOPPED", "EVICTING"}
      [] s = "RUNNING"      -> {"SNAPSHOTTING", "STOPPED", "FAILED", "EVICTING", "MIGRATING"}
      [] s = "SNAPSHOTTING" -> {"PARKED", "STOPPED", "EVICTING"}
      [] s = "STOPPED"      -> {"COLD_BOOTING"}
      [] s = "FAILED"       -> {"PARKED", "COLD_BOOTING", "STOPPED"}
      [] s = "EVICTING"     -> {}
      [] s = "MIGRATING"    -> {"RUNNING", "PARKED", "FAILED"}]

CanTransition(from, to) == from \in States /\ to \in Targets[from]

\* An instance in one of these states uses one of its app's concurrency slots.
CountsForConcurrency == {"WAKING", "COLD_BOOTING", "RUNNING"}

\* An instance in one of these states occupies RAM on its node.
CountsForRAM == CountsForConcurrency \cup {"SNAPSHOTTING", "MIGRATING"}

=============================================================================
