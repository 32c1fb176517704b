---------------------------- MODULE Reservations ----------------------------
(***************************************************************************)
(* What the admission ledger promises, without its running totals: a set   *)
(* of reservations, each granted only if the sum over the reservations     *)
(* already held leaves room for it.  Sections 6.2-1 and 6.2-2 of the       *)
(* implementation spec are read off this directly.                         *)
(***************************************************************************)
EXTENDS NodeLedger

VARIABLE held     \* instance -> its reservation, or NoEntry

BookInit == held = [i \in Instances |-> NoEntry]

Reserve(i, e) ==
    /\ held[i] = NoEntry
    /\ e.countsConc => Cardinality(Counted(held, e.app)) < PlanLimit(e.app)
    /\ ReservedMB(held, e.node) + e.mb <= Ceiling(e.node)
    /\ ReservedVCPU(held, e.node) + e.vcpu <= VCPUCeiling(e.node)
    /\ held' = [held EXCEPT ![i] = e]

\* A snapshot in progress no longer uses a concurrency slot.
GiveBackSlot(i) ==
    /\ held[i] # NoEntry
    /\ held' = [held EXCEPT ![i].countsConc = FALSE]

GiveBack(i) == held' = [held EXCEPT ![i] = NoEntry]

BookNext ==
    \E i \in Instances :
        \/ \E e \in Reservation : Reserve(i, e)
        \/ GiveBackSlot(i)
        \/ GiveBack(i)

BookSpec == BookInit /\ [][BookNext]_held

=============================================================================
