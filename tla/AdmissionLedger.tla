-------------------------- MODULE AdmissionLedger ---------------------------
(***************************************************************************)
(* The ledger on its own, driven by callers in any order: every interleaving*)
(* of Admit, BeginSnapshot and Release that the scheduler's goroutines can *)
(* produce, including repeated, late and unmatched calls.                  *)
(***************************************************************************)
EXTENDS NodeLedger

CONSTANT Requests       \* the requests callers may make

ASSUME RequestsAssumption == Requests \subseteq Request

VARIABLE led

LedgerInit == led = NewNodeLedger

CallAdmit(r) == led' = AfterAdmit(led, r)

CallBeginSnapshot(i) == led' = BeginSnapshot(led, i)

CallRelease(i) == led' = Release(led, i)

LedgerNext ==
    \/ \E r \in Requests : CallAdmit(r)
    \/ \E i \in Instances : CallBeginSnapshot(i) \/ CallRelease(i)

LedgerSpec == LedgerInit /\ [][LedgerNext]_led

-----------------------------------------------------------------------------
\* The ledger holds a reservation or nothing for every instance, and natural
\* numbers in its totals.
LedgerTypeOK == led \in Ledger

\* Every running total equals the sum over the reservations it stands for, so
\* the incremental arithmetic of Admit, BeginSnapshot and Release never
\* drifts and the clamps at zero in Release never hide a lost decrement.
TotalsExact == Exact(led)

\* Sections 6.2-1 and 6.2-2 over the reservations themselves: no app holds
\* more concurrency slots than its plan allows, and no node has more RAM or
\* vCPUs promised than its ceilings, migrations included.
WithinLimits == InLimits(led.entries)

Book == INSTANCE Reservations WITH held <- led.entries

\* The ledger with its incremental totals implements the book of reservations
\* that recomputes every sum: a request is granted only when the real sums
\* leave room.
LedgerRefinesBook == Book!BookSpec

=============================================================================
