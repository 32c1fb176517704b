------------------------------- MODULE Engine -------------------------------
(***************************************************************************)
(* schedd's wake/park engine (pkg/sched/engine.go, watchdog.go, loop.go):  *)
(* the instances table, the admission ledger, the per-app mutexes, the     *)
(* microVMs that vmmd runs, and the goroutines that move them.             *)
(*                                                                         *)
(* A goroutine is a gRPC handler (Calls) or the one scheduling loop (Loop).*)
(* Each action is the code between two points where another goroutine can  *)
(* be seen: acquiring an app's mutex, a vmmd RPC, and the gap between a    *)
(* ledger call and the row write that belongs to it, which other apps, the *)
(* dead-node reconciler and a crash can observe.                           *)
(*                                                                         *)
(* Time is left out: a timer that is armed may fire at any moment.         *)
(***************************************************************************)
EXTENDS InstanceStates, NodeLedger

CONSTANTS
    Calls,          \* gRPC handler goroutines
    Loop,           \* the goroutine of Loop.Run
    Free,           \* no goroutine: an unlocked mutex
    None,           \* no instance, or no app
    Ops,            \* the operations goroutines may start
    Faults,         \* the failures the environment may inject
    MaxCrashes,     \* bound: how often schedd may crash
    MaxConc,        \* app -> apps.max_concurrency
    RamMB,          \* app -> admissionMB of its instances
    DepOf           \* app -> its one deployment

Threads == Calls \cup {Loop}

CallOps == {"wake", "admit", "floor", "park", "live"}
LoopOps == {"wake", "admit", "floor", "park", "evict", "kill", "dead", "prime"}
AllFaults == {"env", "verify", "runtime", "stamp", "warm_load", "lost_reply", "destroy", "node", "db"}

ASSUME EngineAssumption ==
    /\ IsFiniteSet(Threads) /\ Loop \notin Calls
    /\ Free \notin Threads /\ None \notin Instances /\ None \notin Apps
    /\ Ops \subseteq CallOps \cup LoopOps
    /\ Faults \subseteq AllFaults
    /\ MaxCrashes \in Nat
    /\ MaxConc \in [Apps -> Int]
    /\ RamMB \in [Apps -> 1..MaxMB] /\ 1 \in 1..MaxVCPU
    /\ DepOf \in [Apps -> Deployments]

VARIABLES
    row,        \* the instances table: state, app and node of each row
    led,        \* the engine's NodeLedger
    vms,        \* the instances whose microVM is up in some vmmd
    snap,       \* app -> "none" or "usable": a row of the snapshots table, not stale
    told,       \* app -> imaged's work on snapshot_written: "none", "written", "recorded"
    dep,        \* app -> "live" or "failed"; "evicted" if the app itself is evicted_cold
    appMu,      \* app -> the goroutine holding its mutex, or Free
    th,         \* goroutine -> where it is
    seeding,    \* rows SeedLedger has still to visit; {} once schedd serves
    crashes

vars == <<row, led, vms, snap, told, dep, appMu, th, seeding, crashes>>

NoRow == [st |-> "UNBORN", app |-> None, node |-> None]

\* seen is the state the goroutine last read or means to write.
IdleThread == [pc |-> "idle", op |-> "none", app |-> None, ins |-> None, seen |-> "none"]

Init ==
    /\ row = [i \in Instances |-> NoRow]
    /\ led = NewNodeLedger
    /\ vms = {}
    /\ snap = [a \in Apps |-> "none"]
    /\ told = [a \in Apps |-> "none"]
    /\ dep = [a \in Apps |-> "live"]
    /\ appMu = [a \in Apps |-> Free]
    /\ th = [t \in Threads |-> IdleThread]
    /\ seeding = {}
    /\ crashes = 0

-----------------------------------------------------------------------------
(* Goroutines and locks.                                                   *)

CanStart(t, op) ==
    /\ th[t].pc = "idle" /\ seeding = {}
    /\ op \in Ops \cap (IF t = Loop THEN LoopOps ELSE CallOps)

At(t, pc) == th[t].pc = pc

Op(t) == th[t].op

\* Engine.Prime makes the same calls as the wake path, under one deferred
\* unlock.
IsPrime(t) == Op(t) = "prime"

Ins(t) == th[t].ins

App(t) == th[t].app

Goto(t, pc) == th' = [th EXCEPT ![t].pc = pc]

GotoWith(t, pc, s) == th' = [th EXCEPT ![t].pc = pc, ![t].seen = s]

Return(t) == th' = [th EXCEPT ![t] = IdleThread]

CanLock(t) == appMu[App(t)] = Free

Lock(t) == appMu' = [appMu EXCEPT ![App(t)] = t]

Unlock(t) == appMu' = [appMu EXCEPT ![App(t)] = Free]

SetState(i, s) == row' = [row EXCEPT ![i].st = s]

\* Engine.transition: an edge the state machine does not have is refused; a
\* write that fails is only logged.
After(s, to) == IF CanTransition(s, to) THEN to ELSE s

Transition(i, to) ==
    \/ SetState(i, After(row[i].st, to))
    \/ "db" \in Faults /\ UNCHANGED row

\* DeleteInstance, whose error is only logged.
Delete(i) ==
    \/ SetState(i, "DELETED")
    \/ "db" \in Faults /\ UNCHANGED row

\* What a handler makes of reading the row again under the mutex: a read that
\* fails counts as a row that has moved on.
Rereads(same) == {same} \cup (IF "db" \in Faults THEN {FALSE} ELSE {})

RowsOf(a, states) == {i \in Instances : row[i].app = a /\ row[i].st \in states}

-----------------------------------------------------------------------------
(* Wake, AdmitInstance, AdmitInstanceForDeployment and Prime: phase 2.     *)

\* Wake's phase 1 looks for a RUNNING row under the mutex and returns it if
\* there is one; the other entry points skip that.
Begin(t, op, a) ==
    /\ CanStart(t, op) /\ op \in {"wake", "admit", "floor", "prime"}
    /\ op = "wake" => appMu[a] = Free /\ RowsOf(a, {"RUNNING"}) = {}
    /\ th' = [th EXCEPT ![t] = [pc |-> "place", op |-> op, app |-> a, ins |-> None, seen |-> "none"]]
    /\ UNCHANGED <<row, led, vms, snap, told, dep, appMu, seeding, crashes>>

AppMaxConc(a) ==
    IF MaxConc[a] <= 0 \/ MaxConc[a] > PlanLimit(a) THEN PlanLimit(a) ELSE MaxConc[a]

\* resolveApp wants an active app with a live deployment; Prime, which runs
\* before the deployment is live, does not ask.  Only the wake path asks
\* admitGate.  The chooser may pick any node, its view of them being stale.
Place(t) ==
    /\ At(t, "place") /\ CanLock(t)
    /\ ~IsPrime(t) => dep[App(t)] = "live"
    /\ Op(t) \in {"wake", "admit"} => led.perApp[App(t)] < AppMaxConc(App(t))
    /\ LET s == IF Op(t) \in {"wake", "admit"} /\ snap[App(t)] = "usable"
                THEN "WAKING" ELSE "COLD_BOOTING"
       IN \E i \in Instances, n \in Nodes :
            /\ row[i] = NoRow
            /\ row' = [row EXCEPT ![i] = [st |-> s, app |-> App(t), node |-> n]]
            /\ th' = [th EXCEPT ![t].pc = "created", ![t].ins = i, ![t].seen = s]
    /\ Lock(t)
    /\ UNCHANGED <<led, vms, snap, told, dep, seeding, crashes>>

\* resolveApp, the worker class, the rate limiter, admitGate, the chooser and
\* CreateInstance can each end the call before a row exists.
PlaceRefused(t) ==
    /\ At(t, "place") /\ CanLock(t)
    /\ Return(t)
    /\ UNCHANGED <<row, led, vms, snap, told, dep, appMu, seeding, crashes>>

\* Mutant of AdmitRequest: the app's own limit is not passed on.
AdmitRequestWithoutCap(t) ==
    [instance |-> Ins(t), app |-> App(t), dep |-> DepOf[App(t)], kind |-> "wake",
     node |-> row[Ins(t)].node, mb |-> RamMB[App(t)], vcpu |-> 1, maxConc |-> 0]

\* Mutant of AdmitRequest: every instance is charged the smallest size.
AdmitRequestUnmetered(t) ==
    [instance |-> Ins(t), app |-> App(t), dep |-> DepOf[App(t)], kind |-> "wake",
     node |-> row[Ins(t)].node, mb |-> 1, vcpu |-> 1, maxConc |-> MaxConc[App(t)]]

AdmitRequest(t) ==
    [instance |-> Ins(t), app |-> App(t), dep |-> DepOf[App(t)], kind |-> "wake",
     node |-> row[Ins(t)].node, mb |-> RamMB[App(t)], vcpu |-> 1, maxConc |-> MaxConc[App(t)]]

\* The wake path drops the mutex for the boot; Prime keeps it.
AdmitGranted(t) ==
    /\ At(t, "created") /\ Op(t) # "floor" /\ AdmitOutcome(led, AdmitRequest(t)) = "ok"
    /\ led' = Admit(led, AdmitRequest(t))
    /\ Goto(t, "boot")
    /\ IF IsPrime(t) THEN UNCHANGED appMu ELSE Unlock(t)
    /\ UNCHANGED <<row, vms, snap, told, dep, seeding, crashes>>

\* AdmitInstance turns a concurrency refusal into AtCapacity and deletes the
\* row; any other refusal fails it.
AdmitRefused(t) ==
    LET why == AdmitOutcome(led, AdmitRequest(t)) IN
    /\ At(t, "created") /\ Op(t) # "floor" /\ why # "ok"
    /\ IF Op(t) = "admit" /\ why = "plan_limit_concurrency"
         THEN Delete(Ins(t))
         ELSE Transition(Ins(t), "FAILED")
    /\ Unlock(t)
    /\ Return(t)
    /\ UNCHANGED <<led, vms, snap, told, dep, seeding, crashes>>

\* The floor path admits and returns: it never calls vmmd.
FloorGranted(t) ==
    /\ At(t, "created") /\ Op(t) = "floor" /\ AdmitOutcome(led, AdmitRequest(t)) = "ok"
    /\ led' = Admit(led, AdmitRequest(t))
    /\ Unlock(t)
    /\ Return(t)
    /\ UNCHANGED <<row, vms, snap, told, dep, seeding, crashes>>

\* Every refusal of the ledger is an *api.Problem, which the floor path
\* reports as AtCapacity; it deletes the row and does not call release().
FloorRefused(t) ==
    /\ At(t, "created") /\ Op(t) = "floor" /\ AdmitOutcome(led, AdmitRequest(t)) # "ok"
    /\ Delete(Ins(t))
    /\ Return(t)
    /\ UNCHANGED <<led, vms, snap, told, dep, appMu, seeding, crashes>>

\* loadSealedEnvFor fails after the admit: the wake path returns with the
\* mutex held, Prime under its deferred unlock.
EnvFails(t) ==
    /\ "env" \in Faults
    /\ At(t, "created") /\ Op(t) # "floor" /\ AdmitOutcome(led, AdmitRequest(t)) = "ok"
    /\ led' = Admit(led, AdmitRequest(t))
    /\ IF IsPrime(t) THEN Unlock(t) ELSE UNCHANGED appMu
    /\ Return(t)
    /\ UNCHANGED <<row, vms, snap, told, dep, seeding, crashes>>

-----------------------------------------------------------------------------
(* Phases 3 and 4.  The wake path holds no mutex in phase 3.               *)

UnlockIfPrime(t) == IF IsPrime(t) THEN Unlock(t) ELSE UNCHANGED appMu

\* Destroy as the engine sees it: best effort, so an error, or a node that
\* cannot be reached, changes nothing.
BestEffortDestroy(i) ==
    {vms \ {i}} \cup (IF "destroy" \in Faults THEN {vms} ELSE {})

\* The layer's signature does not verify: FAILED first, then the release.
VerifyFails(t) ==
    /\ "verify" \in Faults /\ At(t, "boot")
    /\ Transition(Ins(t), "FAILED")
    /\ Goto(t, "release")
    /\ UNCHANGED <<led, vms, snap, told, dep, appMu, seeding, crashes>>

ReleaseAfterWrite(t) ==
    /\ At(t, "release")
    /\ led' = Release(led, Ins(t))
    /\ Return(t)
    /\ UnlockIfPrime(t)
    /\ UNCHANGED <<row, vms, snap, told, dep, seeding, crashes>>

VmmdBoots(t) ==
    /\ At(t, "boot")
    /\ vms' = vms \cup {Ins(t)}
    /\ Goto(t, "booted")
    /\ UNCHANGED <<row, led, snap, told, dep, appMu, seeding, crashes>>

\* A restore that vmmd served with a cold boot marks the snapshot stale.
BootReply(t) ==
    /\ At(t, "booted")
    /\ \/ UNCHANGED snap
       \/ th[t].seen = "WAKING" /\ snap' = [snap EXCEPT ![App(t)] = "none"]
    /\ Goto(t, "commit")
    /\ UNCHANGED <<row, led, vms, told, dep, appMu, seeding, crashes>>

\* Mutant of BootError: the reservation is not given back.
BootErrorKeepsReservation(t) ==
    /\ At(t, "boot") \/ (At(t, "booted") /\ "lost_reply" \in Faults)
    /\ GotoWith(t, "write", "FAILED")
    /\ UNCHANGED <<row, led, vms, snap, told, dep, appMu, seeding, crashes>>

\* Mutant of BootError: the row is not written.
BootErrorForgetsRow(t) ==
    /\ At(t, "boot") \/ (At(t, "booted") /\ "lost_reply" \in Faults)
    /\ led' = Release(led, Ins(t))
    /\ Return(t)
    /\ UnlockIfPrime(t)
    /\ UNCHANGED <<row, vms, snap, told, dep, seeding, crashes>>


\* The RPC fails or its deadline passes.  vmmd cleans up a boot that it knows
\* has failed; a reply that is lost leaves the microVM up.
BootError(t) ==
    /\ At(t, "boot") \/ (At(t, "booted") /\ "lost_reply" \in Faults)
    /\ led' = Release(led, Ins(t))
    /\ GotoWith(t, "write", "FAILED")
    /\ UNCHANGED <<row, vms, snap, told, dep, appMu, seeding, crashes>>

\* Mutant of CommitRunning: phase 4 does not read the row again.
CommitUnchecked(t) ==
    /\ At(t, "commit")
    /\ ~IsPrime(t) => CanLock(t)
    /\ Transition(Ins(t), "RUNNING")
    /\ IF IsPrime(t) THEN Goto(t, "drain") ELSE Return(t)
    /\ UNCHANGED <<led, vms, snap, told, dep, appMu, seeding, crashes>>

\* Phase 4 commits only if the row is still in the state phase 2 gave it;
\* Prime, which never let the mutex go, does not look.
CommitRunning(t) ==
    /\ At(t, "commit")
    /\ ~IsPrime(t) => CanLock(t) /\ row[Ins(t)].st = th[t].seen
    /\ Transition(Ins(t), "RUNNING")
    /\ IF IsPrime(t) THEN Goto(t, "drain") ELSE Return(t)
    /\ UNCHANGED <<led, vms, snap, told, dep, appMu, seeding, crashes>>

\* Mutant of CommitStolen: the microVM is left behind.
CommitStolenKeepsVM(t) ==
    /\ At(t, "commit") /\ ~IsPrime(t) /\ CanLock(t)
    /\ FALSE \in Rereads(row[Ins(t)].st = th[t].seen)
    /\ led' = Release(led, Ins(t))
    /\ Return(t)
    /\ UNCHANGED <<row, vms, snap, told, dep, appMu, seeding, crashes>>

CommitStolen(t) ==
    /\ At(t, "commit") /\ ~IsPrime(t) /\ CanLock(t)
    /\ FALSE \in Rereads(row[Ins(t)].st = th[t].seen)
    /\ led' = Release(led, Ins(t))
    /\ Lock(t)
    /\ Goto(t, "abort")
    /\ UNCHANGED <<row, vms, snap, told, dep, seeding, crashes>>

\* SetInstanceRuntime fails: the microVM is destroyed, the reservation released
\* and FAILED written (Write), all under the mutex.
CommitNotRecorded(t) ==
    /\ "runtime" \in Faults /\ At(t, "commit")
    /\ ~IsPrime(t) => CanLock(t) /\ row[Ins(t)].st = th[t].seen
    /\ Lock(t)
    /\ Goto(t, "unrecorded")
    /\ UNCHANGED <<row, led, vms, snap, told, dep, seeding, crashes>>

DestroyUnrecorded(t) ==
    /\ At(t, "unrecorded")
    /\ vms' \in BestEffortDestroy(Ins(t))
    /\ Goto(t, "unreserve")
    /\ UNCHANGED <<row, led, snap, told, dep, appMu, seeding, crashes>>

ReleaseUnrecorded(t) ==
    /\ At(t, "unreserve")
    /\ led' = Release(led, Ins(t))
    /\ GotoWith(t, "write", "FAILED")
    /\ UNCHANGED <<row, vms, snap, told, dep, appMu, seeding, crashes>>

Abort(t) ==
    /\ At(t, "abort")
    /\ vms' \in BestEffortDestroy(Ins(t))
    /\ Unlock(t)
    /\ Return(t)
    /\ UNCHANGED <<row, led, snap, told, dep, seeding, crashes>>

-----------------------------------------------------------------------------
(* The write that ends a handler, after it has released the reservation.   *)

\* The watchdog fails the deployment of a cold boot that timed out; a liveness
\* kill may fail it or evict the app.  Both writes are best effort, and an app
\* that is evicted stays so.
DepAfter(t) ==
    LET old == dep[App(t)] IN
    IF old = "evicted" THEN {old}
    ELSE IF Op(t) = "kill" /\ th[t].seen = "FAILED"
           THEN {"failed"} \cup (IF "db" \in Faults THEN {old} ELSE {})
    ELSE IF Op(t) = "live" THEN {old, "failed", "evicted"}
    ELSE {old}

\* snapshot_written is sent; imaged may be busy with an earlier one.
Written(a) == [told EXCEPT ![a] = IF @ = "none" THEN "written" ELSE @]

\* Only the write of a wake whose boot failed is made without the mutex.  A
\* finished park tells imaged of its blob.
Write(t) ==
    LET a == App(t) to == th[t].seen IN
    /\ At(t, "write")
    /\ Transition(Ins(t), to)
    /\ told' = IF to = "PARKED" THEN Written(a) ELSE told
    /\ \E d \in DepAfter(t) : dep' = [dep EXCEPT ![a] = d]
    /\ IF Op(t) \in {"wake", "admit"} /\ appMu[a] # t THEN UNCHANGED appMu ELSE Unlock(t)
    /\ Return(t)
    /\ UNCHANGED <<led, vms, snap, seeding, crashes>>

-----------------------------------------------------------------------------
(* Park and Evict: the reaper and ParkWithReason pick a RUNNING row, then   *)
(* lockedRunning looks again under the mutex.                              *)

Plan(t, op, i) ==
    /\ CanStart(t, op) /\ op \in {"park", "evict"}
    /\ row[i].st = "RUNNING"
    /\ th' = [th EXCEPT ![t] = [pc |-> op, op |-> op, app |-> row[i].app, ins |-> i, seen |-> "RUNNING"]]
    /\ UNCHANGED <<row, led, vms, snap, told, dep, appMu, seeding, crashes>>

\* Mutant of LockedRunning: the row is not looked at again under the mutex.
LockedUnchecked(t) ==
    /\ (At(t, "park") \/ At(t, "evict")) /\ CanLock(t)
    /\ Lock(t) /\ Goto(t, IF At(t, "park") THEN "drain" ELSE "destroy")
    /\ UNCHANGED <<row, led, vms, snap, told, dep, seeding, crashes>>

LockedRunning(t) ==
    /\ (At(t, "park") \/ At(t, "evict")) /\ CanLock(t)
    /\ \E same \in Rereads(row[Ins(t)].st = "RUNNING") :
         IF same THEN Lock(t) /\ Goto(t, IF At(t, "park") THEN "drain" ELSE "destroy")
         ELSE Return(t) /\ UNCHANGED appMu
    /\ UNCHANGED <<row, led, vms, snap, told, dep, seeding, crashes>>

\* Mutant of BeginPark: the whole reservation is given back, not the slot.
BeginParkReleases(t) ==
    /\ At(t, "drain")
    /\ led' = Release(led, Ins(t))
    /\ SetState(Ins(t), "SNAPSHOTTING") \/ ("stamp" \in Faults /\ UNCHANGED row)
    /\ Goto(t, "snap")
    /\ UNCHANGED <<vms, snap, told, dep, appMu, seeding, crashes>>

\* snapshotAndPark after the tail drain: the slot goes back and SNAPSHOTTING
\* is written without asking the state machine; an error is only logged.
BeginPark(t) ==
    /\ At(t, "drain")
    /\ led' = BeginSnapshot(led, Ins(t))
    /\ SetState(Ins(t), "SNAPSHOTTING") \/ ("stamp" \in Faults /\ UNCHANGED row)
    /\ Goto(t, "snap")
    /\ UNCHANGED <<vms, snap, told, dep, appMu, seeding, crashes>>

\* Mutant of DrainGivesUp: an early return without the unlock.
DrainGivesUpLocked(t) ==
    /\ At(t, "drain")
    /\ Return(t)
    /\ UNCHANGED <<row, led, vms, snap, told, dep, appMu, seeding, crashes>>

\* The caller's context ends during the drain.
DrainGivesUp(t) ==
    /\ At(t, "drain")
    /\ Unlock(t)
    /\ Return(t)
    /\ UNCHANGED <<row, led, vms, snap, told, dep, seeding, crashes>>

\* captureWarmSnapshotLocked: not wanted, taken, failed in vmmd, or given up
\* because the app or its account cannot be loaded.
CaptureWarm(t) ==
    /\ At(t, "snap")
    /\ \/ told' \in {told, Written(App(t))} /\ Goto(t, "pause") /\ UNCHANGED <<led, vms, appMu>>
       \/ /\ vms' \in BestEffortDestroy(Ins(t))
          /\ led' = Release(led, Ins(t))
          /\ GotoWith(t, "write", "STOPPED")
          /\ UNCHANGED <<told, appMu>>
       \/ "warm_load" \in Faults /\ Unlock(t) /\ Return(t) /\ UNCHANGED <<led, vms, told>>
    /\ UNCHANGED <<row, snap, dep, seeding, crashes>>

\* Mutant of PauseAndSnapshot: a failed snapshot is tried again under the
\* mutex.
PauseAndRetry(t) ==
    /\ At(t, "pause")
    /\ \/ /\ Ins(t) \in vms /\ vms' = vms \ {Ins(t)}
          /\ led' = Release(led, Ins(t))
          /\ GotoWith(t, "write", "PARKED")
       \/ /\ Goto(t, "drain")
          /\ UNCHANGED <<vms, led>>
    /\ UNCHANGED <<row, snap, told, dep, appMu, seeding, crashes>>

\* vmmd stops the microVM it has snapshotted, and tries to stop one whose
\* snapshot fails.
PauseAndSnapshot(t) ==
    /\ At(t, "pause")
    /\ led' = Release(led, Ins(t))
    /\ \/ /\ Ins(t) \in vms /\ vms' = vms \ {Ins(t)}
          /\ GotoWith(t, "write", "PARKED")
       \/ /\ vms' \in BestEffortDestroy(Ins(t))
          /\ GotoWith(t, "write", "STOPPED")
    /\ UNCHANGED <<row, snap, told, dep, appMu, seeding, crashes>>

\* A destroy that fails leaves the instance as it is.
Evict(t) ==
    /\ At(t, "destroy")
    /\ \/ /\ vms' = vms \ {Ins(t)}
          /\ led' = Release(led, Ins(t))
          /\ GotoWith(t, "write", "STOPPED")
          /\ UNCHANGED appMu
       \/ /\ "destroy" \in Faults
          /\ Unlock(t) /\ Return(t)
          /\ UNCHANGED <<vms, led>>
    /\ UNCHANGED <<row, snap, told, dep, seeding, crashes>>

-----------------------------------------------------------------------------
(* The watchdog, the liveness kill and the dead-node reconciler.           *)

Stuck == {"WAKING", "COLD_BOOTING", "SNAPSHOTTING"}

TerminalState == [s \in Stuck |->
    CASE s = "WAKING" -> "COLD_BOOTING" [] s = "COLD_BOOTING" -> "FAILED" [] s = "SNAPSHOTTING" -> "STOPPED"]

\* Mutant of ListStuck: the sweep forgets the SNAPSHOTTING bucket.
ListStuckBoots(t, i) ==
    /\ CanStart(t, "kill")
    /\ row[i].st \in {"WAKING", "COLD_BOOTING"}
    /\ ~(row[i].st = "WAKING" /\ snap[row[i].app] = "usable")
    /\ th' = [th EXCEPT ![t] = [pc |-> "kill", op |-> "kill", app |-> row[i].app, ins |-> i, seen |-> row[i].st]]
    /\ UNCHANGED <<row, led, vms, snap, told, dep, appMu, seeding, crashes>>

\* One row of Watchdog.runOne's list.  A WAKING row whose deployment has a
\* snapshot that is not stale is skipped.
ListStuck(t, i) ==
    /\ CanStart(t, "kill")
    /\ row[i].st \in Stuck
    /\ ~(row[i].st = "WAKING" /\ snap[row[i].app] = "usable")
    /\ th' = [th EXCEPT ![t] = [pc |-> "kill", op |-> "kill", app |-> row[i].app, ins |-> i, seen |-> row[i].st]]
    /\ UNCHANGED <<row, led, vms, snap, told, dep, appMu, seeding, crashes>>

\* KillStuck releases the reservation even when the row has moved on.
KillStuck(t) ==
    /\ At(t, "kill") /\ CanLock(t)
    /\ led' = Release(led, Ins(t))
    /\ \E same \in Rereads(row[Ins(t)].st = th[t].seen) :
         IF same THEN Lock(t) /\ GotoWith(t, "killing", TerminalState[th[t].seen])
         ELSE Return(t) /\ UNCHANGED appMu
    /\ UNCHANGED <<row, vms, snap, told, dep, seeding, crashes>>

\* The destroy of KillStuck and of DestroyForLivenessFailure.
DestroyKilled(t) ==
    /\ At(t, "killing")
    /\ vms' \in BestEffortDestroy(Ins(t))
    /\ Goto(t, "write")
    /\ UNCHANGED <<row, led, snap, told, dep, appMu, seeding, crashes>>

\* vmmd reports a microVM that no longer answers its probe.
ReportLiveness(t, i) ==
    /\ CanStart(t, "live")
    /\ i \in vms
    /\ th' = [th EXCEPT ![t] = [pc |-> "live", op |-> "live", app |-> row[i].app, ins |-> i, seen |-> "STOPPED"]]
    /\ UNCHANGED <<row, led, vms, snap, told, dep, appMu, seeding, crashes>>

\* Mutant of DestroyForLivenessFailure: the row is not read again.
LivenessUnchecked(t) ==
    /\ At(t, "live") /\ CanLock(t)
    /\ led' = Release(led, Ins(t))
    /\ Lock(t) /\ Goto(t, "killing")
    /\ snap' = [snap EXCEPT ![App(t)] = "none"]
    /\ UNCHANGED <<row, vms, told, dep, seeding, crashes>>

\* Here too the reservation goes even when the row is not RUNNING.
DestroyForLivenessFailure(t) ==
    /\ At(t, "live") /\ CanLock(t)
    /\ led' = Release(led, Ins(t))
    /\ \E same \in Rereads(row[Ins(t)].st = "RUNNING") :
         IF same THEN
              /\ Lock(t) /\ Goto(t, "killing")
              /\ \/ snap' = [snap EXCEPT ![App(t)] = "none"]
                 \/ "db" \in Faults /\ UNCHANGED snap
         ELSE Return(t) /\ UNCHANGED <<appMu, snap>>
    /\ UNCHANGED <<row, vms, told, dep, seeding, crashes>>

\* One row of ReconcileDeadNodeInstances' list.  A node counts as dead after one
\* failed ping or a late heartbeat, so it may answer and its microVMs may be up.
ListOnDeadNode(t, i) ==
    /\ CanStart(t, "dead") /\ "node" \in Faults
    /\ row[i].st = "RUNNING"
    /\ th' = [th EXCEPT ![t] = [pc |-> "dead", op |-> "dead", app |-> row[i].app, ins |-> i, seen |-> "RUNNING"]]
    /\ UNCHANGED <<row, led, vms, snap, told, dep, appMu, seeding, crashes>>

\* An update of the row if it is still RUNNING, without the mutex and whatever
\* the node does by now; the release follows.
FailOnDeadNode(t) ==
    /\ At(t, "dead")
    /\ \E same \in Rereads(row[Ins(t)].st = "RUNNING") :
         IF same THEN SetState(Ins(t), "FAILED") /\ Goto(t, "release")
         ELSE Return(t) /\ UNCHANGED row
    /\ UNCHANGED <<led, vms, snap, told, dep, appMu, seeding, crashes>>

-----------------------------------------------------------------------------
(* imaged, the nodes, and schedd's own crashes.                            *)

\* imaged's handleSnapshotWritten inserts the row of the blob it was told of; one
\* that is there already and not stale will do.
RecordSnapshot(a) ==
    /\ told[a] = "written"
    /\ \/ snap' = [snap EXCEPT ![a] = "usable"] /\ told' = [told EXCEPT ![a] = "recorded"]
       \/ "db" \in Faults /\ told' = [told EXCEPT ![a] = "none"] /\ UNCHANGED snap
    /\ UNCHANGED <<row, led, vms, dep, appMu, th, seeding, crashes>>

\* It then marks the deployment live, whatever has become of it since.  Another
\* snapshot_written may have arrived meanwhile.
MarkDeploymentLive(a) ==
    /\ told[a] = "recorded"
    /\ \/ dep' = [dep EXCEPT ![a] = IF @ = "failed" THEN "live" ELSE @]
       \/ "db" \in Faults /\ UNCHANGED dep
    /\ \E next \in {"none", "written"} : told' = [told EXCEPT ![a] = next]
    /\ UNCHANGED <<row, led, vms, snap, appMu, th, seeding, crashes>>

\* A host dies with all its microVMs.
NodeDies(n) ==
    /\ "node" \in Faults
    /\ vms' = {i \in vms : row[i].node # n} /\ vms' # vms
    /\ UNCHANGED <<row, led, snap, told, dep, appMu, th, seeding, crashes>>

\* The goroutines, the mutexes and the ledger are gone; the rows and the
\* microVMs stay, and a boot in flight may still come up.
Crash ==
    /\ crashes < MaxCrashes
    /\ crashes' = crashes + 1
    /\ \E late \in SUBSET {Ins(t) : t \in {u \in Threads : At(u, "boot")}} : vms' = vms \cup late
    /\ th' = [t \in Threads |-> IdleThread]
    /\ appMu' = [a \in Apps |-> Free]
    /\ led' = NewNodeLedger
    /\ seeding' = {i \in Instances : row[i].st \in CountsForRAM}
    /\ UNCHANGED <<row, snap, told, dep>>

\* SeedLedger's request names no deployment, and a refusal is only logged.
\* Rows come newest first within an app; as SetInstanceRuntime restamps
\* started_at, every order is allowed here.
SeedRequest(i) ==
    [instance |-> i, app |-> row[i].app, dep |-> NoDeployment, kind |-> "wake",
     node |-> row[i].node, mb |-> RamMB[row[i].app], vcpu |-> 1, maxConc |-> MaxConc[row[i].app]]

SeedRow(i) ==
    /\ i \in seeding
    /\ seeding' = seeding \ {i}
    /\ led' = IF row[i].st = "SNAPSHOTTING"
              THEN BeginSnapshot(AfterAdmit(led, SeedRequest(i)), i)
              ELSE AfterAdmit(led, SeedRequest(i))
    /\ UNCHANGED <<row, vms, snap, told, dep, appMu, th, crashes>>

\* An app whose account or instances cannot be read, or whose plan is unknown,
\* is passed over with all its rows.
SeedSkipsApp(a) ==
    LET rows == RowsOf(a, CountsForRAM) IN
    /\ "db" \in Faults \/ PlanOf[a] \notin Plans
    /\ rows # {} /\ rows \subseteq seeding
    /\ seeding' = seeding \ rows
    /\ UNCHANGED <<row, led, vms, snap, told, dep, appMu, th, crashes>>

-----------------------------------------------------------------------------

LocksApp(t) ==
    \/ Place(t) \/ PlaceRefused(t) \/ CommitRunning(t) \/ CommitStolen(t)
    \/ CommitNotRecorded(t) \/ LockedRunning(t) \/ KillStuck(t)
    \/ DestroyForLivenessFailure(t)

Continues(t) ==
    \/ AdmitGranted(t) \/ AdmitRefused(t) \/ EnvFails(t)
    \/ FloorGranted(t) \/ FloorRefused(t)
    \/ VerifyFails(t) \/ ReleaseAfterWrite(t) \/ VmmdBoots(t) \/ BootReply(t)
    \/ BootError(t) \/ DestroyUnrecorded(t) \/ ReleaseUnrecorded(t)
    \/ Abort(t) \/ Write(t)
    \/ BeginPark(t) \/ DrainGivesUp(t) \/ CaptureWarm(t) \/ PauseAndSnapshot(t)
    \/ Evict(t) \/ DestroyKilled(t) \/ FailOnDeadNode(t)

Starts(t) ==
    \/ \E op \in Ops, a \in Apps : Begin(t, op, a)
    \/ \E i \in Instances :
          \/ \E op \in Ops : Plan(t, op, i)
          \/ ListStuck(t, i) \/ ReportLiveness(t, i) \/ ListOnDeadNode(t, i)

Next ==
    \/ \E t \in Threads : LocksApp(t) \/ Continues(t) \/ Starts(t)
    \/ \E a \in Apps : RecordSnapshot(a) \/ MarkDeploymentLive(a) \/ SeedSkipsApp(a)
    \/ \E n \in Nodes : NodeDies(n)
    \/ Crash
    \/ \E i \in Instances : SeedRow(i)

Spec == Init /\ [][Next]_vars

\* A goroutine that can go on does: Go schedules every runnable goroutine, and
\* the boots, the destroys and the reaper's parks carry a deadline.  Prime and
\* ParkWithReason call PauseAndSnapshot without one: for these it is assumed that
\* vmmd answers.  sync.Mutex hands itself to a waiter that has waited long
\* enough, hence strong fairness at a lock.  The watchdog ticks every second and
\* visits every row it finds, and SeedLedger runs to its end before schedd
\* serves.  Nothing is assumed of imaged or of the nodes.
Fairness ==
    /\ \A t \in Threads : WF_vars(Continues(t)) /\ SF_vars(LocksApp(t))
    /\ \A i \in Instances : SF_vars(ListStuck(Loop, i)) /\ WF_vars(SeedRow(i))

FairSpec == Spec /\ Fairness

-----------------------------------------------------------------------------
(* Properties.                                                             *)

\* Every variable stays in its type; in particular the ledger's totals never
\* go below zero, whatever the engine calls in whatever order.
EngineTypeOK ==
    /\ row \in [Instances -> [st: States \cup {"UNBORN", "DELETED"},
                              app: Apps \cup {None}, node: Nodes \cup {None}]]
    /\ led \in Ledger
    /\ vms \subseteq Instances /\ seeding \subseteq Instances
    /\ snap \in [Apps -> {"none", "usable"}]
    /\ told \in [Apps -> {"none", "written", "recorded"}]
    /\ dep \in [Apps -> {"live", "failed", "evicted"}]
    /\ appMu \in [Apps -> Threads \cup {Free}]
    /\ crashes \in 0..MaxCrashes

\* A goroutine is between a ledger call and the row write that goes with it.
InFlight(i, pcs) == \E t \in Threads : Ins(t) = i /\ th[t].pc \in pcs

Settled(i) == seeding = {} /\ ~InFlight(i, {"created", "write"})

\* "Nothing boots a VM without an Admit first": outside the few lines between
\* a ledger call and its row write, every row that section 6.2 counts holds a
\* reservation, and a concurrency slot if it counts for concurrency.
RowsReserved ==
    \A i \in Instances :
        (Settled(i) /\ row[i].st \in CountsForRAM) =>
            /\ Admitted(led, i)
            /\ row[i].st \in CountsForConcurrency => led.entries[i].countsConc

\* The other direction: no reservation outlives its row.  Each handler gives
\* the reservation back on every path on which its row leaves the counted
\* states, so that capacity is never lost until a restart.
ReservationsHaveRows ==
    \A i \in Instances :
        Admitted(led, i) => row[i].st \in CountsForRAM \/ InFlight(i, {"release"})

\* The goroutine takes an instance down, and has not yet written what became of
\* its row.
Retires(t) ==
    \/ th[t].pc \in {"drain", "snap", "pause", "destroy", "unrecorded", "unreserve"}
    \/ th[t].pc \in {"killing", "write"} /\ Op(t) \notin {"wake", "admit", "kill"}

\* The goroutine has picked an instance and waits for its app's mutex, or is the
\* reconciler, which only updates a RUNNING row and releases its reservation.
StandsBy(t) ==
    \/ th[t].pc \in {"park", "evict", "kill", "live"}
    \/ Op(t) = "dead"

\* Whoever drains, snapshots, stops or evicts an instance has it alone until the
\* row is written: no other goroutine boots, commits, parks or destroys it,
\* however stale the state on which it picked the instance was, and also when a
\* row write or a destroy has failed before.  The exception is the dead-node
\* reconciler, which takes no mutex.
RetiresAlone ==
    \A t \in Threads : Retires(t) =>
        \A u \in Threads \ {t} : Ins(u) = Ins(t) => StandsBy(u)


\* The watchdog passes over a WAKING row whose snapshot is usable.  It may, as
\* long as schedd does not crash: the goroutine that restores the row is still
\* there to commit it or to write it off.
WakingHasOwner ==
    \A i \in Instances :
        row[i].st = "WAKING" =>
            InFlight(i, {"created", "boot", "booted", "commit", "unrecorded", "unreserve", "write", "release"})

\* Section 6.2-1 of the implementation spec over the settled rows: at most
\* max_concurrency of an app's rows are WAKING, COLD_BOOTING or RUNNING, not
\* counting rows a handler is about to admit or to write off.  With those the
\* table may exceed the limit for a moment: BootError gives the slot back before
\* it writes FAILED, but no microVM is kept for such a row.
ConcurrencyBound ==
    \A a \in Apps :
        Cardinality({i \in RowsOf(a, CountsForConcurrency) : Settled(i)}) <= AppMaxConc(a)

\* Section 6.2-2 over the settled rows: the RAM of those that occupy a node
\* stays within the node's ceiling.
RamBound ==
    \A n \in Nodes :
        Total([i \in Instances |->
                 IF row[i].node = n /\ row[i].st \in CountsForRAM /\ Settled(i)
                   THEN RamMB[row[i].app] ELSE 0], MaxMB) <= Ceiling(n)

\* As long as no host dies, a RUNNING row has a microVM behind it: what the
\* gateway routes to exists.
RunningHasVM ==
    \A i \in Instances :
        (row[i].st = "RUNNING" /\ ~InFlight(i, {"write"})) => i \in vms

\* A microVM that is up belongs to a row that is charged for it, or to a
\* goroutine that is about to commit or destroy it.
NoOrphanVM ==
    \A i \in vms :
        row[i].st \in CountsForRAM \/ InFlight(i, {"booted", "commit", "abort"})

\* No goroutine returns to its caller with an app's mutex held.
IdleHoldsNothing ==
    \A a \in Apps : appMu[a] \in Threads => th[appMu[a]].pc # "idle"

\* "An illegal transition can never reach the table": a row changes state only
\* along an edge of the state machine, is born as WAKING or COLD_BOOTING, and
\* is deleted only before it was booted.
LegalEdges ==
    [][\A i \in Instances : row'[i].st # row[i].st =>
          \/ CanTransition(row[i].st, row'[i].st)
          \/ row[i].st = "UNBORN" /\ row'[i].st \in {"WAKING", "COLD_BOOTING"}
          \/ row[i].st = "COLD_BOOTING" /\ row'[i].st = "DELETED"
          \/ row[i].st = "WAKING" /\ row'[i].st = "DELETED"]_row

\* An app's mutex that a wake, a prime, a park, an eviction or a kill has taken
\* is eventually free again, so the next wake of the app gets its turn.  The
\* floor path and a sealed environment that cannot be loaded are left out: they
\* return with the mutex held (IdleHoldsNothing).
MutexFreed == \A a \in Apps : (appMu[a] # Free) ~> (appMu[a] = Free)

\* Section 6.1's timers: a row does not stay WAKING, COLD_BOOTING or
\* SNAPSHOTTING for ever; its goroutine or the watchdog moves it on.
StuckResolved == \A i \in Instances : (row[i].st \in Stuck) ~> (row[i].st \notin Stuck)

=============================================================================
