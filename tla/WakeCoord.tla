----------------------------- MODULE WakeCoord ------------------------------
(***************************************************************************)
(* The wake coordinator of pkg/sched/wake_coord.go and its one user,       *)
(* Engine.EnsureWake, for one app: the first caller leads and runs Wake,   *)
(* the callers that come while it does wait for its outcome.  Entries of   *)
(* two apps never meet, so one app is enough.                              *)
(*                                                                         *)
(* Every method of the coordinator runs under its mutex and is one action, *)
(* except that Await reads the outcome without the mutex and so may see    *)
(* Forget's overwrite half done.                                           *)
(***************************************************************************)
EXTENDS Naturals, FiniteSets

CONSTANTS
    Callers,        \* goroutines that call EnsureWake
    Calls,          \* wakeCoordCall objects, reused when garbage
    NoCall,
    Cap,            \* wakeCoordCap
    MaxForgets      \* bound: how often the app may be deleted

\* What a wake ends with; "deleted" is ErrAppDeleted, "torn" a mixture of "ok"
\* and "deleted" (an instance and an error, or neither), "zero" the value a call
\* is born with.
Results == {"ok", "err"}

Outcomes == Results \cup {"deleted", "torn", "zero"}

ASSUME CoordAssumption ==
    /\ IsFiniteSet(Callers) /\ NoCall \notin Calls
    /\ Cardinality(Calls) > Cardinality(Callers)
    /\ Cap \in Nat \ {0} /\ MaxForgets \in Nat

VARIABLES
    inflight,   \* the app's entry, a call or NoCall
    calls,      \* call -> its fields
    caller,     \* goroutine -> where it is, the call it holds, what it will return
    torn,       \* the call whose outcome Forget is overwriting, or NoCall
    forgets,
    known       \* history: the outcomes that became known while a caller waited

coordVars == <<inflight, calls, caller, torn, forgets, known>>

NewCall(n) == [done |-> FALSE, completed |-> FALSE, outcome |-> "zero", waiters |-> n]

Away == [pc |-> "away", call |-> NoCall, out |-> "none"]

CoordInit ==
    /\ inflight = NoCall
    /\ calls = [c \in Calls |-> NewCall(0)]
    /\ caller = [k \in Callers |-> Away]
    /\ torn = NoCall
    /\ forgets = 0
    /\ known = [k \in Callers |-> {}]

-----------------------------------------------------------------------------

Waiting == {k \in Callers : caller[k].pc \in {"wake", "complete", "await"}}

Holders(c) == {k \in Callers : caller[k].call = c}

Garbage == {c \in Calls : c # inflight /\ Holders(c) = {}}

\* The coordinator's mutex is free: Forget holds it while it overwrites.
Unlocked == torn = NoCall

\* What known becomes when o becomes known to some of the callers.
Spread(o, some) ==
    [k \in Callers |-> IF k \in some THEN known[k] \cup {o} ELSE known[k]]

At(k, pc) == caller[k].pc = pc

MoveTo(k, pc, o) == caller' = [caller EXCEPT ![k].pc = pc, ![k].out = o]

\* Mutant of Joinable: an entry that is already completed is joined too.
JoinableStale == inflight # NoCall

\* Enter finds an entry whose wake has not completed.
Joinable == inflight # NoCall /\ ~calls[inflight].completed

EnterAsFollower(k) ==
    /\ At(k, "away") /\ Unlocked
    /\ Joinable /\ calls[inflight].waiters < Cap
    /\ calls' = [calls EXCEPT ![inflight].waiters = @ + 1]
    /\ caller' = [caller EXCEPT ![k] = [pc |-> "await", call |-> inflight, out |-> "none"]]
    /\ UNCHANGED <<inflight, torn, forgets, known>>

EnterQueueFull(k) ==
    /\ At(k, "away") /\ Unlocked
    /\ Joinable /\ calls[inflight].waiters >= Cap
    /\ MoveTo(k, "gone", "full")
    /\ UNCHANGED <<inflight, calls, torn, forgets, known>>

\* No entry, or a completed one, which is dropped.
EnterAsLeader(k) ==
    LET c == CHOOSE g \in Garbage : TRUE IN
    /\ At(k, "away") /\ Unlocked
    /\ ~Joinable
    /\ calls' = [calls EXCEPT ![c] = NewCall(1)]
    /\ inflight' = c
    /\ caller' = [caller EXCEPT ![k] = [pc |-> "wake", call |-> c, out |-> "none"]]
    /\ UNCHANGED <<torn, forgets, known>>

\* Engine.Wake returns to the leader, within the TTL of its detached context.
WakeEnds(k) ==
    /\ At(k, "wake")
    /\ \E o \in Results : MoveTo(k, "complete", o) /\ known' = Spread(o, {k})
    /\ UNCHANGED <<inflight, calls, torn, forgets>>

\* Mutant of Complete: done is closed only for a success.
CompleteKeepsDoneOpen(k) ==
    LET c == caller[k].call o == caller[k].out IN
    /\ At(k, "complete") /\ Unlocked
    /\ IF calls[c].done
         THEN /\ UNCHANGED calls
              /\ known' = [known EXCEPT ![k] = {}]
         ELSE /\ calls' = [calls EXCEPT ![c].outcome = o, ![c].completed = TRUE, ![c].done = (o = "ok")]
              /\ known' = [Spread(o, Waiting) EXCEPT ![k] = {}]
    /\ MoveTo(k, "release", o)
    /\ UNCHANGED <<inflight, torn, forgets>>

\* Nothing happens if Forget has closed done already.
Complete(k) ==
    LET c == caller[k].call o == caller[k].out IN
    /\ At(k, "complete") /\ Unlocked
    /\ IF calls[c].done
         THEN /\ UNCHANGED calls
              /\ known' = [known EXCEPT ![k] = {}]
         ELSE /\ calls' = [calls EXCEPT ![c].outcome = o, ![c].completed = TRUE, ![c].done = TRUE]
              /\ known' = [Spread(o, Waiting) EXCEPT ![k] = {}]
    /\ MoveTo(k, "release", o)
    /\ UNCHANGED <<inflight, torn, forgets>>

AwaitDone(k) ==
    /\ At(k, "await") /\ calls[caller[k].call].done
    /\ MoveTo(k, "release", calls[caller[k].call].outcome)
    /\ known' = [known EXCEPT ![k] = {}]
    /\ UNCHANGED <<inflight, calls, torn, forgets>>

\* Mutant of AwaitCancelled: a caller that gives up returns without Release.
AwaitCancelledLeaks(k) ==
    /\ At(k, "await")
    /\ caller' = [caller EXCEPT ![k] = Away]
    /\ known' = [known EXCEPT ![k] = {}]
    /\ UNCHANGED <<inflight, calls, torn, forgets>>

AwaitCancelled(k) ==
    /\ At(k, "await")
    /\ MoveTo(k, "release", "cancelled")
    /\ known' = [known EXCEPT ![k] = {}]
    /\ UNCHANGED <<inflight, calls, torn, forgets>>

\* Mutant of Drained: the count is compared before it is decremented.
DrainedOffByOne(c) == calls[c].completed /\ calls[c].waiters = 0

\* This release is the last one of a completed call.
Drained(c) == calls[c].completed /\ calls[c].waiters = 1

\* The entry of the app goes, whichever call it now is.  A call nobody holds
\* any more is garbage and is wiped.
Release(k) ==
    LET c == caller[k].call IN
    /\ At(k, "release") /\ Unlocked
    /\ calls' = [calls EXCEPT ![c] = IF Holders(c) = {k} /\ Drained(c) THEN NewCall(0)
                                    ELSE [@ EXCEPT !.waiters = @ - 1]]
    /\ inflight' = IF Drained(c) THEN NoCall ELSE inflight
    /\ caller' = [caller EXCEPT ![k] = Away]
    /\ UNCHANGED <<torn, forgets, known>>

\* A caller that was turned away leaves.
Return(k) ==
    /\ At(k, "gone")
    /\ caller' = [caller EXCEPT ![k] = Away]
    /\ UNCHANGED <<inflight, calls, torn, forgets, known>>

\* The app is deleted.  An outcome without an error is overwritten, also one
\* that the leader has completed and that followers are reading.
Forget ==
    LET c == inflight IN
    /\ Unlocked /\ c # NoCall /\ forgets < MaxForgets
    /\ forgets' = forgets + 1
    /\ inflight' = NoCall
    /\ IF calls[c].outcome = "err"
         THEN /\ calls' = [calls EXCEPT ![c].completed = TRUE, ![c].done = TRUE]
              /\ UNCHANGED torn
         ELSE /\ calls' = [calls EXCEPT ![c].completed = TRUE, ![c].outcome = "torn"]
              /\ torn' = c
    /\ known' = Spread("deleted", Waiting)
    /\ UNCHANGED caller

ForgetEnds ==
    /\ torn # NoCall
    /\ calls' = [calls EXCEPT ![torn].outcome = "deleted", ![torn].done = TRUE]
    /\ torn' = NoCall
    /\ UNCHANGED <<inflight, caller, forgets, known>>

-----------------------------------------------------------------------------

Steps(k) ==
    \/ WakeEnds(k) \/ Complete(k) \/ AwaitDone(k) \/ Release(k) \/ Return(k)

CoordNext ==
    \/ \E k \in Callers :
          \/ EnterAsFollower(k) \/ EnterQueueFull(k) \/ EnterAsLeader(k)
          \/ Steps(k) \/ AwaitCancelled(k)
    \/ Forget \/ ForgetEnds

CoordSpec == CoordInit /\ [][CoordNext]_coordVars

\* Every goroutine runs on and the coordinator's mutex is held only for a few
\* instructions.  The leader's Wake ends: its context carries the TTL, and the
\* wait for the app's mutex, which no context bounds, ends by Engine's
\* MutexFreed.  That holds as long as no floor admission and no failed load of a
\* sealed environment has left the mutex locked.  A caller's own context need
\* not end.
CoordFairSpec ==
    /\ CoordSpec
    /\ \A k \in Callers : WF_coordVars(Steps(k))
    /\ WF_coordVars(ForgetEnds)

-----------------------------------------------------------------------------

\* waiters is the number of goroutines that hold the call and never exceeds
\* the cap, so a follower that gives up makes room for one that comes.
WaitersExact ==
    \A c \in Calls :
        /\ calls[c].waiters = Cardinality(Holders(c))
        /\ calls[c].waiters <= Cap

\* The map does not leak: an entry is held by some goroutine that will
\* release it.
EntryHeld == inflight # NoCall => Holders(inflight) # {}

\* "Collapses all five wake producers into one virtual boot per parked app":
\* as long as the app is not deleted, at most one caller runs Wake.
SingleFlight ==
    forgets = 0 => Cardinality({k \in Callers : At(k, "wake")}) <= 1

\* Every caller that waits for a leader is answered, provided that the leader's
\* Wake gets the app's mutex (CoordFairSpec).
FollowersAnswered == \A k \in Callers : At(k, "await") ~> At(k, "away")

Answers == INSTANCE FreshAnswers WITH
    asking <- Waiting,
    known  <- known,
    answer <- [k \in Callers |-> IF k \in Waiting THEN "none" ELSE caller[k].out]

\* The coordinator keeps its promise: nobody is told an outcome that was
\* known before they asked, such as the instance of a wake that has completed
\* and may have parked since, and nobody is told the outcome a call is born
\* with, not when the app is deleted either.
AnswersFresh == Answers!AnswersSpec

=============================================================================
