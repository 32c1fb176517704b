---------------------------- MODULE FreshAnswers ----------------------------
(***************************************************************************)
(* What the wake coordinator promises the callers of EnsureWake: a caller  *)
(* gets an outcome that became known while it was waiting, or gives up, or *)
(* is turned away; it never gets what was known before it asked.  When the *)
(* app is deleted just as a wake has succeeded, it may get a mixture of the *)
(* two outcomes, but only if both became known while it waited.            *)
(***************************************************************************)
CONSTANTS Callers, Outcomes

VARIABLES
    asking,     \* the callers that wait
    known,      \* caller -> the outcomes that became known while it waited
    answer      \* caller -> what it was told last, or "none"

aVars == <<asking, known, answer>>

AnswersInit ==
    /\ asking = {}
    /\ known = [k \in Callers |-> {}]
    /\ answer = [k \in Callers |-> "none"]

Ask(k) ==
    /\ k \notin asking /\ answer[k] = "none"
    /\ asking' = asking \cup {k}
    /\ known' = [known EXCEPT ![k] = {}]
    /\ UNCHANGED answer

TurnAway(k) ==
    /\ k \notin asking /\ answer[k] = "none"
    /\ answer' = [answer EXCEPT ![k] = "full"]
    /\ UNCHANGED <<asking, known>>

\* What known becomes when o becomes known to some of those who wait.
Spread(o, some) ==
    [k \in Callers |-> IF k \in some THEN known[k] \cup {o} ELSE known[k]]

Learn(o) ==
    /\ UNCHANGED <<asking, answer>>
    /\ \E some \in SUBSET asking : known' = Spread(o, some)

\* The others may learn of the outcome as one of them is told.  "torn" is read
\* while "deleted" is written over "ok".
Answer(k, o) ==
    /\ k \in asking
    /\ \/ o \in known[k] \/ o = "cancelled"
       \/ o = "torn" /\ {"ok", "deleted"} \subseteq known[k]
    /\ asking' = asking \ {k}
    /\ answer' = [answer EXCEPT ![k] = o]
    /\ \E some \in SUBSET asking' : known' = [Spread(o, some) EXCEPT ![k] = {}]

Leave(k) ==
    /\ answer[k] # "none"
    /\ answer' = [answer EXCEPT ![k] = "none"]
    /\ UNCHANGED <<asking, known>>

AnswersNext ==
    \/ \E o \in Outcomes : Learn(o)
    \/ \E k \in Callers : Ask(k) \/ TurnAway(k) \/ Leave(k)
    \/ \E k \in Callers, o \in Outcomes \cup {"cancelled"} : Answer(k, o)

AnswersSpec == AnswersInit /\ [][AnswersNext]_aVars

=============================================================================
