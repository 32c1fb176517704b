CONSTANTS
    Callers = {k1, k2, k3}
    Calls = {c1, c2, c3, c4}
    NoCall = NoCall
    Cap = 2
    MaxForgets = 1
SPECIFICATION CoordFairSpec
INVARIANTS
    WaitersExact
    EntryHeld
PROPERTIES
    FollowersAnswered
    AnswersFresh
