\* Two processes, either of which may start beside the other or find its stale
\* socket, and two requests.
SPECIFICATION FairSpec
CONSTANTS
    Sessions = {s1, s2}
    Callers = {c1, c2}
    Nobody = Nobody
INVARIANTS
    UnracedStarts
    ToldIsDone
PROPERTY
    NothingHangs
CHECK_DEADLOCK FALSE
