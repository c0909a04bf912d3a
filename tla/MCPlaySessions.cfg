SPECIFICATION Spec
CONSTANTS
    Sessions = {s1, s2}
    Profiles = {p1, p2}
    NoSession = NoSession
    SearchWait = 3
    StartWait = 6
    CallTimeout = 2
    StopWait = 3
    PollTime = 1
    LoadTime = 3
    ReleaseTime = 1
SYMMETRY Symmetry
PROPERTIES
    LetGoBeforeKill
    ReplacedIsGone
    OldAnswerDropped
