\* Two sessions, so that one may start a simd while another waits for its own;
\* two polls, so that simd may die between them.
CONSTANTS
    Hosts = {h1, h2}
    Unit = Unit
    StartPolls = 2
SPECIFICATION SimdSpec
PROPERTIES StopLeavesNothing PidFileKept EnsureEnds
CHECK_DEADLOCK FALSE
