--------------------------- MODULE MCPlaySessions ---------------------------
(***************************************************************************)
(* Two sessions at once, of two profiles: the TUI's and another, or two    *)
(* that were started elsewhere.  A tick is a third of a second: 1000 and   *)
(* 2000 ms are 3 and 6, 500 ms is rounded up to 2; a mapping of frames     *)
(* sleeps for 1, one fed by UDP for 3.  A load takes at most 3, the wait   *)
(* for one sound stream, and a release at most 1.                          *)
(***************************************************************************)
EXTENDS PlaySessions, TLC

Symmetry == Permutations(Sessions) \cup Permutations(Profiles)
=============================================================================
