----------------------------- MODULE DeviceHold -----------------------------
(***************************************************************************)
(* What a play session promises about the hardware, whatever the loop does *)
(* to get there: devices are opened only when none is held and the user    *)
(* has not paused the session, they are always let go as a whole, only a   *)
(* reload lifts the pause, and a session that has ended holds nothing.     *)
(* PlayLoop implements it (PlayLoop!Hold).                                 *)
(***************************************************************************)

CONSTANT Devices        \* the devices a profile may name

VARIABLES held,         \* the devices the session has open
          paused,       \* the user asked to stop driving them
          live          \* the session's process is running

vars == <<held, paused, live>>

TypeOK ==
    /\ held \in SUBSET Devices
    /\ paused \in BOOLEAN
    /\ live \in BOOLEAN

Init ==
    /\ held = {}
    /\ paused = FALSE
    /\ live = TRUE

-----------------------------------------------------------------------------

Acquire ==
    /\ live
    /\ ~paused
    /\ held = {}
    /\ held' \in SUBSET Devices
    /\ UNCHANGED <<paused, live>>

Release ==
    /\ live
    /\ held' = {}
    /\ UNCHANGED <<paused, live>>

Pause ==
    /\ live
    /\ paused' = TRUE
    /\ UNCHANGED <<held, live>>

Reload ==
    /\ live
    /\ held' = {}
    /\ paused' = FALSE
    /\ UNCHANGED live

End ==
    /\ live
    /\ held' = {}
    /\ live' = FALSE
    /\ UNCHANGED paused

Next == Acquire \/ Release \/ Pause \/ Reload \/ End

Spec == Init /\ [][Next]_vars
=============================================================================
