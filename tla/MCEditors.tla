----------------------------- MODULE MCEditors -----------------------------
(***************************************************************************)
(* Two profiles; a shaker on an amplifier, a pedal that is switched off and*)
(* what the form makes of them.  Three changes are enough to add a device  *)
(* or a profile, to make the cursor stale, to test and to measure a seat.  *)
(***************************************************************************)
EXTENDS Editors

D(class, effect, devid, enabled) ==
    [class |-> class, effect |-> effect, devid |-> devid, enabled |-> enabled,
     tyres |-> {3, 4}, threshold |-> 20, frequency |-> 40, frequencyMax |-> 90]
Shaker == D("Sound", "GearShift", "amp", TRUE)
Pedal == D("Usb", "TyreLock", "pedal", FALSE)
MCBlankEntry == D("Sound", "EngineRpm", "none", TRUE)
MCEntries == {Pedal, D("Sound", "EngineRpm", "amp", TRUE)}
MCTemplates == {<<D("Usb", "AbsBrakes", "none", TRUE)>>}
MCInitialConfig == <<[name |-> "A", devices |-> <<Shaker>>],
                     [name |-> "B", devices |-> <<Shaker, Pedal>>]>>
MCSinks == <<[name |-> "tactile", processor |-> FALSE], [name |-> "eq", processor |-> TRUE],
             [name |-> "amp", processor |-> FALSE], [name |-> "other", processor |-> FALSE]>>
Plain == PlayFlags(0, FALSE, FALSE, 0, FALSE)
MCFlags == {Plain, PlayFlags(2, TRUE, TRUE, 30, TRUE)}

\* The values nothing reads any more do not tell states apart: a closed form,
\* a screen that no question goes back to, what a TUI that ended had in memory,
\* the files when no change is left to start a test or to quit.
View ==
    <<changes, running,
      IF running /\ changes = MaxChanges THEN <<>> ELSE <<file, stateFile>>,
      IF ~running THEN <<>>
      ELSE <<config, state, flagsOriginal, screen, cursor, child, session,
             IF screen \in Confirms THEN previous ELSE screen,
             IF FormOpen THEN form ELSE BlankEntry,
             IF "ProfileEdit" \in {screen, previous} THEN profileEdit ELSE BlankEntry,
             IF screen \in {"SeatSweep", "ApplyTactileFilter"} THEN sweep ELSE sweep.url>>>>
=============================================================================
