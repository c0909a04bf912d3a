--------------------------- MODULE MCProfileOpen ---------------------------
(***************************************************************************)
(* Small instances of ProfileOpen for TLC: three ports (one under two      *)
(* spellings), a table of two slots, and profiles of four entries in which *)
(* every kind of device occurs and ports are shared, refused and reused.   *)
(***************************************************************************)
EXTENDS ProfileOpen

MCEntries == 1 .. 4
MCShakers == {1, 3}
MCPaths == {"a", "A", "b", "c"}
MCFoldCase(p) == IF p = "A" THEN "a" ELSE p
MCBauds == {115200}

E(kind, path) == [kind |-> kind, enabled |-> TRUE, path |-> path, baud |-> 115200,
                  config |-> "File", effect |-> "plain"]
Off(e) == [e EXCEPT !.enabled = FALSE]
Without(e, config) == [e EXCEPT !.config = config]
Tyre(e) == [e EXCEPT !.effect = "tyre"]

\* A refused strip or wheel before others on its port.
Refusals == <<E("SimLedCustom", "a"), E("ShiftLights", "a"), E("MozaKs", "A"),
              E("SimWind", "b")>>
\* More ports than slots.
Crowd == <<E("MozaNew", "a"), E("ArduinoCustom", "b"), E("SimLed", "c"),
           E("MozaR5", "b")>>
Reuse == <<E("MozaKs", "a"), E("SerialHaptic", "b"), E("ShiftLights", "c"),
           E("MozaR5", "a")>>
Wheels == <<E("Tach", NoPath), E("G29", NoPath), E("C5", NoPath), E("C12", NoPath)>>
PedalSet == <<E("GtNeo", NoPath), E("Csl", NoPath), E("P1000", NoPath),
              Tyre(E("SimNet", NoPath))>>
Unopenable == <<E("UnknownWheel", NoPath), E("Closed", NoPath),
                Without(E("ArduinoCustom", "a"), "NamedNone"), E("SimWind", NoPath)>>
Scriptless == <<Without(E("Tach", NoPath), "Unset"), Without(E("GtNeo", NoPath), "NamedNone"),
                Without(E("C12", NoPath), "Unset"), E("Csl", NoPath)>>
Shaking == <<E("Sound", NoPath), Off(E("ShiftLights", "a")), Tyre(E("Sound", NoPath)),
             E("SimLedCustom", "b")>>

MCProfiles == {Refusals, Crowd, Reuse, Wheels, PedalSet, Unopenable, Scriptless,
               Shaking}
=============================================================================
