----------------------------- MODULE MCTelemetry -----------------------------
(***************************************************************************)
(* A device that needs tyre diameters; simulators that simd publishes,     *)
(* that are mapped directly, and that send by UDP, with the Rally bridge;  *)
(* two cars, of which one has a name that is no UTF-8.                     *)
(***************************************************************************)
EXTENDS Telemetry

CONSTANTS slip, acrPort, gamePort

MCDevices == {slip}
Off == NoSim
Menu == [Off EXCEPT !.on = TRUE, !.status = StatusMenu, !.api = "game"]
BySimd == [Off EXCEPT !.on = TRUE, !.status = StatusActivePlay]
ByGame == [BySimd EXCEPT !.api = "game"]
ByUdp == [ByGame EXCEPT !.udp = TRUE, !.port = gamePort]
AcrBlank == [Off EXCEPT !.exe = "acr"]
MCSightings == {BySimd, ByGame, ByUdp, AcrBlank}

\* "caf#" is what is saved of the bytes "caf?".
MCLower == [name \in {"MX5", "caf?", "caf#", "default"} |->
              IF name = "MX5" THEN "mx5" ELSE name]
MCLossy == [name \in {"", "MX5", "caf?"} |-> IF name = "caf?" THEN "caf#" ELSE name]

\* What nothing reads any more does not tell states apart: the loop's variables
\* when the process is gone, how the last mapping was fed once it is over, and
\* the store of a TUI that will not write again; nothing here reads published.
\* Nor do two views of SIMAPI.DAT from which the same can follow.
MapClass ==
    CASE view.addr = "none" -> "none"
      [] view.addr = "shut" -> IF view.fd = "write" THEN "mixed" ELSE "shut"
      [] OTHER -> IF view.fd = "write" THEN "open" ELSE "torn"
MCView ==
    <<IF pc = "gone" THEN "gone"
      ELSE <<pc, phase, IF phase = "Mapping" THEN <<useUdp, mapApi>> ELSE "over",
             userStopped, releasing, seen, simfree, devices, requested, socket, inputs,
             queue, MapClass, faulted, checked, sought>>,
      diameters, saving, edits, IF edits = MaxEdits THEN Closed ELSE tui>>
=============================================================================
