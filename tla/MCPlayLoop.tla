----------------------------- MODULE MCPlayLoop -----------------------------
(***************************************************************************)
(* Small instances of PlayLoop for TLC.  A sighting stands for one kind of  *)
(* simulator; a later detection may return any of them.                     *)
(***************************************************************************)
EXTENDS PlayLoop

CONSTANTS wheel, shaker, acrPort, noPort

MCDevices == {wheel, shaker}
MCSoundDevices == {shaker}
MCPorts == {acrPort}

Off == NoSim
Menu == [Off EXCEPT !.on = TRUE, !.status = StatusMenu, !.api = "game"]
\* simd's record of a game, here Assetto Corsa Rally with a live segment.
BySimd == [Off EXCEPT !.on = TRUE, !.status = StatusActivePlay, !.exe = "acr",
                      !.blank = FALSE]
ByGame == [Off EXCEPT !.on = TRUE, !.status = StatusActivePlay, !.api = "game"]
ByUdp == [ByGame EXCEPT !.udp = TRUE, !.port = acrPort]
\* Assetto Corsa Rally under Proton: the process is found, its segment is blank
\* (the sighting of games.rs's test acr_bridge_starts_udp_mapping).
AcrBlank == [Off EXCEPT !.exe = "acr"]

MCSightings == {Menu, BySimd, ByGame, ByUdp, AcrBlank}
=============================================================================
