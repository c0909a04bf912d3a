---------------------------- MODULE MCLiveGames ----------------------------
(* Two games, both in the table of simulators; frames of each, and of none.  *)
(* The flow of one frame is that of another: it may be taken for the same.  *)
EXTENDS LiveGames

CONSTANTS g1, g2

MCFrame(game, api, flow) == [simexe |-> game, simapi |-> api, simon |-> TRUE, flow |-> flow]
MCFrames == {MCFrame(Idle, 0, 1), MCFrame(g1, 1, 2), MCFrame(g2, 1, 1)}

\* One game is started by its own command, the other by wine; an editor has the
\* first one's executable among its arguments.
MCLine(comm, args) == [comm |-> comm, args |-> args]
MCLines == {MCLine("one", {}), MCLine("wine64", {"two.exe"})}
MCOtherLines == {MCLine("vim", {"one"}), MCLine("bash", {"script"})}

MCRow(game, first, second) == [gameid |-> game, launch |-> first, live |-> second]
MCTable == <<MCRow(g1, "one", NoExe), MCRow(g2, "launcher", "two.exe")>>
MCExample == <<MCRow(g2, "launcher", "two.exe")>>
=============================================================================
