------------------------------ MODULE HostArgs ------------------------------
(***************************************************************************)
(* How a session is told what to do: the command line that                 *)
(* tui/src/process.rs builds of the play flags and the scope of a session, *)
(* and what crates/cargopit/src/cli.rs reads of it.  An argument and the   *)
(* value that follows it are one item; indices count from one, 0 is none.  *)
(***************************************************************************)
EXTENDS Integers, Sequences, FiniteSetsExt

Option(flag) == [flag |-> flag, value |-> 0]
Valued(flag, value) == [flag |-> flag, value |-> value]
OptionIf(given, option) == IF given THEN <<option>> ELSE <<>>

\* PlayFlags; an fps of 0 is none.
PlayFlags(verbosity, disableAudio, udp, fps, log) ==
    [verbosity |-> verbosity, disableAudio |-> disableAudio, udp |-> udp, fps |-> fps, log |-> log]

PlayOnlyFlags(flags) ==
    OptionIf(flags.udp, Option("--udp"))
        \o OptionIf(flags.fps # 0, Valued("--fps", flags.fps))
        \o OptionIf(flags.log, Option("--log"))
\* push_session_scope; TestScope::default names neither.
DefaultScope == [profile |-> 0, device |-> 0]
SessionScope(kind, scope) ==
    OptionIf(scope.profile # 0, Valued("--config-index", scope.profile))
        \o OptionIf(kind = "test" /\ scope.device # 0, Valued("--device-index", scope.device))
\* spawn_args_with_scope
SpawnArgs(kind, flags, scope) ==
    OptionIf(flags.verbosity = 1, Option("-v"))
        \o OptionIf(flags.verbosity >= 2, Option("-vv"))
        \o OptionIf(flags.disableAudio, Option("-a"))
        \o (IF kind = "play" THEN PlayOnlyFlags(flags) ELSE <<>>)
        \o <<Option("--config-file")>>
        \o SessionScope(kind, scope)

\* parse_play, parse_test: the options they know; another ends the program.
PlayOptions == {"--udp", "-a", "-v", "-vv", "--log", "--config-file", "--fps", "--config-index"}
TestOptions == {"-a", "-v", "-vv", "--config-file", "--device-index", "--config-index"}

\* take_value: the last one counts.
TakeValue(args, flag) ==
    LET given == {i \in DOMAIN args : args[i].flag = flag}
    IN  IF given = {} THEN 0 ELSE args[Max(given)].value
Parse(kind, args) ==
    LET known == IF kind = "play" THEN PlayOptions ELSE TestOptions IN
    [action |-> IF \A i \in DOMAIN args : args[i].flag \in known THEN kind ELSE "exit",
     disableAudio |-> \E i \in DOMAIN args : args[i].flag = "-a",
     configIndex |-> TakeValue(args, "--config-index"),
     deviceIndex |-> TakeValue(args, "--device-index")]

\* spawn_session_with_scope: what the session it starts was asked for.
Spawned(kind, flags, scope) == Parse(kind, SpawnArgs(kind, flags, scope))
=============================================================================
