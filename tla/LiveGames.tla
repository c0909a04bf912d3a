------------------------------ MODULE LiveGames ------------------------------
(***************************************************************************)
(* What the TUI knows of the games that run: the mapping of SIMAPI.DAT and *)
(* the watcher of its directory (tui/src/simapi_shm.rs), the process list, *)
(* the table of simulators (cargopit-config/src/simd_config.rs), and the   *)
(* game whose settings are shown (tui/src/app.rs, tick and                 *)
(* sample_telemetry).                                                      *)
(*                                                                         *)
(* simd makes the file, gives it its length, writes it and removes it; the *)
(* watcher thread passes on what it saw some time later.  The file's name, *)
(* the list of processes and the telemetry are three sources that agree    *)
(* only after a while.  A tick of the TUI is one step; ticks do not lie    *)
(* further apart than the units of time that are counted.                  *)
(***************************************************************************)
EXTENDS Integers, Sequences, SequencesExt, FiniteSets

CONSTANTS
    Games,          \* simulator ids
    Idle,           \* SETTINGS_GAME_IDLE, 0
    Frames,         \* telemetry: simexe, simapi, simon, and what flow_snapshot compares
    NoFile, Short,  \* no SIMAPI.DAT, or one without its length
    NoFlow,
    Lines,          \* process lines of the games: a command, and its arguments
    OtherLines,     \* of the processes that run beside them
    SimHosts,       \* SIM_EXE_HOST_COMMS, without the suffix of Windows
    NoExe,
    Table,          \* simd.config: the rows, with an id and two executables
    Example,        \* the rows of the simapi example
    FlowHold,       \* FLOW_HOLD_MS
    StatusRefresh,  \* STATUS_REFRESH_MS
    MaxEvents,      \* events of the watcher that are under way
    MaxRows         \* rows the user gives the table

ASSUME LiveGamesAssumption ==
    /\ Idle \notin Games
    /\ NoFile # Short /\ {NoFile, Short} \cap Frames = {}
    /\ \A f \in Frames : f.flow # NoFlow
    /\ {FlowHold, StatusRefresh} \subseteq Nat \ {0}
    /\ {MaxEvents, MaxRows} \subseteq Nat
    /\ Table \in Seq(Range(Table)) /\ Example \in Seq(Range(Example))
    /\ \A row \in Range(Table) \cup Range(Example) : row.gameid \in Games \cup {Idle}

Never == -1

VARIABLES
    file,           \* SIMAPI.DAT: not there, short, or a frame
    mapping,        \* SimApiSession.map: none, of this file, or of one that is gone
    events,         \* of the watcher, not yet drained
    processes,      \* the lines of the games that run
    test,           \* test_running
    sims,           \* the table, in memory
    extras,         \* extra_games
    lastTick,       \* time since refresh_runtime
    prevFlow,
    lastFlow,       \* time since last_flow
    live,           \* telemetry_live
    bound,          \* settings_game_id
    ticked,         \* the TUI has ticked at this time
    still           \* time since simd wrote, made the file, or a test ran

env == <<file, events, processes>>
seen == <<extras, lastTick, prevFlow, lastFlow, live, bound>>
vars == <<env, mapping, test, sims, seen, ticked, still>>

Times(limit) == 0 .. limit + 1

-----------------------------------------------------------------------------
(* The table of simulators *)

Listing == processes \cup OtherLines

\* A line runs an executable itself, or a shell or wine does for it: the others
\* have it among their arguments for some other reason.
ListingLineHasExe(line, exe) ==
    \/ line.comm = exe
    \/ line.comm \in SimHosts /\ exe \in line.args

ExeMatchesListing(exe) == exe # NoExe /\ \E line \in Listing : ListingLineHasExe(line, exe)

\* A list of games is a set of games with their places.
Placed(place, game) == [place |-> place, game |-> game]
First(games) == CHOOSE g \in games : \A h \in games : g.place <= h.place

\* extras_from_listing: the ids of the rows of which one executable runs.  A row
\* without an id names no game.
ExtrasFromListing(rows) ==
    LET running == {i \in DOMAIN rows : \/ ExeMatchesListing(rows[i].launch)
                                       \/ ExeMatchesListing(rows[i].live)}
    IN {Placed(Cardinality({j \in running : j <= i}), rows[i].gameid) : i \in running}
Extras == ExtrasFromListing(sims)
Ids(rows) == {row.game : row \in rows}
Listed == Ids(extras)

NewRow == [gameid |-> Idle, launch |-> NoExe, live |-> NoExe]
Rows == Range(Table) \cup Range(Example) \cup {NewRow}

LiveGamesTypeOK ==
    /\ file \in {NoFile, Short} \cup Frames
    /\ mapping \in {"none", "current", "old"}
    /\ mapping = "current" => file \in Frames
    /\ events \in Seq({"appeared", "disappeared"}) /\ Len(events) <= MaxEvents
    /\ processes \subseteq Lines
    /\ {test, live, ticked} \subseteq BOOLEAN
    /\ sims \in Seq(Rows)
    /\ extras \subseteq [place : Nat \ {0}, game : Games \cup {Idle}]
    /\ lastTick \in 0 .. StatusRefresh
    /\ lastFlow \in Times(FlowHold) \cup {Never}
    /\ still \in Times(FlowHold + 1)
    /\ bound \in Games \cup {Idle}

\* handle_simd, with the cursor at any row: a row is added, without an id, or
\* deleted.  What is simd's alone, as where it gets telemetry from, is left out;
\* so is the file, which each key saves, or ends the TUI.
EditTable ==
    /\ \/ /\ sims = <<>> /\ sims' \in {Example, <<>>}
       \/ /\ sims # <<>> /\ Len(sims) < MaxRows
          /\ sims' = Append(sims, NewRow)
       \/ \E row \in DOMAIN sims : sims' = RemoveAt(sims, row)
    /\ UNCHANGED <<env, mapping, test, seen, ticked, still>>

-----------------------------------------------------------------------------
(* Which games run *)

\* A game that runs, and what with_flow makes of those of the table; before them
\* comes the telemetry's game, and before that a test's node, which is no game.
Running(row, sending) == [place |-> row.place, game |-> row.game, sending |-> sending]
WithFlow(rows, sending) == {Running(row, sending) : row \in rows}
ShmGame(game) == Placed(0, game)
TestNode(sending) == Running(Placed(-1, Idle), sending)

FaultUnconfirmed(view, rows) == view.simexe # Idle
\* shm_game_confirmed: telemetry is believed of a game whose process runs.
ShmGameConfirmed(view, rows) ==
    /\ view.simexe # Idle
    /\ view.simexe \in Ids(rows)

\* resolve_games: the game of the telemetry first, then the others.
ResolveGames(view, sending, rows) ==
    CASE view.simexe = Idle /\ view.simapi = 0 /\ rows = {} /\ view.simon -> {TestNode(sending)}
      [] ShmGameConfirmed(view, rows) ->
            WithFlow({ShmGame(view.simexe)} \cup {row \in rows : row.game # view.simexe}, sending)
      [] OTHER -> WithFlow(rows, sending)

\* ensure_test_pipeline_node
WithTestNode(games) ==
    IF test /\ \A g \in games : g.game # Idle THEN {TestNode(TRUE)} \cup games ELSE games

FaultOnlySending(games) ==
    LET sending == {g \in games : g.game # Idle /\ g.sending}
    IN IF sending = {} THEN Idle ELSE First(sending).game

\* is_settings_game, live_settings_game_id: the first that sends, or the first.
LiveSettingsGame(games) ==
    LET those == {g \in games : g.game # Idle}
        sending == {g \in those : g.sending}
    IN CASE sending # {} -> First(sending).game
         [] those # {} /\ sending = {} -> First(those).game
         [] OTHER -> Idle

-----------------------------------------------------------------------------
(* The mapping *)

\* open_map: a file that is too short is not mapped.
Remapped == IF file \in Frames THEN "current" ELSE "none"

\* SimApiSession::drain: of a batch only the kinds count, not their order.
Drained(batch) ==
    CASE Contains(batch, "appeared") -> Remapped
      [] Contains(batch, "disappeared") /\ ~Contains(batch, "appeared") -> "none"
      [] OTHER -> mapping

FaultTrustEvents(m) == IF m = "old" THEN Remapped ELSE m
\* revalidate: the file under the name is the one that is mapped, or is mapped.
Revalidated(m) == IF m = "current" THEN m ELSE Remapped

\* flow_snapshot: what a simulator that sends cannot but change; which game it is
\* is not part of it.
FlowSnapshot(view) == view.flow
TelemetrySending(view, prev) == prev # NoFlow /\ FlowSnapshot(view) # prev

\* sample_telemetry, with the mapping and the games of this tick.
FaultHoldForever(since) == since # Never
FlowHeld(since) == since # Never /\ since <= FlowHold
Sample(m, prev, last, rows) ==
    LET view == file
        changed == m # "none" /\ TelemetrySending(view, prev)
        since == IF changed \/ test THEN 0 ELSE last
        sending == test \/ (m # "none" /\ (changed \/ FlowHeld(since)))
        games == IF m = "none" THEN WithFlow(rows, sending)
                 ELSE ResolveGames(view, sending, rows)
    IN /\ prevFlow' = IF m = "none" THEN NoFlow ELSE FlowSnapshot(view)
       /\ lastFlow' = since
       /\ live' = sending
       /\ bound' = LiveSettingsGame(WithTestNode(games))

\* App::tick; a part of the watcher's events may still be under way.
Tick ==
    \E n \in 0 .. Len(events) :
       LET due == lastTick = StatusRefresh
           drained == Drained(SubSeq(events, 1, n))
           blind == n > 0 /\ drained = "none"
           rows == IF n > 0 \/ due THEN Extras ELSE extras
           m == Revalidated(drained)
       IN /\ events' = SubSeq(events, n + 1, Len(events))
          /\ lastTick' = IF due THEN 0 ELSE lastTick
          /\ mapping' = m
          /\ extras' = rows
          /\ Sample(m, IF blind THEN NoFlow ELSE prevFlow, IF blind THEN Never ELSE lastFlow, rows)
          /\ ticked' = TRUE
          /\ UNCHANGED <<file, processes, test, sims, still>>

-----------------------------------------------------------------------------
(* simd, the games, the user and time *)

Announce(kind) == Len(events) < MaxEvents /\ events' = Append(events, kind)
Lost == IF mapping = "none" THEN mapping ELSE "old"

MakeFile ==
    /\ file = NoFile
    /\ file' = Short /\ still' = 0
    /\ Announce("appeared")
    /\ UNCHANGED <<mapping, processes, test, sims, seen, ticked>>
MoveFileIn ==
    /\ file' \in Frames /\ still' = 0
    /\ mapping' = Lost
    /\ Announce("appeared")
    /\ UNCHANGED <<processes, test, sims, seen, ticked>>
RemoveFile ==
    /\ file # NoFile /\ file' = NoFile
    /\ mapping' = Lost
    /\ Announce("disappeared")
    /\ UNCHANGED <<processes, test, sims, seen, ticked, still>>
\* The first frame of a file that was short is no flow.
WriteFrame ==
    /\ file # NoFile
    /\ file' \in Frames \ {file}
    /\ still' = 0
    /\ UNCHANGED <<mapping, events, processes, test, sims, seen, ticked>>

GameStartsOrEnds ==
    /\ processes' \in SUBSET Lines \ {processes}
    /\ UNCHANGED <<file, events, mapping, test, sims, seen, ticked, still>>
TestStartsOrEnds ==
    /\ test' = ~test /\ still' = 0
    /\ UNCHANGED <<env, mapping, sims, seen, ticked>>

\* The TUI ticks at every time there is.
TimePasses ==
    /\ ticked /\ ticked' = FALSE
    /\ lastTick' = IF lastTick = StatusRefresh THEN lastTick ELSE lastTick + 1
    /\ lastFlow' = IF lastFlow \in {Never, FlowHold + 1} THEN lastFlow ELSE lastFlow + 1
    /\ still' = CASE test -> 0
                  [] still = FlowHold + 2 -> still
                  [] OTHER -> still + 1
    /\ UNCHANGED <<env, mapping, test, sims, extras, prevFlow, live, bound>>

\* App::new takes a first sample.
Init ==
    /\ file \in {NoFile, Short} \cup Frames /\ events = <<>>
    /\ processes = {}
    /\ mapping = Remapped
    /\ test = FALSE
    /\ sims = Table
    /\ extras = {} /\ lastTick = 0
    /\ prevFlow = (IF file \in Frames THEN FlowSnapshot(file) ELSE NoFlow)
    /\ lastFlow = Never /\ live = FALSE /\ bound = Idle
    /\ ticked = TRUE /\ still = 0

Next == Tick \/ EditTable \/ MakeFile \/ MoveFileIn \/ RemoveFile \/ WriteFrame
          \/ GameStartsOrEnds \/ TestStartsOrEnds \/ TimePasses

\* The TUI's loop goes round, and so does the clock.
Fairness == WF_vars(Tick) /\ WF_vars(TimePasses)
Spec == Init /\ [][Next]_vars /\ Fairness

-----------------------------------------------------------------------------
(* Properties *)

\* Telemetry is shown as live for no longer than the hold after it stopped, or
\* a test did: whatever files came and went meanwhile (sample_telemetry).
LiveMeansFlow == ticked /\ live => still <= FlowHold + 1

\* Settings are never bound to a game that the last listing did not show, though
\* its telemetry still lies in the file (simapi_shm.rs, resolve_games).
BoundGameRuns == bound # Idle => bound \in Listed

\* The games of the table whose executables run, whatever other processes name.
Played ==
    {g \in Games : \E i \in DOMAIN sims, line \in processes :
        /\ sims[i].gameid = g
        /\ {sims[i].launch, sims[i].live} \cap ({line.comm} \cup line.args) # {}}

\* If from some time on no game of the table runs, or one, then in the end the
\* settings are bound to none, or to that one.
SettingsFollowGames ==
    \A games \in {{}} \cup {{g} : g \in Games} :
        <>[](Played = games)
            => <>[]({bound} \ {Idle} = games)

\* A file that stays is mapped in the end, also if it was too short when the
\* watcher saw it, or if what the watcher saw came late.
FileIsMapped == <>[](file \in Frames) => []<>(mapping = "current")
=============================================================================
