---------------------------- MODULE PlaySessions ----------------------------
(***************************************************************************)
(* The TUI that starts, restarts, reloads and stops play sessions          *)
(* (tui/src/app.rs, process.rs, control.rs), and how long a session of     *)
(* crates/cargopit/src/main.rs takes to notice.                            *)
(*                                                                         *)
(* The TUI blocks while it waits; each of its waits has a limit, after     *)
(* which it turns to a stronger means: the control socket, SIGTERM,        *)
(* SIGKILL.  A session sees a signal or a call at its next poll only, and  *)
(* sleeps between polls.  Time passes in ticks, and the constants count    *)
(* them; a session polls when its sleep is over.  The socket's protocol is *)
(* ControlSocket's; here a session takes one waiting connection at a poll, *)
(* also one whose caller has given up.                                     *)
(***************************************************************************)
EXTENDS Integers, FiniteSets

CONSTANTS
    Sessions,       \* processes that may run at once
    Profiles,       \* configuration indexes
    NoSession,
    SearchWait,     \* CHECK_INTERVAL_MS
    StartWait,      \* MAPPING_START_MS
    CallTimeout,    \* CONTROL_TIMEOUT_MS
    StopWait,       \* PROCESS_STOP_WAIT_MS, and 20 polls of 50 ms
    PollTime,       \* map_interval_ms: the sleep between two frames
    LoadTime,       \* to open a profile's devices, at most
    ReleaseTime     \* to let them go, at most

ASSUME PlaySessionsAssumption ==
    /\ NoSession \notin Sessions
    /\ {SearchWait, StartWait, CallTimeout, StopWait} \subseteq Nat \ {0}
    /\ {PollTime, LoadTime, ReleaseTime} \subseteq Nat

VARIABLES
    host,       \* each session: what it does, for how long, and its devices
    owner,      \* the session that listens on the control socket
    backlog,    \* commands on connections that it has not taken
    tui,        \* what the TUI does, to what end, and for how long
    child,      \* the session it started
    known,      \* status.cargopit_running
    profile,    \* profile_index
    shown,      \* play_status: its profile
    watch,      \* the status thread: idle, asking, or with an answer
    before,     \* history: the sessions in whose place the TUI is to start another
    needs       \* history: how long a session that the TUI told to end could
                \* still hold devices, when it was told

history == <<before, needs>>
tuiVars == <<tui, child, known, profile, shown, history>>
vars == <<host, owner, backlog, tuiVars, watch>>

None == "none"
Statuses == Profiles \cup {None}
Commands == [command : {"reload", "stop"}, abandoned : BOOLEAN]
Off == "off"
Releases == {"letting", "reloading", "ending"}
Phases == {Off, "searching", "starting", "loading", "mapping"} \cup Releases
\* use_udp is chosen by each mapping.
HostStates == [phase : Phases, wait : Nat, config : Statuses, udp : BOOLEAN, term : BOOLEAN]
TuiStates == [doing : {"idle", "killing", "asking", "calling", "refused", "named", "settling"},
              goal : {"none", "reload", "restart", "stop"},
              wait : Nat]
\* An answer is stale once the TUI has restarted since.
WatchStates == [doing : {"idle", "asking", "answered"}, status : Statuses, stale : BOOLEAN]
\* Nothing is due from a session that nobody told to end.
Untold == -1

TypeOK ==
    /\ host \in [Sessions -> HostStates]
    /\ owner \in Sessions \cup {NoSession}
    /\ backlog \subseteq Commands
    /\ tui \in TuiStates
    /\ child \in Sessions \cup {NoSession}
    /\ known \in BOOLEAN
    /\ profile \in Profiles
    /\ shown \in Statuses
    /\ watch \in WatchStates
    /\ before \subseteq Sessions
    /\ needs \in [Sessions -> Nat \cup {Untold}]

Alive(s) == host[s].phase # Off
Running == {s \in Sessions : Alive(s)}
\* A release that is over has let all devices go.
Holds(s) == \/ host[s].phase \in {"loading", "mapping"}
            \/ host[s].phase \in Releases /\ host[s].wait > 0

Session(phase, config) ==
    [phase |-> phase, wait |-> 0, config |-> config, udp |-> FALSE, term |-> FALSE]
Absent == Session(Off, None)
Idle == [doing |-> "idle", goal |-> "none", wait |-> 0]
Quiet == [doing |-> "idle", status |-> None, stale |-> FALSE]
Unasked == [s \in Sessions |-> Untold]

Init ==
    /\ host = [s \in Sessions |-> Absent]
    /\ owner = NoSession /\ backlog = {}
    /\ tui = Idle /\ child = NoSession /\ known = FALSE
    /\ profile \in Profiles
    /\ shown = None /\ watch = Quiet
    /\ before = {} /\ needs = Unasked

-----------------------------------------------------------------------------
(* Callers *)

Doing(what) == tui.doing = what
\* The TUI goes on to wait, for no more than so long.
Turned(what, wait) == [tui EXCEPT !.doing = what, !.wait = wait]
\* What an answer to its call leads to: a reload is done, an end is waited for
\* (wait_until_stopped, in stop_play_via_control and again in restart_play).
Content ==
    CASE tui.goal = "reload" -> Idle
      [] tui.goal = "restart" -> Turned("settling", 2 * StopWait)
      [] OTHER -> Turned("settling", StopWait)
Answered(status) ==
    IF watch.doing = "asking"
    THEN [doing |-> "answered", status |-> status, stale |-> FALSE] ELSE watch

\* The connections a session ends with are closed, and their callers read the
\* end of the stream.
HangUp(gone) ==
    /\ IF owner \in gone
       THEN owner' = NoSession /\ backlog' = {} /\ watch' = Answered(None)
       ELSE UNCHANGED <<owner, backlog, watch>>
    /\ before' = before \ gone
    /\ needs' = [s \in Sessions |-> IF s \in gone THEN Untold ELSE needs[s]]

\* The status thread's call is refused, or not answered in time; a session that
\* takes it later answers nobody.
WatchGivesUp ==
    /\ watch.doing = "asking"
    /\ watch' = Answered(None)
    /\ UNCHANGED <<host, owner, backlog, tuiVars>>

-----------------------------------------------------------------------------
(* A session *)

\* release_configured, and then the search again, or the end of the process.
Leaving(h, phase) ==
    {[h EXCEPT !.phase = phase, !.wait = time] :
        time \in 0 .. (IF h.phase = "mapping" THEN ReleaseTime ELSE 0)}

\* A mapping of frames sleeps long once, one fed by UDP as long as a search.
StartOf(h) == IF h.udp THEN SearchWait ELSE StartWait
SleepOf(h) == IF h.udp THEN SearchWait ELSE PollTime
Begun(h, udp) == [h EXCEPT !.phase = "starting", !.udp = udp, !.wait = StartOf([h EXCEPT !.udp = udp])]

\* The rest of a poll, by what the simulators do.  A mapping sleeps before its
\* devices are opened, by the poll after.
Rest(h) ==
    CASE h.phase = "searching" ->
            {[h EXCEPT !.wait = SearchWait]} \cup {Begun(h, udp) : udp \in BOOLEAN}
      [] h.phase = "starting" ->
            Leaving(h, "letting")
                \cup {[h EXCEPT !.phase = "loading", !.wait = time] : time \in 0 .. LoadTime}
      [] h.phase = "mapping" ->
            Leaving(h, "letting") \cup {[h EXCEPT !.wait = SleepOf(h)]}

Polls(s) == host[s].phase \in {"searching", "starting", "mapping"} /\ host[s].wait = 0
Becomes(s, outcomes) == \E h \in outcomes : host' = [host EXCEPT ![s] = h]

\* poll_once: a signal comes before a call, a call before the simulators; a call
\* for the status changes nothing.  The signal is the TUI's, or came from the
\* session's terminal since the last poll.
NoticeSignal(s) ==
    /\ Polls(s)
    /\ Becomes(s, Leaving(host[s], "ending"))
    /\ UNCHANGED <<owner, backlog, tuiVars, watch>>

PollAlone(s) ==
    /\ Polls(s) /\ ~host[s].term
    /\ Becomes(s, Rest(host[s]))
    /\ \/ (owner # s \/ backlog = {}) /\ watch' = watch
       \/ owner = s /\ watch.doing = "asking" /\ watch' = Answered(host[s].config)
    /\ UNCHANGED <<owner, backlog, tuiVars>>

\* A caller that still waits reads the answer; the release takes what it takes.
Heard(s, call) ==
    IF call.abandoned \/ ~Doing("calling")
    THEN UNCHANGED <<tui, needs>>
    ELSE /\ tui' = Content
         /\ needs' = IF tui.goal = "reload" THEN needs ELSE [needs EXCEPT ![s] = host'[s].wait]

\* apply_control, with the answer that try_accept sends.
Obey(s) ==
    /\ Polls(s) /\ ~host[s].term
    /\ owner = s
    /\ \E call \in backlog :
          /\ backlog' = backlog \ {call}
          /\ \/ call.command = "stop" /\ Becomes(s, Leaving(host[s], "ending"))
             \/ call.command = "reload" /\ Becomes(s, Leaving(host[s], "reloading"))
          /\ Heard(s, call)
    /\ UNCHANGED <<owner, child, known, profile, shown, before, watch>>

Again(h) == [h EXCEPT !.phase = "searching", !.udp = FALSE]
\* load_configured and release_configured are over; after a reload the poll goes
\* on with a search.
Finish(s) ==
    /\ host[s].wait = 0
    /\ \/ /\ host[s].phase = "loading"
          /\ Becomes(s, {[host[s] EXCEPT !.phase = "mapping", !.wait = SleepOf(host[s])]})
       \/ /\ host[s].phase = "letting"
          /\ Becomes(s, {[Again(host[s]) EXCEPT !.wait = SearchWait]})
       \/ /\ host[s].phase = "reloading"
          /\ Becomes(s, Rest(Again(host[s])))
    /\ UNCHANGED <<owner, backlog, tuiVars, watch>>
End(s) ==
    /\ host[s].phase = "ending" /\ host[s].wait = 0
    /\ Becomes(s, {Absent})
    /\ HangUp({s})
    /\ tui' = IF owner = s /\ Doing("calling") THEN Turned("refused", 0) ELSE tui
    /\ UNCHANGED <<child, known, profile, shown>>

\* open_control: a session that finds the path taken runs without a socket.
Begins(s, config) ==
    /\ ~Alive(s)
    /\ host' = [host EXCEPT ![s] = Session("searching", config)]
    /\ owner' = IF owner = NoSession THEN s ELSE owner

\* Somebody starts one in a terminal, but not the last one there can be if the
\* TUI is about to start another.
StartElsewhere(s) ==
    /\ s # child
    /\ tui.goal = "restart" => Running \cup {s} # Sessions
    /\ \E p \in Profiles : Begins(s, p)
    /\ UNCHANGED <<backlog, tui, child, known, profile, shown, history, watch>>

-----------------------------------------------------------------------------
(* The TUI *)

\* play_is_live
PlayIsLive == child # NoSession \/ known
\* Keys are handled between two ticks of the main loop, several of them at once.
AtKeys == Doing("idle")

\* cycle_profile
CycleProfile ==
    /\ AtKeys
    /\ profile' \in Profiles \ {profile}
    /\ UNCHANGED <<host, owner, backlog, tui, child, known, shown, history, watch>>

\* drain_status: an answer that comes when no session is known is dropped.
DrainedStatus == IF watch.doing = "answered" /\ known THEN watch.status ELSE shown
DrainedWatch == IF watch.doing = "answered" THEN Quiet ELSE watch

\* refresh_runtime and request_status, after drain_status
RefreshRuntime ==
    /\ known' = (Running # {})
    /\ shown' = IF Running = {} THEN None ELSE DrainedStatus
    /\ watch' = IF Running # {} /\ DrainedWatch.doing = "idle"
                 THEN [Quiet EXCEPT !.doing = "asking"] ELSE DrainedWatch

\* tick: a waiting answer is taken, once a second the processes are listed, and
\* drain_child forgets a child that is gone.
Tick ==
    /\ AtKeys
    /\ \/ RefreshRuntime
       \/ known' = known /\ shown' = DrainedStatus /\ watch' = DrainedWatch
    /\ child' = IF child # NoSession /\ ~Alive(child) THEN NoSession ELSE child
    /\ UNCHANGED <<host, owner, backlog, tui, profile, history>>

\* spawn_play_session
Spawn ==
    /\ \E s \in Sessions : Begins(s, profile) /\ child' = s
    /\ tui' = Idle
    /\ before' = {} /\ needs' = Unasked

\* start_play lists the processes before it decides; an answer that waits is taken
\* for one of theirs.
StartPlay ==
    /\ AtKeys
    /\ IF child = NoSession /\ Running = {}
       THEN Spawn
       ELSE UNCHANGED <<host, owner, tui, child, history>>
    /\ known' = (Running # {})
    /\ watch' = [watch EXCEPT !.stale = FALSE]
    /\ UNCHANGED <<backlog, profile, shown>>

\* control::reload and control::stop
Call(goal) ==
    IF owner = NoSession
    THEN /\ tui' = [doing |-> "refused", goal |-> goal, wait |-> 0]
         /\ backlog' = backlog
    ELSE /\ tui' = [doing |-> "calling", goal |-> goal, wait |-> CallTimeout]
         /\ backlog' = backlog \cup
               {[command |-> IF goal = "reload" THEN "reload" ELSE "stop", abandoned |-> FALSE]}

\* How long a session in this state holds devices, when it is told to end.
Need(h) ==
    CASE h.phase = "loading" -> h.wait + SleepOf(h) + ReleaseTime
      [] h.phase = "mapping" -> h.wait + ReleaseTime
      [] h.phase \in Releases -> h.wait
      [] OTHER -> 0

\* SIGTERM to some of them.
Told(told) ==
    /\ host' = [s \in Sessions |-> IF s \in told THEN [host[s] EXCEPT !.term = TRUE] ELSE host[s]]
    /\ needs' = [s \in Sessions |-> IF s \in told THEN Need(host[s]) ELSE Untold]

\* restart_play and stop_all begin with kill_tracked_child: SIGTERM to the child.
BeginEnding(goal) ==
    /\ IF child = NoSession
       THEN Call(goal) /\ UNCHANGED <<host, needs>>
       ELSE /\ tui' = [doing |-> "killing", goal |-> goal, wait |-> StopWait]
            /\ Told({child} \cap Running)
            /\ backlog' = backlog
    /\ before' = IF goal = "restart" THEN {child, owner} \cap Running ELSE {}
    /\ UNCHANGED <<owner, child, known, profile, shown, watch>>
RestartPlay == AtKeys /\ BeginEnding("restart")
StopAll == AtKeys /\ BeginEnding("stop")

\* live_session_uses_current_profile
UsesCurrentProfile == shown = profile

\* apply_saved_profile: reload the session that plays this profile, or restart.
ApplySavedProfile ==
    /\ AtKeys /\ PlayIsLive
    /\ IF UsesCurrentProfile
       THEN Call("reload") /\ UNCHANGED <<host, owner, child, known, profile, shown, history, watch>>
       ELSE BeginEnding("restart")

CallTimesOut ==
    /\ Doing("calling") /\ tui.wait = 0
    /\ tui' = Turned("refused", 0)
    /\ backlog' = {[call EXCEPT !.abandoned = TRUE] : call \in backlog}
    /\ UNCHANGED <<host, owner, child, known, profile, shown, history, watch>>

\* A reload that was not confirmed is a restart.
ReloadRefused ==
    /\ Doing("refused") /\ tui.goal = "reload"
    /\ BeginEnding("restart")

\* stop_named: SIGTERM to all, a whole wait, SIGKILL to all.
TermNamed ==
    /\ \/ Doing("refused") /\ tui.goal # "reload"
       \/ Doing("settling") /\ tui.goal = "stop" /\ (Running = {} \/ tui.wait = 0)
    /\ tui' = Turned("named", StopWait)
    /\ Told(Running)
    /\ UNCHANGED <<owner, backlog, child, known, profile, shown, before, watch>>

Killed(victims) ==
    /\ host' = [s \in Sessions |-> IF s \in victims THEN Absent ELSE host[s]]
    /\ HangUp(victims)

FaultHastyKill == Doing("named")
KillsNamed == Doing("named") /\ tui.wait = 0
KillNamed ==
    /\ KillsNamed
    /\ Killed(Running)
    /\ IF tui.goal = "stop"
       THEN tui' = Idle /\ known' = FALSE
       ELSE tui' = Turned("settling", StopWait) /\ known' = known
    /\ UNCHANGED <<child, profile, shown>>

\* terminate_then_kill: as soon as the child is gone, or by SIGKILL.
ChildEnded ==
    /\ Doing("killing")
    /\ ~Alive(child) \/ tui.wait = 0
    /\ Killed({child})
    /\ child' = NoSession
    /\ tui' = [tui EXCEPT !.doing = "asking", !.wait = 0]
    /\ UNCHANGED <<known, profile, shown>>
Ask ==
    /\ Doing("asking")
    /\ Call(tui.goal)
    /\ UNCHANGED <<host, owner, child, known, profile, shown, history, watch>>

FaultSpawnAtOnce == Doing("settling") /\ tui.goal = "restart"
Settled == Doing("settling") /\ tui.goal = "restart" /\ (Running = {} \/ tui.wait = 0)
FaultStillKnown == known
\* status.cargopit_running, until the processes are listed again.
KnownAgain == FALSE
\* The rest of restart_play.
StartAgain ==
    /\ Settled
    /\ Spawn
    /\ known' = KnownAgain
    /\ watch' = [watch EXCEPT !.stale = watch.doing = "answered"]
    /\ UNCHANGED <<backlog, profile, shown>>

-----------------------------------------------------------------------------
(* Time *)

Waiting == {"killing", "calling", "named", "settling"}
Down(n) == IF n > 0 THEN n - 1 ELSE 0
\* Nothing that is due is put off; an idle TUI waits for its user, and ticks often.
TimePasses ==
    /\ \A s \in Running : host[s].wait > 0
    /\ \/ Doing("idle") /\ watch.doing # "answered"
       \/ tui.doing \in Waiting /\ tui.wait > 0
    /\ ~(Doing("killing") /\ ~Alive(child)) /\ ~(Doing("settling") /\ Running = {})
    /\ Running # {} \/ tui.wait > 0
    /\ host' = [s \in Sessions |-> [host[s] EXCEPT !.wait = Down(@)]]
    /\ tui' = [tui EXCEPT !.wait = Down(@)]
    /\ UNCHANGED <<owner, backlog, child, known, profile, shown, history, watch>>

Next ==
    \/ \E s \in Sessions :
          NoticeSignal(s) \/ PollAlone(s) \/ Obey(s) \/ Finish(s) \/ End(s)
              \/ StartElsewhere(s)
    \/ WatchGivesUp
    \/ CycleProfile \/ Tick
    \/ StartPlay \/ RestartPlay \/ StopAll \/ ApplySavedProfile
    \/ ChildEnded \/ Ask \/ CallTimesOut \/ ReloadRefused
    \/ TermNamed \/ KillNamed \/ StartAgain
    \/ TimePasses

Spec == Init /\ [][Next]_vars

-----------------------------------------------------------------------------
(* Properties *)

\* A session that lets its devices go within the TUI's wait is not killed with
\* them: SIGKILL meets devices only in a session that still needed the whole wait,
\* or more, when the TUI told it to end, or in one that has begun since, fed by UDP
\* (process.rs, terminate_then_kill and stop_named; main.rs, begin_mapping and
\* map_or_release; transport.rs, wait_for_stream).
LetGoBeforeKill ==
    [][\A s \in Sessions : Alive(s) /\ ~Alive(s)' /\ Holds(s) =>
          IF needs[s] = Untold THEN StartOf(host[s]) <= StopWait ELSE needs[s] >= StopWait]_vars

\* When the TUI starts a session in another's place, its child and the owner of
\* the socket are gone: they were told, terminated or killed, and waited for,
\* unless the release that was promised takes all of the two waits.
ReplacedIsGone ==
    [][Doing("settling") /\ tui'.doing = "idle" =>
          \A s \in before : Alive(s) => needs[s] >= 2 * StopWait]_vars

\* An answer that a session gave before the TUI put another in its place is never
\* shown as the new one's, unless the user asks for a start before the next tick
\* (app.rs, restart_play, drain_status and start_play): until then the status stays,
\* or is cleared as no session is found.
OldAnswerDropped == [][watch.stale => shown' \in {shown, None}]_vars
=============================================================================
