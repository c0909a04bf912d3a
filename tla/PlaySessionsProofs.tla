------------------------- MODULE PlaySessionsProofs -------------------------
(***************************************************************************)
(* What the stop protocol promises, for any number of sessions and         *)
(* profiles, and for all sleeps, waits, openings and releases.             *)
(*                                                                         *)
(* The argument about LetGoBeforeKill is one of time: Grace says how long  *)
(* a session that was told to end can still hold devices, and it shrinks   *)
(* as the TUI's wait does.  That of ReplacedIsGone follows the session     *)
(* that is to be replaced through all the means the TUI has.               *)
(***************************************************************************)
EXTENDS PlaySessions, TLAPS

\* For how many ticks a session in state h can be found with devices, once it has
\* a SIGTERM.
Grace(h) ==
    IF h.phase = "loading" THEN h.wait + SleepOf(h) + ReleaseTime + 1
    ELSE IF h.phase = "mapping" THEN h.wait + ReleaseTime + 1
    ELSE IF h.phase \in Releases THEN h.wait
    ELSE 0

\* It holds devices, or may.
Equipped(h) == h.phase \in {"loading", "mapping"} \/ (h.phase \in Releases /\ h.wait > 0)

\* How a session goes from one state to another on its own, unless it ends.
Moves(h, g) ==
    /\ g \in HostStates /\ g.phase # Off /\ g.term = h.term
    /\ h.phase \notin {Off, "ending"} /\ h.wait = 0
    /\ h.term => Grace(g) <= Grace(h)
    /\ Equipped(g) => g.udp = h.udp /\ (Equipped(h) \/ h.phase = "starting")
    /\ g.phase = "starting" => g.wait = StartOf(g)

-----------------------------------------------------------------------------
(* States of a session and of the TUI *)

LEMMA HostTold ==
  ASSUME NEW h \in HostStates
  PROVE  LET g == [h EXCEPT !.term = TRUE]
         IN  g \in HostStates /\ g.phase = h.phase /\ g.wait = h.wait
               /\ g.udp = h.udp /\ g.term
BY DEF HostStates

LEMMA HostFields ==
  ASSUME NEW h \in HostStates
  PROVE  h.phase \in Phases /\ h.wait \in Nat /\ h.config \in Statuses
           /\ h.udp \in BOOLEAN /\ h.term \in BOOLEAN
BY DEF HostStates

LEMMA HostNew ==
  ASSUME NEW phase \in Phases, NEW config \in Statuses
  PROVE  LET g == Session(phase, config)
         IN  g \in HostStates /\ g.phase = phase /\ g.wait = 0 /\ ~g.term
BY DEF Session, HostStates

LEMMA TuiTurned ==
  ASSUME tui \in TuiStates, NEW time \in Nat,
         NEW what \in {"idle", "killing", "asking", "calling", "refused", "named", "settling"}
  PROVE  LET t == Turned(what, time)
         IN  t \in TuiStates /\ t.doing = what /\ t.goal = tui.goal /\ t.wait = time
BY DEF TuiStates, Turned

LEMMA TuiIdle == Idle \in TuiStates /\ Idle.doing = "idle" /\ Idle.goal = "none" /\ Idle.wait = 0
BY DEF TuiStates, Idle

\* What an answer makes of the TUI.
LEMMA TuiContent ==
  ASSUME tui \in TuiStates
  PROVE  /\ Content \in TuiStates
         /\ tui.goal = "reload" => Content = Idle
         /\ tui.goal = "restart" => /\ Content.doing = "settling" /\ Content.goal = "restart"
                                    /\ Content.wait = 2 * StopWait
         /\ Content.doing \in {"idle", "settling"}
         /\ Content.doing = "settling" => Content.goal = tui.goal /\ tui.goal # "reload"
         /\ Content.doing = "idle" => Content.goal = "none"
<1>1. StopWait \in Nat /\ 2 * StopWait \in Nat
  BY PlaySessionsAssumption
<1>2. CASE tui.goal = "reload"
  BY <1>2, TuiIdle DEF Content
<1>3. CASE tui.goal = "restart"
  BY <1>1, <1>3, TuiTurned DEF Content
<1>4. CASE tui.goal \notin {"reload", "restart"}
  BY <1>1, <1>4, TuiTurned DEF Content
<1> QED BY <1>2, <1>3, <1>4

LEMMA Limits ==
  /\ SearchWait \in Nat /\ StartWait \in Nat /\ CallTimeout \in Nat /\ StopWait \in Nat
  /\ PollTime \in Nat /\ LoadTime \in Nat /\ ReleaseTime \in Nat
  /\ StopWait > 0 /\ CallTimeout > 0
BY PlaySessionsAssumption

LEMMA Sleeps ==
  ASSUME NEW h
  PROVE  SleepOf(h) \in Nat /\ StartOf(h) \in Nat
BY Limits DEF SleepOf, StartOf

\* One that is told to end needs no longer than that.
LEMMA NeedIsGrace ==
  ASSUME NEW h \in HostStates
  PROVE  Need(h) \in Nat /\ Grace(h) \in Nat /\ Grace(h) <= Need(h) + 1
BY HostFields, Sleeps, Limits DEF Need, Grace, Releases

-----------------------------------------------------------------------------
(* A session *)

LEMMA LeavingMoves ==
  ASSUME NEW h \in HostStates, h.wait = 0, NEW phase \in Releases,
         h.phase \in {"searching", "starting", "mapping"}, NEW g \in Leaving(h, phase)
  PROVE  Moves(h, g) /\ g.phase = phase
<1>1. PICK time \in 0 .. (IF h.phase = "mapping" THEN ReleaseTime ELSE 0) :
         g = [h EXCEPT !.phase = phase, !.wait = time]
  BY DEF Leaving
<1>2. /\ time \in Nat /\ time <= ReleaseTime
      /\ h.phase # "mapping" => time = 0
  BY <1>1, Limits
<1>3. phase \in Phases
  BY DEF Phases
<1>4. /\ g \in HostStates /\ g.phase = phase /\ g.wait = time
      /\ g.udp = h.udp /\ g.term = h.term
  BY <1>1, <1>2, <1>3 DEF HostStates
<1> QED
  BY <1>2, <1>4, Limits DEF Moves, Grace, Equipped, Releases, Off

LEMMA RestMoves ==
  ASSUME NEW h \in HostStates, h.wait = 0, ~h.term,
         h.phase \in {"searching", "starting", "mapping"}, NEW g \in Rest(h)
  PROVE  Moves(h, g)
<1>1. ASSUME g \in Leaving(h, "letting") PROVE Moves(h, g)
  BY <1>1, LeavingMoves DEF Releases
<1>2. CASE h.phase = "searching"
  <2>1. CASE g = [h EXCEPT !.wait = SearchWait]
    <3>1. g \in HostStates /\ g.phase = "searching" /\ g.term = h.term
      BY <1>2, <2>1, Limits DEF HostStates
    <3> QED BY <3>1, <1>2 DEF Moves, Equipped, Releases, Off
  <2>2. ASSUME NEW udp \in BOOLEAN, g = Begun(h, udp) PROVE Moves(h, g)
    <3>1. /\ g \in HostStates /\ g.phase = "starting" /\ g.udp = udp /\ g.term = h.term
          /\ g.wait = StartOf([h EXCEPT !.udp = udp])
      BY <2>2, Sleeps DEF Begun, Phases, HostStates
    <3>2. StartOf([h EXCEPT !.udp = udp]) = StartOf(g)
      BY <3>1 DEF StartOf, HostStates
    <3> QED BY <3>1, <3>2, <1>2 DEF Moves, Equipped, Releases, Off
  <2> QED BY <1>2, <2>1, <2>2 DEF Rest
<1>3. CASE h.phase = "starting"
  <2>1. CASE g \in {[h EXCEPT !.phase = "loading", !.wait = time] : time \in 0 .. LoadTime}
    <3>1. PICK time \in 0 .. LoadTime : g = [h EXCEPT !.phase = "loading", !.wait = time]
      BY <2>1
    <3>2. time \in Nat
      BY <3>1, Limits
    <3>3. g \in HostStates /\ g.phase = "loading" /\ g.udp = h.udp /\ g.term = h.term
      BY <3>1, <3>2 DEF Phases, HostStates
    <3> QED BY <3>3, <1>3 DEF Moves, Equipped, Off
  <2> QED BY <1>1, <1>3, <2>1 DEF Rest
<1>4. CASE h.phase = "mapping"
  <2>1. CASE g = [h EXCEPT !.wait = SleepOf(h)]
    <3>1. g \in HostStates /\ g.phase = "mapping" /\ g.udp = h.udp /\ g.term = h.term
      BY <1>4, <2>1, Sleeps DEF HostStates
    <3> QED BY <3>1, <1>4 DEF Moves, Equipped, Off
  <2> QED BY <1>1, <1>4, <2>1 DEF Rest
<1> QED
  BY <1>2, <1>3, <1>4

\* After a release the search goes on.
LEMMA AgainState ==
  ASSUME NEW h \in HostStates
  PROVE  /\ Again(h) \in HostStates /\ Again(h).phase = "searching"
         /\ Again(h).wait = h.wait /\ Again(h).term = h.term
BY DEF Again, HostStates, Phases

LEMMA ReloadedMoves ==
  ASSUME NEW h \in HostStates, h.wait = 0, h.phase = "reloading", NEW g \in Rest(Again(h))
  PROVE  Moves(h, g)
<1> DEFINE k == Again(h)
<1>1. k \in HostStates /\ k.phase = "searching" /\ k.wait = 0 /\ k.term = h.term
  BY AgainState
<1> HIDE DEF k
<1>2. g \in {[k EXCEPT !.wait = SearchWait]} \cup {Begun(k, udp) : udp \in BOOLEAN}
  BY <1>1 DEF Rest, k
<1>3. CASE g = [k EXCEPT !.wait = SearchWait]
  <2>1. g \in HostStates /\ g.phase = "searching" /\ g.term = h.term
    BY <1>1, <1>3, Limits DEF HostStates
  <2> QED BY <2>1 DEF Moves, Grace, Equipped, Releases, Off
<1>4. ASSUME NEW udp \in BOOLEAN, g = Begun(k, udp) PROVE Moves(h, g)
  <2>1. /\ g \in HostStates /\ g.phase = "starting" /\ g.udp = udp /\ g.term = h.term
        /\ g.wait = StartOf([k EXCEPT !.udp = udp])
    BY <1>1, <1>4, Sleeps DEF Begun, Phases, HostStates
  <2>2. StartOf([k EXCEPT !.udp = udp]) = StartOf(g)
    BY <1>1, <2>1 DEF StartOf, HostStates
  <2> QED BY <2>1, <2>2 DEF Moves, Grace, Equipped, Releases, Off
<1> QED BY <1>2, <1>3, <1>4

\* What poll_once and its mapping do to a session, and to no other.
LEMMA HostMoves ==
  ASSUME TypeOK, NEW s \in Sessions,
         NoticeSignal(s) \/ PollAlone(s) \/ Obey(s) \/ Finish(s)
  PROVE  \E g \in HostStates : host' = [host EXCEPT ![s] = g] /\ Moves(host[s], g)
<1> DEFINE h == host[s]
<1>1. h \in HostStates
  BY DEF TypeOK
<1>2. ASSUME Polls(s), NEW phase \in Releases, Becomes(s, Leaving(h, phase))
      PROVE  \E g \in HostStates : host' = [host EXCEPT ![s] = g] /\ Moves(h, g)
  <2>1. PICK g \in Leaving(h, phase) : host' = [host EXCEPT ![s] = g]
    BY <1>2 DEF Becomes
  <2>2. Moves(h, g)
    BY <1>1, <1>2, LeavingMoves DEF Polls
  <2> QED BY <2>1, <2>2 DEF Moves
<1>3. CASE NoticeSignal(s)
  BY <1>3, <1>2 DEF NoticeSignal, Releases
<1>4. CASE Obey(s)
  BY <1>4, <1>2 DEF Obey, Releases
<1>5. CASE PollAlone(s)
  <2>1. PICK g \in Rest(h) : host' = [host EXCEPT ![s] = g]
    BY <1>5 DEF PollAlone, Becomes
  <2>2. Moves(h, g)
    BY <1>1, <1>5, RestMoves DEF PollAlone, Polls
  <2> QED BY <2>1, <2>2 DEF Moves
<1>6. CASE Finish(s)
  <2>1. CASE h.phase = "loading"
    <3> DEFINE g == [h EXCEPT !.phase = "mapping", !.wait = SleepOf(h)]
    <3>1. host' = [host EXCEPT ![s] = g]
      BY <1>6, <2>1 DEF Finish, Becomes
    <3>2. /\ g \in HostStates /\ g.phase = "mapping" /\ g.wait = SleepOf(h)
          /\ g.udp = h.udp /\ g.term = h.term
      BY <1>1, Sleeps DEF Phases, HostStates
    <3> HIDE DEF g
    <3>3. Moves(h, g)
      BY <3>2, <2>1, <1>6, Limits, Sleeps DEF Finish, Moves, Grace, Equipped, Releases, Off
    <3> QED BY <3>1, <3>2, <3>3
  <2>2. CASE h.phase = "letting"
    <3> DEFINE g == [Again(h) EXCEPT !.wait = SearchWait]
    <3>1. host' = [host EXCEPT ![s] = g]
      BY <1>6, <2>2 DEF Finish, Becomes
    <3>2. g \in HostStates /\ g.phase = "searching" /\ g.term = h.term
      BY <1>1, AgainState, Limits DEF HostStates
    <3> HIDE DEF g
    <3>3. Moves(h, g)
      BY <3>2, <2>2, <1>6 DEF Finish, Moves, Grace, Equipped, Releases, Off
    <3> QED BY <3>1, <3>2, <3>3
  <2>3. CASE h.phase = "reloading"
    <3>1. PICK g \in Rest(Again(h)) : host' = [host EXCEPT ![s] = g]
      BY <1>6, <2>3 DEF Finish, Becomes
    <3>2. Moves(h, g)
      BY <1>1, <1>6, <2>3, ReloadedMoves DEF Finish
    <3> QED BY <3>1, <3>2 DEF Moves
  <2> QED BY <1>6, <2>1, <2>2, <2>3 DEF Finish
<1> QED
  BY <1>3, <1>4, <1>5, <1>6

-----------------------------------------------------------------------------
(* The invariant, in parts *)

OwnerInv == owner \in Sessions => Alive(owner)

\* Nothing is due from one that is not there.
DueInv == \A s \in Sessions : ~Alive(s) => needs[s] = Untold /\ s \notin before

\* A connection that the TUI waits on carries the command it waits for.
CallInv ==
    \A call \in backlog : ~call.abandoned =>
        /\ Doing("calling")
        /\ call.command = IF tui.goal = "reload" THEN "reload" ELSE "stop"

\* One that was told lets go when it said, counted from when it was told; one that
\* began since comes to its devices after the wait, or is fed by UDP.
InTime(s) ==
    IF needs[s] = Untold
    THEN /\ Equipped(host[s]) => StartOf(host[s]) <= StopWait
         /\ host[s].phase = "starting" /\ StartOf(host[s]) > StopWait => host[s].wait > tui.wait
    ELSE /\ host[s].term
         /\ Grace(host[s]) > 0 => Grace(host[s]) + StopWait <= needs[s] + 1 + tui.wait
KillInv ==
    /\ Doing("named") => tui.wait <= StopWait /\ \A s \in Sessions : Alive(s) => InTime(s)
    /\ Doing("killing") =>
          /\ tui.wait <= StopWait /\ child \in Sessions
          /\ \A s \in {child} : Alive(s) => needs[s] # Untold /\ InTime(s)

\* The session in whose place another is to be started: the child that is being
\* killed, the owner that is being called, or one that is about to end.
Overdue(s) == needs[s] # Untold /\ host[s].wait + 2 * StopWait <= needs[s] + tui.wait
ReplaceInv ==
    tui.goal = "restart" =>
        \A s \in before : Alive(s) =>
            /\ Doing("killing") => s \in {child, owner}
            /\ tui.doing \in {"asking", "calling", "refused"} => s = owner
            /\ Doing("settling") => host[s].phase = "ending" /\ Overdue(s)

\* No session is known while an answer is older than a restart.
StaleInv == watch.stale => watch.doing = "answered" /\ ~known

GoalInv == tui.doing = "idle" <=> tui.goal = "none"

SessionsIInv ==
    /\ TypeOK /\ OwnerInv /\ DueInv /\ CallInv /\ KillInv /\ ReplaceInv
    /\ StaleInv /\ GoalInv

-----------------------------------------------------------------------------
(* The state is well formed *)

LEMMA AnswerIsState ==
  ASSUME watch \in WatchStates, NEW status \in Statuses
  PROVE  Answered(status) \in WatchStates
BY DEF WatchStates, Answered

LEMMA HungUp ==
  ASSUME TypeOK, NEW gone, HangUp(gone)
  PROVE  /\ owner' \in Sessions \cup {NoSession}
         /\ backlog' \subseteq Commands
         /\ watch' \in WatchStates
         /\ before' \subseteq Sessions
         /\ needs' \in [Sessions -> Nat \cup {Untold}]
<1>1. Answered(None) \in WatchStates
  BY AnswerIsState DEF TypeOK, Statuses
<1> QED
  BY <1>1 DEF TypeOK, HangUp

LEMMA ToldTypes ==
  ASSUME TypeOK, NEW told, Told(told)
  PROVE  host' \in [Sessions -> HostStates] /\ needs' \in [Sessions -> Nat \cup {Untold}]
BY HostTold, NeedIsGrace DEF TypeOK, Told

LEMMA Called ==
  ASSUME TypeOK, NEW goal \in {"none", "reload", "restart", "stop"}, Call(goal)
  PROVE  tui' \in TuiStates /\ backlog' \subseteq Commands
<1>1. tui' \in TuiStates
  BY Limits DEF Call, TuiStates
<1>2. [command |-> IF goal = "reload" THEN "reload" ELSE "stop", abandoned |-> FALSE] \in Commands
  BY DEF Commands
<1> QED BY <1>1, <1>2 DEF TypeOK, Call

LEMMA Ended ==
  ASSUME TypeOK, NEW goal \in {"restart", "stop"}, BeginEnding(goal)
  PROVE  TypeOK'
<1>1. tui' \in TuiStates /\ backlog' \subseteq Commands
  BY Called, Limits DEF TypeOK, BeginEnding, TuiStates
<1>2. host' \in [Sessions -> HostStates] /\ needs' \in [Sessions -> Nat \cup {Untold}]
  BY ToldTypes DEF BeginEnding, TypeOK
<1>3. before' \subseteq Sessions
  BY DEF BeginEnding, Running
<1> QED BY <1>1, <1>2, <1>3 DEF TypeOK, BeginEnding

LEMMA BeganTypes ==
  ASSUME TypeOK, NEW s \in Sessions, NEW config \in Profiles, Begins(s, config)
  PROVE  host' \in [Sessions -> HostStates] /\ owner' \in Sessions \cup {NoSession}
BY HostNew DEF TypeOK, Begins, Phases, Statuses

LEMMA AbsentState == Absent \in HostStates /\ Absent.phase = Off /\ Absent.wait = 0
BY HostNew DEF Absent, Phases, Statuses

LEMMA TypeStep == TypeOK /\ [Next]_vars => TypeOK'
<1> SUFFICES ASSUME TypeOK, [Next]_vars PROVE TypeOK'
  OBVIOUS
<1> USE DEF history
<1>1. ASSUME NEW s \in Sessions, NoticeSignal(s) \/ PollAlone(s) \/ Obey(s) \/ Finish(s)
      PROVE  TypeOK'
  <2>1. host' \in [Sessions -> HostStates]
    BY <1>1, HostMoves DEF TypeOK
  <2>2. /\ UNCHANGED <<owner, child, known, profile, shown, before>>
        /\ backlog' \subseteq backlog
    BY <1>1 DEF NoticeSignal, PollAlone, Obey, Finish, tuiVars
  <2>3. tui' \in TuiStates
    BY <1>1, TuiContent DEF NoticeSignal, PollAlone, Obey, Heard, Finish, tuiVars, TypeOK
  <2>4. watch' \in WatchStates
    <3>1. host[s].config \in Statuses
      BY HostFields DEF TypeOK
    <3>2. watch' = watch \/ watch' = Answered(host[s].config)
      BY <1>1 DEF NoticeSignal, PollAlone, Obey, Finish
    <3> QED BY <3>1, <3>2, AnswerIsState DEF TypeOK
  <2>5. needs' \in [Sessions -> Nat \cup {Untold}]
    <3>1. host'[s].wait \in Nat
      BY <2>1, HostFields
    <3>2. needs' = needs \/ needs' = [needs EXCEPT ![s] = host'[s].wait]
      BY <1>1 DEF NoticeSignal, PollAlone, Obey, Heard, Finish, tuiVars
    <3> QED BY <3>1, <3>2 DEF TypeOK
  <2> QED BY <2>1, <2>2, <2>3, <2>4, <2>5 DEF TypeOK
<1>2. ASSUME NEW s \in Sessions, End(s) PROVE TypeOK'
  <2>1. host' \in [Sessions -> HostStates]
    BY <1>2, AbsentState DEF End, Becomes, TypeOK
  <2>2. HangUp({s})
    BY <1>2 DEF End
  <2>3. tui' \in TuiStates
    BY <1>2, TuiTurned DEF End, TypeOK
  <2> QED BY <1>2, <2>1, <2>2, <2>3, HungUp DEF End, TypeOK
<1>3. ASSUME NEW s \in Sessions, StartElsewhere(s) PROVE TypeOK'
  BY <1>3, BeganTypes DEF StartElsewhere, TypeOK
<1>4. CASE WatchGivesUp
  BY <1>4, AnswerIsState DEF WatchGivesUp, tuiVars, TypeOK, Statuses
<1>5. CASE CycleProfile
  BY <1>5 DEF CycleProfile, TypeOK
<1>6. CASE Tick
  <2>1. /\ Quiet \in WatchStates /\ [Quiet EXCEPT !.doing = "asking"] \in WatchStates
        /\ DrainedWatch \in WatchStates
    BY DEF Quiet, WatchStates, Statuses, DrainedWatch, TypeOK
  <2>2. DrainedStatus \in Statuses /\ None \in Statuses
    BY DEF DrainedStatus, TypeOK, WatchStates, Statuses
  <2> QED BY <1>6, <2>1, <2>2 DEF Tick, RefreshRuntime, TypeOK
<1>7. CASE StartPlay \/ StartAgain
  <2>1. watch' \in WatchStates
    BY <1>7 DEF StartPlay, StartAgain, TypeOK, WatchStates
  <2>2. Unasked \in [Sessions -> Nat \cup {Untold}]
    BY DEF Unasked
  <2> QED
    BY <1>7, <2>1, <2>2, BeganTypes, TuiIdle DEF StartPlay, StartAgain, KnownAgain, Spawn, TypeOK
<1>8. CASE RestartPlay \/ StopAll \/ ApplySavedProfile \/ ReloadRefused
  <2>1. ASSUME Call("reload"), UNCHANGED <<host, owner, child, known, profile, shown, history, watch>>
        PROVE  TypeOK'
    BY <2>1, Called DEF TypeOK
  <2> QED BY <1>8, <2>1, Ended DEF RestartPlay, StopAll, ApplySavedProfile, ReloadRefused
<1>9. CASE ChildEnded \/ KillNamed
  <2>1. PICK victims : Killed(victims) /\ (victims = {child} \/ victims = Running)
    BY <1>9 DEF ChildEnded, KillNamed
  <2>2. host' \in [Sessions -> HostStates]
    BY <2>1, AbsentState DEF Killed, TypeOK
  <2>3. tui' \in TuiStates
    <3>1. [tui EXCEPT !.doing = "asking", !.wait = 0] \in TuiStates
      BY DEF TypeOK, TuiStates
    <3> QED BY <1>9, <3>1, TuiTurned, TuiIdle, Limits DEF ChildEnded, KillNamed, TypeOK
  <2>4. HangUp(victims)
    BY <2>1 DEF Killed
  <2> QED BY <1>9, <2>2, <2>3, <2>4, HungUp DEF ChildEnded, KillNamed, TypeOK
<1>10. CASE Ask
  <2>1. tui.goal \in {"none", "reload", "restart", "stop"}
    BY DEF TypeOK, TuiStates
  <2> QED BY <1>10, <2>1, Called DEF Ask, TypeOK
<1>11. CASE CallTimesOut \/ TermNamed
  <2>1. tui' \in TuiStates
    BY <1>11, TuiTurned, Limits DEF CallTimesOut, TermNamed, TypeOK
  <2>2. backlog' \subseteq Commands
    <3>1. \A call \in Commands : [call EXCEPT !.abandoned = TRUE] \in Commands
      BY DEF Commands
    <3> QED BY <1>11, <3>1 DEF CallTimesOut, TermNamed, TypeOK
  <2>3. host' \in [Sessions -> HostStates] /\ needs' \in [Sessions -> Nat \cup {Untold}]
    BY <1>11, ToldTypes DEF CallTimesOut, TermNamed, TypeOK
  <2> QED BY <1>11, <2>1, <2>2, <2>3 DEF CallTimesOut, TermNamed, TypeOK
<1>12. CASE TimePasses
  <2>1. ASSUME NEW n \in Nat PROVE Down(n) \in Nat
    BY DEF Down
  <2>2. host' \in [Sessions -> HostStates]
    BY <1>12, <2>1 DEF TimePasses, TypeOK, HostStates
  <2>3. tui' \in TuiStates
    BY <1>12, <2>1 DEF TimePasses, TypeOK, TuiStates
  <2> QED BY <1>12, <2>2, <2>3 DEF TimePasses, TypeOK
<1>13. CASE UNCHANGED vars
  BY <1>13 DEF vars, tuiVars, TypeOK
<1> QED
  BY <1>1, <1>2, <1>3, <1>4, <1>5, <1>6, <1>7, <1>8, <1>9, <1>10, <1>11, <1>12, <1>13
     DEF Next

-----------------------------------------------------------------------------
(* What a step can do to a session *)

\* It is gone, and nothing is due from it any more.
Gone(s) ==
    /\ host'[s] = Absent /\ needs'[s] = Untold /\ s \notin before' /\ owner' # s
    /\ End(s) \/ KillNamed \/ (ChildEnded /\ s = child)

LEMMA HungUpForgets ==
  ASSUME TypeOK, NEW gone, HangUp(gone), NEW s \in Sessions
  PROVE  /\ s \in gone => needs'[s] = Untold /\ s \notin before' /\ owner' # s
         /\ s \notin gone => needs'[s] = needs[s]
BY PlaySessionsAssumption DEF HangUp, TypeOK

\* It is new, and has not been told.
Began(s) ==
    /\ ~Alive(s)
    /\ \E p \in Profiles : host'[s] = Session("searching", p)
    /\ tui' = Idle \/ (s # child /\ needs' = needs /\ before' = before)

\* The states of a session before and after a step.
HostStepOf(s) ==
    \/ host'[s] = host[s]
    \/ Moves(host[s], host'[s])
    \/ Gone(s)
    \/ Began(s)
    \/ Alive(s) /\ host'[s] = [host[s] EXCEPT !.term = TRUE]
    \/ TimePasses /\ host'[s] = [host[s] EXCEPT !.wait = Down(@)]

LEMMA HostStep ==
  ASSUME TypeOK, [Next]_vars, NEW s \in Sessions
  PROVE  HostStepOf(s)
<1> USE DEF HostStepOf
<1>1. ASSUME NEW r \in Sessions, NoticeSignal(r) \/ PollAlone(r) \/ Obey(r) \/ Finish(r)
      PROVE  HostStepOf(s)
  BY <1>1, HostMoves DEF TypeOK
<1>2. ASSUME NEW r \in Sessions, End(r) PROVE HostStepOf(s)
  <2>1. HangUp({r}) /\ host' = [host EXCEPT ![r] = Absent]
    BY <1>2 DEF End, Becomes
  <2>2. CASE r = s
    BY <1>2, <2>1, <2>2, HungUpForgets DEF Gone, TypeOK
  <2>3. CASE r # s
    BY <2>1, <2>3 DEF TypeOK
  <2> QED BY <2>2, <2>3
<1>3. ASSUME NEW r \in Sessions, NEW p \in Profiles, Begins(r, p),
             tui' = Idle \/ (r # child /\ needs' = needs /\ before' = before)
      PROVE  HostStepOf(s)
  BY <1>3 DEF Begins, Began, TypeOK
<1>4. ASSUME NEW r \in Sessions, StartElsewhere(r) PROVE HostStepOf(s)
  BY <1>3, <1>4 DEF StartElsewhere, history
<1>5. CASE WatchGivesUp \/ CycleProfile \/ Tick \/ CallTimesOut \/ Ask
  BY <1>5 DEF WatchGivesUp, CycleProfile, Tick, CallTimesOut, Ask
<1>6. CASE StartPlay \/ StartAgain
  BY <1>3, <1>6 DEF StartPlay, StartAgain, Spawn, TypeOK
<1>7. ASSUME NEW told \in SUBSET Running, Told(told) PROVE HostStepOf(s)
  BY <1>7 DEF Told, Running
<1>8. ASSUME NEW goal, BeginEnding(goal) PROVE HostStepOf(s)
  BY <1>7, <1>8 DEF BeginEnding
<1>9. CASE RestartPlay \/ StopAll \/ ReloadRefused \/ ApplySavedProfile
  BY <1>8, <1>9 DEF RestartPlay, StopAll, ReloadRefused, ApplySavedProfile
<1>10. ASSUME NEW victims, Killed(victims), KillNamed \/ (ChildEnded /\ victims = {child})
       PROVE  HostStepOf(s)
  <2>1. CASE s \in victims
    BY <1>10, <2>1, HungUpForgets DEF Killed, Gone
  <2>2. CASE s \notin victims
    BY <1>10, <2>2 DEF Killed
  <2> QED BY <2>1, <2>2
<1>11. CASE KillNamed
  BY <1>10, <1>11 DEF KillNamed
<1>12. CASE ChildEnded
  BY <1>10, <1>12 DEF ChildEnded
<1>13. CASE TermNamed
  BY <1>7, <1>13 DEF TermNamed
<1>14. CASE TimePasses
  BY <1>14 DEF TimePasses
<1>15. CASE UNCHANGED vars
  BY <1>15 DEF vars
<1> HIDE DEF HostStepOf
<1> QED
  BY <1>1, <1>2, <1>4, <1>5, <1>6, <1>8, <1>9, <1>11, <1>12, <1>13, <1>14, <1>15 DEF Next

\* A session that lives on keeps its signal.
LEMMA HostStepKeeps ==
  ASSUME TypeOK, NEW s \in Sessions, HostStepOf(s), Alive(s), ~Gone(s)
  PROVE  host'[s].phase # Off /\ (host[s].term => host'[s].term)
BY DEF HostStepOf, Moves, Began, Alive, TypeOK, HostStates

\* Who is not there after a step was not there before, or is gone.
LEMMA HostStepEnds ==
  ASSUME TypeOK, NEW s \in Sessions, HostStepOf(s), host'[s].phase = Off
  PROVE  ~Alive(s) \/ Gone(s)
BY HostStepKeeps

\* Nothing new is due from a session.
Kept(s) == (needs'[s] = needs[s] /\ (s \in before' <=> s \in before)) \/ Gone(s)
\* A step that is none of the TUI's, or none that changes what it does.
Aside ==
    /\ tui' = tui
    /\ child' = child \/ AtKeys
    /\ \A s \in Sessions : Kept(s)

\* What a step makes of what the TUI does.
TuiStepOf ==
    \/ Aside
    \/ TimePasses
    \/ (StartPlay \/ StartAgain) /\ tui' = Idle /\ history' = <<{}, Unasked>>
    \/ \E s \in Sessions : Obey(s) /\ Doing("calling") /\ tui' = Content
    \/ \E s \in Sessions : End(s) /\ owner = s /\ Doing("calling") /\ tui' = Turned("refused", 0)
    \/ RestartPlay \/ StopAll \/ ApplySavedProfile \/ ReloadRefused
    \/ ChildEnded \/ Ask \/ CallTimesOut \/ TermNamed \/ KillNamed

LEMMA TuiStep == TypeOK /\ [Next]_vars => TuiStepOf
<1> SUFFICES ASSUME TypeOK, [Next]_vars PROVE TuiStepOf
  OBVIOUS
<1> USE DEF history
<1>1. ASSUME NEW s \in Sessions, NoticeSignal(s) \/ PollAlone(s) \/ Finish(s) \/ StartElsewhere(s)
      PROVE  TuiStepOf
  BY <1>1 DEF NoticeSignal, PollAlone, Finish, StartElsewhere, tuiVars, TuiStepOf, Aside, Kept
<1>2. ASSUME NEW s \in Sessions, Obey(s) PROVE TuiStepOf
  BY <1>2 DEF Obey, Heard, TuiStepOf, Aside, Kept
<1>3. ASSUME NEW s \in Sessions, End(s) PROVE TuiStepOf
  <2>1. CASE tui' = tui
    <3>1. HangUp({s}) /\ child' = child /\ host' = [host EXCEPT ![s] = Absent]
      BY <1>3 DEF End, Becomes
    <3>2. ASSUME NEW r \in Sessions PROVE Kept(r)
      <4>1. CASE r = s
        BY <1>3, <3>1, <4>1, HungUpForgets DEF Kept, Gone, TypeOK
      <4>2. CASE r # s
        BY <3>1, <4>2 DEF Kept, HangUp
      <4> QED BY <4>1, <4>2
    <3> QED BY <2>1, <3>1, <3>2 DEF TuiStepOf, Aside
  <2>2. CASE tui' # tui
    BY <1>3, <2>2 DEF End, TuiStepOf
  <2> QED BY <2>1, <2>2
<1>4. CASE WatchGivesUp \/ CycleProfile \/ Tick
  BY <1>4 DEF WatchGivesUp, CycleProfile, Tick, tuiVars, TuiStepOf, Aside, Kept
<1>5. CASE StartPlay \/ StartAgain
  BY <1>5 DEF StartPlay, StartAgain, Spawn, TuiStepOf, Aside, Kept
<1>6. CASE UNCHANGED vars
  BY <1>6 DEF vars, tuiVars, TuiStepOf, Aside, Kept
<1>7. CASE RestartPlay \/ StopAll \/ ApplySavedProfile \/ ReloadRefused \/ ChildEnded \/ Ask
             \/ CallTimesOut \/ TermNamed \/ KillNamed \/ TimePasses
  BY <1>7 DEF TuiStepOf
<1> QED
  BY <1>1, <1>2, <1>3, <1>4, <1>5, <1>6, <1>7 DEF Next

LEMMA CallFacts ==
  ASSUME TypeOK, NEW goal, Call(goal)
  PROVE  /\ tui'.goal = goal
         /\ owner = NoSession => tui'.doing = "refused" /\ backlog' = backlog
         /\ owner # NoSession =>
               /\ tui'.doing = "calling"
               /\ \A call \in backlog' :
                     \/ call \in backlog
                     \/ call.command = IF goal = "reload" THEN "reload" ELSE "stop"
BY DEF Call

LEMMA EndingFacts ==
  ASSUME TypeOK, NEW goal, BeginEnding(goal)
  PROVE  /\ tui'.goal = goal
         /\ child = NoSession => Call(goal) /\ UNCHANGED <<host, needs>>
         /\ child # NoSession =>
               /\ tui'.doing = "killing" /\ tui'.wait = StopWait
               /\ backlog' = backlog
               /\ Told({child} \cap Running)
BY CallFacts DEF BeginEnding

LEMMA EndingBegins ==
  ASSUME RestartPlay \/ StopAll \/ ApplySavedProfile \/ ReloadRefused
  PROVE  \/ \E goal \in {"restart", "stop"} : BeginEnding(goal)
         \/ AtKeys /\ Call("reload")
              /\ UNCHANGED <<host, owner, child, known, profile, shown, before, needs, watch>>
BY DEF RestartPlay, StopAll, ApplySavedProfile, ReloadRefused, history

LEMMA TuiTicks ==
  ASSUME TypeOK, TimePasses
  PROVE  /\ tui'.doing = tui.doing /\ tui'.goal = tui.goal /\ tui'.wait = Down(tui.wait)
BY DEF TypeOK, TimePasses, TuiStates

-----------------------------------------------------------------------------
(* Goals, calls and answers *)

LEMMA GoalStep == TypeOK /\ GoalInv /\ [Next]_vars => GoalInv'
<1> SUFFICES ASSUME TypeOK, GoalInv, [Next]_vars PROVE GoalInv'
  OBVIOUS
<1> USE DEF GoalInv, Doing
<1>0. tui \in TuiStates
  BY DEF TypeOK
<1>1. CASE tui' = tui
  BY <1>1
<1>2. CASE TimePasses
  BY <1>2, TuiTicks
<1>3. CASE tui' = Idle
  BY <1>3, TuiIdle
<1>4. CASE Doing("calling") /\ tui' = Content
  BY <1>0, <1>4, TuiContent
<1>5. CASE Doing("calling") /\ tui' = Turned("refused", 0)
  BY <1>0, <1>5, TuiTurned
<1>6. CASE RestartPlay \/ StopAll \/ ApplySavedProfile \/ ReloadRefused
  <2>1. ASSUME NEW goal \in {"restart", "stop"}, BeginEnding(goal) PROVE GoalInv'
    BY <2>1, EndingFacts, CallFacts
  <2>2. ASSUME Call("reload") PROVE GoalInv'
    BY <2>2, CallFacts
  <2> QED BY <1>6, <2>1, <2>2, EndingBegins
<1>7. CASE ChildEnded
  BY <1>0, <1>7 DEF ChildEnded, TuiStates
<1>8. CASE Ask
  BY <1>8, CallFacts DEF Ask
<1>9. CASE CallTimesOut \/ TermNamed
  BY <1>0, <1>9, TuiTurned, Limits DEF CallTimesOut, TermNamed
<1>10. CASE KillNamed
  BY <1>0, <1>10, TuiTurned, TuiIdle, Limits DEF KillNamed, KillsNamed
<1> QED
  BY <1>1, <1>2, <1>3, <1>4, <1>5, <1>6, <1>7, <1>8, <1>9, <1>10, TuiStep DEF TuiStepOf, Aside

LEMMA CallStep == TypeOK /\ CallInv /\ [Next]_vars => CallInv'
<1> SUFFICES ASSUME TypeOK, CallInv, [Next]_vars PROVE CallInv'
  OBVIOUS
<1> USE DEF CallInv, Doing
<1>0. tui \in TuiStates
  BY DEF TypeOK
<1>1. ASSUME backlog' \subseteq backlog, tui' = tui PROVE CallInv'
  BY <1>1
<1>2. ASSUME backlog' \subseteq backlog, ~Doing("calling") PROVE CallInv'
  BY <1>2
<1>3. ASSUME NEW goal, Call(goal), ~Doing("calling") PROVE CallInv'
  BY <1>3, CallFacts
<1>4. ASSUME NEW s \in Sessions, Obey(s) PROVE CallInv'
  <2>1. PICK call \in backlog :
           /\ backlog' = backlog \ {call}
           /\ call.abandoned \/ ~Doing("calling") => tui' = tui
    BY <1>4 DEF Obey, Heard
  <2>2. CASE call.abandoned \/ ~Doing("calling")
    BY <1>1, <2>1, <2>2
  <2>3. CASE ~call.abandoned
    <3>1. ASSUME NEW other \in backlog, ~other.abandoned PROVE other = call
      BY <2>3, <3>1 DEF TypeOK, Commands
    <3> QED BY <2>1, <3>1
  <2> QED BY <2>2, <2>3
<1>5. ASSUME NEW s \in Sessions, End(s) PROVE CallInv'
  <2>1. CASE owner = s
    BY <1>5, <2>1 DEF End, HangUp
  <2>2. CASE owner # s
    BY <1>1, <1>5, <2>2 DEF End, HangUp
  <2> QED BY <2>1, <2>2
<1>6. ASSUME NEW s \in Sessions, NoticeSignal(s) \/ PollAlone(s) \/ Finish(s) \/ StartElsewhere(s)
      PROVE  CallInv'
  BY <1>1, <1>6 DEF NoticeSignal, PollAlone, Finish, StartElsewhere, tuiVars
<1>7. CASE WatchGivesUp \/ CycleProfile \/ Tick
  BY <1>1, <1>7 DEF WatchGivesUp, CycleProfile, Tick, tuiVars
<1>8. CASE StartPlay \/ StartAgain
  BY <1>2, <1>8 DEF StartPlay, StartAgain, AtKeys, Settled
<1>9. CASE RestartPlay \/ StopAll \/ ApplySavedProfile \/ ReloadRefused
  <2>1. ~Doing("calling")
    BY <1>9 DEF RestartPlay, StopAll, ApplySavedProfile, ReloadRefused, AtKeys
  <2>2. ASSUME NEW goal, BeginEnding(goal) PROVE CallInv'
    BY <1>2, <1>3, <2>1, <2>2, EndingFacts
  <2> QED BY <1>3, <1>9, <2>1, <2>2, EndingBegins
<1>10. CASE ChildEnded \/ KillNamed
  BY <1>2, <1>10 DEF ChildEnded, KillNamed, KillsNamed, Killed, HangUp
<1>11. CASE Ask
  BY <1>3, <1>11 DEF Ask
<1>12. CASE CallTimesOut
  BY <1>12 DEF CallTimesOut, TypeOK, Commands
<1>13. CASE TermNamed
  BY <1>2, <1>13 DEF TermNamed
<1>14. CASE TimePasses
  BY <1>14, TuiTicks DEF TimePasses
<1>15. CASE UNCHANGED vars
  BY <1>1, <1>15 DEF vars, tuiVars
<1> QED
  BY <1>4, <1>5, <1>6, <1>7, <1>8, <1>9, <1>10, <1>11, <1>12, <1>13, <1>14, <1>15 DEF Next

\* An answer outlives a restart until the next tick, and no session is known then.
LEMMA StaleStep == TypeOK /\ StaleInv /\ [Next]_vars => StaleInv'
<1> SUFFICES ASSUME TypeOK, StaleInv, [Next]_vars PROVE StaleInv'
  OBVIOUS
<1> USE DEF StaleInv
<1>0. watch \in WatchStates
  BY DEF TypeOK
<1>1. ASSUME watch' = watch, known' = known PROVE StaleInv'
  BY <1>1
<1>2. ASSUME NEW status, watch' = Answered(status), known' = known PROVE StaleInv'
  BY <1>0, <1>2 DEF Answered
<1>3. ASSUME NEW gone, HangUp(gone), known' = known \/ ~known' PROVE StaleInv'
  <2>1. watch' = watch \/ watch' = Answered(None)
    BY <1>3 DEF HangUp
  <2>2. watch'.stale => watch' = watch
    BY <1>0, <2>1 DEF Answered
  <2> QED BY <1>3, <2>2
<1>4. ASSUME NEW s \in Sessions,
             NoticeSignal(s) \/ PollAlone(s) \/ Obey(s) \/ Finish(s) \/ StartElsewhere(s)
      PROVE  StaleInv'
  BY <1>1, <1>2, <1>4 DEF NoticeSignal, PollAlone, Obey, Finish, StartElsewhere, tuiVars
<1>5. ASSUME NEW s \in Sessions, End(s) PROVE StaleInv'
  BY <1>3, <1>5 DEF End
<1>6. CASE WatchGivesUp
  BY <1>2, <1>6 DEF WatchGivesUp, tuiVars
<1>7. CASE Tick
  <2>1. ~DrainedWatch.stale
    BY <1>0 DEF DrainedWatch, Quiet, WatchStates
  <2>2. ~[Quiet EXCEPT !.doing = "asking"].stale
    BY DEF Quiet
  <2> QED BY <1>7, <2>1, <2>2 DEF Tick, RefreshRuntime
<1>8. CASE StartPlay \/ StartAgain
  BY <1>0, <1>8 DEF StartPlay, StartAgain, KnownAgain, WatchStates
<1>9. CASE RestartPlay \/ StopAll \/ ApplySavedProfile \/ ReloadRefused
  BY <1>1, <1>9, EndingBegins DEF BeginEnding
<1>10. CASE ChildEnded \/ KillNamed
  BY <1>3, <1>10 DEF ChildEnded, KillNamed, Killed
<1>11. CASE CycleProfile \/ Ask \/ CallTimesOut \/ TermNamed \/ TimePasses
  BY <1>1, <1>11 DEF CycleProfile, Ask, CallTimesOut, TermNamed, TimePasses
<1>12. CASE UNCHANGED vars
  BY <1>1, <1>12 DEF vars, tuiVars
<1> QED
  BY <1>4, <1>5, <1>6, <1>7, <1>8, <1>9, <1>10, <1>11, <1>12 DEF Next

-----------------------------------------------------------------------------
(* The owner, and who is not there *)

LEMMA HungUpOwner ==
  ASSUME NEW gone, HangUp(gone)
  PROVE  owner' = owner \/ (owner \in gone /\ owner' = NoSession)
BY DEF HangUp

\* A step that changes the owner ends it, or begins another.
LEMMA OwnerMoves ==
  ASSUME TypeOK, [Next]_vars
  PROVE  \/ owner' = owner
         \/ owner' = NoSession /\ (owner \in Sessions => host'[owner].phase = Off)
         \/ owner = NoSession /\ host'[owner'].phase # Off
<1> DEFINE Ok == \/ owner' = owner
                 \/ owner' = NoSession /\ (owner \in Sessions => host'[owner].phase = Off)
                 \/ owner = NoSession /\ host'[owner'].phase # Off
<1>1. ASSUME NEW s \in Sessions, End(s) PROVE Ok
  <2>1. host' = [host EXCEPT ![s] = Absent] /\ HangUp({s})
    BY <1>1 DEF End, Becomes
  <2>2. owner \in {s} => host'[owner].phase = Off
    BY <2>1, AbsentState DEF Alive, TypeOK
  <2> QED BY <2>1, <2>2, HungUpOwner
<1>2. ASSUME NEW s \in Sessions, NEW p \in Profiles, Begins(s, p) PROVE Ok
  <2>1. host'[s].phase # Off
    BY <1>2, HostNew DEF Begins, TypeOK, Phases, Off, Statuses
  <2> QED BY <1>2, <2>1 DEF Begins, Alive
<1>3. ASSUME NEW s \in Sessions,
             NoticeSignal(s) \/ PollAlone(s) \/ Obey(s) \/ Finish(s) \/ StartElsewhere(s)
      PROVE  Ok
  BY <1>2, <1>3 DEF NoticeSignal, PollAlone, Obey, Finish, StartElsewhere
<1>4. CASE WatchGivesUp \/ CycleProfile \/ Tick \/ CallTimesOut \/ Ask \/ TermNamed \/ TimePasses
  BY <1>4 DEF WatchGivesUp, CycleProfile, Tick, CallTimesOut, Ask, TermNamed, TimePasses
<1>5. CASE StartPlay \/ StartAgain
  BY <1>2, <1>5 DEF StartPlay, StartAgain, Spawn, TypeOK
<1>6. CASE RestartPlay \/ StopAll \/ ApplySavedProfile \/ ReloadRefused
  BY <1>6, EndingBegins DEF BeginEnding
<1>7. CASE ChildEnded \/ KillNamed
  <2>1. PICK victims : Killed(victims)
    BY <1>7 DEF ChildEnded, KillNamed
  <2>2. owner \in Sessions /\ owner \in victims => host'[owner].phase = Off
    BY <2>1, AbsentState DEF Killed, Alive
  <2> QED BY <2>1, <2>2, HungUpOwner DEF Killed
<1>8. CASE UNCHANGED vars
  BY <1>8 DEF vars
<1> QED
  BY <1>1, <1>3, <1>4, <1>5, <1>6, <1>7, <1>8 DEF Next

LEMMA OwnerStep == TypeOK /\ OwnerInv /\ [Next]_vars => OwnerInv'
<1> SUFFICES ASSUME TypeOK, OwnerInv, [Next]_vars, owner' \in Sessions
             PROVE  host'[owner'].phase # Off
  BY DEF OwnerInv, Alive
<1>1. CASE owner' = owner
  <2>1. HostStepOf(owner)
    BY <1>1, HostStep
  <2> QED BY <1>1, <2>1, HostStepKeeps DEF OwnerInv, Gone, Alive
<1> QED
  BY <1>1, OwnerMoves, PlaySessionsAssumption

\* Nothing comes to be due from one that is not there.
LEMMA AbsentOwesNothing ==
  ASSUME TypeOK, DueInv, [Next]_vars, NEW s \in Sessions, ~Alive(s)
  PROVE  needs'[s] = Untold /\ s \notin before'
<1>0. needs[s] = Untold /\ s \notin before
  BY DEF DueInv
<1>1. CASE Aside
  BY <1>0, <1>1 DEF Aside, Kept, Gone
<1>2. CASE history' = <<{}, Unasked>>
  BY <1>2 DEF history, Unasked
<1>3. ASSUME NEW r \in Sessions, Obey(r) PROVE needs'[s] = Untold /\ s \notin before'
  <2>1. r # s
    BY <1>3 DEF Obey, Polls, Alive, Off
  <2> QED BY <1>0, <1>3, <2>1 DEF Obey, Heard, TypeOK
<1>4. ASSUME NEW gone, HangUp(gone) PROVE needs'[s] = Untold /\ s \notin before'
  BY <1>0, <1>4 DEF HangUp
<1>5. ASSUME NEW told \in SUBSET Running, Told(told) PROVE needs'[s] = Untold
  BY <1>5 DEF Told, Running
<1>6. CASE RestartPlay \/ StopAll \/ ApplySavedProfile \/ ReloadRefused
  <2>1. ASSUME NEW goal, BeginEnding(goal) PROVE needs'[s] = Untold /\ s \notin before'
    BY <1>0, <1>5, <2>1 DEF BeginEnding, Running
  <2> QED BY <1>0, <1>6, <2>1, EndingBegins
<1>7. CASE TermNamed
  BY <1>0, <1>5, <1>7 DEF TermNamed
<1>8. CASE Ask \/ CallTimesOut \/ TimePasses
  BY <1>0, <1>8 DEF Ask, CallTimesOut, TimePasses, history
<1> QED
  BY <1>1, <1>2, <1>3, <1>4, <1>6, <1>7, <1>8, TuiStep
     DEF TuiStepOf, End, ChildEnded, KillNamed, Killed

LEMMA DueStep == TypeOK /\ DueInv /\ [Next]_vars => DueInv'
<1> SUFFICES ASSUME TypeOK, DueInv, [Next]_vars, NEW s \in Sessions, host'[s].phase = Off
             PROVE  needs'[s] = Untold /\ s \notin before'
  BY DEF DueInv, Alive
<1>1. HostStepOf(s)
  BY HostStep
<1> QED
  BY <1>1, HostStepEnds, AbsentOwesNothing DEF Gone

-----------------------------------------------------------------------------
(* Those that are told let go in time *)

\* How long the TUI still waits, after a step that is not its own.
LEMMA InTimeStep ==
  ASSUME TypeOK, DueInv, NEW s \in Sessions, HostStepOf(s), Alive(s) => InTime(s),
         tui.wait <= StopWait, Kept(s),
         \/ ~TimePasses /\ tui'.wait = tui.wait
         \/ TimePasses /\ tui.wait > 0 /\ tui'.wait = tui.wait - 1
  PROVE  host'[s].phase # Off => InTime(s)'
<1> DEFINE h == host[s]  g == host'[s]  n == needs[s]
           Goal == IF n = Untold
                   THEN /\ Equipped(g) => StartOf(g) <= StopWait
                        /\ g.phase = "starting" /\ StartOf(g) > StopWait => g.wait > tui'.wait
                   ELSE /\ g.term
                        /\ Grace(g) > 0 => Grace(g) + StopWait <= n + 1 + tui'.wait
<1>0. /\ h \in HostStates /\ h.wait \in Nat /\ h.term \in BOOLEAN
      /\ tui.wait \in Nat /\ tui'.wait \in Nat /\ n \in Nat \cup {Untold}
      /\ Grace(h) \in Nat /\ StartOf(h) \in Nat
  BY HostFields, NeedIsGrace, Sleeps DEF TypeOK, TuiStates
<1> SUFFICES ASSUME g.phase # Off PROVE Goal
  <2>1. ASSUME g.phase # Off PROVE needs'[s] = n
    BY <2>1, AbsentState DEF Kept, Gone
  <2> QED BY <2>1 DEF InTime
<1> HIDE DEF n
<1>1. CASE TimePasses
  <2>1. host' = [r \in Sessions |-> [host[r] EXCEPT !.wait = Down(@)]]
    BY <1>1 DEF TimePasses
  <2>2. g.phase = h.phase /\ g.term = h.term /\ g.udp = h.udp /\ g.wait = Down(h.wait)
    BY <1>0, <2>1 DEF HostStates
  <2>3. Alive(s) /\ h.wait > 0
    BY <1>1, <2>2 DEF TimePasses, Running, Alive
  <2>4. InTime(s) /\ g.wait = h.wait - 1
    BY <1>0, <2>2, <2>3 DEF Down
  <2>5. /\ Grace(g) = Grace(h) - 1 \/ Grace(g) = 0
        /\ StartOf(g) = StartOf(h)
        /\ Equipped(g) => Equipped(h)
    <3>1. SleepOf(g) = SleepOf(h) /\ StartOf(g) = StartOf(h)
      BY <2>2 DEF SleepOf, StartOf
    <3>2. SleepOf(h) \in Nat
      BY Sleeps
    <3> HIDE DEF h, g
    <3> QED BY <1>0, <2>2, <2>4, <3>1, <3>2, Limits DEF Grace, Equipped, h
  <2>6. IF n = Untold
        THEN /\ Equipped(h) => StartOf(h) <= StopWait
             /\ h.phase = "starting" /\ StartOf(h) > StopWait => h.wait > tui.wait
        ELSE /\ h.term
             /\ Grace(h) > 0 => Grace(h) + StopWait <= n + 1 + tui.wait
    BY <2>4 DEF InTime, n
  <2>7. tui.wait > 0 /\ tui'.wait = tui.wait - 1
    BY <1>1
  <2> HIDE DEF h, g
  <2> QED BY <1>0, <2>2, <2>4, <2>5, <2>6, <2>7, Limits DEF Untold
<1>2. CASE ~TimePasses
  <2>0. tui'.wait = tui.wait
    BY <1>2
  <2>1. ASSUME Alive(s)
        PROVE  IF n = Untold
               THEN /\ Equipped(h) => StartOf(h) <= StopWait
                    /\ h.phase = "starting" /\ StartOf(h) > StopWait => h.wait > tui.wait
               ELSE /\ h.term
                    /\ Grace(h) > 0 => Grace(h) + StopWait <= n + 1 + tui.wait
    BY <2>1 DEF InTime, n
  <2>2. CASE g = h
    BY <2>0, <2>1, <2>2 DEF Alive
  <2>3. CASE Moves(h, g)
    <3>1. /\ Alive(s) /\ h.wait = 0 /\ g \in HostStates /\ g.term = h.term
          /\ h.term => Grace(g) <= Grace(h)
          /\ Equipped(g) => g.udp = h.udp /\ (Equipped(h) \/ h.phase = "starting")
          /\ g.phase = "starting" => g.wait = StartOf(g)
      BY <2>3 DEF Moves, Alive, Off
    <3>2. Grace(g) \in Nat /\ StartOf(g) \in Nat
      BY <3>1, NeedIsGrace, Sleeps
    <3>3. Equipped(g) => StartOf(g) = StartOf(h)
      BY <3>1 DEF StartOf
    <3> HIDE DEF h, g
    <3> QED BY <1>0, <2>0, <2>1, <3>1, <3>2, <3>3, Limits DEF Untold
  <2>4. CASE Gone(s)
    BY <2>4, AbsentState DEF Gone
  <2>5. CASE Began(s)
    <3>1. g.phase = "searching" /\ n = Untold
      BY <2>5, HostNew DEF Began, Phases, Statuses, DueInv, n
    <3> QED BY <3>1 DEF Equipped, Releases
  <2>6. CASE Alive(s) /\ g = [h EXCEPT !.term = TRUE]
    <3>1. g.term /\ g.phase = h.phase /\ g.wait = h.wait /\ g.udp = h.udp
      BY <1>0, <2>6, HostTold
    <3>2. Grace(g) = Grace(h) /\ StartOf(g) = StartOf(h) /\ (Equipped(g) <=> Equipped(h))
      BY <3>1 DEF Grace, SleepOf, StartOf, Equipped
    <3> QED BY <2>0, <2>1, <2>6, <3>1, <3>2
  <2> QED BY <1>2, <2>2, <2>3, <2>4, <2>5, <2>6 DEF HostStepOf
<1> QED
  BY <1>1, <1>2

\* One who is told to end as the wait begins.
LEMMA ToldInTime ==
  ASSUME TypeOK, NEW told \in SUBSET Running, Told(told), NEW s \in told, tui'.wait = StopWait
  PROVE  needs'[s] # Untold /\ InTime(s)'
<1>1. s \in Sessions /\ host[s] \in HostStates
  BY DEF Running, TypeOK
<1>2. host'[s] = [host[s] EXCEPT !.term = TRUE] /\ needs'[s] = Need(host[s])
  BY <1>1 DEF Told
<1>3. /\ host'[s].term /\ host'[s].phase = host[s].phase /\ host'[s].wait = host[s].wait
      /\ host'[s].udp = host[s].udp
  BY <1>1, <1>2, HostTold
<1>4. Grace(host'[s]) = Grace(host[s])
  BY <1>3 DEF Grace, SleepOf
<1>5. /\ Need(host[s]) \in Nat /\ Grace(host[s]) \in Nat /\ Grace(host[s]) <= Need(host[s]) + 1
  BY <1>1, NeedIsGrace
<1> QED
  BY <1>2, <1>3, <1>4, <1>5, Limits DEF InTime, Untold

LEMMA KillStep == TypeOK /\ DueInv /\ KillInv /\ [Next]_vars => KillInv'
<1> SUFFICES ASSUME TypeOK, DueInv, KillInv, [Next]_vars PROVE KillInv'
  OBVIOUS
<1> DEFINE Killing == /\ tui'.wait <= StopWait /\ child' \in Sessions
                      /\ \A s \in {child'} : host'[s].phase # Off
                                            => needs'[s] # Untold /\ InTime(s)'
           Named == tui'.wait <= StopWait /\ \A s \in Sessions : host'[s].phase # Off => InTime(s)'
           Goal == /\ tui'.doing = "killing" => Killing
                   /\ tui'.doing = "named" => Named
<1> SUFFICES Goal
  BY DEF KillInv, Doing, Alive
<1>0. tui \in TuiStates /\ tui.wait \in Nat
  BY DEF TypeOK, TuiStates
<1>1. ASSUME tui'.doing = tui.doing, tui.doing \in {"killing", "named"}, child' = child,
             \A s \in Sessions : Kept(s),
             \/ ~TimePasses /\ tui'.wait = tui.wait
             \/ TimePasses /\ tui.wait > 0 /\ tui'.wait = tui.wait - 1
      PROVE  Goal
  <2>1. tui.wait <= StopWait /\ tui'.wait <= StopWait
    BY <1>0, <1>1, Limits DEF KillInv, Doing
  <2>2. ASSUME NEW s \in Sessions, Alive(s) => InTime(s) PROVE host'[s].phase # Off => InTime(s)'
    BY <1>1, <2>1, <2>2, HostStep, InTimeStep
  <2>3. CASE tui.doing = "named"
    BY <1>1, <2>1, <2>2, <2>3 DEF KillInv, Doing
  <2>4. CASE tui.doing = "killing"
    <3> SUFFICES ASSUME NEW s \in {child}, host'[s].phase # Off
                 PROVE  needs'[s] # Untold /\ InTime(s)'
      BY <1>1, <2>1, <2>4 DEF KillInv, Doing
    <3>1. s \in Sessions /\ (Alive(s) => needs[s] # Untold /\ InTime(s))
      BY <2>4 DEF KillInv, Doing
    <3>2. HostStepOf(s)
      BY <3>1, HostStep
    <3>3. ~Began(s) /\ ~Gone(s)
      BY <1>1, <2>4, TuiIdle, AbsentState DEF Began, Gone
    <3>4. Alive(s)
      BY <3>1, <3>2, <3>3 DEF HostStepOf, Alive, Moves, TypeOK, HostStates
    <3>5. needs'[s] # Untold
      BY <1>1, <3>1, <3>3, <3>4 DEF Kept
    <3> QED BY <2>2, <3>1, <3>5
  <2> QED BY <1>1, <2>3, <2>4
<1>2. CASE TimePasses
  <2>1. /\ tui'.doing = tui.doing /\ tui'.wait = Down(tui.wait) /\ child' = child
        /\ \A s \in Sessions : Kept(s)
    BY <1>2, TuiTicks DEF TimePasses, history, Kept
  <2>2. tui.doing \in {"killing", "named"} => tui.wait > 0
    BY <1>2 DEF TimePasses, Doing
  <2> QED BY <1>0, <1>1, <1>2, <2>1, <2>2 DEF Down
<1>3. CASE Aside /\ ~TimePasses
  BY <1>1, <1>3 DEF Aside, AtKeys, Doing
<1>4. CASE TermNamed
  <2>1. tui'.doing = "named" /\ tui'.wait = StopWait /\ Told(Running)
    BY <1>0, <1>4, TuiTurned, Limits DEF TermNamed
  <2>2. ASSUME NEW s \in Sessions, host'[s].phase # Off PROVE InTime(s)'
    <3>1. s \in Running
      BY <2>1, <2>2 DEF Told, Running, Alive
    <3> QED BY <2>1, <3>1, ToldInTime
  <2> QED BY <2>1, <2>2, Limits
<1>5. ASSUME NEW goal, BeginEnding(goal) PROVE Goal
  <2>1. CASE child = NoSession
    <3>1. tui'.doing \in {"refused", "calling"}
      BY <1>5, <2>1, EndingFacts, CallFacts
    <3> QED BY <3>1
  <2>2. CASE child \in Sessions
    <3>1. /\ tui'.doing = "killing" /\ tui'.wait = StopWait /\ child' = child
          /\ Told({child} \cap Running)
      BY <1>5, <2>2, EndingFacts, PlaySessionsAssumption DEF BeginEnding
    <3>2. ASSUME NEW s \in {child}, host'[s].phase # Off PROVE needs'[s] # Untold /\ InTime(s)'
      <4>1. s \in {child} \cap Running
        BY <2>2, <3>1, <3>2 DEF Told, Running, Alive
      <4> QED BY <3>1, <4>1, ToldInTime
    <3> QED BY <2>2, <3>1, <3>2, Limits
  <2> QED BY <2>1, <2>2 DEF TypeOK
<1>6. ASSUME tui'.doing \notin {"killing", "named"} PROVE Goal
  BY <1>6
<1>7. CASE RestartPlay \/ StopAll \/ ApplySavedProfile \/ ReloadRefused
  <2>1. Call("reload") => tui'.doing \in {"refused", "calling"}
    BY CallFacts
  <2> QED BY <1>5, <1>6, <1>7, <2>1, EndingBegins
<1>8. CASE tui' \in {Content, Turned("refused", 0), Idle}
  <2>1. tui'.doing \in {"idle", "settling", "refused"}
    BY <1>0, <1>8, TuiContent, TuiTurned, TuiIdle
  <2> QED BY <1>6, <2>1
<1>9. CASE ChildEnded
  <2>1. tui'.doing = "asking"
    BY <1>0, <1>9 DEF ChildEnded, TuiStates
  <2> QED BY <1>6, <2>1
<1>10. CASE KillNamed \/ CallTimesOut
  <2>1. tui'.doing \in {"idle", "settling", "refused"}
    BY <1>0, <1>10, TuiTurned, TuiIdle, Limits DEF KillNamed, CallTimesOut
  <2> QED BY <1>6, <2>1
<1>11. CASE Ask
  <2>1. tui'.doing \in {"refused", "calling"}
    BY <1>11, CallFacts DEF Ask
  <2> QED BY <1>6, <2>1
<1> HIDE DEF Goal
<1> QED
  BY <1>2, <1>3, <1>4, <1>7, <1>8, <1>9, <1>10, <1>11, TuiStep DEF TuiStepOf

-----------------------------------------------------------------------------
(* Those that are replaced are gone *)

\* The owner stays while it lives, and one that is about to end stays about to.
LEMMA OwnerStays ==
  ASSUME TypeOK, [Next]_vars, owner \in Sessions, host'[owner].phase # Off
  PROVE  owner' = owner
BY OwnerMoves, PlaySessionsAssumption

LEMMA EndingStays ==
  ASSUME TypeOK, NEW s \in Sessions, HostStepOf(s), ~TimePasses, Alive(s), ~Gone(s),
         host[s].phase = "ending"
  PROVE  host'[s].phase = "ending" /\ host'[s].wait = host[s].wait
BY DEF HostStepOf, Moves, Began, TypeOK, HostStates

\* Who is still to be replaced after a step was so before.
LEMMA NotRevived ==
  ASSUME TypeOK, DueInv, [Next]_vars, NEW s \in Sessions, s \in before', host'[s].phase # Off
  PROVE  Alive(s) /\ ~Gone(s)
BY AbsentOwesNothing DEF Gone

LEMMA ReplaceStep ==
  TypeOK /\ DueInv /\ CallInv /\ ReplaceInv /\ GoalInv /\ [Next]_vars => ReplaceInv'
<1> SUFFICES ASSUME TypeOK, DueInv, CallInv, ReplaceInv, GoalInv, [Next]_vars
             PROVE  ReplaceInv'
  OBVIOUS
<1>t. TypeOK'
  BY TypeStep
<1> SUFFICES ASSUME tui'.goal = "restart", NEW s \in Sessions, s \in before', host'[s].phase # Off
             PROVE  /\ tui'.doing = "killing" => s \in {child', owner'}
                    /\ tui'.doing \in {"asking", "calling", "refused"} => s = owner'
                    /\ tui'.doing = "settling" => host'[s].phase = "ending" /\ Overdue(s)'
  <2>1. before' \subseteq Sessions
    BY <1>t DEF TypeOK
  <2> QED BY <2>1 DEF ReplaceInv, Doing, Alive
<1> DEFINE Goal == /\ tui'.doing = "killing" => s \in {child', owner'}
                   /\ tui'.doing \in {"asking", "calling", "refused"} => s = owner'
                   /\ tui'.doing = "settling" => host'[s].phase = "ending" /\ Overdue(s)'
<1> SUFFICES Goal
  OBVIOUS
<1> USE DEF Doing
<1>0. /\ tui \in TuiStates /\ tui.wait \in Nat /\ host[s] \in HostStates /\ host[s].wait \in Nat
      /\ tui.doing = "idle" => tui.goal = "none"
      /\ tui.goal = "restart" /\ s \in before /\ Alive(s) =>
            /\ Doing("killing") => s \in {child, owner}
            /\ tui.doing \in {"asking", "calling", "refused"} => s = owner
            /\ Doing("settling") => host[s].phase = "ending" /\ Overdue(s)
  BY HostFields DEF TypeOK, TuiStates, GoalInv, ReplaceInv
<1>1. HostStepOf(s) /\ tui' # Idle
  BY HostStep, TuiIdle
<1>2. Alive(s) /\ ~Gone(s)
  BY NotRevived
<1>3. s = owner => owner' = owner
  BY OwnerStays
<1>4. CASE Aside /\ ~TimePasses
  <2>1. tui' = tui /\ child' = child /\ s \in before /\ needs'[s] = needs[s]
    BY <1>0, <1>2, <1>4 DEF Aside, Kept, AtKeys
  <2>2. host[s].phase = "ending" => host'[s].phase = "ending" /\ host'[s].wait = host[s].wait
    BY <1>1, <1>2, <1>4, EndingStays
  <2> QED BY <1>0, <1>2, <1>3, <2>1, <2>2 DEF Overdue
<1>5. CASE TimePasses
  <2>1. /\ tui'.doing = tui.doing /\ tui'.goal = tui.goal /\ tui'.wait = Down(tui.wait)
        /\ UNCHANGED <<owner, child, before, needs>>
    BY <1>5, TuiTicks DEF TimePasses, history
  <2>2. tui.doing = "settling" => tui.wait > 0
    BY <1>5 DEF TimePasses
  <2>3. host[s].wait > 0
    BY <1>2, <1>5 DEF TimePasses, Running
  <2>4. host' = [r \in Sessions |-> [host[r] EXCEPT !.wait = Down(@)]]
    BY <1>5 DEF TimePasses
  <2>5. host'[s].phase = host[s].phase /\ host'[s].wait = host[s].wait - 1
    BY <1>0, <2>3, <2>4 DEF HostStates, Down
  <2>6. tui.doing = "settling" => tui'.wait = tui.wait - 1
    BY <1>0, <2>1, <2>2 DEF Down
  <2>7. tui.doing = "settling" /\ Overdue(s) => Overdue(s)'
    <3>1. needs[s] \in Nat \cup {Untold}
      BY DEF TypeOK
    <3> QED BY <1>0, <2>1, <2>5, <2>6, <3>1, Limits DEF Overdue, Untold
  <2> QED BY <1>0, <1>2, <2>1, <2>5, <2>7
<1>6. ASSUME NEW r \in Sessions, Obey(r), tui.doing = "calling", tui' = Content PROVE Goal
  <2>1. tui.goal = "restart" /\ tui'.doing = "settling" /\ tui'.wait = 2 * StopWait
    BY <1>0, <1>6, TuiContent, TuiIdle
  <2>2. s = owner /\ r = owner
    BY <1>0, <1>2, <1>6, <2>1 DEF Obey
  <2>3. tui' # tui
    BY <1>6, <2>1
  <2>4. PICK call \in backlog :
           /\ ~call.abandoned
           /\ \/ call.command = "stop" /\ Becomes(r, Leaving(host[r], "ending"))
              \/ call.command = "reload" /\ Becomes(r, Leaving(host[r], "reloading"))
           /\ needs' = [needs EXCEPT ![r] = host'[r].wait]
    BY <1>6, <2>1, <2>3 DEF Obey, Heard
  <2>5. PICK g \in Leaving(host[r], "ending") : host' = [host EXCEPT ![r] = g]
    BY <1>6, <2>1, <2>4 DEF CallInv, Becomes
  <2>6. g.phase = "ending" /\ g \in HostStates /\ g.wait \in Nat
    BY <1>0, <1>6, <2>2, <2>5, LeavingMoves, HostFields DEF Obey, Polls, Releases, Moves
  <2>7. host'[s] = g /\ needs'[s] = g.wait
    BY <2>2, <2>4, <2>5 DEF TypeOK
  <2> QED BY <2>1, <2>6, <2>7, Limits DEF Overdue, Untold
<1>7. ASSUME NEW r \in Sessions, End(r), owner = r, tui.doing = "calling", tui' = Turned("refused", 0)
      PROVE  Goal
  <2>1. tui.goal = "restart" /\ s \in before
    BY <1>0, <1>7, TuiTurned DEF End, HangUp
  <2>2. s = r /\ host'[r] = Absent
    BY <1>0, <1>2, <1>7, <2>1 DEF End, Becomes, TypeOK
  <2> QED BY <2>2, AbsentState
<1>8. CASE RestartPlay \/ StopAll \/ ApplySavedProfile \/ ReloadRefused
  <2>1. PICK goal : BeginEnding(goal)
    BY <1>8, EndingBegins, CallFacts
  <2>2. goal = "restart"
    BY <2>1, EndingFacts
  <2>3. s \in {child, owner} /\ s # NoSession /\ owner' = owner /\ child' = child
    BY <2>1, <2>2, PlaySessionsAssumption DEF BeginEnding
  <2>4. CASE child = NoSession
    BY <2>1, <2>3, <2>4, EndingFacts, CallFacts
  <2>5. CASE child # NoSession
    BY <2>1, <2>3, <2>5, EndingFacts
  <2> QED BY <2>4, <2>5
<1>9. CASE ChildEnded
  <2>1. /\ tui.doing = "killing" /\ tui'.doing = "asking" /\ tui'.goal = tui.goal
        /\ Killed({child})
    BY <1>0, <1>9 DEF ChildEnded, TuiStates
  <2>2. s # child /\ s \in before
    BY <2>1, AbsentState DEF Killed, HangUp
  <2> QED BY <1>0, <1>2, <1>3, <2>1, <2>2
<1>10. CASE Ask
  <2>1. tui'.goal = tui.goal /\ tui'.doing \in {"refused", "calling"}
    BY <1>10, CallFacts DEF Ask
  <2> QED BY <1>0, <1>2, <1>3, <1>10, <2>1 DEF Ask, history
<1>11. CASE CallTimesOut \/ TermNamed
  <2>1. /\ CallTimesOut => tui'.doing = "refused" /\ tui'.goal = tui.goal
        /\ TermNamed => tui'.doing = "named"
    BY <1>0, TuiTurned, Limits DEF CallTimesOut, TermNamed
  <2> QED BY <1>0, <1>2, <1>3, <1>11, <2>1 DEF CallTimesOut, history
<1>12. CASE KillNamed
  BY <1>2, <1>12, AbsentState DEF KillNamed, Killed, Running
<1> HIDE DEF Goal
<1> QED
  BY <1>1, <1>4, <1>5, <1>6, <1>7, <1>8, <1>9, <1>10, <1>11, <1>12, TuiStep DEF TuiStepOf

-----------------------------------------------------------------------------
(* The theorems *)

LEMMA SessionsInit == Init => SessionsIInv
<1> SUFFICES ASSUME Init PROVE SessionsIInv
  OBVIOUS
<1> USE PlaySessionsAssumption
<1>1. TypeOK
  BY AbsentState, TuiIdle DEF Init, TypeOK, Quiet, WatchStates, Statuses, Unasked
<1>2. OwnerInv /\ CallInv /\ DueInv /\ StaleInv
  BY DEF Init, OwnerInv, CallInv, DueInv, StaleInv, Unasked, Quiet
<1>3. KillInv /\ ReplaceInv /\ GoalInv
  BY TuiIdle DEF Init, KillInv, ReplaceInv, GoalInv, Doing
<1> QED BY <1>1, <1>2, <1>3 DEF SessionsIInv

\* The invariant of the stop protocol: what the TUI waits for is what it told, who
\* was told lets go as soon as it said, and an answer of an earlier session waits
\* while no session is known.
THEOREM SessionsInvariant == Spec => []SessionsIInv
<1>1. Init => SessionsIInv
  BY SessionsInit
<1>2. SessionsIInv /\ [Next]_vars => SessionsIInv'
  BY TypeStep, OwnerStep, DueStep, CallStep, KillStep, ReplaceStep, StaleStep, GoalStep
     DEF SessionsIInv
<1> QED BY <1>1, <1>2, PTL DEF Spec

\* SIGKILL meets a session that holds devices only if it needed the TUI's whole wait
\* when it was told to end (process.rs, terminate_then_kill and stop_named), or if it
\* has begun since and is fed by UDP: whatever it was doing, and however long loads
\* and releases take.
THEOREM LetGoCorrect == Spec => LetGoBeforeKill
<1> DEFINE Fair(s) == IF needs[s] = Untold THEN StartOf(host[s]) <= StopWait
                      ELSE needs[s] >= StopWait
<1>1. SessionsIInv /\ [Next]_vars
        => [\A s \in Sessions : Alive(s) /\ ~Alive(s)' /\ Holds(s) => Fair(s)]_vars
  <2> SUFFICES ASSUME SessionsIInv, [Next]_vars, NEW s \in Sessions, Alive(s), ~Alive(s)',
                      Holds(s)
               PROVE  Fair(s)
    OBVIOUS
  <2>0. /\ TypeOK /\ KillInv /\ host[s] \in HostStates /\ host[s].wait \in Nat
        /\ needs[s] \in Nat \cup {Untold} /\ Grace(host[s]) \in Nat
    BY HostFields, NeedIsGrace DEF SessionsIInv, TypeOK
  <2>1. HostStepOf(s)
    BY <2>0, HostStep
  <2>2. Gone(s)
    BY <2>0, <2>1, HostStepKeeps DEF Alive
  <2>3. ~End(s)
    BY DEF End, Holds
  <2>4. ASSUME InTime(s), tui.wait = 0 PROVE Fair(s)
    <3>1. Equipped(host[s])
      BY DEF Holds, Equipped
    <3>2. Grace(host[s]) > 0
      BY <2>0, <3>1, Sleeps, Limits DEF Equipped, Grace
    <3> QED BY <2>0, <2>4, <3>1, <3>2, Limits DEF InTime
  <2>5. CASE KillNamed
    BY <2>0, <2>4, <2>5 DEF KillNamed, KillsNamed, KillInv
  <2>6. CASE ChildEnded /\ s = child
    BY <2>0, <2>4, <2>6 DEF ChildEnded, KillInv
  <2> QED BY <2>2, <2>3, <2>5, <2>6 DEF Gone
<1> QED BY <1>1, SessionsInvariant, PTL DEF Spec, LetGoBeforeKill

\* When a session starts in another's place, that one is gone (process.rs,
\* restart_play), by whichever of its means the TUI ended it, unless the release
\* that it promised takes as long as both of the TUI's waits.
THEOREM ReplacedCorrect == Spec => ReplacedIsGone
<1>1. SessionsIInv /\ [Next]_vars
        => [Doing("settling") /\ tui'.doing = "idle"
              => \A s \in before : Alive(s) => needs[s] >= 2 * StopWait]_vars
  <2> SUFFICES ASSUME SessionsIInv, [Next]_vars, tui.doing = "settling", tui'.doing = "idle",
                      NEW s \in before, Alive(s)
               PROVE  needs[s] >= 2 * StopWait
    BY DEF Doing
  <2>0. /\ TypeOK /\ ReplaceInv /\ GoalInv /\ tui \in TuiStates
        /\ s \in Sessions /\ host[s].wait \in Nat /\ needs[s] \in Nat \cup {Untold}
    BY HostFields DEF SessionsIInv, TypeOK
  <2>1. StartAgain
    <3>1. ~TimePasses /\ ~Aside
      BY <2>0, TuiTicks DEF Aside
    <3>2. /\ ~StartPlay /\ ~RestartPlay /\ ~StopAll /\ ~ApplySavedProfile /\ ~ReloadRefused
          /\ ~Doing("calling")
      BY DEF StartPlay, RestartPlay, StopAll, ApplySavedProfile, ReloadRefused, AtKeys, Doing
    <3>3. ~ChildEnded /\ ~Ask /\ ~CallTimesOut /\ ~KillNamed
      BY DEF ChildEnded, Ask, CallTimesOut, KillNamed, KillsNamed, Doing
    <3>4. ~TermNamed
      BY <2>0, TuiTurned, Limits DEF TermNamed
    <3> QED BY <2>0, <3>1, <3>2, <3>3, <3>4, TuiStep DEF TuiStepOf
  <2>2. tui.goal = "restart" /\ (Running = {} \/ tui.wait = 0)
    BY <2>1 DEF StartAgain, Settled
  <2>3. needs[s] # Untold /\ host[s].wait + 2 * StopWait <= needs[s] + tui.wait
    BY <2>0, <2>2 DEF ReplaceInv, Overdue, Doing
  <2>4. tui.wait = 0
    BY <2>0, <2>2 DEF Running
  <2> QED BY <2>0, <2>3, <2>4, Limits
<1> QED BY <1>1, SessionsInvariant, PTL DEF Spec, ReplacedIsGone

\* An answer that the status thread got before a restart is dropped by the next tick
\* (app.rs, restart_play and drain_status), whatever the sessions do meanwhile.
THEOREM OldAnswerCorrect == Spec => OldAnswerDropped
<1>1. SessionsIInv /\ [Next]_vars => [watch.stale => shown' \in {shown, None}]_vars
  <2> SUFFICES ASSUME SessionsIInv, [Next]_vars, watch.stale PROVE shown' \in {shown, None}
    OBVIOUS
  <2>0. TypeOK /\ watch.doing = "answered" /\ ~known
    BY DEF SessionsIInv, StaleInv
  <2>1. ASSUME NEW s \in Sessions,
               NoticeSignal(s) \/ PollAlone(s) \/ Obey(s) \/ Finish(s) \/ End(s) \/ StartElsewhere(s)
        PROVE  shown' = shown
    BY <2>1 DEF NoticeSignal, PollAlone, Obey, Finish, End, StartElsewhere, tuiVars
  <2>2. CASE Tick
    BY <2>0, <2>2 DEF Tick, RefreshRuntime, DrainedStatus
  <2>3. CASE WatchGivesUp \/ CycleProfile \/ StartPlay \/ ChildEnded \/ Ask \/ CallTimesOut
               \/ TermNamed \/ KillNamed \/ StartAgain \/ TimePasses
    BY <2>3 DEF WatchGivesUp, CycleProfile, StartPlay, ChildEnded, Ask, CallTimesOut, TermNamed,
                KillNamed, StartAgain, TimePasses, tuiVars
  <2>4. CASE RestartPlay \/ StopAll \/ ApplySavedProfile \/ ReloadRefused
    BY <2>4, EndingBegins DEF BeginEnding
  <2>5. CASE UNCHANGED vars
    BY <2>5 DEF vars, tuiVars
  <2> QED BY <2>1, <2>2, <2>3, <2>4, <2>5 DEF Next
<1> QED BY <1>1, SessionsInvariant, PTL DEF Spec, OldAnswerDropped
=============================================================================
