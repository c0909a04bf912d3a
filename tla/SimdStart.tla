----------------------------- MODULE SimdStart -----------------------------
(***************************************************************************)
(* The simd daemon as cargopit sees it: ensure() of crates/cargopit/src/   *)
(* simd.rs, with which every session starts, and what the TUI does to simd *)
(* (tui/src/process.rs): it stops it with everything else.                 *)
(*                                                                         *)
(* simd is a program of its own.  Started, it shows in the process list    *)
(* under its name until its parent process exits, and then as a daemon; it *)
(* may die in either state.  The systemd unit is the one install.sh        *)
(* writes: started at once, and again after a failure.  It writes a PID    *)
(* file as a daemon, and leaves it behind when it is killed: sessions and  *)
(* the TUI remove a file whose simd is gone.                               *)
(***************************************************************************)
EXTENDS Naturals

CONSTANTS
    Hosts,          \* sessions, each started any number of times
    Unit,           \* the simd of simd.service
    StartPolls      \* START_TIMEOUT_MS / POLL_MS (60)

Launchers == Hosts \cup {Unit}

NoFile == "no file"
Gone == "gone"
Tui == "tui"

ASSUME SimdStartAssumption ==
    /\ Unit \notin Hosts
    /\ {NoFile, Gone, Tui} \cap Launchers = {}
    /\ StartPolls \in Nat

VARIABLES
    simd,       \* per launcher: its simd process
    launch,     \* how the parent of the simd a host started came out
    pc,         \* where each session is in ensure
    polls,      \* wait_until_running: polls taken
    stopper,    \* where the TUI is in stop_all
    since,      \* a session or systemd began since stop_all did
    pidFile,    \* whose simd PID_FILE names: a launcher's, Gone, or no file
    cleaner,    \* where the TUI's tick is with the file, and the PID it read
    fresh       \* who is removing a file that was written since it looked

simdVars == <<simd, launch, pc, polls, stopper, since, pidFile, cleaner, fresh>>
procs == <<simd, launch, pidFile, fresh>>
files == <<pidFile, cleaner, fresh>>

Stages == {"off", "check", "stale", "unlink", "systemd", "waitUnit", "find", "spawned",
           "waitOwn", "play", "ended"}

SimdStartTypeOK ==
    /\ simd \in [Launchers -> {"none", "starting", "serving"}]
    /\ launch \in [Hosts -> {"none", "running", "ok", "failed"}]
    /\ pc \in [Hosts -> Stages]
    /\ polls \in [Hosts -> 0 .. StartPolls]
    /\ stopper \in {"idle", "term", "nap", "killSimd", "killHosts"}
    /\ since \in BOOLEAN
    /\ pidFile \in Launchers \cup {Gone, NoFile}
    /\ cleaner \in [at : {"idle", "read", "ask", "remove"}, pid : Launchers \cup {Gone, NoFile}]
    /\ fresh \subseteq Hosts \cup {Tui}

SimdInit ==
    /\ simd = [p \in Launchers |-> "none"]
    /\ launch = [h \in Hosts |-> "none"]
    /\ pc = [h \in Hosts |-> "off"]
    /\ polls = [h \in Hosts |-> 0]
    /\ stopper = "idle"
    /\ since = FALSE
    /\ pidFile = NoFile
    /\ cleaner = [at |-> "idle", pid |-> NoFile]
    /\ fresh = {}

\* process_running, and service_running of the TUI: a process called simd.
ProcessRunning == \E p \in Launchers : simd[p] # "none"

Starts(p) == simd' = [simd EXCEPT ![p] = "starting"]
Noted == since' = (since \/ stopper # "idle")

-----------------------------------------------------------------------------
(* The simd processes *)

\* Those who looked at the file and are about to remove it.
Removers == {h \in Hosts : pc[h] = "unlink"}
                \cup (IF cleaner.at \in {"ask", "remove"} THEN {Tui} ELSE {})

\* The parent exits with success, the daemon goes on and writes its PID.
Daemonize(p) ==
    /\ simd[p] = "starting"
    /\ simd' = [simd EXCEPT ![p] = "serving"]
    /\ launch' = IF p \in Hosts THEN [launch EXCEPT ![p] = "ok"] ELSE launch
    /\ pidFile' = p
    /\ fresh' = Removers
    /\ cleaner' = IF cleaner.pid = p THEN [cleaner EXCEPT !.pid = Gone] ELSE cleaner
    /\ UNCHANGED <<pc, polls, stopper, since>>

\* It gives up, or was told to, and may leave its file.
SimdExits(p) ==
    /\ simd[p] # "none"
    /\ simd' = [simd EXCEPT ![p] = "none"]
    /\ launch' = IF p \in Hosts /\ simd[p] = "starting"
                 THEN [launch EXCEPT ![p] = "failed"] ELSE launch
    /\ IF pidFile = p THEN pidFile' \in {Gone, NoFile} ELSE UNCHANGED pidFile
    /\ UNCHANGED <<pc, polls, stopper, since, cleaner, fresh>>

\* systemd starts the unit: at login, for its user, again after a failure.
UnitStarts ==
    /\ simd[Unit] = "none"
    /\ Starts(Unit)
    /\ Noted
    /\ UNCHANGED <<launch, pc, polls, stopper, files>>

-----------------------------------------------------------------------------
(* ensure, in a session h *)

At(h, stage) == pc[h] = stage
To(h, stage) == pc' = [pc EXCEPT ![h] = stage]

\* play() comes to ensure after the host and its audio are set up.
StartHost(h) ==
    /\ pc[h] \in {"off", "ended"}
    /\ To(h, "check")
    /\ polls' = [polls EXCEPT ![h] = 0]
    /\ Noted
    /\ UNCHANGED <<procs, stopper, cleaner>>

CheckRunning(h) ==
    /\ At(h, "check")
    /\ To(h, IF ProcessRunning THEN "play" ELSE "stale")
    /\ UNCHANGED <<procs, polls, stopper, since, cleaner>>

\* remove_stale_pid looks once more ...
StalePid(h) ==
    /\ At(h, "stale")
    /\ To(h, IF ProcessRunning THEN "systemd" ELSE "unlink")
    /\ UNCHANGED <<procs, polls, stopper, since, cleaner>>
\* ... and removes what is there by then.
UnlinkPid(h) ==
    /\ At(h, "unlink")
    /\ To(h, "systemd")
    /\ pidFile' = NoFile
    /\ fresh' = fresh \ {h}
    /\ UNCHANGED <<simd, launch, polls, stopper, since, cleaner>>

\* systemctl start answers once the unit's process is there; there may be no
\* systemd, or no unit, or the unit fails.
SystemdStart(h) ==
    /\ At(h, "systemd")
    /\ \/ /\ To(h, "waitUnit")
          /\ IF simd[Unit] = "none" THEN Starts(Unit) ELSE UNCHANGED simd
       \/ /\ To(h, "find")
          /\ UNCHANGED simd
    /\ UNCHANGED <<launch, polls, stopper, since, files>>

FaultWaitPolls(h) ==
    /\ pc[h] \in {"waitUnit", "waitOwn"}
    /\ ~ProcessRunning
    /\ UNCHANGED simdVars

\* wait_until_running: seen, not yet, or not at all.
WaitSees(h) ==
    /\ pc[h] \in {"waitUnit", "waitOwn"}
    /\ ProcessRunning
    /\ To(h, "play")
    /\ UNCHANGED <<procs, polls, stopper, since, cleaner>>

WaitPolls(h) ==
    /\ pc[h] \in {"waitUnit", "waitOwn"}
    /\ ~ProcessRunning
    /\ polls[h] < StartPolls
    /\ polls' = [polls EXCEPT ![h] = @ + 1]
    /\ UNCHANGED <<procs, pc, stopper, since, cleaner>>

WaitEnds(h) ==
    /\ pc[h] \in {"waitUnit", "waitOwn"}
    /\ ~ProcessRunning
    /\ polls[h] = StartPolls
    /\ To(h, IF At(h, "waitUnit") THEN "find" ELSE "ended")
    /\ polls' = [polls EXCEPT ![h] = 0]
    /\ UNCHANGED <<procs, stopper, since, cleaner>>

\* find_binary: a simd is installed, or not.
NotInstalled(h) ==
    /\ At(h, "find")
    /\ To(h, "ended")
    /\ UNCHANGED <<procs, polls, stopper, since, cleaner>>

Spawn(h) ==
    /\ At(h, "find")
    /\ To(h, "spawned")
    /\ Starts(h)
    /\ launch' = [launch EXCEPT ![h] = "running"]
    /\ UNCHANGED <<polls, stopper, since, files>>

\* spawn_and_wait has the exit status of simd's parent.
Spawned(h) ==
    /\ At(h, "spawned")
    /\ launch[h] \in {"ok", "failed"}
    /\ To(h, IF launch[h] = "ok" THEN "waitOwn" ELSE "ended")
    /\ launch' = [launch EXCEPT ![h] = "none"]
    /\ UNCHANGED <<simd, polls, stopper, since, files>>

Ensure(h) ==
    \/ CheckRunning(h) \/ StalePid(h) \/ UnlinkPid(h) \/ SystemdStart(h)
    \/ WaitSees(h) \/ WaitPolls(h) \/ WaitEnds(h)
    \/ NotInstalled(h) \/ Spawn(h) \/ Spawned(h)

\* A session that plays ends when its user, a signal or a command says so.
HostEnds(h) ==
    /\ At(h, "play")
    /\ To(h, "off")
    /\ UNCHANGED <<procs, polls, stopper, since, cleaner>>

-----------------------------------------------------------------------------
(* The TUI *)

\* stop_all; the command to the session that plays is PlaySessions' matter.
BeginStopAll ==
    /\ stopper = "idle"
    /\ cleaner.at = "idle"
    /\ stopper' = "term"
    /\ since' = FALSE
    /\ UNCHANGED <<procs, pc, polls, cleaner>>

InEnsure == Stages \ {"off", "play", "ended"}

FaultTermNamed ==
    /\ stopper = "term"
    /\ stopper' = "nap"
    /\ UNCHANGED <<procs, pc, polls, since, cleaner>>

\* stop_named: SIGTERM to every simd, which ends when it does, and then to every
\* session.  One that is still in ensure has no handler and is gone.
TermNamed ==
    /\ stopper = "term"
    /\ stopper' = "nap"
    /\ pc' = [h \in Hosts |-> IF pc[h] \in InEnsure THEN "off" ELSE pc[h]]
    /\ launch' = [h \in Hosts |-> IF pc[h] \in InEnsure THEN "none" ELSE launch[h]]
    /\ fresh' = fresh \cap {Tui}
    /\ UNCHANGED <<simd, polls, since, pidFile, cleaner>>

Nap ==
    /\ stopper = "nap"
    /\ stopper' = "killSimd"
    /\ UNCHANGED <<procs, pc, polls, since, cleaner>>

\* What is still there is killed, simd first.
KillSimd ==
    /\ stopper = "killSimd"
    /\ stopper' = "killHosts"
    /\ simd' = [p \in Launchers |-> "none"]
    /\ launch' = [h \in Hosts |-> IF simd[h] = "starting" THEN "failed" ELSE launch[h]]
    /\ pidFile' = IF pidFile = NoFile THEN NoFile ELSE Gone
    /\ UNCHANGED <<pc, polls, since, cleaner, fresh>>

KillHosts ==
    /\ stopper = "killHosts"
    /\ stopper' = "idle"
    /\ pc' = [h \in Hosts |-> "off"]
    /\ launch' = [h \in Hosts |-> "none"]
    /\ fresh' = fresh \cap {Tui}
    /\ UNCHANGED <<simd, polls, since, pidFile, cleaner>>

StopAll == BeginStopAll \/ TermNamed \/ Nap \/ KillSimd \/ KillHosts

\* check_processes, at every tick that does not stop: what it finds of simd in the listing ...
TuiLists ==
    /\ cleaner.at = "idle"
    /\ stopper = "idle"
    /\ ~ProcessRunning
    /\ cleaner' = [cleaner EXCEPT !.at = "read"]
    /\ UNCHANGED <<procs, pc, polls, stopper, since>>

\* ... try_remove_stale: the PID in the file, if there is one ...
TuiReads ==
    /\ cleaner.at = "read"
    /\ cleaner' = IF pidFile = NoFile THEN [at |-> "idle", pid |-> NoFile]
                  ELSE [at |-> "ask", pid |-> pidFile]
    /\ UNCHANGED <<procs, pc, polls, stopper, since>>

FaultNotAsked ==
    /\ cleaner.at = "ask"
    /\ cleaner' = [cleaner EXCEPT !.at = "remove"]
    /\ UNCHANGED <<procs, pc, polls, stopper, since>>

\* ... pid_matches_service: a process of that PID is simd's, the file is kept ...
TuiAsks ==
    /\ cleaner.at = "ask"
    /\ IF cleaner.pid \in Launchers /\ simd[cleaner.pid] = "serving"
       THEN cleaner' = [at |-> "idle", pid |-> NoFile] /\ fresh' = fresh \ {Tui}
       ELSE cleaner' = [cleaner EXCEPT !.at = "remove"] /\ UNCHANGED fresh
    /\ UNCHANGED <<simd, launch, pidFile, pc, polls, stopper, since>>

\* ... or removed.
TuiRemoves ==
    /\ cleaner.at = "remove"
    /\ cleaner' = [at |-> "idle", pid |-> NoFile]
    /\ pidFile' = NoFile
    /\ fresh' = fresh \ {Tui}
    /\ UNCHANGED <<simd, launch, pc, polls, stopper, since>>

CleanUp == TuiLists \/ TuiReads \/ TuiAsks \/ TuiRemoves

SimdNext ==
    \/ \E p \in Launchers : Daemonize(p) \/ SimdExits(p)
    \/ UnitStarts
    \/ \E h \in Hosts : StartHost(h) \/ Ensure(h) \/ HostEnds(h)
    \/ StopAll
    \/ CleanUp

\* The processes of a session and of the TUI run; simd's parent comes to an end.
SimdFairness ==
    /\ \A h \in Hosts : WF_simdVars(Ensure(h))
    /\ \A p \in Launchers : WF_simdVars(simd[p] = "starting" /\ (Daemonize(p) \/ SimdExits(p)))
    /\ WF_simdVars(TermNamed \/ Nap \/ KillSimd \/ KillHosts)

SimdSpec == SimdInit /\ [][SimdNext]_simdVars /\ SimdFairness

-----------------------------------------------------------------------------
(* Properties *)

\* When the TUI's stop ends, what ran when it began is gone, and so is any simd
\* that a session of then went on to start: a simd is left only if a session or
\* systemd began after the stop did (stop_named and ensure, side by side).
StopLeavesNothing ==
    [][KillHosts => \A p \in Launchers : simd[p] # "none" => since]_simdVars

\* Only a file that was written after its remover last looked is taken from a simd
\* that serves (remove_stale_pid of the sessions, try_remove_stale of the TUI).
PidFileKept ==
    [][(\E h \in Hosts : UnlinkPid(h) /\ h \notin fresh) \/ (TuiRemoves /\ Tui \notin fresh)
         => pidFile \in {Gone, NoFile}]_simdVars

\* Every session that starts plays or ends, however often simd dies meanwhile.
EnsureEnds == \A h \in Hosts : pc[h] = "check" ~> pc[h] \in {"play", "ended", "off"}
=============================================================================
