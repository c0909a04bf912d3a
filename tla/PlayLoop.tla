------------------------------ MODULE PlayLoop ------------------------------
(***************************************************************************)
(* The discovery loop of `cargopit play` (crates/cargopit/src/main.rs).    *)
(*                                                                         *)
(* One thread runs poll_once over and over: it looks for a simulator,      *)
(* takes a stop signal or a key, serves one control connection, and then   *)
(* searches, maps telemetry into the open devices, or lets them go.  The   *)
(* calls of poll_once are separate steps here (pc), because the simulator, *)
(* the user and the control clients act between any two of them, and what  *)
(* was seen or decided before one of them is used after it.                *)
(***************************************************************************)
EXTENDS Naturals, Sequences

CONSTANTS
    Devices,        \* the devices the profile on disk may name
    SoundDevices,   \* those that hold a PulseAudio stream
    Sightings,      \* what one detection can return
    Ports,          \* UDP ports a simulator may ask for
    AcrPort,        \* the Assetto Corsa Rally bridge port, acr.rs UDP_PORT
    NoPort,         \* no port requested, or no socket
    ForceUdp,       \* play --udp
    QuitPoll,       \* stdin is a terminal: the quit key is read
    Audio,          \* a PulseAudio session was opened
    MaxTyped,       \* bound: keys typed ahead
    MaxCalls        \* bound: control connections waiting

\* games.rs: SIMAPI.DAT as fed by simd, or a game's own mapper.
MapApis == {"simd", "game"}
StatusMenu == 1
StatusActivePlay == 2

\* SeenSim, plus the port detection asks for and whether the ACR physics
\* segment is blank at that moment.
Sighting == [on : BOOLEAN, status : Nat, api : MapApis, udp : BOOLEAN,
             port : Ports \cup {NoPort}, exe : {"none", "acr", "other"},
             blank : BOOLEAN]

ASSUME PlayLoopAssumption ==
    /\ SoundDevices \subseteq Devices
    /\ Sightings \subseteq Sighting
    /\ AcrPort \in Ports
    /\ NoPort \notin Ports
    /\ ForceUdp \in BOOLEAN
    /\ QuitPoll \in BOOLEAN
    /\ Audio \in BOOLEAN
    /\ MaxTyped \in Nat
    /\ MaxCalls \in Nat

VARIABLES
    pc,             \* the call of poll_once that comes next
    \* PlayLoop
    phase, useUdp, mapApi, userStopped, releasing,
    \* the locals of one poll
    seen, simfree,
    \* DeviceLoop and the Pulse session
    loaded, streams, timers, tyreTimer, tyreActive, pending,
    \* telemetry sources and sinks
    requested, socket, published,
    \* what the user and the control clients have sent
    signal, typed, calls

play == <<phase, useUdp, mapApi, userStopped, releasing>>
devices == <<loaded, streams, timers, tyreTimer, tyreActive, pending>>
sources == <<requested, socket, published>>
inputs == <<signal, typed, calls>>
vars == <<pc, play, seen, simfree, devices, sources, inputs>>

Keys == {"q", "other"}
\* "other" is a status request, an unknown command, or a caller that hung up
\* before its reply: none of them has an effect.
Commands == {"reload", "stop", "other"}

TypeOK ==
    /\ pc \in {"observe", "quit", "control", "act", "exit", "gone"}
    /\ phase \in {"Searching", "Mapping", "Exiting"}
    /\ useUdp \in BOOLEAN
    /\ mapApi \in MapApis
    /\ userStopped \in BOOLEAN
    /\ releasing \in BOOLEAN
    /\ seen \in Sighting
    /\ simfree \in BOOLEAN
    /\ loaded \in SUBSET Devices
    /\ streams \in SUBSET SoundDevices
    /\ timers \in SUBSET Devices
    /\ tyreTimer \in BOOLEAN
    /\ tyreActive \in BOOLEAN
    /\ pending \in BOOLEAN
    /\ requested \in Ports \cup {NoPort}
    /\ socket \in Ports \cup {NoPort}
    /\ published \in BOOLEAN
    /\ signal \in BOOLEAN
    /\ typed \in Seq(Keys)
    /\ calls \in Seq(Commands)

NoSim == [on |-> FALSE, status |-> 0, api |-> "simd", udp |-> FALSE,
          port |-> NoPort, exe |-> "none", blank |-> TRUE]

Init ==
    /\ pc = "observe"
    /\ phase = "Searching"
    /\ useUdp = ForceUdp
    /\ mapApi = "simd"
    /\ userStopped = FALSE
    /\ releasing = FALSE
    /\ seen = NoSim
    /\ simfree = FALSE
    /\ loaded = {}
    /\ streams = {}
    /\ timers = {}
    /\ tyreTimer = FALSE
    /\ tyreActive = FALSE
    /\ pending = FALSE
    /\ requested = NoPort
    /\ socket = NoPort
    /\ published = FALSE
    /\ signal = FALSE
    /\ typed = <<>>
    /\ calls = <<>>

-----------------------------------------------------------------------------
(* Looking for a simulator *)

\* Detection calls setup_udp with the port of a UDP simulator; port stands for
\* what bind_port makes of it.
RememberPort(old, s) == IF s.port = NoPort THEN old ELSE s.port

\* Fault for SearchBindsPort: a socket that is held is kept.
FaultEnsureSocket(port, sock) ==
    IF port = NoPort \/ sock # NoPort THEN {sock} ELSE {port, NoPort}

\* slog_requested_bind and ensure_socket: the sockets they may leave when port is
\* requested and sock is held.  Nothing happens until a port was requested; a
\* bind that fails drops the old socket.
EnsureSocket(port, sock) ==
    IF port \in {NoPort, sock} THEN {sock} ELSE {port, NoPort}

SimdMapIsStale(s, advancing) == s.api = "simd" /\ ~advancing

UsesAcrBridge(s) == s.exe = "acr" /\ s.blank

BridgedAcr(s) ==
    [s EXCEPT !.on = TRUE, !.status = StatusActivePlay, !.udp = TRUE]

\* apply_acr_bridge, for the sighting s with the socket sock already ensured.
ApplyAcrBridge(s, port, sock) ==
    IF UsesAcrBridge(s)
    THEN /\ requested' = AcrPort
         /\ socket' \in EnsureSocket(AcrPort, sock)
         /\ seen' = IF socket' = AcrPort THEN BridgedAcr(s) ELSE s
    ELSE /\ requested' = port
         /\ socket' = sock
         /\ seen' = s

\* While searching, a simd record that does not advance is bypassed by a
\* second, direct detection.
ObserveSearching(raw) ==
    LET port == RememberPort(requested, raw)
    IN  \E sock \in EnsureSocket(port, socket) :
          \/ ApplyAcrBridge(raw, port, sock)
          \/ /\ SimdMapIsStale(raw, FALSE)
             /\ \E direct \in Sightings :
                  LET again == RememberPort(port, direct)
                  IN  \E rebound \in EnsureSocket(again, sock) :
                        ApplyAcrBridge(direct, again, rebound)

\* In every other phase the raw sighting is used, and no socket is bound.
ObserveMapping(raw) ==
    /\ seen' = raw
    /\ requested' = RememberPort(requested, raw)
    /\ UNCHANGED socket

Observe ==
    /\ pc = "observe"
    /\ \E raw \in Sightings :
         IF phase = "Searching" THEN ObserveSearching(raw)
                                ELSE ObserveMapping(raw)
    /\ pc' = "quit"
    /\ UNCHANGED <<play, simfree, devices, published, inputs>>

-----------------------------------------------------------------------------
(* Stop signals and the quit key *)

\* Fault for ExitsAsTold: the key is looked at first.
FaultKeyFirst ==
    IF QuitPoll /\ typed # <<>> /\ Head(typed) = "q"
    THEN IF phase = "Mapping" THEN "Release" ELSE "Exit"
    ELSE IF signal THEN "Exit" ELSE "Continue"

QuitAction ==
    LET key == QuitPoll /\ typed # <<>> /\ Head(typed) = "q"
    IN  IF signal THEN "Exit"
        ELSE IF ~key THEN "Continue"
        ELSE IF phase = "Mapping" THEN "Release" ELSE "Exit"

\* The signal is swapped out and one byte is read whatever the outcome.
Quit ==
    /\ pc = "quit"
    /\ simfree' = (phase = "Mapping" /\ loaded # {} /\ ~releasing)
    /\ signal' = FALSE
    /\ typed' = IF QuitPoll /\ typed # <<>> THEN Tail(typed) ELSE typed
    /\ \/ /\ QuitAction = "Continue"
          /\ pc' = "control"
          /\ UNCHANGED play
       \/ /\ QuitAction = "Release"
          /\ pc' = "control"
          /\ userStopped' = TRUE
          /\ releasing' = TRUE
          /\ UNCHANGED <<phase, useUdp, mapApi>>
       \/ /\ QuitAction = "Exit"
          /\ pc' = "exit"
          /\ phase' = "Exiting"
          /\ UNCHANGED <<useUdp, mapApi, userStopped, releasing>>
    /\ UNCHANGED <<seen, devices, sources, calls>>

-----------------------------------------------------------------------------
(* Letting the devices go *)

\* A poll is over; its locals are gone.
EndPoll ==
    /\ pc' = "observe"
    /\ seen' = NoSim
    /\ simfree' = FALSE

\* Fault for DrivenIsLoaded: the scheduler keeps the timers.
FaultTimersKept ==
    /\ streams' = {}
    /\ loaded' = {}
    /\ tyreTimer' = FALSE
    /\ tyreActive' = FALSE
    /\ UNCHANGED timers

\* release_configured, but for pending, which a reload sets afterwards.
ReleaseConfigured ==
    /\ streams' = {}
    /\ loaded' = {}
    /\ timers' = {}
    /\ tyreTimer' = FALSE
    /\ tyreActive' = FALSE

\* Fault for EventuallyDrives: the release is never marked as done.
FaultStillReleasing == phase' = "Searching" /\ UNCHANGED <<useUdp, mapApi, releasing>>

EnterSearching ==
    /\ phase' = "Searching"
    /\ releasing' = FALSE
    /\ UNCHANGED <<useUdp, mapApi>>

\* simapi_sim_clear, external: the shared record reads as no simulator.
ClearRecord == published' = FALSE

HandleExit ==
    /\ pc = "exit"
    /\ ReleaseConfigured
    /\ pending' = FALSE
    /\ IF simfree THEN ClearRecord ELSE UNCHANGED published
    /\ pc' = "gone"
    /\ UNCHANGED <<play, seen, simfree, requested, socket, inputs>>

-----------------------------------------------------------------------------
(* One control connection per poll *)

ReloadCommand ==
    /\ ReleaseConfigured
    /\ pending' = TRUE
    /\ EnterSearching
    /\ userStopped' = FALSE
    /\ pc' = "act"

StopCommand ==
    /\ phase' = "Exiting"
    /\ pc' = "exit"
    /\ UNCHANGED <<useUdp, mapApi, userStopped, releasing, devices>>

Control ==
    /\ pc = "control"
    /\ IF calls = <<>>
       THEN pc' = "act" /\ UNCHANGED <<play, devices, calls>>
       ELSE /\ calls' = Tail(calls)
            /\ \/ Head(calls) = "reload" /\ ReloadCommand
               \/ Head(calls) = "stop" /\ StopCommand
               \/ Head(calls) = "other" /\ pc' = "act" /\ UNCHANGED <<play, devices>>
    /\ UNCHANGED <<seen, simfree, sources, signal, typed>>

-----------------------------------------------------------------------------
(* What the poll then does in its phase; afterwards the loop sleeps wait_ms *)

FinishRelease ==
    /\ pc = "act"
    /\ releasing
    /\ ReleaseConfigured
    /\ pending' = FALSE
    /\ ClearRecord
    /\ EnterSearching
    /\ EndPoll
    /\ UNCHANGED <<userStopped, requested, socket, inputs>>

\* Fault for OnlyReloadResumes: a paused session starts with the next simulator.
FaultPauseForgotten(s) == s.on /\ s.status >= StatusActivePlay

Startable(s) == ~userStopped /\ s.on /\ s.status >= StatusActivePlay

\* map_live and map_packet copy a frame into SIMAPI.DAT when the mapper is a
\* game's and the record could be opened for writing.
Publish(api) ==
    published' \in IF api = "simd" THEN {published} ELSE {published, TRUE}

SearchWait ==
    /\ pc = "act"
    /\ ~releasing
    /\ phase = "Searching"
    /\ ~Startable(seen)
    /\ EnterSearching
    /\ EndPoll
    /\ UNCHANGED <<userStopped, devices, sources, inputs>>

\* StartMapping and begin_mapping: the devices are opened by the next poll.
BeginMapping ==
    /\ pc = "act"
    /\ ~releasing
    /\ phase = "Searching"
    /\ Startable(seen)
    /\ pending' = TRUE
    /\ phase' = "Mapping"
    /\ useUdp' = (ForceUdp \/ seen.udp)
    /\ mapApi' = seen.api
    /\ userStopped' = FALSE
    /\ releasing' = FALSE
    /\ IF useUdp'
       THEN /\ Publish(seen.api)
            /\ socket' \in IF socket = NoPort
                           THEN EnsureSocket(requested, socket) ELSE {socket}
       ELSE UNCHANGED <<published, socket>>
    /\ EndPoll
    /\ UNCHANGED <<loaded, streams, timers, tyreTimer, tyreActive, requested,
                   inputs>>

\* mapping_tick and mapping_should_stop, on the raw sighting.
MappingEnds(s) == ~s.on \/ s.status <= StatusMenu

StopMapping ==
    /\ pc = "act"
    /\ ~releasing
    /\ phase = "Mapping"
    /\ MappingEnds(seen)
    /\ EnterSearching
    /\ ReleaseConfigured
    /\ pending' = FALSE
    /\ ClearRecord
    /\ EndPoll
    /\ UNCHANGED <<userStopped, requested, socket, inputs>>

\* open_profile_with: any part of the profile may fail to open, the whole of it when
\* the file does not load.  A sound device is kept only with its stream.
OpenProfile ==
    /\ loaded' \in SUBSET (IF Audio THEN Devices ELSE Devices \ SoundDevices)
    /\ streams' = loaded' \cap SoundDevices

\* The tyre check is wanted by some devices and simulators only.  It is due at
\* once, and may end within this poll.
ArmTyreCheck ==
    /\ tyreTimer' \in BOOLEAN
    /\ tyreActive' \in BOOLEAN
    /\ tyreTimer' => loaded' # {}
    /\ tyreActive' => tyreTimer'

\* tick_devices with a load pending.
LoadConfigured ==
    /\ pending' = FALSE
    /\ OpenProfile
    /\ timers' = loaded'
    /\ ArmTyreCheck

\* Fault for HoldSpec: the profile is loaded over the devices in use.
FaultLoadAgain == LoadConfigured

\* A tyre check that succeeds or gives up goes inactive; its timer stays.
DriveDue ==
    /\ tyreActive' \in {tyreActive, FALSE}
    /\ UNCHANGED <<pending, loaded, streams, timers, tyreTimer>>

MapFrame ==
    /\ pc = "act"
    /\ ~releasing
    /\ phase = "Mapping"
    /\ ~MappingEnds(seen)
    /\ IF useUdp /\ socket = NoPort THEN UNCHANGED published ELSE Publish(mapApi)
    /\ IF pending THEN LoadConfigured ELSE DriveDue
    /\ EndPoll
    /\ UNCHANGED <<play, requested, socket, inputs>>

-----------------------------------------------------------------------------
(* The user, the service manager and the control clients *)

SendSignal ==
    /\ pc # "gone"
    /\ signal' = TRUE
    /\ UNCHANGED <<pc, play, seen, simfree, devices, sources, typed, calls>>

TypeKey ==
    /\ pc # "gone"
    /\ Len(typed) < MaxTyped
    /\ \E key \in Keys : typed' = Append(typed, key)
    /\ UNCHANGED <<pc, play, seen, simfree, devices, sources, signal, calls>>

Call ==
    /\ pc # "gone"
    /\ Len(calls) < MaxCalls
    /\ \E command \in Commands : calls' = Append(calls, command)
    /\ UNCHANGED <<pc, play, seen, simfree, devices, sources, signal, typed>>

-----------------------------------------------------------------------------

Step ==
    \/ Observe
    \/ Quit
    \/ Control
    \/ HandleExit
    \/ FinishRelease
    \/ SearchWait
    \/ BeginMapping
    \/ StopMapping
    \/ MapFrame

Environment == SendSignal \/ TypeKey \/ Call

\* The process has exited.
Terminated == pc = "gone" /\ UNCHANGED vars

Next == Step \/ Environment \/ Terminated

Spec == Init /\ [][Next]_vars

\* The loop's thread is never blocked for good in these steps: every sleep is
\* bounded, and a control caller sends its line or hangs up (ControlSocket
\* has what happens when it is late).
\* Nothing is assumed of the simulator, the user or the callers.
FairSpec == Spec /\ WF_vars(Step)

-----------------------------------------------------------------------------
(* Properties *)

HoldsNothing ==
    /\ loaded = {}
    /\ streams = {}
    /\ timers = {}
    /\ ~tyreTimer
    /\ ~tyreActive

\* Only a mapping whose devices were loaded holds any: not a search, not a
\* mapping that has yet to open its devices, and not a process that has exited.
\* Every way out of a mapping (release, reload, stop, signal) has to let go.
HeldOnlyWhileMapping ==
    phase = "Searching" \/ pending \/ pc = "gone" => HoldsNothing

\* Every open device has its timer and every open sound device its stream, no
\* timer or stream outlives its device, and a running tyre check is scheduled
\* for a session that has devices: scheduler, Pulse session and device list are
\* three lists that are filled and emptied by different calls.
DrivenIsLoaded ==
    /\ timers = loaded
    /\ streams = loaded \cap SoundDevices
    /\ tyreActive => tyreTimer
    /\ tyreTimer => loaded # {}

\* What is held is what is driven, and by a mapping only.
HeldIsDriven == HeldOnlyWhileMapping /\ DrivenIsLoaded

\* Once the quit key has stopped a mapping, the search that follows holds no
\* device, will open none, and leaves no live record of the game behind.
PausedIsQuiet ==
    userStopped /\ phase = "Searching" => HoldsNothing /\ ~pending /\ ~published

\* The quit key's release is carried out in the poll that read the key, unless a
\* reload or a stop in that poll overtakes it, and what it paused stays paused:
\* no flag of it survives into a poll that would act on it again.
ReleaseEndsWithPoll ==
    /\ phase = "Exiting" <=> pc \in {"exit", "gone"}
    /\ releasing => \/ phase = "Exiting"
                    \/ phase = "Mapping" /\ userStopped /\ pc \in {"control", "act"}
    /\ userStopped => phase \in {"Searching", "Exiting"} \/ releasing

\* A session that was stopped with the quit key starts to drive again for a
\* reload only, whatever simulator comes and goes meanwhile.
OnlyReloadResumes ==
    [][userStopped /\ ~userStopped' =>
         pc = "control" /\ calls # <<>> /\ Head(calls) = "reload"]_vars

\* A process that exits while it drives devices clears the shared record, though
\* whether to is decided (simfree_on_exit) before the key is read and the
\* control command is served that make it exit.
ExitClearsDrivenRecord ==
    [][pc = "exit" /\ pc' = "gone" /\ loaded # {} => ~published']_vars

\* What the quit key stopped stays stopped: nothing is held, opened or published,
\* no flag of the release survives its poll, and only a reload resumes.
PauseKept == [](PausedIsQuiet /\ ReleaseEndsWithPoll) /\ OnlyReloadResumes

\* The loop implements the promise about the hardware.
Hold == INSTANCE DeviceHold
          WITH held <- loaded, paused <- userStopped, live <- pc # "gone"
HoldSpec == Hold!Spec

\* A stop signal and a stop command end the process, in any phase, whatever key or
\* command arrives with them and however many calls wait before the stop; and what
\* it drove it leaves with a cleared record.
ExitsAsTold ==
    /\ signal \/ (\E i \in DOMAIN calls : calls[i] = "stop") ~> pc = "gone"
    /\ ExitClearsDrivenRecord

\* If the simulator is seen in play from some point on and nobody stops the
\* session, it ends up mapping with its devices loaded: no earlier release,
\* reload or pause leaves it stuck.
EventuallyDrives ==
    /\ <>[](pc = "act" => seen.on /\ seen.status >= StatusActivePlay)
    /\ <>[](~signal /\ typed = <<>> /\ calls = <<>> /\ ~userStopped)
    => <>(pc = "gone") \/ <>[](phase = "Mapping" /\ ~pending)
=============================================================================
