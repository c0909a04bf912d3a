-------------------------- MODULE TelemetryProofs --------------------------
(***************************************************************************)
(* Proofs about PlayLoop, for every set of devices, sightings and ports    *)
(* and every bound on the inputs, and then about Telemetry, which is that  *)
(* loop with its record, its packets and its tyre check, for every set of  *)
(* cars and simulators and every bound on packets and edits.               *)
(***************************************************************************)
EXTENDS Telemetry, SequenceTheorems, WellFoundedInduction, TLAPS

-----------------------------------------------------------------------------
(* PlayLoop: types *)

\* A bridged sighting is a sighting: the bridge only fills in fields.
LEMMA BridgedType ==
  ASSUME NEW s \in Sighting
  PROVE  BridgedAcr(s) \in Sighting
BY DEF BridgedAcr, Sighting, StatusActivePlay, MapApis

LEMMA NoSimType == NoSim \in Sighting
BY DEF NoSim, Sighting, MapApis

\* The port asked for and the socket stay within the known ports.
LEMMA RememberPortType ==
  ASSUME NEW old \in Ports \cup {NoPort}, NEW s \in Sighting
  PROVE  RememberPort(old, s) \in Ports \cup {NoPort}
BY DEF RememberPort, Sighting

LEMMA EnsureSocketType ==
  ASSUME NEW port \in Ports \cup {NoPort}, NEW sock \in Ports \cup {NoPort}
  PROVE  EnsureSocket(port, sock) \subseteq Ports \cup {NoPort}
BY DEF EnsureSocket

LEMMA ApplyAcrBridgeType ==
  ASSUME NEW s \in Sighting, NEW port \in Ports \cup {NoPort},
         NEW sock \in Ports \cup {NoPort}, ApplyAcrBridge(s, port, sock)
  PROVE  /\ seen' \in Sighting
         /\ requested' \in Ports \cup {NoPort}
         /\ socket' \in Ports \cup {NoPort}
<1>1. AcrPort \in Ports
  BY PlayLoopAssumption DEF PlayLoopAssumption
<1>2. EnsureSocket(AcrPort, sock) \subseteq Ports \cup {NoPort}
  BY <1>1, EnsureSocketType
<1>3. BridgedAcr(s) \in Sighting
  BY BridgedType
<1> QED
  BY <1>1, <1>2, <1>3 DEF ApplyAcrBridge

-----------------------------------------------------------------------------
(* Type correctness *)

LEMMA ObserveType == TypeOK /\ Observe => TypeOK'
<1> SUFFICES ASSUME TypeOK, Observe PROVE TypeOK'
  OBVIOUS
<1> USE DEF TypeOK
<1>1. Sightings \subseteq Sighting
  BY PlayLoopAssumption DEF PlayLoopAssumption
<1>2. /\ seen' \in Sighting
      /\ requested' \in Ports \cup {NoPort}
      /\ socket' \in Ports \cup {NoPort}
  <2> PICK raw \in Sightings : IF phase = "Searching" THEN ObserveSearching(raw)
                                                      ELSE ObserveMapping(raw)
    BY DEF Observe
  <2>1. raw \in Sighting
    BY <1>1
  <2> DEFINE port == RememberPort(requested, raw)
  <2>2. port \in Ports \cup {NoPort}
    BY <2>1, RememberPortType
  <2>3. CASE phase = "Searching"
    <3>1. PICK sock \in EnsureSocket(port, socket) :
            \/ ApplyAcrBridge(raw, port, sock)
            \/ \E direct \in Sightings :
                 LET again == RememberPort(port, direct)
                 IN  \E rebound \in EnsureSocket(again, sock) :
                       ApplyAcrBridge(direct, again, rebound)
      BY <2>3 DEF ObserveSearching
    <3>2. sock \in Ports \cup {NoPort}
      BY <2>2, EnsureSocketType
    <3>3. CASE ApplyAcrBridge(raw, port, sock)
      BY <2>1, <2>2, <3>2, <3>3, ApplyAcrBridgeType
    <3>4. CASE \E direct \in Sightings :
                 LET again == RememberPort(port, direct)
                 IN  \E rebound \in EnsureSocket(again, sock) :
                       ApplyAcrBridge(direct, again, rebound)
      <4>1. PICK direct \in Sightings :
              \E rebound \in EnsureSocket(RememberPort(port, direct), sock) :
                ApplyAcrBridge(direct, RememberPort(port, direct), rebound)
        BY <3>4
      <4> DEFINE again == RememberPort(port, direct)
      <4>2. direct \in Sighting
        BY <1>1
      <4>3. again \in Ports \cup {NoPort}
        BY <2>2, <4>2, RememberPortType
      <4>4. PICK rebound \in EnsureSocket(again, sock) :
              ApplyAcrBridge(direct, again, rebound)
        BY <4>1
      <4>5. rebound \in Ports \cup {NoPort}
        BY <3>2, <4>3, EnsureSocketType
      <4> HIDE DEF again
      <4> QED
        BY <4>2, <4>3, <4>4, <4>5, ApplyAcrBridgeType
    <3> QED
      BY <3>1, <3>3, <3>4
  <2>4. CASE phase # "Searching"
    BY <2>1, <2>2, <2>4 DEF ObserveMapping
  <2> QED
    BY <2>3, <2>4
<1> QED
  BY <1>2 DEF Observe, play, devices, inputs

\* The devices stay well typed when all are let go.
LEMMA ReleaseType ==
  ASSUME ReleaseConfigured
  PROVE  /\ loaded' \in SUBSET Devices
         /\ streams' \in SUBSET SoundDevices
         /\ timers' \in SUBSET Devices
         /\ tyreTimer' \in BOOLEAN
         /\ tyreActive' \in BOOLEAN
BY DEF ReleaseConfigured

LEMMA QuitType == TypeOK /\ Quit => TypeOK'
<1> SUFFICES ASSUME TypeOK, Quit PROVE TypeOK'
  OBVIOUS
<1> USE DEF TypeOK
<1>1. typed' \in Seq(Keys)
  BY DEF Quit
<1>2. simfree' \in BOOLEAN
  BY DEF Quit
<1>3. /\ pc' \in {"control", "exit"}
      /\ phase' \in {phase, "Exiting"}
      /\ userStopped' \in BOOLEAN
      /\ releasing' \in BOOLEAN
      /\ UNCHANGED <<useUdp, mapApi>>
  BY DEF Quit, play
<1> QED
  BY <1>1, <1>2, <1>3 DEF Quit, devices, sources

LEMMA ControlType == TypeOK /\ Control => TypeOK'
<1> SUFFICES ASSUME TypeOK, Control PROVE TypeOK'
  OBVIOUS
<1> USE DEF TypeOK
<1>1. calls' \in Seq(Commands)
  BY DEF Control
<1>2. CASE UNCHANGED <<play, devices>> /\ pc' = "act"
  BY <1>1, <1>2 DEF Control, play, devices, sources
<1>3. CASE ReloadCommand
  BY <1>1, <1>3, ReleaseType DEF Control, ReloadCommand, EnterSearching, sources
<1>4. CASE StopCommand
  BY <1>1, <1>4 DEF Control, StopCommand, devices, sources
<1> QED
  BY <1>2, <1>3, <1>4 DEF Control

LEMMA ActType ==
  TypeOK /\ (HandleExit \/ FinishRelease \/ SearchWait \/ StopMapping) => TypeOK'
<1> USE NoSimType DEF TypeOK, play, devices, inputs, ClearRecord, EnterSearching, EndPoll
<1>1. ASSUME TypeOK, HandleExit PROVE TypeOK'
  BY <1>1, ReleaseType DEF HandleExit
<1>2. ASSUME TypeOK, FinishRelease PROVE TypeOK'
  BY <1>2, ReleaseType DEF FinishRelease
<1>3. ASSUME TypeOK, SearchWait PROVE TypeOK'
  BY <1>3 DEF SearchWait, sources
<1>4. ASSUME TypeOK, StopMapping PROVE TypeOK'
  BY <1>4, ReleaseType DEF StopMapping
<1> QED
  BY <1>1, <1>2, <1>3, <1>4

LEMMA BeginMappingType == TypeOK /\ BeginMapping => TypeOK'
<1> SUFFICES ASSUME TypeOK, BeginMapping PROVE TypeOK'
  OBVIOUS
<1> USE DEF TypeOK
<1>1. socket' \in Ports \cup {NoPort}
  BY EnsureSocketType DEF BeginMapping
<1>2. published' \in BOOLEAN
  BY DEF BeginMapping, Publish
<1>3. mapApi' \in MapApis /\ useUdp' \in BOOLEAN
  BY PlayLoopAssumption DEF PlayLoopAssumption, BeginMapping, Sighting
<1> QED
  BY <1>1, <1>2, <1>3, NoSimType DEF BeginMapping, EndPoll, inputs

LEMMA MapFrameType == TypeOK /\ MapFrame => TypeOK'
<1> SUFFICES ASSUME TypeOK, MapFrame PROVE TypeOK'
  OBVIOUS
<1> USE DEF TypeOK
<1>1. published' \in BOOLEAN
  BY DEF MapFrame, Publish
<1>2. /\ pending' \in BOOLEAN
      /\ loaded' \in SUBSET Devices
      /\ streams' \in SUBSET SoundDevices
      /\ timers' \in SUBSET Devices
      /\ tyreTimer' \in BOOLEAN
      /\ tyreActive' \in BOOLEAN
  <2>1. CASE LoadConfigured
    BY <2>1, PlayLoopAssumption DEF LoadConfigured, OpenProfile, ArmTyreCheck, PlayLoopAssumption
  <2>2. CASE DriveDue
    BY <2>2 DEF DriveDue
  <2> QED
    BY <2>1, <2>2 DEF MapFrame
<1> QED
  BY <1>1, <1>2, NoSimType DEF MapFrame, EndPoll, play, inputs

LEMMA EnvironmentType == TypeOK /\ (Environment \/ UNCHANGED vars) => TypeOK'
<1> USE DEF TypeOK, play, devices, sources
<1>1. ASSUME TypeOK, SendSignal PROVE TypeOK'
  BY <1>1 DEF SendSignal
<1>2. ASSUME TypeOK, TypeKey PROVE TypeOK'
  BY <1>2 DEF TypeKey
<1>3. ASSUME TypeOK, Call PROVE TypeOK'
  BY <1>3 DEF Call
<1>4. ASSUME TypeOK, UNCHANGED vars PROVE TypeOK'
  BY <1>4 DEF vars, inputs
<1> QED
  BY <1>1, <1>2, <1>3, <1>4 DEF Environment

\* Every variable keeps its type, whatever the loop and its users do.
THEOREM TypeCorrect == Spec => []TypeOK
<1>1. Init => TypeOK
  <2> SUFFICES ASSUME Init PROVE TypeOK
    OBVIOUS
  <2>1. typed \in Seq(Keys) /\ calls \in Seq(Commands)
    BY DEF Init
  <2>2. mapApi \in MapApis /\ useUdp \in BOOLEAN
    BY PlayLoopAssumption DEF Init, MapApis, PlayLoopAssumption
  <2> QED
    BY <2>1, <2>2, NoSimType DEF Init, TypeOK
<1>2. TypeOK /\ [Next]_vars => TypeOK'
  BY ObserveType, QuitType, ControlType, ActType, BeginMappingType, MapFrameType,
     EnvironmentType
     DEF Next, Step, Terminated
<1> QED
  BY <1>1, <1>2, PTL DEF Spec

-----------------------------------------------------------------------------
(* The devices, the pause and the shared record *)

\* Whether the record will be cleared is decided before control and exit.
ExitDecided == pc \in {"control", "exit"} /\ loaded # {} => simfree

\* No part is inductive alone: that a search holds nothing rests on the release
\* having ended with its poll, that in turn on what pauses, and that a quiet
\* pause stays quiet on both.
IInv ==
    /\ HeldOnlyWhileMapping
    /\ DrivenIsLoaded
    /\ PausedIsQuiet
    /\ ReleaseEndsWithPoll
    /\ ExitDecided

LEMMA ReleasedHoldsNothing ==
  ASSUME ReleaseConfigured
  PROVE  HoldsNothing' /\ DrivenIsLoaded' /\ loaded' = {}
BY DEF ReleaseConfigured, HoldsNothing, DrivenIsLoaded

LEMMA ObserveInv == TypeOK /\ IInv /\ Observe => IInv'
BY DEF IInv, Observe, HeldOnlyWhileMapping, DrivenIsLoaded, PausedIsQuiet, HoldsNothing,
       ReleaseEndsWithPoll, ExitDecided, TypeOK, play, devices, inputs

LEMMA QuitInv == TypeOK /\ IInv /\ Quit => IInv'
<1> SUFFICES ASSUME TypeOK, IInv, Quit PROVE IInv'
  OBVIOUS
<1> USE DEF IInv, TypeOK
<1>1. UNCHANGED devices /\ UNCHANGED published
  BY DEF Quit, sources
<1>2. ~releasing /\ phase \in {"Searching", "Mapping"}
  BY DEF Quit, ReleaseEndsWithPoll
<1>3. loaded # {} => simfree'
  BY <1>2 DEF Quit, HeldOnlyWhileMapping, HoldsNothing
<1>4. CASE QuitAction = "Continue"
  <2>1. pc' = "control" /\ UNCHANGED play
    BY <1>4 DEF Quit
  <2> QED
    BY <1>1, <1>2, <1>3, <2>1
       DEF HeldOnlyWhileMapping, DrivenIsLoaded, PausedIsQuiet, HoldsNothing,
           ReleaseEndsWithPoll, ExitDecided, play, devices
<1>5. CASE QuitAction = "Release"
  <2>1. phase = "Mapping"
    BY <1>5 DEF QuitAction
  <2>2. /\ pc' = "control"
        /\ userStopped'
        /\ releasing'
        /\ phase' = phase
    BY <1>5 DEF Quit
  <2> QED
    BY <1>1, <1>3, <2>1, <2>2
       DEF HeldOnlyWhileMapping, DrivenIsLoaded, PausedIsQuiet, HoldsNothing,
           ReleaseEndsWithPoll, ExitDecided, devices
<1>6. CASE QuitAction = "Exit"
  <2>1. pc' = "exit" /\ phase' = "Exiting"
    BY <1>6 DEF Quit
  <2> QED
    BY <1>1, <1>3, <2>1
       DEF HeldOnlyWhileMapping, DrivenIsLoaded, PausedIsQuiet, HoldsNothing,
           ReleaseEndsWithPoll, ExitDecided, devices
<1> QED
  BY <1>4, <1>5, <1>6 DEF Quit

LEMMA ControlInv == TypeOK /\ IInv /\ Control => IInv'
<1> SUFFICES ASSUME TypeOK, IInv, Control PROVE IInv'
  OBVIOUS
<1> USE DEF IInv, TypeOK
<1>0. pc = "control" /\ UNCHANGED published /\ UNCHANGED simfree
  BY DEF Control, sources
<1>1. CASE pc' = "act" /\ UNCHANGED <<play, devices>>
  BY <1>0, <1>1
     DEF HeldOnlyWhileMapping, DrivenIsLoaded, PausedIsQuiet, HoldsNothing,
         ReleaseEndsWithPoll, ExitDecided, play, devices
<1>2. CASE ReloadCommand
  <2>1. HoldsNothing' /\ DrivenIsLoaded' /\ loaded' = {}
    BY <1>2, ReleasedHoldsNothing DEF ReloadCommand
  <2>2. /\ pc' = "act"
        /\ phase' = "Searching"
        /\ releasing' = FALSE
        /\ userStopped' = FALSE
    BY <1>2 DEF ReloadCommand, EnterSearching
  <2> QED
    BY <2>1, <2>2
       DEF HeldOnlyWhileMapping, PausedIsQuiet, ReleaseEndsWithPoll, ExitDecided
<1>3. CASE StopCommand
  BY <1>0, <1>3
     DEF StopCommand, HeldOnlyWhileMapping, DrivenIsLoaded, PausedIsQuiet, HoldsNothing,
         ReleaseEndsWithPoll, ExitDecided, devices
<1> QED
  BY <1>1, <1>2, <1>3 DEF Control

\* Every way out of a mapping, and out of the process.
LEMMA ReleaseInv ==
  TypeOK /\ IInv /\ (HandleExit \/ FinishRelease \/ StopMapping) => IInv'
<1> SUFFICES ASSUME TypeOK, IInv, HandleExit \/ FinishRelease \/ StopMapping
             PROVE  IInv'
  OBVIOUS
<1> USE DEF IInv, TypeOK
<1>1. HoldsNothing' /\ DrivenIsLoaded' /\ loaded' = {}
  BY ReleasedHoldsNothing DEF HandleExit, FinishRelease, StopMapping
<1>2. CASE HandleExit
  BY <1>1, <1>2
     DEF HandleExit, HeldOnlyWhileMapping, PausedIsQuiet, ReleaseEndsWithPoll,
         ExitDecided, play
<1>3. CASE FinishRelease \/ StopMapping
  <2>1. /\ pc' = "observe"
        /\ phase' = "Searching"
        /\ ~pending' /\ ~published' /\ ~releasing'
    BY <1>3 DEF FinishRelease, StopMapping, EnterSearching, EndPoll, ClearRecord
  <2> QED
    BY <1>1, <2>1
       DEF HeldOnlyWhileMapping, PausedIsQuiet, ReleaseEndsWithPoll, ExitDecided
<1> QED
  BY <1>2, <1>3

LEMMA SearchInv == TypeOK /\ IInv /\ (SearchWait \/ BeginMapping) => IInv'
<1> USE DEF IInv, TypeOK, HeldOnlyWhileMapping, DrivenIsLoaded, PausedIsQuiet,
            HoldsNothing, ReleaseEndsWithPoll, ExitDecided, EndPoll
<1>1. ASSUME TypeOK, IInv, SearchWait PROVE IInv'
  BY <1>1 DEF SearchWait, EnterSearching, devices, sources
<1>2. ASSUME TypeOK, IInv, BeginMapping PROVE IInv'
  BY <1>2 DEF BeginMapping
<1> QED
  BY <1>1, <1>2

LEMMA MapFrameInv == TypeOK /\ IInv /\ MapFrame => IInv'
<1> SUFFICES ASSUME TypeOK, IInv, MapFrame PROVE IInv'
  OBVIOUS
<1> USE DEF IInv, TypeOK
<1>1. /\ pc' = "observe"
      /\ phase = "Mapping" /\ phase' = "Mapping"
      /\ ~releasing /\ ~releasing'
      /\ ~userStopped /\ ~userStopped'
  BY DEF MapFrame, EndPoll, play, ReleaseEndsWithPoll
<1>2. ~pending'
  BY DEF MapFrame, LoadConfigured, OpenProfile, ArmTyreCheck, DriveDue
<1>3. DrivenIsLoaded'
  <2>1. CASE LoadConfigured
    <3>1. (tyreActive' => tyreTimer') /\ (tyreTimer' => loaded' # {})
      BY <2>1, Zenon DEF LoadConfigured, OpenProfile, ArmTyreCheck
    <3>2. timers' = loaded' /\ streams' = loaded' \cap SoundDevices
      BY <2>1 DEF LoadConfigured, OpenProfile, ArmTyreCheck
    <3> QED
      BY <3>1, <3>2, Zenon DEF DrivenIsLoaded
  <2>2. CASE DriveDue
    <3>1. UNCHANGED <<loaded, streams, timers, tyreTimer>>
      BY <2>2 DEF DriveDue
    <3>2. tyreActive' => tyreActive
      BY <2>2, Zenon DEF DriveDue
    <3> QED
      BY <3>1, <3>2, Zenon DEF DrivenIsLoaded
  <2> QED
    BY <2>1, <2>2 DEF MapFrame
<1> QED
  BY <1>1, <1>2, <1>3
     DEF HeldOnlyWhileMapping, PausedIsQuiet, ReleaseEndsWithPoll, ExitDecided

LEMMA EnvironmentInv == IInv /\ (Environment \/ UNCHANGED vars) => IInv'
<1> SUFFICES ASSUME IInv, Environment \/ UNCHANGED vars PROVE IInv'
  OBVIOUS
<1>1. UNCHANGED <<pc, play, simfree, devices, published>>
  BY DEF Environment, SendSignal, TypeKey, Call, vars, sources
<1> QED
  BY <1>1
     DEF IInv, HeldOnlyWhileMapping, DrivenIsLoaded, PausedIsQuiet, HoldsNothing,
         ReleaseEndsWithPoll, ExitDecided, play, devices

THEOREM InvCorrect == Spec => []IInv
<1>1. Init => IInv
  BY DEF Init, IInv, HeldOnlyWhileMapping, DrivenIsLoaded, PausedIsQuiet, HoldsNothing,
         ReleaseEndsWithPoll, ExitDecided
<1>2. TypeOK /\ IInv /\ [Next]_vars => IInv'
  BY ObserveInv, QuitInv, ControlInv, ReleaseInv, SearchInv, MapFrameInv, EnvironmentInv
     DEF Next, Step, Terminated
<1> QED
  BY <1>1, <1>2, TypeCorrect, PTL DEF Spec

\* However a mapping ends, whoever ends it, no device, stream or timer outlives it.
THEOREM HeldCorrect == Spec => []HeldOnlyWhileMapping
BY InvCorrect, PTL DEF IInv

\* Device list, scheduler and Pulse session always agree.
THEOREM DrivenCorrect == Spec => []DrivenIsLoaded
BY InvCorrect, PTL DEF IInv

\* Held is driven, by a mapping only.
THEOREM HeldIsDrivenCorrect == Spec => []HeldIsDriven
BY InvCorrect, PTL DEF IInv, HeldIsDriven

\* A paused session stays away from the devices and from the shared record.
THEOREM PausedCorrect == Spec => []PausedIsQuiet
BY InvCorrect, PTL DEF IInv

-----------------------------------------------------------------------------
(* What a step may never do *)

\* No step but a reload lifts the pause.
THEOREM ResumeCorrect == Spec => OnlyReloadResumes
<1> DEFINE A == userStopped /\ ~userStopped' =>
                  pc = "control" /\ calls # <<>> /\ Head(calls) = "reload"
<1>1. TypeOK /\ [Next]_vars => [A]_vars
  <2> SUFFICES ASSUME TypeOK, Next, userStopped, ~userStopped'
               PROVE  pc = "control" /\ calls # <<>> /\ Head(calls) = "reload"
    OBVIOUS
  <2>1. ~(Observe \/ HandleExit \/ FinishRelease \/ SearchWait \/ StopMapping \/ MapFrame)
    BY DEF Observe, HandleExit, FinishRelease, SearchWait, StopMapping, MapFrame, play
  <2>2. ~Quit
    BY DEF Quit, play
  <2>3. ~BeginMapping
    BY DEF BeginMapping, Startable
  <2>4. ~(Environment \/ Terminated)
    BY DEF Environment, SendSignal, TypeKey, Call, Terminated, vars, play
  <2>5. Control
    BY <2>1, <2>2, <2>3, <2>4 DEF Next, Step
  <2>6. ReloadCommand /\ calls # <<>> /\ Head(calls) = "reload"
    BY <2>5 DEF Control, StopCommand, play
  <2> QED
    BY <2>5, <2>6 DEF Control
<1> QED
  BY <1>1, TypeCorrect, PTL DEF Spec, OnlyReloadResumes

\* What the quit key stopped stays stopped until a reload.
THEOREM PauseCorrect == Spec => PauseKept
<1>1. IInv => PausedIsQuiet /\ ReleaseEndsWithPoll
  BY DEF IInv
<1> QED
  BY <1>1, InvCorrect, ResumeCorrect, PTL DEF PauseKept

\* The decision to clear the record, taken early in the poll, is still right when
\* the process exits.
THEOREM ExitClearsCorrect == Spec => ExitClearsDrivenRecord
<1> DEFINE A == pc = "exit" /\ pc' = "gone" /\ loaded # {} => ~published'
<1>1. IInv /\ [Next]_vars => [A]_vars
  <2> SUFFICES ASSUME IInv, Next, pc = "exit", pc' = "gone", loaded # {}
               PROVE  ~published'
    OBVIOUS
  <2>1. HandleExit
    BY DEF Next, Step, Environment, Terminated, Observe, Quit, Control, FinishRelease,
           SearchWait, BeginMapping, StopMapping, MapFrame, SendSignal, TypeKey, Call,
           EndPoll
  <2>2. simfree
    BY DEF IInv, ExitDecided
  <2> QED
    BY <2>1, <2>2 DEF HandleExit, ClearRecord
<1> QED
  BY <1>1, InvCorrect, PTL DEF Spec, ExitClearsDrivenRecord

-----------------------------------------------------------------------------
(* The loop keeps the promise about the hardware *)

LEMMA HoldStep == TypeOK /\ TypeOK' /\ IInv /\ [Next]_vars => [Hold!Next]_(Hold!vars)
<1> SUFFICES ASSUME TypeOK, TypeOK', IInv, [Next]_vars
             PROVE  Hold!Next \/ UNCHANGED Hold!vars
  OBVIOUS
<1> USE DEF TypeOK
<1>1. CASE Observe \/ SearchWait \/ BeginMapping
  <2>1. UNCHANGED loaded /\ pc # "gone" /\ pc' # "gone"
    BY <1>1 DEF Observe, SearchWait, BeginMapping, EndPoll, devices
  <2>2. UNCHANGED userStopped
    BY <1>1 DEF Observe, SearchWait, BeginMapping, Startable, play
  <2> QED
    BY <2>1, <2>2 DEF Hold!vars
<1>2. CASE Quit
  <2>1. UNCHANGED loaded /\ pc # "gone" /\ pc' # "gone"
    BY <1>2 DEF Quit, devices
  <2>2. userStopped' = TRUE \/ UNCHANGED userStopped
    BY <1>2 DEF Quit, play
  <2> QED
    BY <2>1, <2>2 DEF Hold!vars, Hold!Next, Hold!Pause
<1>3. CASE Control
  <2>1. pc # "gone" /\ pc' # "gone"
    BY <1>3 DEF Control, ReloadCommand, StopCommand
  <2>2. CASE ReloadCommand
    BY <2>1, <2>2 DEF ReloadCommand, ReleaseConfigured, Hold!Next, Hold!Reload
  <2>3. CASE UNCHANGED <<userStopped, loaded>>
    BY <2>1, <2>3 DEF Hold!vars
  <2> QED
    BY <1>3, <2>2, <2>3 DEF Control, StopCommand, play, devices
<1>4. CASE HandleExit
  BY <1>4 DEF HandleExit, ReleaseConfigured, play, Hold!Next, Hold!End
<1>5. CASE FinishRelease \/ StopMapping
  <2>1. loaded' = {} /\ UNCHANGED userStopped /\ pc # "gone" /\ pc' # "gone"
    BY <1>5 DEF FinishRelease, StopMapping, ReleaseConfigured, EndPoll
  <2> QED
    BY <2>1 DEF Hold!Next, Hold!Release
<1>6. CASE MapFrame
  <2>1. pc # "gone" /\ pc' # "gone" /\ UNCHANGED userStopped
    BY <1>6 DEF MapFrame, EndPoll, play
  <2>2. CASE pending
    <3>1. loaded = {}
      BY <2>2 DEF IInv, HeldOnlyWhileMapping, HoldsNothing
    <3>2. ~userStopped
      BY <1>6 DEF MapFrame, IInv, ReleaseEndsWithPoll
    <3> QED
      BY <2>1, <3>1, <3>2 DEF Hold!Next, Hold!Acquire
  <2>3. CASE ~pending
    BY <1>6, <2>1, <2>3 DEF MapFrame, DriveDue, Hold!vars
  <2> QED
    BY <2>2, <2>3
<1>7. CASE Environment \/ UNCHANGED vars
  <2>1. UNCHANGED <<pc, userStopped, loaded>>
    BY <1>7 DEF Environment, SendSignal, TypeKey, Call, vars, play, devices
  <2> QED
    BY <2>1 DEF Hold!vars
<1> QED
  BY <1>1, <1>2, <1>3, <1>4, <1>5, <1>6, <1>7 DEF Next, Step, Terminated

\* PlayLoop implements DeviceHold.
THEOREM HoldCorrect == Spec => HoldSpec
<1>1. Init => Hold!Init
  BY DEF Init, Hold!Init
<1> QED
  BY <1>1, HoldStep, TypeCorrect, InvCorrect, PTL DEF Spec, HoldSpec, Hold!Spec

-----------------------------------------------------------------------------
(* It is the play loop: what PlayLoop promises holds here. *)

LEMMA StepOfPlayLoop == [TelemetryNext]_telemetry => [Next]_vars
<1> SUFFICES ASSUME [TelemetryNext]_telemetry PROVE [Next]_vars
  OBVIOUS
<1> USE DEF Next, Step, Environment
<1>1. CASE ObserveAndBind
  BY <1>1 DEF ObserveAndBind
<1>2. CASE LetGo
  BY <1>2 DEF LetGo
<1>3. CASE ServeControl
  BY <1>3 DEF ServeControl
<1>4. CASE Others
  BY <1>4 DEF Others
<1>5. CASE BeginMappingT
  BY <1>5 DEF BeginMappingT
<1>6. CASE MapFrameT
  BY <1>6 DEF MapFrameT
<1>7. CASE Saves \/ TheTui \/ GameSends
  BY <1>7 DEF Saves, TheTui, GameSends
<1>8. CASE UNCHANGED telemetry
  BY <1>8 DEF telemetry
<1> QED
  BY <1>1, <1>2, <1>3, <1>4, <1>5, <1>6, <1>7, <1>8 DEF TelemetryNext

\* Every behaviour with its record, packets and tyre check is one of the play
\* loop (main.rs), so whatever is proved of that holds for it.
THEOREM TelemetryIsPlayLoop == TelemetrySpec => Spec
<1>1. TelemetryInit => Init
  BY DEF TelemetryInit
<1> QED
  BY <1>1, StepOfPlayLoop, PTL DEF TelemetrySpec, Spec

\* In particular it drives what it holds, keeps a pause and implements DeviceHold,
\* whatever packets, records and files do.
THEOREM TelemetryHolds == TelemetrySpec => HoldSpec /\ []HeldIsDriven /\ PauseKept
BY TelemetryIsPlayLoop, HoldCorrect, HeldIsDrivenCorrect, PauseCorrect, PTL

-----------------------------------------------------------------------------
(* The shared record *)

LEMMA DatamapSafe ==
  ASSUME NEW api, NEW v, ~faulted, Datamap(api, v)
  PROVE  ~faulted'
BY DEF Datamap, Copies, Shown, Hides, ReadWrite, Unprotected, View

\* A game's frame never goes to an address that cannot be written: it is hidden from
\* the mapper or found writable where it is (hide_readonly_publish_view,
\* publish_map_is_read_write), whatever descriptor the library's earlier calls have
\* left beside it.
THEOREM CopiesCorrect == TelemetrySpec => []CopiesWhereWritable
<1> USE DEF CopiesWhereWritable
<1>1. TelemetryInit => CopiesWhereWritable
  BY DEF TelemetryInit
<1>2. CopiesWhereWritable /\ [TelemetryNext]_telemetry => CopiesWhereWritable'
  <2> SUFFICES ASSUME CopiesWhereWritable, [TelemetryNext]_telemetry
               PROVE  CopiesWhereWritable'
    OBVIOUS
  <2>1. CASE ObserveAndBind
    BY <2>1 DEF ObserveAndBind
  <2>2. CASE LetGo \/ ServeControl \/ Others
    BY <2>2 DEF LetGo, MayClear, ServeControl, Others, record
  <2>3. CASE BeginMappingT
    BY <2>3, DatamapSafe DEF BeginMappingT
  <2>4. CASE MapFrameT
    BY <2>4, DatamapSafe DEF MapFrameT, RecvUdp, MapLive, record
  <2>5. CASE Saves \/ TheTui \/ GameSends
    BY <2>5 DEF Saves, TheTui, GameSends, record
  <2>6. CASE UNCHANGED telemetry
    BY <2>6 DEF telemetry, record
  <2> QED
    BY <2>1, <2>2, <2>3, <2>4, <2>5, <2>6 DEF TelemetryNext
<1> QED
  BY <1>1, <1>2, PTL DEF TelemetrySpec

-----------------------------------------------------------------------------
(* The UDP socket *)

\* A socket belongs to a port that was asked for; after a search it is bound to
\* the last one.
SocketInv ==
    /\ requested = NoPort => socket = NoPort
    /\ pc \in {"quit", "control", "act"} /\ sought => socket \in {requested, NoPort}

LEMMA BridgeBinds ==
  ASSUME NEW s, NEW port, NEW sock, sock \in {port, NoPort}, ApplyAcrBridge(s, port, sock)
  PROVE  /\ socket' \in {requested', NoPort}
         /\ requested' = NoPort => socket' = NoPort
BY PlayLoopAssumption DEF ApplyAcrBridge, EnsureSocket, PlayLoopAssumption

LEMMA EnsureBinds ==
  ASSUME NEW port, NEW held, port = NoPort => held = NoPort, NEW sock \in EnsureSocket(port, held)
  PROVE  sock \in {port, NoPort}
BY DEF EnsureSocket

LEMMA RememberKeeps ==
  ASSUME NEW port, NEW s, RememberPort(port, s) = NoPort
  PROVE  port = NoPort
BY DEF RememberPort

LEMMA SearchBinds ==
  ASSUME SocketInv, NEW raw, ObserveSearching(raw)
  PROVE  /\ socket' \in {requested', NoPort}
         /\ requested' = NoPort => socket' = NoPort
<1> DEFINE port == RememberPort(requested, raw)
<1>1. PICK sock \in EnsureSocket(port, socket) :
        \/ ApplyAcrBridge(raw, port, sock)
        \/ \E direct \in Sightings :
             LET again == RememberPort(port, direct)
             IN  \E rebound \in EnsureSocket(again, sock) :
                   ApplyAcrBridge(direct, again, rebound)
  BY DEF ObserveSearching
<1>2. port = NoPort => socket = NoPort
  BY RememberKeeps DEF SocketInv
<1>3. sock \in {port, NoPort}
  BY <1>1, <1>2, EnsureBinds
<1> HIDE DEF port
<1>4. CASE ApplyAcrBridge(raw, port, sock)
  BY <1>3, <1>4, BridgeBinds
<1>5. CASE \E direct \in Sightings :
             LET again == RememberPort(port, direct)
             IN  \E rebound \in EnsureSocket(again, sock) :
                   ApplyAcrBridge(direct, again, rebound)
  <2>1. PICK direct \in Sightings :
          \E rebound \in EnsureSocket(RememberPort(port, direct), sock) :
            ApplyAcrBridge(direct, RememberPort(port, direct), rebound)
    BY <1>5
  <2> DEFINE again == RememberPort(port, direct)
  <2>2. PICK rebound \in EnsureSocket(again, sock) : ApplyAcrBridge(direct, again, rebound)
    BY <2>1
  <2>3. again = NoPort => sock = NoPort
    BY <1>3, RememberKeeps
  <2>4. rebound \in {again, NoPort}
    BY <2>2, <2>3, EnsureBinds
  <2> HIDE DEF again
  <2> QED
    BY <2>2, <2>4, BridgeBinds
<1> QED
  BY <1>1, <1>4, <1>5

LEMMA SocketInvStep == SocketInv /\ [TelemetryNext]_telemetry => SocketInv'
<1> SUFFICES ASSUME SocketInv, [TelemetryNext]_telemetry PROVE SocketInv'
  OBVIOUS
<1>1. CASE ObserveAndBind
  <2>1. PICK raw \in Sightings : IF phase = "Searching" THEN ObserveSearching(raw)
                                                        ELSE ObserveMapping(raw)
    BY <1>1 DEF ObserveAndBind, Observe
  <2>2. CASE phase = "Searching"
    BY <2>1, <2>2, SearchBinds DEF SocketInv
  <2>3. CASE phase # "Searching"
    <3>1. /\ requested' = RememberPort(requested, raw)
          /\ socket' = socket
          /\ ~sought'
      BY <1>1, <2>1, <2>3 DEF ObserveMapping, ObserveAndBind
    <3> QED
      BY <3>1, RememberKeeps DEF SocketInv
  <2> QED
    BY <2>2, <2>3
<1>2. CASE LetGo
  BY <1>2 DEF LetGo, HandleExit, FinishRelease, StopMapping, EndPoll, SocketInv
<1>3. CASE ServeControl
  BY <1>3 DEF ServeControl, Control, ReloadCommand, StopCommand, sources, SocketInv
<1>4. CASE Others
  BY <1>4 DEF Others, Quit, SearchWait, EndPoll, Call, Terminated, vars, sources, SocketInv
<1>5. CASE BeginMappingT
  BY <1>5 DEF BeginMappingT, BeginMapping, EndPoll, EnsureSocket, SocketInv
<1>6. CASE MapFrameT
  BY <1>6 DEF MapFrameT, MapFrame, EndPoll, SocketInv
<1>7. CASE Saves \/ TheTui \/ GameSends
  BY <1>7 DEF Saves, TheTui, GameSends, vars, sources, SocketInv
<1>8. CASE UNCHANGED telemetry
  BY <1>8 DEF telemetry, vars, sources, SocketInv
<1> QED
  BY <1>1, <1>2, <1>3, <1>4, <1>5, <1>6, <1>7, <1>8 DEF TelemetryNext

LEMMA BeginBindsPort ==
  ASSUME SocketInv, [TelemetryNext]_telemetry,
         pc = "act", phase = "Searching", phase' = "Mapping", sought
  PROVE  socket' \in {requested, NoPort}
<1>1. BeginMapping
  <2>1. phase' # phase
    OBVIOUS
  <2>2. ~UNCHANGED telemetry /\ ~Saves /\ ~TheTui /\ ~GameSends
    BY <2>1 DEF telemetry, Saves, TheTui, GameSends, vars, play
  <2>3. ~ObserveAndBind /\ ~LetGo /\ ~ServeControl
    BY <2>1 DEF ObserveAndBind, Observe, LetGo, HandleExit, FinishRelease, StopMapping,
                ServeControl, Control, ReloadCommand, StopCommand, EnterSearching, play
  <2>4. ~Others /\ ~MapFrameT
    BY <2>1 DEF Others, Quit, SearchWait, EnterSearching, Call, Terminated, MapFrameT, MapFrame,
                vars, play
  <2> QED
    BY <2>2, <2>3, <2>4 DEF TelemetryNext, BeginMappingT
<1> QED
  BY <1>1 DEF BeginMapping, SocketInv, EnsureSocket

\* A mapping that a search began listens to the port asked for last, whatever
\* port an earlier simulator or the bridge had bound (ensure_socket,
\* slog_requested_bind, begin_mapping).
THEOREM SearchBindsCorrect == TelemetrySpec => SearchBindsPort
<1>1. TelemetryInit => SocketInv
  BY DEF TelemetryInit, Init, SocketInv
<1>2. SocketInv /\ [TelemetryNext]_telemetry =>
        [pc = "act" /\ phase = "Searching" /\ phase' = "Mapping" /\ sought /\ useUdp'
           => socket' \in {requested, NoPort}]_telemetry
  BY BeginBindsPort
<1> QED
  BY <1>1, <1>2, SocketInvStep, PTL DEF TelemetrySpec, SearchBindsPort

-----------------------------------------------------------------------------
(* The diameters file *)

\* No car of cars is e's, and none is there twice, those aside whose name was
\* replaced.
Absent(cars, e) ==
    e.car \notin Replaced => \A i \in DOMAIN cars : ~Matches(cars[i], e.car, e.sim)
Twinless(cars) ==
    \A i, j \in DOMAIN cars :
        /\ cars[i].sim # Text /\ Matches(cars[i], cars[j].car, cars[j].sim)
        /\ {cars[i].car, cars[j].car} \cap Replaced = {}
        => i = j
AllText(cars) == \A i \in DOMAIN cars : cars[i].sim = Text

\* A save appends a car that was not there when the file was looked at, and is
\* not when it is read again: only the TUI writes between the two, and its cars
\* have no number for their simulator.  For the same reason what was read has
\* every measured car that the file has when it is written.
StoreInv ==
    /\ diameters.cars \in Seq(Entries) /\ tui.cars \in Seq(Entries)
    /\ Twinless(diameters.cars)
    /\ saving.stage \in {"idle", "read", "write"}
    /\ diameters.kind # "cars" => diameters.cars = <<>>
    /\ saving.stage # "idle" => saving.entry \in Entries /\ saving.entry.sim # Text
    /\ saving.stage = "read" => Absent(diameters.cars, saving.entry)
    /\ saving.stage = "write" =>
          /\ saving.read.cars \in Seq(Entries)
          /\ saving.read.kind # "cars" => saving.read.cars = <<>>
          /\ Twinless(saving.read.cars)
          /\ Absent(saving.read.cars, saving.entry)
          /\ Measured(diameters.cars) \subseteq Measured(saving.read.cars)

LEMMA EmptyStore == /\ <<>> \in Seq(Entries) /\ Twinless(<<>>)
                    /\ \A e : Absent(<<>>, e)
BY DEF Twinless, Absent

\* A nonempty set of indices has a least one, so a car that is there is found.
LEMMA LeastIndex ==
  ASSUME NEW I, I \subseteq Nat, I # {}
  PROVE  Min(I) \in I
<1> DEFINE R == {pair \in Nat \X Nat : pair[1] < pair[2]}
<1>1. IsWellFoundedOn(R, Nat)
  BY NatLessThanWellFounded DEF OpToRel
<1>2. PICK m \in I : \A y \in I : <<y, m>> \notin R
  <2> HIDE DEF R
  <2> QED
    BY <1>1, WFMin
<1>3. ASSUME NEW y \in I PROVE m =< y
  <2>1. ~(y < m)
    BY <1>2
  <2> QED
    BY <2>1
<1>4. \E x \in I : \A y \in I : x =< y
  BY <1>3
<1> QED
  BY <1>4 DEF Min

LEMMA NotFoundIsAbsent ==
  ASSUME NEW cars \in Seq(Entries), NEW f, f.cars = cars, NEW car, NEW exe,
         FindCar(f, car, exe) = 0
  PROVE  \A i \in DOMAIN cars : ~Matches(cars[i], car, exe)
<1> DEFINE I == {i \in 1 .. Len(cars) : Matches(cars[i], car, exe)}
<1>1. I # {} => Min(I) \in I
  <2>1. I \subseteq Nat
    OBVIOUS
  <2> HIDE DEF I
  <2> QED
    BY <2>1, LeastIndex
<1>2. FindCar(f, car, exe) = IF I # {} THEN Min(I) ELSE 0
  BY DEF FindCar, SelectInSeq
<1> HIDE DEF I
<1>3. I = {}
  <2>1. I \subseteq Nat \ {0}
    BY DEF I
  <2> QED
    BY <1>1, <1>2, <2>1
<1> QED
  BY <1>3 DEF I

LEMMA AllTextIsTwinless ==
  ASSUME NEW cars, AllText(cars)
  PROVE  /\ Twinless(cars)
         /\ \A e : e.sim # Text => Absent(cars, e)
         /\ Measured(cars) = {}
BY DEF AllText, Twinless, Absent, Matches, Measured

LEMMA AppendIsTwinless ==
  ASSUME NEW cars \in Seq(Entries), NEW e \in Entries, Twinless(cars), Absent(cars, e)
  PROVE  Append(cars, e) \in Seq(Entries) /\ Twinless(Append(cars, e))
<1> DEFINE more == Append(cars, e)
<1>1. /\ more \in Seq(Entries)
      /\ DOMAIN more = DOMAIN cars \cup {Len(cars) + 1}
      /\ \A i \in DOMAIN cars : more[i] = cars[i]
      /\ more[Len(cars) + 1] = e
  OBVIOUS
<1> HIDE DEF more
<1>2. ASSUME NEW i \in DOMAIN more, NEW j \in DOMAIN more,
             more[i].sim # Text, Matches(more[i], more[j].car, more[j].sim),
             {more[i].car, more[j].car} \cap Replaced = {}
      PROVE  i = j
  <2>1. CASE i \in DOMAIN cars /\ j \in DOMAIN cars
    BY <1>1, <1>2, <2>1 DEF Twinless
  <2>2. CASE i \in DOMAIN cars /\ j = Len(cars) + 1
    <3>1. e.car \notin Replaced
      BY <1>1, <1>2, <2>2
    <3> QED
      BY <1>1, <1>2, <2>2, <3>1 DEF Absent
  <2>3. CASE i = Len(cars) + 1 /\ j \in DOMAIN cars
    <3>1. Matches(e, cars[j].car, cars[j].sim)
      BY <1>1, <1>2, <2>3
    <3>2. Matches(cars[j], e.car, e.sim)
      BY <1>1, <1>2, <2>3, <3>1 DEF Matches
    <3>3. e.car \notin Replaced
      BY <1>1, <1>2, <2>3
    <3> QED
      BY <2>3, <3>2, <3>3 DEF Absent
  <2> QED
    BY <1>1, <2>1, <2>2, <2>3
<1> QED
  BY <1>1, <1>2 DEF Twinless, more

LEMMA TextStore ==
  ASSUME NEW cars \in Seq(Entries)
  PROVE  /\ [i \in DOMAIN cars |-> CarToValue(cars[i])] \in Seq(Entries)
         /\ AllText([i \in DOMAIN cars |-> CarToValue(cars[i])])
         /\ [i \in DOMAIN cars |-> CarFromValue(cars[i])] \in Seq(Entries)
<1>1. \A e \in Entries : /\ CarToValue(e) \in Entries /\ CarToValue(e).sim = Text
                         /\ CarFromValue(e) \in Entries
  BY DEF CarToValue, CarFromValue, Entries
<1>2. DOMAIN cars = 1 .. Len(cars) /\ Len(cars) \in Nat
  OBVIOUS
<1> QED
  BY <1>1, <1>2 DEF AllText

LEMMA StoreSaved ==
  ASSUME NEW cars \in Seq(Entries), SaveStore(cars), StoreInv, saving' = saving
  PROVE  StoreInv'
<1>1. CASE /\ diameters' = WithCars([i \in DOMAIN cars |-> CarToValue(cars[i])])
           /\ tui' = [tui EXCEPT !.cars = cars]
  <2>1. /\ diameters'.cars \in Seq(Entries)
        /\ AllText(diameters'.cars)
    BY <1>1, TextStore DEF WithCars
  <2>2. tui'.cars \in Seq(Entries)
    BY <1>1 DEF StoreInv
  <2>3. /\ Twinless(diameters'.cars)
        /\ \A e : e.sim # Text => Absent(diameters'.cars, e)
        /\ Measured(diameters'.cars) = {}
    BY <2>1, AllTextIsTwinless
  <2> QED
    BY <1>1, <2>1, <2>2, <2>3 DEF StoreInv, WithCars
<1>2. CASE diameters' = diameters /\ tui' = Closed
  BY <1>2, EmptyStore DEF StoreInv, Closed
<1> QED
  BY <1>1, <1>2 DEF SaveStore

LEMMA TuiKeepsStore ==
  ASSUME StoreInv, OpenStore \/ EditStore
  PROVE  StoreInv'
<1>1. CASE OpenStore
  <2>1. tui'.cars \in Seq(Entries)
    BY <1>1, TextStore DEF OpenStore, StoreInv
  <2> QED
    BY <1>1, <2>1 DEF OpenStore, StoreInv
<1>2. CASE EditStore
  <2>1. ASSUME NEW cars \in Seq(Entries), SaveStore(cars) PROVE StoreInv'
    BY <1>2, <2>1, StoreSaved DEF EditStore
  <2>2. CASE SaveStore(Append(tui.cars, [car |-> DefaultCar, sim |-> Text, positive |-> FALSE]))
    <3>1. [car |-> DefaultCar, sim |-> Text, positive |-> FALSE] \in Entries
      BY DEF Entries
    <3>2. Append(tui.cars, [car |-> DefaultCar, sim |-> Text, positive |-> FALSE]) \in Seq(Entries)
      BY <3>1 DEF StoreInv
    <3> QED
      BY <2>1, <2>2, <3>2
  <2>3. CASE \E i \in DOMAIN tui.cars : SaveStore(RemoveAt(tui.cars, i))
    <3>1. PICK i \in DOMAIN tui.cars : SaveStore(RemoveAt(tui.cars, i))
      BY <2>3
    <3>2. RemoveAt(tui.cars, i) \in Seq(Entries)
      BY SubSeqProperties, ConcatProperties DEF StoreInv, RemoveAt
    <3> QED
      BY <2>1, <3>1, <3>2
  <2>4. CASE SaveStore(tui.cars)
    BY <2>1, <2>4 DEF StoreInv
  <2> QED
    BY <1>2, <2>2, <2>3, <2>4 DEF EditStore
<1> QED
  BY <1>1, <1>2

LEMMA CheckKeepsStore ==
  ASSUME StoreInv, saving = Idle, RunTyreCheck
  PROVE  StoreInv'
<1>1. PICK held \in BOOLEAN, coasting \in BOOLEAN, car \in CarNames \cup {NoCar}, exe \in Exes :
        CheckTyres(held, car, exe, coasting, ~tyreActive')
  BY DEF RunTyreCheck
<1>2. UNCHANGED <<diameters, tui>>
  BY <1>1 DEF CheckTyres
<1>3. CASE saving' = saving
  BY <1>2, <1>3 DEF StoreInv
<1>4. CASE /\ SavesNow(car, exe)
           /\ saving' = [stage |-> "read", entry |-> DiameterEntry(car, exe),
                         read |-> NoFile("missing")]
  <2> DEFINE e == DiameterEntry(car, exe)
  <2>1. e \in Entries /\ e.sim # Text /\ e.car = Lossy[car] /\ e.sim = exe
    <3>1. exe \in Exes /\ exe # 0
      BY TyreStoreAssumption DEF TyreStoreAssumption
    <3>2. Lossy[car] \in {Lossy[name] : name \in CarNames} \cup {NoCar}
      BY TyreStoreAssumption DEF TyreStoreAssumption
    <3> QED
      BY <3>1, <3>2 DEF DiameterEntry, Entries, Text
  <2>2. e.car \notin Replaced => e.car = car
    BY <2>1, TyreStoreAssumption DEF Replaced, TyreStoreAssumption
  <2>3. \A i \in DOMAIN diameters.cars : ~Matches(diameters.cars[i], car, exe)
    BY <1>4, NotFoundIsAbsent DEF SavesNow, StoreInv
  <2>4. Absent(diameters.cars, e)
    BY <2>1, <2>2, <2>3 DEF Absent
  <2> HIDE DEF e
  <2>5. saving'.stage = "read" /\ saving'.entry = e
    BY <1>4 DEF e
  <2> QED
    BY <1>2, <2>1, <2>4, <2>5 DEF StoreInv
<1> QED
  BY <1>1, <1>3, <1>4 DEF CheckTyres

LEMMA SaveKeepsStore ==
  ASSUME StoreInv, ReadToSave \/ WriteDiameters
  PROVE  StoreInv'
<1>1. CASE ReadToSave
  <2>1. /\ saving.stage = "read" /\ saving'.entry = saving.entry
        /\ saving'.stage = "write" /\ saving'.read = diameters
        /\ UNCHANGED <<diameters, tui>>
    BY <1>1 DEF ReadToSave, StoreInv
  <2> QED
    BY <2>1 DEF StoreInv
<1>2. CASE WriteDiameters
  <2> DEFINE old == EnsureCars(saving.read)
  <2>1. /\ saving.entry \in Entries
        /\ old \in Seq(Entries) /\ Twinless(old) /\ Absent(old, saving.entry)
    BY <1>2, EmptyStore DEF WriteDiameters, StoreInv, EnsureCars
  <2>2. Append(old, saving.entry) \in Seq(Entries) /\ Twinless(Append(old, saving.entry))
    BY <2>1, AppendIsTwinless
  <2> HIDE DEF old
  <2>3. \/ diameters'.cars = Append(old, saving.entry)
        \/ diameters'.cars = diameters.cars
        \/ diameters'.cars = <<>>
    BY <1>2 DEF WriteDiameters, WithCars, NoFile, old
  <2>4. diameters'.cars \in Seq(Entries) /\ Twinless(diameters'.cars)
    BY <2>2, <2>3, EmptyStore DEF StoreInv
  <2>5. diameters'.kind # "cars" => diameters'.cars = <<>>
    BY <1>2 DEF WriteDiameters, WithCars, NoFile, StoreInv
  <2>6. saving'.stage = "idle" /\ tui' = tui
    BY <1>2 DEF WriteDiameters, Idle
  <2> QED
    BY <2>4, <2>5, <2>6 DEF StoreInv
<1> QED
  BY <1>1, <1>2

LEMMA StoreInvStep == StoreInv /\ [TelemetryNext]_telemetry => StoreInv'
<1> SUFFICES ASSUME StoreInv, [TelemetryNext]_telemetry PROVE StoreInv'
  OBVIOUS
<1>1. ASSUME UNCHANGED <<diameters, saving, tui>> PROVE StoreInv'
  BY <1>1 DEF StoreInv
<1>2. CASE ObserveAndBind \/ LetGo \/ ServeControl \/ Others \/ BeginMappingT \/ GameSends
           \/ UNCHANGED telemetry
  BY <1>1, <1>2 DEF ObserveAndBind, LetGo, ServeControl, Others, BeginMappingT, GameSends,
                    WatchReleased, telemetry, tyres
<1>3. CASE MapFrameT
  <2>1. CASE RunTyreCheck
    BY <1>3, <2>1, CheckKeepsStore DEF MapFrameT, Polls
  <2>2. CASE UNCHANGED tyres
    BY <1>1, <2>2 DEF tyres
  <2> QED
    BY <1>3, <2>1, <2>2 DEF MapFrameT, ArmAndCheck, CheckDue
<1>4. CASE Saves
  BY <1>4, SaveKeepsStore DEF Saves
<1>5. CASE TheTui
  BY <1>5, TuiKeepsStore DEF TheTui
<1> QED
  BY <1>2, <1>3, <1>4, <1>5 DEF TelemetryNext

LEMMA StoreInit == TelemetryInit => StoreInv
<1> SUFFICES ASSUME TelemetryInit PROVE StoreInv
  OBVIOUS
<1>1. /\ diameters.cars = <<>> /\ tui.cars = <<>> /\ saving.stage = "idle"
  BY DEF TelemetryInit, NoFile, WithCars, Closed, Idle
<1> QED
  BY <1>1, EmptyStore DEF StoreInv

\* No car of a simulator is in diameters.config twice, whatever the TUI writes
\* between the host's two readings and its own write, and however that ends
\* (save_tyre_config, tyres::save); cars aside whose name is no UTF-8, which
\* car_text saves under another.
THEOREM NoTwinsCorrect == TelemetrySpec => []NoTwins
<1>1. StoreInv => NoTwins
  BY DEF StoreInv, Twinless, NoTwins
<1> QED
  BY <1>1, StoreInit, StoreInvStep, PTL DEF TelemetrySpec

\* A written list that had every measured car of the file still has each.
LEMMA AppendKeepsMeasured ==
  ASSUME NEW cars \in Seq(Entries), NEW e
  PROVE  Measured(cars) \subseteq Measured(Append(cars, e))
<1> DEFINE more == Append(cars, e)
<1>1. \A i \in DOMAIN cars : i \in DOMAIN more /\ more[i] = cars[i]
  OBVIOUS
<1> HIDE DEF more
<1>2. Measured(cars) \subseteq Measured(more)
  BY <1>1 DEF Measured
<1> QED
  BY <1>2 DEF more

\* The host's write keeps every car a host had measured, though what it writes
\* back was read before the TUI's last write (ensure_cars, save_tyre_config).
THEOREM KeepsMeasuredCorrect == TelemetrySpec => KeepsMeasured
<1> DEFINE A == saving.stage = "write" /\ saving' = Idle /\ diameters'.kind = "cars"
                  => Measured(diameters.cars) \subseteq Measured(diameters'.cars)
<1>1. StoreInv /\ [TelemetryNext]_telemetry => [A]_tyres
  <2> SUFFICES ASSUME StoreInv, [TelemetryNext]_telemetry, saving.stage = "write",
                      saving' = Idle, diameters'.kind = "cars"
               PROVE  Measured(diameters.cars) \subseteq Measured(diameters'.cars)
    OBVIOUS
  <2>1. saving'.stage # saving.stage /\ saving # Idle
    BY DEF Idle
  <2>2. ~UNCHANGED telemetry /\ ~TheTui /\ ~GameSends
    BY <2>1 DEF telemetry, tyres, TheTui, OpenStore, EditStore, GameSends
  <2>3. WriteDiameters
    BY <2>1, <2>2 DEF TelemetryNext, ObserveAndBind, LetGo, ServeControl, Others,
                      BeginMappingT, MapFrameT, Polls, Saves, ReadToSave
  <2>4. CASE diameters' = WithCars(Append(EnsureCars(saving.read), saving.entry))
    <3>1. EnsureCars(saving.read) = saving.read.cars /\ saving.read.cars \in Seq(Entries)
      BY DEF EnsureCars, StoreInv
    <3>2. Measured(saving.read.cars) \subseteq Measured(diameters'.cars)
      BY <2>4, <3>1, AppendKeepsMeasured DEF WithCars
    <3> QED
      BY <3>2 DEF StoreInv
  <2>5. CASE diameters' = diameters
    BY <2>5
  <2>6. CASE diameters' \in {NoFile("bare"), NoFile("corrupt")}
    BY <2>6 DEF NoFile
  <2> QED
    BY <2>3, <2>4, <2>5, <2>6 DEF WriteDiameters
<1> QED
  BY <1>1, StoreInit, StoreInvStep, PTL DEF TelemetrySpec, KeepsMeasured
=============================================================================
