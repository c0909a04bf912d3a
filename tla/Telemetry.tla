------------------------------ MODULE Telemetry ------------------------------
(***************************************************************************)
(* What the discovery loop maps: the steps of PlayLoop with the view of    *)
(* SIMAPI.DAT they publish through, the packets they read, and the tyre    *)
(* check they run, beside a TUI that keeps the same diameters.config.      *)
(*                                                                         *)
(* The C library, outside this repository, is given the view at every      *)
(* detection, mapping and clearing, and with it the whole frame.           *)
(***************************************************************************)
EXTENDS PlayLoop, UdpPath, PublishMap, TyreStore

CONSTANT SlipDevices    \* devices with an effect that needs the diameters

ASSUME SlipAssumption == SlipDevices \subseteq Devices

VARIABLE sought         \* the poll looked for a simulator with its sockets bound

telemetry == <<vars, queue, record, tyres, sought>>

TelemetryTypeOK ==
    TypeOK /\ QueueTypeOK /\ PublishTypeOK /\ TyreTypeOK /\ sought \in BOOLEAN

TelemetryInit ==
    /\ Init
    /\ queue = <<>>
    /\ view = NoView /\ faulted = FALSE
    /\ diameters \in {NoFile("missing"), WithCars(<<>>)}
    /\ checked = FALSE /\ saving = Idle /\ tui = Closed /\ edits = 0
    /\ sought = TRUE

-----------------------------------------------------------------------------

\* The loop waits while the tyre check writes.
Polls == saving = Idle
Saves == (ReadToSave \/ WriteDiameters) /\ UNCHANGED <<vars, queue, record, sought>>

\* simapi_get_sim may map simd's record; so may the mapping by which
\* daemon_advancing probes the daemon.
ObserveAndBind ==
    /\ Polls
    /\ Observe
    /\ sought' = (phase = "Searching")
    /\ view' \in Left(view)
    /\ queue' = Rebound(socket, socket')
    /\ UNCHANGED <<faulted, tyres>>

\* release_configured's part of the tyre watch; simapi_sim_clear, external, may
\* close the view.
WatchReleased == checked' = FALSE /\ UNCHANGED <<diameters, saving, tui, edits>>
MayClear == view' \in Left(view) /\ UNCHANGED faulted

LetGo ==
    /\ Polls
    /\ HandleExit \/ FinishRelease \/ StopMapping
    /\ WatchReleased /\ MayClear
    /\ UNCHANGED <<queue, sought>>

ServeControl ==
    /\ Polls
    /\ Control
    /\ IF calls # <<>> /\ Head(calls) = "reload"
       THEN WatchReleased ELSE UNCHANGED tyres
    /\ UNCHANGED <<queue, record, sought>>

Others ==
    /\ Polls
    /\ Quit \/ SearchWait \/ (pc = "quit" /\ Call) \/ Terminated
    /\ UNCHANGED <<queue, record, tyres, sought>>

\* begin_mapping: a game's own mapper gets a record to publish in, and a UDP
\* game is mapped once before its first packet.
BeginMappingT ==
    /\ Polls
    /\ BeginMapping
    /\ \E v \in IF seen.api = "simd" THEN {view} ELSE Opened(view) :
          IF useUdp' THEN Datamap(seen.api, v) ELSE view' = v /\ UNCHANGED faulted
    /\ queue' = Rebound(socket, socket')
    /\ UNCHANGED <<tyres, sought>>

\* map_live; ingest.  The bridge's packets go to the frame only (apply_acr).
MapLive == Datamap(mapApi, view)
RecvUdp ==
    IF socket = NoPort \/ queue = <<>>
    THEN published' = published /\ UNCHANGED <<record, queue>>
    ELSE /\ RecvPacket
         /\ IF Route(Head(queue)) = "Datamap" THEN MapLive
            ELSE published' = published /\ UNCHANGED record

\* run_tyre_check for the frame just mapped: what the library left there of the
\* diameters, the car and simulator, and whether it coasts.
RunTyreCheck ==
    \E held, coasting \in BOOLEAN, car \in CarNames \cup {NoCar}, exe \in Exes :
        CheckTyres(held, car, exe, coasting, ~tyreActive')

\* arm_tyre_check, whose timer is due at once; afterwards every 1000 ms.
ArmAndCheck ==
    IF tyreTimer' THEN loaded' \cap SlipDevices # {} /\ RunTyreCheck
                  ELSE UNCHANGED tyres
CheckDue ==
    \/ tyreActive /\ RunTyreCheck
    \/ tyreActive' = tyreActive /\ UNCHANGED tyres

MapFrameT ==
    /\ Polls
    /\ MapFrame
    /\ IF useUdp THEN RecvUdp ELSE MapLive /\ UNCHANGED queue
    /\ IF pending THEN ArmAndCheck ELSE CheckDue
    /\ UNCHANGED sought

\* What goes on beside the loop is left to the moments before it is looked at:
\* packets come while the loop sleeps, calls before they are served, and the TUI
\* opens and writes the file before the loop reads or writes it.  Signals and
\* keys are PlayLoop's.
TheTui ==
    /\ pc \in {"act", "gone"}
    /\ OpenStore \/ EditStore
    /\ UNCHANGED <<vars, queue, record, sought>>
GameSends ==
    /\ pc = "observe" /\ socket # NoPort /\ Arrive
    /\ UNCHANGED <<vars, record, tyres, sought>>

TelemetryNext ==
    \/ ObserveAndBind \/ LetGo \/ ServeControl \/ Others \/ BeginMappingT \/ MapFrameT
    \/ Saves \/ TheTui \/ GameSends

TelemetrySpec == TelemetryInit /\ [][TelemetryNext]_telemetry

-----------------------------------------------------------------------------
(* Properties *)

\* A session that found its simulator by searching and maps it by UDP listens to
\* the port that was asked for last, whatever port an earlier simulator, or the
\* bridge, had bound; else to none.  (After a reload the poll goes on with the
\* sighting of the mapping it ended, and the old socket.)
SearchBindsPort ==
    [][pc = "act" /\ phase = "Searching" /\ phase' = "Mapping" /\ sought /\ useUdp'
         => socket' \in {requested, NoPort}]_telemetry
=============================================================================
