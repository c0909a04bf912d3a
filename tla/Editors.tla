------------------------------ MODULE Editors ------------------------------
(***************************************************************************)
(* The TUI's screens and editors, and what they save: App of               *)
(* tui/src/app.rs with form.rs, seat_sweep.rs and tui_state.rs, over the   *)
(* config file of cargopit-config.  The tests it starts are TestRun's.     *)
(*                                                                         *)
(* The editors share one config in memory, one cursor into it and one      *)
(* screen, which ticks of the program move too: telemetry of another game  *)
(* changes the flags that are shown, a finished seat sweep asks a          *)
(* question, a started session opens the log.  Indices count from one.     *)
(*                                                                         *)
(* Sessions started elsewhere are not followed (PlaySessions does): whether*)
(* play is live, and what a reload or a restart comes to, is any outcome.  *)
(***************************************************************************)
EXTENDS TestRun, HostArgs

CONSTANTS
    Entries,        \* the devices a form can be brought to hold
    BlankEntry,     \* DeviceForm::blank: a new sound device
    Templates,      \* the device lists that can be inserted
    InitialConfig,  \* the config on disk
    Names,          \* profile names
    NewName,        \* the name an added profile is given
    Flags,          \* play flags
    DefaultFlags,   \* PlayFlags::default
    NoFlags,        \* no flags are kept for a game
    Games,          \* simulator ids, and
    Idle,           \* the id of none
    Sinks,          \* what the sound server offers, in its order: names, and
                    \* whether it is a processor of another sink
    Tactile,        \* the sink of the tactile filter
    NoId,           \* an empty device identity
    MaxProfiles,    \* profiles in the config, and
    MaxDevices,     \* devices in a profile, that the user makes
    MaxChanges      \* changes the user and the games make

IsList(s) == s \in Seq(Range(s))
IsDevice(entry) == {"class", "enabled"} \subseteq DOMAIN entry
IsDevices(s) == IsList(s) /\ \A i \in DOMAIN s : IsDevice(s[i])
IsProfile(p) == p.name \in Names /\ DOMAIN p = {"name", "devices"} /\ IsDevices(p.devices)
IsConfig(c) == IsList(c) /\ c # <<>> /\ \A i \in DOMAIN c : IsProfile(c[i])

ASSUME EditorsAssumption ==
    /\ DefaultFlags \in Flags /\ NoFlags \notin Flags
    /\ Idle \in Games
    /\ NewName \in Names
    /\ IsConfig(InitialConfig) /\ \A template \in Templates : IsDevices(template)
    /\ \A entry \in Entries \cup {BlankEntry} : IsDevice(entry)
    /\ {MaxProfiles, MaxDevices, MaxChanges} \subseteq Nat

VARIABLES
    running,        \* the TUI runs
    config,         \* the profiles and their devices, in memory
    file,           \* and on disk
    state,          \* TuiState: flags, those kept by game, the game, the profile
    stateFile,      \* and on disk
    flagsOriginal,  \* the flags when their screen was opened, saved or rebound
    screen,
    previous,       \* where a refused confirmation goes back to
    form,           \* DeviceForm
    profileEdit,    \* the name typed, and the name it was
    profileIndex,
    deviceIndex,    \* may lie beyond the profile's devices
    sweep,          \* SeatSweep
    child,          \* the session the TUI started: "none", "play" or "test"
    changes         \* how many changes were made

data == <<config, file>>
settings == <<state, stateFile, flagsOriginal>>
place == <<screen, previous>>
editing == <<form, profileEdit>>
cursor == <<profileIndex, deviceIndex>>
processes == <<child, session>>
vars == <<running, data, settings, place, editing, cursor, sweep, processes, changes>>

MainTabs == {"Dashboard", "Devices", "Settings", "Telemetry", "Logs"}
Forms == {"DeviceForm", "DeviceTune"}
SettingsSubs == {"Flags", "OtherSettings"}
Confirms == {"DeleteDevice", "DeleteProfile", "RestartAfterSave", "ApplyTemplate",
             "DiscardUnsaved", "ApplyTactileFilter"}
Screens == MainTabs \cup Forms \cup SettingsSubs \cup Confirms
               \cup {"ProfileEdit", "TemplatePicker", "SeatSweep"}

EditorParent(s) ==
    CASE s \in Forms \cup {"ProfileEdit"} -> "Devices"
      [] s \in SettingsSubs -> "Settings"
      [] OTHER -> s

Profile == config[profileIndex]
Current == Profile.devices
HasDevice == deviceIndex \in DOMAIN Current

\* DeviceForm::new, is_dirty, mark_saved; schema::validate asks for an identity.
NewForm(entry, isNew) ==
    [device |-> entry, original |-> entry, isNew |-> isNew, typing |-> FALSE]
IsDirty(f) == f.device # f.original \/ f.typing
Saved(f) == [f EXCEPT !.original = f.device, !.isNew = FALSE]
Valid(entry) == entry.devid # NoId

\* flags_for, store_flags_for
FlagsFor(s, game) ==
    CASE s.byGame[game] # NoFlags -> s.byGame[game]
      [] s.byGame[game] = NoFlags /\ s.byGame[Idle] # NoFlags -> s.byGame[Idle]
      [] OTHER -> DefaultFlags
StoreFlags(s) == [s EXCEPT !.byGame[s.game] = s.flags]

NewSweep == [parent |-> "Settings", device |-> 0, sink |-> NoId, amp |-> NoId, job |-> "none",
             url |-> FALSE, typing |-> "no"]

TypeOK ==
    /\ running \in BOOLEAN
    /\ IsConfig(config) /\ IsConfig(file)
    /\ state.profile \in Nat \ {0}
    /\ {state.flags, flagsOriginal} \subseteq Flags
    /\ state.game \in Games
    /\ screen \in Screens
    /\ previous \in Screens \ Confirms
    /\ {form.isNew, form.typing} \subseteq BOOLEAN
    /\ profileEdit \in [name : Names, original : Names]
    /\ profileIndex \in DOMAIN config
    /\ deviceIndex \in Nat \ {0}
    /\ sweep.parent \in {"Settings", "DeviceTune"} /\ sweep.job \in {"none", "check", "run"}
    /\ sweep.url \in BOOLEAN /\ sweep.typing \in {"no", "url", "sink"}
    /\ screen # "SeatSweep" => sweep.job = "none"
    /\ child \in {"none", "play", "test"}
    /\ session # NoSession => child = "test"

\* App::new, from what is on disk; the cursor's profile may be gone.
FreshState == [flags |-> DefaultFlags, byGame |-> [g \in Games |-> NoFlags],
               game |-> Idle, profile |-> 1]
ClampProfileIndex(index, c) == IF index > Len(c) THEN Len(c) ELSE index

Init ==
    /\ running = TRUE
    /\ config = InitialConfig /\ file = InitialConfig
    /\ state = FreshState /\ stateFile = FreshState
    /\ flagsOriginal = DefaultFlags
    /\ screen = "Dashboard" /\ previous = "Dashboard"
    /\ form = NewForm(BlankEntry, TRUE)
    /\ profileEdit = [name |-> NewName, original |-> NewName]
    /\ profileIndex = 1 /\ deviceIndex = 1
    /\ sweep = NewSweep
    /\ child = "none" /\ session = NoSession
    /\ changes = 0

-----------------------------------------------------------------------------
(* What the handlers share *)

Change == changes < MaxChanges /\ changes' = changes + 1
On(screens) == running /\ screen \in screens
GoTo(s) == screen' = s /\ UNCHANGED previous
Open(s, from) == screen' = s /\ previous' = from
OpenConfirm(kind) == Open(kind, screen)

\* persist_config, tui_state::save: both replace the file or leave it; a
\* failure is a message.
PersistConfig(c) == config' = c /\ file' \in {c, file}
PersistState(s) == state' = s /\ stateFile' \in {s, stateFile}
SelectProfile(index) ==
    /\ profileIndex' = index
    /\ PersistState([state EXCEPT !.profile = index])
    /\ UNCHANGED flagsOriginal

SetDevices(devices) == [config EXCEPT ![profileIndex].devices = devices]

\* WrapIndex over 1 .. n; a stale index is brought back.
WrapIndex(index, n, delta) == ((index - 1 + delta) % n) + 1

KillTracked == child' = "none" /\ session' = NoSession

\* restart_play, spawn_play_session: what runs is stopped; a session that
\* starts opens the log.
Restarted(s) ==
    \/ /\ Spawned("play", state.flags, [profile |-> profileIndex, device |-> 0]).action = "play"
       /\ child' = "play" /\ session' = NoSession /\ screen' = "Logs"
    \/ KillTracked /\ screen' = s

\* apply_saved_profile, from a handler that shows s.
ApplySavedProfile(s) ==
    \/ child # "play" /\ UNCHANGED processes /\ screen' = s     \* nothing is live
    \/ UNCHANGED processes /\ screen' = s                       \* reloaded
    \/ Restarted(s)

\* launch_test: the new process reads the config that is on disk by then.
LaunchTest(scope, onDisk, asked) ==
    LET parsed == Spawned("test", state.flags, scope) IN
    \/ /\ parsed.action = "test"
       /\ child' = "test"
       /\ session' = StartedTest(onDisk, parsed.configIndex, parsed.deviceIndex,
                                 parsed.disableAudio, asked)
    \/ KillTracked

-----------------------------------------------------------------------------
(* The main tabs *)

\* switch_tab_key
SwitchTab ==
    /\ On(MainTabs)
    /\ \E tab \in MainTabs : tab # screen /\ GoTo(tab)
    /\ UNCHANGED <<running, data, settings, editing, cursor, sweep, processes, changes>>

CycleProfile ==
    /\ On(MainTabs) /\ Change
    /\ Len(config) > 1
    /\ \E delta \in {-1, 1} : SelectProfile(WrapIndex(profileIndex, Len(config), delta))
    /\ deviceIndex' = 1
    /\ UNCHANGED <<running, data, place, editing, sweep, processes>>

\* run_dashboard_action: Start, Restart and Stop; Start may find play live.
StartPlay ==
    /\ On({"Dashboard"}) /\ child # "play"
    /\ Restarted(screen) \/ (screen' = screen /\ UNCHANGED processes)
    /\ UNCHANGED <<running, data, settings, previous, editing, cursor, sweep, changes>>
RestartPlay ==
    /\ On({"Dashboard"}) /\ Restarted(screen)
    /\ UNCHANGED <<running, data, settings, previous, editing, cursor, sweep, changes>>
StopAll ==
    /\ On({"Dashboard"}) /\ child # "none" /\ KillTracked
    /\ UNCHANGED <<running, data, settings, place, editing, cursor, sweep, changes>>

\* request_test: the key that starts a test stops the one that runs.
RequestTest(scope) ==
    IF child = "test" THEN KillTracked /\ screen' = screen
    ELSE LaunchTest(scope, file, <<>>)
            /\ screen' = IF child' = "test" THEN "Logs" ELSE screen
\* toggle_test names no profile, whichever is under the cursor; start_device_test
\* names both.
DeviceScope(device) == [profile |-> profileIndex, device |-> device]
ToggleTest ==
    /\ On({"Dashboard"}) /\ Change /\ RequestTest(DefaultScope)
    /\ UNCHANGED <<running, data, settings, previous, editing, cursor, sweep>>
StartDeviceTest ==
    /\ On({"Devices"}) /\ Change /\ RequestTest(DeviceScope(deviceIndex))
    /\ UNCHANGED <<running, data, settings, previous, editing, cursor, sweep>>
StopTestFromLogs ==
    /\ On({"Logs"}) /\ child = "test" /\ KillTracked
    /\ UNCHANGED <<running, data, settings, place, editing, cursor, sweep, changes>>

-----------------------------------------------------------------------------
(* The list of devices *)

MoveDevice ==
    /\ On({"Devices"}) /\ Current # <<>>
    /\ \E delta \in {-1, 1} : deviceIndex' = WrapIndex(deviceIndex, Len(Current), delta)
    /\ UNCHANGED <<running, data, settings, place, editing, profileIndex, sweep, processes, changes>>

\* swap panics where the index is stale: the TUI ends.
ReorderDevice ==
    /\ On({"Devices"}) /\ Change /\ Current # <<>>
    /\ \E delta \in {-1, 1} :
          LET next == WrapIndex(deviceIndex, Len(Current), delta) IN
          IF HasDevice
          THEN /\ PersistConfig(SetDevices([Current EXCEPT ![deviceIndex] = Current[next],
                                                           ![next] = Current[deviceIndex]]))
               /\ deviceIndex' = next
               /\ UNCHANGED running
          ELSE running' = FALSE /\ UNCHANGED <<data, deviceIndex>>
    /\ UNCHANGED <<settings, place, editing, profileIndex, sweep, processes>>

ToggleEnabled ==
    /\ On({"Devices"}) /\ Change /\ HasDevice
    /\ PersistConfig(SetDevices([Current EXCEPT ![deviceIndex].enabled = ~@]))
    /\ UNCHANGED <<running, settings, place, editing, cursor, sweep, processes>>

DuplicateDevice ==
    /\ On({"Devices"}) /\ Change /\ HasDevice /\ Len(Current) < MaxDevices
    /\ PersistConfig(SetDevices(InsertAt(Current, deviceIndex + 1, Current[deviceIndex])))
    /\ deviceIndex' = deviceIndex + 1
    /\ UNCHANGED <<running, settings, place, editing, profileIndex, sweep, processes>>

\* open_new_form; open_edit_form, open_tune
OpenNewForm ==
    /\ On({"Devices"}) /\ Len(Current) < MaxDevices
    /\ form' = NewForm(BlankEntry, TRUE)
    /\ Open("DeviceForm", "Devices")
    /\ UNCHANGED <<running, data, settings, profileEdit, cursor, sweep, processes, changes>>
OpenEditor ==
    /\ On({"Devices"}) /\ HasDevice
    /\ form' = NewForm(Current[deviceIndex], FALSE)
    /\ \E editor \in Forms : Open(editor, "Devices")
    /\ UNCHANGED <<running, data, settings, profileEdit, cursor, sweep, processes, changes>>

OpenTemplates ==
    /\ On({"Devices"}) /\ Open("TemplatePicker", "Devices")
    /\ UNCHANGED <<running, data, settings, editing, cursor, sweep, processes, changes>>
OpenProfileEdit ==
    /\ On({"Devices"}) /\ Open("ProfileEdit", "Devices")
    /\ profileEdit' = [name |-> Profile.name, original |-> Profile.name]
    /\ UNCHANGED <<running, data, settings, form, cursor, sweep, processes, changes>>
AskToDelete ==
    /\ On({"Devices"})
    /\ \E kind \in {"DeleteDevice", "DeleteProfile"} : OpenConfirm(kind)
    /\ UNCHANGED <<running, data, settings, editing, cursor, sweep, processes, changes>>

-----------------------------------------------------------------------------
(* The device form and its tuning *)

Editing == On(Forms) /\ ~form.typing

\* Keys that cycle, nudge, toggle, retype or clear a field; and typed text.
EditField ==
    /\ Editing /\ Change
    /\ \E entry \in Entries \ {form.device} : form' = [form EXCEPT !.device = entry]
    /\ UNCHANGED <<running, data, settings, place, profileEdit, cursor, sweep, processes>>
BeginEdit ==
    /\ Editing /\ Change
    /\ form' = [form EXCEPT !.typing = TRUE]
    /\ UNCHANGED <<running, data, settings, place, profileEdit, cursor, sweep, processes>>
EndEdit ==
    /\ On(Forms) /\ form.typing
    /\ \E entry \in Entries \cup {form.device} :
          form' = [form EXCEPT !.device = entry, !.typing = FALSE]
    /\ UNCHANGED <<running, data, settings, place, profileEdit, cursor, sweep, processes, changes>>

FaultCursorStays ==
    /\ Valid(form.device)
    /\ PersistConfig(SetDevices(
          CASE form.isNew -> Append(Current, form.device)
            [] ~form.isNew /\ HasDevice -> [Current EXCEPT ![deviceIndex] = form.device]
            [] OTHER -> Current))
    /\ deviceIndex' = deviceIndex
    /\ form' = Saved(form)
    /\ UNCHANGED <<running, settings, profileEdit, profileIndex, sweep>>

\* commit_form: a new device goes last and under the cursor, another into the
\* slot it came from.
CommitForm ==
    /\ Valid(form.device)
    /\ PersistConfig(SetDevices(
          CASE form.isNew -> Append(Current, form.device)
            [] ~form.isNew /\ HasDevice -> [Current EXCEPT ![deviceIndex] = form.device]
            [] OTHER -> Current))
    /\ deviceIndex' = IF form.isNew THEN Len(Current) + 1 ELSE deviceIndex
    /\ form' = Saved(form)
    /\ UNCHANGED <<running, settings, profileEdit, profileIndex, sweep>>

\* save_form leaves, and asks about a live session.
SaveForm ==
    /\ Editing /\ CommitForm
    /\ \/ child # "play" /\ GoTo("Devices")
       \/ Open("RestartAfterSave", "Devices")
    /\ UNCHANGED <<processes, changes>>

\* KEY_APPLY: save_form, with its question, and apply_saved_profile.
ApplyTune ==
    /\ Editing /\ screen = "DeviceTune" /\ CommitForm
    /\ \/ child # "play" /\ GoTo("Devices") /\ UNCHANGED processes
       \/ /\ previous' = "Devices"
          /\ (screen' = "RestartAfterSave" /\ UNCHANGED processes) \/ Restarted("RestartAfterSave")
    /\ UNCHANGED changes

\* start_editor_test saves and stays.
StopFormTest ==
    /\ Editing /\ child = "test" /\ KillTracked
    /\ UNCHANGED <<running, data, settings, place, editing, cursor, sweep, changes>>
TestForm ==
    /\ Editing /\ child # "test" /\ Change
    /\ CommitForm
    /\ LaunchTest(DeviceScope(deviceIndex'), file', IF file' = config' THEN <<form.device>> ELSE <<>>)
    /\ UNCHANGED place

\* current_editor_dirty, leave_or_confirm_discard
EditorDirty ==
    \/ screen \in Forms /\ IsDirty(form)
    \/ screen = "ProfileEdit" /\ profileEdit.name # profileEdit.original
    \/ screen = "Flags" /\ state.flags # flagsOriginal
LeaveOrConfirmDiscard ==
    /\ On(Forms \cup SettingsSubs \cup {"ProfileEdit"})
    /\ ~(screen \in Forms /\ form.typing)
    /\ IF EditorDirty THEN OpenConfirm("DiscardUnsaved") ELSE GoTo(EditorParent(screen))
    /\ UNCHANGED <<running, data, settings, editing, cursor, sweep, processes, changes>>

-----------------------------------------------------------------------------
(* Profiles and templates *)

TypeName ==
    /\ On({"ProfileEdit"}) /\ Change
    /\ \E name \in Names \ {profileEdit.name} : profileEdit' = [profileEdit EXCEPT !.name = name]
    /\ UNCHANGED <<running, data, settings, place, form, cursor, sweep, processes>>

\* KEY_ADD and KEY_DUPLICATE, letters of a name too: the typed name goes, the
\* cursor's device stays where it was.
AddProfile ==
    /\ On({"ProfileEdit"}) /\ Change /\ Len(config) < MaxProfiles
    /\ \E added \in {[name |-> NewName, devices |-> <<>>], Profile} :
          PersistConfig(Append(config, added))
    /\ SelectProfile(Len(config) + 1)
    /\ GoTo("Devices")
    /\ UNCHANGED <<running, editing, deviceIndex, sweep, processes>>
SaveProfile ==
    /\ On({"ProfileEdit"})
    /\ PersistConfig([config EXCEPT ![profileIndex].name = profileEdit.name])
    /\ GoTo("Devices")
    /\ UNCHANGED <<running, settings, editing, cursor, sweep, processes, changes>>

PickTemplate ==
    /\ On({"TemplatePicker"})
    /\ OpenConfirm("ApplyTemplate") \/ GoTo("Devices")
    /\ UNCHANGED <<running, data, settings, editing, cursor, sweep, processes, changes>>

-----------------------------------------------------------------------------
(* Settings *)

\* The flags shown become the ones to compare with.
OpenSettingsSub ==
    /\ On({"Settings"})
    /\ \E sub \in SettingsSubs :
          /\ Open(sub, "Settings")
          /\ flagsOriginal' = IF sub = "Flags" THEN state.flags ELSE flagsOriginal
    /\ UNCHANGED <<running, data, state, stateFile, editing, cursor, sweep, processes, changes>>

NudgeFlag ==
    /\ On({"Flags"}) /\ Change
    /\ \E flags \in Flags \ {state.flags} : state' = [state EXCEPT !.flags = flags]
    /\ UNCHANGED <<running, data, stateFile, flagsOriginal, place, editing, cursor, sweep, processes>>

\* A save that fails keeps the flags, and the screen unsaved.
SaveFlags ==
    /\ On({"Flags"})
    /\ state' = StoreFlags(state)
    /\ \/ stateFile' = state' /\ flagsOriginal' = state.flags
       \/ UNCHANGED <<stateFile, flagsOriginal>>
    /\ UNCHANGED <<running, data, place, editing, cursor, sweep, processes, changes>>

FaultBind(s, game) == [s EXCEPT !.game = game, !.flags = FlagsFor(s, game)]
\* bind_settings_to_live_game, at any tick: the flags on the screen are kept
\* for the game that left, saved or not.
Bind(s, game) == [StoreFlags(s) EXCEPT !.game = game, !.flags = FlagsFor(StoreFlags(s), game)]
BindSettings ==
    /\ running /\ Change
    /\ \E live \in Games \ {state.game} : state' = Bind(state, live)
    /\ flagsOriginal' = state'.flags
    /\ UNCHANGED <<running, data, stateFile, place, editing, cursor, sweep, processes>>

-----------------------------------------------------------------------------
(* The seat sweep *)

IsSound(entry) == entry.class = "Sound"
Usable(entry) == IsSound(entry) /\ entry.devid \notin {NoId, Tactile}

\* The sinks to measure on: processors and the tactile filter are left out,
\* where that leaves any.
IsAmplifierSink(sink) == sink.name # Tactile /\ ~sink.processor
AmplifierSinks ==
    LET hardware == SelectSeq(Sinks, IsAmplifierSink) IN
    IF hardware # <<>> THEN hardware
    ELSE SelectSeq(Sinks, LAMBDA sink : sink.name # Tactile)

\* sound_index: 0 for none; default_amp_sink
SoundIndex(devices, selected) ==
    LET sounds == {i \in DOMAIN devices : IsSound(devices[i])} IN
    CASE selected \in sounds -> selected
      [] selected \notin sounds /\ sounds # {} -> Min(sounds)
      [] OTHER -> 0
DefaultAmpSink(devices, selected) ==
    LET usable == {i \in DOMAIN devices : Usable(devices[i])} IN
    CASE selected \in usable -> devices[selected].devid
      [] selected \notin usable /\ usable # {} -> devices[Min(usable)].devid
      [] OTHER -> IF AmplifierSinks = <<>> THEN NoId ELSE AmplifierSinks[1].name

\* open_seat_sweep, prepare: the phone's URL stays from the last sweep.
OpenSweep(parent) ==
    LET device == SoundIndex(Current, deviceIndex)
        sink == DefaultAmpSink(Current, device) IN
    /\ Open("SeatSweep", parent)
    /\ sweep' = [NewSweep EXCEPT !.parent = parent, !.device = device,
                                 !.sink = sink, !.amp = sink, !.url = sweep.url]
    /\ UNCHANGED <<running, data, settings, editing, cursor, processes, changes>>
SweepFromTune == Editing /\ screen = "DeviceTune" /\ IsSound(form.device) /\ OpenSweep("DeviceTune")
SweepFromSettings == On({"Settings"}) /\ OpenSweep("Settings")

\* While text is typed every key belongs to it.
Sweeping == On({"SeatSweep"}) /\ sweep.typing = "no"

CycleSink ==
    /\ Sweeping /\ Change
    /\ AmplifierSinks # <<>>
    /\ \E delta \in {-1, 1} :
          LET current == {i \in DOMAIN AmplifierSinks : AmplifierSinks[i].name = sweep.sink}
              next == IF current = {} THEN 1
                      ELSE WrapIndex(Min(current), Len(AmplifierSinks), delta)
          IN  sweep' = [sweep EXCEPT !.sink = AmplifierSinks[next].name]
    /\ UNCHANGED <<running, data, settings, place, editing, cursor, processes>>

\* begin_edit; commit_edit, where the text may be empty or no sink's name, and
\* cancel_edit. A job goes on meanwhile.
BeginSweepEdit ==
    /\ Sweeping
    /\ \/ sweep' = [sweep EXCEPT !.typing = "url"] /\ UNCHANGED changes
       \/ sweep' = [sweep EXCEPT !.typing = "sink"] /\ Change
    /\ UNCHANGED <<running, data, settings, place, editing, cursor, processes>>
EndSweepEdit ==
    /\ On({"SeatSweep"}) /\ sweep.typing # "no"
    /\ \/ sweep' = [sweep EXCEPT !.typing = "no"]
       \/ /\ sweep.typing = "url"
          /\ \E given \in BOOLEAN : sweep' = [sweep EXCEPT !.typing = "no", !.url = given]
       \/ /\ sweep.typing = "sink"
          /\ \E sink \in {NoId} \cup {Sinks[i].name : i \in DOMAIN Sinks} :
                sweep' = [sweep EXCEPT !.typing = "no", !.sink = sink]
    /\ UNCHANGED <<running, data, settings, place, editing, cursor, processes, changes>>

\* start_job refuses while one runs, without a URL, and a run without a sink.
MayStart(kind) == sweep.job = "none" /\ sweep.url /\ (kind = "run" => sweep.sink # NoId)
\* start_check, start_run: a run takes the sink to apply even if it is refused,
\* or the script does not start.
StartSweepJob ==
    /\ Sweeping /\ Change
    /\ \E kind \in {"check", "run"} :
          LET asked == [sweep EXCEPT !.amp = IF kind = "run" THEN sweep.sink ELSE @] IN
          \/ sweep' = asked
          \/ MayStart(kind) /\ sweep' = [asked EXCEPT !.job = kind]
    /\ UNCHANGED <<running, data, settings, place, editing, cursor, processes>>

\* poll of a script that ended or cannot be waited for; abort_job
WithoutJob(s) == [s EXCEPT !.job = "none"]

\* Esc stops a job before it leaves.
LeaveSweep ==
    /\ Sweeping
    /\ IF sweep.job # "none" THEN sweep' = WithoutJob(sweep) /\ UNCHANGED place
       ELSE GoTo(sweep.parent) /\ UNCHANGED sweep
    /\ UNCHANGED <<running, data, settings, editing, cursor, processes, changes>>

\* drain_seat_sweep: a measured seat asks whether to apply the filter, over
\* whatever is being typed.
SweepEnds ==
    /\ running /\ sweep.job # "none"
    /\ sweep' = WithoutJob(sweep)
    /\ \E succeeded \in BOOLEAN :
          IF succeeded /\ sweep.job = "run" THEN OpenConfirm("ApplyTactileFilter")
          ELSE UNCHANGED place
    /\ UNCHANGED <<running, data, settings, editing, cursor, processes, changes>>

\* retarget_sound_devices
Retargeted(devices) ==
    {i \in DOMAIN devices :
        /\ IsSound(devices[i])
        /\ \/ sweep.amp # NoId /\ devices[i].devid = sweep.amp
           \/ sweep.device = i}
Retarget(devices) ==
    [i \in DOMAIN devices |-> IF i \in Retargeted(devices)
                              THEN [devices[i] EXCEPT !.devid = Tactile] ELSE devices[i]]
\* write_filter_chain needs a sink to play to.
MayWriteFilter == sweep.amp # NoId
\* The question goes back to the sweep whatever became of the filter: its
\* script may fail, or the sound server not restart (only a message).
ApplyTactileFilter ==
    /\ \/ UNCHANGED <<data, processes>>                     \* the filter was not written
       \/ /\ MayWriteFilter
          /\ PersistConfig(SetDevices(Retarget(Current)))
          /\ \/ UNCHANGED processes
             \/ Retargeted(Current) # {} /\ KillTracked
             \/ Retargeted(Current) # {} /\ child' = "play" /\ session' = NoSession
    /\ screen' = "SeatSweep"
    /\ UNCHANGED <<settings, cursor>>

-----------------------------------------------------------------------------
(* Confirmations *)

DeleteDevice ==
    /\ PersistConfig(SetDevices(IF HasDevice THEN RemoveAt(Current, deviceIndex) ELSE Current))
    /\ deviceIndex' = Max({deviceIndex - 1, 1})
    /\ screen' = "Devices"
    /\ UNCHANGED <<settings, profileIndex, processes>>

\* The last profile stays; the device the cursor was on is not looked at.
DeleteProfile ==
    /\ IF Len(config) > 1
       THEN /\ PersistConfig(RemoveAt(config, profileIndex))
            /\ SelectProfile(Max({profileIndex - 1, 1}))
       ELSE UNCHANGED <<data, settings, profileIndex>>
    /\ screen' = "Devices"
    /\ UNCHANGED <<deviceIndex, processes>>

\* A restart opens the log, and the confirmation the devices again.
RestartAfterSave ==
    /\ \/ UNCHANGED processes
       \/ KillTracked
       \/ child' = "play" /\ session' = NoSession
    /\ screen' = "Devices"
    /\ UNCHANGED <<data, settings, cursor>>

ApplyTemplate ==
    /\ \E template \in Templates :
          /\ Len(Current) + Len(template) <= MaxDevices
          /\ PersistConfig(SetDevices(Current \o template))
    /\ screen' = "Devices"
    /\ UNCHANGED <<settings, cursor, processes>>

DiscardUnsaved ==
    /\ state' = IF previous = "Flags" THEN [state EXCEPT !.flags = flagsOriginal] ELSE state
    /\ screen' = EditorParent(previous)
    /\ UNCHANGED <<data, stateFile, flagsOriginal, cursor, processes>>

\* apply_confirm, and where handle_confirm goes on.
ConfirmYes ==
    /\ running /\ Change
    /\ \/ screen = "DeleteDevice" /\ DeleteDevice
       \/ screen = "DeleteProfile" /\ DeleteProfile
       \/ screen = "RestartAfterSave" /\ RestartAfterSave
       \/ screen = "ApplyTemplate" /\ ApplyTemplate
       \/ screen = "DiscardUnsaved" /\ DiscardUnsaved
       \/ screen = "ApplyTactileFilter" /\ ApplyTactileFilter
    /\ UNCHANGED <<running, previous, editing, sweep>>
ConfirmNo ==
    /\ On(Confirms)
    /\ GoTo(previous)
    /\ UNCHANGED <<running, data, settings, editing, cursor, sweep, processes, changes>>

-----------------------------------------------------------------------------
(* The program *)

\* drain_child; a test's process plays on by itself.
ChildEnds ==
    /\ running /\ child # "none"
    /\ child = "test" => session.finished
    /\ KillTracked
    /\ UNCHANGED <<running, data, settings, place, editing, cursor, sweep, changes>>
TestPlays ==
    /\ child = "test" /\ TestPlaysOut
    /\ UNCHANGED <<running, data, settings, place, editing, cursor, sweep, child, changes>>

\* q on a main tab; a session it started goes on, another TUI does not know it.
Quit ==
    /\ On(MainTabs) /\ Change
    /\ running' = FALSE
    /\ UNCHANGED <<data, settings, place, editing, cursor, sweep, processes>>
StartTui ==
    /\ ~running
    /\ running' = TRUE
    /\ config' = file /\ file' = file
    /\ state' = stateFile /\ stateFile' = stateFile
    /\ flagsOriginal' = stateFile.flags
    /\ screen' = "Dashboard" /\ previous' = "Dashboard"
    /\ form' = NewForm(BlankEntry, TRUE)
    /\ profileIndex' = ClampProfileIndex(stateFile.profile, file) /\ deviceIndex' = 1
    /\ sweep' = NewSweep
    /\ KillTracked
    /\ UNCHANGED <<profileEdit, changes>>

Next ==
    \/ SwitchTab \/ CycleProfile \/ StartPlay \/ RestartPlay \/ StopAll
    \/ ToggleTest \/ StartDeviceTest \/ StopTestFromLogs
    \/ MoveDevice \/ ReorderDevice \/ ToggleEnabled \/ DuplicateDevice
    \/ OpenNewForm \/ OpenEditor \/ OpenTemplates \/ OpenProfileEdit \/ AskToDelete
    \/ EditField \/ BeginEdit \/ EndEdit \/ SaveForm \/ ApplyTune \/ StopFormTest \/ TestForm
    \/ LeaveOrConfirmDiscard
    \/ TypeName \/ AddProfile \/ SaveProfile \/ PickTemplate
    \/ OpenSettingsSub \/ NudgeFlag \/ SaveFlags \/ BindSettings
    \/ SweepFromTune \/ SweepFromSettings \/ CycleSink
    \/ BeginSweepEdit \/ EndSweepEdit \/ StartSweepJob \/ LeaveSweep \/ SweepEnds
    \/ ConfirmYes \/ ConfirmNo
    \/ ChildEnds \/ TestPlays \/ Quit \/ StartTui

Spec == Init /\ [][Next]_vars

-----------------------------------------------------------------------------
(* Properties *)

\* A form is open while its screen is, or one that comes back to it.
FormOpen ==
    \/ screen \in Forms
    \/ screen = "DiscardUnsaved" /\ previous \in Forms
    \/ screen \in {"SeatSweep", "ApplyTactileFilter"} /\ sweep.parent = "DeviceTune"
UnsavedForm == running /\ FormOpen /\ form.device # form.original
UnsavedFlags == running /\ state.flags # flagsOriginal

\* What the form holds under the cursor.
FormIsStored ==
    deviceIndex \in DOMAIN Current /\ Current[deviceIndex] = form.device

ConfirmedDiscard == screen = "DiscardUnsaved" /\ screen' = EditorParent(previous)

FormSurvives ==
    UnsavedForm =>
        \/ UnsavedForm' /\ form' = form
        \/ screen \in Forms /\ screen' = screen /\ form'.original = form.original
        \/ FormIsStored' /\ form'.device = form.device
        \/ ConfirmedDiscard
FlagsSurvive ==
    UnsavedFlags =>
        \/ UnsavedFlags' /\ <<state.game, flagsOriginal>>' = <<state.game, flagsOriginal>>
        \/ screen = "Flags" /\ state'.flags = flagsOriginal
        \/ state'.byGame[state.game] = state.flags
        \/ ConfirmedDiscard
\* Text that is typed into the sweep ends with the keys that end it.
TextSurvives ==
    running /\ sweep.typing # "no" =>
        \/ sweep'.typing = sweep.typing
        \/ screen = "SeatSweep" /\ screen' = "SeatSweep" /\ sweep'.job = sweep.job

\* "Unsaved changes. Discard without saving? y/n" (tui/src/consts.rs:865):
\* whatever ticks, sweeps, tests and restarts do meanwhile, what was edited in
\* the device form or in the play flags and is not saved goes away only into
\* the config in memory or the flags kept for the game, or by that question.
\* What the TUI holds is meant, not the file: after a save that fails the form
\* counts as saved too, and the TUI started again finds the old entry.
EditsSurvive == [][FormSurvives /\ FlagsSurvive /\ TextSurvives]_vars

\* The effects of a test go that far.
InReach(entry) == entry.threshold < 40

\* A test that the form asked for plays what the form held, once it is on disk:
\* that device alone, switched on (start_editor_test, selected_test_config).
AskedIsLoaded ==
    session.asked # <<>> =>
        LET entry == [session.asked[1] EXCEPT !.enabled = TRUE]
            muted == IsSound(entry) /\ \A s \in Range(session.plan.subjects) : ~s.active
        IN  session.plan.focused /\ session.loaded = (IF muted THEN <<>> ELSE <<entry>>)

\* A test started from the form plays that device, though cursor, list and file
\* may have moved since it was opened; and by the end of any test each device that
\* it loaded has shown its effect, also those of the profile that the dashboard's
\* test plays, the host's default (toggle_test, plan, run_one).
TestPlaysSaved ==
    /\ AskedIsLoaded
    /\ session.finished =>
          \A i \in DOMAIN session.loaded : InReach(session.loaded[i]) => i \in session.shown
=============================================================================
