---------------------------- MODULE DeviceOutput ----------------------------
(***************************************************************************)
(* What a device shows of the frames it was ticked with: the write_*       *)
(* methods of LoadedDevices, tick and release of                           *)
(* crates/cargopit/src/devices.rs, for one device of any kind.             *)
(*                                                                         *)
(* A report may be lost on its way (a short write, a cable, a device that  *)
(* does not answer); most writers do not look.  Some drivers send every    *)
(* frame and so repair a loss with the next; pedals, serial motors and the *)
(* Moza wheels send only what changed, by what they remember.  A channel   *)
(* whose last report did not arrive shows Unknown: what it kept showing is *)
(* left out.                                                               *)
(***************************************************************************)
EXTENDS DeviceReports, MozaWheel, TachWizard

CONSTANTS
    Devices,        \* the configured devices
    Frames,         \* the telemetry a simulator may give
    OffFrame,       \* Telemetry::new(): a frame of zeros
    Scripts,        \* what a device's script may do at a tick
    MaxLost,        \* reports of one write that may be lost, when not all are
    Unknown         \* what a channel shows that was not told, or told in vain

Pedals == {"Csl", "P1000", "SimNet"}
ScriptedKinds == {"C12Lua", "GtNeo", "SimLedCustom", "ArduinoCustom"}
Kinds == Pedals \cup ScriptedKinds
            \cup {"Tach", "G29", "C5", "C12", "ShiftLights", "SimWind", "SimLed",
                  "SerialHaptic", "MozaR5", "MozaKs", "MozaNew", "Sound"}

\* Telemetry, as far as the writers read it: speeds, pedals and slip rounded.
Frame == [rpms : Nat, maxrpm : Nat, idlerpm : Nat, velocity : Nat, gear : Nat, pulses : Nat,
          flag : {"none", "yellow"}, active : BOOLEAN, brake : Nat, gas : Nat,
          abs : BOOLEAN, slip : [Wheels -> Int], diameters : BOOLEAN,
          wheelspeed : [Wheels -> Int], forward : Int, sideways : Int,
          temps : [Wheels -> Int], acr : BOOLEAN, dirt2 : BOOLEAN]
\* A configured device, as the host has read it: read_granularity refuses any
\* other granularity, and a threshold is not below zero.
Device == [kind : Kinds, effect : VibrationEffects, armed : BOOLEAN,
           tyres : SUBSET Wheels, threshold : Nat, motor : Int, amp : Nat,
           total : Int, startled : Int, endled : Int, lights : Int,
           granularity : {0, 1, 2, 4}, usePulses : BOOLEAN,
           frequency : Nat, frequencyMax : Nat]

ASSUME DeviceOutputAssumption ==
    /\ MaxLost \in Nat
    /\ Devices \subseteq Device /\ Frames \subseteq Frame
    /\ OffFrame \in Frame /\ ~OffFrame.active
    /\ Unknown \notin 0 .. LedCount

VARIABLES
    entry,      \* the device
    phase,      \* "closed", "opened", "ticked" or "released"
    last,       \* of the last tick's frame: in play, moving, rolling; a
                \* tachometer's rpm
    mem,        \* what its driver remembers
    shows       \* what it shows, by channel

device == <<entry, phase, last, mem, shows>>
vars == <<device, tach>>

Seen(f) ==
    [active |-> f.active, moving |-> CarIsMoving(f), rolling |-> ChassisIsRolling(f),
     rpms |-> IF entry.kind = "Tach" THEN f.rpms ELSE 0]

Channels(e) ==
    CASE e.kind = "Tach" -> {"needle"}
      [] e.kind = "G29" -> {"leds"}
      [] e.kind = "C5" -> {"leds", "velocity", "gear"}
      [] e.kind = "C12" -> {"percent", "velocity", "gear"}
      [] e.kind = "C12Lua" -> C12First + 1 .. C12Leds
      [] e.kind = "GtNeo" -> 0 .. GtLeds
      [] e.kind \in {"SimLed", "SimLedCustom"} -> 1 .. e.total
      [] e.kind = "Csl" -> {"rumble"}
      [] e.kind = "P1000" -> {"slip", "lock"}
      [] e.kind = "SimNet" -> {"motor"}
      [] e.kind = "ShiftLights" -> {"lights"}
      [] e.kind = "SimWind" -> {"fan"}
      [] e.kind = "SerialHaptic" -> BoardMotors
      [] e.kind = "ArduinoCustom" -> {"message"}
      [] e.kind = "MozaR5" -> {"bar"}
      [] e.kind = "MozaKs" -> {"left", "right", "bar", "flagLeds"}
      [] e.kind = "MozaNew" ->
            {"settings", "bar", "corners", "buttons", "mask"}
      [] e.kind = "Sound" -> {}

\* The drivers' memories: a pedal's state, a board's scaled play, a wheel's
\* last flag, the R9's MozaNew, a voice, a script's Message, a tachometer's
\* table; others have none.
NewMem(e) ==
    CASE e.kind \in Pedals -> [state |-> 0, filter |-> FreshFilter]
      [] e.kind = "SerialHaptic" -> [scaled |-> 0, filter |-> FreshFilter]
      [] e.kind \in ScriptedKinds -> [message |-> NoMessage]
      [] e.kind = "MozaKs" -> [flag |-> "unset"]
      [] e.kind = "MozaNew" -> PrepareMoza.state
      [] e.kind = "Sound" -> NewVoice(e)
      [] e.kind = "Tach" -> [points |-> <<>>, spacing |-> 0]
      [] OTHER -> [none |-> TRUE]

MemTypeOK(e, m) ==
    CASE e.kind \in Pedals -> m \in [state : Nat, filter : Filter]
      [] e.kind = "SerialHaptic" -> m \in [scaled : 0 .. 100, filter : Filter]
      [] e.kind \in ScriptedKinds -> DOMAIN m = {"message"}
      [] e.kind = "MozaKs" -> m \in [flag : {"unset", "none", "yellow"}]
      [] e.kind = "MozaNew" -> m \in MozaState
      [] e.kind = "Sound" -> m \in Voice
      [] e.kind = "Tach" -> m.spacing \in {0, 1, 2, 4}
      [] OTHER -> m = [none |-> TRUE]

TypeOK ==
    /\ entry \in Devices
    /\ phase \in {"closed", "opened", "ticked", "released"}
    /\ last \in [active : BOOLEAN, moving : BOOLEAN, rolling : BOOLEAN, rpms : Nat]
    /\ MemTypeOK(entry, mem)
    /\ DOMAIN shows = Channels(entry)
    /\ TachTypeOK

Init ==
    /\ entry \in Devices
    /\ phase = "closed"
    /\ last = Seen(OffFrame)
    /\ mem = NewMem(entry)
    /\ shows = [c \in Channels(entry) |-> Unknown]
    /\ TachInit

-----------------------------------------------------------------------------
(* Writing reports *)

\* The sets of reports that may arrive when n are sent.
Arrivals(n) ==
    {{}} \cup {(1 .. n) \ lost : lost \in UNION {kSubset(k, 1 .. n) : k \in 0 .. Low(MaxLost, n)}}

\* write_port, write_serial_frame: what arrived is shown.
Deliver(reports, arrived) ==
    LET sent(c) == {i \in DOMAIN reports : c \in DOMAIN reports[i]}
    IN  shows' = [c \in DOMAIN shows |->
                    CASE sent(c) = {} -> shows[c]
                      [] sent(c) # {} /\ Max(sent(c)) \in arrived -> reports[Max(sent(c))][c]
                      [] sent(c) # {} /\ Max(sent(c)) \notin arrived -> Unknown]

Ticking(kinds, f) ==
    /\ phase \in {"opened", "ticked"}
    /\ entry.kind \in kinds
    /\ phase' = "ticked"
    /\ last' = Seen(f)
    /\ entry' = entry

\* A device that is told everything at every tick.
Told(kind, f, reports) ==
    /\ Ticking({kind}, f)
    /\ \E arrived \in Arrivals(Len(reports)) : Deliver(reports, arrived)
    /\ mem' = mem

\* tach_sample, write_tach
TachReports(f) ==
    IF entry.kind = "Tach" /\ CanShow(entry, mem.points)
    THEN <<RevburnerReport(TachPulses(f, entry, mem.points))>> ELSE <<>>
WriteTach == \E f \in Frames : Told("Tach", f, TachReports(f))
WriteG29 == \E f \in Frames : Told("G29", f, <<G29Report(f.rpms, f.maxrpm)>>)
WriteC5 ==
    \E f \in Frames : Told("C5", f, <<C5Report(f.rpms, f.maxrpm, f.gear, f.velocity)>>)
WriteC12 == \E f \in Frames : Told("C12", f, <<C12Report(f)>>)
WriteShiftlights ==
    \E f \in Frames : Told("ShiftLights", f, <<ShiftlightsByte(f, entry.lights)>>)
WriteSimwind == \E f \in Frames : Told("SimWind", f, <<SimwindReport(f)>>)
WriteSimled == \E f \in Frames : Told("SimLed", f, SimledReports(f, entry))
WriteMozaR5 == \E f \in Frames : Told("MozaR5", f, <<R5Report(f)>>)

\* send_gt_features gives up at the first chunk that fails.
GtSent(arrived, n) == {i \in arrived : \A j \in 2 .. i : j \in arrived}

\* A script that has as many LEDs as its device runs, however it ends; its
\* Message outlives the call.
Scripted(kind, total, reports(_)) ==
    \E f \in Frames, script \in Scripts :
        LET mode == IF kind \in {"C12Lua", "GtNeo"} THEN "usb" ELSE "serial"
            host == CallScript(script, total, mode, mem.message)
            sent == reports(host) IN
        /\ Ticking({kind}, f)
        /\ \E arrived \in Arrivals(Len(sent)) :
              Deliver(sent, IF kind = "GtNeo" THEN GtSent(arrived, Len(sent)) ELSE arrived)
        /\ mem' = [message |-> host.message]

WriteC12Lua == Scripted("C12Lua", C12Leds, LAMBDA host : C12LedReports(host.leds))
WriteGt == Scripted("GtNeo", GtLeds, LAMBDA host : GtNeoReports(host.leds))
WriteSimledCustom ==
    Scripted("SimLedCustom", entry.total,
             LAMBDA host : IF entry.total < 1 THEN <<>>
                           ELSE <<LedPacket(entry.total, host.leds)>>)
\* The board has no LEDs: it is sent what the script says.
WriteArduinoCustom ==
    Scripted("ArduinoCustom", 0,
             LAMBDA host : IF host.message = NoMessage THEN <<>>
                           ELSE <<[message |-> host.message]>>)

-----------------------------------------------------------------------------
(* Devices that are told what changed *)

PedalReports(e, play) ==
    CASE e.kind = "Csl" -> <<[rumble |-> CslRumble(e.effect, play)]>>
      [] e.kind = "P1000" -> P1000Reports(e.effect, play)
      [] e.kind = "SimNet" -> <<SimnetReport(play > 0)>>

\* The new play is remembered whatever became of the report.
PedalMem(f, play) == [mem EXCEPT !.state = play, !.filter = FilterAfter(f, entry, mem.filter)]

\* write_csl, write_p1000, write_simnet.  Without an effect they are idle.
WritePedal ==
    \E f \in Frames, sense \in Sense :
        LET play == PlayOf(f, entry, mem.filter, sense)
            reports == IF ~entry.armed \/ play = mem.state THEN <<>>
                       ELSE PedalReports(entry, play) IN
        /\ Ticking(Pedals, f)
        /\ \E arrived \in Arrivals(Len(reports)) : Deliver(reports, arrived)
        /\ mem' = IF entry.armed THEN PedalMem(f, play) ELSE mem

\* write_serial_haptic: the packet always goes out.
WriteSerialHaptic ==
    \E f \in Frames, sense \in Sense :
        LET play == IF entry.armed THEN PlayOf(f, entry, mem.filter, sense) ELSE 0
            scaled == ScaledPlay(play, entry.amp) IN
        /\ Ticking({"SerialHaptic"}, f)
        /\ \E arrived \in Arrivals(1) :
              Deliver(<<HapticPacket(scaled, mem.scaled, entry.motor)>>, arrived)
        /\ mem' = [scaled |-> scaled, filter |-> FilterAfter(f, entry, mem.filter)]

WriteMozaKs ==
    \E f \in Frames, blinkOff \in BOOLEAN :
        LET reports == KsTick(f, mem.flag, blinkOff) IN
        /\ Ticking({"MozaKs"}, f)
        /\ \E arrived \in Arrivals(Len(reports)) : Deliver(reports, arrived)
        /\ mem' = IF f.maxrpm = 0 THEN mem ELSE [flag |-> f.flag]

FaultAnyFrameArms(drive, arrived) ==
    IF drive.rpmSent /\ arrived = {} THEN [drive.state EXCEPT !.armed = FALSE] ELSE drive.state
\* write_serial_frames reports the last frame's fate: a lost mask disarms.
MozaMem(drive, arrived) ==
    IF drive.rpmSent /\ Len(drive.frames) \notin arrived
    THEN [drive.state EXCEPT !.armed = FALSE] ELSE drive.state

\* write_moza
WriteMozaFrame(f, clock) ==
    LET drive == UpdateMozaNew(mem, f, clock) IN
    \E arrived \in Arrivals(Len(drive.frames)) :
        /\ Deliver(drive.frames, arrived)
        /\ mem' = MozaMem(drive, arrived)
WriteMoza ==
    \E f \in Frames, clock \in MozaClock :
        /\ Ticking({"MozaNew"}, f)
        /\ WriteMozaFrame(f, clock)

\* write_sound; the server renders whenever it likes.
WriteSound ==
    \E f \in Frames, sense \in Sense :
        /\ Ticking({"Sound"}, f)
        /\ mem' = UpdateVoice(mem, f, entry, sense)
        /\ shows' = shows
Render ==
    /\ entry.kind = "Sound"
    /\ phase \in {"opened", "ticked"}
    /\ mem' = Rendered(mem, entry)
    /\ UNCHANGED <<entry, phase, last, shows>>

-----------------------------------------------------------------------------
(* Opening and letting go *)

\* load_tach_points: the table is read once; without one the needle stays.
LoadTachTable == [points |-> TachPoints(tachFile), spacing |-> tachFile.spacing]

\* The R9 is ready armed or not; the KS must take its colours.
Open ==
    LET reports == CASE entry.kind = "MozaNew" -> PrepareMoza.frames
                     [] entry.kind = "MozaKs" -> KsFlagColors("none")
                     [] OTHER -> <<>> IN
    /\ phase = "closed"
    /\ phase' = "opened"
    /\ \E arrived \in Arrivals(Len(reports)) :
          /\ entry.kind = "MozaKs" => arrived = DOMAIN reports
          /\ Deliver(reports, arrived)
          /\ mem' = CASE entry.kind = "MozaNew" /\ Len(reports) \notin arrived ->
                            [mem EXCEPT !.armed = FALSE]
                      [] entry.kind = "Tach" -> LoadTachTable
                      [] OTHER -> mem
    /\ UNCHANGED <<entry, last>>

WriteReleaseZeros == <<RevburnerReport(0)>>
BlankG29 == <<G29Report(0, 0)>>
BlankC5 == <<C5Report(0, 0, 0, 0)>>
\* The blanking parts of release; kinds that have none are left as they are.
ReleaseReports(e) ==
    CASE e.kind = "Tach" -> WriteReleaseZeros
      [] e.kind = "G29" -> BlankG29
      [] e.kind = "C5" -> BlankC5
      [] e.kind = "SerialHaptic" -> <<HapticStopPacket>>
      [] e.kind = "SimLed" -> SimledBlank(e)
      [] OTHER -> <<>>

\* blank_moza: a frame of a session that is off, written like any other.
BlankMoza == WriteMozaFrame(OffFrame, [blinkOff |-> FALSE, due |-> FALSE])

Release ==
    /\ phase \in {"opened", "ticked"}
    /\ phase' = "released"
    /\ IF entry.kind = "MozaNew"
       THEN BlankMoza
       ELSE /\ \E arrived \in Arrivals(Len(ReleaseReports(entry))) :
                  Deliver(ReleaseReports(entry), arrived)
            /\ mem' = mem
    /\ UNCHANGED <<entry, last>>

\* A reload opens a device anew; whatever it showed, its driver knows nothing.
Reopen ==
    /\ phase = "released"
    /\ phase' = "closed"
    /\ mem' = NewMem(entry)
    /\ shows' = [c \in Channels(entry) |-> Unknown]
    /\ UNCHANGED <<entry, last>>

DeviceNext ==
    \/ Open \/ Release \/ Reopen
    \/ WriteTach \/ WriteG29 \/ WriteC5 \/ WriteC12
    \/ WriteShiftlights \/ WriteSimwind \/ WriteSimled \/ WriteMozaR5
    \/ WriteC12Lua \/ WriteGt \/ WriteSimledCustom \/ WriteArduinoCustom
    \/ WritePedal \/ WriteSerialHaptic
    \/ WriteMozaKs \/ WriteMoza \/ WriteSound \/ Render

\* Only a tachometer uses a table, if it is not given the simulator's pulses.
Next ==
    \/ DeviceNext /\ UNCHANGED tach
    \/ entry.kind = "Tach" /\ ~entry.usePulses /\ TachNext /\ UNCHANGED device

Spec == Init /\ [][Next]_vars

-----------------------------------------------------------------------------
(* Properties *)

\* The steps a device's granularity makes of 1000 rpm.
Counts(granularity) == IF granularity \in {2, 4} THEN granularity ELSE 1

\* What a driver that sends only changes takes its device to show.
Remembered ==
    CASE entry.kind = "Csl" -> [rumble |-> CslRumble(entry.effect, mem.state)]
      [] entry.kind = "P1000" ->
            [slip |-> mem.state > 0 /\ entry.effect \in {"TyreSlip", "AbsBrakes"},
             lock |-> mem.state > 0 /\ entry.effect \in {"TyreLock", "AbsBrakes"}]
      [] entry.kind = "SimNet" -> [motor |-> mem.state > 0]
      [] entry.kind = "SerialHaptic" ->
            [m \in Driven(entry.motor) |-> EffectSpeed(mem.scaled)]
      [] entry.kind = "MozaKs" ->
            [side \in {"left", "right"} |-> IF mem.flag = "yellow" THEN "yellow" ELSE "off"]
      [] entry.kind = "MozaNew" ->
            IF mem.hasButtonWrite
            THEN [bar |-> BarColour(mem.bar), corners |-> mem.corners,
                  buttons |-> CornersMask(mem.corners)]
            ELSE [bar |-> BarColour(mem.bar)]
      [] entry.kind = "ArduinoCustom" ->
            IF mem.message = NoMessage THEN <<>> ELSE [message |-> mem.message]
      [] OTHER -> <<>>

\* A driver that sends only what changed knows what its device shows, on every
\* channel whose last report arrived: no change of state, arming, release or
\* reset leaves the two apart.  An R9 knows its corners from the first write
\* since it was armed.
RememberedIsShown ==
    phase \in {"opened", "ticked"} =>
        \A c \in DOMAIN Remembered : shows[c] \in {Remembered[c], Unknown}

\* A needle that was calibrated in the steps its device counts in stands, at
\* each engine speed the wizard asked for, where the user put it, or at rest if
\* he put it below; a table that was cut off is not used at all (rpm_targets,
\* parse_tach_xml, tach_element).  In steps of 250 rpm it does not.
NeedleAsCalibrated ==
    phase = "ticked" /\ entry.kind = "Tach" /\ ~entry.usePulses
            /\ mem.spacing \in {1, 2} /\ Counts(entry.granularity) = mem.spacing =>
        \A i \in DOMAIN mem.points :
            mem.points[i].rpm = last.rpms /\ last.rpms >= 500 =>
                shows["needle"] \in {RevburnerReport(mem.points[i].pulses).needle, Unknown}

\* An R9 whose bar missed a frame of a session in play is not taken for armed:
\* the next tick arms it again and so repairs brightness, mode and colours,
\* which a wheel that lost its mask may have lost too (write_moza).
LostMaskRearms ==
    phase = "ticked" /\ entry.kind = "MozaNew" /\ last.active /\ shows["mask"] = Unknown
        => ~mem.armed

\* Each driver knows what its device shows, or will tell it again.
DriversKnow == RememberedIsShown /\ LostMaskRearms

\* Effects that come from the tyres and the chassis.
Gated == UsesSlip \cup {"Suspension"}
Rolls == IF entry.effect = "Suspension" THEN last.rolling ELSE last.moving

\* "chassis/tyre gating so effects stay off when the car is not rolling"
\* (README.md:193): whatever played before, pedals, boards and voices are quiet
\* after a frame of a standing car, unless the report that says so was lost.
QuietWhenNotRolling ==
    phase = "ticked" /\ entry.effect \in Gated /\ ~Rolls =>
        /\ entry.kind = "Sound" => mem.amplitude = 0 /\ ~Audible(mem, entry)
        /\ entry.kind = "Sound" /\ entry.effect = "Suspension" => ~Sounds(mem, entry)
        /\ entry.kind = "Csl" => shows["rumble"] \in {"off", Unknown}
        /\ entry.kind \in {"P1000", "SimNet"} =>
              \A c \in DOMAIN shows : shows[c] \in {FALSE, Unknown}
        /\ entry.kind = "SerialHaptic" =>
              \A m \in Driven(entry.motor) : shows[m] \in {0, Unknown}

\* What release leaves on the kinds it blanks.
Blank ==
    CASE entry.kind = "Tach" -> [needle |-> 0]
      [] entry.kind = "G29" -> [leds |-> 0]
      [] entry.kind = "C5" -> [leds |-> 0, velocity |-> 0]
      [] entry.kind = "SerialHaptic" -> [m \in 1 .. 4 |-> 0]
      [] entry.kind = "SimLed" -> [led \in 1 .. entry.total |-> Off]
      [] entry.kind = "MozaNew" -> [mask |-> 0, buttons |-> {}, bar |-> "rpm"]
      [] OTHER -> <<>>

\* release leaves no light, needle or motor of those kinds on, from whatever
\* the device was doing, armed or not, except where its own report was lost.
BlankAfterRelease ==
    phase = "released" => \A c \in DOMAIN Blank : shows[c] \in {Blank[c], Unknown}
=============================================================================
