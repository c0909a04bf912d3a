------------------------------ MODULE TestRun ------------------------------
(***************************************************************************)
(* A hardware test: what "cargopit test" plans from the config it reads,   *)
(* the telemetry it makes up, and what the loaded devices do with it:      *)
(* crates/cargopit/src/testmode.rs and run_test of main.rs.                *)
(*                                                                         *)
(* Ticks of a phase that repeat a frame are one frame here, a sweep its    *)
(* ends, a pulse its two halves.  The test never looks at its quit keys    *)
(* (print_test_script gives it a halt that is always false): it ends when  *)
(* its script does, or is killed.                                          *)
(***************************************************************************)
EXTENDS HapticEffects, SequencesExt

Even(n) == [w \in Wheels |-> n]

\* effect_uses_named_haptic, is_haptic: the rest are lights.
NamedHaptics == {"GearShift", "TyreLock", "TyreSlip", "AbsBrakes", "Suspension"}
IsHaptic(entry) == entry.class = "Sound" \/ entry.effect \in NamedHaptics

-----------------------------------------------------------------------------
(* The plan *)

\* profile_index, of a request counted from one: who asks for none gets the first.
ResolveProfile(count, requested) ==
    CASE requested > count -> 0
      [] requested <= count /\ requested # 0 -> requested
      [] OTHER -> IF count = 0 THEN 0 ELSE 1

SubjectFrom(entry, muted, forced) ==
    [entry |-> entry,
     active |-> (forced \/ entry.enabled) /\ ~(muted /\ entry.class = "Sound")]

NoPlan == [subjects |-> <<>>, focused |-> FALSE]

\* plan: device 0 asks for the whole profile.
Plan(config, profile, device, muted) ==
    LET index == ResolveProfile(Len(config), profile)
        devices == config[index].devices
    IN  IF index = 0 \/ device > Len(config[index].devices) THEN NoPlan
        ELSE IF device = 0
             THEN [subjects |-> [i \in DOMAIN devices |-> SubjectFrom(devices[i], muted, FALSE)],
                   focused |-> FALSE]
             ELSE [subjects |-> <<SubjectFrom(devices[device], muted, TRUE)>>,
                   focused |-> TRUE]

\* selected_test_config, load_test_devices: a device asked for is switched on.
LoadTestDevices(config, profile, device, muted) ==
    LET devices == config[ResolveProfile(Len(config), profile)].devices
        chosen == [devices[device] EXCEPT !.enabled = TRUE]
        Loaded(entry) == entry.enabled /\ ~(muted /\ entry.class = "Sound")
    IN  IF device = 0 THEN SelectSeq(devices, Loaded)
        ELSE IF Loaded(chosen) THEN <<chosen>> ELSE <<>>

-----------------------------------------------------------------------------
(* The frames *)

ClearEffects(f) ==
    [f EXCEPT !.gas = 0, !.brake = 0, !.slip = Even(0), !.susp = 0, !.diameters = FALSE]

SetBasic(f) ==
    [ClearEffects(f) EXCEPT !.gear = Neutral, !.velocity = 160, !.rpms = 1000,
                            !.maxrpm = 8000, !.idlerpm = 1000, !.forward = 100, !.sideways = 0]

\* reset_idle leaves the axes as they were: the car stands and is moving.
ResetIdle(f) ==
    [ClearEffects(f) EXCEPT !.velocity = 0, !.rpms = 1000, !.gear = Neutral]

SetWheelSpin(f) ==
    [f EXCEPT !.forward = 100, !.sideways = 0, !.velocity = 15, !.gas = 85, !.brake = 0,
              !.slip = Even(-45), !.diameters = TRUE]
SetWheelLock(f) ==
    [f EXCEPT !.forward = 100, !.sideways = 0, !.velocity = 150, !.gas = 0, !.brake = 85,
              !.slip = Even(85), !.diameters = TRUE]
SetAbsPhase(f) ==
    [f EXCEPT !.forward = 100, !.sideways = 0, !.velocity = 150, !.gas = 0, !.brake = 85,
              !.slip = Even(40), !.diameters = TRUE]
SetBrakeHeat(f) ==
    [f EXCEPT !.forward = 100, !.sideways = 0, !.velocity = 150, !.gas = 0, !.brake = 85,
              !.slip = Even(0), !.diameters = FALSE]

\* apply_gear, apply_abs and apply_suspension: what they alternate between.
ApplyGear(f) == <<f, [f EXCEPT !.gear = Neutral]>>
ApplyAbs(f) == <<f, [f EXCEPT !.slip = Even(72)], [f EXCEPT !.slip = Even(40)]>>
ApplySuspension(f) == <<[f EXCEPT !.susp = 2], [f EXCEPT !.susp = 18]>>

\* apply_mod, on the ticks of a phase.
ApplyMod(f, modifier) ==
    CASE modifier = "None" -> <<f>>
      [] modifier = "Gear" -> ApplyGear(f)
      [] modifier = "Abs" -> ApplyAbs(f)
      [] modifier = "Suspension" -> ApplySuspension(f)

\* record: a frame goes to SIMAPI.DAT and to the devices.
Record(frames, f) == Append(frames, f)
\* phase, and drive.
Phase(frames, f, modifier) ==
    FoldLeft(LAMBDA made, tick : Record(made, tick), frames, ApplyMod(f, modifier))

\* sweep, by its ends: up to the limit, and down to idle.
Sweep(frames, f, from, to) == Record(Record(frames, [f EXCEPT !.rpms = from]), [f EXCEPT !.rpms = to])
Rev(frames, f) == Sweep(Sweep(frames, f, 1000, 8000), f, 8000, 1000)

RunSpin(frames, f) == Phase(frames, SetWheelSpin(f), "None")
RunLock(frames, f) == Phase(frames, SetWheelLock(f), "None")
RunAbs(frames, f) == Phase(frames, SetAbsPhase(f), "Abs")
RunSuspension(frames, f) == Phase(frames, [f EXCEPT !.gas = 40], "Suspension")

RunFocusedHaptic(frames, f, effect) ==
    CASE effect = "EngineRpm" -> Phase(frames, [f EXCEPT !.gas = 40, !.rpms = 8000], "None")
      [] effect = "GearShift" -> Phase(frames, [f EXCEPT !.gear = 2], "None")
      [] effect = "TyreSlip" -> RunSpin(frames, f)
      [] effect = "TyreLock" -> RunLock(frames, f)
      [] effect = "AbsBrakes" -> RunAbs(frames, f)
      [] effect = "Suspension" -> RunSuspension(frames, f)

\* run_gear: the gears one after the other.
RunGear(frames, f) ==
    FoldLeft(LAMBDA made, gear : Phase(made, [f EXCEPT !.gear = gear], "Gear"), frames,
             <<2, 3, 4, 5>>)

RunHaptic(frames, f, effect) ==
    CASE effect = "EngineRpm" -> Rev(frames, [f EXCEPT !.gas = 40])
      [] effect = "GearShift" -> RunGear(frames, f)
      [] OTHER -> RunFocusedHaptic(frames, f, effect)

\* The flags' phases repeat the last frame: no device here looks at a flag.
RunLights(frames, f) ==
    LET gas == [f EXCEPT !.gas = 40]
        heat == SetBrakeHeat(gas)
    IN  FoldLeft(LAMBDA made, velocity : Record(made, [heat EXCEPT !.velocity = velocity]),
                 Rev(frames, gas), <<heat.velocity, 100, 200, 300>>)

\* run_one, after the frames already made.
RunOne(frames, subject, focused) ==
    LET f == SetBasic(Last(frames))
        effect == subject.entry.effect
        played == CASE IsHaptic(subject.entry) /\ focused -> RunFocusedHaptic(frames, f, effect)
                    [] IsHaptic(subject.entry) /\ ~focused -> RunHaptic(frames, f, effect)
                    [] OTHER -> RunLights(frames, f)
    IN  IF ~subject.active THEN frames
        ELSE IF focused THEN played
             ELSE Phase(played, ResetIdle(Last(played)), "None")

\* set_identity: the simulator is on in the test's frames.
TestFrame ==
    [rpms |-> 0, maxrpm |-> 0, idlerpm |-> 0, velocity |-> 0, gear |-> 0, gas |-> 0, brake |-> 0,
     slip |-> Even(0), diameters |-> FALSE, wheelspeed |-> Even(0), susp |-> 0,
     forward |-> 0, sideways |-> 0, active |-> TRUE, dirt2 |-> FALSE]

\* The runner's first frame.
NewRunner(focused) == Record(<<>>, IF focused THEN SetBasic(TestFrame) ELSE TestFrame)
\* finish: the last frame says the simulator is off.
Finish(frames) == Record(frames, [Last(frames) EXCEPT !.active = FALSE])

\* run_frames_with_device
Script(plan) ==
    Finish(FoldLeft(LAMBDA made, subject : RunOne(made, subject, plan.focused),
                    NewRunner(plan.focused), plan.subjects))

-----------------------------------------------------------------------------
(* The session *)

VARIABLE session    \* the test the TUI started: its plan, the loaded devices, whether
                    \* it played to its end and which devices showed it; and, if
                    \* a form asked for it, the device in the form

NoSession == [plan |-> NoPlan, loaded |-> <<>>, finished |-> FALSE, shown |-> {}, asked |-> <<>>]

\* run_test: a plan without subjects ends the test with an error.
StartedTest(config, profile, device, muted, asked) ==
    LET plan == Plan(config, profile, device, muted)
    IN  [plan |-> plan,
         loaded |-> IF plan.subjects = <<>> THEN <<>>
                    ELSE LoadTestDevices(config, profile, device, muted),
         finished |-> plan.subjects = <<>>, shown |-> {}, asked |-> asked]

\* What the filters find in the test's frames: its steps of slip pump, its
\* steps of the chassis move.
TestSense(before, f) ==
    [pump |-> f.slip # before.slip, motion |-> IF f.susp # before.susp THEN 8 ELSE 0]

\* A tick of a loaded device: a shaker's voice, or a pedal's filter.
MemAfter(entry, mem, f, sense) ==
    IF entry.class = "Sound" THEN UpdateVoice(mem, f, entry, sense)
    ELSE [mem EXCEPT !.filter = FilterAfter(f, entry, mem.filter)]
Shows(entry, mem, f, sense) ==
    CASE entry.class = "Sound" -> Audible(UpdateVoice(mem, f, entry, sense), entry)
      [] entry.class # "Sound" /\ IsHaptic(entry) -> PlayOf(f, entry, mem.filter, sense) > 0
      [] OTHER -> f.rpms > 0 /\ f.rpms = f.maxrpm

\* record, drive_test_frame: a frame to a loaded device.
DriveTestFrame(entry, seen, f) ==
    LET sense == TestSense(seen.before, f)
    IN  [before |-> f,
         mem |-> MemAfter(entry, seen.mem, f, sense),
         shown |-> seen.shown \/ Shows(entry, seen.mem, f, sense)]

\* print_test_script.  Nothing reaches the test while it plays but what ends
\* its process, so its frames are one step.
TestPlaysOut ==
    LET script == Script(session.plan)
        Played(entry) == FoldLeft(LAMBDA seen, f : DriveTestFrame(entry, seen, f),
                                  [before |-> TestFrame, mem |-> NewVoice(entry), shown |-> FALSE],
                                  script)
    IN  /\ ~session.finished
        /\ session' = [session EXCEPT
                         !.finished = TRUE,
                         !.shown = {i \in DOMAIN session.loaded : Played(session.loaded[i]).shown}]
=============================================================================
