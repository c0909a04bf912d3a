--------------------------- MODULE HapticEffects ---------------------------
(***************************************************************************)
(* What a haptic effect plays for a frame, and what a bass shaker's voice  *)
(* makes of it: crates/cargopit-devices/src/haptic.rs and sound.rs.        *)
(*                                                                         *)
(* Ratios are percentages, speeds km/h.  The real-valued filters (the ABS  *)
(* pump average, the suspension baseline and floor) are an input: what     *)
(* they may find is in Sense, and when they cannot find it, because they   *)
(* were just reset, is kept in the filter's state.                         *)
(***************************************************************************)
EXTENDS Integers, FiniteSetsExt

CONSTANTS
    HitLength,      \* rendered blocks a gear or suspension hit rings for
    FadeLength      \* rendered blocks a tone takes to fade away

ASSUME HapticAssumption == HitLength \in Nat \ {0} /\ FadeLength \in Nat \ {0}

Wheels == 1 .. 4
VibrationEffects == {"EngineRpm", "GearShift", "AbsBrakes", "TyreSlip", "TyreLock",
                     "Suspension"}
UsesSlip == {"TyreSlip", "TyreLock", "AbsBrakes"}

\* What the filters find beyond their gates: pump of the brakes, and motion.
Sense == [pump : BOOLEAN, motion : {0, 2, 8}]
\* The ABS filter was primed by an earlier frame, the suspension has a baseline.
Filter == [primed : BOOLEAN, baseline : BOOLEAN]
FreshFilter == [primed |-> FALSE, baseline |-> FALSE]

Positive(n) == IF n > 0 THEN n ELSE 0
AtMost(n, top) == IF n > top THEN top ELSE n

\* car_is_moving: y and z velocity.
CarIsMoving(frame) == frame.forward > 0 /\ frame.sideways \in -1 .. 1
ChassisIsRolling(frame) == frame.velocity >= 1

\* A simulator that gives no slip has it worked out from its wheels' speeds; Dirt
\* Rally 2's is taken as it is, though it be zero.
SimProvidesSlip(frame) == frame.dirt2 \/ \E w \in Wheels : frame.slip[w] # 0
CalculateWheelSlip(frame) ==
    [w \in Wheels |-> IF frame.diameters /\ frame.velocity > 1
                      THEN (100 * (frame.velocity - frame.wheelspeed[w])) \div frame.velocity
                      ELSE 0]
WheelSlip(frame, effect) ==
    IF SimProvidesSlip(frame) \/ effect \notin UsesSlip
    THEN frame.slip ELSE CalculateWheelSlip(frame)

\* sum_slip_beyond: spin is negative slip, lockup positive.
SumSpin(slip, tyres, threshold) ==
    LET term(w) == IF w \in tyres THEN Positive(-slip[w] - threshold) ELSE 0
    IN  term(1) + term(2) + term(3) + term(4)
SumLock(slip, tyres, threshold) ==
    LET term(w) == IF w \in tyres THEN Positive(slip[w] - threshold) ELSE 0
    IN  term(1) + term(2) + term(3) + term(4)

SlipPlay(frame, fx) ==
    IF frame.gas <= 8 THEN 0
    ELSE SumSpin(WheelSlip(frame, fx.effect), fx.tyres, fx.threshold)
LockPlay(frame, fx) ==
    IF frame.brake <= 5 THEN 0
    ELSE SumLock(WheelSlip(frame, fx.effect), fx.tyres, fx.threshold)

BrakeApplied(frame) == frame.brake > 5
\* The pump average is zero until a second braking frame.
AbsPlay(frame, fx, filter, sense) ==
    LET slip == WheelSlip(frame, fx.effect)
        lock == Max({0} \cup {slip[w] : w \in fx.tyres})
    IN  IF BrakeApplied(frame) /\ filter.primed /\ sense.pump
        THEN Positive(lock - fx.threshold) ELSE 0
\* A frozen or standing car keeps its floor; motion is what is above the gate.
SuspensionPlay(frame, filter, sense) ==
    IF ChassisIsRolling(frame) /\ filter.baseline THEN sense.motion ELSE 0

\* HapticEffect::play: the value, and the filter it leaves.
PlayOf(frame, fx, filter, sense) ==
    IF fx.effect # "Suspension" /\ ~CarIsMoving(frame) THEN 0
    ELSE CASE fx.effect = "TyreSlip" -> SlipPlay(frame, fx)
           [] fx.effect = "TyreLock" -> LockPlay(frame, fx)
           [] fx.effect = "AbsBrakes" -> AbsPlay(frame, fx, filter, sense)
           [] fx.effect = "Suspension" -> SuspensionPlay(frame, filter, sense)
           [] OTHER -> 0
FilterAfter(frame, fx, filter) ==
    CASE fx.effect = "AbsBrakes" /\ CarIsMoving(frame) ->
            [filter EXCEPT !.primed = BrakeApplied(frame)]
      [] fx.effect = "Suspension" -> [filter EXCEPT !.baseline = TRUE]
      [] OTHER -> filter

-----------------------------------------------------------------------------
(* A shaker's voice *)

\* Tone: its frequency in Hz, its amplitude, whether it wobbles; the hit that
\* rings and how much of it was rendered; the last gear, the spike it holds; and
\* how much of its tone the listener still has (play_gain).
Voice == [frequency : Nat, amplitude : 0 .. 100, wobble : BOOLEAN,
          duration : 0 .. HitLength, elapsed : 0 .. HitLength,
          gear : Nat, held : BOOLEAN, filter : Filter, gain : 0 .. FadeLength]
Neutral == 1
NewVoice(fx) ==
    [frequency |-> 0, amplitude |-> 0, wobble |-> FALSE,
     duration |-> IF fx.effect = "GearShift" THEN HitLength ELSE 0, elapsed |-> 0,
     gear |-> Neutral, held |-> FALSE, filter |-> FreshFilter, gain |-> 0]

\* play_level and amplitude_from_level, of a play over its reference.
Amplitude(play, reference) == AtMost((100 * play) \div reference, 100)

\* suspension_level: the square root of the play over 8.
SuspensionAmplitude(play) ==
    CHOOSE a \in 0 .. 100 : 8 * a * a <= 10000 * play /\ 8 * (a + 1) * (a + 1) > 10000 * play

EnginePlayRpm(frame) ==
    CASE frame.maxrpm = 0 -> 0
      [] frame.maxrpm > 0 /\ frame.rpms > 0 -> Max({frame.rpms, frame.idlerpm})
      [] frame.maxrpm > 0 /\ frame.rpms = 0 ->
            IF frame.gear = Neutral THEN frame.idlerpm ELSE 0
EngineAmplitude(frame, rpm) ==
    AtMost(20 + (75 * AtMost(frame.gas, 100)) \div 100
              + (12 * AtMost(rpm, frame.maxrpm)) \div frame.maxrpm, 100)

\* The tones a shaker can render, and the band of an entry inside them.
ToneMin == 32
ToneMax == 120
BandMin(fx) == IF fx.frequency \in ToneMin .. ToneMax - 1 THEN fx.frequency ELSE ToneMin
BandMax(fx) ==
    IF fx.frequencyMax \in BandMin(fx) + 1 .. ToneMax THEN fx.frequencyMax ELSE ToneMax

\* Two firings a turn of a four-stroke with four cylinders.
FiringHz(rpm) == rpm \div 30
IdleHz(idle, low, high) == IF FiringHz(idle) \in low .. high - 1 THEN FiringHz(idle) ELSE low
\* Where the engine is between its idle and its limit.
RpmPercent(rpm, idle, maxrpm) ==
    IF idle \in 1 .. maxrpm - 1
    THEN AtMost(Positive((100 * (rpm - idle)) \div (maxrpm - idle)), 100)
    ELSE AtMost((100 * rpm) \div maxrpm, 100)
EngineHz(rpm, frame, fx) ==
    LET idle == IdleHz(frame.idlerpm, BandMin(fx), BandMax(fx))
    IN  idle + ((BandMax(fx) - idle) * RpmPercent(rpm, frame.idlerpm, frame.maxrpm)) \div 100

SilenceEngine(voice) == [voice EXCEPT !.frequency = 0, !.amplitude = 0]
UpdateEngine(voice, frame, fx) ==
    LET rpm == EnginePlayRpm(frame)
    IN  IF rpm = 0 THEN SilenceEngine(voice)
        ELSE [voice EXCEPT !.frequency = EngineHz(rpm, frame, fx), !.duration = 0,
                           !.amplitude = EngineAmplitude(frame, rpm)]

\* A hit starts at its full gain, and a stopped one has none left to fade.
BeginDecay(voice, frequency, amplitude, duration) ==
    [voice EXCEPT !.frequency = frequency, !.amplitude = amplitude,
                  !.duration = duration, !.elapsed = 0, !.gain = FadeLength]
FaultStopFades(voice) ==
    [voice EXCEPT !.frequency = 0, !.amplitude = 0, !.duration = 0, !.elapsed = 0]
StopDecay(voice) ==
    [voice EXCEPT !.frequency = 0, !.amplitude = 0,
                  !.duration = 0, !.elapsed = 0, !.gain = 0]

UpdateGear(voice, frame, fx) ==
    IF voice.gear = frame.gear THEN voice
    ELSE BeginDecay([voice EXCEPT !.gear = frame.gear], fx.frequency, 100, voice.duration)

\* update_continuous: a play sounds at the entry's frequency.
UpdateContinuous(voice, fx, play, reference) ==
    IF play = 0
    THEN [voice EXCEPT !.frequency = 0, !.amplitude = 0, !.elapsed = 0]
    ELSE [voice EXCEPT !.frequency = fx.frequency, !.duration = 0,
                       !.amplitude = Amplitude(play, reference)]
\* Slip and ABS wobble for as long as they play.
UpdateSlip(voice, fx, play) ==
    [UpdateContinuous(voice, fx, play, 35) EXCEPT !.wobble = play > 0]
UpdateAbs(voice, fx, play) ==
    [UpdateContinuous(voice, fx, play, 25) EXCEPT !.wobble = play > 0]

\* band_hz: the harder the spike, the higher in the entry's band.
BandHz(fx, level) ==
    fx.frequency + (Positive(fx.frequencyMax - fx.frequency) * level) \div 100
HitSuspension(voice, fx, play) ==
    LET level == SuspensionAmplitude(play)
    IN  BeginDecay([voice EXCEPT !.held = TRUE], BandHz(fx, level), level, HitLength)

\* A spike hits once for as long as it is held, and rings on after it; a car
\* that stands is silent at once.
UpdateSuspension(voice, frame, fx, play) ==
    CASE ~ChassisIsRolling(frame) -> StopDecay([voice EXCEPT !.held = FALSE])
      [] ChassisIsRolling(frame) /\ play = 0 -> [voice EXCEPT !.held = FALSE]
      [] ChassisIsRolling(frame) /\ play > 0 ->
            IF voice.held THEN voice ELSE HitSuspension(voice, fx, play)

\* Tone::update.  A standing suspension is not asked, and keeps its filter.
UpdateVoice(voice, frame, fx, sense) ==
    LET play == PlayOf(frame, fx, voice.filter, sense)
        next == IF fx.effect = "Suspension" /\ ~ChassisIsRolling(frame) THEN voice
                ELSE [voice EXCEPT !.filter = FilterAfter(frame, fx, voice.filter)]
    IN  CASE fx.effect = "EngineRpm" -> UpdateEngine(voice, frame, fx)
          [] fx.effect = "GearShift" -> UpdateGear(voice, frame, fx)
          [] fx.effect = "TyreSlip" -> UpdateSlip(next, fx, play)
          [] fx.effect = "TyreLock" -> UpdateContinuous(next, fx, play, 35)
          [] fx.effect = "AbsBrakes" -> UpdateAbs(next, fx, play)
          [] fx.effect = "Suspension" -> UpdateSuspension(next, frame, fx, play)

\* amplitude_scale: a hit's envelope ends with its tone, at once; another tone
\* that ends has its gain to fade.
Enveloped(voice, fx) == fx.effect = "GearShift" \/ voice.duration > 0
Scaled(voice, fx) ==
    Enveloped(voice, fx) => voice.frequency > 0 /\ voice.duration > 0
Audible(voice, fx) == voice.frequency > 0 /\ voice.amplitude > 0 /\ Scaled(voice, fx)
\* What the listener still hears of it.
Sounds(voice, fx) == voice.gain > 0 /\ Scaled(voice, fx)

\* sine_frame: the gain goes to where the tone is.
Followed(voice, fx) ==
    [voice EXCEPT !.gain = IF Audible(voice, fx) THEN FadeLength ELSE Positive(@ - 1)]
\* advance_decay, a block at a time: a hit that has rung out is over.
AdvanceDecay(voice) ==
    CASE voice.duration = 0 \/ voice.frequency = 0 -> voice
      [] voice.duration > 0 /\ voice.frequency > 0 ->
            IF voice.elapsed + 1 >= voice.duration
            THEN [voice EXCEPT !.elapsed = 0, !.frequency = 0, !.amplitude = 0]
            ELSE [voice EXCEPT !.elapsed = @ + 1]
\* render_bytes
Rendered(voice, fx) == AdvanceDecay(Followed(voice, fx))
=============================================================================
