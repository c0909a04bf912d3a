------------------------- MODULE DeviceOutputProofs -------------------------
(***************************************************************************)
(* What DeviceOutput promises, for any devices, any telemetry, any scripts *)
(* and any losses of reports.                                              *)
(***************************************************************************)
EXTENDS DeviceOutput, SequenceTheorems, FiniteSetTheorems, TLAPS

\* A device that was not opened yet shows nothing its driver knows of, and the
\* driver has nothing to remember.
ClosedIsFresh ==
    phase = "closed" =>
        mem = NewMem(entry) /\ shows = [c \in Channels(entry) |-> Unknown]

\* Where the drivers' knowledge rests: from it DriversKnow.
KnowInv == ClosedIsFresh /\ RememberedIsShown /\ LostMaskRearms

\* After a frame that gates an effect its driver remembers no play; a pedal
\* without an effect never plays.
QuietPlays ==
    /\ entry.kind \in Pedals /\ ~entry.armed => mem.state = 0
    /\ phase = "ticked" /\ entry.effect \in Gated /\ ~Rolls =>
          /\ entry.kind \in Pedals => mem.state = 0
          /\ entry.kind = "SerialHaptic" => mem.scaled = 0
          /\ entry.kind = "Sound" =>
                mem.amplitude = 0 /\ (entry.effect = "Suspension" => mem.gain = 0)

\* The engine speeds a table has, if the wizard wrote it.
AskedRpm(spacing, i) ==
    IF spacing = 4 THEN i * 250 ELSE IF i = 1 THEN 250 ELSE (i - 1) * IncrementFor(spacing)
TimedItem == [rpm : Nat, pulses : Int, timed : {TRUE}]
TachInv ==
    /\ wizard.stage # "none" =>
          \A i \in DOMAIN wizard.targets : wizard.targets[i] = AskedRpm(wizard.spacing, i)
    /\ wizard.stage \in {"write", "fill"} => Len(wizard.saved) = Len(wizard.targets)
    /\ tachFile.spacing # 0 =>
          /\ tachFile.complete
          /\ tachFile.items \in Seq(TimedItem)
          /\ \A i \in DOMAIN tachFile.items :
                tachFile.items[i].rpm = AskedRpm(tachFile.spacing, i)
CalibratedInv ==
    /\ TachInv
    /\ entry.kind = "Tach" /\ mem.spacing # 0 =>
          /\ Len(mem.points) \in Nat /\ DOMAIN mem.points = 1 .. Len(mem.points)
          /\ \A i \in DOMAIN mem.points : mem.points[i].rpm = AskedRpm(mem.spacing, i)

-----------------------------------------------------------------------------
(* Operators *)

\* The largest number of a set, when it is known which that is.
LEMMA MaxIs ==
  ASSUME NEW S \in SUBSET Int, NEW m \in S, \A n \in S : n <= m
  PROVE  Max(S) = m
<1> DEFINE P(x) == \A y \in S : x >= y
<1>1. m \in S /\ P(m)
  OBVIOUS
<1>2. Max(S) = CHOOSE x \in S : P(x)
  BY DEF Max
<1>3. Max(S) \in S /\ P(Max(S))
  BY <1>1, <1>2
<1>4. Max(S) >= m /\ m >= Max(S)
  BY <1>1, <1>3
<1>5. Max(S) \in Int /\ m \in Int
  BY <1>3
<1> HIDE DEF P
<1> QED
  BY <1>4, <1>5

LEMMA MaxOfTwo ==
  ASSUME NEW m \in Int, NEW n \in Int
  PROVE  Max({m, n}) = IF m >= n THEN m ELSE n
<1>1. CASE m >= n
  BY <1>1, MaxIs
<1>2. CASE ~(m >= n)
  BY <1>2, MaxIs
<1> QED
  BY <1>1, <1>2

\* The largest of zero and the values of some wheels.
LEMMA PeakIsNat ==
  ASSUME NEW slip \in [Wheels -> Int], NEW tyres \in SUBSET Wheels
  PROVE  Max({0} \cup {slip[w] : w \in tyres}) \in Nat
<1> DEFINE S == {0} \cup {slip[w] : w \in tyres}
           Next1(top, w) == IF w \in tyres /\ slip[w] > top THEN slip[w] ELSE top
<1> HIDE DEF Next1
<1>0. ASSUME NEW top \in S, NEW w \in Wheels, top >= 0
      PROVE  /\ Next1(top, w) \in S /\ Next1(top, w) >= top
             /\ w \in tyres => Next1(top, w) >= slip[w]
  BY <1>0 DEF Next1
<1>1. S \subseteq Int /\ 0 \in S
  OBVIOUS
<1>2. PICK a \in S : a >= 0 /\ (1 \in tyres => a >= slip[1])
  BY <1>0, <1>1 DEF Wheels
<1>3. PICK b \in S : b >= a /\ (2 \in tyres => b >= slip[2])
  BY <1>0, <1>2 DEF Wheels
<1>4. PICK c \in S : c >= b /\ (3 \in tyres => c >= slip[3])
  BY <1>0, <1>1, <1>2, <1>3 DEF Wheels
<1>5. PICK d \in S : d >= c /\ (4 \in tyres => d >= slip[4])
  BY <1>0, <1>1, <1>2, <1>3, <1>4 DEF Wheels
<1>6. a \in Int /\ b \in Int /\ c \in Int /\ d \in Int
  BY <1>1
<1>7. ASSUME NEW w \in tyres PROVE slip[w] <= d
  <2>1. w = 1 \/ w = 2 \/ w = 3 \/ w = 4
    BY DEF Wheels
  <2>2. slip[w] \in Int
    OBVIOUS
  <2> QED
    BY <1>2, <1>3, <1>4, <1>5, <1>6, <2>1, <2>2
<1>8. \A n \in S : n <= d
  BY <1>2, <1>3, <1>4, <1>5, <1>6, <1>7
<1>9. Max(S) = d
  BY <1>1, <1>8, MaxIs
<1> QED
  BY <1>2, <1>3, <1>4, <1>5, <1>6, <1>9

-----------------------------------------------------------------------------
(* What arrives *)

\* A channel that no report names keeps what it shows; the last report that
\* names it decides what it shows.
LEMMA Delivered ==
  ASSUME NEW reports, NEW arrived, DOMAIN reports \subseteq Int,
         Deliver(reports, arrived), NEW c \in DOMAIN shows
  PROVE  /\ c \in DOMAIN shows'
         /\ (\A i \in DOMAIN reports : c \notin DOMAIN reports[i]) => shows'[c] = shows[c]
         /\ \A i \in DOMAIN reports :
               /\ c \in DOMAIN reports[i]
               /\ \A j \in DOMAIN reports : c \in DOMAIN reports[j] => j <= i
               => shows'[c] = IF i \in arrived THEN reports[i][c] ELSE Unknown
<1> DEFINE sent == {i \in DOMAIN reports : c \in DOMAIN reports[i]}
<1>1. shows'[c] = CASE sent = {} -> shows[c]
                    [] sent # {} /\ Max(sent) \in arrived -> reports[Max(sent)][c]
                    [] sent # {} /\ Max(sent) \notin arrived -> Unknown
  BY DEF Deliver
<1>2. c \in DOMAIN shows'
  BY DEF Deliver
<1>3. ASSUME \A i \in DOMAIN reports : c \notin DOMAIN reports[i]
      PROVE  shows'[c] = shows[c]
  <2>1. sent = {}
    BY <1>3
  <2> QED
    BY <1>1, <2>1
<1>4. ASSUME NEW i \in DOMAIN reports, c \in DOMAIN reports[i],
             \A j \in DOMAIN reports : c \in DOMAIN reports[j] => j <= i
      PROVE  shows'[c] = IF i \in arrived THEN reports[i][c] ELSE Unknown
  <2>1. i \in sent /\ sent \subseteq Int
    BY <1>4
  <2>2. Max(sent) = i
    BY <1>4, <2>1, MaxIs
  <2> QED
    BY <1>1, <2>1, <2>2
<1> QED
  BY <1>2, <1>3, <1>4

LEMMA DeliverKeepsChannels ==
  ASSUME NEW reports, NEW arrived, Deliver(reports, arrived)
  PROVE  DOMAIN shows' = DOMAIN shows
BY DEF Deliver

LEMMA NothingDelivered ==
  ASSUME NEW arrived, Deliver(<<>>, arrived), NEW c \in DOMAIN shows
  PROVE  shows'[c] = shows[c]
BY Delivered

LEMMA OneDelivered ==
  ASSUME NEW report, NEW arrived, Deliver(<<report>>, arrived), NEW c \in DOMAIN shows
  PROVE  /\ c \notin DOMAIN report => shows'[c] = shows[c]
         /\ c \in DOMAIN report =>
               shows'[c] = IF 1 \in arrived THEN report[c] ELSE Unknown
<1> DEFINE reports == <<report>>
<1>1. DOMAIN reports = {1} /\ reports[1] = report
  OBVIOUS
<1> HIDE DEF reports
<1>2. Deliver(reports, arrived)
  BY DEF reports
<1> QED
  BY <1>1, <1>2, Delivered
-----------------------------------------------------------------------------
(* Haptic effects *)

LEMMA PositiveIsNat == \A n \in Int : Positive(n) \in Nat
BY DEF Positive

LEMMA WheelSlipType ==
  ASSUME NEW f \in Frame, NEW effect
  PROVE  WheelSlip(f, effect) \in [Wheels -> Int]
<1>1. f.slip \in [Wheels -> Int] /\ f.wheelspeed \in [Wheels -> Int] /\ f.velocity \in Nat
  BY DEF Frame
<1>2. CalculateWheelSlip(f) \in [Wheels -> Int]
  <2>1. ASSUME NEW w \in Wheels, f.velocity > 1
        PROVE  (100 * (f.velocity - f.wheelspeed[w])) \div f.velocity \in Int
    BY <1>1, <2>1
  <2> QED
    BY <2>1 DEF CalculateWheelSlip
<1> QED
  BY <1>1, <1>2 DEF WheelSlip

LEMMA SumsAreNat ==
  ASSUME NEW slip \in [Wheels -> Int], NEW tyres \in SUBSET Wheels, NEW threshold \in Nat
  PROVE  SumSpin(slip, tyres, threshold) \in Nat /\ SumLock(slip, tyres, threshold) \in Nat
<1> DEFINE spin(w) == IF w \in tyres THEN Positive(-slip[w] - threshold) ELSE 0
           lock(w) == IF w \in tyres THEN Positive(slip[w] - threshold) ELSE 0
<1>2. SumSpin(slip, tyres, threshold) \in Nat
  <2>1. \A w \in Wheels : spin(w) \in Nat
    BY PositiveIsNat
  <2>2. spin(1) \in Nat /\ spin(2) \in Nat /\ spin(3) \in Nat /\ spin(4) \in Nat
    BY <2>1 DEF Wheels
  <2>3. SumSpin(slip, tyres, threshold) = spin(1) + spin(2) + spin(3) + spin(4)
    BY DEF SumSpin
  <2> HIDE DEF spin
  <2> QED
    BY <2>2, <2>3
<1>3. SumLock(slip, tyres, threshold) \in Nat
  <2>1. \A w \in Wheels : lock(w) \in Nat
    BY PositiveIsNat
  <2>2. lock(1) \in Nat /\ lock(2) \in Nat /\ lock(3) \in Nat /\ lock(4) \in Nat
    BY <2>1 DEF Wheels
  <2>3. SumLock(slip, tyres, threshold) = lock(1) + lock(2) + lock(3) + lock(4)
    BY DEF SumLock
  <2> HIDE DEF lock
  <2> QED
    BY <2>2, <2>3
<1> QED
  BY <1>2, <1>3

\* An effect plays a natural number, whatever its filter finds (play_traced).
LEMMA PlayIsNat ==
  ASSUME NEW f \in Frame, NEW fx \in Device, NEW filter \in Filter, NEW sense \in Sense
  PROVE  PlayOf(f, fx, filter, sense) \in Nat
<1>1. WheelSlip(f, fx.effect) \in [Wheels -> Int]
  BY WheelSlipType
<1>2. fx.tyres \in SUBSET Wheels /\ fx.threshold \in Nat
  BY DEF Device
<1>3. SlipPlay(f, fx) \in Nat /\ LockPlay(f, fx) \in Nat
  BY <1>1, <1>2, SumsAreNat DEF SlipPlay, LockPlay
<1>4. AbsPlay(f, fx, filter, sense) \in Nat
  <2> DEFINE slip == WheelSlip(f, fx.effect)
             lock == Max({0} \cup {slip[w] : w \in fx.tyres})
  <2>1. lock \in Nat
    BY <1>1, <1>2, PeakIsNat
  <2>2. Positive(lock - fx.threshold) \in Nat
    <3> HIDE DEF lock
    <3> QED
      BY <1>2, <2>1, PositiveIsNat
  <2> QED
    BY <2>2 DEF AbsPlay
<1>5. SuspensionPlay(f, filter, sense) \in {0, 2, 8}
  BY DEF SuspensionPlay, Sense
<1> QED
  BY <1>3, <1>4, <1>5 DEF PlayOf

LEMMA FilterStays ==
  ASSUME NEW f \in Frame, NEW fx \in Device, NEW filter \in Filter
  PROVE  FilterAfter(f, fx, filter) \in Filter
<1>1. BrakeApplied(f) \in BOOLEAN
  BY DEF BrakeApplied
<1> QED
  BY <1>1 DEF FilterAfter, Filter

LEMMA ScaledIsPercent ==
  ASSUME NEW play \in Nat, NEW amp \in Nat
  PROVE  ScaledPlay(play, amp) \in 0 .. 100
<1>1. PICK n \in Nat : n = play * amp
  OBVIOUS
<1> QED
  BY <1>1 DEF ScaledPlay

-----------------------------------------------------------------------------
(* A shaker's voice *)

LEMMA AtMostType == \A n \in Nat, top \in Nat : AtMost(n, top) \in 0 .. top
BY DEF AtMost

LEMMA SuspensionLevels ==
  ASSUME NEW play \in {2, 8}
  PROVE  SuspensionAmplitude(play) \in 0 .. 100
<1>1. \E a \in 0 .. 100 : 8 * a * a <= 10000 * play /\ 8 * (a + 1) * (a + 1) > 10000 * play
  <2>1. CASE play = 2
    <3>1. 8 * 50 * 50 <= 10000 * play /\ 8 * (50 + 1) * (50 + 1) > 10000 * play
      BY <2>1
    <3> QED
      BY <3>1
  <2>2. CASE play = 8
    <3>1. 8 * 100 * 100 <= 10000 * play /\ 8 * (100 + 1) * (100 + 1) > 10000 * play
      BY <2>2
    <3> QED
      BY <3>1
  <2> QED
    BY <2>1, <2>2
<1> QED
  BY <1>1 DEF SuspensionAmplitude

LEMMA EngineType ==
  ASSUME NEW voice \in Voice, NEW f \in Frame, NEW fx \in Device
  PROVE  UpdateEngine(voice, f, fx) \in Voice
<1> DEFINE rpm == EnginePlayRpm(f)
<1>1. f.rpms \in Nat /\ f.maxrpm \in Nat /\ f.idlerpm \in Nat /\ f.gas \in Nat
  BY DEF Frame
<1>2. rpm \in Nat
  <2>1. Max({f.rpms, f.idlerpm}) \in Nat
    BY <1>1, MaxOfTwo
  <2> QED
    BY <1>1, <2>1 DEF EnginePlayRpm
<1>3. ASSUME rpm # 0 PROVE f.maxrpm \in Nat \ {0}
  BY <1>1, <1>3 DEF EnginePlayRpm
<1>4. ASSUME rpm # 0 PROVE EngineAmplitude(f, rpm) \in 0 .. 100
  <2> HIDE DEF rpm
  <2>1. AtMost(rpm, f.maxrpm) \in Nat /\ AtMost(f.gas, 100) \in Nat
    BY <1>1, <1>2, <1>3, <1>4 DEF AtMost
  <2>2. (12 * AtMost(rpm, f.maxrpm)) \div f.maxrpm \in Nat
    BY <1>3, <1>4, <2>1
  <2>3. (75 * AtMost(f.gas, 100)) \div 100 \in Nat
    BY <2>1
  <2> QED
    BY <2>2, <2>3 DEF EngineAmplitude, AtMost
<1>5. ASSUME rpm # 0 PROVE EngineHz(rpm, f, fx) \in Nat
  <2> HIDE DEF rpm
  <2>0. fx.frequency \in Nat /\ fx.frequencyMax \in Nat
    BY DEF Device
  <2>1. BandMin(fx) \in 32 .. 119
    BY <2>0 DEF BandMin, ToneMin, ToneMax
  <2>2. BandMax(fx) \in Nat /\ BandMax(fx) > BandMin(fx)
    BY <2>0, <2>1 DEF BandMax, ToneMax
  <2>3. FiringHz(f.idlerpm) \in Nat
    BY <1>1 DEF FiringHz
  <2>4. IdleHz(f.idlerpm, BandMin(fx), BandMax(fx)) \in Nat
        /\ IdleHz(f.idlerpm, BandMin(fx), BandMax(fx)) <= BandMax(fx)
    BY <2>1, <2>2, <2>3 DEF IdleHz
  <2>5. RpmPercent(rpm, f.idlerpm, f.maxrpm) \in Nat
    <3>1. CASE f.idlerpm \in 1 .. f.maxrpm - 1
      <4>1. (100 * (rpm - f.idlerpm)) \div (f.maxrpm - f.idlerpm) \in Int
        BY <1>1, <1>2, <3>1
      <4>2. Positive((100 * (rpm - f.idlerpm)) \div (f.maxrpm - f.idlerpm)) \in Nat
        BY <4>1, PositiveIsNat
      <4> QED
        BY <3>1, <4>2 DEF RpmPercent, AtMost
    <3>2. CASE f.idlerpm \notin 1 .. f.maxrpm - 1
      <4>1. (100 * rpm) \div f.maxrpm \in Nat
        BY <1>2, <1>3, <1>5
      <4> QED
        BY <3>2, <4>1 DEF RpmPercent, AtMost
    <3> QED
      BY <3>1, <3>2
  <2>6. PICK idle \in Nat : idle = IdleHz(f.idlerpm, BandMin(fx), BandMax(fx))
    BY <2>4
  <2>7. PICK p \in Nat : p = RpmPercent(rpm, f.idlerpm, f.maxrpm)
    BY <2>5
  <2>8. PICK d \in Nat : d = BandMax(fx) - idle
    BY <2>2, <2>4, <2>6
  <2>9. PICK n \in Nat : n = d * p
    OBVIOUS
  <2>10. EngineHz(rpm, f, fx) = idle + n \div 100
    BY <2>6, <2>7, <2>8, <2>9 DEF EngineHz
  <2>11. n \div 100 \in Nat
    OBVIOUS
  <2> QED
    BY <2>10, <2>11
<1>6. CASE rpm = 0
  <2>1. UpdateEngine(voice, f, fx) = [voice EXCEPT !.frequency = 0, !.amplitude = 0]
    BY <1>6 DEF UpdateEngine, SilenceEngine
  <2>2. 0 \in 0 .. 100 /\ 0 \in Nat
    OBVIOUS
  <2> HIDE DEF rpm
  <2> QED
    BY <2>1, <2>2 DEF Voice
<1>7. CASE rpm # 0
  <2> HIDE DEF rpm
  <2>1. EngineHz(rpm, f, fx) \in Nat /\ EngineAmplitude(f, rpm) \in 0 .. 100
    BY <1>4, <1>5, <1>7
  <2>2. UpdateEngine(voice, f, fx) =
           [voice EXCEPT !.frequency = EngineHz(rpm, f, fx), !.duration = 0,
                         !.amplitude = EngineAmplitude(f, rpm)]
    BY <1>7 DEF UpdateEngine, rpm
  <2>3. 0 \in 0 .. HitLength
    BY HapticAssumption DEF HapticAssumption
  <2> QED
    BY <2>1, <2>2, <2>3 DEF Voice
<1> QED
  BY <1>6, <1>7

LEMMA GearType ==
  ASSUME NEW voice \in Voice, NEW f \in Frame, NEW fx \in Device
  PROVE  UpdateGear(voice, f, fx) \in Voice
<1>1. f.gear \in Nat /\ fx.frequency \in Nat /\ FadeLength \in Nat
  BY HapticAssumption DEF HapticAssumption, Frame, Device
<1>2. CASE voice.gear = f.gear
  BY <1>2 DEF UpdateGear
<1>3. CASE voice.gear # f.gear
  <2>1. UpdateGear(voice, f, fx) =
           [voice EXCEPT !.gear = f.gear, !.frequency = fx.frequency, !.amplitude = 100,
                         !.duration = voice.duration, !.elapsed = 0, !.gain = FadeLength]
    BY <1>3 DEF UpdateGear, BeginDecay, Voice
  <2>2. 100 \in 0 .. 100 /\ 0 \in 0 .. HitLength /\ FadeLength \in 0 .. FadeLength
    BY HapticAssumption DEF HapticAssumption
  <2> QED
    BY <1>1, <2>1, <2>2 DEF Voice
<1> QED
  BY <1>2, <1>3

LEMMA ContinuousType ==
  ASSUME NEW voice \in Voice, NEW fx \in Device, NEW play \in Nat, NEW reference \in {25, 35}
  PROVE  UpdateContinuous(voice, fx, play, reference) \in Voice
<1>1. fx.frequency \in Nat /\ 0 \in 0 .. HitLength /\ 0 \in 0 .. 100 /\ 0 \in Nat
  BY HapticAssumption DEF HapticAssumption, Device
<1>2. CASE play = 0
  BY <1>1, <1>2 DEF UpdateContinuous, Voice
<1>3. CASE play # 0
  <2>1. (100 * play) \div reference \in Nat
    OBVIOUS
  <2>2. Amplitude(play, reference) \in 0 .. 100
    BY <2>1, AtMostType DEF Amplitude
  <2> QED
    BY <1>1, <1>3, <2>2 DEF UpdateContinuous, Voice
<1> QED
  BY <1>2, <1>3

LEMMA ToneType ==
  ASSUME NEW voice \in Voice, NEW frequency \in Nat, NEW amplitude \in 0 .. 100,
         NEW duration \in 0 .. HitLength, NEW gain \in 0 .. FadeLength
  PROVE  [voice EXCEPT !.frequency = frequency, !.amplitude = amplitude,
                       !.duration = duration, !.elapsed = 0, !.gain = gain] \in Voice
<1>1. PICK v \in Voice : v = [voice EXCEPT !.frequency = frequency, !.amplitude = amplitude]
  BY DEF Voice
<1>2. 0 \in 0 .. HitLength
  BY HapticAssumption DEF HapticAssumption
<1>3. PICK w \in Voice : w = [v EXCEPT !.duration = duration, !.elapsed = 0]
  BY <1>2 DEF Voice
<1>4. [w EXCEPT !.gain = gain] \in Voice
  BY DEF Voice
<1>5. [w EXCEPT !.gain = gain] =
         [voice EXCEPT !.frequency = frequency, !.amplitude = amplitude,
                       !.duration = duration, !.elapsed = 0, !.gain = gain]
  BY <1>1, <1>3 DEF Voice
<1> QED
  BY <1>4, <1>5

LEMMA SuspensionType ==
  ASSUME NEW voice \in Voice, NEW f \in Frame, NEW fx \in Device, NEW play \in {0, 2, 8}
  PROVE  UpdateSuspension(voice, f, fx, play) \in Voice
<1>1. /\ 0 \in 0 .. HitLength /\ HitLength \in 0 .. HitLength /\ 0 \in Nat
      /\ 0 \in 0 .. 100 /\ 0 \in 0 .. FadeLength /\ FadeLength \in 0 .. FadeLength
  BY HapticAssumption DEF HapticAssumption
<1>2. CASE ~ChassisIsRolling(f)
  <2>1. PICK released \in Voice : released = [voice EXCEPT !.held = FALSE]
    BY DEF Voice
  <2>2. UpdateSuspension(voice, f, fx, play) =
           [released EXCEPT !.frequency = 0, !.amplitude = 0,
                       !.duration = 0, !.elapsed = 0, !.gain = 0]
    BY <1>2, <2>1 DEF UpdateSuspension, StopDecay
  <2>3. [released EXCEPT !.frequency = 0, !.amplitude = 0,
                         !.duration = 0, !.elapsed = 0, !.gain = 0] \in Voice
    BY <1>1, ToneType
  <2> QED
    BY <2>2, <2>3
<1>3. CASE ChassisIsRolling(f) /\ play = 0
  <2>1. UpdateSuspension(voice, f, fx, play) = [voice EXCEPT !.held = FALSE]
    BY <1>3 DEF UpdateSuspension
  <2> QED
    BY <2>1 DEF Voice
<1>4. CASE ChassisIsRolling(f) /\ play \in {2, 8}
  <2>1. CASE voice.held
    BY <1>4, <2>1 DEF UpdateSuspension
  <2>2. CASE ~voice.held
    <3>1. PICK level \in 0 .. 100 : level = SuspensionAmplitude(play)
      BY <1>4, SuspensionLevels
    <3>2. BandHz(fx, level) \in Nat
      <4>1. fx.frequency \in Nat /\ fx.frequencyMax - fx.frequency \in Int
        BY DEF Device
      <4>2. PICK n \in Nat : n = Positive(fx.frequencyMax - fx.frequency)
        BY <4>1, PositiveIsNat
      <4>3. PICK m \in Nat : m = n * level
        OBVIOUS
      <4>4. m \div 100 \in Nat
        OBVIOUS
      <4> QED
        BY <4>1, <4>2, <4>3, <4>4 DEF BandHz
    <3>3. UpdateSuspension(voice, f, fx, play) = HitSuspension(voice, fx, play)
      BY <1>4, <2>2 DEF UpdateSuspension
    <3>4. PICK held \in Voice : held = [voice EXCEPT !.held = TRUE]
      BY DEF Voice
    <3>5. HitSuspension(voice, fx, play) =
             [held EXCEPT !.frequency = BandHz(fx, level), !.amplitude = level,
                          !.duration = HitLength, !.elapsed = 0, !.gain = FadeLength]
      BY <3>1, <3>4 DEF HitSuspension, BeginDecay
    <3>6. [held EXCEPT !.frequency = BandHz(fx, level), !.amplitude = level,
                       !.duration = HitLength, !.elapsed = 0, !.gain = FadeLength] \in Voice
      BY <1>1, <3>2, ToneType
    <3> QED
      BY <3>3, <3>5, <3>6
  <2> QED
    BY <2>1, <2>2
<1> QED
  BY <1>2, <1>3, <1>4

\* A voice stays one, and a gated effect's is silent (Tone::update).
LEMMA VoiceStays ==
  ASSUME NEW voice \in Voice, NEW f \in Frame, NEW fx \in Device, NEW sense \in Sense
  PROVE  /\ UpdateVoice(voice, f, fx, sense) \in Voice
         /\ fx.effect \in UsesSlip /\ ~CarIsMoving(f) =>
               UpdateVoice(voice, f, fx, sense).amplitude = 0
         /\ fx.effect = "Suspension" /\ ~ChassisIsRolling(f) =>
               /\ UpdateVoice(voice, f, fx, sense).amplitude = 0
               /\ UpdateVoice(voice, f, fx, sense).gain = 0
<1> DEFINE play == PlayOf(f, fx, voice.filter, sense)
           next == IF fx.effect = "Suspension" /\ ~ChassisIsRolling(f) THEN voice
                   ELSE [voice EXCEPT !.filter = FilterAfter(f, fx, voice.filter)]
           after == UpdateVoice(voice, f, fx, sense)
<1>1. voice.filter \in Filter /\ fx.effect \in VibrationEffects
  BY DEF Voice, Device
<1>2. play \in Nat
  BY <1>1, PlayIsNat
<1>3. next \in Voice
  <2>1. FilterAfter(f, fx, voice.filter) \in Filter
    BY <1>1, FilterStays
  <2> QED
    BY <2>1 DEF Voice
<1>4. CASE fx.effect = "EngineRpm"
  BY <1>4, EngineType DEF UpdateVoice, UsesSlip
<1>5. CASE fx.effect = "GearShift"
  BY <1>5, GearType DEF UpdateVoice, UsesSlip
<1>6. CASE fx.effect \in UsesSlip
  <2>1. ASSUME NEW reference \in {25, 35}
        PROVE  /\ UpdateContinuous(next, fx, play, reference) \in Voice
               /\ play = 0 => UpdateContinuous(next, fx, play, reference).amplitude = 0
    <3> HIDE DEF play, next
    <3>1. UpdateContinuous(next, fx, play, reference) \in Voice
      BY <1>2, <1>3, ContinuousType
    <3>2. play = 0 => UpdateContinuous(next, fx, play, reference).amplitude = 0
      BY <1>3 DEF UpdateContinuous, Voice
    <3> QED
      BY <3>1, <3>2
  <2>2. ~CarIsMoving(f) => play = 0
    BY <1>6 DEF PlayOf, UsesSlip
  <2>3. after = UpdateSlip(next, fx, play) \/ after = UpdateContinuous(next, fx, play, 35)
           \/ after = UpdateAbs(next, fx, play)
    <3> HIDE DEF next, play
    <3>1. after = CASE fx.effect = "EngineRpm" -> UpdateEngine(voice, f, fx)
                    [] fx.effect = "GearShift" -> UpdateGear(voice, f, fx)
                    [] fx.effect = "TyreSlip" -> UpdateSlip(next, fx, play)
                    [] fx.effect = "TyreLock" -> UpdateContinuous(next, fx, play, 35)
                    [] fx.effect = "AbsBrakes" -> UpdateAbs(next, fx, play)
                    [] fx.effect = "Suspension" -> UpdateSuspension(next, f, fx, play)
      BY DEF UpdateVoice, next, play
    <3> HIDE DEF after
    <3> QED
      BY <1>6, <3>1 DEF UsesSlip
  <2>4. (play > 0) \in BOOLEAN
    OBVIOUS
  <2> HIDE DEF next, play, after
  <2>5. after \in Voice /\ (play = 0 => after.amplitude = 0)
    BY <2>1, <2>3, <2>4 DEF UpdateSlip, UpdateAbs, Voice
  <2> QED
    BY <1>6, <2>2, <2>5 DEF after, UsesSlip
<1>7. CASE fx.effect = "Suspension"
  <2>1. play \in {0, 2, 8}
    BY <1>7 DEF PlayOf, SuspensionPlay, Sense
  <2>2. after = UpdateSuspension(next, f, fx, play)
    BY <1>7 DEF UpdateVoice
  <2> HIDE DEF play, next, after
  <2>3. after \in Voice
    BY <1>3, <2>1, <2>2, SuspensionType
  <2>4. ~ChassisIsRolling(f) => after.amplitude = 0 /\ after.gain = 0
    BY <1>3, <2>2 DEF UpdateSuspension, StopDecay, Voice
  <2> QED
    BY <1>7, <2>3, <2>4 DEF after, UsesSlip
<1> QED
  BY <1>1, <1>4, <1>5, <1>6, <1>7 DEF VibrationEffects, UsesSlip

\* Rendering keeps a voice one, and a silent one silent (render_bytes).
LEMMA RenderedStays ==
  ASSUME NEW voice \in Voice, NEW fx
  PROVE  /\ Rendered(voice, fx) \in Voice
         /\ voice.amplitude = 0 => Rendered(voice, fx).amplitude = 0
         /\ voice.amplitude = 0 /\ voice.gain = 0 => Rendered(voice, fx).gain = 0
<1> DEFINE followed == Followed(voice, fx)
<1>1. /\ followed \in Voice
      /\ voice.amplitude = 0 => followed.amplitude = 0
      /\ voice.amplitude = 0 /\ voice.gain = 0 => followed.gain = 0
  <2> DEFINE gain == IF Audible(voice, fx) THEN FadeLength ELSE Positive(voice.gain - 1)
  <2>1. followed = [voice EXCEPT !.gain = gain]
    BY DEF Followed
  <2>2. gain \in 0 .. FadeLength
    BY HapticAssumption DEF HapticAssumption, Positive, Voice
  <2>3. voice.amplitude = 0 /\ voice.gain = 0 => gain = 0
    BY DEF Audible, Positive
  <2> HIDE DEF gain, followed
  <2> QED
    BY <2>1, <2>2, <2>3 DEF Voice
<1> HIDE DEF followed
<1>2. ASSUME NEW v \in Voice
      PROVE  /\ AdvanceDecay(v) \in Voice
             /\ v.amplitude = 0 => AdvanceDecay(v).amplitude = 0
             /\ AdvanceDecay(v).gain = v.gain
  <2>1. CASE v.duration = 0 \/ v.frequency = 0
    BY <2>1 DEF AdvanceDecay
  <2>2. CASE v.duration > 0 /\ v.frequency > 0
    <3>1. CASE v.elapsed + 1 >= v.duration
      <4>1. AdvanceDecay(v) = [v EXCEPT !.elapsed = 0, !.frequency = 0, !.amplitude = 0]
        BY <2>2, <3>1 DEF AdvanceDecay
      <4>2. 0 \in 0 .. HitLength /\ 0 \in 0 .. 100 /\ 0 \in Nat
        BY HapticAssumption DEF HapticAssumption
      <4> QED
        BY <4>1, <4>2 DEF Voice
    <3>2. CASE ~(v.elapsed + 1 >= v.duration)
      <4>1. AdvanceDecay(v) = [v EXCEPT !.elapsed = v.elapsed + 1]
        BY <2>2, <3>2 DEF AdvanceDecay
      <4>2. v.elapsed + 1 \in 0 .. HitLength
        BY <3>2, HapticAssumption DEF HapticAssumption, Voice
      <4> QED
        BY <4>1, <4>2 DEF Voice
    <3> QED
      BY <3>1, <3>2
  <2> QED
    BY <2>1, <2>2 DEF Voice
<1>3. Rendered(voice, fx) = AdvanceDecay(followed)
  BY DEF Rendered, followed
<1> QED
  BY <1>1, <1>2, <1>3

-----------------------------------------------------------------------------
(* The R9 *)

LEMMA BitsType ==
  ASSUME NEW f \in Frame, NEW lit \in 0 .. LedCount
  PROVE  RpmBits(f, lit) \in 0 .. LedCount /\ FracBits(f.brake, lit) \in 0 .. LedCount
<1>1. f.rpms \in Nat /\ f.maxrpm \in Nat /\ f.idlerpm \in Nat /\ f.brake \in Nat
  BY DEF Frame
<1>2. ASSUME NEW tenths \in Nat, NEW raw \in 0 .. 10
      PROVE  ApplyHysteresis(tenths, raw, lit) \in 0 .. 10
  BY DEF ApplyHysteresis, LedCount
<1>3. ASSUME NEW tenths \in 0 .. 100 PROVE (tenths + 5) \div 10 \in 0 .. 10
  OBVIOUS
<1>4. RpmBits(f, lit) \in 0 .. LedCount
  <2>1. CASE f.maxrpm <= f.idlerpm \/ 5 * f.rpms < 4 * f.maxrpm + f.idlerpm
    BY <2>1 DEF RpmBits, LedCount
  <2>2. CASE ~(f.maxrpm <= f.idlerpm \/ 5 * f.rpms < 4 * f.maxrpm + f.idlerpm)
    <3>1. PICK n \in Nat : n = 100 * (5 * f.rpms - 4 * f.maxrpm - f.idlerpm)
      BY <1>1, <2>2
    <3>2. PICK d \in Nat \ {0} : d = f.maxrpm - f.idlerpm
      BY <1>1, <2>2
    <3>3. n \div d \in Nat
      OBVIOUS
    <3>4. RpmTenths(f) \in 0 .. 100
      BY <3>1, <3>2, <3>3 DEF RpmTenths, AtMost
    <3>5. PICK tenths \in 0 .. 100 : tenths = RpmTenths(f)
      BY <3>4
    <3>6. RpmBits(f, lit) = ApplyHysteresis(tenths, (tenths + 5) \div 10, lit)
      BY <2>2, <3>5 DEF RpmBits
    <3> QED
      BY <1>2, <1>3, <3>6 DEF LedCount
  <2> QED
    BY <2>1, <2>2
<1>5. FracBits(f.brake, lit) \in 0 .. LedCount
  <2>1. CASE f.brake <= 0
    BY <2>1 DEF FracBits, LedCount
  <2>2. CASE f.brake > 0
    <3>1. PICK tenths \in 0 .. 100 : tenths = AtMost(f.brake, 100)
      BY <1>1 DEF AtMost
    <3>2. PICK r \in 0 .. 10 : r = (tenths + 5) \div 10
      BY <1>3
    <3>3. PICK raw \in 0 .. 10 : raw = Max({1, r})
      BY MaxOfTwo
    <3>4. PICK shown \in 0 .. 10 : shown = ApplyHysteresis(tenths, raw, lit)
      BY <1>2
    <3>5. Max({1, shown}) \in 0 .. 10
      BY MaxOfTwo
    <3>6. FracBits(f.brake, lit) = Max({1, shown})
      BY <1>1, <2>2, <3>1, <3>2, <3>3, <3>4 DEF FracBits
    <3> QED
      BY <3>5, <3>6 DEF LedCount
  <2> QED
    BY <1>1, <2>1, <2>2
<1> QED
  BY <1>4, <1>5

LEMMA CornersType ==
  ASSUME NEW f \in Frame
  PROVE  CornersFrom(f) \in [Wheels -> 0 .. 100]
<1>1. ASSUME NEW w \in Wheels PROVE HeatRgb(HeatScaled(f.temps[w], f.acr)) \in 0 .. 100
  <2>1. f.temps[w] \in Int
    BY DEF Frame
  <2> DEFINE cold == IF f.acr THEN 320 ELSE 120
             hot == IF f.acr THEN 750 ELSE 620
             share == (100 * (f.temps[w] - cold)) \div (hot - cold)
  <2>2. share \in Int
    BY <2>1
  <2>3. AtMost(Positive(share), 100) \in 0 .. 100
    <3> HIDE DEF share
    <3> QED
      BY <2>2 DEF AtMost, Positive
  <2>4. HeatScaled(f.temps[w], f.acr) \in {0, 100, AtMost(Positive(share), 100)}
    BY <2>1 DEF HeatScaled
  <2> HIDE DEF share
  <2>5. HeatScaled(f.temps[w], f.acr) \in 0 .. 100
    BY <2>3, <2>4
  <2> QED
    BY <2>5 DEF HeatRgb
<1> QED
  BY <1>1 DEF CornersFrom, CornersOff

TickParts(drive, state) ==
    \E newCorners \in BOOLEAN, lit \in 0 .. LedCount :
        /\ drive.frames =
              (IF drive.state.bar = state.bar THEN <<>> ELSE BarColours(drive.state.bar))
                  \o (IF newCorners THEN WriteBrakeButtons(drive.state.corners) ELSE <<>>)
                  \o RpmMask(lit)
        /\ ~newCorners => /\ drive.state.corners = state.corners
                          /\ drive.state.hasButtonWrite = state.hasButtonWrite

\* What a tick of an armed wheel sends and leaves behind (update_moza_new): a
\* new bar's colours, new corners, and always the mask.
LEMMA DriveWheelParts ==
  ASSUME NEW state \in MozaState, NEW f \in Frame, NEW clock \in MozaClock,
         NEW drive, drive = DriveWheel(state, f, clock)
  PROVE  /\ drive.state \in MozaState /\ drive.state.armed = state.armed /\ drive.rpmSent
         /\ TickParts(drive, state)
<1> DEFINE latched == Latch(state, f)
           wanted == [latched EXCEPT !.braking = Braking(state, f)]
           bar == ChangeBar(wanted, DesiredBar(wanted))
           corners == ChangeCorners(bar.state, CornersFrom(f), clock)
           mask == BarMask(corners.state, f, clock)
<1>1. /\ latched \in MozaState
      /\ latched.armed = state.armed /\ latched.bar = state.bar
      /\ latched.corners = state.corners /\ latched.hasButtonWrite = state.hasButtonWrite
  <2>1. f.abs \in BOOLEAN
    BY DEF Frame
  <2>2. PICK locks \in BOOLEAN :
           locks = (IF state.lockLatched THEN Locking(f) /\ PeakSlip(f) >= 18 ELSE Locking(f))
    BY DEF Locking
  <2>3. latched = [state EXCEPT !.lockLatched = locks, !.absLatched = f.abs]
    BY <2>2 DEF Latch, MozaState
  <2> HIDE DEF latched
  <2> QED
    BY <2>1, <2>3 DEF MozaState
<1>2. Braking(state, f) \in BOOLEAN
  <2>1. f.brake \in Nat
    BY DEF Frame
  <2>2. f.brake >= 4 \/ f.brake < 2 \/ f.brake \in 2 .. 3
    BY <2>1
  <2> QED
    BY <2>1, <2>2 DEF Braking, MozaState
<1>3. /\ wanted \in MozaState
      /\ wanted.armed = state.armed /\ wanted.bar = state.bar
      /\ wanted.corners = state.corners /\ wanted.hasButtonWrite = state.hasButtonWrite
  <2> HIDE DEF latched
  <2> QED
    BY <1>1, <1>2 DEF MozaState
<1>4. DesiredBar(wanted) \in Bars
  BY DEF DesiredBar, AlertMode, Bars
<1>5. /\ bar.state \in MozaState /\ bar.state.armed = state.armed
      /\ bar.state.corners = state.corners /\ bar.state.hasButtonWrite = state.hasButtonWrite
      /\ bar.frames = IF bar.state.bar = state.bar THEN <<>> ELSE BarColours(bar.state.bar)
  <2> HIDE DEF wanted
  <2>1. PICK b \in Bars : b = DesiredBar(wanted)
    BY <1>4
  <2>2. PICK lit \in 0 .. LedCount :
           lit = IF b = "Rpm" /\ b # wanted.bar THEN 0 ELSE wanted.brakeLit
    BY <1>3 DEF MozaState, LedCount
  <2>3. bar.state = [wanted EXCEPT !.bar = b, !.brakeLit = lit]
    BY <1>3, <2>1, <2>2 DEF ChangeBar, MozaState
  <2>4. bar.frames = IF b = wanted.bar THEN <<>> ELSE BarColours(b)
    BY <2>1 DEF ChangeBar
  <2>5. bar.state \in MozaState /\ bar.state.bar = b
    BY <1>3, <2>3 DEF MozaState
  <2> HIDE DEF bar
  <2> QED
    BY <1>3, <2>3, <2>4, <2>5 DEF MozaState
<1>6. \E newCorners \in BOOLEAN :
         /\ corners.state \in MozaState /\ corners.state.armed = state.armed
         /\ corners.state.bar = bar.state.bar
         /\ corners.frames = IF newCorners THEN WriteBrakeButtons(corners.state.corners)
                             ELSE <<>>
         /\ ~newCorners => /\ corners.state.corners = state.corners
                           /\ corners.state.hasButtonWrite = state.hasButtonWrite
  <2> DEFINE before == bar.state
             heat == CornersFrom(f)
             writes == /\ heat # before.corners
                       /\ \/ CornersMask(heat) # CornersMask(before.corners)
                          \/ ~before.hasButtonWrite
                          \/ clock.due
  <2>0. corners = IF writes
                  THEN [frames |-> WriteBrakeButtons(heat),
                        state |-> [before EXCEPT !.corners = heat, !.hasButtonWrite = TRUE]]
                  ELSE [frames |-> <<>>, state |-> before]
    BY DEF ChangeCorners
  <2>1. heat \in [Wheels -> 0 .. 100]
    BY CornersType
  <2>2. before \in MozaState /\ before.armed = state.armed
        /\ before.corners = state.corners /\ before.hasButtonWrite = state.hasButtonWrite
    BY <1>5
  <2> HIDE DEF before, heat, corners
  <2>3. CASE writes
    <3>1. corners.frames = WriteBrakeButtons(heat)
          /\ corners.state = [before EXCEPT !.corners = heat, !.hasButtonWrite = TRUE]
      BY <2>0, <2>3
    <3>2. PICK heated \in MozaState : heated = [before EXCEPT !.corners = heat]
      BY <2>1, <2>2 DEF MozaState
    <3>3. corners.state = [heated EXCEPT !.hasButtonWrite = TRUE]
      BY <2>2, <3>1, <3>2 DEF MozaState
    <3>4. corners.state \in MozaState /\ corners.state.armed = before.armed
          /\ corners.state.bar = before.bar /\ corners.state.corners = heat
      BY <2>2, <3>2, <3>3 DEF MozaState
    <3> QED
      BY <2>2, <3>1, <3>4 DEF before
  <2>4. CASE ~writes
    <3>1. corners.frames = <<>> /\ corners.state = before
      BY <2>0, <2>4
    <3> QED
      BY <2>2, <3>1 DEF before
  <2> QED
    BY <2>3, <2>4
<1>7. /\ mask.state \in MozaState /\ mask.state.armed = corners.state.armed
      /\ mask.state.bar = corners.state.bar /\ mask.state.corners = corners.state.corners
      /\ mask.state.hasButtonWrite = corners.state.hasButtonWrite
      /\ mask.lit \in 0 .. LedCount
  <2>1. PICK now \in MozaState : now = corners.state
    BY <1>6
  <2> HIDE DEF corners
  <2>2. now.bar \in Bars /\ now.brakeLit \in 0 .. LedCount /\ now.rpmLit \in 0 .. LedCount
    BY DEF MozaState
  <2>3. PICK brakeLit \in 0 .. LedCount : brakeLit = FracBits(f.brake, now.brakeLit)
    BY <2>2, BitsType
  <2>4. PICK rpmLit \in 0 .. LedCount : rpmLit = RpmBits(f, now.rpmLit)
    BY <2>2, BitsType
  <2>5. PICK alertLit \in 0 .. LedCount :
           alertLit = IF f.brake >= 2 THEN brakeLit ELSE LedCount
    BY DEF LedCount
  <2>6. 0 \in 0 .. LedCount
    BY DEF LedCount
  <2>7. PICK lit \in 0 .. LedCount, brake \in 0 .. LedCount, rpm \in 0 .. LedCount :
           mask = [lit |-> lit, state |-> [now EXCEPT !.brakeLit = brake, !.rpmLit = rpm]]
    <3>1. CASE now.bar = "Brake"
      <4>1. mask = [lit |-> brakeLit, state |-> [now EXCEPT !.brakeLit = brakeLit]]
        BY <2>1, <2>3, <3>1 DEF BarMask
      <4>2. [now EXCEPT !.brakeLit = brakeLit] =
               [now EXCEPT !.brakeLit = brakeLit, !.rpmLit = now.rpmLit]
        BY DEF MozaState
      <4> QED
        BY <2>2, <4>1, <4>2
    <3>2. CASE now.bar \in {"Lock", "Abs"}
      <4>1. mask = [lit |-> IF clock.blinkOff THEN 0 ELSE alertLit,
                    state |-> [now EXCEPT !.brakeLit = alertLit]]
        BY <2>1, <2>3, <2>5, <3>2 DEF BarMask
      <4>2. [now EXCEPT !.brakeLit = alertLit] =
               [now EXCEPT !.brakeLit = alertLit, !.rpmLit = now.rpmLit]
        BY DEF MozaState
      <4>3. PICK lit \in 0 .. LedCount : lit = IF clock.blinkOff THEN 0 ELSE alertLit
        BY <2>6
      <4> QED
        BY <2>2, <4>1, <4>2, <4>3
    <3>3. CASE now.bar = "Rpm"
      <4>1. mask = [lit |-> rpmLit, state |-> [now EXCEPT !.brakeLit = 0, !.rpmLit = rpmLit]]
        BY <2>1, <2>4, <3>3 DEF BarMask
      <4> QED
        BY <2>6, <4>1
    <3> QED
      BY <2>2, <3>1, <3>2, <3>3 DEF Bars
  <2> HIDE DEF mask
  <2>8. mask.lit = lit /\ mask.state = [now EXCEPT !.brakeLit = brake, !.rpmLit = rpm]
    BY <2>7
  <2> QED
    BY <2>1, <2>8 DEF MozaState
<1>9. /\ drive.frames = bar.frames \o corners.frames \o RpmMask(mask.lit)
      /\ drive.state = mask.state /\ drive.rpmSent
  BY DEF DriveWheel
<1> HIDE DEF latched, wanted, bar, corners, mask
<1>10. PICK newCorners \in BOOLEAN :
         /\ corners.state \in MozaState /\ corners.state.armed = state.armed
         /\ corners.state.bar = bar.state.bar
         /\ corners.frames = IF newCorners THEN WriteBrakeButtons(corners.state.corners)
                             ELSE <<>>
         /\ ~newCorners => /\ corners.state.corners = state.corners
                           /\ corners.state.hasButtonWrite = state.hasButtonWrite
  BY <1>6
<1>11. /\ drive.state \in MozaState /\ drive.state.armed = state.armed /\ drive.rpmSent
       /\ drive.state.bar = bar.state.bar /\ drive.state.corners = corners.state.corners
       /\ drive.state.hasButtonWrite = corners.state.hasButtonWrite
  BY <1>7, <1>9, <1>10
<1>12. drive.frames =
         (IF drive.state.bar = state.bar THEN <<>> ELSE BarColours(drive.state.bar))
             \o (IF newCorners THEN WriteBrakeButtons(drive.state.corners) ELSE <<>>)
             \o RpmMask(mask.lit)
  BY <1>5, <1>9, <1>10, <1>11
<1>13. ~newCorners => /\ drive.state.corners = state.corners
                      /\ drive.state.hasButtonWrite = state.hasButtonWrite
  BY <1>10, <1>11
<1> QED
  BY <1>7, <1>11, <1>12, <1>13 DEF TickParts

\* The frames of a tick: those that arm it, the bar's, the corners' and the mask.
WheelFrames(arms, bars, writes, lit) == arms \o (bars \o writes \o RpmMask(lit))

\* What the wheel shows after them.
LEMMA WheelTold ==
  ASSUME NEW bar, NEW corners, NEW lit, NEW arrived, NEW frames,
         NEW arms \in {<<>>, ArmTelemetry}, NEW bars \in {<<>>, BarColours(bar)},
         NEW writes \in {<<>>, WriteBrakeButtons(corners)},
         frames = WheelFrames(arms, bars, writes, lit),
         Deliver(frames, arrived),
         {"bar", "corners", "buttons", "mask"} \subseteq DOMAIN shows
  PROVE  /\ shows'["mask"] = IF Len(frames) \in arrived THEN lit ELSE Unknown
         /\ bars # <<>> => shows'["bar"] \in {BarColour(bar), Unknown}
         /\ bars = <<>> /\ arms # <<>> => shows'["bar"] \in {"rpm", Unknown}
         /\ bars = <<>> /\ arms = <<>> => shows'["bar"] = shows["bar"]
         /\ writes # <<>> => /\ shows'["corners"] \in {corners, Unknown}
                             /\ shows'["buttons"] \in {CornersMask(corners), Unknown}
         /\ writes = <<>> => /\ shows'["corners"] = shows["corners"]
                             /\ shows'["buttons"] = shows["buttons"]
<1>0. PICK a \in Nat, b \in Nat, c \in Nat :
         a = Len(arms) /\ b = a + Len(bars) /\ c = b + Len(writes)
  <2>1. Len(arms) \in Nat /\ Len(bars) \in Nat /\ Len(writes) \in Nat
    BY DEF ArmTelemetry, BarColours, WriteBrakeButtons
  <2> QED
    BY <2>1
<1>1. /\ Len(frames) = c + 1 /\ DOMAIN frames = 1 .. c + 1
      /\ frames[c + 1] = [mask |-> lit]
      /\ a \in {0, 2} /\ b \in {a, a + 1} /\ c \in {b, b + 2}
      /\ c = b + 2 => /\ frames[b + 1] = [corners |-> corners]
                      /\ frames[b + 2] = [buttons |-> CornersMask(corners)]
      /\ b = a + 1 => frames[a + 1] = [bar |-> BarColour(bar)]
      /\ a = 2 => frames[1] = [bar |-> "rpm"] /\ frames[2] = [settings |-> "telemetry"]
  <2> USE DEF WheelFrames, ArmTelemetry, BarColours, WriteBrakeButtons, RpmMask
  <2>0. BarColour("Rpm") = "rpm"
    BY DEF BarColour
  <2>1. CASE arms = ArmTelemetry /\ bars = BarColours(bar) /\ writes = WriteBrakeButtons(corners)
    <3>1. a = 2 /\ b = 3 /\ c = 5
      BY <1>0, <2>1
    <3> QED
      BY <2>0, <2>1, <3>1
  <2>2. CASE arms = ArmTelemetry /\ bars = BarColours(bar) /\ writes = <<>>
    <3>1. a = 2 /\ b = 3 /\ c = 3
      BY <1>0, <2>2
    <3> QED
      BY <2>0, <2>2, <3>1
  <2>3. CASE arms = ArmTelemetry /\ bars = <<>> /\ writes = WriteBrakeButtons(corners)
    <3>1. a = 2 /\ b = 2 /\ c = 4
      BY <1>0, <2>3
    <3> QED
      BY <2>0, <2>3, <3>1
  <2>4. CASE arms = ArmTelemetry /\ bars = <<>> /\ writes = <<>>
    <3>1. a = 2 /\ b = 2 /\ c = 2
      BY <1>0, <2>4
    <3> QED
      BY <2>0, <2>4, <3>1
  <2>5. CASE arms = <<>> /\ bars = BarColours(bar) /\ writes = WriteBrakeButtons(corners)
    <3>1. a = 0 /\ b = 1 /\ c = 3
      BY <1>0, <2>5
    <3> QED
      BY <2>0, <2>5, <3>1
  <2>6. CASE arms = <<>> /\ bars = BarColours(bar) /\ writes = <<>>
    <3>1. a = 0 /\ b = 1 /\ c = 1
      BY <1>0, <2>6
    <3> QED
      BY <2>0, <2>6, <3>1
  <2>7. CASE arms = <<>> /\ bars = <<>> /\ writes = WriteBrakeButtons(corners)
    <3>1. a = 0 /\ b = 0 /\ c = 2
      BY <1>0, <2>7
    <3> QED
      BY <2>0, <2>7, <3>1
  <2>8. CASE arms = <<>> /\ bars = <<>> /\ writes = <<>>
    <3>1. a = 0 /\ b = 0 /\ c = 0
      BY <1>0, <2>8
    <3> QED
      BY <2>0, <2>8, <3>1
  <2> QED
    BY <2>1, <2>2, <2>3, <2>4, <2>5, <2>6, <2>7, <2>8
<1>2. /\ arms # <<>> <=> a = 2
      /\ bars # <<>> <=> b = a + 1
      /\ writes # <<>> <=> c = b + 2
  <2>1. Len(ArmTelemetry) = 2 /\ Len(BarColours(bar)) = 1
        /\ Len(WriteBrakeButtons(corners)) = 2 /\ Len(<<>>) = 0
    BY DEF ArmTelemetry, BarColours, WriteBrakeButtons
  <2>2. /\ Len(arms) = IF arms = <<>> THEN 0 ELSE 2
        /\ Len(bars) = IF bars = <<>> THEN 0 ELSE 1
        /\ Len(writes) = IF writes = <<>> THEN 0 ELSE 2
    BY <2>1
  <2> QED
    BY <1>0, <2>2
<1>3. /\ DOMAIN frames[c + 1] = {"mask"} /\ frames[c + 1]["mask"] = lit
      /\ c = b + 2 =>
            /\ DOMAIN frames[b + 1] = {"corners"} /\ frames[b + 1]["corners"] = corners
            /\ DOMAIN frames[b + 2] = {"buttons"}
            /\ frames[b + 2]["buttons"] = CornersMask(corners)
      /\ b = a + 1 => DOMAIN frames[a + 1] = {"bar"} /\ frames[a + 1]["bar"] = BarColour(bar)
      /\ a = 2 => /\ DOMAIN frames[1] = {"bar"} /\ frames[1]["bar"] = "rpm"
                  /\ DOMAIN frames[2] = {"settings"}
  BY <1>1
<1>4. \A i \in 1 .. c + 1 :
         /\ "mask" \in DOMAIN frames[i] => i = c + 1
         /\ "corners" \in DOMAIN frames[i] => c = b + 2 /\ i = b + 1
         /\ "buttons" \in DOMAIN frames[i] => c = b + 2 /\ i = b + 2
         /\ "bar" \in DOMAIN frames[i] => (b = a + 1 /\ i = a + 1) \/ (a = 2 /\ i = 1)
  <2>1. ASSUME NEW i \in 1 .. c + 1
        PROVE  i = c + 1 \/ (c = b + 2 /\ i \in {b + 1, b + 2}) \/ (b = a + 1 /\ i = a + 1)
                  \/ (a = 2 /\ i \in {1, 2})
    BY <1>1
  <2> QED
    BY <1>3, <2>1
<1>5. DOMAIN frames \subseteq Int
  BY <1>1
<1>6. shows'["mask"] = IF c + 1 \in arrived THEN lit ELSE Unknown
  <2>1. c + 1 \in DOMAIN frames /\ "mask" \in DOMAIN frames[c + 1]
    BY <1>1, <1>3
  <2>2. \A j \in DOMAIN frames : "mask" \in DOMAIN frames[j] => j <= c + 1
    BY <1>1, <1>4
  <2> QED
    BY <1>3, <1>5, <2>1, <2>2, Delivered
<1>7. ASSUME b = a + 1 PROVE shows'["bar"] \in {BarColour(bar), Unknown}
  <2>1. a + 1 \in DOMAIN frames /\ "bar" \in DOMAIN frames[a + 1]
    BY <1>1, <1>3, <1>7
  <2>2. \A j \in DOMAIN frames : "bar" \in DOMAIN frames[j] => j <= a + 1
    BY <1>1, <1>4
  <2>3. shows'["bar"] = IF a + 1 \in arrived THEN frames[a + 1]["bar"] ELSE Unknown
    BY <1>5, <2>1, <2>2, Delivered
  <2> QED
    BY <1>3, <1>7, <2>3
<1>8. ASSUME b # a + 1, a = 2 PROVE shows'["bar"] \in {"rpm", Unknown}
  <2>1. 1 \in DOMAIN frames /\ "bar" \in DOMAIN frames[1]
    BY <1>1, <1>3, <1>8
  <2>2. \A j \in DOMAIN frames : "bar" \in DOMAIN frames[j] => j <= 1
    BY <1>1, <1>4, <1>8
  <2>3. shows'["bar"] = IF 1 \in arrived THEN frames[1]["bar"] ELSE Unknown
    BY <1>5, <2>1, <2>2, Delivered
  <2> QED
    BY <1>3, <1>8, <2>3
<1>9. ASSUME b # a + 1, a # 2 PROVE shows'["bar"] = shows["bar"]
  BY <1>1, <1>4, <1>5, <1>9, Delivered
<1>10. ASSUME c = b + 2
       PROVE  /\ shows'["corners"] \in {corners, Unknown}
              /\ shows'["buttons"] \in {CornersMask(corners), Unknown}
  <2>1. /\ b + 1 \in DOMAIN frames /\ "corners" \in DOMAIN frames[b + 1]
        /\ b + 2 \in DOMAIN frames /\ "buttons" \in DOMAIN frames[b + 2]
    BY <1>1, <1>3, <1>10
  <2>2. \A j \in DOMAIN frames : "corners" \in DOMAIN frames[j] => j <= b + 1
    BY <1>1, <1>4
  <2>3. \A j \in DOMAIN frames : "buttons" \in DOMAIN frames[j] => j <= b + 2
    BY <1>1, <1>4
  <2>4. shows'["corners"] = IF b + 1 \in arrived THEN frames[b + 1]["corners"] ELSE Unknown
    BY <1>5, <2>1, <2>2, Delivered
  <2>5. shows'["buttons"] = IF b + 2 \in arrived THEN frames[b + 2]["buttons"] ELSE Unknown
    BY <1>5, <2>1, <2>3, Delivered
  <2> QED
    BY <1>3, <1>10, <2>4, <2>5
<1>11. ASSUME c # b + 2
       PROVE  shows'["corners"] = shows["corners"] /\ shows'["buttons"] = shows["buttons"]
  BY <1>1, <1>4, <1>5, <1>11, Delivered
<1> QED
  BY <1>1, <1>2, <1>6, <1>7, <1>8, <1>9, <1>10, <1>11

\* The R9 as its driver remembers it.
WheelKnown ==
    /\ shows["bar"] \in {BarColour(mem.bar), Unknown}
    /\ mem.hasButtonWrite => /\ shows["corners"] \in {mem.corners, Unknown}
                             /\ shows["buttons"] \in {CornersMask(mem.corners), Unknown}

LEMMA NewMozaType == [NewMoza EXCEPT !.armed = TRUE] \in MozaState
<1>1. CornersOff \in [Wheels -> 0 .. 100] /\ 0 \in 0 .. LedCount
  BY DEF CornersOff, LedCount
<1> QED
  BY <1>1 DEF NewMoza, MozaState, Bars

\* What a tick of a session in play sends, armed or not: a part that is left out
\* is one the wheel was told before, and is still right.
LEMMA ActiveParts ==
  ASSUME NEW state \in MozaState, NEW f \in Frame, NEW clock \in MozaClock, f.active,
         NEW drive, drive = UpdateMozaNew(state, f, clock)
  PROVE  /\ drive.state \in MozaState /\ drive.rpmSent
         /\ \E arms \in {<<>>, ArmTelemetry}, bars \in {<<>>, BarColours(drive.state.bar)},
               writes \in {<<>>, WriteBrakeButtons(drive.state.corners)}, lit \in 0 .. LedCount :
               /\ drive.frames = WheelFrames(arms, bars, writes, lit)
               /\ arms # <<>> /\ bars = <<>> => drive.state.bar = "Rpm"
               /\ arms = <<>> /\ bars = <<>> => drive.state.bar = state.bar
               /\ writes = <<>> /\ drive.state.hasButtonWrite =>
                     drive.state.corners = state.corners /\ state.hasButtonWrite
<1>1. PICK ready \in MozaState :
         ready = IF state.armed THEN state ELSE [NewMoza EXCEPT !.armed = TRUE]
  BY NewMozaType
<1>2. PICK told : told = DriveWheel(ready, f, clock)
  OBVIOUS
<1>3. PICK arms \in {<<>>, ArmTelemetry} : arms = IF state.armed THEN <<>> ELSE ArmTelemetry
  OBVIOUS
<1>4. drive.frames = arms \o told.frames /\ drive.state = told.state /\ drive.rpmSent
  BY <1>1, <1>2, <1>3 DEF UpdateMozaNew, DriveWheel
<1>5. told.state \in MozaState /\ TickParts(told, ready)
  BY <1>1, <1>2, DriveWheelParts
<1>6. PICK newCorners \in BOOLEAN, lit \in 0 .. LedCount :
         /\ told.frames =
               (IF told.state.bar = ready.bar THEN <<>> ELSE BarColours(told.state.bar))
                   \o (IF newCorners THEN WriteBrakeButtons(told.state.corners) ELSE <<>>)
                   \o RpmMask(lit)
         /\ ~newCorners => /\ told.state.corners = ready.corners
                           /\ told.state.hasButtonWrite = ready.hasButtonWrite
  BY <1>5 DEF TickParts
<1>7. PICK bars \in {<<>>, BarColours(told.state.bar)} :
         bars = IF told.state.bar = ready.bar THEN <<>> ELSE BarColours(told.state.bar)
  OBVIOUS
<1>8. PICK writes \in {<<>>, WriteBrakeButtons(told.state.corners)} :
         writes = IF newCorners THEN WriteBrakeButtons(told.state.corners) ELSE <<>>
  OBVIOUS
<1>9. /\ \A bar : BarColours(bar) # <<>>
      /\ \A corners : WriteBrakeButtons(corners) # <<>>
      /\ ArmTelemetry # <<>>
  BY DEF BarColours, WriteBrakeButtons, ArmTelemetry
<1>10. ~state.armed => ready.bar = "Rpm" /\ ~ready.hasButtonWrite
  BY <1>1 DEF NewMoza
<1>11. drive.frames = WheelFrames(arms, bars, writes, lit)
  BY <1>4, <1>6, <1>7, <1>8 DEF WheelFrames
<1>12. /\ arms # <<>> /\ bars = <<>> => told.state.bar = "Rpm"
       /\ arms = <<>> /\ bars = <<>> => told.state.bar = state.bar
  BY <1>1, <1>3, <1>7, <1>9, <1>10
<1>13. writes = <<>> /\ told.state.hasButtonWrite =>
          told.state.corners = state.corners /\ state.hasButtonWrite
  <2>1. writes = <<>> => ~newCorners
    BY <1>8, <1>9
  <2>2. state.armed => ready = state
    BY <1>1
  <2> HIDE <1>1
  <2> QED
    BY <1>6, <1>10, <2>1, <2>2
<1> QED
  BY <1>4, <1>5, <1>11, <1>12, <1>13

\* A frame of a session in play: what the wheel was told, it shows, and a mask
\* that was lost disarms it (write_moza).
LEMMA ActiveFrame ==
  ASSUME mem \in MozaState, NEW f \in Frame, NEW clock \in MozaClock, f.active,
         {"bar", "corners", "buttons", "mask"} \subseteq DOMAIN shows,
         WriteMozaFrame(f, clock)
  PROVE  /\ mem' \in MozaState
         /\ WheelKnown => WheelKnown'
         /\ shows'["mask"] = Unknown => ~mem'.armed
<1>1. PICK state \in MozaState : state = mem
  OBVIOUS
<1>2. PICK drive : drive = UpdateMozaNew(state, f, clock)
  OBVIOUS
<1>3. PICK arrived : Deliver(drive.frames, arrived) /\ mem' = MozaMem(drive, arrived)
  BY <1>1, <1>2 DEF WriteMozaFrame
<1>4. drive.state \in MozaState /\ drive.rpmSent
  BY <1>2, ActiveParts
<1>5. PICK bar, corners : bar = drive.state.bar /\ corners = drive.state.corners
  OBVIOUS
<1>6. PICK arms \in {<<>>, ArmTelemetry}, bars \in {<<>>, BarColours(bar)},
           writes \in {<<>>, WriteBrakeButtons(corners)}, lit \in 0 .. LedCount :
         /\ drive.frames = WheelFrames(arms, bars, writes, lit)
         /\ arms # <<>> /\ bars = <<>> => bar = "Rpm"
         /\ arms = <<>> /\ bars = <<>> => bar = state.bar
         /\ writes = <<>> /\ drive.state.hasButtonWrite =>
               corners = state.corners /\ state.hasButtonWrite
  BY <1>2, <1>5, ActiveParts
<1>7. PICK frames : frames = drive.frames
  OBVIOUS
<1>8. frames = WheelFrames(arms, bars, writes, lit) /\ Deliver(frames, arrived)
  BY <1>3, <1>6, <1>7
<1>9. /\ shows'["mask"] = IF Len(frames) \in arrived THEN lit ELSE Unknown
      /\ bars # <<>> => shows'["bar"] \in {BarColour(bar), Unknown}
      /\ bars = <<>> /\ arms # <<>> => shows'["bar"] \in {"rpm", Unknown}
      /\ bars = <<>> /\ arms = <<>> => shows'["bar"] = shows["bar"]
      /\ writes # <<>> => /\ shows'["corners"] \in {corners, Unknown}
                          /\ shows'["buttons"] \in {CornersMask(corners), Unknown}
      /\ writes = <<>> => /\ shows'["corners"] = shows["corners"]
                          /\ shows'["buttons"] = shows["buttons"]
  BY <1>8, WheelTold
<1>10. mem' = IF Len(frames) \notin arrived THEN [drive.state EXCEPT !.armed = FALSE]
              ELSE drive.state
  BY <1>3, <1>4, <1>7 DEF MozaMem
<1>11. /\ mem' \in MozaState
       /\ mem'.bar = bar /\ mem'.corners = corners
       /\ mem'.hasButtonWrite = drive.state.hasButtonWrite
       /\ Len(frames) \notin arrived => ~mem'.armed
  BY <1>4, <1>5, <1>10 DEF MozaState
<1>12. shows'["mask"] = Unknown => ~mem'.armed
  BY <1>9, <1>11, DeviceOutputAssumption DEF DeviceOutputAssumption
<1>13. ASSUME WheelKnown PROVE WheelKnown'
  <2>1. BarColour("Rpm") = "rpm"
    BY DEF BarColour
  <2>2. shows["bar"] \in {BarColour(state.bar), Unknown}
    BY <1>1, <1>13 DEF WheelKnown
  <2>3. shows'["bar"] \in {BarColour(bar), Unknown}
    BY <1>6, <1>9, <2>1, <2>2
  <2>4. ASSUME drive.state.hasButtonWrite
        PROVE  /\ shows'["corners"] \in {corners, Unknown}
               /\ shows'["buttons"] \in {CornersMask(corners), Unknown}
    <3>1. CASE writes # <<>>
      BY <1>9, <3>1
    <3>2. CASE writes = <<>>
      BY <1>1, <1>6, <1>9, <1>13, <2>4, <3>2 DEF WheelKnown
    <3> QED
      BY <3>1, <3>2
  <2> QED
    BY <1>11, <2>3, <2>4 DEF WheelKnown
<1> QED
  BY <1>11, <1>12, <1>13

\* What a tick of a session out of play sends, armed or not (blank_wheel).
Blanked == [NewMoza EXCEPT !.armed = TRUE]
BlankFrames ==
    {<<[corners |-> CornersOff], [buttons |-> {}], [mask |-> 0]>>,
     <<[corners |-> CornersOff], [buttons |-> {}], [mask |-> 0], [bar |-> "rpm"]>>,
     <<[bar |-> "rpm"], [settings |-> "telemetry"],
       [corners |-> CornersOff], [buttons |-> {}], [mask |-> 0]>>}

LEMMA ConcatIs ==
  ASSUME NEW T, NEW s \in Seq(T), NEW t \in Seq(T), NEW u \in Seq(T),
         Len(u) = Len(s) + Len(t),
         \A i \in 1 .. Len(u) : u[i] = IF i <= Len(s) THEN s[i] ELSE t[i - Len(s)]
  PROVE  s \o t = u
<1>1. PICK v \in Seq(T) : v = s \o t
  BY ConcatProperties
<1>2. Len(v) = Len(u) /\ \A i \in 1 .. Len(u) : v[i] = u[i]
  BY <1>1, ConcatProperties
<1> QED
  BY <1>1, <1>2

\* The same of frames that are written down: those of BlankWheel.
LEMMA Concatenated ==
  ASSUME NEW a, NEW b, NEW c, NEW d
  PROVE  /\ <<a>> \o <<b>> = <<a, b>>
         /\ <<a, b>> \o <<c>> = <<a, b, c>>
         /\ <<>> \o (<<a, b, c>> \o <<>>) = <<a, b, c>>
         /\ <<>> \o (<<a, b, c>> \o <<d>>) = <<a, b, c, d>>
<1> DEFINE T == {a, b, c, d}
<1> HIDE DEF T
<1>1. <<a>> \o <<b>> = <<a, b>>
  <2>1. <<a>> \in Seq(T) /\ <<b>> \in Seq(T) /\ <<a, b>> \in Seq(T)
    BY DEF T
  <2>2. PICK s \in Seq(T), t \in Seq(T), u \in Seq(T) : s = <<a>> /\ t = <<b>> /\ u = <<a, b>>
    BY <2>1
  <2>3. /\ Len(s) = 1 /\ Len(t) = 1 /\ Len(u) = 2
        /\ s[1] = a /\ t[1] = b
        /\ u[1] = a /\ u[2] = b
    BY <2>2
  <2>4. ASSUME NEW i \in 1 .. Len(u) PROVE u[i] = IF i <= Len(s) THEN s[i] ELSE t[i - Len(s)]
    <3>1. i = 1 \/ i = 2
      BY <2>3
    <3> QED
      BY <2>3, <3>1
  <2>5. Len(u) = Len(s) + Len(t)
    BY <2>3
  <2>6. s \o t = u
    BY <2>4, <2>5, ConcatIs
  <2> QED
    BY <2>2, <2>6
<1>2. <<a, b>> \o <<c>> = <<a, b, c>>
  <2>1. <<a, b>> \in Seq(T) /\ <<c>> \in Seq(T) /\ <<a, b, c>> \in Seq(T)
    BY DEF T
  <2>2. PICK s \in Seq(T), t \in Seq(T), u \in Seq(T) : s = <<a, b>> /\ t = <<c>> /\ u = <<a, b, c>>
    BY <2>1
  <2>3. /\ Len(s) = 2 /\ Len(t) = 1 /\ Len(u) = 3
        /\ s[1] = a /\ s[2] = b /\ t[1] = c
        /\ u[1] = a /\ u[2] = b /\ u[3] = c
    BY <2>2
  <2>4. ASSUME NEW i \in 1 .. Len(u) PROVE u[i] = IF i <= Len(s) THEN s[i] ELSE t[i - Len(s)]
    <3>1. i = 1 \/ i = 2 \/ i = 3
      BY <2>3
    <3> QED
      BY <2>3, <3>1
  <2>5. Len(u) = Len(s) + Len(t)
    BY <2>3
  <2>6. s \o t = u
    BY <2>4, <2>5, ConcatIs
  <2> QED
    BY <2>2, <2>6
<1>3. <<a, b, c>> \o <<d>> = <<a, b, c, d>>
  <2>1. <<a, b, c>> \in Seq(T) /\ <<d>> \in Seq(T) /\ <<a, b, c, d>> \in Seq(T)
    BY DEF T
  <2>2. PICK s \in Seq(T), t \in Seq(T), u \in Seq(T) : s = <<a, b, c>> /\ t = <<d>> /\ u = <<a, b, c, d>>
    BY <2>1
  <2>3. /\ Len(s) = 3 /\ Len(t) = 1 /\ Len(u) = 4
        /\ s[1] = a /\ s[2] = b /\ s[3] = c /\ t[1] = d
        /\ u[1] = a /\ u[2] = b /\ u[3] = c /\ u[4] = d
    BY <2>2
  <2>4. ASSUME NEW i \in 1 .. Len(u) PROVE u[i] = IF i <= Len(s) THEN s[i] ELSE t[i - Len(s)]
    <3>1. i = 1 \/ i = 2 \/ i = 3 \/ i = 4
      BY <2>3
    <3> QED
      BY <2>3, <3>1
  <2>5. Len(u) = Len(s) + Len(t)
    BY <2>3
  <2>6. s \o t = u
    BY <2>4, <2>5, ConcatIs
  <2> QED
    BY <2>2, <2>6
<1>4. <<a, b, c>> \o <<>> = <<a, b, c>>
  OBVIOUS
<1>5. <<>> \o <<a, b, c>> = <<a, b, c>> /\ <<>> \o <<a, b, c, d>> = <<a, b, c, d>>
  OBVIOUS
<1> QED
  BY <1>1, <1>2, <1>3, <1>4, <1>5

LEMMA ConcatenatedArming ==
  \A a, b, c, d, e : <<d, e>> \o (<<a, b, c>> \o <<>>) = <<d, e, a, b, c>>
<1> SUFFICES ASSUME NEW a, NEW b, NEW c, NEW d, NEW e
             PROVE  <<d, e>> \o (<<a, b, c>> \o <<>>) = <<d, e, a, b, c>>
  OBVIOUS
<1> DEFINE T == {a, b, c, d, e}
<1> HIDE DEF T
<1>1. <<d, e>> \o <<a, b, c>> = <<d, e, a, b, c>>
  <2>1. <<d, e>> \in Seq(T) /\ <<a, b, c>> \in Seq(T) /\ <<d, e, a, b, c>> \in Seq(T)
    BY DEF T
  <2>2. PICK s \in Seq(T), t \in Seq(T), u \in Seq(T) : s = <<d, e>> /\ t = <<a, b, c>> /\ u = <<d, e, a, b, c>>
    BY <2>1
  <2>3. /\ Len(s) = 2 /\ Len(t) = 3 /\ Len(u) = 5
        /\ s[1] = d /\ s[2] = e /\ t[1] = a /\ t[2] = b /\ t[3] = c
        /\ u[1] = d /\ u[2] = e /\ u[3] = a /\ u[4] = b /\ u[5] = c
    BY <2>2
  <2>4. ASSUME NEW i \in 1 .. Len(u) PROVE u[i] = IF i <= Len(s) THEN s[i] ELSE t[i - Len(s)]
    <3>1. i = 1 \/ i = 2 \/ i = 3 \/ i = 4 \/ i = 5
      BY <2>3
    <3> QED
      BY <2>3, <3>1
  <2>5. Len(u) = Len(s) + Len(t)
    BY <2>3
  <2>6. s \o t = u
    BY <2>4, <2>5, ConcatIs
  <2> QED
    BY <2>2, <2>6
<1>2. <<a, b, c>> \o <<>> = <<a, b, c>>
  OBVIOUS
<1> QED
  BY <1>1, <1>2

LEMMA BlankParts ==
  ASSUME NEW state \in MozaState, NEW f \in Frame, NEW clock \in MozaClock, ~f.active,
         NEW drive, drive = UpdateMozaNew(state, f, clock)
  PROVE  /\ drive.state = Blanked /\ drive.rpmSent = FALSE
         /\ drive.frames \in BlankFrames
         /\ Len(drive.frames) = 3 => state.bar = "Rpm"
<1>1. CornersMask(CornersOff) = {}
  BY DEF CornersMask, CornersOff, Wheels
<1>2. WriteBrakeButtons(CornersOff) \o RpmMask(0) =
         <<[corners |-> CornersOff], [buttons |-> {}], [mask |-> 0]>>
  <2>1. WriteBrakeButtons(CornersOff) = <<[corners |-> CornersOff], [buttons |-> {}]>>
    BY <1>1 DEF WriteBrakeButtons
  <2>2. RpmMask(0) = <<[mask |-> 0]>>
    BY DEF RpmMask
  <2> QED
    BY <2>1, <2>2, Concatenated
<1>3. BarColours("Rpm") = <<[bar |-> "rpm"]>>
  BY DEF BarColours, BarColour
<1>4. ArmTelemetry = <<[bar |-> "rpm"], [settings |-> "telemetry"]>>
  BY <1>3, Concatenated DEF ArmTelemetry
<1>5. PICK ready : ready = IF state.armed THEN state ELSE [NewMoza EXCEPT !.armed = TRUE]
  OBVIOUS
<1>6. drive = [BlankWheel(ready) EXCEPT
                  !.frames = (IF state.armed THEN <<>> ELSE ArmTelemetry) \o @]
  BY <1>5 DEF UpdateMozaNew
<1>7. drive.state = Blanked /\ drive.rpmSent = FALSE
  BY <1>6 DEF BlankWheel, Blanked
<1>8. drive.frames =
         (IF state.armed THEN <<>> ELSE ArmTelemetry)
             \o (WriteBrakeButtons(CornersOff) \o RpmMask(0)
                    \o (IF ready.bar = "Rpm" THEN <<>> ELSE BarColours("Rpm")))
  BY <1>6 DEF BlankWheel
<1>9. CASE state.armed /\ state.bar = "Rpm"
  <2>1. drive.frames =
           <<>> \o (<<[corners |-> CornersOff], [buttons |-> {}], [mask |-> 0]>> \o <<>>)
    BY <1>2, <1>5, <1>8, <1>9
  <2>2. drive.frames = <<[corners |-> CornersOff], [buttons |-> {}], [mask |-> 0]>>
    BY <2>1, Concatenated
  <2> QED
    BY <1>7, <1>9, <2>2 DEF BlankFrames
<1>10. CASE state.armed /\ state.bar # "Rpm"
  <2>1. drive.frames =
           <<>> \o (<<[corners |-> CornersOff], [buttons |-> {}], [mask |-> 0]>>
                       \o <<[bar |-> "rpm"]>>)
    BY <1>2, <1>3, <1>5, <1>8, <1>10
  <2>2. drive.frames =
           <<[corners |-> CornersOff], [buttons |-> {}], [mask |-> 0], [bar |-> "rpm"]>>
    BY <2>1, Concatenated
  <2>3. Len(drive.frames) = 4
    BY <2>2
  <2> QED
    BY <1>7, <2>2, <2>3 DEF BlankFrames
<1>11. CASE ~state.armed
  <2>1. ready.bar = "Rpm"
    BY <1>5, <1>11 DEF NewMoza
  <2>2. drive.frames =
           <<[bar |-> "rpm"], [settings |-> "telemetry"]>>
              \o (<<[corners |-> CornersOff], [buttons |-> {}], [mask |-> 0]>> \o <<>>)
    BY <1>2, <1>4, <1>8, <1>11, <2>1
  <2>3. drive.frames =
           <<[bar |-> "rpm"], [settings |-> "telemetry"],
             [corners |-> CornersOff], [buttons |-> {}], [mask |-> 0]>>
    <3>1. PICK a, b, c, d, e :
             /\ a = [corners |-> CornersOff] /\ b = [buttons |-> {}] /\ c = [mask |-> 0]
             /\ d = [bar |-> "rpm"] /\ e = [settings |-> "telemetry"]
      OBVIOUS
    <3>2. drive.frames = <<d, e>> \o (<<a, b, c>> \o <<>>)
      BY <2>2, <3>1
    <3>3. drive.frames = <<d, e, a, b, c>>
      BY <3>2, ConcatenatedArming
    <3> QED
      BY <3>1, <3>3
  <2>4. Len(drive.frames) = 5
    BY <2>3
  <2> QED
    BY <1>7, <2>3, <2>4 DEF BlankFrames
<1> QED
  BY <1>9, <1>10, <1>11

\* A frame of a session out of play, and a release: whatever the wheel showed,
\* its bar is the engine's and dark, and no button is lit, or the frame that
\* says so was lost (write_moza, blank_moza).
LEMMA BlankFrame ==
  ASSUME mem \in MozaState, NEW f \in Frame, NEW clock \in MozaClock, ~f.active,
         {"bar", "corners", "buttons", "mask"} \subseteq DOMAIN shows,
         WriteMozaFrame(f, clock)
  PROVE  /\ mem' = Blanked
         /\ shows'["mask"] \in {0, Unknown} /\ shows'["buttons"] \in {{}, Unknown}
         /\ WheelKnown => WheelKnown' /\ shows'["bar"] \in {"rpm", Unknown}
<1>1. PICK state \in MozaState : state = mem
  OBVIOUS
<1>2. PICK drive : drive = UpdateMozaNew(state, f, clock)
  OBVIOUS
<1>3. PICK arrived : Deliver(drive.frames, arrived) /\ mem' = MozaMem(drive, arrived)
  BY <1>1, <1>2 DEF WriteMozaFrame
<1>4. /\ drive.state = Blanked /\ drive.rpmSent = FALSE
      /\ drive.frames \in BlankFrames
      /\ Len(drive.frames) = 3 => state.bar = "Rpm"
  BY <1>2, BlankParts
<1>5. mem' = Blanked
  BY <1>3, <1>4 DEF MozaMem
<1>6. PICK frames \in BlankFrames : frames = drive.frames
  BY <1>4
<1>7. Deliver(frames, arrived) /\ (Len(frames) = 3 => state.bar = "Rpm")
  BY <1>3, <1>4, <1>6
<1>8. BarColour("Rpm") = "rpm"
  BY DEF BarColour
<1>9. /\ shows'["mask"] \in {0, Unknown} /\ shows'["buttons"] \in {{}, Unknown}
      /\ WheelKnown => shows'["bar"] \in {"rpm", Unknown}
  <2>1. CASE frames = <<[corners |-> CornersOff], [buttons |-> {}], [mask |-> 0]>>
    <3>1. /\ DOMAIN frames = 1 .. 3 /\ Len(frames) = 3
          /\ DOMAIN frames[1] = {"corners"}
          /\ DOMAIN frames[2] = {"buttons"} /\ frames[2]["buttons"] = {}
          /\ DOMAIN frames[3] = {"mask"} /\ frames[3]["mask"] = 0
      BY <2>1
    <3> HIDE <2>1
    <3>2. shows'["mask"] \in {0, Unknown}
      BY <1>7, <3>1, Delivered
    <3>3. shows'["buttons"] \in {{}, Unknown}
      BY <1>7, <3>1, Delivered
    <3>4. shows'["bar"] = shows["bar"]
      BY <1>7, <3>1, Delivered
    <3> QED
      BY <1>1, <1>7, <1>8, <3>1, <3>2, <3>3, <3>4 DEF WheelKnown
  <2>2. CASE frames = <<[corners |-> CornersOff], [buttons |-> {}], [mask |-> 0],
                        [bar |-> "rpm"]>>
    <3>1. /\ DOMAIN frames = 1 .. 4
          /\ DOMAIN frames[1] = {"corners"}
          /\ DOMAIN frames[2] = {"buttons"} /\ frames[2]["buttons"] = {}
          /\ DOMAIN frames[3] = {"mask"} /\ frames[3]["mask"] = 0
          /\ DOMAIN frames[4] = {"bar"} /\ frames[4]["bar"] = "rpm"
      BY <2>2
    <3> HIDE <2>2
    <3>2. shows'["mask"] \in {0, Unknown}
      BY <1>7, <3>1, Delivered
    <3>3. shows'["buttons"] \in {{}, Unknown}
      BY <1>7, <3>1, Delivered
    <3>4. shows'["bar"] \in {"rpm", Unknown}
      BY <1>7, <3>1, Delivered
    <3> QED
      BY <3>2, <3>3, <3>4
  <2>3. CASE frames = <<[bar |-> "rpm"], [settings |-> "telemetry"],
                        [corners |-> CornersOff], [buttons |-> {}], [mask |-> 0]>>
    <3>1. /\ DOMAIN frames = 1 .. 5
          /\ DOMAIN frames[1] = {"bar"} /\ frames[1]["bar"] = "rpm"
          /\ DOMAIN frames[2] = {"settings"} /\ DOMAIN frames[3] = {"corners"}
          /\ DOMAIN frames[4] = {"buttons"} /\ frames[4]["buttons"] = {}
          /\ DOMAIN frames[5] = {"mask"} /\ frames[5]["mask"] = 0
      BY <2>3
    <3> HIDE <2>3
    <3>2. shows'["mask"] \in {0, Unknown}
      BY <1>7, <3>1, Delivered
    <3>3. shows'["buttons"] \in {{}, Unknown}
      BY <1>7, <3>1, Delivered
    <3>4. shows'["bar"] \in {"rpm", Unknown}
      BY <1>7, <3>1, Delivered
    <3> QED
      BY <3>2, <3>3, <3>4
  <2> QED
    BY <2>1, <2>2, <2>3 DEF BlankFrames
<1>10. WheelKnown => WheelKnown'
  BY <1>5, <1>8, <1>9 DEF WheelKnown, NewMoza, Blanked
<1> QED
  BY <1>5, <1>9, <1>10

-----------------------------------------------------------------------------
(* The steps *)

\* Kinds that are told everything at every tick, and what a tick of theirs, or
\* of a script's device, does.
ToldKinds == {"Tach", "G29", "C5", "C12", "ShiftLights", "SimWind", "SimLed", "MozaR5"}
ToldStep ==
    \E f \in Frame : \E reports, arrived :
        /\ Ticking(ToldKinds, f)
        /\ Deliver(reports, arrived)
        /\ mem' = mem
        /\ entry.kind = "Tach" => reports = TachReports(f)
ScriptStep ==
    \E f \in Frame : \E reports, arrived, message :
        /\ Ticking(ScriptedKinds, f)
        /\ Deliver(reports, arrived)
        /\ mem' = [message |-> message]
        /\ entry.kind = "ArduinoCustom" =>
              reports = IF message = NoMessage THEN <<>> ELSE <<[message |-> message]>>

LEMMA ToldSteps ==
  ASSUME \/ WriteTach \/ WriteG29 \/ WriteC5 \/ WriteC12
         \/ WriteShiftlights \/ WriteSimwind \/ WriteSimled \/ WriteMozaR5
  PROVE  ToldStep
<1>0. Frames \subseteq Frame
  BY DeviceOutputAssumption DEF DeviceOutputAssumption
<1>1. ASSUME NEW kind \in ToldKinds, NEW f \in Frames, NEW reports, Told(kind, f, reports),
             kind = "Tach" => reports = TachReports(f)
      PROVE  ToldStep
  <2>1. PICK arrived : Deliver(reports, arrived)
    BY <1>1 DEF Told
  <2>2. Ticking(ToldKinds, f) /\ mem' = mem /\ entry.kind = kind
    BY <1>1 DEF Told, Ticking
  <2> QED
    BY <1>0, <1>1, <2>1, <2>2 DEF ToldStep
<1>2. CASE WriteTach
  <2>1. PICK f \in Frames : Told("Tach", f, TachReports(f))
    BY <1>2 DEF WriteTach
  <2>2. PICK reports : reports = TachReports(f)
    OBVIOUS
  <2> QED
    BY <1>1, <2>1, <2>2 DEF ToldKinds
<1>3. CASE WriteG29
  BY <1>1, <1>3 DEF WriteG29, ToldKinds
<1>4. CASE WriteC5
  BY <1>1, <1>4 DEF WriteC5, ToldKinds
<1>5. CASE WriteC12
  BY <1>1, <1>5 DEF WriteC12, ToldKinds
<1>6. CASE WriteShiftlights
  <2>1. PICK f \in Frames : Told("ShiftLights", f, <<ShiftlightsByte(f, entry.lights)>>)
    BY <1>6 DEF WriteShiftlights
  <2>2. PICK reports : reports = <<ShiftlightsByte(f, entry.lights)>>
    OBVIOUS
  <2> QED
    BY <1>1, <2>1, <2>2 DEF ToldKinds
<1>7. CASE WriteSimwind
  BY <1>1, <1>7 DEF WriteSimwind, ToldKinds
<1>8. CASE WriteSimled
  <2>1. PICK f \in Frames : Told("SimLed", f, SimledReports(f, entry))
    BY <1>8 DEF WriteSimled
  <2>2. PICK reports : reports = SimledReports(f, entry)
    OBVIOUS
  <2> QED
    BY <1>1, <2>1, <2>2 DEF ToldKinds
<1>9. CASE WriteMozaR5
  BY <1>1, <1>9 DEF WriteMozaR5, ToldKinds
<1> QED
  BY <1>2, <1>3, <1>4, <1>5, <1>6, <1>7, <1>8, <1>9

LEMMA ScriptSteps ==
  ASSUME WriteC12Lua \/ WriteGt \/ WriteSimledCustom \/ WriteArduinoCustom
  PROVE  ScriptStep
<1>0. Frames \subseteq Frame
  BY DeviceOutputAssumption DEF DeviceOutputAssumption
<1>1. ASSUME NEW kind \in ScriptedKinds, NEW f \in Frames, NEW reports, NEW arrived, NEW message,
             Ticking({kind}, f), Deliver(reports, arrived), mem' = [message |-> message],
             kind = "ArduinoCustom" =>
                reports = IF message = NoMessage THEN <<>> ELSE <<[message |-> message]>>
      PROVE  ScriptStep
  <2>1. Ticking(ScriptedKinds, f) /\ entry.kind = kind
    BY <1>1 DEF Ticking
  <2> QED
    BY <1>0, <1>1, <2>1 DEF ScriptStep
<1>2. CASE WriteC12Lua
  BY <1>1, <1>2 DEF WriteC12Lua, Scripted, ScriptedKinds
<1>3. CASE WriteGt
  BY <1>1, <1>3 DEF WriteGt, Scripted, ScriptedKinds
<1>4. CASE WriteSimledCustom
  BY <1>1, <1>4 DEF WriteSimledCustom, Scripted, ScriptedKinds
<1>5. CASE WriteArduinoCustom
  BY <1>1, <1>5 DEF WriteArduinoCustom, Scripted, ScriptedKinds
<1> QED
  BY <1>2, <1>3, <1>4, <1>5

\* What a step may be, for a proof that goes through them.
LEMMA Steps ==
  ASSUME [Next]_vars
  PROVE  \/ UNCHANGED device
         \/ Open \/ Release \/ Reopen
         \/ ToldStep \/ ScriptStep
         \/ WritePedal \/ WriteSerialHaptic \/ WriteMozaKs \/ WriteMoza
         \/ WriteSound \/ Render
<1>1. CASE DeviceNext
  BY <1>1, ToldSteps, ScriptSteps DEF DeviceNext
<1>2. CASE UNCHANGED device
  BY <1>2
<1> QED
  BY <1>1, <1>2 DEF Next, vars

\* A tick changes neither the device nor what it is; of the frame, what the
\* properties ask for is kept.
LEMMA Ticked ==
  ASSUME TypeOK, NEW kinds, NEW f \in Frame, Ticking(kinds, f)
  PROVE  /\ entry' = entry /\ phase' = "ticked" /\ entry.kind \in kinds
         /\ phase \in {"opened", "ticked"}
         /\ last'.active = f.active
         /\ last'.moving = CarIsMoving(f) /\ last'.rolling = ChassisIsRolling(f)
         /\ last'.rpms = IF entry.kind = "Tach" THEN f.rpms ELSE 0
         /\ last' \in [active : BOOLEAN, moving : BOOLEAN, rolling : BOOLEAN, rpms : Nat]
<1>1. f.active \in BOOLEAN /\ f.rpms \in Nat
  BY DEF Frame
<1>2. CarIsMoving(f) \in BOOLEAN /\ ChassisIsRolling(f) \in BOOLEAN
  BY DEF CarIsMoving, ChassisIsRolling
<1>3. PICK rpms \in Nat : rpms = IF entry.kind = "Tach" THEN f.rpms ELSE 0
  BY <1>1
<1>4. last' = [active |-> f.active, moving |-> CarIsMoving(f), rolling |-> ChassisIsRolling(f),
               rpms |-> rpms]
  BY <1>3 DEF Ticking, Seen
<1> QED
  BY <1>1, <1>2, <1>3, <1>4 DEF Ticking

-----------------------------------------------------------------------------
(* The table of a tachometer *)

\* The wizard asks for the points of its spacing (rpm_targets).
LEMMA TargetsAsked ==
  ASSUME NEW maxRevs \in Nat, NEW spacing \in {1, 2, 4}
  PROVE  /\ RpmTargets(maxRevs, spacing) \in Seq(Nat)
         /\ \A i \in DOMAIN RpmTargets(maxRevs, spacing) :
               RpmTargets(maxRevs, spacing)[i] = AskedRpm(spacing, i)
<1>1. PICK n \in Nat : n = (maxRevs \div 1000) * spacing
  OBVIOUS
<1>2. CASE spacing = 4
  <2>1. RpmTargets(maxRevs, spacing) = [i \in 1 .. n |-> i * 250]
    BY <1>1, <1>2 DEF RpmTargets, IncrementFor
  <2> QED
    BY <1>2, <2>1 DEF AskedRpm
<1>3. CASE spacing \in {1, 2}
  <2>1. PICK increment \in {500, 1000} : increment = IncrementFor(spacing)
    BY <1>3 DEF IncrementFor
  <2>2. RpmTargets(maxRevs, spacing) =
           [i \in 1 .. n + 1 |-> IF i = 1 THEN 250 ELSE (i - 1) * increment]
    BY <1>1, <1>3, <2>1 DEF RpmTargets
  <2>3. \A i \in 1 .. n + 1 : (IF i = 1 THEN 250 ELSE (i - 1) * increment) \in Nat
    BY <2>1
  <2>4. RpmTargets(maxRevs, spacing) \in Seq(Nat)
    BY <2>2, <2>3
  <2>5. \A i \in 1 .. n + 1 :
           (IF i = 1 THEN 250 ELSE (i - 1) * increment) = AskedRpm(spacing, i)
    BY <1>3, <2>1 DEF AskedRpm
  <2> QED
    BY <2>2, <2>4, <2>5
<1> QED
  BY <1>2, <1>3

LEMMA TachInitial ==
  ASSUME TachInit
  PROVE  TachTypeOK /\ TachInv
<1>1. /\ wizard.stage = "none" /\ wizard = NewWizard /\ tachFile.spacing = 0
  BY TachAssumption DEF TachInit, TachAssumption, NewWizard
<1>2. MaxKeys \in Nat /\ MaxRuns \in Nat
  BY TachAssumption DEF TachAssumption
<1> QED
  BY <1>1, <1>2 DEF TachTypeOK, TachInv, NewWizard

LEMMA TachSteps ==
  ASSUME TachTypeOK, TachInv, [TachNext]_tach
  PROVE  TachTypeOK' /\ TachInv'
<1> DEFINE Wizard == [stage : {"none", "continue", "adjust", "write", "fill"},
                      terminal : BOOLEAN, spacing : {1, 2, 4}, targets : Seq(Nat),
                      saved : Seq(Int), pulses : Int, keys : 0 .. MaxKeys, runs : 0 .. MaxRuns]
<1>0. wizard \in Wizard /\ tachFile.spacing \in {0, 1, 2, 4}
      /\ MaxKeys \in Nat /\ MaxRuns \in Nat /\ AskedRevs \subseteq Nat
  BY TachAssumption DEF TachTypeOK, TachAssumption
<1>1. CASE ConfigTach
  <2>1. PICK asked \in TuiAsks \cup UserAsks :
           /\ wizard.stage = "none" /\ wizard.runs < MaxRuns
           /\ tachFile' = tachFile
           /\ wizard' = [wizard EXCEPT
                           !.runs = @ + 1, !.stage = "continue", !.terminal = asked.terminal,
                           !.spacing = AcceptedGranularity(asked.granularity),
                           !.targets = RpmTargets(asked.revs,
                                                  AcceptedGranularity(asked.granularity))]
    BY <1>1 DEF ConfigTach
  <2>2. asked.revs \in Nat /\ asked.terminal \in BOOLEAN
    <3>1. CASE asked \in TuiAsks
      <4>1. PICK screen \in TachScreen :
               asked = [revs |-> screen.revs, granularity |-> screen.granularity,
                        terminal |-> FALSE]
        BY <3>1 DEF TuiAsks
      <4>2. screen.revs \in AskedRevs
        BY DEF TachScreen
      <4> QED
        BY <1>0, <4>1, <4>2
    <3>2. CASE asked \in UserAsks
      BY <1>0, <3>2 DEF UserAsks
    <3> QED
      BY <2>1, <3>1, <3>2
  <2>3. PICK spacing \in {1, 2, 4} : spacing = AcceptedGranularity(asked.granularity)
    BY DEF AcceptedGranularity
  <2>4. PICK targets \in Seq(Nat) :
           targets = RpmTargets(asked.revs, spacing)
           /\ \A i \in DOMAIN targets : targets[i] = AskedRpm(spacing, i)
    BY <2>2, TargetsAsked
  <2>5. wizard' = [wizard EXCEPT !.runs = wizard.runs + 1, !.stage = "continue",
                                 !.terminal = asked.terminal, !.spacing = spacing,
                                 !.targets = targets]
    BY <2>1, <2>3, <2>4
  <2>6. wizard.runs + 1 \in 0 .. MaxRuns
    BY <1>0, <2>1
  <2> HIDE <2>1
  <2>7. /\ wizard' \in Wizard /\ wizard'.stage = "continue"
        /\ wizard'.spacing = spacing /\ wizard'.targets = targets
    BY <1>0, <2>2, <2>5, <2>6
  <2>8. tachFile' = tachFile
    BY <2>1
  <2> HIDE DEF Wizard
  <2>9. TachTypeOK'
    BY <1>0, <2>7, <2>8 DEF TachTypeOK, Wizard
  <2>10. TachInv'
    BY <2>4, <2>7, <2>8 DEF TachInv
  <2> QED
    BY <2>9, <2>10
<1>2. CASE AwaitContinue
  <2>1. /\ wizard.stage = "continue" /\ tachFile' = tachFile
        /\ wizard' = [wizard EXCEPT !.stage = "adjust"]
    BY <1>2 DEF AwaitContinue
  <2>2. /\ wizard' \in Wizard /\ wizard'.stage = "adjust"
        /\ wizard'.spacing = wizard.spacing /\ wizard'.targets = wizard.targets
    BY <1>0, <2>1
  <2> QED
    BY <1>0, <2>1, <2>2 DEF TachTypeOK, TachInv
<1>3. CASE Adjust
  <2>1. PICK key \in {">", "<", "c", "z", "m", "n"} :
           /\ wizard.stage = "adjust" /\ wizard.keys < MaxKeys /\ tachFile' = tachFile
           /\ wizard' = [wizard EXCEPT !.pulses = ApplyKey(wizard.pulses, key),
                                       !.keys = wizard.keys + 1]
    BY <1>3 DEF Adjust
  <2>2. ApplyKey(wizard.pulses, key) \in Int
    <3>1. PICK pulses \in Int : pulses = wizard.pulses
      BY <1>0
    <3>2. ApplyKey(pulses, key) \in Int
      BY DEF ApplyKey
    <3> QED
      BY <3>1, <3>2
  <2>3. wizard.keys + 1 \in 0 .. MaxKeys
    BY <1>0, <2>1
  <2>4. /\ wizard' \in Wizard /\ wizard'.stage = "adjust"
        /\ wizard'.spacing = wizard.spacing /\ wizard'.targets = wizard.targets
    BY <1>0, <2>1, <2>2, <2>3
  <2> QED
    BY <1>0, <2>1, <2>4 DEF TachTypeOK, TachInv
<1>4. CASE Accept
  <2>1. PICK saved \in Seq(Int) : saved = Append(wizard.saved, wizard.pulses)
    <3>1. wizard.saved \in Seq(Int) /\ wizard.pulses \in Int
      BY <1>0
    <3> QED
      BY <3>1, AppendProperties
  <2>2. PICK stage \in {"adjust", "write"} :
           stage = IF Len(saved) = Len(wizard.targets) THEN "write" ELSE "adjust"
    OBVIOUS
  <2>3. /\ wizard.stage = "adjust" /\ tachFile' = tachFile
        /\ wizard' = [wizard EXCEPT !.saved = saved, !.stage = stage]
    BY <1>0, <1>4, <2>1, <2>2 DEF Accept
  <2>4. /\ wizard' \in Wizard /\ wizard'.stage = stage /\ wizard'.saved = saved
        /\ wizard'.spacing = wizard.spacing /\ wizard'.targets = wizard.targets
    BY <1>0, <2>3
  <2> QED
    BY <1>0, <2>2, <2>3, <2>4 DEF TachTypeOK, TachInv
<1>5. ASSUME Exit PROVE wizard' \in Wizard /\ wizard'.stage = "none"
  <2>1. wizard' = [NewWizard EXCEPT !.keys = wizard.keys, !.runs = wizard.runs]
    BY <1>5 DEF Exit
  <2>2. wizard.keys \in 0 .. MaxKeys /\ wizard.runs \in 0 .. MaxRuns
        /\ <<>> \in Seq(Nat) /\ <<>> \in Seq(Int)
    BY <1>0
  <2>3. wizard' = [stage |-> "none", terminal |-> FALSE, spacing |-> 1, targets |-> <<>>,
                   saved |-> <<>>, pulses |-> 0, keys |-> wizard.keys, runs |-> wizard.runs]
    BY <2>1 DEF NewWizard
  <2> QED
    BY <2>2, <2>3
<1>6. CASE CaptureStopped
  BY <1>0, <1>5, <1>6 DEF CaptureStopped, TachTypeOK, TachInv
<1>7. CASE EmptyFile
  <2>1. CASE tachFile' = CutOff /\ wizard' = [wizard EXCEPT !.stage = "fill"]
    <3>1. /\ wizard' \in Wizard /\ wizard'.stage = "fill" /\ wizard'.saved = wizard.saved
          /\ wizard'.spacing = wizard.spacing /\ wizard'.targets = wizard.targets
      BY <1>0, <2>1
    <3>2. tachFile'.spacing = 0 /\ wizard.stage = "write"
      BY <1>7, <2>1 DEF CutOff, EmptyFile
    <3> QED
      BY <3>1, <3>2 DEF TachTypeOK, TachInv
  <2>2. CASE Exit /\ UNCHANGED tachFile
    BY <1>0, <1>5, <2>2 DEF TachTypeOK, TachInv
  <2> QED
    BY <1>7, <2>1, <2>2 DEF EmptyFile
<1>8. CASE FillFile
  <2>1. Exit /\ wizard.stage = "fill"
    BY <1>8 DEF FillFile
  <2>2. CASE UNCHANGED tachFile
    BY <1>0, <1>5, <2>1, <2>2 DEF TachTypeOK, TachInv
  <2>3. CASE tachFile' = Table([i \in DOMAIN wizard.targets |->
                                  Item(wizard.targets[i], wizard.saved[i])], wizard.spacing)
    <3> DEFINE items == [i \in DOMAIN wizard.targets |->
                           Item(wizard.targets[i], wizard.saved[i])]
    <3>1. PICK n \in Nat : /\ n = Len(wizard.targets) /\ n = Len(wizard.saved)
                           /\ DOMAIN wizard.targets = 1 .. n
      BY <1>0, <2>1 DEF TachInv
    <3>2. \A i \in 1 .. n : wizard.targets[i] \in Nat /\ wizard.saved[i] \in Int
      BY <1>0, <3>1
    <3>3. \A i \in 1 .. n : Item(wizard.targets[i], wizard.saved[i]) \in TimedItem
      BY <3>2 DEF Item, TimedItem
    <3>4. items \in Seq(TimedItem)
      <4>1. items = [i \in 1 .. n |-> Item(wizard.targets[i], wizard.saved[i])]
        BY <3>1
      <4> QED
        BY <3>3, <4>1
    <3>5. \A i \in DOMAIN items : items[i].rpm = AskedRpm(wizard.spacing, i)
      BY <2>1 DEF Item, TachInv
    <3> HIDE DEF items
    <3>6. tachFile'.complete /\ tachFile'.items = items /\ tachFile'.spacing = wizard.spacing
      BY <2>3 DEF Table, items
    <3> QED
      BY <1>0, <1>5, <2>1, <3>4, <3>5, <3>6 DEF TachTypeOK, TachInv
  <2> QED
    BY <1>8, <2>2, <2>3 DEF FillFile
<1>9. CASE UNCHANGED tach
  BY <1>9 DEF tach, TachTypeOK, TachInv
<1> QED
  BY <1>1, <1>2, <1>3, <1>4, <1>6, <1>7, <1>8, <1>9 DEF TachNext

-----------------------------------------------------------------------------
(* Types *)

LEMMA MemTypes ==
  ASSUME NEW e, NEW m
  PROVE  /\ e.kind \in Pedals => (MemTypeOK(e, m) <=> m \in [state : Nat, filter : Filter])
         /\ e.kind = "SerialHaptic" =>
               (MemTypeOK(e, m) <=> m \in [scaled : 0 .. 100, filter : Filter])
         /\ e.kind \in ScriptedKinds => (MemTypeOK(e, m) <=> DOMAIN m = {"message"})
         /\ e.kind = "MozaKs" => (MemTypeOK(e, m) <=> m \in [flag : {"unset", "none", "yellow"}])
         /\ e.kind = "MozaNew" => (MemTypeOK(e, m) <=> m \in MozaState)
         /\ e.kind = "Sound" => (MemTypeOK(e, m) <=> m \in Voice)
         /\ e.kind = "Tach" => (MemTypeOK(e, m) <=> m.spacing \in {0, 1, 2, 4})
         /\ e.kind \in ToldKinds \ {"Tach"} => (MemTypeOK(e, m) <=> m = [none |-> TRUE])
BY DEF MemTypeOK, Pedals, ScriptedKinds, ToldKinds

\* The kinds, by how they are told.
LEMMA KindsAre ==
  ASSUME NEW e \in Devices
  PROVE  /\ e \in Device
         /\ \/ e.kind \in Pedals \/ e.kind \in ScriptedKinds \/ e.kind \in ToldKinds
            \/ e.kind \in {"C12Lua", "SerialHaptic", "MozaKs", "MozaNew", "Sound"}
<1>1. e \in Device
  BY DeviceOutputAssumption DEF DeviceOutputAssumption
<1>2. e.kind \in Kinds
  BY <1>1 DEF Device
<1> QED
  BY <1>1, <1>2 DEF Kinds, ToldKinds

LEMMA NewMemType ==
  ASSUME NEW e \in Devices
  PROVE  MemTypeOK(e, NewMem(e))
<1>1. FreshFilter \in Filter
  BY DEF FreshFilter, Filter
<1>2. CASE e.kind \in Pedals
  <2>1. NewMem(e) = [state |-> 0, filter |-> FreshFilter]
    BY <1>2 DEF NewMem, Pedals, ScriptedKinds
  <2> QED
    BY <1>1, <1>2, <2>1, MemTypes
<1>3. CASE e.kind = "SerialHaptic"
  <2>1. NewMem(e) = [scaled |-> 0, filter |-> FreshFilter]
    BY <1>3 DEF NewMem, Pedals, ScriptedKinds
  <2> QED
    BY <1>1, <1>3, <2>1, MemTypes
<1>4. CASE e.kind \in ScriptedKinds
  <2>1. NewMem(e) = [message |-> NoMessage]
    BY <1>4 DEF NewMem, Pedals, ScriptedKinds
  <2> QED
    BY <1>4, <2>1, MemTypes
<1>5. CASE e.kind = "MozaKs"
  <2>1. NewMem(e) = [flag |-> "unset"]
    BY <1>5 DEF NewMem, Pedals, ScriptedKinds
  <2> QED
    BY <1>5, <2>1, MemTypes
<1>6. CASE e.kind = "MozaNew"
  <2>1. NewMem(e) = [NewMoza EXCEPT !.armed = TRUE]
    BY <1>6 DEF NewMem, Pedals, ScriptedKinds, PrepareMoza
  <2> QED
    BY <1>6, <2>1, NewMozaType, MemTypes
<1>7. CASE e.kind = "Sound"
  <2>1. NewMem(e) = NewVoice(e)
    BY <1>7 DEF NewMem, Pedals, ScriptedKinds
  <2>2. PICK duration \in 0 .. HitLength :
           duration = IF e.effect = "GearShift" THEN HitLength ELSE 0
    BY HapticAssumption DEF HapticAssumption
  <2>3. NewVoice(e) =
           [frequency |-> 0, amplitude |-> 0, wobble |-> FALSE, duration |-> duration,
            elapsed |-> 0, gear |-> 1, held |-> FALSE, filter |-> FreshFilter, gain |-> 0]
    BY <2>2 DEF NewVoice, Neutral
  <2>4. 0 \in 0 .. HitLength /\ 0 \in 0 .. FadeLength
    BY HapticAssumption DEF HapticAssumption
  <2>5. NewVoice(e) \in Voice
    BY <1>1, <2>3, <2>4 DEF Voice
  <2> QED
    BY <1>7, <2>1, <2>5, MemTypes
<1>8. CASE e.kind = "Tach"
  <2>1. NewMem(e) = [points |-> <<>>, spacing |-> 0]
    BY <1>8 DEF NewMem, Pedals, ScriptedKinds
  <2> QED
    BY <1>8, <2>1, MemTypes
<1>9. CASE e.kind \in ToldKinds \ {"Tach"}
  <2>1. NewMem(e) = [none |-> TRUE]
    BY <1>9 DEF NewMem, Pedals, ScriptedKinds, ToldKinds
  <2> QED
    BY <1>9, <2>1, MemTypes
<1> QED
  BY <1>2, <1>3, <1>4, <1>5, <1>6, <1>7, <1>8, <1>9, KindsAre DEF ScriptedKinds

LEMMA TypeInitial ==
  ASSUME Init
  PROVE  TypeOK /\ TachInv
<1>1. OffFrame \in Frame /\ entry \in Devices /\ mem = NewMem(entry) /\ phase = "closed"
  BY DeviceOutputAssumption DEF DeviceOutputAssumption, Init
<1>2. OffFrame.active \in BOOLEAN /\ OffFrame.rpms \in Nat
  BY <1>1 DEF Frame
<1>3. CarIsMoving(OffFrame) \in BOOLEAN /\ ChassisIsRolling(OffFrame) \in BOOLEAN
  BY DEF CarIsMoving, ChassisIsRolling
<1>4. PICK rpms \in Nat : rpms = IF entry.kind = "Tach" THEN OffFrame.rpms ELSE 0
  BY <1>2
<1>5. last = [active |-> OffFrame.active, moving |-> CarIsMoving(OffFrame),
              rolling |-> ChassisIsRolling(OffFrame), rpms |-> rpms]
  BY <1>4 DEF Init, Seen
<1>6. last \in [active : BOOLEAN, moving : BOOLEAN, rolling : BOOLEAN, rpms : Nat]
  BY <1>2, <1>3, <1>5
<1>7. DOMAIN shows = Channels(entry)
  BY DEF Init
<1> QED
  BY <1>1, <1>6, <1>7, NewMemType, TachInitial DEF Init, TypeOK

LEMMA OffFrameIs == OffFrame \in Frame /\ ~OffFrame.active
BY DeviceOutputAssumption DEF DeviceOutputAssumption

\* Either frame of the R9.
LEMMA MozaFrameType ==
  ASSUME mem \in MozaState, NEW f \in Frame, NEW clock \in MozaClock,
         {"bar", "corners", "buttons", "mask"} \subseteq DOMAIN shows,
         WriteMozaFrame(f, clock)
  PROVE  mem' \in MozaState /\ DOMAIN shows' = DOMAIN shows
<1>1. mem' \in MozaState
  BY ActiveFrame, BlankFrame, NewMozaType DEF Blanked
<1>2. DOMAIN shows' = DOMAIN shows
  BY DeliverKeepsChannels DEF WriteMozaFrame
<1> QED
  BY <1>1, <1>2

LEMMA MozaChannels ==
  ASSUME TypeOK, entry.kind = "MozaNew"
  PROVE  mem \in MozaState /\ {"bar", "corners", "buttons", "mask"} \subseteq DOMAIN shows
<1>1. mem \in MozaState
  BY MemTypes DEF TypeOK
<1>2. Channels(entry) = {"settings", "bar", "corners", "buttons", "mask"}
  BY DEF Channels
<1> QED
  BY <1>1, <1>2 DEF TypeOK

\* What a step does to the device leaves its parts what they are.
LEMMA DeviceTypes ==
  ASSUME TypeOK, [Next]_vars
  PROVE  /\ entry' \in Devices
         /\ phase' \in {"closed", "opened", "ticked", "released"}
         /\ last' \in [active : BOOLEAN, moving : BOOLEAN, rolling : BOOLEAN, rpms : Nat]
         /\ MemTypeOK(entry', mem') /\ DOMAIN shows' = Channels(entry')
<1> DEFINE Kept == /\ entry' = entry
                   /\ phase' \in {"closed", "opened", "ticked", "released"}
                   /\ last' \in [active : BOOLEAN, moving : BOOLEAN, rolling : BOOLEAN,
                                 rpms : Nat]
                   /\ MemTypeOK(entry, mem') /\ DOMAIN shows' = DOMAIN shows
<1> SUFFICES Kept
  BY DEF TypeOK
<1>0. entry \in Devices /\ entry \in Device /\ Frames \subseteq Frame
      /\ MemTypeOK(entry, mem) /\ DOMAIN shows = Channels(entry)
      /\ phase \in {"closed", "opened", "ticked", "released"}
      /\ last \in [active : BOOLEAN, moving : BOOLEAN, rolling : BOOLEAN, rpms : Nat]
  BY KindsAre, DeviceOutputAssumption DEF TypeOK, DeviceOutputAssumption
<1>1. CASE UNCHANGED device
  BY <1>0, <1>1 DEF device
<1>2. CASE ToldStep
  <2>1. PICK f, reports, arrived :
           f \in Frame /\ Ticking(ToldKinds, f) /\ Deliver(reports, arrived) /\ mem' = mem
    BY <1>2 DEF ToldStep
  <2> QED
    BY <1>0, <2>1, Ticked, DeliverKeepsChannels
<1>3. CASE ScriptStep
  <2>1. PICK f, reports, arrived, message :
           f \in Frame /\ Ticking(ScriptedKinds, f) /\ Deliver(reports, arrived) /\ mem' = [message |-> message]
    BY <1>3 DEF ScriptStep
  <2>2. entry.kind \in ScriptedKinds
    BY <2>1, Ticked
  <2>3. MemTypeOK(entry, mem')
    BY <2>1, <2>2, MemTypes
  <2> QED
    BY <1>0, <2>1, <2>3, Ticked, DeliverKeepsChannels
<1>4. CASE WritePedal
  <2>1. PICK f, sense, arrived :
           /\ f \in Frames /\ sense \in Sense
           /\ Ticking(Pedals, f)
           /\ Deliver(IF ~entry.armed \/ PlayOf(f, entry, mem.filter, sense) = mem.state THEN <<>>
                      ELSE PedalReports(entry, PlayOf(f, entry, mem.filter, sense)), arrived)
           /\ mem' = IF entry.armed THEN PedalMem(f, PlayOf(f, entry, mem.filter, sense)) ELSE mem
    BY <1>4 DEF WritePedal
  <2>2. entry.kind \in Pedals /\ f \in Frame /\ sense \in Sense
    BY <1>0, <2>1, Ticked
  <2>3. mem \in [state : Nat, filter : Filter]
    BY <1>0, <2>2, MemTypes
  <2>4. PlayOf(f, entry, mem.filter, sense) \in Nat /\ FilterAfter(f, entry, mem.filter) \in Filter
    BY <1>0, <2>2, <2>3, PlayIsNat, FilterStays
  <2>5. mem' \in [state : Nat, filter : Filter]
    BY <2>1, <2>3, <2>4 DEF PedalMem
  <2>6. MemTypeOK(entry, mem')
    BY <2>2, <2>5, MemTypes
  <2> QED
    BY <1>0, <2>1, <2>2, <2>6, Ticked, DeliverKeepsChannels
<1>5. CASE WriteSerialHaptic
  <2>1. PICK f, sense, arrived, play, scaled :
           /\ f \in Frames /\ sense \in Sense
           /\ play = IF entry.armed THEN PlayOf(f, entry, mem.filter, sense) ELSE 0
           /\ scaled = ScaledPlay(play, entry.amp)
           /\ Ticking({"SerialHaptic"}, f)
           /\ Deliver(<<HapticPacket(scaled, mem.scaled, entry.motor)>>, arrived)
           /\ mem' = [scaled |-> scaled, filter |-> FilterAfter(f, entry, mem.filter)]
    BY <1>5 DEF WriteSerialHaptic
  <2>2. entry.kind = "SerialHaptic" /\ f \in Frame
    BY <1>0, <2>1, Ticked
  <2>3. mem \in [scaled : 0 .. 100, filter : Filter]
    BY <1>0, <2>2, MemTypes
  <2>4. play \in Nat /\ FilterAfter(f, entry, mem.filter) \in Filter
    BY <1>0, <2>1, <2>2, <2>3, PlayIsNat, FilterStays
  <2>5. scaled \in 0 .. 100
    BY <1>0, <2>1, <2>4, ScaledIsPercent DEF Device
  <2>6. mem' \in [scaled : 0 .. 100, filter : Filter]
    BY <2>1, <2>4, <2>5
  <2>7. MemTypeOK(entry, mem')
    BY <2>2, <2>6, MemTypes
  <2> QED
    BY <1>0, <2>1, <2>2, <2>7, Ticked, DeliverKeepsChannels
<1>6. CASE WriteMozaKs
  <2>1. PICK f, blinkOff, arrived :
           /\ f \in Frames /\ blinkOff \in BOOLEAN
           /\ Ticking({"MozaKs"}, f)
           /\ Deliver(KsTick(f, mem.flag, blinkOff), arrived)
           /\ mem' = IF f.maxrpm = 0 THEN mem ELSE [flag |-> f.flag]
    BY <1>6 DEF WriteMozaKs
  <2>2. entry.kind = "MozaKs" /\ f \in Frame
    BY <1>0, <2>1, Ticked
  <2>3. mem' \in [flag : {"unset", "none", "yellow"}]
    BY <1>0, <2>1, <2>2, MemTypes DEF Frame
  <2>4. MemTypeOK(entry, mem')
    BY <2>2, <2>3, MemTypes
  <2> QED
    BY <1>0, <2>1, <2>2, <2>4, Ticked, DeliverKeepsChannels
<1>7. CASE WriteMoza
  <2>1. PICK f \in Frames, clock \in MozaClock : Ticking({"MozaNew"}, f) /\ WriteMozaFrame(f, clock)
    BY <1>7 DEF WriteMoza
  <2>2. entry.kind = "MozaNew" /\ f \in Frame
    BY <1>0, <2>1, Ticked
  <2>3. mem' \in MozaState /\ DOMAIN shows' = DOMAIN shows
    BY <2>1, <2>2, MozaChannels, MozaFrameType
  <2>4. MemTypeOK(entry, mem')
    BY <2>2, <2>3, MemTypes
  <2> QED
    BY <1>0, <2>1, <2>2, <2>3, <2>4, Ticked
<1>8. CASE WriteSound
  <2>1. PICK f \in Frames, sense \in Sense :
           /\ Ticking({"Sound"}, f) /\ shows' = shows
           /\ mem' = UpdateVoice(mem, f, entry, sense)
    BY <1>8 DEF WriteSound
  <2>2. entry.kind = "Sound" /\ f \in Frame
    BY <1>0, <2>1, Ticked
  <2>3. mem \in Voice
    BY <1>0, <2>2, MemTypes
  <2>4. mem' \in Voice
    BY <1>0, <2>1, <2>2, <2>3, VoiceStays
  <2>5. MemTypeOK(entry, mem')
    BY <2>2, <2>4, MemTypes
  <2> QED
    BY <1>0, <2>1, <2>2, <2>5, Ticked
<1>9. CASE Render
  <2>1. /\ entry.kind = "Sound" /\ mem' = Rendered(mem, entry)
        /\ entry' = entry /\ phase' = phase /\ last' = last /\ shows' = shows
    BY <1>9 DEF Render
  <2>2. mem \in Voice
    BY <1>0, <2>1, MemTypes
  <2>3. mem' \in Voice
    BY <2>1, <2>2, RenderedStays
  <2>4. MemTypeOK(entry, mem')
    BY <2>1, <2>3, MemTypes
  <2> QED
    BY <1>0, <2>1, <2>4
<1>10. CASE Open
  <2>1. PICK reports, arrived :
           /\ Deliver(reports, arrived)
           /\ mem' = CASE entry.kind = "MozaNew" /\ Len(reports) \notin arrived ->
                             [mem EXCEPT !.armed = FALSE]
                       [] entry.kind = "Tach" -> LoadTachTable
                       [] OTHER -> mem
    BY <1>10 DEF Open
  <2>2. phase' = "opened" /\ entry' = entry /\ last' = last
    BY <1>10 DEF Open
  <2>3. MemTypeOK(entry, mem')
    <3>1. CASE entry.kind = "MozaNew"
      <4>1. mem \in MozaState
        BY <3>1, MozaChannels
      <4>2. mem' = mem \/ mem' = [mem EXCEPT !.armed = FALSE]
        BY <2>1, <3>1
      <4>3. mem' \in MozaState
        BY <4>1, <4>2 DEF MozaState
      <4> QED
        BY <3>1, <4>3, MemTypes
    <3>2. CASE entry.kind = "Tach"
      <4>1. mem' = [points |-> TachPoints(tachFile), spacing |-> tachFile.spacing]
        BY <2>1, <3>2 DEF LoadTachTable
      <4>2. mem'.spacing \in {0, 1, 2, 4}
        BY <4>1 DEF TypeOK, TachTypeOK
      <4> QED
        BY <3>2, <4>2, MemTypes
    <3>3. CASE entry.kind \notin {"MozaNew", "Tach"}
      <4>1. mem' = mem
        BY <2>1, <3>3
      <4> QED
        BY <1>0, <4>1
    <3> QED
      BY <3>1, <3>2, <3>3
  <2> QED
    BY <1>0, <2>1, <2>2, <2>3, DeliverKeepsChannels
<1>11. CASE Release
  <2>1. phase' = "released" /\ entry' = entry /\ last' = last
    BY <1>11 DEF Release
  <2>2. CASE entry.kind = "MozaNew"
    <3>1. WriteMozaFrame(OffFrame, [blinkOff |-> FALSE, due |-> FALSE])
      BY <1>11, <2>2 DEF Release, BlankMoza
    <3>2. [blinkOff |-> FALSE, due |-> FALSE] \in MozaClock
      BY DEF MozaClock
    <3>3. PICK clock \in MozaClock : WriteMozaFrame(OffFrame, clock)
      BY <3>1, <3>2
    <3>4. mem' \in MozaState /\ DOMAIN shows' = DOMAIN shows
      BY <2>2, <3>3, MozaChannels, MozaFrameType, OffFrameIs
    <3>5. MemTypeOK(entry, mem')
      BY <2>2, <3>4, MemTypes
    <3> QED
      BY <1>0, <2>1, <3>4, <3>5
  <2>3. CASE entry.kind # "MozaNew"
    <3>1. PICK reports, arrived : Deliver(reports, arrived) /\ mem' = mem
      BY <1>11, <2>3 DEF Release
    <3> QED
      BY <1>0, <2>1, <3>1, DeliverKeepsChannels
  <2> QED
    BY <2>2, <2>3
<1>12. CASE Reopen
  <2>1. /\ phase' = "closed" /\ entry' = entry /\ last' = last /\ mem' = NewMem(entry)
        /\ DOMAIN shows' = Channels(entry)
    BY <1>12 DEF Reopen
  <2> QED
    BY <1>0, <2>1, NewMemType
<1> QED
  BY <1>1, <1>2, <1>3, <1>4, <1>5, <1>6, <1>7, <1>8, <1>9, <1>10, <1>11, <1>12, Steps

\* The types and the tachometer's table, as the induction carries them.
TypeInv == TypeOK /\ TachInv

LEMMA TypeInductive ==
  ASSUME TypeInv, [Next]_vars
  PROVE  TypeInv'
<1>1. TachTypeOK' /\ TachInv'
  <2>1. [TachNext]_tach
    BY DEF Next, vars
  <2> QED
    BY <2>1, TachSteps DEF TypeInv, TypeOK
<1> QED
  BY <1>1, DeviceTypes DEF TypeInv, TypeOK

LEMMA TypeAlways == Spec => []TypeInv
<1>1. Init => TypeInv
  BY TypeInitial DEF TypeInv
<1>2. TypeInv /\ [Next]_vars => TypeInv'
  BY TypeInductive
<1> QED
  BY <1>1, <1>2, PTL DEF Spec

\* Whatever its frames, scripts and losses, a device's driver keeps a memory of
\* its own kind, its channels stay those it has, plays and levels stay in their
\* ranges, and the calibration's stage, table and needle stay what they are
\* (devices.rs, tach.rs).
THEOREM DeviceTypeCorrect == Spec => []TypeOK
<1>1. TypeInv => TypeOK
  BY DEF TypeInv
<1> QED
  BY <1>1, TypeAlways, PTL

-----------------------------------------------------------------------------
(* What the drivers know *)

\* Whose driver remembers nothing cannot be wrong.
RemembersNothing(e) ==
    e.kind \in ToldKinds \cup {"C12Lua", "GtNeo", "SimLedCustom", "Sound"}
LEMMA NothingRemembered ==
  ASSUME RemembersNothing(entry)
  PROVE  RememberedIsShown
<1>1. Remembered = <<>>
  BY DEF Remembered, RemembersNothing, ToldKinds
<1>2. DOMAIN Remembered = {}
  BY <1>1
<1> QED
  BY <1>2 DEF RememberedIsShown

\* A pedal is told what changed, or knows it already (write_csl, write_p1000,
\* write_simnet).
PedalKnown(e, m, shown) ==
    /\ e.kind = "Csl" => shown["rumble"] \in {CslRumble(e.effect, m.state), Unknown}
    /\ e.kind = "P1000" =>
          /\ shown["slip"] \in {m.state > 0 /\ e.effect \in {"TyreSlip", "AbsBrakes"}, Unknown}
          /\ shown["lock"] \in {m.state > 0 /\ e.effect \in {"TyreLock", "AbsBrakes"}, Unknown}
    /\ e.kind = "SimNet" => shown["motor"] \in {m.state > 0, Unknown}

LEMMA PedalKnows ==
  ASSUME entry.kind \in Pedals
  PROVE  RememberedIsShown <=>
            (phase \in {"opened", "ticked"} => PedalKnown(entry, mem, shows))
<1>1. CASE entry.kind = "Csl"
  <2>1. Remembered = [rumble |-> CslRumble(entry.effect, mem.state)]
    BY <1>1 DEF Remembered
  <2>2. DOMAIN Remembered = {"rumble"}
        /\ Remembered["rumble"] = CslRumble(entry.effect, mem.state)
    BY <2>1
  <2> QED
    BY <1>1, <2>2 DEF RememberedIsShown, PedalKnown
<1>2. CASE entry.kind = "P1000"
  <2>1. Remembered =
           [slip |-> mem.state > 0 /\ entry.effect \in {"TyreSlip", "AbsBrakes"},
            lock |-> mem.state > 0 /\ entry.effect \in {"TyreLock", "AbsBrakes"}]
    BY <1>2 DEF Remembered
  <2>2. /\ DOMAIN Remembered = {"slip", "lock"}
        /\ Remembered["slip"] = (mem.state > 0 /\ entry.effect \in {"TyreSlip", "AbsBrakes"})
        /\ Remembered["lock"] = (mem.state > 0 /\ entry.effect \in {"TyreLock", "AbsBrakes"})
    BY <2>1
  <2> QED
    BY <1>2, <2>2 DEF RememberedIsShown, PedalKnown
<1>3. CASE entry.kind = "SimNet"
  <2>1. Remembered = [motor |-> mem.state > 0]
    BY <1>3 DEF Remembered
  <2>2. DOMAIN Remembered = {"motor"} /\ Remembered["motor"] = (mem.state > 0)
    BY <2>1
  <2> QED
    BY <1>3, <2>2 DEF RememberedIsShown, PedalKnown
<1> QED
  BY <1>1, <1>2, <1>3 DEF Pedals

LEMMA PedalTick ==
  ASSUME NEW e \in Device, e.kind \in Pedals, NEW m \in [state : Nat, filter : Filter],
         NEW play \in Nat, NEW filter \in Filter, NEW reports, NEW arrived, NEW after,
         reports = IF ~e.armed \/ play = m.state THEN <<>> ELSE PedalReports(e, play),
         after = IF e.armed THEN [m EXCEPT !.state = play, !.filter = filter] ELSE m,
         Deliver(reports, arrived), DOMAIN shows = Channels(e), PedalKnown(e, m, shows)
  PROVE  PedalKnown(e, after, shows')
<1>1. CASE ~e.armed \/ play = m.state
  <2>1. after.state = m.state
    BY <1>1
  <2>2. Deliver(<<>>, arrived)
    BY <1>1
  <2>3. \A c \in DOMAIN shows : shows'[c] = shows[c]
    BY <2>2, NothingDelivered
  <2>4. CASE e.kind = "Csl"
    <3>1. "rumble" \in DOMAIN shows
      BY <2>4 DEF Channels
    <3> QED
      BY <2>1, <2>3, <2>4, <3>1 DEF PedalKnown
  <2>5. CASE e.kind = "P1000"
    <3>1. "slip" \in DOMAIN shows /\ "lock" \in DOMAIN shows
      BY <2>5 DEF Channels
    <3> QED
      BY <2>1, <2>3, <2>5, <3>1 DEF PedalKnown
  <2>6. CASE e.kind = "SimNet"
    <3>1. "motor" \in DOMAIN shows
      BY <2>6 DEF Channels
    <3> QED
      BY <2>1, <2>3, <2>6, <3>1 DEF PedalKnown
  <2> QED
    BY <2>4, <2>5, <2>6 DEF Pedals
<1>2. CASE e.armed /\ play # m.state
  <2>1. after.state = play /\ Deliver(PedalReports(e, play), arrived)
    BY <1>2
  <2>2. CASE e.kind = "Csl"
    <3>1. "rumble" \in DOMAIN shows
      BY <2>2 DEF Channels
    <3>2. Deliver(<<[rumble |-> CslRumble(e.effect, play)]>>, arrived)
      BY <2>1, <2>2 DEF PedalReports
    <3>3. shows'["rumble"] \in {CslRumble(e.effect, play), Unknown}
      BY <3>1, <3>2, OneDelivered
    <3> QED
      BY <2>1, <2>2, <3>3 DEF PedalKnown
  <2>3. CASE e.kind = "P1000"
    <3>1. "slip" \in DOMAIN shows /\ "lock" \in DOMAIN shows
      BY <2>3 DEF Channels
    <3>2. Deliver(P1000Reports(e.effect, play), arrived)
      BY <2>1, <2>3 DEF PedalReports
    <3>0. PICK yes, no : yes = TRUE /\ no = FALSE
      OBVIOUS
    <3>8. /\ shows["slip"] \in {no, Unknown} \/ e.effect \in {"TyreSlip", "AbsBrakes"}
          /\ shows["lock"] \in {no, Unknown} \/ e.effect \in {"TyreLock", "AbsBrakes"}
      BY <2>3, <3>0 DEF PedalKnown
    <3>3. CASE play = 0
      <4>1. PICK frames : frames = <<[lock |-> no], [slip |-> no]>>
        OBVIOUS
      <4>2. /\ DOMAIN frames = {1, 2}
            /\ DOMAIN frames[1] = {"lock"} /\ frames[1]["lock"] = no
            /\ DOMAIN frames[2] = {"slip"} /\ frames[2]["slip"] = no
        BY <4>1
      <4>3. Deliver(frames, arrived)
        <5>1. P1000Reports(e.effect, play) = <<[lock |-> FALSE], [slip |-> FALSE]>>
          <6>1. play <= 0 /\ ~(play > 0)
            BY <3>3
          <6> HIDE <3>3
          <6> QED
            BY <6>1, Zenon DEF P1000Reports
        <5> QED
          BY <3>0, <3>2, <4>1, <5>1
      <4>4. shows'["lock"] \in {no, Unknown} /\ shows'["slip"] \in {no, Unknown}
        BY <3>1, <4>2, <4>3, Delivered
      <4> QED
        <5>1. ~(after.state > 0)
          BY <2>1, <3>3
        <5>2. /\ shows'["slip"] \in {after.state > 0 /\ e.effect \in {"TyreSlip", "AbsBrakes"}, Unknown}
              /\ shows'["lock"] \in {after.state > 0 /\ e.effect \in {"TyreLock", "AbsBrakes"}, Unknown}
          BY <3>0, <4>4, <5>1
        <5> QED
          BY <2>3, <5>2 DEF PedalKnown
    <3>4. CASE play > 0 /\ e.effect = "TyreSlip"
      <4>1. Deliver(<<[slip |-> yes]>>, arrived)
        BY <3>0, <3>2, <3>4 DEF P1000Reports
      <4>2. shows'["slip"] \in {yes, Unknown} /\ shows'["lock"] = shows["lock"]
        BY <3>1, <4>1, OneDelivered
      <4> QED
        BY <2>1, <2>3, <3>0, <3>8, <3>4, <4>2 DEF PedalKnown
    <3>5. CASE play > 0 /\ e.effect = "TyreLock"
      <4>1. Deliver(<<[lock |-> yes]>>, arrived)
        BY <3>0, <3>2, <3>5 DEF P1000Reports
      <4>2. shows'["lock"] \in {yes, Unknown} /\ shows'["slip"] = shows["slip"]
        BY <3>1, <4>1, OneDelivered
      <4> QED
        BY <2>1, <2>3, <3>0, <3>8, <3>5, <4>2 DEF PedalKnown
    <3>6. CASE play > 0 /\ e.effect = "AbsBrakes"
      <4>1. PICK frames : frames = <<[slip |-> yes], [lock |-> yes]>>
        OBVIOUS
      <4>2. /\ DOMAIN frames = {1, 2}
            /\ DOMAIN frames[1] = {"slip"} /\ frames[1]["slip"] = yes
            /\ DOMAIN frames[2] = {"lock"} /\ frames[2]["lock"] = yes
        BY <4>1
      <4>3. Deliver(frames, arrived)
        BY <3>0, <3>2, <3>6, <4>1 DEF P1000Reports
      <4>4. shows'["lock"] \in {yes, Unknown} /\ shows'["slip"] \in {yes, Unknown}
        BY <3>1, <4>2, <4>3, Delivered
      <4> QED
        BY <2>1, <2>3, <3>0, <3>6, <4>4 DEF PedalKnown
    <3>7. CASE play > 0 /\ e.effect \notin {"TyreSlip", "TyreLock", "AbsBrakes"}
      <4>1. Deliver(<<>>, arrived)
        BY <3>2, <3>7 DEF P1000Reports
      <4>2. shows'["slip"] = shows["slip"] /\ shows'["lock"] = shows["lock"]
        BY <3>1, <4>1, NothingDelivered
      <4> QED
        BY <2>1, <2>3, <3>0, <3>8, <3>7, <4>2 DEF PedalKnown
    <3> QED
      BY <3>3, <3>4, <3>5, <3>6, <3>7
  <2>4. CASE e.kind = "SimNet"
    <3>1. "motor" \in DOMAIN shows
      BY <2>4 DEF Channels
    <3>2. PICK on : on = (play > 0)
      OBVIOUS
    <3>3. Deliver(<<[motor |-> on]>>, arrived)
      BY <2>1, <2>4, <3>2 DEF PedalReports, SimnetReport
    <3>4. shows'["motor"] \in {on, Unknown}
      BY <3>1, <3>3, OneDelivered
    <3> QED
      BY <2>1, <2>4, <3>2, <3>4 DEF PedalKnown
  <2> QED
    BY <2>2, <2>3, <2>4 DEF Pedals
<1> QED
  BY <1>1, <1>2

LEMMA HapticKnows ==
  ASSUME entry.kind = "SerialHaptic"
  PROVE  RememberedIsShown <=>
            (phase \in {"opened", "ticked"} =>
                \A motor \in Driven(entry.motor) :
                    shows[motor] \in {EffectSpeed(mem.scaled), Unknown})
<1>1. Remembered = [motor \in Driven(entry.motor) |-> EffectSpeed(mem.scaled)]
  BY DEF Remembered
<1> QED
  BY <1>1 DEF RememberedIsShown

LEMMA KsKnows ==
  ASSUME entry.kind = "MozaKs"
  PROVE  RememberedIsShown <=>
            (phase \in {"opened", "ticked"} =>
                \A side \in {"left", "right"} :
                    shows[side] \in {IF mem.flag = "yellow" THEN "yellow" ELSE "off", Unknown})
<1>1. Remembered =
         [side \in {"left", "right"} |-> IF mem.flag = "yellow" THEN "yellow" ELSE "off"]
  BY DEF Remembered
<1> QED
  BY <1>1 DEF RememberedIsShown

LEMMA WheelKnows ==
  ASSUME entry.kind = "MozaNew", mem \in MozaState
  PROVE  RememberedIsShown <=> (phase \in {"opened", "ticked"} => WheelKnown)
<1>1. CASE mem.hasButtonWrite
  <2>1. Remembered = [bar |-> BarColour(mem.bar), corners |-> mem.corners,
                      buttons |-> CornersMask(mem.corners)]
    BY <1>1 DEF Remembered
  <2>2. /\ DOMAIN Remembered = {"bar", "corners", "buttons"}
        /\ Remembered["bar"] = BarColour(mem.bar)
        /\ Remembered["corners"] = mem.corners
        /\ Remembered["buttons"] = CornersMask(mem.corners)
    BY <2>1
  <2> QED
    BY <1>1, <2>2 DEF RememberedIsShown, WheelKnown
<1>2. CASE ~mem.hasButtonWrite
  <2>1. Remembered = [bar |-> BarColour(mem.bar)]
    BY <1>2 DEF Remembered
  <2>2. DOMAIN Remembered = {"bar"} /\ Remembered["bar"] = BarColour(mem.bar)
    BY <2>1
  <2> QED
    BY <1>2, <2>2 DEF RememberedIsShown, WheelKnown
<1> QED
  BY <1>1, <1>2

LEMMA BoardKnows ==
  ASSUME entry.kind = "ArduinoCustom"
  PROVE  RememberedIsShown <=>
            (phase \in {"opened", "ticked"} /\ mem.message # NoMessage =>
                shows["message"] \in {mem.message, Unknown})
<1>1. CASE mem.message = NoMessage
  <2>1. Remembered = <<>>
    BY <1>1 DEF Remembered
  <2>2. DOMAIN Remembered = {}
    BY <2>1
  <2> QED
    BY <1>1, <2>2 DEF RememberedIsShown
<1>2. CASE mem.message # NoMessage
  <2>1. Remembered = [message |-> mem.message]
    BY <1>2 DEF Remembered
  <2>2. DOMAIN Remembered = {"message"} /\ Remembered["message"] = mem.message
    BY <2>1
  <2> QED
    BY <1>2, <2>2 DEF RememberedIsShown
<1> QED
  BY <1>1, <1>2

\* What RememberedIsShown asks of each kind.
DeviceKnown ==
    /\ entry.kind \in Pedals => PedalKnown(entry, mem, shows)
    /\ entry.kind = "SerialHaptic" =>
          \A motor \in Driven(entry.motor) : shows[motor] \in {EffectSpeed(mem.scaled), Unknown}
    /\ entry.kind = "MozaKs" =>
          \A side \in {"left", "right"} :
              shows[side] \in {IF mem.flag = "yellow" THEN "yellow" ELSE "off", Unknown}
    /\ entry.kind = "MozaNew" => WheelKnown
    /\ entry.kind = "ArduinoCustom" =>
          (mem.message # NoMessage => shows["message"] \in {mem.message, Unknown})

LEMMA KnownIs ==
  /\ TypeOK => (RememberedIsShown <=> (phase \in {"opened", "ticked"} => DeviceKnown))
  /\ (TypeOK => (RememberedIsShown <=> (phase \in {"opened", "ticked"} => DeviceKnown)))'
<1>1. ASSUME TypeOK
      PROVE  RememberedIsShown <=> (phase \in {"opened", "ticked"} => DeviceKnown)
  <2>1. CASE entry.kind \in Pedals
    BY <2>1, PedalKnows DEF DeviceKnown, Pedals
  <2>2. CASE entry.kind = "SerialHaptic"
    BY <2>2, HapticKnows DEF DeviceKnown, Pedals
  <2>3. CASE entry.kind = "MozaKs"
    BY <2>3, KsKnows DEF DeviceKnown, Pedals
  <2>4. CASE entry.kind = "MozaNew"
    BY <1>1, <2>4, MozaChannels, WheelKnows DEF DeviceKnown, Pedals
  <2>5. CASE entry.kind = "ArduinoCustom"
    BY <2>5, BoardKnows DEF DeviceKnown, Pedals
  <2>6. CASE RemembersNothing(entry)
    BY <2>6, NothingRemembered DEF DeviceKnown, Pedals, RemembersNothing, ToldKinds
  <2> QED
    BY <1>1, <2>1, <2>2, <2>3, <2>4, <2>5, <2>6, KindsAre
       DEF TypeOK, RemembersNothing, ScriptedKinds
<1> QED
  BY <1>1, PTL

\* What the KS takes with its flag's colours (MozaKsWheel::tick).
LEMMA KsDelivered ==
  ASSUME NEW flag, NEW mask, NEW arrived, NEW colour,
         colour = IF flag = "yellow" THEN "yellow" ELSE "off",
         DOMAIN mask = {"bar", "flagLeds"}, {"left", "right"} \subseteq DOMAIN shows
  PROVE  /\ Deliver(KsFlagColors(flag) \o <<mask>>, arrived) =>
               shows'["left"] \in {colour, Unknown} /\ shows'["right"] \in {colour, Unknown}
         /\ Deliver(KsFlagColors(flag), arrived) =>
               shows'["left"] \in {colour, Unknown} /\ shows'["right"] \in {colour, Unknown}
         /\ Deliver(<<mask>>, arrived) =>
               shows'["left"] = shows["left"] /\ shows'["right"] = shows["right"]
<1>1. PICK left, right : left = [side \in {"left"} |-> colour]
                         /\ right = [side \in {"right"} |-> colour]
  OBVIOUS
<1>2. KsFlagColors(flag) = <<left, right>>
  <2>1. left = [left |-> colour] /\ right = [right |-> colour]
    BY <1>1
  <2> QED
    BY <2>1 DEF KsFlagColors
<1>3. /\ DOMAIN left = {"left"} /\ left["left"] = colour
      /\ DOMAIN right = {"right"} /\ right["right"] = colour
  BY <1>1
<1>4. ASSUME Deliver(KsFlagColors(flag) \o <<mask>>, arrived)
      PROVE  shows'["left"] \in {colour, Unknown} /\ shows'["right"] \in {colour, Unknown}
  <2>1. <<left, right>> \o <<mask>> = <<left, right, mask>>
    BY Concatenated
  <2>2. PICK frames : frames = <<left, right, mask>>
    OBVIOUS
  <2>3. DOMAIN frames = 1 .. 3 /\ frames[1] = left /\ frames[2] = right /\ frames[3] = mask
    BY <2>2
  <2>4. Deliver(frames, arrived)
    BY <1>2, <1>4, <2>1, <2>2
  <2> QED
    BY <1>3, <2>3, <2>4, Delivered
<1>5. ASSUME Deliver(KsFlagColors(flag), arrived)
      PROVE  shows'["left"] \in {colour, Unknown} /\ shows'["right"] \in {colour, Unknown}
  <2>1. PICK frames : frames = <<left, right>>
    OBVIOUS
  <2>2. DOMAIN frames = 1 .. 2 /\ frames[1] = left /\ frames[2] = right
    BY <2>1
  <2>3. Deliver(frames, arrived)
    BY <1>2, <1>5, <2>1
  <2> QED
    BY <1>3, <2>2, <2>3, Delivered
<1>6. ASSUME Deliver(<<mask>>, arrived)
      PROVE  shows'["left"] = shows["left"] /\ shows'["right"] = shows["right"]
  BY <1>6, OneDelivered
<1> QED
  BY <1>4, <1>5, <1>6

LEMMA KnowInitial == Init => KnowInv
BY DEF Init, KnowInv, ClosedIsFresh, RememberedIsShown, LostMaskRearms

\* A tick of any driver, and opening it, leave it knowing what its device shows.
LEMMA KnowInductive ==
  ASSUME TypeInv, TypeInv', KnowInv, [Next]_vars
  PROVE  KnowInv'
<1> DEFINE Ready == phase \in {"opened", "ticked"}
<1>0. /\ TypeOK /\ TypeOK' /\ entry \in Devices /\ entry \in Device /\ Frames \subseteq Frame
      /\ DOMAIN shows = Channels(entry) /\ MemTypeOK(entry, mem)
      /\ Ready => DeviceKnown
  BY KnownIs, KindsAre, DeviceOutputAssumption
     DEF TypeInv, TypeOK, KnowInv, DeviceOutputAssumption
<1>1. ASSUME entry' = entry, phase' = "ticked", DeviceKnown',
             entry.kind = "MozaNew" => LostMaskRearms'
      PROVE  KnowInv'
  BY <1>0, <1>1, KnownIs DEF KnowInv, ClosedIsFresh, LostMaskRearms
<1>2. CASE UNCHANGED device
  BY <1>2 DEF device, KnowInv, ClosedIsFresh, RememberedIsShown, Remembered, LostMaskRearms
<1>3. CASE ToldStep
  <2>1. PICK f \in Frame : Ticking(ToldKinds, f)
    BY <1>3 DEF ToldStep
  <2>2. entry' = entry /\ phase' = "ticked" /\ entry.kind \in ToldKinds
    BY <1>0, <2>1, Ticked
  <2>3. DeviceKnown' /\ entry.kind # "MozaNew"
    BY <2>2 DEF DeviceKnown, ToldKinds, Pedals
  <2> QED
    BY <1>1, <2>2, <2>3
<1>4. CASE ScriptStep
  <2>1. PICK f, reports, arrived, message :
           /\ f \in Frame
           /\ Ticking(ScriptedKinds, f)
           /\ Deliver(reports, arrived)
           /\ mem' = [message |-> message]
           /\ entry.kind = "ArduinoCustom" =>
                 reports = IF message = NoMessage THEN <<>> ELSE <<[message |-> message]>>
    BY <1>4 DEF ScriptStep
  <2>2. entry' = entry /\ phase' = "ticked" /\ entry.kind \in ScriptedKinds
    BY <1>0, <2>1, Ticked
  <2>3. mem'.message = message
    BY <2>1
  <2>4. ASSUME entry.kind = "ArduinoCustom", message # NoMessage
        PROVE  shows'["message"] \in {message, Unknown}
    <3>1. "message" \in DOMAIN shows
      BY <1>0, <2>4 DEF Channels
    <3>2. PICK report : report = [message |-> message]
      OBVIOUS
    <3>3. DOMAIN report = {"message"} /\ report["message"] = message
      BY <3>2
    <3>4. Deliver(<<report>>, arrived)
      BY <2>1, <2>4, <3>2
    <3> QED
      BY <3>1, <3>3, <3>4, OneDelivered
  <2>5. DeviceKnown' /\ entry.kind # "MozaNew"
    BY <2>2, <2>3, <2>4 DEF DeviceKnown, ScriptedKinds, Pedals
  <2> QED
    BY <1>1, <2>2, <2>5
<1>5. CASE WritePedal
  <2>1. PICK f, sense, arrived :
           /\ f \in Frames /\ sense \in Sense
           /\ Ticking(Pedals, f)
           /\ Deliver(IF ~entry.armed \/ PlayOf(f, entry, mem.filter, sense) = mem.state THEN <<>>
                      ELSE PedalReports(entry, PlayOf(f, entry, mem.filter, sense)), arrived)
           /\ mem' = IF entry.armed THEN PedalMem(f, PlayOf(f, entry, mem.filter, sense)) ELSE mem
    BY <1>5 DEF WritePedal
  <2>2. /\ entry' = entry /\ phase' = "ticked" /\ entry.kind \in Pedals /\ Ready
        /\ f \in Frame /\ sense \in Sense
    BY <1>0, <2>1, Ticked
  <2>3. PICK e \in Device, m \in [state : Nat, filter : Filter] : e = entry /\ m = mem
    BY <1>0, <2>2, MemTypes
  <2>4. PICK play \in Nat : play = PlayOf(f, e, m.filter, sense)
    BY <2>2, <2>3, PlayIsNat
  <2>5. PICK filter \in Filter : filter = FilterAfter(f, e, m.filter)
    BY <2>2, <2>3, FilterStays
  <2>6. PICK reports :
           reports = IF ~e.armed \/ play = m.state THEN <<>> ELSE PedalReports(e, play)
    OBVIOUS
  <2>7. PICK after :
           after = IF e.armed THEN [m EXCEPT !.state = play, !.filter = filter] ELSE m
    OBVIOUS
  <2>8. Deliver(reports, arrived) /\ mem' = after
    BY <2>1, <2>3, <2>4, <2>5, <2>6, <2>7 DEF PedalMem
  <2>9. PedalKnown(e, m, shows) /\ DOMAIN shows = Channels(e) /\ e.kind \in Pedals
    BY <1>0, <2>2, <2>3 DEF DeviceKnown
  <2>10. PedalKnown(e, after, shows')
    BY <2>6, <2>7, <2>8, <2>9, PedalTick
  <2>11. DeviceKnown' /\ entry.kind # "MozaNew"
    BY <2>2, <2>3, <2>8, <2>10 DEF DeviceKnown, Pedals
  <2> QED
    BY <1>1, <2>2, <2>11
<1>6. CASE WriteSerialHaptic
  <2>1. PICK f, arrived, scaled :
           /\ f \in Frames
           /\ Ticking({"SerialHaptic"}, f)
           /\ Deliver(<<HapticPacket(scaled, mem.scaled, entry.motor)>>, arrived)
           /\ mem'.scaled = scaled
    BY <1>6 DEF WriteSerialHaptic
  <2>2. entry' = entry /\ phase' = "ticked" /\ entry.kind = "SerialHaptic" /\ Ready
    BY <1>0, <2>1, Ticked
  <2>3. ASSUME NEW motor \in Driven(entry.motor)
        PROVE  shows'[motor] \in {EffectSpeed(scaled), Unknown}
    <3>1. motor \in DOMAIN shows
      BY <1>0, <2>2 DEF Channels, Driven, BoardMotors
    <3>2. PICK packet : packet = HapticPacket(scaled, mem.scaled, entry.motor)
      OBVIOUS
    <3>3. Deliver(<<packet>>, arrived)
      BY <2>1, <3>2
    <3>4. CASE scaled = mem.scaled
      <4>1. motor \notin DOMAIN packet
        BY <3>2, <3>4 DEF HapticPacket
      <4>2. shows'[motor] = shows[motor]
        BY <3>1, <3>3, <4>1, OneDelivered
      <4> QED
        BY <1>0, <2>2, <3>4, <4>2 DEF DeviceKnown
    <3>5. CASE scaled # mem.scaled
      <4>1. motor \in DOMAIN packet /\ packet[motor] = EffectSpeed(scaled)
        BY <3>2, <3>5 DEF HapticPacket
      <4> QED
        BY <3>1, <3>3, <4>1, OneDelivered
    <3> QED
      BY <3>4, <3>5
  <2>4. DeviceKnown' /\ entry.kind # "MozaNew"
    BY <2>1, <2>2, <2>3 DEF DeviceKnown, Pedals
  <2> QED
    BY <1>1, <2>2, <2>4
<1>7. CASE WriteMozaKs
  <2>1. PICK f, blinkOff, arrived :
           /\ f \in Frames /\ blinkOff \in BOOLEAN
           /\ Ticking({"MozaKs"}, f)
           /\ Deliver(KsTick(f, mem.flag, blinkOff), arrived)
           /\ mem' = IF f.maxrpm = 0 THEN mem ELSE [flag |-> f.flag]
    BY <1>7 DEF WriteMozaKs
  <2>2. entry' = entry /\ phase' = "ticked" /\ entry.kind = "MozaKs" /\ Ready
    BY <1>0, <2>1, Ticked
  <2>3. {"left", "right"} \subseteq DOMAIN shows
    BY <1>0, <2>2 DEF Channels
  <2>4. PICK mask : mask = KsMask(f, blinkOff)
    OBVIOUS
  <2>5. DOMAIN mask = {"bar", "flagLeds"}
    BY <2>4 DEF KsMask
  <2>6. \A side \in {"left", "right"} :
           shows[side] \in {IF mem.flag = "yellow" THEN "yellow" ELSE "off", Unknown}
    BY <1>0, <2>2 DEF DeviceKnown
  <2>7. \A side \in {"left", "right"} :
           shows'[side] \in {IF mem'.flag = "yellow" THEN "yellow" ELSE "off", Unknown}
    <3>1. CASE f.maxrpm = 0
      <4>1. Deliver(<<>>, arrived) /\ mem' = mem
        BY <2>1, <3>1 DEF KsTick
      <4> QED
        BY <2>3, <2>6, <4>1, NothingDelivered
    <3>2. CASE f.maxrpm # 0 /\ f.flag = mem.flag
      <4>1. KsTick(f, mem.flag, blinkOff) = <<>> \o <<mask>>
        BY <2>4, <3>2 DEF KsTick
      <4>2. KsTick(f, mem.flag, blinkOff) = <<mask>>
        BY <4>1
      <4>3. Deliver(<<mask>>, arrived) /\ mem'.flag = mem.flag
        BY <2>1, <3>2, <4>2
      <4>4. \A side \in {"left", "right"} : shows'[side] = shows[side]
        BY <2>3, <2>5, <4>3, OneDelivered
      <4> QED
        BY <2>6, <4>3, <4>4
    <3>3. CASE f.maxrpm # 0 /\ f.flag # mem.flag
      <4>1. PICK colour : colour = IF f.flag = "yellow" THEN "yellow" ELSE "off"
        OBVIOUS
      <4>2. KsTick(f, mem.flag, blinkOff) = KsFlagColors(f.flag) \o <<mask>>
        BY <2>4, <3>3 DEF KsTick
      <4>3. Deliver(KsFlagColors(f.flag) \o <<mask>>, arrived) /\ mem'.flag = f.flag
        BY <2>1, <3>3, <4>2
      <4>4. shows'["left"] \in {colour, Unknown} /\ shows'["right"] \in {colour, Unknown}
        BY <2>3, <2>5, <4>1, <4>3, KsDelivered
      <4> QED
        BY <4>1, <4>3, <4>4
    <3> QED
      BY <3>1, <3>2, <3>3
  <2>8. DeviceKnown' /\ entry.kind # "MozaNew"
    BY <2>2, <2>7 DEF DeviceKnown, Pedals
  <2> QED
    BY <1>1, <2>2, <2>8
<1>8. CASE WriteMoza
  <2>1. PICK f \in Frames, clock \in MozaClock : Ticking({"MozaNew"}, f) /\ WriteMozaFrame(f, clock)
    BY <1>8 DEF WriteMoza
  <2>2. /\ entry' = entry /\ phase' = "ticked" /\ entry.kind = "MozaNew" /\ Ready /\ f \in Frame
        /\ last'.active = f.active
    BY <1>0, <2>1, Ticked
  <2>3. /\ mem \in MozaState /\ {"bar", "corners", "buttons", "mask"} \subseteq DOMAIN shows
        /\ WheelKnown
    BY <1>0, <2>2, MozaChannels DEF DeviceKnown
  <2>4. CASE f.active
    <3>1. WheelKnown' /\ (shows'["mask"] = Unknown => ~mem'.armed)
      BY <2>1, <2>2, <2>3, <2>4, ActiveFrame
    <3>2. DeviceKnown' /\ LostMaskRearms'
      BY <2>2, <3>1 DEF DeviceKnown, Pedals, LostMaskRearms
    <3> QED
      BY <1>1, <2>2, <3>2
  <2>5. CASE ~f.active
    <3>1. WheelKnown'
      BY <2>1, <2>2, <2>3, <2>5, BlankFrame
    <3>2. DeviceKnown' /\ LostMaskRearms'
      BY <2>2, <2>5, <3>1 DEF DeviceKnown, Pedals, LostMaskRearms
    <3> QED
      BY <1>1, <2>2, <3>2
  <2> QED
    BY <2>4, <2>5
<1>9. CASE WriteSound \/ Render
  <2>1. entry.kind = "Sound" /\ entry' = entry
    BY <1>9 DEF WriteSound, Ticking, Render
  <2>2. phase' \in {"opened", "ticked"}
    BY <1>9 DEF WriteSound, Ticking, Render
  <2>3. DeviceKnown'
    BY <2>1 DEF DeviceKnown, Pedals
  <2> QED
    BY <1>0, <2>1, <2>2, <2>3, KnownIs DEF KnowInv, ClosedIsFresh, LostMaskRearms
<1>10. CASE Open
  <2>1. /\ phase = "closed" /\ phase' = "opened" /\ entry' = entry
        /\ mem = NewMem(entry) /\ shows = [c \in Channels(entry) |-> Unknown]
    BY <1>10 DEF Open, KnowInv, ClosedIsFresh
  <2>2. PICK reports, arrived :
           /\ reports = CASE entry.kind = "MozaNew" -> PrepareMoza.frames
                          [] entry.kind = "MozaKs" -> KsFlagColors("none")
                          [] OTHER -> <<>>
           /\ Deliver(reports, arrived)
           /\ mem' = CASE entry.kind = "MozaNew" /\ Len(reports) \notin arrived ->
                             [mem EXCEPT !.armed = FALSE]
                       [] entry.kind = "Tach" -> LoadTachTable
                       [] OTHER -> mem
    BY <1>10 DEF Open
  <2>3. DeviceKnown'
    <3>1. CASE entry.kind = "MozaNew"
      <4>1. mem = Blanked
        BY <2>1, <3>1 DEF NewMem, Pedals, ScriptedKinds, PrepareMoza, Blanked
      <4>2. mem' = mem \/ mem' = [mem EXCEPT !.armed = FALSE]
        BY <2>2, <3>1
      <4>3. mem'.bar = "Rpm" /\ ~mem'.hasButtonWrite
        BY <4>1, <4>2 DEF Blanked, NewMoza
      <4>4. "bar" \in DOMAIN shows
        BY <1>0, <3>1 DEF Channels
      <4>5. PICK bar, settings : bar = [bar |-> "rpm"] /\ settings = [settings |-> "telemetry"]
        OBVIOUS
      <4>6. ArmTelemetry = <<bar, settings>>
        BY <4>5, Concatenated DEF ArmTelemetry, BarColours, BarColour
      <4>7. PICK frames : frames = <<bar, settings>>
        OBVIOUS
      <4>8. /\ DOMAIN frames = 1 .. 2 /\ frames[1] = bar /\ frames[2] = settings
            /\ DOMAIN bar = {"bar"} /\ bar["bar"] = "rpm" /\ DOMAIN settings = {"settings"}
        BY <4>5, <4>7
      <4>9. Deliver(frames, arrived)
        BY <2>2, <3>1, <4>6, <4>7 DEF PrepareMoza
      <4>10. shows'["bar"] \in {"rpm", Unknown}
        BY <4>4, <4>8, <4>9, Delivered
      <4>11. BarColour("Rpm") = "rpm"
        BY DEF BarColour
      <4>12. WheelKnown'
        BY <4>3, <4>10, <4>11 DEF WheelKnown
      <4> QED
        BY <2>1, <3>1, <4>12 DEF DeviceKnown, Pedals
    <3>2. CASE entry.kind = "MozaKs"
      <4>1. mem'.flag = "unset"
        BY <2>1, <2>2, <3>2 DEF NewMem, Pedals, ScriptedKinds
      <4>2. {"left", "right"} \subseteq DOMAIN shows
        BY <1>0, <3>2 DEF Channels
      <4>3. Deliver(KsFlagColors("none"), arrived)
        BY <2>2, <3>2
      <4>4. PICK mask : mask = [c \in {"bar", "flagLeds"} |-> 0]
        OBVIOUS
      <4>5. shows'["left"] \in {"off", Unknown} /\ shows'["right"] \in {"off", Unknown}
        <5>1. PICK flag, colour : flag = "none" /\ colour = "off"
          OBVIOUS
        <5>2. colour = IF flag = "yellow" THEN "yellow" ELSE "off"
          BY <5>1
        <5>3. Deliver(KsFlagColors(flag), arrived) /\ DOMAIN mask = {"bar", "flagLeds"}
          BY <4>3, <4>4, <5>1
        <5>4. shows'["left"] \in {colour, Unknown} /\ shows'["right"] \in {colour, Unknown}
          BY <4>2, <5>2, <5>3, KsDelivered
        <5> QED
          BY <5>1, <5>4
      <4> QED
        BY <2>1, <3>2, <4>1, <4>5 DEF DeviceKnown, Pedals
    <3>3. CASE entry.kind \notin {"MozaNew", "MozaKs"}
      <4>1. Deliver(<<>>, arrived)
        BY <2>2, <3>3
      <4>2. \A c \in Channels(entry) : shows'[c] = Unknown
        BY <1>0, <2>1, <4>1, NothingDelivered
      <4>3. CASE entry.kind \in Pedals
        <5>1. PedalKnown(entry, mem', shows')
          BY <4>2, <4>3 DEF PedalKnown, Channels
        <5> QED
          BY <2>1, <3>3, <4>3, <5>1 DEF DeviceKnown, Pedals
      <4>4. CASE entry.kind = "SerialHaptic"
        <5>1. Driven(entry.motor) \subseteq Channels(entry)
          BY <4>4 DEF Driven, Channels, BoardMotors
        <5> QED
          BY <2>1, <4>2, <4>4, <5>1 DEF DeviceKnown, Pedals
      <4>5. CASE entry.kind = "ArduinoCustom"
        <5>1. "message" \in Channels(entry)
          BY <4>5 DEF Channels
        <5> QED
          BY <2>1, <4>2, <4>5, <5>1 DEF DeviceKnown, Pedals
      <4>6. CASE entry.kind \notin Pedals \cup {"SerialHaptic", "ArduinoCustom"}
        BY <2>1, <3>3, <4>6 DEF DeviceKnown
      <4> QED
        BY <4>3, <4>4, <4>5, <4>6
    <3> QED
      BY <3>1, <3>2, <3>3
  <2> QED
    BY <1>0, <2>1, <2>3, KnownIs DEF KnowInv, ClosedIsFresh, LostMaskRearms
<1>11. CASE Release
  <2>1. phase' = "released"
    BY <1>11 DEF Release
  <2> QED
    BY <2>1 DEF KnowInv, ClosedIsFresh, RememberedIsShown, LostMaskRearms
<1>12. CASE Reopen
  <2>1. /\ phase' = "closed" /\ entry' = entry /\ mem' = NewMem(entry)
        /\ shows' = [c \in Channels(entry) |-> Unknown]
    BY <1>12 DEF Reopen
  <2> QED
    BY <2>1 DEF KnowInv, ClosedIsFresh, RememberedIsShown, LostMaskRearms
<1> QED
  BY <1>2, <1>3, <1>4, <1>5, <1>6, <1>7, <1>8, <1>9, <1>10, <1>11, <1>12, Steps

LEMMA KnowAlways == Spec => [](TypeInv /\ KnowInv)
<1>1. TypeInv /\ TypeInv' /\ KnowInv /\ [Next]_vars => KnowInv'
  BY KnowInductive
<1> QED
  BY <1>1, TypeAlways, KnowInitial, PTL DEF Spec

\* A driver that sends only what changed knows what its device shows, or the
\* report that says otherwise was lost; and an R9 that lost the mask of a frame
\* in play is told everything again (write_csl, write_p1000, write_simnet,
\* write_serial_haptic, MozaKsWheel, write_moza, the Lua Message).
THEOREM DriversKnowCorrect == Spec => []DriversKnow
<1>1. KnowInv => DriversKnow
  BY DEF KnowInv, DriversKnow
<1> QED
  BY <1>1, KnowAlways, PTL

-----------------------------------------------------------------------------
(* Quiet devices *)

\* A gated effect plays nothing for a car that stands (play_traced).
LEMMA GatedIsQuiet ==
  ASSUME NEW f, NEW fx, NEW filter, NEW sense, fx.effect \in Gated,
         ~(IF fx.effect = "Suspension" THEN ChassisIsRolling(f) ELSE CarIsMoving(f))
  PROVE  PlayOf(f, fx, filter, sense) = 0
<1>1. CASE fx.effect = "Suspension"
  BY <1>1 DEF PlayOf, SuspensionPlay
<1>2. CASE fx.effect # "Suspension"
  BY <1>2 DEF PlayOf
<1> QED
  BY <1>1, <1>2

LEMMA QuietInitial == Init => QuietPlays
<1> SUFFICES ASSUME Init PROVE QuietPlays
  OBVIOUS
<1>1. phase = "closed" /\ mem = NewMem(entry)
  BY DEF Init
<1>2. ASSUME entry.kind \in Pedals PROVE mem.state = 0
  <2>1. mem = [state |-> 0, filter |-> FreshFilter]
    BY <1>1, <1>2 DEF NewMem, Pedals, ScriptedKinds
  <2> QED
    BY <2>1
<1> QED
  BY <1>1, <1>2 DEF QuietPlays

LEMMA QuietInductive ==
  ASSUME TypeInv, QuietPlays, [Next]_vars
  PROVE  QuietPlays'
<1> DEFINE Quiet == phase = "ticked" /\ entry.effect \in Gated /\ ~Rolls
<1>0. /\ TypeOK /\ entry \in Devices /\ entry \in Device /\ Frames \subseteq Frame
      /\ MemTypeOK(entry, mem)
  BY KindsAre, DeviceOutputAssumption DEF TypeInv, TypeOK, DeviceOutputAssumption
<1>1. ASSUME NEW kinds, NEW f \in Frame, NEW filter, NEW sense, Ticking(kinds, f), Quiet'
      PROVE  PlayOf(f, entry, filter, sense) = 0
  BY <1>0, <1>1, Ticked, GatedIsQuiet DEF Rolls
<1>2. CASE UNCHANGED device
  BY <1>2 DEF device, QuietPlays, Rolls
<1>3. CASE ToldStep
  <2>1. PICK f \in Frame : Ticking(ToldKinds, f)
    BY <1>3 DEF ToldStep
  <2>2. entry' = entry /\ entry.kind \in ToldKinds
    BY <1>0, <2>1, Ticked
  <2> QED
    BY <2>2 DEF QuietPlays, ToldKinds, Pedals
<1>4. CASE ScriptStep
  <2>1. PICK f \in Frame : Ticking(ScriptedKinds, f)
    BY <1>4 DEF ScriptStep
  <2>2. entry' = entry /\ entry.kind \in ScriptedKinds
    BY <1>0, <2>1, Ticked
  <2> QED
    BY <2>2 DEF QuietPlays, ScriptedKinds, Pedals
<1>5. CASE WritePedal
  <2>1. PICK f \in Frames, sense \in Sense :
           /\ Ticking(Pedals, f)
           /\ mem' = IF entry.armed THEN PedalMem(f, PlayOf(f, entry, mem.filter, sense)) ELSE mem
    BY <1>5 DEF WritePedal
  <2>2. entry' = entry /\ entry.kind \in Pedals /\ f \in Frame
    BY <1>0, <2>1, Ticked
  <2>3. mem \in [state : Nat, filter : Filter]
    BY <1>0, <2>2, MemTypes
  <2>4. CASE entry.armed
    <3>1. mem'.state = PlayOf(f, entry, mem.filter, sense)
      BY <2>1, <2>3, <2>4 DEF PedalMem
    <3>2. Quiet' => mem'.state = 0
      BY <1>1, <2>1, <2>2, <3>1
    <3> QED
      BY <2>2, <2>4, <3>2 DEF QuietPlays, Pedals
  <2>5. CASE ~entry.armed
    <3>1. mem'.state = 0
      BY <2>1, <2>2, <2>5 DEF QuietPlays
    <3> QED
      BY <2>2, <3>1 DEF QuietPlays, Pedals
  <2> QED
    BY <2>4, <2>5
<1>6. CASE WriteSerialHaptic
  <2>1. PICK f \in Frames, sense \in Sense :
           /\ Ticking({"SerialHaptic"}, f)
           /\ mem'.scaled =
                 ScaledPlay(IF entry.armed THEN PlayOf(f, entry, mem.filter, sense) ELSE 0, entry.amp)
    BY <1>6 DEF WriteSerialHaptic
  <2>2. entry' = entry /\ entry.kind = "SerialHaptic" /\ f \in Frame
    BY <1>0, <2>1, Ticked
  <2>3. PICK amp \in Nat : amp = entry.amp
    BY <1>0 DEF Device
  <2>4. ScaledPlay(0, amp) = 0
    BY DEF ScaledPlay
  <2>5. Quiet' => mem'.scaled = 0
    <3>1. ASSUME Quiet' PROVE mem'.scaled = ScaledPlay(0, amp)
      <4>1. PlayOf(f, entry, mem.filter, sense) = 0
        BY <1>1, <2>1, <2>2, <3>1
      <4> QED
        BY <2>1, <2>3, <4>1
    <3> QED
      BY <2>4, <3>1
  <2> QED
    BY <2>2, <2>5 DEF QuietPlays, Pedals
<1>7. CASE WriteMozaKs \/ WriteMoza
  <2>1. entry' = entry /\ entry.kind \in {"MozaKs", "MozaNew"}
    BY <1>7 DEF WriteMozaKs, WriteMoza, Ticking
  <2> QED
    BY <2>1 DEF QuietPlays, Pedals
<1>8. CASE WriteSound
  <2>1. PICK f \in Frames, sense \in Sense :
           Ticking({"Sound"}, f) /\ mem' = UpdateVoice(mem, f, entry, sense)
    BY <1>8 DEF WriteSound
  <2>2. /\ entry' = entry /\ entry.kind = "Sound" /\ f \in Frame
        /\ last'.moving = CarIsMoving(f) /\ last'.rolling = ChassisIsRolling(f)
    BY <1>0, <2>1, Ticked
  <2>3. mem \in Voice
    BY <1>0, <2>2, MemTypes
  <2>4. Quiet' => mem'.amplitude = 0 /\ (entry.effect = "Suspension" => mem'.gain = 0)
    <3>1. ASSUME Quiet'
          PROVE  /\ entry.effect \in UsesSlip \cup {"Suspension"}
                 /\ entry.effect = "Suspension" => ~ChassisIsRolling(f)
                 /\ entry.effect # "Suspension" => ~CarIsMoving(f)
      BY <2>2, <3>1 DEF Rolls, Gated
    <3> QED
      BY <1>0, <2>1, <2>2, <2>3, <3>1, VoiceStays
  <2> QED
    BY <2>2, <2>4 DEF QuietPlays, Pedals
<1>9. CASE Render
  <2>1. /\ entry.kind = "Sound" /\ mem' = Rendered(mem, entry)
        /\ entry' = entry /\ phase' = phase /\ last' = last
    BY <1>9 DEF Render
  <2>2. mem \in Voice
    BY <1>0, <2>1, MemTypes
  <2>3. /\ mem.amplitude = 0 => mem'.amplitude = 0
        /\ mem.amplitude = 0 /\ mem.gain = 0 => mem'.gain = 0
    BY <2>1, <2>2, RenderedStays
  <2> QED
    BY <2>1, <2>3 DEF QuietPlays, Rolls, Pedals
<1>10. CASE Open \/ Release
  <2>1. entry' = entry /\ phase' \in {"opened", "released"}
    BY <1>10 DEF Open, Release
  <2>2. entry.kind \in Pedals => mem' = mem
    BY <1>10 DEF Open, Release, Pedals
  <2> QED
    BY <2>1, <2>2 DEF QuietPlays
<1>11. CASE Reopen
  <2>1. phase' = "closed" /\ entry' = entry /\ mem' = NewMem(entry)
    BY <1>11 DEF Reopen
  <2>2. ASSUME entry.kind \in Pedals PROVE mem'.state = 0
    <3>1. mem' = [state |-> 0, filter |-> FreshFilter]
      BY <2>1, <2>2 DEF NewMem, Pedals, ScriptedKinds
    <3> QED
      BY <3>1
  <2> QED
    BY <2>1, <2>2 DEF QuietPlays
<1> QED
  BY <1>2, <1>3, <1>4, <1>5, <1>6, <1>7, <1>8, <1>9, <1>10, <1>11, Steps

LEMMA QuietFollows == TypeInv /\ KnowInv /\ QuietPlays => QuietWhenNotRolling
<1> SUFFICES ASSUME TypeInv, KnowInv, QuietPlays,
                    phase = "ticked", entry.effect \in Gated, ~Rolls
             PROVE  /\ entry.kind = "Sound" => mem.amplitude = 0 /\ ~Audible(mem, entry)
                    /\ entry.kind = "Sound" /\ entry.effect = "Suspension" => ~Sounds(mem, entry)
                    /\ entry.kind = "Csl" => shows["rumble"] \in {"off", Unknown}
                    /\ entry.kind \in {"P1000", "SimNet"} =>
                          \A c \in DOMAIN shows : shows[c] \in {FALSE, Unknown}
                    /\ entry.kind = "SerialHaptic" =>
                          \A m \in Driven(entry.motor) : shows[m] \in {0, Unknown}
  BY DEF QuietWhenNotRolling
<1>0. DeviceKnown /\ DOMAIN shows = Channels(entry)
  BY KnownIs DEF TypeInv, TypeOK, KnowInv
<1>1. entry.kind = "Sound" => mem.amplitude = 0 /\ ~Audible(mem, entry)
  BY DEF QuietPlays, Audible
<1>2. entry.kind = "Sound" /\ entry.effect = "Suspension" => ~Sounds(mem, entry)
  BY DEF QuietPlays, Sounds
<1>3. ASSUME entry.kind = "Csl" PROVE shows["rumble"] \in {"off", Unknown}
  <2>1. mem.state = 0
    BY <1>3 DEF QuietPlays, Pedals
  <2>2. CslRumble(entry.effect, 0) = "off"
    BY DEF CslRumble
  <2> QED
    BY <1>0, <1>3, <2>1, <2>2 DEF DeviceKnown, PedalKnown, Pedals
<1>4. ASSUME entry.kind \in {"P1000", "SimNet"}, NEW c \in DOMAIN shows
      PROVE  shows[c] \in {FALSE, Unknown}
  <2>1. ~(mem.state > 0)
    BY <1>4 DEF QuietPlays, Pedals
  <2>2. PICK no : no = FALSE
    OBVIOUS
  <2>3. PedalKnown(entry, mem, shows)
    BY <1>0, <1>4 DEF DeviceKnown, Pedals
  <2>4. CASE entry.kind = "P1000"
    <3>1. shows["slip"] \in {no, Unknown} /\ shows["lock"] \in {no, Unknown}
      BY <2>1, <2>2, <2>3, <2>4 DEF PedalKnown
    <3>2. c \in {"slip", "lock"}
      BY <1>0, <2>4 DEF Channels
    <3> QED
      BY <2>2, <3>1, <3>2
  <2>5. CASE entry.kind = "SimNet"
    <3>1. shows["motor"] \in {no, Unknown}
      <4>1. shows["motor"] \in {mem.state > 0, Unknown}
        BY <2>3, <2>5 DEF PedalKnown
      <4>2. PICK on : on = (mem.state > 0)
        OBVIOUS
      <4>3. on = FALSE
        <5>1. CASE on = TRUE
          BY <2>1, <4>2, <5>1
        <5>2. CASE on # TRUE
          <6>1. (mem.state > 0) \in BOOLEAN
            OBVIOUS
          <6>2. on \in BOOLEAN
            BY <4>2, <6>1
          <6> QED
            BY <5>2, <6>2
        <5> QED
          BY <5>1, <5>2
      <4>4. shows["motor"] \in {on, Unknown}
        BY <4>1, <4>2
      <4>5. on = no
        BY <2>2, <4>3
      <4> QED
        BY <4>4, <4>5
    <3>2. c = "motor"
      BY <1>0, <2>5 DEF Channels
    <3> QED
      BY <2>2, <3>1, <3>2
  <2> QED
    BY <1>4, <2>4, <2>5
<1>5. ASSUME entry.kind = "SerialHaptic", NEW m \in Driven(entry.motor)
      PROVE  shows[m] \in {0, Unknown}
  <2>1. mem.scaled = 0
    BY <1>5 DEF QuietPlays
  <2>2. EffectSpeed(0) = 0
    BY DEF EffectSpeed
  <2> QED
    BY <1>0, <1>5, <2>1, <2>2 DEF DeviceKnown
<1> QED
  BY <1>1, <1>2, <1>3, <1>4, <1>5

\* After a frame of a standing car, whatever played before and whatever the
\* filters found, the effects of tyres and chassis are silent: no shaker's tone
\* is audible, and pedals and boards are off or their last report was lost
\* (README.md:193; play_traced, Tone::update).
THEOREM QuietCorrect == Spec => []QuietWhenNotRolling
<1>1. TypeInv /\ QuietPlays /\ [Next]_vars => QuietPlays'
  BY QuietInductive
<1>2. Spec => []QuietPlays
  BY <1>1, QuietInitial, TypeAlways, PTL DEF Spec
<1> QED
  BY <1>2, KnowAlways, QuietFollows, PTL

-----------------------------------------------------------------------------
(* Letting go *)

\* One report that says what Blank asks for leaves it shown, or lost.
LEMMA BlankReport ==
  ASSUME NEW report, NEW arrived, NEW blank, Deliver(<<report>>, arrived),
         DOMAIN blank \subseteq DOMAIN shows, DOMAIN blank \subseteq DOMAIN report,
         \A c \in DOMAIN blank : report[c] = blank[c]
  PROVE  \A c \in DOMAIN blank : shows'[c] \in {blank[c], Unknown}
<1> SUFFICES ASSUME NEW c \in DOMAIN blank PROVE shows'[c] \in {blank[c], Unknown}
  OBVIOUS
<1>1. c \in DOMAIN shows /\ c \in DOMAIN report /\ report[c] = blank[c]
  OBVIOUS
<1>2. shows'[c] = IF 1 \in arrived THEN report[c] ELSE Unknown
  BY <1>1, OneDelivered
<1> QED
  BY <1>1, <1>2

LEMMA ReleaseBlanks ==
  ASSUME TypeInv, KnowInv, Release
  PROVE  BlankAfterRelease'
<1>0. /\ TypeOK /\ DOMAIN shows = Channels(entry) /\ entry' = entry
      /\ phase \in {"opened", "ticked"} /\ entry \in Device
  BY KindsAre DEF TypeInv, TypeOK, Release
<1>1. PICK blank : blank = Blank
  OBVIOUS
<1>2. Blank' = Blank
  BY <1>0 DEF Blank
<1> SUFFICES \A c \in DOMAIN blank : shows'[c] \in {blank[c], Unknown}
  BY <1>1, <1>2 DEF BlankAfterRelease
<1>3. ASSUME NEW report, NEW arrived, entry.kind # "MozaNew", ReleaseReports(entry) = <<report>>
      PROVE  \E some : Deliver(<<report>>, some)
  BY <1>3 DEF Release
<1>4. CASE entry.kind = "Tach"
  <2>1. PICK report : report = RevburnerReport(0)
    OBVIOUS
  <2>2. ReleaseReports(entry) = <<report>>
    BY <1>4, <2>1 DEF ReleaseReports, WriteReleaseZeros
  <2>3. PICK arrived : Deliver(<<report>>, arrived)
    BY <1>3, <1>4, <2>2
  <2>4. blank = [needle |-> 0] /\ report = [needle |-> 0]
    BY <1>1, <1>4, <2>1 DEF Blank, RevburnerReport
  <2>5. DOMAIN blank \subseteq DOMAIN shows
    BY <1>0, <1>4, <2>4 DEF Channels
  <2> QED
    BY <2>3, <2>4, <2>5, BlankReport
<1>5. CASE entry.kind = "G29"
  <2>1. PICK report : report = G29Report(0, 0)
    OBVIOUS
  <2>2. ReleaseReports(entry) = <<report>>
    BY <1>5, <2>1 DEF ReleaseReports, BlankG29
  <2>3. PICK arrived : Deliver(<<report>>, arrived)
    BY <1>3, <1>5, <2>2
  <2>4. blank = [leds |-> 0] /\ report = [leds |-> 0]
    BY <1>1, <1>5, <2>1 DEF Blank, G29Report, G29Leds
  <2>5. DOMAIN blank \subseteq DOMAIN shows
    BY <1>0, <1>5, <2>4 DEF Channels
  <2> QED
    BY <2>3, <2>4, <2>5, BlankReport
<1>6. CASE entry.kind = "C5"
  <2>1. PICK report : report = C5Report(0, 0, 0, 0)
    OBVIOUS
  <2>2. ReleaseReports(entry) = <<report>>
    BY <1>6, <2>1 DEF ReleaseReports, BlankC5
  <2>3. PICK arrived : Deliver(<<report>>, arrived)
    BY <1>3, <1>6, <2>2
  <2>4. blank = [leds |-> 0, velocity |-> 0]
    BY <1>1, <1>6 DEF Blank
  <2>5. RevlightsLit(0, 0, 10) = 0
    BY DEF RevlightsLit
  <2>6. report = [leds |-> 0, velocity |-> 0, gear |-> ShownGear(0)]
    BY <2>1, <2>5 DEF C5Report, Byte
  <2>7. DOMAIN blank \subseteq DOMAIN shows
    BY <1>0, <1>6, <2>4 DEF Channels
  <2>8. DOMAIN blank \subseteq DOMAIN report /\ \A c \in DOMAIN blank : report[c] = blank[c]
    BY <2>4, <2>6
  <2> QED
    BY <2>3, <2>7, <2>8, BlankReport
<1>7. CASE entry.kind = "SerialHaptic"
  <2>1. PICK report : report = HapticStopPacket
    OBVIOUS
  <2>2. ReleaseReports(entry) = <<report>>
    BY <1>7, <2>1 DEF ReleaseReports
  <2>3. PICK arrived : Deliver(<<report>>, arrived)
    BY <1>3, <1>7, <2>2
  <2>4. blank = [m \in 1 .. 4 |-> 0] /\ report = [m \in 1 .. 4 |-> 0]
    BY <1>1, <1>7, <2>1 DEF Blank, HapticStopPacket, BoardMotors
  <2>5. DOMAIN blank \subseteq DOMAIN shows
    BY <1>0, <1>7, <2>4 DEF Channels, BoardMotors
  <2> QED
    BY <2>3, <2>4, <2>5, BlankReport
<1>8. CASE entry.kind = "SimLed"
  <2>1. PICK report : report = LedPacket(entry.total, <<>>)
    OBVIOUS
  <2>2. ReleaseReports(entry) = <<report>>
    BY <1>8, <2>1 DEF ReleaseReports, SimledBlank
  <2>3. PICK arrived : Deliver(<<report>>, arrived)
    BY <1>3, <1>8, <2>2
  <2>4. \A led : Painted(<<>>, led) = Off
    BY DEF Painted
  <2>5. blank = [led \in 1 .. entry.total |-> Off]
    BY <1>1, <1>8 DEF Blank
  <2>6. report = [led \in 1 .. entry.total |-> Off]
    BY <2>1, <2>4 DEF LedPacket
  <2>7. DOMAIN blank \subseteq DOMAIN shows
    BY <1>0, <1>8, <2>5 DEF Channels
  <2> QED
    BY <2>3, <2>5, <2>6, <2>7, BlankReport
<1>9. CASE entry.kind = "MozaNew"
  <2>1. WriteMozaFrame(OffFrame, [blinkOff |-> FALSE, due |-> FALSE])
    BY <1>9 DEF Release, BlankMoza
  <2>2. [blinkOff |-> FALSE, due |-> FALSE] \in MozaClock
    BY DEF MozaClock
  <2>3. PICK clock \in MozaClock : WriteMozaFrame(OffFrame, clock)
    BY <2>1, <2>2
  <2>4. mem \in MozaState /\ {"bar", "corners", "buttons", "mask"} \subseteq DOMAIN shows
    BY <1>0, <1>9, MozaChannels
  <2>5. WheelKnown
    BY <1>0, <1>9, KnownIs DEF KnowInv, DeviceKnown
  <2>6. /\ shows'["mask"] \in {0, Unknown} /\ shows'["buttons"] \in {{}, Unknown}
        /\ shows'["bar"] \in {"rpm", Unknown}
    BY <2>3, <2>4, <2>5, OffFrameIs, BlankFrame
  <2>7. blank = [mask |-> 0, buttons |-> {}, bar |-> "rpm"]
    BY <1>1, <1>9 DEF Blank
  <2>8. /\ DOMAIN blank = {"mask", "buttons", "bar"} /\ blank["mask"] = 0
        /\ blank["buttons"] = {} /\ blank["bar"] = "rpm"
    BY <2>7
  <2> HIDE <2>7
  <2> QED
    BY <2>6, <2>8
<1>10. CASE entry.kind \notin {"Tach", "G29", "C5", "SerialHaptic", "SimLed", "MozaNew"}
  <2>1. blank = <<>>
    BY <1>1, <1>10 DEF Blank
  <2>2. DOMAIN blank = {}
    BY <2>1
  <2> QED
    BY <2>2
<1> QED
  BY <1>4, <1>5, <1>6, <1>7, <1>8, <1>9, <1>10

LEMMA BlankInductive ==
  ASSUME TypeInv, KnowInv, BlankAfterRelease, [Next]_vars
  PROVE  BlankAfterRelease'
<1>0. TypeOK /\ Frames \subseteq Frame
  BY DeviceOutputAssumption DEF TypeInv, DeviceOutputAssumption
<1>1. CASE UNCHANGED device
  BY <1>1 DEF device, BlankAfterRelease, Blank
<1>2. CASE Release
  BY <1>2, ReleaseBlanks
<1>3. CASE Open \/ Reopen \/ Render
  BY <1>3 DEF Open, Reopen, Render, BlankAfterRelease
<1>4. ASSUME NEW kinds, NEW f, Ticking(kinds, f) PROVE BlankAfterRelease'
  BY <1>4 DEF Ticking, BlankAfterRelease
<1>5. CASE ToldStep \/ ScriptStep \/ WriteSound
  BY <1>4, <1>5 DEF ToldStep, ScriptStep, WriteSound
<1>6. CASE WritePedal \/ WriteSerialHaptic
  BY <1>4, <1>6 DEF WritePedal, WriteSerialHaptic
<1>7. CASE WriteMozaKs \/ WriteMoza
  BY <1>4, <1>7 DEF WriteMozaKs, WriteMoza
<1> QED
  BY <1>1, <1>2, <1>3, <1>5, <1>6, <1>7, Steps

\* Whatever a device was doing, release leaves its needle at rest, its motors
\* still and its lights dark, an R9's bar the engine's, or the report that says
\* so was lost (LoadedDevices::release, write_release_zeros, blank_moza).
THEOREM BlankCorrect == Spec => []BlankAfterRelease
<1>1. Init => BlankAfterRelease
  BY DEF Init, BlankAfterRelease
<1>2. TypeInv /\ KnowInv /\ BlankAfterRelease /\ [Next]_vars => BlankAfterRelease'
  BY BlankInductive
<1> QED
  BY <1>1, <1>2, KnowAlways, PTL DEF Spec

-----------------------------------------------------------------------------
(* Where the needle stands *)

\* A table the wizard wrote is read as it stands: every item counts.
LEMMA PointsOfTable ==
  ASSUME NEW file, file.complete, file.items \in Seq(TimedItem)
  PROVE  LET points == TachPoints(file) IN
         /\ Len(points) \in Nat /\ DOMAIN points = 1 .. Len(points)
         /\ DOMAIN points = DOMAIN file.items
         /\ \A i \in DOMAIN points : points[i].rpm = file.items[i].rpm
<1> DEFINE items == file.items
           timed == {i \in DOMAIN items : items[i].timed}
           nth(k) == CHOOSE i \in timed : Cardinality({j \in timed : j <= i}) = k
<1>1. PICK n \in Nat : n = Len(items) /\ DOMAIN items = 1 .. n
  OBVIOUS
<1>2. \A i \in 1 .. n : items[i] \in TimedItem
  BY <1>1
<1>3. timed = 1 .. n
  BY <1>1, <1>2 DEF TimedItem
<1>4. \A i \in Nat : Cardinality(1 .. i) = i
  <2> SUFFICES ASSUME NEW i \in Nat PROVE Cardinality(1 .. i) = i
    OBVIOUS
  <2>1. 1 \in Int /\ i \in Int
    OBVIOUS
  <2>2. Cardinality(1 .. i) = IF 1 > i THEN 0 ELSE i - 1 + 1
    BY ONLY <2>1, FS_Interval, Zenon
  <2> QED
    BY <2>2
<1>5. Cardinality(timed) = n
  BY <1>3, <1>4
<1>6. \A i \in timed : Cardinality({j \in timed : j <= i}) = i
  <2> SUFFICES ASSUME NEW i \in 1 .. n PROVE Cardinality({j \in 1 .. n : j <= i}) = i
    BY <1>3
  <2>1. {j \in 1 .. n : j <= i} = 1 .. i
    OBVIOUS
  <2>2. Cardinality(1 .. i) = i
    BY <1>4
  <2> QED
    BY ONLY <2>1, <2>2, Zenon
<1>7. \A k \in 1 .. n : nth(k) = k
  BY <1>3, <1>6
<1>8. PICK points : points = TachPoints(file)
  OBVIOUS
<1>9. points = [k \in 1 .. n |-> [items[nth(k)] EXCEPT !.pulses = IF @ < 0 THEN 0 ELSE @]]
  BY <1>5, <1>8 DEF TachPoints
<1> HIDE DEF items, timed, nth
<1>10. DOMAIN points = 1 .. n
  BY <1>9
<1>11. Len(points) = n
  BY <1>9
<1>12. \A k \in 1 .. n : points[k].rpm = items[k].rpm
  <2> SUFFICES ASSUME NEW k \in 1 .. n PROVE points[k].rpm = items[k].rpm
    OBVIOUS
  <2>1. PICK item \in TimedItem : item = items[k]
    BY <1>2
  <2>2. points[k] = [item EXCEPT !.pulses = IF item.pulses < 0 THEN 0 ELSE item.pulses]
    BY <1>7, <1>9, <2>1
  <2> QED
    BY <2>1, <2>2 DEF TimedItem
<1> QED
  BY <1>1, <1>8, <1>10, <1>11, <1>12 DEF items

\* What a step does to a tachometer: only Open loads a table, Reopen forgets it.
LEMMA TableSteps ==
  ASSUME TypeInv, [Next]_vars, entry'.kind = "Tach"
  PROVE  /\ entry' = entry
         /\ \/ mem' = mem
            \/ mem' = LoadTachTable
            \/ mem' = [points |-> <<>>, spacing |-> 0]
<1>0. TypeOK /\ Frames \subseteq Frame
  BY DeviceOutputAssumption DEF TypeInv, DeviceOutputAssumption
<1>1. entry' = entry
  BY Steps DEF device, Open, Release, Reopen, ToldStep, ScriptStep, WritePedal, WriteSerialHaptic,
               WriteMozaKs, WriteMoza, WriteSound, Render, Ticking
<1>2. CASE UNCHANGED device \/ Release \/ ToldStep
  BY <1>1, <1>2 DEF device, Release, ToldStep
<1>3. CASE Open
  BY <1>1, <1>3 DEF Open
<1>4. CASE Reopen
  BY <1>1, <1>4 DEF Reopen, NewMem, Pedals, ScriptedKinds
<1>5. ASSUME NEW kinds, NEW f, Ticking(kinds, f), "Tach" \notin kinds PROVE FALSE
  BY <1>1, <1>5 DEF Ticking
<1>6. CASE ScriptStep \/ WritePedal \/ WriteSerialHaptic
  BY <1>5, <1>6 DEF ScriptStep, WritePedal, WriteSerialHaptic, ScriptedKinds, Pedals
<1>7. CASE WriteMozaKs \/ WriteMoza \/ WriteSound \/ Render
  BY <1>1, <1>5, <1>7 DEF WriteMozaKs, WriteMoza, WriteSound, Render
<1> QED
  BY <1>1, <1>2, <1>3, <1>4, <1>6, <1>7, Steps

LEMMA CalibratedInductive ==
  ASSUME TypeInv, TypeInv', CalibratedInv, [Next]_vars
  PROVE  CalibratedInv'
<1>1. TachInv /\ TachInv'
  BY DEF TypeInv
<1> SUFFICES ASSUME entry'.kind = "Tach", mem'.spacing # 0
             PROVE  /\ Len(mem'.points) \in Nat /\ DOMAIN mem'.points = 1 .. Len(mem'.points)
                    /\ \A i \in DOMAIN mem'.points :
                          mem'.points[i].rpm = AskedRpm(mem'.spacing, i)
  BY <1>1 DEF CalibratedInv
<1>2. CASE mem' = mem
  BY <1>2, TableSteps DEF CalibratedInv
<1>3. CASE mem' = LoadTachTable
  <2>1. /\ mem'.points = TachPoints(tachFile) /\ mem'.spacing = tachFile.spacing
    BY <1>3 DEF LoadTachTable
  <2>2. /\ tachFile.complete /\ tachFile.items \in Seq(TimedItem)
        /\ \A i \in DOMAIN tachFile.items :
              tachFile.items[i].rpm = AskedRpm(tachFile.spacing, i)
    BY <1>1, <2>1 DEF TachInv
  <2>3. PICK points : points = TachPoints(tachFile)
    OBVIOUS
  <2>4. /\ Len(points) \in Nat /\ DOMAIN points = 1 .. Len(points)
        /\ DOMAIN points = DOMAIN tachFile.items
        /\ \A i \in DOMAIN points : points[i].rpm = tachFile.items[i].rpm
    BY <2>2, <2>3, PointsOfTable
  <2> QED
    BY <2>1, <2>2, <2>3, <2>4
<1>4. CASE mem' = [points |-> <<>>, spacing |-> 0]
  BY <1>4
<1> QED
  BY <1>2, <1>3, <1>4, TableSteps

\* The element that is looked up for a point's engine speed is that point.
LEMMA ElementOfPoint ==
  ASSUME NEW spacing \in {1, 2}, NEW granularity \in {0, 1, 2, 4}, Counts(granularity) = spacing,
         NEW k \in Nat, NEW i \in 1 .. k, AskedRpm(spacing, i) >= 500
  PROVE  1 + TachElement(AskedRpm(spacing, i), granularity, k - 1) = i
<1>1. i # 1 /\ i - 1 <= k - 1
  BY DEF AskedRpm
<1>2. CASE spacing = 1
  <2>1. granularity \in {0, 1}
    BY <1>2 DEF Counts
  <2>2. AskedRpm(spacing, i) = (i - 1) * 1000
    BY <1>1, <1>2 DEF AskedRpm, IncrementFor
  <2>3. ((i - 1) * 1000) \div 1000 = i - 1
    OBVIOUS
  <2>4. TachElement((i - 1) * 1000, granularity, k - 1) = Low(i - 1, k - 1)
    BY <2>1, <2>3 DEF TachElement
  <2> QED
    BY <1>1, <2>2, <2>4 DEF Low
<1>3. CASE spacing = 2
  <2>1. granularity = 2
    BY <1>3 DEF Counts
  <2>2. AskedRpm(spacing, i) = (i - 1) * 500
    BY <1>1, <1>3 DEF AskedRpm, IncrementFor
  <2>3. ((i - 1) * 500) \div 500 = i - 1 /\ 1000 \div 2 = 500
    OBVIOUS
  <2>4. TachElement((i - 1) * 500, granularity, k - 1) = Low(i - 1, k - 1)
    BY <2>1, <2>3 DEF TachElement
  <2> QED
    BY <1>1, <2>2, <2>4 DEF Low
<1> QED
  BY <1>2, <1>3

\* A tick at a point's engine speed sets the needle to that point.
LEMMA TickSetsNeedle ==
  ASSUME TypeInv, CalibratedInv, ToldStep
  PROVE  NeedleAsCalibrated'
<1>0. TypeOK /\ DOMAIN shows = Channels(entry) /\ entry \in Device
  BY KindsAre DEF TypeInv, TypeOK
<1>1. PICK f, reports, arrived :
         /\ f \in Frame
         /\ Ticking(ToldKinds, f) /\ Deliver(reports, arrived) /\ mem' = mem
         /\ entry.kind = "Tach" => reports = TachReports(f)
  BY DEF ToldStep
<1>2. entry' = entry /\ mem' = mem
      /\ last'.rpms = IF entry.kind = "Tach" THEN f.rpms ELSE 0
  BY <1>0, <1>1, Ticked
<1> SUFFICES ASSUME entry.kind = "Tach", ~entry.usePulses, mem.spacing \in {1, 2},
                    Counts(entry.granularity) = mem.spacing,
                    NEW i \in DOMAIN mem.points,
                    mem.points[i].rpm = f.rpms, f.rpms >= 500
             PROVE  shows'["needle"] \in {RevburnerReport(mem.points[i].pulses).needle, Unknown}
  BY <1>2 DEF NeedleAsCalibrated
<1>3. PICK points : \E k \in Nat : points = mem.points /\ Len(points) = k /\ DOMAIN points = 1 .. k
  <2>1. mem.spacing # 0
    OBVIOUS
  <2> QED
    BY <2>1 DEF CalibratedInv
<1>4. PICK k \in Nat : points = mem.points /\ Len(points) = k /\ DOMAIN points = 1 .. k
  BY <1>3
<1>5. PICK spacing \in {1, 2} : spacing = mem.spacing
  OBVIOUS
<1>6. PICK granularity \in {0, 1, 2, 4} : granularity = entry.granularity
  BY <1>0 DEF Device
<1>7. i \in 1 .. k /\ points[i].rpm = AskedRpm(spacing, i)
  BY <1>4, <1>5 DEF CalibratedInv
<1>8. f.rpms = AskedRpm(spacing, i) /\ AskedRpm(spacing, i) >= 500
  BY <1>4, <1>7
<1>9. 1 + TachElement(f.rpms, granularity, k - 1) = i
  BY <1>5, <1>6, <1>7, <1>8, ElementOfPoint
<1>10. TachPulses(f, entry, points) = points[i].pulses
  <2>1. ~(f.rpms < 500)
    BY <1>1 DEF Frame
  <2> QED
    BY <1>4, <1>6, <1>9, <2>1 DEF TachPulses
<1>11. PICK report : report = RevburnerReport(points[i].pulses)
  OBVIOUS
<1>12. TachReports(f) = <<report>>
  <2>1. points # <<>>
    BY <1>4, <1>7
  <2> QED
    BY <1>4, <1>10, <1>11, <2>1 DEF TachReports, CanShow
<1>13. Deliver(<<report>>, arrived)
  BY <1>1, <1>12
<1>14. "needle" \in DOMAIN shows /\ "needle" \in DOMAIN report
  BY <1>0, <1>11 DEF Channels, RevburnerReport
<1>15. shows'["needle"] = IF 1 \in arrived THEN report["needle"] ELSE Unknown
  BY <1>13, <1>14, OneDelivered
<1>16. report["needle"] = RevburnerReport(mem.points[i].pulses).needle
  BY <1>4, <1>11
<1> QED
  BY <1>15, <1>16

LEMMA NeedleInductive ==
  ASSUME TypeInv, CalibratedInv, NeedleAsCalibrated, [Next]_vars
  PROVE  NeedleAsCalibrated'
<1>1. CASE UNCHANGED device
  BY <1>1 DEF device, NeedleAsCalibrated
<1>2. CASE ToldStep
  BY <1>2, TickSetsNeedle
<1>3. CASE Open \/ Release \/ Reopen \/ Render
  BY <1>3 DEF Open, Release, Reopen, Render, NeedleAsCalibrated
<1>4. ASSUME NEW kinds, NEW f, Ticking(kinds, f), "Tach" \notin kinds PROVE NeedleAsCalibrated'
  BY <1>4 DEF Ticking, NeedleAsCalibrated
<1>5. CASE ScriptStep \/ WritePedal \/ WriteSerialHaptic
  BY <1>4, <1>5 DEF ScriptStep, WritePedal, WriteSerialHaptic, ScriptedKinds, Pedals
<1>6. CASE WriteMozaKs \/ WriteMoza \/ WriteSound
  BY <1>4, <1>6 DEF WriteMozaKs, WriteMoza, WriteSound
<1> QED
  BY <1>1, <1>2, <1>3, <1>5, <1>6, Steps

\* However a table was made, cut off or made anew meanwhile, the needle stands
\* where the user put it for the engine speed of the last tick, when his device
\* counts in the table's steps (tach.rs, lookup_tach_pulses).
THEOREM NeedleCorrect == Spec => []NeedleAsCalibrated
<1>1. Init => CalibratedInv
  BY TachInitial DEF Init, NewMem, Pedals, ScriptedKinds, CalibratedInv
<1>2. TypeInv /\ TypeInv' /\ CalibratedInv /\ [Next]_vars => CalibratedInv'
  BY CalibratedInductive
<1>3. Init => NeedleAsCalibrated
  BY DEF Init, NeedleAsCalibrated
<1>4. TypeInv /\ CalibratedInv /\ NeedleAsCalibrated /\ [Next]_vars => NeedleAsCalibrated'
  BY NeedleInductive
<1> QED
  BY <1>1, <1>2, <1>3, <1>4, TypeAlways, PTL DEF Spec
=============================================================================
