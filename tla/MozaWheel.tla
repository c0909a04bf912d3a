----------------------------- MODULE MozaWheel -----------------------------
(***************************************************************************)
(* The new-firmware Moza wheel (R9) of crates/cargopit-devices/src/        *)
(* serial.rs: MozaNewWheel, update_moza_new and what it calls.             *)
(*                                                                         *)
(* The wheel holds what it was told until it is told otherwise, so the     *)
(* driver sends colours only when they change and remembers what it sent.  *)
(* Frames are functions from the wheel's channels to values; the halves of *)
(* a colour table are one.  Ratios are percentages, and a bar of ten LEDs  *)
(* at p percent stands at p tenths of an LED.                              *)
(***************************************************************************)
EXTENDS HapticEffects, Sequences, FiniteSets

LedCount == 10
\* Bar: what the bar of LEDs shows.
Bars == {"Rpm", "Brake", "Lock", "Abs"}
BarColour(bar) == CASE bar = "Rpm" -> "rpm" [] bar \in {"Brake", "Lock"} -> "purple"
                    [] bar = "Abs" -> "blue"

\* The corners' buttons glow by the heat of their brakes; 0 is dark.
CornersOff == [w \in Wheels |-> 0]
CornersMask(corners) == {w \in Wheels : corners[w] > 0}

\* MozaNew
MozaState == [armed : BOOLEAN, braking : BOOLEAN, lockLatched : BOOLEAN,
              absLatched : BOOLEAN, hasButtonWrite : BOOLEAN, bar : Bars,
              rpmLit : 0 .. LedCount, brakeLit : 0 .. LedCount,
              corners : [Wheels -> 0 .. 100]]
\* MozaNew::new
NewMoza == [armed |-> FALSE, braking |-> FALSE, lockLatched |-> FALSE,
            absLatched |-> FALSE, hasButtonWrite |-> FALSE, bar |-> "Rpm",
            rpmLit |-> 0, brakeLit |-> 0, corners |-> CornersOff]

\* The clock's part in a tick: a blink's dark half, and 80 ms since the last
\* button colours.
MozaClock == [blinkOff : BOOLEAN, due : BOOLEAN]

\* send_colours, of the bar and of the buttons
BarColours(bar) == <<[bar |-> BarColour(bar)]>>
WriteBrakeButtons(corners) == <<[corners |-> corners], [buttons |-> CornersMask(corners)]>>
\* send_rpm_mask
RpmMask(lit) == <<[mask |-> lit]>>

\* arm_telemetry; telemetry mode and brightness, of the bar and of the buttons,
\* are its settings.
ArmTelemetry == BarColours("Rpm") \o <<[settings |-> "telemetry"]>>

-----------------------------------------------------------------------------
(* What a frame asks for *)

\* apply_hysteresis: an LED changes when the bar is 0.9 of one past it; going
\* dark is at once.
ApplyHysteresis(tenths, raw, last) ==
    CASE raw = 0 -> 0
      [] raw # 0 /\ raw > last /\ tenths < 10 * last + 9 -> last
      [] raw # 0 /\ raw < last /\ tenths > 10 * last - 9 -> last
      [] OTHER -> raw

\* rpm_bits: the last fifth between idling and the limit.
RpmTenths(frame) ==
    AtMost((100 * (5 * frame.rpms - 4 * frame.maxrpm - frame.idlerpm))
              \div (frame.maxrpm - frame.idlerpm), 100)
RpmBits(frame, last) ==
    IF frame.maxrpm <= frame.idlerpm
          \/ 5 * frame.rpms < 4 * frame.maxrpm + frame.idlerpm THEN 0
    ELSE ApplyHysteresis(RpmTenths(frame), (RpmTenths(frame) + 5) \div 10, last)

\* frac_bits: a pressed brake shows at least one LED.
FracBits(brake, last) ==
    IF brake <= 0 THEN 0
    ELSE LET tenths == AtMost(brake, 100)
             raw == Max({1, (tenths + 5) \div 10})
         IN  Max({1, ApplyHysteresis(tenths, raw, last)})

\* heat_rgb and heat_scaled: a table of each simulator's brakes.
HeatScaled(temp, acr) ==
    LET cold == IF acr THEN 320 ELSE 120
        hot == IF acr THEN 750 ELSE 620
    IN  CASE temp <= 0 -> 0
          [] temp = 1 -> 100
          [] temp > 1 -> AtMost(Positive((100 * (temp - cold)) \div (hot - cold)), 100)
HeatRgb(heat) == IF heat <= 6 THEN 0 ELSE heat
\* corners_from: equal temperatures of ACR are placeholders.
CornersFrom(frame) ==
    IF frame.acr /\ \A v, w \in Wheels : frame.temps[v] - frame.temps[w] < 2
    THEN CornersOff
    ELSE [w \in Wheels |-> HeatRgb(HeatScaled(frame.temps[w], frame.acr))]

\* alert_mode.  A lock ends with any of its conditions, so the lower slip that
\* would clear it is never reached.
PeakSlip(frame) == Max({0} \cup {frame.slip[w] : w \in Wheels})
Locking(frame) == frame.brake >= 20 /\ frame.velocity >= 15 /\ PeakSlip(frame) >= 28
Latch(state, frame) ==
    [state EXCEPT
        !.lockLatched = IF @ THEN Locking(frame) /\ PeakSlip(frame) >= 18 ELSE Locking(frame),
        !.absLatched = frame.abs]
AlertMode(state) == IF state.lockLatched THEN "Lock" ELSE IF state.absLatched THEN "Abs" ELSE "Rpm"

\* desired_bar: the brake shows from 4 % and hides below 2 %.
Braking(state, frame) ==
    CASE frame.brake >= 4 -> TRUE
      [] frame.brake < 2 -> FALSE
      [] frame.brake \in 2 .. 3 -> state.braking
DesiredBar(state) ==
    IF AlertMode(state) # "Rpm" THEN AlertMode(state)
    ELSE IF state.braking THEN "Brake" ELSE "Rpm"

\* bar_mask: the LEDs lit and the state they leave; an alert blinks.
BarMask(state, frame, clock) ==
    LET brakeLit == FracBits(frame.brake, state.brakeLit)
        alertLit == IF frame.brake >= 2 THEN brakeLit ELSE LedCount
        rpmLit == RpmBits(frame, state.rpmLit)
    IN  CASE state.bar = "Brake" ->
                [lit |-> brakeLit, state |-> [state EXCEPT !.brakeLit = brakeLit]]
          [] state.bar \in {"Lock", "Abs"} ->
                [lit |-> IF clock.blinkOff THEN 0 ELSE alertLit,
                 state |-> [state EXCEPT !.brakeLit = alertLit]]
          [] state.bar = "Rpm" ->
                [lit |-> rpmLit, state |-> [state EXCEPT !.brakeLit = 0, !.rpmLit = rpmLit]]

-----------------------------------------------------------------------------
(* One tick: the frames it sends and the state it leaves *)

FaultBarLeft(state) ==
    [frames |-> WriteBrakeButtons(CornersOff) \o RpmMask(0),
     state |-> [NewMoza EXCEPT !.armed = TRUE], rpmSent |-> FALSE]

\* blank_wheel, for a session that is not in play
BlankWheel(state) ==
    [frames |-> WriteBrakeButtons(CornersOff) \o RpmMask(0)
                    \o (IF state.bar = "Rpm" THEN <<>> ELSE BarColours("Rpm")),
     state |-> [NewMoza EXCEPT !.armed = TRUE], rpmSent |-> FALSE]

\* apply_bar_colours, when the bar changes
ChangeBar(state, bar) ==
    [frames |-> IF bar = state.bar THEN <<>> ELSE BarColours(bar),
     state |-> [state EXCEPT !.bar = bar,
                             !.brakeLit = IF bar = "Rpm" /\ bar # state.bar THEN 0 ELSE @]]

\* write_brake_buttons, when a button goes on or off, or the colours are due
ChangeCorners(state, corners, clock) ==
    IF /\ corners # state.corners
       /\ \/ CornersMask(corners) # CornersMask(state.corners)
          \/ ~state.hasButtonWrite
          \/ clock.due
    THEN [frames |-> WriteBrakeButtons(corners),
          state |-> [state EXCEPT !.corners = corners, !.hasButtonWrite = TRUE]]
    ELSE [frames |-> <<>>, state |-> state]

\* update_moza_new after arming: bar, corners, and always the mask.
DriveWheel(state, frame, clock) ==
    LET wanted == [Latch(state, frame) EXCEPT !.braking = Braking(state, frame)]
        bar == ChangeBar(wanted, DesiredBar(wanted))
        corners == ChangeCorners(bar.state, CornersFrom(frame), clock)
        mask == BarMask(corners.state, frame, clock)
    IN  [frames |-> bar.frames \o corners.frames \o RpmMask(mask.lit),
         state |-> mask.state, rpmSent |-> TRUE]

\* MozaNewWheel::tick: a wheel that is not armed is armed first.
UpdateMozaNew(state, frame, clock) ==
    LET ready == IF state.armed THEN state ELSE [NewMoza EXCEPT !.armed = TRUE]
        drive == IF frame.active THEN DriveWheel(ready, frame, clock) ELSE BlankWheel(ready)
    IN  [drive EXCEPT !.frames = (IF state.armed THEN <<>> ELSE ArmTelemetry) \o @]

\* MozaNewWheel::prepare, when the port is opened
PrepareMoza == [frames |-> ArmTelemetry, state |-> [NewMoza EXCEPT !.armed = TRUE]]
=============================================================================
