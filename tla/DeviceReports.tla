--------------------------- MODULE DeviceReports ---------------------------
(***************************************************************************)
(* The reports of crates/cargopit-devices/src/usb.rs and serial.rs that a  *)
(* frame alone decides.  A report is what it sets: a function from the     *)
(* device's channels (a bar of LEDs, a motor, a display) to their values;  *)
(* headers, checksums and padding are left out.                            *)
(***************************************************************************)
EXTENDS LuaScript, ShakerBoard, Integers, Sequences, FiniteSets

CONSTANTS
    C12Leds,        \* C12_LED_TOTAL
    C12First,       \* C12_LED_FIRST
    GtLeds,         \* GT_NEO_LEDS
    GtRoom          \* LEDs that fit a GT Neo report

ASSUME ReportsAssumption ==
    /\ C12Leds \in Nat /\ C12First \in 0 .. C12Leds
    /\ GtLeds \in Nat /\ GtRoom \in Nat \ {0}

Byte(n) == n % 256
Low(n, top) == IF n < top THEN n ELSE top

\* revlights_lit: LEDs by engine speed, the last one 5 % below the limit.
RevlightsLit(rpm, maxrpm, steps) ==
    LET interval == (maxrpm - (5 * maxrpm + 99) \div 100) \div steps
    IN  CASE rpm = 0 \/ maxrpm = 0 \/ steps <= 0 -> 0
          [] rpm > 0 /\ maxrpm > 0 /\ steps > 0 ->
                IF interval <= 0 THEN steps ELSE Low(rpm \div interval, steps)

\* A gear display counts from neutral and reverse, one below the frame's gear.
ShownGear(gear) == Byte(gear - 1)

-----------------------------------------------------------------------------
(* USB *)

\* lookup_tach_pulses: the table's point by thousands of rpm, or by steps of
\* 1000 / granularity; idle below 500.  A tachometer whose table was not read
\* shows nothing, unless it is given the simulator's pulses.
CanShow(entry, points) == entry.usePulses \/ points # <<>>
TachElement(rpms, granularity, last) ==
    LET step == IF granularity = 0 THEN 1000 ELSE 1000 \div granularity
    IN  Low(rpms \div (IF step = 0 THEN 1000 ELSE step), last)
TachPulses(frame, entry, points) ==
    CASE entry.usePulses -> frame.pulses
      [] ~entry.usePulses /\ frame.rpms < 500 -> points[1].pulses
      [] ~entry.usePulses /\ frame.rpms >= 500 ->
            points[1 + TachElement(frame.rpms, entry.granularity, Len(points) - 1)].pulses
RevburnerReport(pulses) == [needle |-> pulses % 65536]

\* g29_leds.  The threshold of one LED, 40 %, lies above the one of two.
G29Leds(rpm, maxrpm) ==
    IF maxrpm = 0 THEN 0
    ELSE LET above(percent) == 100 * rpm > percent * maxrpm
         IN  CASE above(84) -> 5
               [] ~above(84) /\ above(69) -> 4
               [] ~above(69) /\ above(39) -> 3
               [] ~above(39) /\ above(19) -> 2
               [] ~above(19) -> 0
G29Report(rpm, maxrpm) == [leds |-> G29Leds(rpm, maxrpm)]

C5Report(rpm, maxrpm, gear, velocity) ==
    [leds |-> Byte(RevlightsLit(rpm, maxrpm, 10)), velocity |-> velocity % 65536,
     gear |-> ShownGear(gear)]

\* round_ties_even
RoundEven(n, d) ==
    LET q == n \div d
        r == 2 * (n % d)
    IN  IF r > d \/ (r = d /\ q % 2 = 1) THEN q + 1 ELSE q
C12Report(frame) ==
    [percent |-> IF frame.maxrpm = 0 THEN 0
                 ELSE Low(RoundEven(100 * frame.rpms, frame.maxrpm), 255),
     velocity |-> frame.velocity % 65536, gear |-> ShownGear(frame.gear)]

\* A script's colour for an LED; it may paint fewer than there are.
Painted(colors, led) == IF led \in DOMAIN colors THEN colors[led] ELSE Off
\* c12_led_reports: one report for each of the last LEDs.
C12LedReports(colors) ==
    [i \in 1 .. C12Leds - C12First |->
        [led \in {C12First + i} |-> Painted(colors, led)]]

\* gt_neo_reports: an announcement, then the LEDs a chunk at a time.  An LED
\* whose colour is missing is set dark.  The announcement is channel 0.
GtChunk(colors, first) ==
    [led \in first .. Low(first + GtRoom - 1, GtLeds) |-> Painted(colors, led)]
GtNeoReports(colors) ==
    <<[c \in {0} |-> "announced"]>>
        \o [i \in 1 .. (GtLeds + GtRoom - 1) \div GtRoom |-> GtChunk(colors, (i - 1) * GtRoom + 1)]

CslRumble(effect, play) ==
    IF play > 0 /\ effect \in {"TyreSlip", "TyreLock", "AbsBrakes"} THEN effect ELSE "off"

\* p1000_reports: both motors stop, the effect's ones start.
P1000Reports(effect, play) ==
    CASE play <= 0 -> <<[lock |-> FALSE], [slip |-> FALSE]>>
      [] play > 0 /\ effect = "TyreSlip" -> <<[slip |-> TRUE]>>
      [] play > 0 /\ effect = "TyreLock" -> <<[lock |-> TRUE]>>
      [] play > 0 /\ effect = "AbsBrakes" -> <<[slip |-> TRUE], [lock |-> TRUE]>>
      [] play > 0 /\ effect \notin {"TyreSlip", "TyreLock", "AbsBrakes"} -> <<>>

SimnetReport(play) == [motor |-> play]

-----------------------------------------------------------------------------
(* Serial *)

ShiftlightsByte(frame, lights) ==
    [lights |-> Byte(RevlightsLit(frame.rpms, frame.maxrpm, lights))]

\* simwind_report: mph, rounded up.
SimwindReport(frame) == [fan |-> Low((621 * frame.velocity + 999) \div 1000, 255)]

\* led_packet: LEDs past the colours given are dark.
LedPacket(total, colors) == [led \in 1 .. total |-> Painted(colors, led)]
\* simled_span and simled_rgb: green, then yellow, the last one red.
SimledSpan(entry) ==
    LET start == IF entry.startled < 1 THEN 1 ELSE entry.startled
        end == IF entry.endled = 0 THEN entry.total ELSE Low(entry.endled, entry.total)
    IN  [start |-> start, avail |-> end - start + 1]
SimledColor(index, avail) ==
    CASE index = avail -> Red
      [] index # avail /\ index <= avail \div 2 -> Green
      [] index # avail /\ index > avail \div 2 -> Yellow
SimledRgb(span, total, lit) ==
    [led \in 1 .. total |->
        IF led \in span.start .. span.start + lit - 1
        THEN SimledColor(led - span.start + 1, span.avail) ELSE Off]
SimledReports(frame, entry) ==
    LET span == SimledSpan(entry)
        lit == RevlightsLit(frame.rpms, frame.maxrpm, span.avail)
    IN  IF entry.total < 1 \/ span.avail < 1 THEN <<>>
        ELSE <<LedPacket(entry.total, SimledRgb(span, entry.total, lit))>>
SimledBlank(entry) == <<LedPacket(entry.total, <<>>)>>

\* Percent of the limit, rounded, a half away from zero.
Percent(rpm, maxrpm) == (200 * rpm + maxrpm) \div (2 * maxrpm)

\* moza_r5_report: sixteen bits of engine speed, the LEDs their percentages
\* reach.
R5Report(frame) ==
    LET rpm == frame.rpms % 65536
        maxrpm == frame.maxrpm % 65536
        reached == {10, 20, 30, 40, 50, 60, 70, 80, 90, 92, 94}
    IN  [bar |-> IF maxrpm = 0 THEN 0
                 ELSE Cardinality({p \in reached : Percent(rpm, maxrpm) >= p})]

\* ks_mask: twelve LEDs from 75 %, all dark in the blink's off half above
\* 98 %, and the flag's LEDs beside them.
KsMask(frame, blinkOff) ==
    LET percent == Percent(frame.rpms, frame.maxrpm)
        steps == {75, 77, 79, 81, 83, 85, 87, 89, 91, 93, 95, 97}
    IN  [bar |-> IF percent >= 98 /\ blinkOff THEN 0
                 ELSE Cardinality({p \in steps : percent >= p}),
         flagLeds |-> frame.flag = "yellow"]
KsFlagColors(flag) ==
    LET color == IF flag = "yellow" THEN "yellow" ELSE "off"
    IN  <<[left |-> color], [right |-> color]>>
\* MozaKsWheel::tick: the colours when the flag is another, then the mask;
\* nothing without a limit.
KsTick(frame, last, blinkOff) ==
    IF frame.maxrpm = 0 THEN <<>>
    ELSE (IF frame.flag = last THEN <<>> ELSE KsFlagColors(frame.flag))
             \o <<KsMask(frame, blinkOff)>>
=============================================================================
