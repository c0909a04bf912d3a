--------------------------- MODULE MCDeviceOutput ---------------------------
(***************************************************************************)
(* Every kind of device, under frames that drive each effect, bar, flag    *)
(* and gate, and a frame of a standing car and of a paused session.        *)
(***************************************************************************)
EXTENDS DeviceOutput

Even(n) == [w \in Wheels |-> n]
Cruise == [rpms |-> 7000, maxrpm |-> 8000, idlerpm |-> 1000, velocity |-> 120, gear |-> 5,
           pulses |-> 300, flag |-> "none", active |-> TRUE, brake |-> 0, gas |-> 50,
           abs |-> FALSE, slip |-> Even(0), diameters |-> FALSE, wheelspeed |-> Even(0),
           forward |-> 30, sideways |-> 0, temps |-> Even(100), acr |-> FALSE,
           dirt2 |-> FALSE]
\* Not quite an LED more; past the limit under a yellow flag.
Higher == [Cruise EXCEPT !.rpms = 7100]
Half == [Cruise EXCEPT !.rpms = 1500]
Top == [Cruise EXCEPT !.rpms = 2000]
YellowFlag == [Cruise EXCEPT !.rpms = 7990, !.flag = "yellow"]
Spin == [Cruise EXCEPT !.slip = [@ EXCEPT ![3] = -60]]
\* Wheels that stand while the car does not, by slip and by their speeds.
Locked == [Cruise EXCEPT !.brake = 80, !.gas = 0, !.slip = Even(70),
                         !.temps = [Even(100) EXCEPT ![1] = 500]]
Calculated == [Cruise EXCEPT !.brake = 40, !.diameters = TRUE, !.wheelspeed = Even(60)]
\* No slip is worked out for this simulator.
Unslipped == [Calculated EXCEPT !.dirt2 = TRUE]
Trail == [Cruise EXCEPT !.brake = 3, !.abs = TRUE, !.temps = [Even(100) EXCEPT ![1] = 400]]
Stopped == [Locked EXCEPT !.rpms = 1000, !.velocity = 0, !.forward = 0, !.gear = 1]
Paused == [Stopped EXCEPT !.active = FALSE]
MCOffFrame == [rpms |-> 0, maxrpm |-> 0, idlerpm |-> 0, velocity |-> 0, gear |-> 0,
               pulses |-> 0, flag |-> "none", active |-> FALSE, brake |-> 0, gas |-> 0,
               abs |-> FALSE, slip |-> Even(0), diameters |-> FALSE, wheelspeed |-> Even(0),
               forward |-> 0, sideways |-> 0, temps |-> Even(0), acr |-> FALSE,
               dirt2 |-> FALSE]
MCFrames == {Cruise, Higher, Half, Top, YellowFlag, Spin, Locked, Calculated, Unslipped, Trail,
             Stopped, Paused, MCOffFrame}

D(kind, effect) ==
    [kind |-> kind, effect |-> effect, armed |-> TRUE, tyres |-> Wheels, threshold |-> 20,
     motor |-> 8, amp |-> 150, total |-> 4, startled |-> 0, endled |-> 0,
     lights |-> 6, granularity |-> 0, usePulses |-> FALSE,
     frequency |-> 40, frequencyMax |-> 90]
Plain == {"Tach", "G29", "C5", "C12", "ShiftLights", "SimWind", "SimLed", "MozaR5"}
MCDevices ==
    {D(kind, "EngineRpm") : kind \in Plain \cup ScriptedKinds \cup {"MozaKs", "MozaNew"}}
        \cup {D(kind, effect) : kind \in Pedals \cup {"SerialHaptic", "Sound"},
                                effect \in VibrationEffects}
        \cup {[D("P1000", "TyreSlip") EXCEPT !.armed = FALSE],
              [D("SerialHaptic", "TyreLock") EXCEPT !.motor = 0, !.tyres = {3, 4}],
              [D("Tach", "EngineRpm") EXCEPT !.usePulses = TRUE],
              [D("Tach", "EngineRpm") EXCEPT !.granularity = 2],
              [D("Tach", "EngineRpm") EXCEPT !.granularity = 4],
              [D("SimLed", "EngineRpm") EXCEPT !.startled = 2, !.endled = 3]}

\* An item without its pulses, and one below zero.
MCTachFiles ==
    {Table(<<[Item(250, 5) EXCEPT !.timed = FALSE], Item(1000, -3), Item(2000, 30)>>, 0)}

\* Ranges that are cut, refused and past the buffer, calls only some hosts
\* have, and scripts that fail half-way.
Do(op, led, upto, color) == [op |-> op, led |-> led, last |-> upto, color |-> color]
Say(text) == [op |-> "message", text |-> text]
MCScripts ==
    {<<>>,
     <<Do("range", 1, 99, 1), Say("fast")>>,
     <<Do("led", 2, 0, 2), Say(NoMessage), [op |-> "error"], Do("clear", 0, 0, 0)>>,
     <<[op |-> "total", total |-> 9], Do("ledRgb", 7, 0, 255), Do("rangeRgb", 2, 3, 16711680),
       Do("clearRange", 0, 0, 0), Say("slow")>>,
     <<Do("range", 0, 2, 4), Do("led", 0, 0, 3), Do("led", 3, 0, 5)>>}
=============================================================================
