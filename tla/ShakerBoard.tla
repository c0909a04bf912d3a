---------------------------- MODULE ShakerBoard ----------------------------
(***************************************************************************)
(* The serial shaker board: which of its four motors a MotorPosition       *)
(* drives, and the packets it is sent (serial.rs of cargopit-devices).     *)
(* A play and an amplifier are percentages.                                *)
(***************************************************************************)
EXTENDS Integers

BoardMotors == 1 .. 4

\* motor_one and motor_three, of a position counted from zero: no position
\* drives the second or the fourth motor.
MotorOne == {0, 4, 7, 8, 10, 11, 13, 14}
MotorThree == {2, 6, 8, 9, 10, 11, 12, 14}
Driven(position) == (IF position \in MotorOne THEN {1} ELSE {})
                        \cup (IF position \in MotorThree THEN {3} ELSE {})

\* The play an amplifier leaves, at most full, and the byte of it.
ScaledPlay(play, amp) == IF play * amp > 10000 THEN 100 ELSE (play * amp) \div 100
EffectSpeed(scaled) == (255 * scaled + 99) \div 100

\* SerialHapticState::tick: a board's flags are cleared and set for the motors
\* whose speed changes; the others keep theirs.
HapticPacket(scaled, last, position) ==
    [m \in (IF scaled = last THEN {} ELSE Driven(position)) |-> EffectSpeed(scaled)]
HapticStopPacket == [m \in BoardMotors |-> 0]
=============================================================================
