----------------------------- MODULE LuaScript -----------------------------
(***************************************************************************)
(* The LED host of crates/cargopit-devices/src/lua_host.rs: what one call  *)
(* of a device's script leaves in the LEDs and in the global Message.      *)
(*                                                                         *)
(* A script is the sequence of host functions it calls for a frame, and of *)
(* assignments to the two globals the host reads, up to its end or to an   *)
(* error.  The frame it reads, simdata, is what it chose them by.  A       *)
(* colour is its red, green and blue.                                      *)
(***************************************************************************)
EXTENDS Integers, Sequences, SequencesExt

Off == <<0, 0, 0>>
Red == <<255, 0, 0>>
Green == <<0, 255, 0>>
Yellow == <<255, 255, 0>>

\* full_if, orange, channel: the colours set_colors names; others are dark.
NamedRgb(color) ==
    CASE color = 1 -> Red
      [] color = 2 -> Green
      [] color = 3 -> <<0, 0, 255>>
      [] color = 4 -> Yellow
      [] color = 5 -> <<255, 165, 0>>
      [] color \notin 1 .. 5 -> Off
\* Three bytes of an integer.
PackedRgb(color) == <<(color \div 65536) % 256, (color \div 256) % 256, color % 256>>

\* A message that is not a string.
NoMessage == "none"

LedLimit(total) == IF total <= 0 THEN 0 ELSE total

\* The buffer is sized once a call; an LED past it is not written.
WriteLed(leds, led, rgb) ==
    IF led \in DOMAIN leds THEN [leds EXCEPT ![led] = rgb] ELSE leds
PaintSpan(leds, from, to, rgb) ==
    [led \in DOMAIN leds |-> IF led \in from + 1 .. to THEN rgb ELSE leds[led]]

\* num_leds reads the global TotalLeds, which a script may have overwritten.
SetLed(host, led, rgb) ==
    IF led - 1 < 0 \/ led - 1 >= LedLimit(host.total) THEN host.leds
    ELSE WriteLed(host.leds, led, rgb)

NoSpan == <<0, 0>>
\* A range is cut at the last LED; one that starts before the first is refused.
ClampLedRange(from, to, count) ==
    LET end == IF to > count THEN count ELSE to
    IN  IF from < 0 \/ end <= from THEN NoSpan ELSE <<from, end>>
SetRange(host, first, last, rgb) ==
    LET span == ClampLedRange(first - 1, last, LedLimit(host.total))
    IN  PaintSpan(host.leds, span[1], span[2], rgb)

ClearAll(host) == PaintSpan(host.leds, 0, LedLimit(host.total), Off)

\* register_leds: what a call does; led_clear_range is there for serial
\* devices only, and a call of nothing is an error, which ends the script.
Called(host, call, mode) ==
    CASE call.op = "led" -> [host EXCEPT !.leds = SetLed(host, call.led, NamedRgb(call.color))]
      [] call.op = "ledRgb" -> [host EXCEPT !.leds = SetLed(host, call.led, PackedRgb(call.color))]
      [] call.op = "range" ->
            [host EXCEPT !.leds = SetRange(host, call.led, call.last, NamedRgb(call.color))]
      [] call.op = "rangeRgb" ->
            [host EXCEPT !.leds = SetRange(host, call.led, call.last, PackedRgb(call.color))]
      [] call.op = "clear" \/ (call.op = "clearRange" /\ mode = "serial") ->
            [host EXCEPT !.leds = ClearAll(host)]
      [] call.op = "message" -> [host EXCEPT !.message = call.text]
      [] call.op = "total" -> [host EXCEPT !.total = call.total]
      [] call.op = "error" \/ (call.op = "clearRange" /\ mode = "usb") ->
            [host EXCEPT !.failed = TRUE]

\* call_script: the LEDs start dark, TotalLeds is set anew; Message is left as
\* the last call had it.  A script that fails keeps what it painted by then.
CallScript(script, total, mode, message) ==
    FoldLeft(LAMBDA host, call : IF host.failed THEN host ELSE Called(host, call, mode),
             [total |-> total, leds |-> [led \in 1 .. LedLimit(total) |-> Off],
              message |-> message, failed |-> FALSE],
             script)
=============================================================================
