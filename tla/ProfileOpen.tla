---------------------------- MODULE ProfileOpen ----------------------------
(***************************************************************************)
(* Loading a profile's devices and letting them go: open_profile_with,     *)
(* consider_entry and LoadedDevices::release of                            *)
(* crates/cargopit/src/devices.rs, with tick_devices and                   *)
(* release_configured of main.rs around them.                              *)
(*                                                                         *)
(* The entries of a profile are considered in order.  Each kind of device  *)
(* has its own conditions, and an entry that is refused must leave nothing *)
(* behind for the ones after it: no port (SerialPorts), no stream          *)
(* (PulseStreams), no HID device.  What the hardware, the server and the scripts answer   *)
(* is open at every step.                                                  *)
(***************************************************************************)
EXTENDS SerialPorts, PulseStreams, Sequences

CONSTANTS
    Profiles        \* the device lists a configuration may hold

\* consider_entry's kinds.  "Closed" is an entry of a class or type nothing
\* opens, "UnknownWheel" a USB wheel of unknown hardware.
UsbWheels == {"G29", "C5", "C12", "GtNeo"}
Pedals == {"Csl", "P1000", "SimNet"}
\* The serial kinds that are ready as soon as their port is open.
PlainSerial == {"ShiftLights", "SimWind", "SerialHaptic", "SimLed", "MozaR5"}
ScriptedSerial == {"SimLedCustom", "ArduinoCustom"}
Kinds == UsbWheels \cup Pedals \cup PlainSerial \cup ScriptedSerial
             \cup {"Tach", "MozaNew", "MozaKs", "Sound", "UnknownWheel", "Closed"}

\* device_effect: none, one that needs the simulator's haptics (tyres), or not.
Effects == {"none", "plain", "tyre"}

\* A DeviceEntry.  config is ConfigSource.
DeviceEntry == [kind : Kinds, enabled : BOOLEAN, path : Paths \cup {NoPath},
                baud : Bauds, config : {"Unset", "NamedNone", "File"},
                effect : Effects]

ASSUME ProfileOpenAssumption ==
    /\ Profiles \subseteq Seq(DeviceEntry)
    /\ \A p \in Profiles : DOMAIN p \subseteq Entries
    /\ \A p \in Profiles : \A i \in DOMAIN p : p[i].kind = "Sound" => i \in Shakers
    /\ Shakers \subseteq Entries

VARIABLES
    phase,      \* where the host is with its devices
    profile,    \* the profile being loaded, or loaded
    slot,       \* the entry under consideration
    haptics,    \* supports_haptics of the simulator
    loaded,     \* LoadedDevices, in the order of their indexes
    usb         \* the entries that hold a HID device, or the file of the CSL pedals

host == <<phase, profile, slot, haptics, loaded, usb>>
vars == <<serial, pulse, host>>

\* The kinds that are driven over USB.
HidKinds == UsbWheels \cup Pedals \cup {"Tach"}

\* A loaded device: its entry, its kind, whether it has a script and an effect,
\* and what was read for it: the LED count of a custom strip, or the table of
\* pulses of a tachometer.
Device == [slot : Entries, kind : Kinds, lua : BOOLEAN, armed : BOOLEAN,
           read : {"none", "unset", "counted", "points"}]

\* LoadedDevices::empty
NoDevices == <<>>

TypeOK ==
    /\ SerialTypeOK
    /\ PulseTypeOK
    /\ phase \in {"empty", "opening", "loaded", "silenced"}
    /\ profile \in Profiles \cup {<<>>}
    /\ slot \in Nat
    /\ haptics \in BOOLEAN
    /\ loaded \in Seq(Device)
    /\ usb \subseteq Entries

Init ==
    /\ SerialInit
    /\ PulseInit
    /\ phase = "empty"
    /\ profile = <<>>
    /\ slot = 1
    /\ haptics = FALSE
    /\ loaded = NoDevices
    /\ usb = {}

-----------------------------------------------------------------------------
(* Considering one entry *)

entry == profile[slot]
\* The entry's port or HID device was opened and its kind has not decided yet.
PortInHand == handle[slot] # NoOne
HidInHand == slot \in usb
At(kind) ==
    /\ phase = "opening"
    /\ slot \in DOMAIN profile
    /\ connecting = NoShaker
    /\ entry.kind = kind

\* device_skip: a disabled entry, or a sound entry with --disable-audio.
Skip == ~entry.enabled \/ (context = "none" /\ entry.kind = "Sound")
Enter(kind) == At(kind) /\ ~PortInHand /\ ~HidInHand /\ ~Skip

\* The entry is over, without a device: what it had of USB is dropped ...
Unopened ==
    /\ slot' = slot + 1
    /\ usb' = usb \ {slot}
    /\ UNCHANGED <<phase, profile, haptics, loaded>>

\* ... or with one.
BuildDevice(lua, armed, read) ==
    /\ loaded' = Append(loaded, [slot |-> slot, kind |-> entry.kind, lua |-> lua,
                                 armed |-> armed, read |-> read])
    /\ slot' = slot + 1
    /\ UNCHANGED <<phase, profile, haptics, usb>>

Plain == BuildDevice(FALSE, FALSE, "none")

Skipped ==
    /\ phase = "opening"
    /\ slot \in DOMAIN profile
    /\ Skip
    /\ Unopened
    /\ UNCHANGED <<serial, pulse>>

-----------------------------------------------------------------------------
(* HID and sysfs devices: present or not, at every attempt. *)

\* open_hid: the first device of the vendor and product, or none.
OpenHid ==
    /\ \/ usb' = usb \cup {slot} /\ UNCHANGED <<phase, profile, slot, haptics, loaded>>
       \/ Unopened
    /\ UNCHANGED <<serial, pulse>>
WithHid(kind) == At(kind) /\ HidInHand /\ UNCHANGED <<serial, pulse>>
Refuse(kind) == Enter(kind) /\ Unopened /\ UNCHANGED <<serial, pulse>>

\* prepare_tach: a RevBurner needs the name of a file ...
TachReady == entry.config = "File"
\* load_tach_points: ... and goes without a table if it cannot be read.
LoadTachPoints == {"points", "unset"}
ConsiderTach ==
    \/ Refuse("Tach") /\ ~TachReady
    \/ Enter("Tach") /\ TachReady /\ OpenHid
\* revburner_attempt
RevburnerReady == WithHid("Tach") /\ \E read \in LoadTachPoints : BuildDevice(FALSE, FALSE, read)

ConsiderG29 ==
    \/ Enter("G29") /\ OpenHid
    \/ WithHid("G29") /\ Plain

ConsiderC5 ==
    \/ Enter("C5") /\ OpenHid
    \/ WithHid("C5") /\ Plain

\* lua_config
HasScript == entry.config = "File"

ConsiderC12 == Enter("C12") /\ OpenHid
\* The C12's script is optional, but a script that does not load refuses it.
FinishC12 ==
    /\ WithHid("C12")
    /\ IF HasScript THEN Unopened \/ BuildDevice(TRUE, FALSE, "none") ELSE Plain

\* The GT Neo is nothing without its script.
ConsiderGt ==
    \/ Refuse("GtNeo") /\ ~HasScript
    \/ Enter("GtNeo") /\ HasScript /\ OpenHid
    \/ WithHid("GtNeo") /\ (Unopened \/ BuildDevice(TRUE, FALSE, "none"))

\* Pedals open for a simulator without haptics too, with no effect.
Armed == haptics /\ entry.effect # "none"
ReadyPedal == BuildDevice(FALSE, Armed, "none")

\* locate_csl_pedals: where the driver of the CSL pedals put their file.
CslLocations == {"Missing", "Permission", "Found"}
\* attach_csl: a file that was found may still not open.
AttachCsl(location) == IF location = "Found" THEN OpenHid ELSE Refuse("Csl")
ConsiderCsl ==
    \/ Enter("Csl") /\ \E location \in CslLocations : AttachCsl(location)
    \/ WithHid("Csl") /\ ReadyPedal

\* The P1000 must take its first report.
ConsiderP1000 ==
    \/ Enter("P1000") /\ OpenHid
    \/ WithHid("P1000") /\ (Unopened \/ ReadyPedal)

ConsiderSimnet ==
    \/ Enter("SimNet") /\ OpenHid
    \/ WithHid("SimNet") /\ ReadyPedal

ConsiderUnknownWheel ==
    /\ Enter("UnknownWheel")
    /\ Unopened
    /\ UNCHANGED <<serial, pulse>>

ConsiderClosed ==
    /\ Enter("Closed")
    /\ Unopened
    /\ UNCHANGED <<serial, pulse>>

-----------------------------------------------------------------------------
(* Serial devices: open_serial, then what the kind does with the port. *)

\* accept_serial: with a port in hand the kind goes on, without one the entry
\* is over.
AcceptSerial ==
    /\ OpenSerial(slot, entry.path, entry.baud)
    /\ IF handle'[slot] = NoOne THEN Unopened ELSE UNCHANGED host
    /\ UNCHANGED pulse

FaultRejectKeeps ==
    /\ Unopened
    /\ UNCHANGED <<serial, pulse>>

\* reject_opened_serial
RejectOpened ==
    /\ DropPort(slot)
    /\ Unopened
    /\ UNCHANGED <<slots, opened, pulse>>

KeepPort(lua, read) ==
    /\ BuildDevice(lua, entry.kind = "SerialHaptic" /\ entry.effect # "none", read)
    /\ UNCHANGED <<serial, pulse>>

InHand(kind) == At(kind) /\ PortInHand

ConsiderShiftlights ==
    \/ Enter("ShiftLights") /\ AcceptSerial
    \/ InHand("ShiftLights") /\ KeepPort(FALSE, "none")

ConsiderSimwind ==
    \/ Enter("SimWind") /\ AcceptSerial
    \/ InHand("SimWind") /\ KeepPort(FALSE, "none")

\* A serial motor is refused, before its port is opened, by a simulator without
\* haptics.
ConsiderSerialHaptic ==
    \/ Enter("SerialHaptic") /\ haptics /\ AcceptSerial
    \/ Enter("SerialHaptic") /\ ~haptics /\ Unopened /\ UNCHANGED <<serial, pulse>>
    \/ InHand("SerialHaptic") /\ KeepPort(FALSE, "none")

ConsiderSimled ==
    \/ Enter("SimLed") /\ AcceptSerial
    \/ InHand("SimLed") /\ KeepPort(FALSE, "none")

ConsiderMozaR5 ==
    \/ Enter("MozaR5") /\ AcceptSerial
    \/ InHand("MozaR5") /\ KeepPort(FALSE, "none")

\* A Moza wheel gives up exclusive use of its port and is ready even when it
\* could not be armed.
ConsiderMoza ==
    \/ Enter("MozaNew") /\ AcceptSerial
    \/ /\ InHand("MozaNew")
       /\ SharePort(slot)
       /\ Plain
       /\ UNCHANGED <<slots, handle, opened, pulse>>

\* A KS Pro must take all its initial colours.
ConsiderMozaKs ==
    \/ Enter("MozaKs") /\ AcceptSerial
    \/ InHand("MozaKs") /\ (RejectOpened \/ KeepPort(FALSE, "none"))

\* An Arduino with a script is not even opened without one; a script that does
\* not load refuses it.
ConsiderArduinoCustom ==
    \/ /\ Enter("ArduinoCustom")
       /\ entry.config # "File"
       /\ Unopened
       /\ UNCHANGED <<serial, pulse>>
    \/ Enter("ArduinoCustom") /\ entry.config = "File" /\ AcceptSerial
    \/ InHand("ArduinoCustom") /\ (RejectOpened \/ KeepPort(TRUE, "none"))

\* A strip's answer to the question for its LED count, as strtol reads it.
CountReply == [minus : BOOLEAN, digits : {"none", "zero", "some", "huge"},
               tail : {"ended", "rubbish"}]
\* split_sign, take_decimal: without digits, or with too many, there is no number.
TakesDecimal(reply) == reply.digits \notin {"none", "huge"}
FinishSimledCount(reply) ==
    IF reply.tail = "rubbish" \/ (reply.minus /\ reply.digits # "zero")
    THEN "rejected" ELSE "counted"
ParseSimledCount(reply) ==
    IF TakesDecimal(reply) THEN FinishSimledCount(reply) ELSE "rejected"

\* read_count_bytes: nothing in time, an error, or an answer.
LiveReplies == {"waiting", "failed"} \cup {ParseSimledCount(reply) : reply \in CountReply}
\* query_simled_count: of its attempts the first that is answered decides; a
\* strip that never answers is kept with no count.
QuerySimledCount ==
    {IF reply = "failed" THEN "rejected" ELSE reply : reply \in LiveReplies \ {"waiting"}}
        \cup {"unset"}

ConsiderSimledCustom ==
    \/ Enter("SimLedCustom") /\ AcceptSerial
    \/ /\ InHand("SimLedCustom")
       /\ \E count \in QuerySimledCount :
            RejectOpened \/ (count # "rejected" /\ KeepPort(TRUE, count))

-----------------------------------------------------------------------------
(* Sound devices: open_sound, then a stream in the session. *)

\* A tyre effect needs the simulator's haptics.
SoundReady == entry.effect = "tyre" => haptics

\* link_prepared_sound
LinkSound ==
    \/ SoundReady /\ BeginConnect(slot) /\ UNCHANGED <<serial, host>>
    \/ CannotConnect /\ Unopened /\ UNCHANGED serial

ConsiderSound == Enter("Sound") /\ LinkSound

StreamWait == (Nap \/ Relock) /\ UNCHANGED <<serial, host>>
StreamReady == Connected /\ Plain /\ UNCHANGED serial
StreamRefused == NotConnected /\ Unopened /\ UNCHANGED serial

-----------------------------------------------------------------------------
(* The whole load, and the release *)

\* consider_entry
Consider ==
    \/ Skipped
    \/ ConsiderTach
    \/ RevburnerReady
    \/ ConsiderShiftlights
    \/ ConsiderSimwind
    \/ ConsiderSerialHaptic
    \/ ConsiderSimledCustom
    \/ ConsiderSimled
    \/ ConsiderArduinoCustom
    \/ ConsiderMoza
    \/ ConsiderMozaR5
    \/ ConsiderMozaKs
    \/ ConsiderSound
    \/ ConsiderG29
    \/ ConsiderC5
    \/ ConsiderC12
    \/ FinishC12
    \/ ConsiderGt
    \/ ConsiderCsl
    \/ ConsiderP1000
    \/ ConsiderSimnet
    \/ ConsiderUnknownWheel
    \/ ConsiderClosed

\* tick_devices with a load pending: no stream of an earlier load is left, and
\* the profile on disk, whatever it is by now, is opened.
LoadConfigured ==
    /\ phase = "empty"
    /\ context \notin {"unopened", "settling"}
    /\ DisconnectShakers
    /\ phase' = "opening"
    /\ profile' \in Profiles
    /\ haptics' \in BOOLEAN
    /\ slot' = 1
    /\ UNCHANGED <<serial, loaded, usb>>

\* open_profile_with returns: the table of ports goes, the devices stay.
FinishOpen ==
    /\ phase = "opening"
    /\ slot \notin DOMAIN profile
    /\ phase' = "loaded"
    /\ slots' = EmptySlots
    /\ opened' = NotOpened
    /\ UNCHANGED <<port, handle, pulse, profile, slot, haptics, loaded, usb>>

\* A due sound device is updated (write_sound).
WriteSound ==
    /\ phase = "loaded"
    /\ \/ \E i \in DOMAIN loaded :
            loaded[i].kind = "Sound" /\ BeginMix(loaded[i].slot)
       \/ EndMix
    /\ UNCHANGED <<serial, host>>

\* release_configured silences the shakers first ...
SilenceShakers ==
    /\ phase = "loaded"
    /\ DisconnectShakers
    /\ phase' = "silenced"
    /\ UNCHANGED <<serial, profile, slot, haptics, loaded, usb>>

\* close_csl; a HID device goes with the list of ports.
CloseUsb == usb' = {}

\* ... and then lets the devices go.
ReleaseDevices ==
    /\ phase = "silenced"
    /\ DropAllPorts
    /\ CloseUsb
    /\ loaded' = NoDevices
    /\ phase' = "empty"
    /\ profile' = <<>>
    /\ UNCHANGED <<slots, opened, pulse, slot, haptics>>

\* open_pulse before the first load.
OpenPulse ==
    /\ AudioDisabled \/ RejectContext \/ BeginSession \/ PollSettled \/ Settled
    /\ UNCHANGED <<serial, host>>

\* close_pulse once the devices are released.
ClosePulse ==
    /\ phase = "empty"
    /\ CloseSession
    /\ UNCHANGED <<serial, host>>

Host ==
    \/ OpenPulse
    \/ ClosePulse
    \/ LoadConfigured
    \/ Consider
    \/ StreamWait
    \/ StreamReady
    \/ StreamRefused
    \/ FinishOpen
    \/ WriteSound
    \/ SilenceShakers
    \/ ReleaseDevices

Next == Host \/ (AudioThread /\ UNCHANGED <<serial, host>>)

Spec == Init /\ [][Next]_vars

\* The host goes on with what it has begun.  PulseAudio's thread holds the lock
\* for a callback only and polls without it, so the host gets it in the end.
FairSpec ==
    /\ Spec
    /\ SF_vars(Consider)
    /\ SF_vars(StreamWait)
    /\ SF_vars(StreamReady \/ StreamRefused)
    /\ WF_vars((PollSettled \/ Settled) /\ UNCHANGED <<serial, host>>)
    /\ WF_vars(FinishOpen)
    /\ WF_vars(EndMix /\ UNCHANGED <<serial, host>>)
    /\ WF_vars((RenderVoice \/ WriteBytes) /\ UNCHANGED <<serial, host>>)

-----------------------------------------------------------------------------
(* Properties *)

LoadedSlots == {loaded[i].slot : i \in DOMAIN loaded}
UsbSlots == {loaded[i].slot : i \in {j \in DOMAIN loaded : loaded[j].kind \in HidKinds}}
SoundSlots == {loaded[i].slot : i \in {j \in DOMAIN loaded : loaded[j].kind = "Sound"}}

\* Nothing is held but by a loaded device.  When no entry is under way, every
\* open port belongs to one; a HID device that is open is a loaded one's, or the
\* entry's under consideration.  The streams the server asks for sound are those the
\* session will disconnect; they are the loaded sound devices' until the release
\* begins, and there are none while it lets the ports go.
HeldByLoaded ==
    /\ phase # "opening" =>
         \A c \in Entries : IsOpen(c) => \E d \in Users(c) : d \in LoadedSlots
    /\ usb \ UsbSlots \subseteq (IF phase = "opening" THEN {slot} ELSE {})
    /\ UsbSlots \subseteq usb
    /\ callback = streams
    /\ phase \in {"opening", "loaded"} => streams = SoundSlots
    /\ phase \in {"silenced", "empty"} => streams = {} /\ audio = AudioIdle

\* Whatever the sound server does, the session opens with it or without, and a
\* load ends.
LoadEnds ==
    /\ context = "settling" ~> context # "settling"
    /\ phase = "opening" ~> phase = "loaded"
=============================================================================
