------------------------------ MODULE HostEntry ------------------------------
(***************************************************************************)
(* What cargopit play makes of one device entry of cargopit.config: the    *)
(* kind of device it opens (consider_entry of crates/cargopit/src/         *)
(* devices.rs), the port, and the settings each kind reads                 *)
(* (devices.rs, sound_host.rs, and names.rs of cargopit-config).           *)
(*                                                                         *)
(* An entry is a function from the keys it has.  A name stands for all its *)
(* spellings, case being ignored here; a channel mask is the set of        *)
(* channels whose bit it has, and a fraction is counted in thousandths.    *)
(***************************************************************************)
EXTENDS Integers, Sequences

Get(entry, key, default) == IF key \in DOMAIN entry THEN entry[key] ELSE default
Over(upper, lower) ==
    [key \in DOMAIN upper \cup DOMAIN lower |->
        IF key \in DOMAIN upper THEN upper[key] ELSE lower[key]]
Within(n, low, high) == IF n < low THEN low ELSE IF n > high THEN high ELSE n
Positive(n) == IF n > 0 THEN n ELSE 0

-----------------------------------------------------------------------------
(* The name tables.  Lookup of a name no table has is Unset.               *)

Unset == "unset"
Lookup(table, name) == Get(table, name, Unset)
Plainly(names) == [name \in names |-> name]

DeviceClasses == Plainly({"USB", "Sound", "Serial"})

UsbTypes == Over(Plainly({"Tachometer", "Wheel", "Haptic"}),
                 [UsbWheel |-> "Wheel", UsbHaptic |-> "Haptic"])

SerialTypes ==
    Over(Plainly({"ShiftLights", "Simleds", "SimWind", "Haptic", "Wheel", "Custom"}),
         [ArduinoCustom |-> "Custom", SerialHaptic |-> "Haptic"])

Hardware ==
    [MozaR5 |-> "MozaR5", MozaR8 |-> "MozaR5", MozaR3 |-> "MozaR5",
     MozaNew |-> "MozaNew", MozaR9 |-> "MozaNew", MozaKSProWheel |-> "MozaKs",
     CammusC5 |-> "C5", CammusC12 |-> "C12", LogitechG29 |-> "G29",
     CSLELITEV3PEDALS |-> "Csl", SIMNETPEDALS |-> "SimNet", SIMAGICP1000PEDALS |-> "P1000",
     SIMAGICGTNEO |-> "GtNeo", Revburner |-> "Revburner"]

EffectNames ==
    [Engine |-> "EngineRpm", Gear |-> "GearShift", ABS |-> "AbsBrakes",
     TyreSlip |-> "TyreSlip", Slip |-> "TyreSlip", TireSlip |-> "TyreSlip",
     TyreLock |-> "TyreLock", Lock |-> "TyreLock", TireLock |-> "TyreLock",
     Suspension |-> "Suspension"]

TyreNames ==
    Over(Plainly({"FrontLeft", "FrontRight", "RearLeft", "RearRight"}),
         [Fronts |-> "Fronts", Front |-> "Fronts", Rears |-> "Rears", Rear |-> "Rears",
          All |-> "AllFour"])

Modulations == [None |-> "None", Frequency |-> "Frequency",
                Amplitude |-> "Amplitude", Amplify |-> "Amplitude"]

-----------------------------------------------------------------------------
(* What kind of device an entry is.                                        *)

EntryKind(entry) == Lookup(DeviceClasses, Get(entry, "device", Get(entry, "type", "")))
UsbType(entry) == Lookup(UsbTypes, Get(entry, "type", ""))
SerialType(entry) == Lookup(SerialTypes, Get(entry, "type", ""))
HardwareOf(entry) == Lookup(Hardware, Get(entry, "subtype", ""))
DeviceEffect(entry) == Lookup(EffectNames, Get(entry, "effect", ""))

UsbUsesRevburner(entry) ==
    EntryKind(entry) = "USB" /\ UsbType(entry) \notin {"Wheel", "Haptic"}

SerialIs(entry, type) == EntryKind(entry) = "Serial" /\ SerialType(entry) = type
SimledScript(entry) == Get(entry, "config", "") \notin {"", "none"}
SerialWheelHardware(entry, models) == SerialIs(entry, "Wheel") /\ HardwareOf(entry) \in models
SoundEntry(entry) == EntryKind(entry) = "Sound" /\ DeviceEffect(entry) # Unset

UsbWheelEntry(entry) == EntryKind(entry) = "USB" /\ UsbType(entry) = "Wheel"
OpenedUsbHardware == {"G29", "C5", "C12", "GtNeo", "Csl", "P1000", "SimNet"}

\* The conditions consider_entry tries, no two of which hold of one entry; the
\* kinds are those of ProfileOpen.
ConsiderEntry(entry) ==
    CASE UsbUsesRevburner(entry) -> "Tach"
      [] SerialIs(entry, "ShiftLights") -> "ShiftLights"
      [] SerialIs(entry, "SimWind") -> "SimWind"
      [] SerialIs(entry, "Haptic") -> "SerialHaptic"
      [] SerialIs(entry, "Simleds") ->
             IF SimledScript(entry) THEN "SimLedCustom" ELSE "SimLed"
      [] SerialIs(entry, "Custom") -> "ArduinoCustom"
      [] SerialWheelHardware(entry, {"MozaNew", "MozaR5", "MozaKs"}) -> HardwareOf(entry)
      [] SoundEntry(entry) -> "Sound"
      [] UsbWheelEntry(entry) ->
             IF HardwareOf(entry) \in OpenedUsbHardware THEN HardwareOf(entry)
             ELSE "UnknownWheel"
      [] OTHER -> "Closed"

\* device_port: the serial port or the sink the host opens, the id before the path.
\* Of a USB entry neither is read: HID devices are opened by their vendor and
\* product, the first one found, and the CSL pedals by a search of sysfs.
DevicePort(entry) == Get(entry, "devid", Get(entry, "devpath", ""))

ConfigSource(entry) ==
    IF "config" \notin DOMAIN entry THEN "Unset"
    ELSE IF entry.config = "none" THEN "NamedNone" ELSE "File"

DeviceSkip(entry, disableAudio) ==
    Get(entry, "enabled", TRUE) = FALSE \/ (disableAudio /\ EntryKind(entry) = "Sound")

-----------------------------------------------------------------------------
(* The settings the kinds read.                                            *)

RequestedFps(entry) == Get(entry, "fps", 60)
ClampFps(fps) == Within(fps, 1, 1000)
IntervalMs(entry) == 1000 \div ClampFps(RequestedFps(entry))

ReadGranularity(entry) ==
    LET raw == Get(entry, "granularity", 0) IN IF raw \in {0, 1, 2, 4} THEN raw ELSE 1

SerialSetup(entry) ==
    [baud |-> Get(entry, "baud", 9600), ampfactor |-> Get(entry, "ampfactor", 1000),
     fanpower |-> Get(entry, "fanpower", 600)]

\* modulation_value, and parse_modulation's reasons to fall back to None.
ParseModulation(entry) ==
    LET value == Lookup(Modulations, Get(entry, "modulation", ""))
        frequency == Get(entry, "frequency", 0)
        frequencyMax == Get(entry, "frequencyMax", 0)
    IN  CASE "modulation" \notin DOMAIN entry -> "Missing"
          [] "modulation" \in DOMAIN entry /\ value = Unset -> "Invalid"
          [] value = "Frequency" /\ (frequencyMax = 0 \/ frequencyMax < frequency) ->
                 "FrequencyNeedsMax"
          [] OTHER -> value

ModulationValue(entry) ==
    LET parsed == ParseModulation(entry)
    IN  IF parsed \in {"Missing", "Invalid", "FrequencyNeedsMax"} THEN "None" ELSE parsed

EffectUsesTyre(effect) == effect \in {"TyreSlip", "TyreLock", "AbsBrakes", "Suspension"}

ConfiguredTyre(entry, effect) ==
    IF ~EffectUsesTyre(effect) \/ "tyre" \notin DOMAIN entry THEN "FrontLeft"
    ELSE Get(TyreNames, entry.tyre, "AllFour")

ConfiguredDuration(entry, effect) ==
    Get(entry, "duration", IF effect = "GearShift" THEN 125 ELSE 0)

\* csl_effect, the settings of the pedals' and the motors' effects.
HapticSettings(entry) ==
    LET effect == DeviceEffect(entry)
    IN  [effect |-> effect, tyre |-> ConfiguredTyre(entry, effect),
         threshold |-> Get(entry, "threshold", 0),
         frequency |-> Positive(Get(entry, "frequency", 0)),
         frequencyMax |-> Positive(Get(entry, "frequencyMax", 0)),
         amplitude |-> Positive(Get(entry, "amplitude", 100)),
         motor |-> Positive(Get(entry, "motors", 1)),
         duration |-> ConfiguredDuration(entry, effect),
         modulation |-> ModulationValue(entry)]

MostChannels == 8
ConfiguredChannels(entry) == Within(Get(entry, "channels", 1), 1, MostChannels)
ChannelMaskAll(channels) == 0 .. channels - 1
ClippedMask(mask, all) == IF mask \cap all = {} THEN all ELSE mask \cap all
PanMask(pan, all) == IF pan \in all THEN {pan} ELSE all

ChannelMask(entry) ==
    LET all == ChannelMaskAll(ConfiguredChannels(entry))
    IN  IF "channelMask" \in DOMAIN entry THEN ClippedMask(entry.channelMask, all)
        ELSE PanMask(Get(entry, "pan", -1), all)

ConfiguredVolume(entry) == Within(Get(entry, "streamVolume", Get(entry, "volume", 100)), 0, 100)

\* SoundSettings::read: a stream's amplitude is not the entry's.
SoundSettings(entry) ==
    Over([amplitude |-> 100, volume |-> ConfiguredVolume(entry),
          channels |-> ConfiguredChannels(entry), mask |-> ChannelMask(entry),
          noise |-> Get(entry, "noise", 0)],
         HapticSettings(entry))

-----------------------------------------------------------------------------
(* The stream of a sound entry: ShakerRequest, and what                    *)
(* connect_shaker_locked of transport.rs asks PulseAudio for.              *)

\* stream_node_name; no name is as long as NODE_NAME_MAX.
StreamNodeName(effect, tyre) ==
    [effect |-> effect, tyre |-> IF EffectUsesTyre(effect) THEN tyre ELSE Unset]

Playback(settings, sink) ==
    [sink |-> sink, node |-> StreamNodeName(settings.effect, settings.tyre),
     volume |-> settings.volume, channels |-> settings.channels, mask |-> settings.mask,
     gear |-> settings.effect = "GearShift"]

\* open_sound: an effect of the tyres is left out in a game without them.
NoRequest == [sink |-> Unset]
OpenSound(entry, supportsHaptics) ==
    IF EffectUsesTyre(DeviceEffect(entry)) /\ ~supportsHaptics THEN NoRequest
    ELSE Playback(SoundSettings(entry), DevicePort(entry))

\* sink_arg: no sink is PulseAudio's own choice.
SinkArg(sink) == IF sink = "" THEN Unset ELSE sink

\* active_channel_mask clips once more.
ActiveChannelMask(mask, channels) == ClippedMask(mask, ChannelMaskAll(channels))

\* shaker_volumes: the channels of the mask, the others muted.
ShakerVolumes(request) ==
    [c \in ChannelMaskAll(request.channels) |->
        IF c \in ActiveChannelMask(request.mask, request.channels) THEN request.volume ELSE 0]

\* shaker_channel_map, of the numbers of channels it has a map for.
FrontPair == <<"FL", "FR">>
RearPair == <<"RL", "RR">>
ShakerMap ==
    [channels \in {2, 4, 6, 8} |->
        FrontPair \o (IF channels >= 6 THEN <<"FC", "LFE">> ELSE <<>>)
            \o (IF channels >= 4 THEN RearPair ELSE <<>>)
            \o (IF channels = 8 THEN <<"SL", "SR">> ELSE <<>>)]

\* Where the host's stream of the entry is loud.
Loudspeakers(request) == {c \in DOMAIN ShakerVolumes(request) : ShakerVolumes(request)[c] > 0}

-----------------------------------------------------------------------------
(* The warnings of device_parse_notices.                                   *)

ClassOf(entry) == Lookup(DeviceClasses, Get(entry, "device", ""))

SubtypeNameOk(entry) ==
    CASE ClassOf(entry) = "USB" -> UsbType(entry) # Unset
      [] ClassOf(entry) = "Serial" -> SerialType(entry) # Unset
      [] OTHER -> ClassOf(entry) = "Sound"

UsesHapticSettings(entry) ==
    \/ ClassOf(entry) = "Sound"
    \/ ClassOf(entry) = "USB" /\ UsbType(entry) \in {"Wheel", "Haptic"}
    \/ ClassOf(entry) = "Serial" /\ SerialType(entry) = "Haptic"

DeviceClassWarning(entry) ==
    CASE ClassOf(entry) = Unset -> {"class"}
      [] ClassOf(entry) # Unset /\ "type" \in DOMAIN entry /\ ~SubtypeNameOk(entry) -> {"type"}
      [] OTHER -> IF ClassOf(entry) \in {"USB", "Serial"} /\ "subtype" \in DOMAIN entry
                         /\ HardwareOf(entry) = Unset
                  THEN {"hardware"} ELSE {}

EffectWarning(entry) ==
    IF "effect" \in DOMAIN entry /\ DeviceEffect(entry) = Unset THEN {"effect"} ELSE {}

ModulationWarning(entry) == {ParseModulation(entry)} \cap {"Invalid", "FrequencyNeedsMax"}

HapticSettingsWarnings(entry) ==
    IF UsesHapticSettings(entry) THEN EffectWarning(entry) \cup ModulationWarning(entry)
    ELSE {}

FpsWarning(entry) ==
    IF ~SubtypeNameOk(entry) \/ RequestedFps(entry) \in 1 .. 1000 THEN {} ELSE {"fps"}

DeviceParseWarnings(entry) ==
    DeviceClassWarning(entry) \cup FpsWarning(entry) \cup HapticSettingsWarnings(entry)
=============================================================================
