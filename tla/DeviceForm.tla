----------------------------- MODULE DeviceForm -----------------------------
(***************************************************************************)
(* The TUI's device form: DeviceForm of tui/src/form.rs over the rules of  *)
(* schema.rs and DeviceEntry of cargopit-config's config.rs.  The form and *)
(* the host (HostEntry) each read the entry with code of their own, so     *)
(* what the form shows and accepts may differ from what the host does.     *)
(*                                                                         *)
(* A field is named by the key it edits (config_key): streamVolume is      *)
(* Volume, channelMask is Output.  The cursor may be on any visible field. *)
(***************************************************************************)
EXTENDS HostEntry, ShakerBoard, SequencesExt

CONSTANTS
    Discovered,     \* [class, path?] -> the identities Discovery offers
    Files,          \* the configuration files that exist
    Typed,          \* field -> the values typed into it
    EditedFields,   \* bound: the fields edited
    MaxEdits,       \* bound: the number of edits
    HandWritten     \* entries that were not made by the form

VARIABLES
    device,     \* DeviceForm::device
    slot,       \* output_slot: the speaker under the cursor
    isNew,      \* the entry was made by the form
    edits       \* edits made, bounded by MaxEdits

formVars == <<device, slot, isNew, edits>>

-----------------------------------------------------------------------------
(* DeviceEntry.                                                            *)

Set(entry, key, value) == Over([changed \in {key} |-> value], entry)
Without(entry, keys) == [key \in DOMAIN entry \ keys |-> entry[key]]

Class(entry) ==
    LET name == Get(entry, "device", "") IN IF name \in {"USB", "Serial"} THEN name ELSE "Sound"
TypeName(entry) == Get(entry, "type", "Haptic")
Identity(entry) == Get(entry, "devid", Get(entry, "devpath", ""))

Classes == <<"USB", "Sound", "Serial">>

-----------------------------------------------------------------------------
(* The rules of schema.rs.                                                 *)

Common == {"device", "type", "enabled", "fps"}
HapticBlock == {"effect", "modulation", "tyre", "frequency", "frequencyMax", "amplitude",
                "amplitudeMax", "threshold", "duration"}

SerialExtra ==
    [ShiftLights |-> {"numlights"}, SimWind |-> {"fanpower"}, Haptic |-> {"motors"},
     Wheel |-> {"subtype"}, Simleds |-> {"numleds", "startled", "endled", "config"},
     Custom |-> {"config"}]

TypeFields(class, type) ==
    CASE class = "USB" /\ type = "Tachometer" -> {"subtype", "devid", "granularity", "config"}
      [] class = "USB" /\ type # "Tachometer" -> {"subtype", "devid", "devpath"}
      [] class = "Sound" -> {"devid", "streamVolume", "channelMask", "channels", "noise"}
      [] class = "Serial" -> {"devpath", "baud", "ampfactor"} \cup SerialExtra[type]

HasHaptic(class, type) ==
    \/ class = "Sound"
    \/ class = "USB" /\ type \in {"Haptic", "Wheel"}
    \/ class = "Serial" /\ type = "Haptic"

VisibleFields(class, type) ==
    Common \cup TypeFields(class, type) \cup (IF HasHaptic(class, type) THEN HapticBlock ELSE {})

AllowedKeys(class, type) ==
    VisibleFields(class, type)
        \cup (IF class = "Sound" THEN {"volume", "streamVolume", "pan", "channelMask"} ELSE {})

TypesForClass(class) ==
    CASE class = "USB" -> <<"Tachometer", "Haptic", "Wheel">>
      [] class = "Sound" -> <<"Haptic">>
      [] class = "Serial" -> <<"ShiftLights", "SimWind", "Haptic", "Wheel", "Simleds", "Custom">>

DefaultType(class) == TypesForClass(class)[1]

SubtypesFor(class, type) ==
    CASE class = "USB" /\ type = "Tachometer" -> <<"Revburner">>
      [] class = "USB" /\ type # "Tachometer" ->
             <<"CammusC5", "CammusC12", "MozaR5", "MozaR8", "MozaR3", "MozaR9", "MozaNew",
               "CSLELITEV3PEDALS", "SIMAGICP1000PEDALS", "SIMAGICGTNEO", "LogitechG29",
               "MozaKSProWheel", "SIMNETPEDALS">>
      [] class = "Serial" /\ type = "Wheel" ->
             <<"MozaR9", "MozaNew", "MozaR5", "MozaKSProWheel">>
      [] OTHER -> <<>>

\* combo_choices, of the fields that are neither a class, a type nor a number.
ComboChoices(field, class, type) ==
    CASE field = "subtype" -> SubtypesFor(class, type)
      [] field = "effect" -> <<"Engine", "Gear", "ABS", "TyreSlip", "TyreLock", "Suspension">>
      [] field = "modulation" -> <<"None", "Frequency", "Amplitude">>
      [] field = "tyre" -> <<"FrontLeft", "FrontRight", "RearLeft", "RearRight", "Fronts",
                             "Rears", "All">>
      [] OTHER -> <<>>

NormalizeTypeName(class, raw) ==
    CASE class = "USB" ->
             IF raw = "Tachometer" THEN raw
             ELSE IF raw \in {"Wheel", "UsbWheel"} THEN "Wheel" ELSE "Haptic"
      [] class = "Sound" -> "Haptic"
      [] class = "Serial" ->
             IF raw \in {"Custom", "ArduinoCustom"} THEN "Custom"
             ELSE IF raw \in DOMAIN SerialExtra THEN raw ELSE "Haptic"

ShownType(entry) == NormalizeTypeName(Class(entry), TypeName(entry))
Fields(entry) == VisibleFields(Class(entry), ShownType(entry))

-----------------------------------------------------------------------------
(* The speakers of a sound device.                                         *)

SoundChannelCount(entry) == Within(Get(entry, "channels", 2), 1, MostChannels)

SoundResolveChannelMask(entry) ==
    LET all == ChannelMaskAll(SoundChannelCount(entry))
    IN  IF "channelMask" \in DOMAIN entry THEN ClippedMask(entry.channelMask, all)
        ELSE PanMask(Get(entry, "pan", -1), all)

SoundFirstChannel(mask) == CHOOSE c \in mask : \A d \in mask : c <= d

WriteSoundChannelMask(entry, mask) ==
    LET clipped == ClippedMask(mask, ChannelMaskAll(SoundChannelCount(entry)))
    IN  Set(Set(entry, "channelMask", clipped), "pan", SoundFirstChannel(clipped))

\* As clip_sound_output, but nothing is clipped.
FaultUnclipped(entry) == entry

ClipSoundOutput(entry) == WriteSoundChannelMask(entry, SoundResolveChannelMask(entry))

\* A speaker is turned on or off, but never the last one off.
ToggleSoundChannel(entry, index) ==
    LET mask == SoundResolveChannelMask(entry)
    IN  IF index >= SoundChannelCount(entry) \/ mask = {index} THEN entry
        ELSE WriteSoundChannelMask(entry, (mask \ {index}) \cup ({index} \ mask))

\* sound_channel_layout: the places the speakers' labels name.
SoundChannelLayout(channels) ==
    LET numbered == <<"1", "2", "3", "4", "5", "6", "7", "8">>
    IN  CASE channels = 1 -> <<"M">>
          [] channels = 2 -> <<"FL", "FR">>
          [] channels = 4 -> <<"FL", "FR", "RL", "RR">>
          [] channels = 6 -> <<"FL", "FR", "FC", "LFE", "RL", "RR">>
          [] channels = 8 -> <<"FL", "FR", "FC", "LFE", "RL", "RR", "SL", "SR">>
          [] OTHER -> numbered

\* MOTOR_LABELS, and motor_active: the motors lit for a position, the first one
\* for none.
MotorLabels ==
    <<{1}, {2}, {3}, {4}, {1, 4}, {2, 4}, {3, 4}, {1, 2}, {1, 3}, {2, 3}, {1, 2, 3, 4},
      {1, 2, 3}, {2, 3, 4}, {1, 2, 4}, {1, 3, 4}>>
MotorActive(entry) ==
    LET index == Get(entry, "motors", 0) IN MotorLabels[IF index \in 0 .. 14 THEN index + 1 ELSE 1]

ClampOutputSlot(at, entry) == Within(at, 0, SoundChannelCount(entry) - 1)

-----------------------------------------------------------------------------
(* Defaults and validity.                                                  *)

HapticDefaults ==
    [effect |-> "Engine", modulation |-> "Frequency", tyre |-> "All", frequency |-> 17,
     frequencyMax |-> 37, amplitude |-> 100, amplitudeMax |-> 100, threshold |-> 200,
     duration |-> 125]

SerialTypeDefaults ==
    [Wheel |-> [subtype |-> "MozaR9"], SimWind |-> [fanpower |-> 600],
     ShiftLights |-> [numlights |-> 6],
     Simleds |-> [numleds |-> 6, startled |-> 1, endled |-> 1]]

\* The keys apply_defaults sets one by one where the entry has none.
Defaults(class, type) ==
    Over([enabled |-> TRUE, fps |-> 60],
         CASE class = "USB" /\ type = "Tachometer" ->
                  [subtype |-> "Revburner", granularity |-> 1]
           [] class = "USB" /\ type # "Tachometer" -> [subtype |-> "CSLELITEV3PEDALS"]
           [] class = "Sound" -> [channels |-> 2, noise |-> 0]
           [] class = "Serial" ->
                  Over([baud |-> 9600, ampfactor |-> 1000], Get(SerialTypeDefaults, type, <<>>)))

Named(entry, class, type) ==
    IF class = "Sound" THEN Set(Without(entry, {"type"}), "device", class)
    ELSE Set(Set(entry, "device", class), "type", type)

Loud(entry) ==
    IF {"streamVolume", "volume"} \cap DOMAIN entry # {} THEN entry
    ELSE Set(Set(entry, "streamVolume", 70), "volume", 70)

Aimed(entry) ==
    IF {"channelMask", "pan"} \cap DOMAIN entry # {} THEN entry
    ELSE WriteSoundChannelMask(entry, ChannelMaskAll(2))

ApplyDefaults(entry, class, type) ==
    LET filled == Over(Named(entry, class, type), Defaults(class, type))
        heard == IF class = "Sound" THEN Aimed(Loud(filled)) ELSE filled
    IN  IF HasHaptic(class, type) /\ "effect" \notin DOMAIN entry
        THEN Over(HapticDefaults, heard) ELSE heard

IdentityEmpty(entry) ==
    CASE Class(entry) = "Serial" -> Get(entry, "devpath", "") = ""
      [] Class(entry) = "Sound" -> Get(entry, "devid", "") = ""
      [] Class(entry) = "USB" ->
             Get(entry, "devid", "") = "" /\ Get(entry, "devpath", "") = ""

\* As validate, but a range of frequencies may be empty.
FaultValidate(entry) == ~IdentityEmpty(entry)

Validate(entry) ==
    /\ ShownType(entry) \in ToSet(TypesForClass(Class(entry)))
    /\ ~IdentityEmpty(entry)
    /\ ShownType(entry) = "Tachometer" => Get(entry, "granularity", 1) \in {1, 2, 4}
    /\ ShownType(entry) \in {"Tachometer", "Simleds", "Custom"} =>
           Get(entry, "config", "") \in Files
    /\ Class(entry) = "Sound" =>
           Get(entry, "streamVolume", Get(entry, "volume", 70)) \in 0 .. 100
    /\ Get(entry, "modulation", "None") = "Frequency" =>
           Get(entry, "frequencyMax", 0) > Get(entry, "frequency", 0)

-----------------------------------------------------------------------------
(* What the form does to the entry (form.rs).                              *)

\* As restore_compatible, but every setting is restored.
FaultRestoreAll(extra, next, class, type) == ApplyDefaults(Over(extra, next), class, type)

\* The settings the new class and type also have are kept.
RestoreCompatible(extra, next, class, type) ==
    ApplyDefaults(Over(Without(extra, DOMAIN extra \ AllowedKeys(class, type)), next), class, type)

Rebuilt(entry, class, type) ==
    RestoreCompatible(entry, ApplyDefaults(<<>>, class, type), class, type)

ChangeClass(entry, class) ==
    LET next == Rebuilt(entry, class, DefaultType(class))
    IN  IF Identity(entry) = "" THEN next
        ELSE Set(next, IF class = "Serial" THEN "devpath" ELSE "devid", Identity(entry))

ChangeType(entry, type) == Rebuilt(entry, Class(entry), type)

\* The item delta after the current one; an unknown one counts as the first.
CycleSlice(items, current, delta) ==
    LET known == \E i \in DOMAIN items : items[i] = current
        index == IF known THEN CHOOSE i \in DOMAIN items : items[i] = current ELSE 1
    IN  items[((index - 1 + delta) % Len(items)) + 1]

IsOptional(field) == field \notin {"device", "type", "enabled"}

ClearField(entry, field) ==
    CASE field = "streamVolume" -> Without(entry, {"streamVolume", "volume"})
      [] field = "channelMask" ->
             WriteSoundChannelMask(entry, ChannelMaskAll(SoundChannelCount(entry)))
      [] OTHER -> IF IsOptional(field) THEN Without(entry, {field}) ELSE entry

ClearCurrent(entry, field) ==
    IF field = "channels" THEN ClipSoundOutput(ClearField(entry, field))
    ELSE ClearField(entry, field)

\* A combo whose blank item clears the field.
NextCombo(entry, field, choices, blank, delta) ==
    LET next == CycleSlice(<<blank>> \o choices, Get(entry, field, blank), delta)
    IN  IF next = blank THEN ClearCurrent(entry, field) ELSE Set(entry, field, next)

CycleGranularity(entry, delta) == NextCombo(entry, "granularity", <<1, 2, 4>>, 0, delta)
CycleMotors(entry, delta) ==
    LET index == IF Get(entry, "motors", 0) \in 0 .. 14 THEN Get(entry, "motors", -1) ELSE 0
    IN  NextCombo(IF index = -1 THEN entry ELSE Set(entry, "motors", index), "motors",
                  [i \in 1 .. 15 |-> i - 1], -1, delta)

CycleChannels(entry, delta) ==
    LET next == NextCombo(entry, "channels", <<1, 2, 4, 6, 8>>, 0, delta)
    IN  ClipSoundOutput(next)

\* Identities are those Discovery finds now, so any of them may be the next.
CycleIdentity(entry, field) ==
    {Set(entry, field, value) : value \in Discovered[<<Class(entry), field = "devpath">>]}
        \cup {Without(entry, {field})}

WithVolume(entry, volume) ==
    Set(Set(entry, "streamVolume", Within(volume, 0, 100)), "volume", Within(volume, 0, 100))

Numeric == {"fps", "baud", "numlights", "numleds", "startled", "endled", "noise", "frequency",
            "frequencyMax", "amplitude", "amplitudeMax"}
Fractions == {"ampfactor", "fanpower", "threshold", "duration"}

\* The keys whose values are read as numbers, and the fields begin_edit opens no
\* text for (is_combo, but the granularity).
Quantities ==
    Numeric \cup Fractions \cup {"granularity", "channels", "motors", "streamVolume", "volume"}
Combos == {"device", "type", "subtype", "enabled", "effect", "modulation", "tyre", "motors",
           "channels", "channelMask"}

IsEntry(entry) == \A key \in DOMAIN entry \cap Quantities : entry[key] \in Int

\* No path is a file if it is empty; "none" stands for no file to the host.
ASSUME DeviceFormAssumption ==
    /\ {"", "none"} \cap Files = {}
    /\ DOMAIN Typed \cap Combos = {}
    /\ \A field \in DOMAIN Typed \cap Quantities : Typed[field] \subseteq Int
    /\ \A entry \in HandWritten : IsEntry(entry)

Nudged(entry, field, delta, large) ==
    LET step == IF large THEN 5 ELSE 1
        fraction == IF large THEN 200 ELSE 50
    IN  CASE field \in Fractions ->
                 Set(entry, field, Positive(Get(entry, field, 0) + fraction * delta))
          [] field = "streamVolume" ->
                 WithVolume(entry, Get(entry, "streamVolume", Get(entry, "volume", 70))
                                       + step * delta)
          [] OTHER -> Set(entry, field, Positive(Get(entry, field, 0) + step * delta))

\* commit_edit of what was typed; an empty text clears the field.
ApplyTyped(entry, field, value) ==
    IF field = "streamVolume" THEN WithVolume(entry, value) ELSE Set(entry, field, value)

\* cycle_current, except of Output: the entries a step of delta may lead to.
Cycled(entry, field, delta) ==
    LET class == Class(entry)
        type == ShownType(entry)
        choices == ComboChoices(field, class, type)
    IN  CASE field = "enabled" -> {Set(entry, field, ~Get(entry, field, TRUE))}
          [] field = "granularity" -> {CycleGranularity(entry, delta)}
          [] field = "channels" -> {CycleChannels(entry, delta)}
          [] field = "motors" -> {CycleMotors(entry, delta)}
          [] field \in {"devid", "devpath"} -> CycleIdentity(entry, field)
          [] field \in Numeric \cup Fractions \cup {"streamVolume"} ->
                 {Nudged(entry, field, delta, FALSE)}
          [] field = "device" -> {ChangeClass(entry, CycleSlice(Classes, class, delta))}
          [] field = "type" -> {ChangeType(entry, CycleSlice(TypesForClass(class), type, delta))}
          [] choices # <<>> -> {NextCombo(entry, field, choices, "", delta)}
          [] OTHER -> {entry}

-----------------------------------------------------------------------------
(* The form in use.  It opens on a new entry, which the user has given a   *)
(* class and a type once or twice, or on one of the file.                  *)

Blank == ApplyDefaults(<<>>, "Sound", "Haptic")

Picked(entries) ==
    UNION {{ChangeType(ChangeClass(entry, class), type) : type \in ToSet(TypesForClass(class))} :
               entry \in entries, class \in ToSet(Classes)}

NewEntries == {Blank} \cup Picked({Blank}) \cup Picked(Picked({Blank}))

FormInit ==
    /\ isNew \in BOOLEAN
    /\ device \in IF isNew THEN NewEntries ELSE HandWritten
    /\ slot = SoundFirstChannel(SoundResolveChannelMask(device))
    /\ edits = 0

Edits(field) == field \in Fields(device) \cap EditedFields /\ edits < MaxEdits

Becomes(entry, at) ==
    /\ device' = entry
    /\ slot' = at
    /\ edits' = edits + 1
    /\ isNew' = isNew

CycleCurrent(field, delta) ==
    /\ Edits(field) /\ field # "channelMask"
    /\ \E entry \in Cycled(device, field, delta) :
           Becomes(entry, IF field \in {"device", "type"} THEN 0 ELSE ClampOutputSlot(slot, entry))

MoveOutputSlot(delta) ==
    /\ Edits("channelMask")
    /\ Becomes(device, (ClampOutputSlot(slot, device) + delta) % SoundChannelCount(device))

ToggleOutput ==
    LET at == ClampOutputSlot(slot, device)
    IN  Edits("channelMask") /\ Becomes(ToggleSoundChannel(device, at), at)

Clear(field) ==
    /\ Edits(field)
    /\ LET entry == ClearCurrent(device, field) IN Becomes(entry, ClampOutputSlot(slot, entry))

NudgeLarge(field, delta) ==
    /\ Edits(field) /\ field \in Numeric \cup Fractions \cup {"streamVolume", "granularity"}
    /\ Becomes(Nudged(device, field, delta, TRUE), slot)

\* begin_edit to commit_edit; a cancelled edit leaves the entry alone.
CommitEdit(field) ==
    /\ Edits(field) /\ field \in DOMAIN Typed
    /\ \E value \in Typed[field] : Becomes(ApplyTyped(device, field, value), slot)

FormNext ==
    \/ \E field \in EditedFields :
           \/ \E delta \in {-1, 1} : CycleCurrent(field, delta) \/ NudgeLarge(field, delta)
           \/ Clear(field) \/ CommitEdit(field)
    \/ (\E delta \in {-1, 1} : MoveOutputSlot(delta)) \/ ToggleOutput

FormSpec == FormInit /\ [][FormNext]_formVars

-----------------------------------------------------------------------------
(* Properties.                                                             *)

\* The form, the sample configuration and the manual offer a USB Haptic device, but
\* consider_entry has no kind for one: it warns and leaves the slot empty.
NeverOpened == Class(device) = "USB" /\ ShownType(device) = "Haptic"

OpensAs(class, type) ==
    CASE class = "USB" /\ type = "Tachometer" -> {"Tach"}
      [] class = "USB" /\ type = "Wheel" -> OpenedUsbHardware \cup {"UnknownWheel"}
      [] class = "Sound" -> {"Sound"}
      [] class = "Serial" ->
             CASE type = "Haptic" -> {"SerialHaptic"}
               [] type = "Wheel" -> {"MozaNew", "MozaR5", "MozaKs"}
               [] type = "Simleds" -> {"SimLedCustom"}
               [] type = "Custom" -> {"ArduinoCustom"}
               [] OTHER -> {type}

\* The effect of a sound and the hardware of a serial wheel may be cleared.
LacksPart ==
    \/ Class(device) = "Sound" /\ "effect" \notin DOMAIN device
    \/ Class(device) = "Serial" /\ ShownType(device) = "Wheel" /\ "subtype" \notin DOMAIN device

\* An entry the form made and accepts is opened by the host as a device of the
\* class and type the form shows, whatever classes and types it went through:
\* change_class and change_type carry over no setting that names another kind.
\* A USB Haptic entry is left out: the host opens none of them (NeverOpened).
KindAsShown ==
    isNew /\ Validate(device) /\ ~NeverOpened =>
        \/ ConsiderEntry(device) \in OpensAs(Class(device), ShownType(device))
        \/ LacksPart /\ ConsiderEntry(device) = "Closed"

\* The host opens the port the form shows: it takes the id before the path
\* (device_port), so no id may be left behind in an entry that shows a path; and
\* a stream goes to the sink of the form, never to PulseAudio's own choice.
\* Nothing is said of USB devices, which the host finds by their model: it reads
\* neither the id nor the path the form shows for them.
PortAsShown ==
    isNew /\ Validate(device) =>
        /\ Class(device) = "Serial" => DevicePort(device) = Get(device, "devpath", "")
        /\ Class(device) = "Sound" => SinkArg(OpenSound(device, TRUE).sink) = device.devid

\* What the form shows, and accepts, is what the host opens and, for a serial port
\* or a sink, where: its kind (KindAsShown) and its port (PortAsShown).
OpenedAsShown == KindAsShown /\ PortAsShown

\* Where the number of channels is set, the host's stream is loud on the speakers
\* the form shows: the numbers (channel_mask, shaker_volumes) and the places they
\* stand for (shaker_channel_map against the form's labels).  Where the motors
\* are, and name a position, the shaker board drives those of its two motors that
\* the form shows.  The old pan the form writes beside the mask is its first channel.
OutputsAsShown ==
    LET shown == SoundResolveChannelMask(device)
        request == OpenSound(device, TRUE)
        Places(layout, channels) == {layout[c + 1] : c \in channels}
    IN  /\ Class(device) = "Sound" /\ "channels" \in DOMAIN device =>
               /\ Loudspeakers(request) = IF ConfiguredVolume(device) > 0 THEN shown ELSE {}
               /\ request.channels \in DOMAIN ShakerMap =>
                      Places(ShakerMap[request.channels], ActiveChannelMask(request.mask,
                                                                            request.channels))
                          = Places(SoundChannelLayout(SoundChannelCount(device)), shown)
               /\ isNew => device.pan = SoundFirstChannel(shown)
        /\ ("motors" \in DOMAIN device /\ device.motors < Len(MotorLabels)
               /\ ShownType(device) = "Haptic" /\ Class(device) = "Serial") =>
               Driven(HapticSettings(device).motor) = MotorActive(device) \cap {1, 3}

\* What the form accepts the host does not warn of and replace: every name is in
\* a table of the host, and a frequency modulation has its range.  A negative
\* frequency is left out, and the rate, which the host bounds.
NothingFallsBack ==
    isNew /\ Validate(device) /\ Get(device, "frequency", 0) >= 0 =>
        DeviceParseWarnings(device) \subseteq {"fps"}
=============================================================================
