---------------------------- MODULE ConfigStore ----------------------------
(***************************************************************************)
(* The configuration file over the time that the TUI edits it and a        *)
(* session may read it: load_file, save_file and atomic_write of           *)
(* cargopit-config/src/config.rs, as app.rs (App::new, persist_config)     *)
(* uses them.  The TUI may be killed between any two steps, and power may  *)
(* fail; what was not synced is then cut off anywhere.                     *)
(*                                                                         *)
(* One TUI writes at a time: two would write through one temporary file.   *)
(***************************************************************************)
EXTENDS ConfigFile

CONSTANTS
    Documents,      \* texts a user has written
    Names,          \* profile names that are typed, "" too
    GivenValues,    \* values that are given to a device's key
    EditedKey,      \* that key
    MaxDevices,     \* devices of a profile to which one is added
    MaxEdits        \* edits between two saves

\* Of a text that cannot be read nothing is ever edited.
ASSUME ConfigStoreAssumption ==
    /\ {MaxDevices, MaxEdits} \subseteq Nat
    /\ \A document \in Documents : Readable(document)

VARIABLES
    file,           \* cargopit.config: its text, and whether it is on the disk
    temp,           \* the file that is renamed to it
    config,         \* the TUI's
    step,           \* where the TUI is
    edits,          \* since the last save
    written,        \* the texts the file may hold: before this save, and after
    first           \* the text the file began with

storeVars == <<file, temp, config, step, edits, written, first>>

Content(text, synced) == [text |-> text, synced |-> synced]
Missing == Content(<<>>, TRUE)
NoConfig == [profiles |-> <<>>, extra |-> <<>>]

\* load_file, in App::new: a file that cannot be read ends the TUI.
Start ==
    /\ step = "down" /\ step' = "edit"
    /\ Readable(file.text)
    /\ config' = ConfigOf(file.text)
    /\ edits' = 0
    /\ UNCHANGED <<file, temp, written, first>>

\* A profile is named, a device added, a key of a device set.
Edit ==
    /\ step = "edit" /\ edits < MaxEdits
    /\ edits' = edits + 1
    /\ \E i \in DOMAIN config.profiles :
          LET devices == config.profiles[i].devices IN
          \/ \E name \in Names : config' = [config EXCEPT !.profiles[i].name = name]
          \/ /\ Len(devices) < MaxDevices
             /\ config' = [config EXCEPT !.profiles[i].devices =
                              Append(devices, <<Setting("device", String("Sound"))>>)]
          \/ \E d \in DOMAIN devices, value \in GivenValues :
                config' = [config EXCEPT !.profiles[i].devices[d] =
                              GroupSet(@, EditedKey, value)]
    /\ UNCHANGED <<file, temp, step, written, first>>

\* save_file: what could not be read again is not written.
Save ==
    LET text == Render(ToValue(config)) IN
    /\ step = "edit" /\ step' = "create"
    /\ ParseDocument(text).ok
    /\ written' = {file.text, text} /\ edits' = 0
    /\ UNCHANGED <<file, temp, config, first>>

\* atomic_write: created, written, synced, renamed.
Create ==
    /\ step = "create" /\ step' = "write"
    /\ temp' = Content(<<>>, FALSE)
    /\ UNCHANGED <<file, config, written, first, edits>>

Write ==
    /\ step = "write" /\ step' = "sync"
    /\ temp' = Content(Render(ToValue(config)), FALSE)
    /\ UNCHANGED <<file, config, written, first, edits>>

\* The disk is full: the error is shown.  Whatever a temporary file is left
\* with, the next save makes it anew.
WriteFails ==
    /\ step = "write" /\ step' = "edit"
    /\ temp' = Missing
    /\ UNCHANGED <<file, config, written, first, edits>>

FaultSync ==
    /\ step = "sync" /\ step' = "rename"
    /\ UNCHANGED <<file, temp, config, written, first, edits>>

Sync ==
    /\ step = "sync" /\ step' = "rename"
    /\ temp' = [temp EXCEPT !.synced = TRUE]
    /\ UNCHANGED <<file, config, written, first, edits>>

Rename ==
    /\ step = "rename" /\ step' = "edit"
    /\ file' = temp
    /\ temp' = Missing
    /\ written' = {temp.text}
    /\ UNCHANGED <<config, first, edits>>

Killed ==
    /\ step # "down" /\ step' = "down"
    /\ config' = NoConfig /\ temp' = Missing
    /\ UNCHANGED <<file, written, first, edits>>

\* After a power failure.
Left(content) ==
    IF content.synced THEN {content}
    ELSE {Content(SubSeq(content.text, 1, n), TRUE) : n \in 0 .. Len(content.text)}
PowerFails ==
    /\ step' = "down"
    /\ config' = NoConfig /\ temp' = Missing
    /\ file' \in Left(file)
    /\ UNCHANGED <<written, first, edits>>

StoreInit ==
    /\ first \in Documents
    /\ file = Content(first, TRUE)
    /\ temp = Missing
    /\ config = NoConfig
    /\ step = "down"
    /\ written = {first}
    /\ edits = 0

StoreNext == Start \/ Edit \/ Save \/ Create \/ Write \/ WriteFails \/ Sync \/ Rename
          \/ Killed \/ PowerFails
StoreSpec == StoreInit /\ [][StoreNext]_storeVars

-----------------------------------------------------------------------------
(* Properties *)

\* docs/tui-device-management.md:199: a crash does not truncate the file.  It
\* holds what was saved last or is being saved, and that parses, whatever was
\* typed and wherever the TUI was killed or power failed (atomic_write,
\* save_file).
FileIsWhole == file.text \in written /\ ParseDocument(file.text).ok

\* docs/tui-device-management.md:237: unknown keys are preserved, with the kind
\* of their values, in the file, in every profile, and in every device, of which
\* only the key that was edited may differ; and a session that reads the file at
\* any time understands it (parse_cargopit, from_value and to_value).
Untouched(device) == GroupRemove(device, EditedKey)
SettingsKept ==
    LET was == ConfigOf(first)
        is == ConfigOf(file.text)
    IN /\ Readable(file.text)
       /\ is.extra = was.extra
       /\ \A i \in DOMAIN was.profiles :
             /\ is.profiles[i].extra = was.profiles[i].extra
             /\ \A d \in DOMAIN was.profiles[i].devices :
                   Untouched(is.profiles[i].devices[d]) = Untouched(was.profiles[i].devices[d])
=============================================================================
