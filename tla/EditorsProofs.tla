---------------------------- MODULE EditorsProofs ----------------------------
(***************************************************************************)
(* What is edited survives, for every config, all devices, templates,      *)
(* flags and games, and any number of changes.                             *)
(***************************************************************************)
EXTENDS Editors, SequenceTheorems, TLAPS

-----------------------------------------------------------------------------
(* Lists *)

LEMMA SeqIsList ==
  ASSUME NEW S, NEW s \in Seq(S)
  PROVE  IsList(s) /\ Range(s) \subseteq S
<1>1. PICK n \in Nat : n = Len(s) /\ DOMAIN s = 1 .. n /\ s = [i \in 1 .. n |-> s[i]]
  BY LenProperties
<1>2. \A i \in 1 .. n : s[i] \in Range(s)
  BY <1>1 DEF Range
<1>3. [i \in 1 .. n |-> s[i]] \in Seq(Range(s))
  BY <1>2
<1>4. \A i \in 1 .. n : s[i] \in S
  BY <1>1, ElementOfSeq
<1> QED
  BY <1>1, <1>3, <1>4 DEF IsList, Range

\* A list is a sequence of what it lists, and of more.
LEMMA ListIsSeq ==
  ASSUME NEW s, IsList(s), NEW S, Range(s) \subseteq S
  PROVE  s \in Seq(S)
BY SeqMonotonic DEF IsList

LEMMA ListLength ==
  ASSUME NEW s, IsList(s)
  PROVE  Len(s) \in Nat /\ DOMAIN s = 1 .. Len(s)
BY LenProperties DEF IsList

LEMMA AppendIsList ==
  ASSUME NEW s, IsList(s), NEW e
  PROVE  /\ IsList(Append(s, e)) /\ Append(s, e) # <<>>
         /\ Len(Append(s, e)) = Len(s) + 1 /\ DOMAIN Append(s, e) = 1 .. Len(s) + 1
         /\ \A i \in DOMAIN s : Append(s, e)[i] = s[i]
         /\ Append(s, e)[Len(s) + 1] = e
         /\ Range(Append(s, e)) \subseteq Range(s) \cup {e}
<1> DEFINE S == Range(s) \cup {e}
<1>1. s \in Seq(S) /\ e \in S
  BY ListIsSeq
<1> HIDE DEF S
<1>2. /\ Append(s, e) \in Seq(S) /\ Append(s, e) # <<>>
      /\ Len(Append(s, e)) = Len(s) + 1
      /\ \A i \in 1 .. Len(s) : Append(s, e)[i] = s[i]
      /\ Append(s, e)[Len(s) + 1] = e
  BY <1>1, AppendProperties
<1>3. DOMAIN s = 1 .. Len(s)
  BY ListLength
<1>4. IsList(Append(s, e)) /\ Range(Append(s, e)) \subseteq S
  BY <1>2, SeqIsList
<1>5. DOMAIN Append(s, e) = 1 .. Len(s) + 1
  BY <1>2, <1>4, ListLength
<1> QED
  BY <1>2, <1>3, <1>4, <1>5 DEF S

LEMMA ConcatIsList ==
  ASSUME NEW s, IsList(s), NEW t, IsList(t)
  PROVE  IsList(s \o t) /\ Range(s \o t) \subseteq Range(s) \cup Range(t)
<1> DEFINE S == Range(s) \cup Range(t)
<1>1. s \in Seq(S) /\ t \in Seq(S)
  BY ListIsSeq
<1> HIDE DEF S
<1>2. IsList(s \o t) /\ Range(s \o t) \subseteq S
  BY <1>1, ConcatProperties, SeqIsList
<1> QED
  BY <1>2 DEF S

LEMMA ExceptIsList ==
  ASSUME NEW s, IsList(s), NEW i \in DOMAIN s, NEW e
  PROVE  /\ IsList([s EXCEPT ![i] = e]) /\ Len([s EXCEPT ![i] = e]) = Len(s)
         /\ DOMAIN [s EXCEPT ![i] = e] = DOMAIN s /\ [s EXCEPT ![i] = e][i] = e
         /\ Range([s EXCEPT ![i] = e]) \subseteq Range(s) \cup {e}
<1> DEFINE S == Range(s) \cup {e}
<1>1. s \in Seq(S) /\ e \in S
  BY ListIsSeq
<1> HIDE DEF S
<1>2. i \in 1 .. Len(s)
  BY ListLength
<1>3. PICK d : d = [s EXCEPT ![i] = e]
  OBVIOUS
<1>4. d \in Seq(S) /\ Len(d) = Len(s) /\ DOMAIN d = DOMAIN s /\ d[i] = e
  BY <1>1, <1>2, <1>3, ExceptSeq, ListLength
<1>5. IsList(d) /\ Range(d) \subseteq S
  BY <1>4, SeqIsList
<1> QED
  BY <1>3, <1>4, <1>5 DEF S

\* The parts of a list are lists.
LEMMA PartIsSeq ==
  ASSUME NEW S, NEW s \in Seq(S), NEW m \in Nat \ {0}, NEW n \in Int, n <= Len(s)
  PROVE  SubSeq(s, m, n) \in Seq(S) /\ Len(SubSeq(s, m, n)) = IF m <= n THEN n - m + 1 ELSE 0
<1>1. \A j \in m .. n : j \in 1 .. Len(s)
  BY LenProperties
<1>2. \A j \in m .. n : s[j] \in S
  BY <1>1, ElementOfSeq
<1>3. m \in Int /\ n \in Int
  OBVIOUS
<1> QED
  BY <1>2, <1>3, SubSeqProperties

LEMMA RemoveAtIsList ==
  ASSUME NEW s, IsList(s), NEW i \in DOMAIN s
  PROVE  /\ IsList(RemoveAt(s, i)) /\ Len(RemoveAt(s, i)) = Len(s) - 1
         /\ Range(RemoveAt(s, i)) \subseteq Range(s)
<1> DEFINE S == Range(s)
<1>1. s \in Seq(S) /\ i \in 1 .. Len(s) /\ Len(s) \in Nat
  BY ListIsSeq, ListLength
<1> HIDE DEF S
<1>2. SubSeq(s, 1, i - 1) \in Seq(S) /\ Len(SubSeq(s, 1, i - 1)) = i - 1
  BY <1>1, PartIsSeq
<1>3. SubSeq(s, i + 1, Len(s)) \in Seq(S) /\ Len(SubSeq(s, i + 1, Len(s))) = Len(s) - i
  BY <1>1, PartIsSeq
<1>4. RemoveAt(s, i) \in Seq(S) /\ Len(RemoveAt(s, i)) = Len(s) - 1
  <2>1. PICK a, b : /\ a = SubSeq(s, 1, i - 1) /\ b = SubSeq(s, i + 1, Len(s))
                    /\ a \in Seq(S) /\ b \in Seq(S) /\ Len(a) = i - 1 /\ Len(b) = Len(s) - i
    BY <1>2, <1>3
  <2>2. a \o b \in Seq(S) /\ Len(a \o b) = Len(a) + Len(b)
    BY <2>1, ConcatProperties
  <2>3. RemoveAt(s, i) = a \o b
    BY <2>1 DEF RemoveAt
  <2>4. Len(a) + Len(b) = Len(s) - 1
    <3>1. PICK n \in Nat : n = Len(s)
      BY <1>1
    <3>2. i \in Int /\ Len(a) = i - 1 /\ Len(b) = n - i
      BY <1>1, <2>1, <3>1
    <3>3. (i - 1) + (n - i) = n - 1
      BY <3>2
    <3> QED
      BY <3>1, <3>2, <3>3
  <2> QED
    BY ONLY <2>2, <2>3, <2>4
<1> QED
  BY <1>4, SeqIsList DEF S

LEMMA InsertAtIsList ==
  ASSUME NEW s, IsList(s), NEW i \in 1 .. Len(s) + 1, NEW e
  PROVE  IsList(InsertAt(s, i, e)) /\ Range(InsertAt(s, i, e)) \subseteq Range(s) \cup {e}
<1> DEFINE S == Range(s) \cup {e}
<1>1. s \in Seq(S) /\ e \in S /\ Len(s) \in Nat
  BY ListIsSeq, ListLength
<1> HIDE DEF S
<1>2. SubSeq(s, 1, i - 1) \in Seq(S) /\ SubSeq(s, i, Len(s)) \in Seq(S) /\ <<e>> \in Seq(S)
  BY <1>1, PartIsSeq
<1>3. SubSeq(s, 1, i - 1) \o <<e>> \in Seq(S)
  BY <1>2, ConcatProperties
<1>4. (SubSeq(s, 1, i - 1) \o <<e>>) \o SubSeq(s, i, Len(s)) \in Seq(S)
  BY <1>2, <1>3, ConcatProperties
<1>5. InsertAt(s, i, e) \in Seq(S)
  BY <1>4 DEF InsertAt
<1> QED
  BY <1>5, SeqIsList DEF S

\* Every element of a list of devices is one.
LEMMA DevicesAre ==
  ASSUME NEW s
  PROVE  IsDevices(s) <=> IsList(s) /\ \A entry \in Range(s) : IsDevice(entry)
BY DEF IsDevices, Range

-----------------------------------------------------------------------------
(* The config *)

\* Where the cursor is there is a profile, and what the files held is kept.
ConfigInv == IsConfig(config) /\ IsConfig(file) /\ profileIndex \in DOMAIN config
StateInv ==
    /\ state \in [flags : Flags, byGame : [Games -> Flags \cup {NoFlags}], game : Games,
                  profile : Nat \ {0}]
    /\ stateFile \in [flags : Flags, byGame : [Games -> Flags \cup {NoFlags}], game : Games,
                      profile : Nat \ {0}]

LEMMA ConfigFacts ==
  ASSUME NEW c, IsConfig(c)
  PROVE  Len(c) \in Nat \ {0} /\ DOMAIN c = 1 .. Len(c)
<1>1. Len(c) \in Nat /\ DOMAIN c = 1 .. Len(c) /\ c # <<>> /\ IsList(c)
  BY ListLength DEF IsConfig
<1> QED
  BY <1>1, EmptySeq DEF IsList

\* A profile that takes another's place.
LEMMA ProfileReplaced ==
  ASSUME NEW c, IsConfig(c), NEW i \in DOMAIN c, NEW p, IsProfile(p)
  PROVE  /\ IsConfig([c EXCEPT ![i] = p]) /\ DOMAIN [c EXCEPT ![i] = p] = DOMAIN c
         /\ [c EXCEPT ![i] = p][i] = p
<1>1. IsList(c) /\ \A j \in DOMAIN c : IsProfile(c[j])
  BY DEF IsConfig
<1>2. PICK d : d = [c EXCEPT ![i] = p]
  OBVIOUS
<1>3. IsList(d) /\ DOMAIN d = DOMAIN c /\ d[i] = p
  BY <1>1, <1>2, ExceptIsList
<1>4. \A j \in DOMAIN c : d[j] = IF j = i THEN p ELSE c[j]
  BY <1>2
<1>5. d # <<>>
  BY <1>3
<1> QED
  BY <1>1, <1>2, <1>3, <1>4, <1>5 DEF IsConfig

LEMMA DevicesSet ==
  ASSUME ConfigInv, NEW devices, IsDevices(devices)
  PROVE  /\ IsConfig(SetDevices(devices)) /\ DOMAIN SetDevices(devices) = DOMAIN config
         /\ SetDevices(devices)[profileIndex].devices = devices
<1>1. IsConfig(config) /\ profileIndex \in DOMAIN config
  BY DEF ConfigInv
<1>2. PICK p : p = config[profileIndex] /\ IsProfile(p)
  BY <1>1 DEF IsConfig
<1>3. PICK q : q = [p EXCEPT !.devices = devices]
  OBVIOUS
<1>4. DOMAIN p = {"name", "devices"} /\ p.name \in Names
  BY <1>2 DEF IsProfile
<1>5. DOMAIN q = {"name", "devices"} /\ q.name = p.name /\ q.devices = devices
  BY <1>3, <1>4
<1>6. IsProfile(q)
  BY <1>4, <1>5 DEF IsProfile
<1>7. SetDevices(devices) = [config EXCEPT ![profileIndex] = q]
  BY <1>2, <1>3 DEF SetDevices
<1>8. PICK d : d = [config EXCEPT ![profileIndex] = q]
  OBVIOUS
<1>9. IsConfig(d) /\ DOMAIN d = DOMAIN config /\ d[profileIndex] = q
  BY <1>1, <1>6, <1>8, ProfileReplaced
<1> QED
  BY <1>5, <1>7, <1>8, <1>9

LEMMA ProfileRenamed ==
  ASSUME ConfigInv, NEW name \in Names
  PROVE  /\ IsConfig([config EXCEPT ![profileIndex].name = name])
         /\ DOMAIN [config EXCEPT ![profileIndex].name = name] = DOMAIN config
<1>1. IsConfig(config) /\ profileIndex \in DOMAIN config
  BY DEF ConfigInv
<1>2. PICK p : p = config[profileIndex] /\ IsProfile(p)
  BY <1>1 DEF IsConfig
<1>3. PICK q : q = [p EXCEPT !.name = name]
  OBVIOUS
<1>4. DOMAIN p = {"name", "devices"} /\ IsDevices(p.devices)
  BY <1>2 DEF IsProfile
<1>5. DOMAIN q = {"name", "devices"} /\ q.name = name /\ q.devices = p.devices
  BY <1>3, <1>4
<1>6. IsProfile(q)
  BY <1>4, <1>5 DEF IsProfile
<1>7. [config EXCEPT ![profileIndex].name = name] = [config EXCEPT ![profileIndex] = q]
  BY <1>2, <1>3
<1> QED
  BY <1>1, <1>6, <1>7, ProfileReplaced

LEMMA ProfileAppended ==
  ASSUME NEW c, IsConfig(c), NEW p, IsProfile(p)
  PROVE  IsConfig(Append(c, p)) /\ DOMAIN Append(c, p) = 1 .. Len(c) + 1
<1>1. IsList(c) /\ \A j \in DOMAIN c : IsProfile(c[j])
  BY DEF IsConfig
<1>2. PICK d : d = Append(c, p)
  OBVIOUS
<1>3. /\ IsList(d) /\ d # <<>> /\ DOMAIN d = 1 .. Len(c) + 1 /\ Len(c) \in Nat
      /\ DOMAIN c = 1 .. Len(c)
      /\ (\A i \in DOMAIN c : d[i] = c[i]) /\ d[Len(c) + 1] = p
  BY <1>1, <1>2, AppendIsList, ListLength
<1>4. \A i \in DOMAIN d : i \in DOMAIN c \/ i = Len(c) + 1
  BY <1>3
<1>5. \A i \in DOMAIN d : IsProfile(d[i])
  BY <1>1, <1>3, <1>4
<1> QED
  BY <1>2, <1>3, <1>5 DEF IsConfig

LEMMA ProfileRemoved ==
  ASSUME NEW c, IsConfig(c), NEW i \in DOMAIN c, Len(c) > 1
  PROVE  IsConfig(RemoveAt(c, i)) /\ DOMAIN RemoveAt(c, i) = 1 .. Len(c) - 1
<1>1. IsList(c) /\ (\A j \in DOMAIN c : IsProfile(c[j])) /\ Len(c) \in Nat
  BY ListLength DEF IsConfig
<1>2. PICK d : d = RemoveAt(c, i)
  OBVIOUS
<1>3. /\ IsList(d) /\ Len(d) = Len(c) - 1 /\ Range(d) \subseteq Range(c)
  BY <1>1, <1>2, RemoveAtIsList
<1>4. DOMAIN d = 1 .. Len(c) - 1 /\ d # <<>>
  BY <1>1, <1>3, ListLength
<1>5. \A j \in DOMAIN d : IsProfile(d[j])
  BY <1>1, <1>3 DEF Range
<1> QED
  BY <1>2, <1>3, <1>4, <1>5 DEF IsConfig

LEMMA Persisted ==
  ASSUME ConfigInv, NEW c, IsConfig(c), PersistConfig(c)
  PROVE  IsConfig(config') /\ IsConfig(file') /\ config' = c
BY DEF ConfigInv, PersistConfig

LEMMA CurrentIsList ==
  ASSUME ConfigInv
  PROVE  /\ IsList(Current) /\ Len(Current) \in Nat /\ DOMAIN Current = 1 .. Len(Current)
         /\ IsDevices(Current) /\ \A entry \in Range(Current) : IsDevice(entry)
<1>1. IsProfile(Profile)
  BY DEF ConfigInv, IsConfig, Profile
<1>2. IsDevices(Current)
  BY <1>1 DEF IsProfile, Current
<1> QED
  BY <1>2, ListLength, DevicesAre

\* A list of devices saved in the cursor's profile.
LEMMA DevicesSaved ==
  ASSUME ConfigInv, NEW devices, IsDevices(devices), PersistConfig(SetDevices(devices)),
         profileIndex' = profileIndex
  PROVE  ConfigInv' /\ Current' = devices
<1>1. PICK c : /\ c = SetDevices(devices) /\ IsConfig(c) /\ DOMAIN c = DOMAIN config
               /\ c[profileIndex].devices = devices
  BY DevicesSet
<1>2. IsConfig(config') /\ IsConfig(file') /\ config' = c
  BY <1>1, Persisted
<1> QED
  BY <1>1, <1>2 DEF ConfigInv, Current, Profile

\* What commit_form stores; a new device goes under the cursor.
LEMMA Committed ==
  ASSUME ConfigInv, CommitForm, form.isNew \in BOOLEAN, "isNew" \in DOMAIN form,
         {"device", "original", "isNew", "typing"} = DOMAIN form, IsDevice(form.device)
  PROVE  /\ ConfigInv' /\ profileIndex' = profileIndex
         /\ DOMAIN form' = DOMAIN form /\ ~form'.isNew /\ form'.typing = form.typing
         /\ form'.device = form.device /\ form'.original = form.device
         /\ form.isNew \/ HasDevice => FormIsStored'
<1>1. PICK devices :
         devices = CASE form.isNew -> Append(Current, form.device)
                     [] ~form.isNew /\ HasDevice -> [Current EXCEPT ![deviceIndex] = form.device]
                     [] OTHER -> Current
  OBVIOUS
<1>2. /\ PersistConfig(SetDevices(devices)) /\ form' = Saved(form) /\ profileIndex' = profileIndex
      /\ deviceIndex' = IF form.isNew THEN Len(Current) + 1 ELSE deviceIndex
  BY <1>1 DEF CommitForm
<1>3. /\ IsList(Current) /\ Len(Current) \in Nat /\ DOMAIN Current = 1 .. Len(Current)
      /\ IsDevices(Current) /\ \A entry \in Range(Current) : IsDevice(entry)
  BY CurrentIsList
<1>4. /\ IsDevices(devices)
      /\ form.isNew \/ HasDevice =>
            deviceIndex' \in DOMAIN devices /\ devices[deviceIndex'] = form.device
  <2>1. CASE form.isNew
    <3>1. devices = Append(Current, form.device) /\ deviceIndex' = Len(Current) + 1
      BY <1>1, <1>2, <2>1
    <3> QED
      BY <1>3, <3>1, AppendIsList, DevicesAre
  <2>2. CASE ~form.isNew /\ HasDevice
    <3>1. devices = [Current EXCEPT ![deviceIndex] = form.device] /\ deviceIndex' = deviceIndex
      BY <1>1, <1>2, <2>2
    <3>2. deviceIndex \in DOMAIN Current
      BY <2>2 DEF HasDevice
    <3>3. /\ IsList(devices) /\ DOMAIN devices = DOMAIN Current
          /\ devices[deviceIndex] = form.device
          /\ Range(devices) \subseteq Range(Current) \cup {form.device}
      BY <1>3, <3>1, <3>2, ExceptIsList
    <3> QED
      BY <1>3, <3>1, <3>2, <3>3, DevicesAre
  <2>3. CASE ~form.isNew /\ ~HasDevice
    <3>1. devices = Current
      BY <1>1, <2>3
    <3> QED
      BY <1>3, <2>3, <3>1
  <2> QED
    BY <2>1, <2>2, <2>3
<1>5. ConfigInv' /\ Current' = devices
  BY <1>2, <1>4, DevicesSaved
<1>6. /\ DOMAIN form' = DOMAIN form /\ ~form'.isNew /\ form'.typing = form.typing
      /\ form'.device = form.device /\ form'.original = form.device
  BY <1>2 DEF Saved
<1> QED
  BY <1>2, <1>4, <1>5, <1>6 DEF FormIsStored

LEMMA WrapIndexStays ==
  ASSUME NEW i \in Int, NEW n \in Nat \ {0}, NEW delta \in Int
  PROVE  WrapIndex(i, n, delta) \in 1 .. n
BY DEF WrapIndex

\* The flags of a game, kept or not.
LEMMA StateKept ==
  ASSUME StateInv
  PROVE  /\ \A index \in Nat \ {0} :
               PersistState([state EXCEPT !.profile = index]) =>
                  /\ StateInv' /\ state'.flags = state.flags /\ state'.game = state.game
         /\ \A flags \in Flags : state' = [state EXCEPT !.flags = flags] /\ stateFile' = stateFile =>
                  /\ StateInv' /\ state'.flags = flags /\ state'.game = state.game
<1> DEFINE States == [flags : Flags, byGame : [Games -> Flags \cup {NoFlags}], game : Games,
                      profile : Nat \ {0}]
<1>1. state \in States /\ stateFile \in States
  BY DEF StateInv
<1>2. ASSUME NEW index \in Nat \ {0}, PersistState([state EXCEPT !.profile = index])
      PROVE  StateInv' /\ state'.flags = state.flags /\ state'.game = state.game
  <2>1. state' = [state EXCEPT !.profile = index] /\ stateFile' \in {state', stateFile}
    BY <1>2 DEF PersistState
  <2>2. state' \in States /\ state'.flags = state.flags /\ state'.game = state.game
    BY <1>1, <2>1
  <2> HIDE DEF States
  <2>3. stateFile' \in States
    BY <1>1, <2>1, <2>2
  <2> QED
    BY <2>2, <2>3 DEF StateInv, States
<1>3. ASSUME NEW flags \in Flags, state' = [state EXCEPT !.flags = flags], stateFile' = stateFile
      PROVE  StateInv' /\ state'.flags = flags /\ state'.game = state.game
  <2>1. state' \in States /\ state'.flags = flags /\ state'.game = state.game
    BY <1>1, <1>3
  <2> QED
    BY <1>1, <1>3, <2>1 DEF StateInv
<1> QED
  BY <1>2, <1>3

\* Flags are stored for the game that is bound, and another's may be taken.
LEMMA FlagsStored ==
  ASSUME StateInv, NEW s, s = StoreFlags(state)
  PROVE  /\ s \in [flags : Flags, byGame : [Games -> Flags \cup {NoFlags}], game : Games,
                   profile : Nat \ {0}]
         /\ s.byGame[state.game] = state.flags
         /\ s.flags = state.flags /\ s.game = state.game
<1>1. PICK kept : kept = [state.byGame EXCEPT ![state.game] = state.flags]
  OBVIOUS
<1>2. /\ state.flags \in Flags /\ state.byGame \in [Games -> Flags \cup {NoFlags}]
      /\ state.game \in Games /\ state.profile \in Nat \ {0}
  BY DEF StateInv
<1>3. kept \in [Games -> Flags \cup {NoFlags}] /\ kept[state.game] = state.flags
  BY <1>1, <1>2
<1>4. s = [state EXCEPT !.byGame = kept]
  BY <1>1 DEF StoreFlags
<1> QED
  BY <1>2, <1>3, <1>4 DEF StateInv

LEMMA FlagsFound ==
  ASSUME NEW s \in [flags : Flags, byGame : [Games -> Flags \cup {NoFlags}], game : Games,
                    profile : Nat \ {0}],
         NEW game \in Games
  PROVE  FlagsFor(s, game) \in Flags
<1>1. /\ s.byGame[game] \in Flags \cup {NoFlags} /\ s.byGame[Idle] \in Flags \cup {NoFlags}
      /\ DefaultFlags \in Flags
  BY EditorsAssumption DEF EditorsAssumption
<1> QED
  BY <1>1 DEF FlagsFor

LEMMA BoundState ==
  ASSUME StateInv, NEW live \in Games, state' = Bind(state, live), stateFile' = stateFile
  PROVE  StateInv' /\ state'.byGame[state.game] = state.flags
<1>1. PICK s : s = StoreFlags(state)
  OBVIOUS
<1>2. /\ s \in [flags : Flags, byGame : [Games -> Flags \cup {NoFlags}], game : Games,
                profile : Nat \ {0}]
      /\ s.byGame[state.game] = state.flags
  BY <1>1, FlagsStored
<1>3. PICK flags \in Flags : flags = FlagsFor(s, live)
  BY <1>2, FlagsFound
<1>4. state' = [s EXCEPT !.game = live, !.flags = flags]
  BY <1>1, <1>3 DEF Bind
<1>5. /\ state' \in [flags : Flags, byGame : [Games -> Flags \cup {NoFlags}], game : Games,
                     profile : Nat \ {0}]
      /\ state'.byGame = s.byGame
  BY <1>2, <1>4
<1> QED
  BY <1>2, <1>5 DEF StateInv

FormTyped ==
    /\ DOMAIN form = {"device", "original", "isNew", "typing"}
    /\ form.isNew \in BOOLEAN /\ form.typing \in BOOLEAN
    /\ IsDevice(form.device)

\* A step that leaves the config, the flags and their files alone.
LEMMA ConfigStays ==
  ASSUME ConfigInv, StateInv, UNCHANGED <<data, settings, profileIndex>>
  PROVE  ConfigInv' /\ StateInv'
BY DEF ConfigInv, StateInv, data, settings

\* The steps of the list of devices.
LEMMA ListSteps ==
  ASSUME ConfigInv, StateInv, ReorderDevice \/ ToggleEnabled \/ DuplicateDevice
  PROVE  ConfigInv' /\ StateInv'
<1>1. /\ IsList(Current) /\ Len(Current) \in Nat /\ DOMAIN Current = 1 .. Len(Current)
      /\ IsDevices(Current) /\ \A entry \in Range(Current) : IsDevice(entry)
  BY CurrentIsList
<1>2. UNCHANGED <<settings, profileIndex>>
  <2>1. CASE ReorderDevice
    BY <2>1 DEF ReorderDevice
  <2>2. CASE ToggleEnabled
    BY <2>2 DEF ToggleEnabled, cursor
  <2>3. CASE DuplicateDevice
    BY <2>3 DEF DuplicateDevice
  <2> QED
    BY <2>1, <2>2, <2>3
<1>3. StateInv'
  BY <1>2 DEF StateInv, settings
<1>4. ASSUME NEW devices, IsDevices(devices), PersistConfig(SetDevices(devices)) PROVE ConfigInv'
  BY <1>2, <1>4, DevicesSaved
<1>5. CASE ReorderDevice
  <2>1. PICK delta \in {-1, 1} :
           \/ UNCHANGED data
           \/ HasDevice /\ PersistConfig(SetDevices(
                 [Current EXCEPT ![deviceIndex] = Current[WrapIndex(deviceIndex, Len(Current), delta)],
                                 ![WrapIndex(deviceIndex, Len(Current), delta)] = Current[deviceIndex]]))
    BY <1>5 DEF ReorderDevice
  <2>2. CASE UNCHANGED data
    BY <1>2, <2>2, ConfigStays
  <2>3. CASE HasDevice /\ PersistConfig(SetDevices(
                 [Current EXCEPT ![deviceIndex] = Current[WrapIndex(deviceIndex, Len(Current), delta)],
                                 ![WrapIndex(deviceIndex, Len(Current), delta)] = Current[deviceIndex]]))
    <3>1. deviceIndex \in DOMAIN Current
      BY <2>3 DEF HasDevice
    <3>2. PICK next : next = WrapIndex(deviceIndex, Len(Current), delta)
      OBVIOUS
    <3>3. next \in DOMAIN Current
      <4>1. deviceIndex \in Int /\ Len(Current) \in Nat \ {0} /\ delta \in Int
        BY <1>1, <3>1
      <4> QED
        BY <1>1, <3>2, <4>1, WrapIndexStays
    <3>4. PICK one : one = [Current EXCEPT ![deviceIndex] = Current[next]]
      OBVIOUS
    <3>5. IsList(one) /\ DOMAIN one = DOMAIN Current /\ Range(one) \subseteq Range(Current)
      <4>1. Current[next] \in Range(Current)
        BY <3>3 DEF Range
      <4>2. PICK device : device = Current[next]
        OBVIOUS
      <4>3. one = [Current EXCEPT ![deviceIndex] = device]
        BY <3>4, <4>2
      <4>4. /\ IsList(one) /\ DOMAIN one = DOMAIN Current
            /\ Range(one) \subseteq Range(Current) \cup {device}
        BY <1>1, <3>1, <4>3, ExceptIsList
      <4> QED
        BY <4>1, <4>2, <4>4
    <3>6. PICK both : both = [one EXCEPT ![next] = Current[deviceIndex]]
      OBVIOUS
    <3>7. IsDevices(both)
      <4>1. IsList(both) /\ Range(both) \subseteq Range(one) \cup {Current[deviceIndex]}
        BY <3>3, <3>5, <3>6, ExceptIsList
      <4>2. Current[deviceIndex] \in Range(Current)
        BY <3>1 DEF Range
      <4> QED
        BY <1>1, <3>5, <4>1, <4>2, DevicesAre
    <3>8. PersistConfig(SetDevices(both))
      BY <2>3, <3>2, <3>4, <3>6
    <3> QED
      BY <1>3, <1>4, <3>7, <3>8
  <2> QED
    BY <2>1, <2>2, <2>3
<1>6. CASE ToggleEnabled
  <2>1. PICK device : device = [Current[deviceIndex] EXCEPT !.enabled = ~@]
    OBVIOUS
  <2>2. PICK devices : devices = [Current EXCEPT ![deviceIndex] = device]
    OBVIOUS
  <2>3. HasDevice /\ PersistConfig(SetDevices(devices))
    BY <1>6, <2>1, <2>2 DEF ToggleEnabled
  <2>4. IsDevices(devices)
    <3>1. deviceIndex \in DOMAIN Current
      BY <2>3 DEF HasDevice
    <3>2. IsList(devices) /\ Range(devices) \subseteq Range(Current) \cup {device}
      BY <1>1, <2>2, <3>1, ExceptIsList
    <3>3. IsDevice(device)
      <4>1. IsDevice(Current[deviceIndex])
        BY <1>1, <3>1 DEF IsDevices
      <4> QED
        BY <2>1, <4>1 DEF IsDevice
    <3> QED
      BY <1>1, <3>2, <3>3, DevicesAre
  <2> QED
    BY <1>3, <1>4, <2>3, <2>4
<1>7. CASE DuplicateDevice
  <2>1. PICK devices : devices = InsertAt(Current, deviceIndex + 1, Current[deviceIndex])
    OBVIOUS
  <2>2. HasDevice /\ PersistConfig(SetDevices(devices))
    BY <1>7, <2>1 DEF DuplicateDevice
  <2>3. deviceIndex + 1 \in 1 .. Len(Current) + 1
    BY <1>1, <2>2 DEF HasDevice
  <2>4. IsDevices(devices)
    <3>1. IsDevice(Current[deviceIndex])
      BY <1>1, <2>2 DEF HasDevice, IsDevices
    <3>2. /\ IsList(devices)
          /\ Range(devices) \subseteq Range(Current) \cup {Current[deviceIndex]}
      BY <1>1, <2>1, <2>3, InsertAtIsList
    <3> QED
      BY <1>1, <3>1, <3>2, DevicesAre
  <2> QED
    BY <1>3, <1>4, <2>2, <2>4
<1> QED
  BY <1>3, <1>5, <1>6, <1>7

LEMMA ProfileSteps ==
  ASSUME ConfigInv, StateInv, CycleProfile \/ AddProfile \/ SaveProfile,
         profileEdit.name \in Names
  PROVE  ConfigInv' /\ StateInv'
<1>1. IsConfig(config) /\ IsConfig(file) /\ profileIndex \in DOMAIN config
      /\ Len(config) \in Nat \ {0} /\ DOMAIN config = 1 .. Len(config)
  BY ConfigFacts DEF ConfigInv
<1>2. CASE CycleProfile
  <2>1. PICK delta \in {-1, 1} : SelectProfile(WrapIndex(profileIndex, Len(config), delta))
    BY <1>2 DEF CycleProfile
  <2>2. PICK index : index = WrapIndex(profileIndex, Len(config), delta)
    OBVIOUS
  <2>3. index \in 1 .. Len(config)
    BY <1>1, <2>2, WrapIndexStays
  <2>4. profileIndex' = index /\ PersistState([state EXCEPT !.profile = index])
    BY <2>1, <2>2 DEF SelectProfile
  <2>5. StateInv'
    BY <1>1, <2>3, <2>4, StateKept
  <2>6. UNCHANGED data
    BY <1>2 DEF CycleProfile
  <2> QED
    BY <1>1, <2>3, <2>4, <2>5, <2>6 DEF ConfigInv, data
<1>3. CASE AddProfile
  <2>1. PICK p \in {[name |-> NewName, devices |-> <<>>], Profile} :
           PersistConfig(Append(config, p))
    BY <1>3 DEF AddProfile
  <2>2. IsProfile(p)
    <3>1. CASE p = [name |-> NewName, devices |-> <<>>]
      <4>1. IsDevices(<<>>)
        <5>1. <<>> \in Seq({}) /\ DOMAIN <<>> = {}
          OBVIOUS
        <5> QED
          BY <5>1, SeqIsList DEF IsDevices
      <4>2. NewName \in Names
        BY EditorsAssumption DEF EditorsAssumption
      <4> QED
        BY <3>1, <4>1, <4>2 DEF IsProfile
    <3>2. CASE p = Profile
      BY <1>1, <3>2 DEF IsConfig, Profile
    <3> QED
      BY <2>1, <3>1, <3>2
  <2>3. IsConfig(Append(config, p)) /\ DOMAIN Append(config, p) = 1 .. Len(config) + 1
    BY <1>1, <2>2, ProfileAppended
  <2>4. IsConfig(config') /\ IsConfig(file') /\ config' = Append(config, p)
    BY <2>1, <2>3, Persisted
  <2>5. PICK index : index = Len(config) + 1
    OBVIOUS
  <2>6. profileIndex' = index /\ PersistState([state EXCEPT !.profile = index])
    BY <1>3, <2>5 DEF AddProfile, SelectProfile
  <2>7. index \in Nat \ {0} /\ index \in 1 .. Len(config) + 1
    BY <1>1, <2>5
  <2>8. StateInv'
    BY <2>6, <2>7, StateKept
  <2> QED
    BY <2>3, <2>4, <2>6, <2>7, <2>8 DEF ConfigInv
<1>4. CASE SaveProfile
  <2>1. PICK c : c = [config EXCEPT ![profileIndex].name = profileEdit.name]
    OBVIOUS
  <2>2. IsConfig(c) /\ DOMAIN c = DOMAIN config
    BY <2>1, ProfileRenamed
  <2>3. PersistConfig(c) /\ UNCHANGED <<settings, cursor>>
    BY <1>4, <2>1 DEF SaveProfile
  <2> QED
    BY <1>1, <2>2, <2>3, Persisted DEF ConfigInv, StateInv, settings, cursor
<1> QED
  BY <1>2, <1>3, <1>4

-----------------------------------------------------------------------------
(* Screens *)

FormInv == FormTyped /\ (FormOpen /\ ~form.isNew => HasDevice)
\* A question knows the screen it was asked on, a sweep runs on its own.
PlaceInv ==
    /\ screen \in Screens
    /\ screen = "ApplyTactileFilter" => previous = "SeatSweep"
    /\ screen = "DiscardUnsaved" => previous \in Forms \cup SettingsSubs \cup {"ProfileEdit"}
    /\ screen = "ApplyTemplate" => previous = "TemplatePicker"
    /\ screen \in {"DeleteDevice", "DeleteProfile", "RestartAfterSave"} => previous = "Devices"
SweepInv ==
    /\ DOMAIN sweep = {"parent", "device", "sink", "amp", "job", "url", "typing"}
    /\ sweep.parent \in {"Settings", "DeviceTune"}
    /\ sweep.job # "none" => screen = "SeatSweep"
    /\ sweep.typing # "no" => screen \in {"SeatSweep", "ApplyTactileFilter"}
FlagsInv ==
    /\ flagsOriginal \in Flags
    /\ state.flags # flagsOriginal =>
          screen = "Flags" \/ (screen = "DiscardUnsaved" /\ previous = "Flags")
NameInv == profileEdit \in [name : Names, original : Names]
Inv == ConfigInv /\ StateInv /\ FormInv /\ PlaceInv /\ SweepInv /\ FlagsInv /\ NameInv

LEMMA PlaceSteps ==
  ASSUME PlaceInv, SweepInv, Next
  PROVE  PlaceInv' /\ SweepInv'
<1> USE DEF PlaceInv, SweepInv, place, On, Screens, MainTabs, Forms, SettingsSubs, Confirms
<1>1. CASE SwitchTab
  BY <1>1 DEF SwitchTab, GoTo
<1>2. CASE CycleProfile
  BY <1>2 DEF CycleProfile
<1>3. CASE StartPlay
  BY <1>3 DEF StartPlay, Restarted
<1>4. CASE RestartPlay
  BY <1>4 DEF RestartPlay, Restarted
<1>5. CASE StopAll
  BY <1>5 DEF StopAll
<1>6. CASE ToggleTest
  BY <1>6 DEF ToggleTest, RequestTest
<1>7. CASE StartDeviceTest
  BY <1>7 DEF StartDeviceTest, RequestTest
<1>8. CASE StopTestFromLogs
  BY <1>8 DEF StopTestFromLogs
<1>9. CASE MoveDevice
  BY <1>9 DEF MoveDevice
<1>10. CASE ReorderDevice
  BY <1>10 DEF ReorderDevice
<1>11. CASE ToggleEnabled
  BY <1>11 DEF ToggleEnabled
<1>12. CASE DuplicateDevice
  BY <1>12 DEF DuplicateDevice
<1>13. CASE OpenNewForm
  BY <1>13 DEF OpenNewForm, Open
<1>14. CASE OpenEditor
  BY <1>14 DEF OpenEditor, Open
<1>15. CASE OpenTemplates
  BY <1>15 DEF OpenTemplates, Open
<1>16. CASE OpenProfileEdit
  BY <1>16 DEF OpenProfileEdit, Open
<1>17. CASE AskToDelete
  BY <1>17 DEF AskToDelete, Open, OpenConfirm
<1>18. CASE EditField
  BY <1>18 DEF EditField, Editing
<1>19. CASE BeginEdit
  BY <1>19 DEF BeginEdit, Editing
<1>20. CASE EndEdit
  BY <1>20 DEF EndEdit
<1>21. CASE SaveForm
  BY <1>21 DEF SaveForm, Editing, CommitForm, GoTo, Open
<1>22. CASE ApplyTune
  BY <1>22 DEF ApplyTune, Editing, CommitForm, GoTo, Restarted
<1>23. CASE StopFormTest
  BY <1>23 DEF StopFormTest, Editing
<1>24. CASE TestForm
  BY <1>24 DEF TestForm, Editing, CommitForm
<1>25. CASE LeaveOrConfirmDiscard
  BY <1>25 DEF LeaveOrConfirmDiscard, Open, OpenConfirm, GoTo, EditorDirty, EditorParent
<1>26. CASE TypeName
  BY <1>26 DEF TypeName
<1>27. CASE AddProfile
  BY <1>27 DEF AddProfile, GoTo
<1>28. CASE SaveProfile
  BY <1>28 DEF SaveProfile, GoTo
<1>29. CASE PickTemplate
  BY <1>29 DEF PickTemplate, OpenConfirm, Open, GoTo
<1>30. CASE OpenSettingsSub
  BY <1>30 DEF OpenSettingsSub, Open
<1>31. CASE NudgeFlag
  BY <1>31 DEF NudgeFlag
<1>32. CASE SaveFlags
  BY <1>32 DEF SaveFlags
<1>33. CASE BindSettings
  BY <1>33 DEF BindSettings
<1>34. CASE SweepFromTune
  BY <1>34 DEF SweepFromTune, Editing, OpenSweep, Open, NewSweep
<1>35. CASE SweepFromSettings
  BY <1>35 DEF SweepFromSettings, OpenSweep, Open, NewSweep
<1>36. CASE CycleSink
  BY <1>36 DEF CycleSink, Sweeping
<1>37. CASE BeginSweepEdit
  BY <1>37 DEF BeginSweepEdit, Sweeping
<1>38. CASE EndSweepEdit
  BY <1>38 DEF EndSweepEdit
<1>39. CASE StartSweepJob
  BY <1>39 DEF StartSweepJob, Sweeping
<1>40. CASE LeaveSweep
  BY <1>40 DEF LeaveSweep, Sweeping, WithoutJob, GoTo
<1>41. CASE SweepEnds
  BY <1>41 DEF SweepEnds, WithoutJob, OpenConfirm, Open
<1>42. CASE ConfirmYes
  BY <1>42 DEF ConfirmYes, DeleteDevice, DeleteProfile, RestartAfterSave, ApplyTemplate, DiscardUnsaved, ApplyTactileFilter, EditorParent
<1>43. CASE ConfirmNo
  BY <1>43 DEF ConfirmNo, GoTo
<1>44. CASE ChildEnds
  BY <1>44 DEF ChildEnds
<1>45. CASE TestPlays
  BY <1>45 DEF TestPlays
<1>46. CASE Quit
  BY <1>46 DEF Quit
<1>47. CASE StartTui
  BY <1>47 DEF StartTui, NewSweep
<1> QED
  BY <1>1, <1>2, <1>3, <1>4, <1>5, <1>6, <1>7, <1>8, <1>9, <1>10, <1>11, <1>12, <1>13, <1>14, <1>15, <1>16, <1>17, <1>18, <1>19, <1>20, <1>21, <1>22, <1>23, <1>24, <1>25, <1>26, <1>27, <1>28, <1>29, <1>30, <1>31, <1>32, <1>33, <1>34, <1>35, <1>36, <1>37, <1>38, <1>39, <1>40, <1>41, <1>42, <1>43, <1>44, <1>45, <1>46, <1>47 DEF Next

LEMMA FlagsSteps ==
  ASSUME StateInv, PlaceInv, SweepInv, FlagsInv, Next
  PROVE  FlagsInv' /\ FlagsSurvive
<1> USE DEF StateInv, PlaceInv, SweepInv, FlagsInv, FlagsSurvive, UnsavedFlags, ConfirmedDiscard, settings, place, On, Screens, MainTabs, Forms, SettingsSubs, Confirms
<1>1. CASE SwitchTab
  BY <1>1 DEF SwitchTab, GoTo
<1>2. CASE CycleProfile
  BY <1>2 DEF CycleProfile, SelectProfile, PersistState
<1>3. CASE StartPlay
  BY <1>3 DEF StartPlay, Restarted
<1>4. CASE RestartPlay
  BY <1>4 DEF RestartPlay, Restarted
<1>5. CASE StopAll
  BY <1>5 DEF StopAll
<1>6. CASE ToggleTest
  BY <1>6 DEF ToggleTest, RequestTest
<1>7. CASE StartDeviceTest
  BY <1>7 DEF StartDeviceTest, RequestTest
<1>8. CASE StopTestFromLogs
  BY <1>8 DEF StopTestFromLogs
<1>9. CASE MoveDevice
  BY <1>9 DEF MoveDevice
<1>10. CASE ReorderDevice
  BY <1>10 DEF ReorderDevice
<1>11. CASE ToggleEnabled
  BY <1>11 DEF ToggleEnabled
<1>12. CASE DuplicateDevice
  BY <1>12 DEF DuplicateDevice
<1>13. CASE OpenNewForm
  BY <1>13 DEF OpenNewForm, Open
<1>14. CASE OpenEditor
  BY <1>14 DEF OpenEditor, Open
<1>15. CASE OpenTemplates
  BY <1>15 DEF OpenTemplates, Open
<1>16. CASE OpenProfileEdit
  BY <1>16 DEF OpenProfileEdit, Open
<1>17. CASE AskToDelete
  BY <1>17 DEF AskToDelete, Open, OpenConfirm
<1>18. CASE EditField
  BY <1>18 DEF EditField, Editing
<1>19. CASE BeginEdit
  BY <1>19 DEF BeginEdit, Editing
<1>20. CASE EndEdit
  BY <1>20 DEF EndEdit
<1>21. CASE SaveForm
  BY <1>21 DEF SaveForm, Editing, CommitForm, GoTo, Open
<1>22. CASE ApplyTune
  BY <1>22 DEF ApplyTune, Editing, CommitForm, GoTo, Restarted
<1>23. CASE StopFormTest
  BY <1>23 DEF StopFormTest, Editing
<1>24. CASE TestForm
  BY <1>24 DEF TestForm, Editing, CommitForm
<1>25. CASE LeaveOrConfirmDiscard
  BY <1>25 DEF LeaveOrConfirmDiscard, Open, OpenConfirm, GoTo, EditorDirty, EditorParent
<1>26. CASE TypeName
  BY <1>26 DEF TypeName
<1>27. CASE AddProfile
  BY <1>27 DEF AddProfile, GoTo, SelectProfile, PersistState
<1>28. CASE SaveProfile
  BY <1>28 DEF SaveProfile, GoTo
<1>29. CASE PickTemplate
  BY <1>29 DEF PickTemplate, OpenConfirm, Open, GoTo
<1>30. CASE OpenSettingsSub
  BY <1>30 DEF OpenSettingsSub, Open
<1>31. CASE NudgeFlag
  BY <1>31 DEF NudgeFlag
<1>32. CASE SaveFlags
  BY <1>32, FlagsStored DEF SaveFlags
<1>33. CASE BindSettings
  BY <1>33, BoundState DEF BindSettings
<1>34. CASE SweepFromTune
  BY <1>34 DEF SweepFromTune, Editing, OpenSweep, Open, NewSweep
<1>35. CASE SweepFromSettings
  BY <1>35 DEF SweepFromSettings, OpenSweep, Open, NewSweep
<1>36. CASE CycleSink
  BY <1>36 DEF CycleSink, Sweeping
<1>37. CASE BeginSweepEdit
  BY <1>37 DEF BeginSweepEdit, Sweeping
<1>38. CASE EndSweepEdit
  BY <1>38 DEF EndSweepEdit
<1>39. CASE StartSweepJob
  BY <1>39 DEF StartSweepJob, Sweeping
<1>40. CASE LeaveSweep
  BY <1>40 DEF LeaveSweep, Sweeping, WithoutJob, GoTo
<1>41. CASE SweepEnds
  BY <1>41 DEF SweepEnds, WithoutJob, OpenConfirm, Open
<1>42. CASE ConfirmYes
  BY <1>42 DEF ConfirmYes, DeleteDevice, DeleteProfile, RestartAfterSave, ApplyTemplate, DiscardUnsaved, ApplyTactileFilter, EditorParent, SelectProfile, PersistState
<1>43. CASE ConfirmNo
  BY <1>43 DEF ConfirmNo, GoTo
<1>44. CASE ChildEnds
  BY <1>44 DEF ChildEnds
<1>45. CASE TestPlays
  BY <1>45 DEF TestPlays
<1>46. CASE Quit
  BY <1>46 DEF Quit
<1>47. CASE StartTui
  BY <1>47 DEF StartTui, NewSweep
<1> QED
  BY <1>1, <1>2, <1>3, <1>4, <1>5, <1>6, <1>7, <1>8, <1>9, <1>10, <1>11, <1>12, <1>13, <1>14, <1>15, <1>16, <1>17, <1>18, <1>19, <1>20, <1>21, <1>22, <1>23, <1>24, <1>25, <1>26, <1>27, <1>28, <1>29, <1>30, <1>31, <1>32, <1>33, <1>34, <1>35, <1>36, <1>37, <1>38, <1>39, <1>40, <1>41, <1>42, <1>43, <1>44, <1>45, <1>46, <1>47 DEF Next

LEMMA TextSteps ==
  ASSUME PlaceInv, SweepInv, Next
  PROVE  TextSurvives
<1> USE DEF PlaceInv, SweepInv, TextSurvives, place, On, Screens, MainTabs, Forms, SettingsSubs, Confirms
<1>1. CASE SwitchTab
  BY <1>1 DEF SwitchTab, GoTo
<1>2. CASE CycleProfile
  BY <1>2 DEF CycleProfile
<1>3. CASE StartPlay
  BY <1>3 DEF StartPlay, Restarted
<1>4. CASE RestartPlay
  BY <1>4 DEF RestartPlay, Restarted
<1>5. CASE StopAll
  BY <1>5 DEF StopAll
<1>6. CASE ToggleTest
  BY <1>6 DEF ToggleTest, RequestTest
<1>7. CASE StartDeviceTest
  BY <1>7 DEF StartDeviceTest, RequestTest
<1>8. CASE StopTestFromLogs
  BY <1>8 DEF StopTestFromLogs
<1>9. CASE MoveDevice
  BY <1>9 DEF MoveDevice
<1>10. CASE ReorderDevice
  BY <1>10 DEF ReorderDevice
<1>11. CASE ToggleEnabled
  BY <1>11 DEF ToggleEnabled
<1>12. CASE DuplicateDevice
  BY <1>12 DEF DuplicateDevice
<1>13. CASE OpenNewForm
  BY <1>13 DEF OpenNewForm, Open
<1>14. CASE OpenEditor
  BY <1>14 DEF OpenEditor, Open
<1>15. CASE OpenTemplates
  BY <1>15 DEF OpenTemplates, Open
<1>16. CASE OpenProfileEdit
  BY <1>16 DEF OpenProfileEdit, Open
<1>17. CASE AskToDelete
  BY <1>17 DEF AskToDelete, Open, OpenConfirm
<1>18. CASE EditField
  BY <1>18 DEF EditField, Editing
<1>19. CASE BeginEdit
  BY <1>19 DEF BeginEdit, Editing
<1>20. CASE EndEdit
  BY <1>20 DEF EndEdit
<1>21. CASE SaveForm
  BY <1>21 DEF SaveForm, Editing, CommitForm, GoTo, Open
<1>22. CASE ApplyTune
  BY <1>22 DEF ApplyTune, Editing, CommitForm, GoTo, Restarted
<1>23. CASE StopFormTest
  BY <1>23 DEF StopFormTest, Editing
<1>24. CASE TestForm
  BY <1>24 DEF TestForm, Editing, CommitForm
<1>25. CASE LeaveOrConfirmDiscard
  BY <1>25 DEF LeaveOrConfirmDiscard, Open, OpenConfirm, GoTo, EditorDirty, EditorParent
<1>26. CASE TypeName
  BY <1>26 DEF TypeName
<1>27. CASE AddProfile
  BY <1>27 DEF AddProfile, GoTo
<1>28. CASE SaveProfile
  BY <1>28 DEF SaveProfile, GoTo
<1>29. CASE PickTemplate
  BY <1>29 DEF PickTemplate, OpenConfirm, Open, GoTo
<1>30. CASE OpenSettingsSub
  BY <1>30 DEF OpenSettingsSub, Open
<1>31. CASE NudgeFlag
  BY <1>31 DEF NudgeFlag
<1>32. CASE SaveFlags
  BY <1>32 DEF SaveFlags
<1>33. CASE BindSettings
  BY <1>33 DEF BindSettings
<1>34. CASE SweepFromTune
  BY <1>34 DEF SweepFromTune, Editing, OpenSweep, Open, NewSweep
<1>35. CASE SweepFromSettings
  BY <1>35 DEF SweepFromSettings, OpenSweep, Open, NewSweep
<1>36. CASE CycleSink
  BY <1>36 DEF CycleSink, Sweeping
<1>37. CASE BeginSweepEdit
  BY <1>37 DEF BeginSweepEdit, Sweeping
<1>38. CASE EndSweepEdit
  BY <1>38 DEF EndSweepEdit
<1>39. CASE StartSweepJob
  BY <1>39 DEF StartSweepJob, Sweeping
<1>40. CASE LeaveSweep
  BY <1>40 DEF LeaveSweep, Sweeping, WithoutJob, GoTo
<1>41. CASE SweepEnds
  BY <1>41 DEF SweepEnds, WithoutJob, OpenConfirm, Open
<1>42. CASE ConfirmYes
  BY <1>42 DEF ConfirmYes, DeleteDevice, DeleteProfile, RestartAfterSave, ApplyTemplate, DiscardUnsaved, ApplyTactileFilter, EditorParent
<1>43. CASE ConfirmNo
  BY <1>43 DEF ConfirmNo, GoTo
<1>44. CASE ChildEnds
  BY <1>44 DEF ChildEnds
<1>45. CASE TestPlays
  BY <1>45 DEF TestPlays
<1>46. CASE Quit
  BY <1>46 DEF Quit
<1>47. CASE StartTui
  BY <1>47 DEF StartTui, NewSweep
<1> QED
  BY <1>1, <1>2, <1>3, <1>4, <1>5, <1>6, <1>7, <1>8, <1>9, <1>10, <1>11, <1>12, <1>13, <1>14, <1>15, <1>16, <1>17, <1>18, <1>19, <1>20, <1>21, <1>22, <1>23, <1>24, <1>25, <1>26, <1>27, <1>28, <1>29, <1>30, <1>31, <1>32, <1>33, <1>34, <1>35, <1>36, <1>37, <1>38, <1>39, <1>40, <1>41, <1>42, <1>43, <1>44, <1>45, <1>46, <1>47 DEF Next

LEMMA FilterApplied ==
  ASSUME ConfigInv, ApplyTactileFilter
  PROVE  ConfigInv' /\ (HasDevice => HasDevice')
<1>1. UNCHANGED <<profileIndex, deviceIndex>>
  BY DEF ApplyTactileFilter, cursor
<1>2. CASE UNCHANGED data
  BY <1>1, <1>2 DEF ConfigInv, HasDevice, Current, Profile, data
<1>3. CASE PersistConfig(SetDevices(Retarget(Current)))
  <2>1. PICK devices : devices = Retarget(Current)
    OBVIOUS
  <2>2. /\ IsList(Current) /\ Len(Current) \in Nat /\ DOMAIN Current = 1 .. Len(Current)
        /\ IsDevices(Current)
    BY CurrentIsList
  <2>3. IsDevices(devices) /\ DOMAIN devices = DOMAIN Current
    <3>1. PICK n \in Nat : n = Len(Current) /\ DOMAIN Current = 1 .. n
      BY <2>2
    <3>2. PICK device : devices = [i \in 1 .. n |-> device[i]]
      <4>1. devices = [i \in 1 .. n |-> devices[i]]
        BY <2>1, <3>1 DEF Retarget
      <4> QED
        BY <4>1
    <3>3. DOMAIN devices = 1 .. n /\ \A i \in 1 .. n : devices[i] \in Range(devices)
      BY <3>2 DEF Range
    <3>4. devices = [i \in 1 .. n |-> devices[i]]
      BY <3>2
    <3>5. [i \in 1 .. n |-> devices[i]] \in Seq(Range(devices))
      BY <3>3
    <3>6. \A i \in 1 .. n : IsDevice(devices[i])
      <4>1. TAKE i \in 1 .. n
      <4>2. devices[i] = Current[i] \/ devices[i] = [Current[i] EXCEPT !.devid = Tactile]
        BY <2>1, <3>1 DEF Retarget
      <4>3. IsDevice(Current[i])
        BY <2>2, <3>1 DEF IsDevices
      <4> QED
        BY <4>2, <4>3 DEF IsDevice
    <3> QED
      BY <3>1, <3>3, <3>4, <3>5, <3>6 DEF IsList, IsDevices
  <2>4. ConfigInv' /\ Current' = devices
    BY <1>1, <1>3, <2>1, <2>3, DevicesSaved
  <2> QED
    BY <1>1, <2>3, <2>4 DEF HasDevice
<1> QED
  BY <1>2, <1>3 DEF ApplyTactileFilter

LEMMA FormSteps ==
  ASSUME ConfigInv, FormInv, PlaceInv, SweepInv, Next
  PROVE  FormInv' /\ FormSurvives
<1>a. UNCHANGED <<data, cursor>> => HasDevice' = HasDevice
  BY DEF data, cursor, HasDevice, Current, Profile
<1>b. ASSUME CommitForm
      PROVE  /\ FormTyped' /\ ~form'.isNew /\ form'.typing = form.typing
             /\ form'.device = form.device /\ form'.original = form.device
             /\ form.isNew \/ HasDevice => FormIsStored' /\ HasDevice'
  <2>1. /\ form.isNew \in BOOLEAN /\ form.typing \in BOOLEAN
        /\ {"device", "original", "isNew", "typing"} = DOMAIN form /\ IsDevice(form.device)
    BY DEF FormInv, FormTyped
  <2>2. /\ DOMAIN form' = DOMAIN form /\ ~form'.isNew /\ form'.typing = form.typing
        /\ form'.device = form.device /\ form'.original = form.device
        /\ form.isNew \/ HasDevice => FormIsStored'
    BY <1>b, <2>1, Committed
  <2>3. form'.isNew = FALSE
    BY <1>b, <2>1 DEF CommitForm, Saved
  <2>4. FormIsStored' => HasDevice'
    BY DEF FormIsStored, HasDevice
  <2> QED
    BY <2>1, <2>2, <2>3, <2>4 DEF FormTyped
<1>c. ApplyTactileFilter /\ HasDevice => HasDevice'
  BY FilterApplied
<1>d. \A entry \in Entries \cup {BlankEntry} : IsDevice(entry)
  BY EditorsAssumption DEF EditorsAssumption
<1>e. HasDevice => IsDevice(Current[deviceIndex])
  BY CurrentIsList DEF HasDevice, IsDevices
<1> USE DEF FormInv, FormTyped, FormOpen, PlaceInv, SweepInv, FormSurvives, UnsavedForm, ConfirmedDiscard, IsDirty, place, editing, On, Screens, MainTabs, Forms, SettingsSubs, Confirms
<1>1. CASE SwitchTab
  BY <1>1, <1>a DEF SwitchTab, GoTo
<1>2. CASE CycleProfile
  BY <1>2, <1>a DEF CycleProfile
<1>3. CASE StartPlay
  BY <1>3, <1>a DEF StartPlay, Restarted
<1>4. CASE RestartPlay
  BY <1>4, <1>a DEF RestartPlay, Restarted
<1>5. CASE StopAll
  BY <1>5, <1>a DEF StopAll
<1>6. CASE ToggleTest
  BY <1>6, <1>a DEF ToggleTest, RequestTest
<1>7. CASE StartDeviceTest
  BY <1>7, <1>a DEF StartDeviceTest, RequestTest
<1>8. CASE StopTestFromLogs
  BY <1>8, <1>a DEF StopTestFromLogs
<1>9. CASE MoveDevice
  BY <1>9, <1>a DEF MoveDevice
<1>10. CASE ReorderDevice
  BY <1>10, <1>a DEF ReorderDevice
<1>11. CASE ToggleEnabled
  BY <1>11, <1>a DEF ToggleEnabled
<1>12. CASE DuplicateDevice
  BY <1>12, <1>a DEF DuplicateDevice
<1>13. CASE OpenNewForm
  BY <1>13, <1>a, <1>d DEF OpenNewForm, Open, NewForm
<1>14. CASE OpenEditor
  BY <1>14, <1>a, <1>e DEF OpenEditor, Open, NewForm
<1>15. CASE OpenTemplates
  BY <1>15, <1>a DEF OpenTemplates, Open
<1>16. CASE OpenProfileEdit
  BY <1>16, <1>a DEF OpenProfileEdit, Open
<1>17. CASE AskToDelete
  BY <1>17, <1>a DEF AskToDelete, Open, OpenConfirm
<1>18. CASE EditField
  BY <1>18, <1>a, <1>d DEF EditField, Editing
<1>19. CASE BeginEdit
  BY <1>19, <1>a DEF BeginEdit, Editing
<1>20. CASE EndEdit
  BY <1>20, <1>a, <1>d DEF EndEdit
<1>21. CASE SaveForm
  BY <1>21, <1>b DEF SaveForm, Editing, CommitForm, GoTo, Open, CommitForm
<1>22. CASE ApplyTune
  BY <1>22, <1>b DEF ApplyTune, Editing, CommitForm, GoTo, Restarted, CommitForm
<1>23. CASE StopFormTest
  BY <1>23, <1>a DEF StopFormTest, Editing
<1>24. CASE TestForm
  BY <1>24, <1>b DEF TestForm, Editing, CommitForm, CommitForm
<1>25. CASE LeaveOrConfirmDiscard
  BY <1>25, <1>a DEF LeaveOrConfirmDiscard, Open, OpenConfirm, GoTo, EditorDirty, EditorParent
<1>26. CASE TypeName
  BY <1>26, <1>a DEF TypeName
<1>27. CASE AddProfile
  BY <1>27, <1>a DEF AddProfile, GoTo
<1>28. CASE SaveProfile
  BY <1>28, <1>a DEF SaveProfile, GoTo
<1>29. CASE PickTemplate
  BY <1>29, <1>a DEF PickTemplate, OpenConfirm, Open, GoTo
<1>30. CASE OpenSettingsSub
  BY <1>30, <1>a DEF OpenSettingsSub, Open
<1>31. CASE NudgeFlag
  BY <1>31, <1>a DEF NudgeFlag
<1>32. CASE SaveFlags
  BY <1>32, <1>a DEF SaveFlags
<1>33. CASE BindSettings
  BY <1>33, <1>a DEF BindSettings
<1>34. CASE SweepFromTune
  BY <1>34, <1>a DEF SweepFromTune, Editing, OpenSweep, Open, NewSweep
<1>35. CASE SweepFromSettings
  BY <1>35, <1>a DEF SweepFromSettings, OpenSweep, Open, NewSweep
<1>36. CASE CycleSink
  BY <1>36, <1>a DEF CycleSink, Sweeping
<1>37. CASE BeginSweepEdit
  BY <1>37, <1>a DEF BeginSweepEdit, Sweeping
<1>38. CASE EndSweepEdit
  BY <1>38, <1>a DEF EndSweepEdit
<1>39. CASE StartSweepJob
  BY <1>39, <1>a DEF StartSweepJob, Sweeping
<1>40. CASE LeaveSweep
  BY <1>40, <1>a DEF LeaveSweep, Sweeping, WithoutJob, GoTo
<1>41. CASE SweepEnds
  BY <1>41, <1>a DEF SweepEnds, WithoutJob, OpenConfirm, Open
<1>42. CASE ConfirmYes
  BY <1>42, <1>a, <1>c DEF ConfirmYes, DeleteDevice, DeleteProfile, RestartAfterSave, ApplyTemplate, DiscardUnsaved, ApplyTactileFilter, EditorParent
<1>43. CASE ConfirmNo
  BY <1>43, <1>a DEF ConfirmNo, GoTo
<1>44. CASE ChildEnds
  BY <1>44, <1>a DEF ChildEnds
<1>45. CASE TestPlays
  BY <1>45, <1>a DEF TestPlays
<1>46. CASE Quit
  BY <1>46, <1>a DEF Quit
<1>47. CASE StartTui
  BY <1>47, <1>a, <1>d DEF StartTui, NewSweep, NewForm
<1> QED
  BY <1>1, <1>2, <1>3, <1>4, <1>5, <1>6, <1>7, <1>8, <1>9, <1>10, <1>11, <1>12, <1>13, <1>14, <1>15, <1>16, <1>17, <1>18, <1>19, <1>20, <1>21, <1>22, <1>23, <1>24, <1>25, <1>26, <1>27, <1>28, <1>29, <1>30, <1>31, <1>32, <1>33, <1>34, <1>35, <1>36, <1>37, <1>38, <1>39, <1>40, <1>41, <1>42, <1>43, <1>44, <1>45, <1>46, <1>47 DEF Next

\* The questions that are answered with yes.
LEMMA ConfirmSteps ==
  ASSUME ConfigInv, StateInv, FlagsInv, ConfirmYes
  PROVE  ConfigInv' /\ StateInv'
<1>1. /\ IsList(Current) /\ Len(Current) \in Nat /\ DOMAIN Current = 1 .. Len(Current)
      /\ IsDevices(Current) /\ \A entry \in Range(Current) : IsDevice(entry)
  BY CurrentIsList
<1>2. /\ IsConfig(config) /\ IsConfig(file) /\ profileIndex \in DOMAIN config
      /\ Len(config) \in Nat \ {0} /\ DOMAIN config = 1 .. Len(config)
  BY ConfigFacts DEF ConfigInv
<1>3. CASE DeleteDevice
  <2>1. PICK devices : devices = IF HasDevice THEN RemoveAt(Current, deviceIndex) ELSE Current
    OBVIOUS
  <2>2. IsDevices(devices)
    <3>1. HasDevice => /\ IsList(devices) /\ Range(devices) \subseteq Range(Current)
      BY <1>1, <2>1, RemoveAtIsList DEF HasDevice
    <3> QED
      BY <1>1, <2>1, <3>1, DevicesAre
  <2>3. PersistConfig(SetDevices(devices)) /\ UNCHANGED <<settings, profileIndex>>
    BY <1>3, <2>1 DEF DeleteDevice
  <2> QED
    BY <2>2, <2>3, DevicesSaved DEF StateInv, settings
<1>4. CASE DeleteProfile
  <2>1. CASE Len(config) > 1
    <3>1. PICK index : index = Max({profileIndex - 1, 1})
      OBVIOUS
    <3>2. index \in 1 .. Len(config) - 1
      <4>1. PICK i \in Nat \ {0} : i = profileIndex /\ i <= Len(config)
        BY <1>2
      <4>2. index = IF i = 1 THEN 1 ELSE i - 1
        <5>1. CASE i = 1
          <6>1. {i - 1, 1} = {0, 1}
            BY <5>1
          <6>2. index = CHOOSE x \in {0, 1} : \A y \in {0, 1} : x >= y
            BY <3>1, <4>1, <6>1 DEF Max
          <6> QED
            BY <5>1, <6>2
        <5>2. CASE i # 1
          <6>1. index = CHOOSE x \in {i - 1, 1} : \A y \in {i - 1, 1} : x >= y
            BY <3>1, <4>1 DEF Max
          <6>2. i - 1 >= 1
            BY <5>2
          <6> QED
            BY <5>2, <6>1, <6>2
        <5> QED
          BY <5>1, <5>2
      <4> QED
        BY <1>2, <2>1, <4>1, <4>2
    <3>3. /\ PersistConfig(RemoveAt(config, profileIndex)) /\ profileIndex' = index
          /\ PersistState([state EXCEPT !.profile = index])
      BY <1>4, <2>1, <3>1 DEF DeleteProfile, SelectProfile
    <3>4. /\ IsConfig(RemoveAt(config, profileIndex))
          /\ DOMAIN RemoveAt(config, profileIndex) = 1 .. Len(config) - 1
      BY <1>2, <2>1, ProfileRemoved
    <3>5. IsConfig(config') /\ IsConfig(file') /\ config' = RemoveAt(config, profileIndex)
      BY <3>3, <3>4, Persisted
    <3>6. index \in Nat \ {0}
      BY <1>2, <3>2
    <3>7. StateInv'
      BY <3>3, <3>6, StateKept
    <3> QED
      BY <3>2, <3>3, <3>4, <3>5, <3>7 DEF ConfigInv
  <2>2. CASE ~(Len(config) > 1)
    <3>1. UNCHANGED <<data, settings, profileIndex>>
      BY <1>4, <2>2 DEF DeleteProfile
    <3> QED
      BY <3>1, ConfigStays
  <2> QED
    BY <2>1, <2>2
<1>5. CASE RestartAfterSave
  BY <1>5, ConfigStays DEF RestartAfterSave, cursor
<1>6. CASE ApplyTemplate
  <2>1. PICK template \in Templates : PersistConfig(SetDevices(Current \o template))
    BY <1>6 DEF ApplyTemplate
  <2>2. PICK devices : devices = Current \o template
    OBVIOUS
  <2>3. IsDevices(template)
    BY EditorsAssumption DEF EditorsAssumption
  <2>4. IsDevices(devices)
    <3>1. IsList(template) /\ \A entry \in Range(template) : IsDevice(entry)
      BY <2>3, DevicesAre
    <3>2. IsList(devices) /\ Range(devices) \subseteq Range(Current) \cup Range(template)
      BY <1>1, <2>2, <3>1, ConcatIsList
    <3> QED
      BY <1>1, <3>1, <3>2, DevicesAre
  <2>5. PersistConfig(SetDevices(devices)) /\ UNCHANGED <<settings, profileIndex>>
    BY <1>6, <2>1, <2>2 DEF ApplyTemplate, cursor
  <2> QED
    BY <2>4, <2>5, DevicesSaved DEF StateInv, settings
<1>7. CASE DiscardUnsaved
  <2>1. UNCHANGED <<data, profileIndex, stateFile>>
    BY <1>7 DEF DiscardUnsaved, cursor
  <2>2. state' = [state EXCEPT !.flags = flagsOriginal] \/ state' = state
    BY <1>7 DEF DiscardUnsaved
  <2>3. StateInv'
    BY <2>1, <2>2, StateKept DEF FlagsInv, StateInv
  <2> QED
    BY <2>1, <2>3 DEF ConfigInv, data
<1>8. CASE ApplyTactileFilter
  BY <1>8, FilterApplied DEF ApplyTactileFilter, StateInv, settings
<1> QED
  BY <1>3, <1>4, <1>5, <1>6, <1>7, <1>8 DEF ConfirmYes

LEMMA ConfigSteps ==
  ASSUME Inv, Next
  PROVE  ConfigInv' /\ StateInv' /\ NameInv'
<1>a. ASSUME CommitForm PROVE ConfigInv' /\ StateInv' /\ NameInv'
  <2>1. /\ form.isNew \in BOOLEAN /\ {"device", "original", "isNew", "typing"} = DOMAIN form
        /\ IsDevice(form.device)
    BY DEF Inv, FormInv, FormTyped
  <2>2. ConfigInv'
    BY <1>a, <2>1, Committed DEF Inv
  <2> QED
    BY <1>a, <2>2 DEF CommitForm, Inv, StateInv, NameInv, settings
<1> USE DEF Inv
<1>1. CASE SwitchTab
  BY <1>1, ConfigStays DEF SwitchTab, cursor, editing, NameInv
<1>2. CASE CycleProfile
  BY <1>2, ProfileSteps DEF CycleProfile, editing, NameInv
<1>3. CASE StartPlay
  BY <1>3, ConfigStays DEF StartPlay, cursor, editing, NameInv
<1>4. CASE RestartPlay
  BY <1>4, ConfigStays DEF RestartPlay, cursor, editing, NameInv
<1>5. CASE StopAll
  BY <1>5, ConfigStays DEF StopAll, cursor, editing, NameInv
<1>6. CASE ToggleTest
  BY <1>6, ConfigStays DEF ToggleTest, cursor, editing, NameInv
<1>7. CASE StartDeviceTest
  BY <1>7, ConfigStays DEF StartDeviceTest, cursor, editing, NameInv
<1>8. CASE StopTestFromLogs
  BY <1>8, ConfigStays DEF StopTestFromLogs, cursor, editing, NameInv
<1>9. CASE MoveDevice
  BY <1>9, ConfigStays DEF MoveDevice, cursor, editing, NameInv
<1>10. CASE ReorderDevice
  BY <1>10, ListSteps DEF ReorderDevice, editing, NameInv
<1>11. CASE ToggleEnabled
  BY <1>11, ListSteps DEF ToggleEnabled, editing, NameInv
<1>12. CASE DuplicateDevice
  BY <1>12, ListSteps DEF DuplicateDevice, editing, NameInv
<1>13. CASE OpenNewForm
  BY <1>13, ConfigStays DEF OpenNewForm, cursor, editing, NameInv
<1>14. CASE OpenEditor
  BY <1>14, ConfigStays DEF OpenEditor, cursor, editing, NameInv
<1>15. CASE OpenTemplates
  BY <1>15, ConfigStays DEF OpenTemplates, cursor, editing, NameInv
<1>16. CASE OpenProfileEdit
  BY <1>16, ConfigStays DEF OpenProfileEdit, cursor, editing, NameInv, Profile, ConfigInv, IsConfig, IsProfile
<1>17. CASE AskToDelete
  BY <1>17, ConfigStays DEF AskToDelete, cursor, editing, NameInv
<1>18. CASE EditField
  BY <1>18, ConfigStays DEF EditField, cursor, editing, NameInv
<1>19. CASE BeginEdit
  BY <1>19, ConfigStays DEF BeginEdit, cursor, editing, NameInv
<1>20. CASE EndEdit
  BY <1>20, ConfigStays DEF EndEdit, cursor, editing, NameInv
<1>21. CASE SaveForm
  BY <1>21, <1>a DEF SaveForm
<1>22. CASE ApplyTune
  BY <1>22, <1>a DEF ApplyTune
<1>23. CASE StopFormTest
  BY <1>23, ConfigStays DEF StopFormTest, cursor, editing, NameInv
<1>24. CASE TestForm
  BY <1>24, <1>a DEF TestForm
<1>25. CASE LeaveOrConfirmDiscard
  BY <1>25, ConfigStays DEF LeaveOrConfirmDiscard, cursor, editing, NameInv
<1>26. CASE TypeName
  BY <1>26, ConfigStays DEF TypeName, cursor, editing, NameInv
<1>27. CASE AddProfile
  BY <1>27, ProfileSteps DEF AddProfile, editing, NameInv
<1>28. CASE SaveProfile
  BY <1>28, ProfileSteps DEF SaveProfile, editing, NameInv
<1>29. CASE PickTemplate
  BY <1>29, ConfigStays DEF PickTemplate, cursor, editing, NameInv
<1>30. CASE OpenSettingsSub
  BY <1>30 DEF OpenSettingsSub, ConfigInv, StateInv, NameInv, data, cursor, editing
<1>31. CASE NudgeFlag
  BY <1>31, StateKept DEF NudgeFlag, ConfigInv, NameInv, data, cursor, editing
<1>32. CASE SaveFlags
  BY <1>32, FlagsStored DEF SaveFlags, ConfigInv, StateInv, NameInv, data, cursor, editing
<1>33. CASE BindSettings
  BY <1>33, BoundState DEF BindSettings, ConfigInv, NameInv, data, cursor, editing
<1>34. CASE SweepFromTune
  BY <1>34, ConfigStays DEF SweepFromTune, OpenSweep, cursor, editing, NameInv
<1>35. CASE SweepFromSettings
  BY <1>35, ConfigStays DEF SweepFromSettings, OpenSweep, cursor, editing, NameInv
<1>36. CASE CycleSink
  BY <1>36, ConfigStays DEF CycleSink, cursor, editing, NameInv
<1>37. CASE BeginSweepEdit
  BY <1>37, ConfigStays DEF BeginSweepEdit, cursor, editing, NameInv
<1>38. CASE EndSweepEdit
  BY <1>38, ConfigStays DEF EndSweepEdit, cursor, editing, NameInv
<1>39. CASE StartSweepJob
  BY <1>39, ConfigStays DEF StartSweepJob, cursor, editing, NameInv
<1>40. CASE LeaveSweep
  BY <1>40, ConfigStays DEF LeaveSweep, cursor, editing, NameInv
<1>41. CASE SweepEnds
  BY <1>41, ConfigStays DEF SweepEnds, cursor, editing, NameInv
<1>42. CASE ConfirmYes
  BY <1>42, ConfirmSteps DEF ConfirmYes, editing, NameInv
<1>43. CASE ConfirmNo
  BY <1>43, ConfigStays DEF ConfirmNo, cursor, editing, NameInv
<1>44. CASE ChildEnds
  BY <1>44, ConfigStays DEF ChildEnds, cursor, editing, NameInv
<1>45. CASE TestPlays
  BY <1>45, ConfigStays DEF TestPlays, cursor, editing, NameInv
<1>46. CASE Quit
  BY <1>46, ConfigStays DEF Quit, cursor, editing, NameInv
<1>47. CASE StartTui
  BY <1>47, ConfigFacts DEF StartTui, ConfigInv, StateInv, NameInv, ClampProfileIndex
<1> QED
  BY <1>1, <1>2, <1>3, <1>4, <1>5, <1>6, <1>7, <1>8, <1>9, <1>10, <1>11, <1>12, <1>13, <1>14, <1>15, <1>16, <1>17, <1>18, <1>19, <1>20, <1>21, <1>22, <1>23, <1>24, <1>25, <1>26, <1>27, <1>28, <1>29, <1>30, <1>31, <1>32, <1>33, <1>34, <1>35, <1>36, <1>37, <1>38, <1>39, <1>40, <1>41, <1>42, <1>43, <1>44, <1>45, <1>46, <1>47 DEF Next

-----------------------------------------------------------------------------
(* The test that a form asks for *)

LEMMA LastOfFlag ==
  ASSUME NEW args, NEW n \in Nat, NEW flag, NEW i \in 1 .. n, DOMAIN args = 1 .. n,
         \A j \in 1 .. n : args[j].flag = flag <=> j = i
  PROVE  TakeValue(args, flag) = args[i].value
<1>1. {j \in DOMAIN args : args[j].flag = flag} = {i}
  OBVIOUS
<1>2. Max({i}) = i
  BY DEF Max
<1> QED
  BY <1>1, <1>2 DEF TakeValue

\* What stands before the scope on a test's command line does not hide it.
LEMMA TestAsked ==
  ASSUME NEW flags, NEW profile \in Nat \ {0}, NEW device \in Nat \ {0}
  PROVE  /\ Spawned("test", flags, [profile |-> profile, device |-> device]).configIndex = profile
         /\ Spawned("test", flags, [profile |-> profile, device |-> device]).deviceIndex = device
<1> DEFINE Plain == [flag : {"-v", "-vv", "-a"}, value : {0}]
           Items == [flag : {"-v", "-vv", "-a", "--config-file", "--config-index", "--device-index"},
                     value : Nat]
           args == SpawnArgs("test", flags, [profile |-> profile, device |-> device])
<1>1. PICK before : before = OptionIf(flags.verbosity = 1, Option("-v"))
                               \o OptionIf(flags.verbosity >= 2, Option("-vv"))
                               \o OptionIf(flags.disableAudio, Option("-a"))
  OBVIOUS
<1>2. before \in Seq(Plain)
  <2>1. {Option("-v"), Option("-vv"), Option("-a")} \subseteq Plain
    BY DEF Option
  <2> HIDE DEF Plain
  <2>2. \A option \in Plain : <<option>> \in Seq(Plain)
    OBVIOUS
  <2>3. <<>> \in Seq(Plain)
    OBVIOUS
  <2>4. /\ OptionIf(flags.verbosity = 1, Option("-v")) \in Seq(Plain)
        /\ OptionIf(flags.verbosity >= 2, Option("-vv")) \in Seq(Plain)
        /\ OptionIf(flags.disableAudio, Option("-a")) \in Seq(Plain)
    BY <2>1, <2>2, <2>3 DEF OptionIf
  <2> QED
    BY <1>1, <2>4, ConcatProperties
<1>3. PICK a, b, c : /\ a = Option("--config-file") /\ b = Valued("--config-index", profile)
                     /\ c = Valued("--device-index", device)
  OBVIOUS
<1>4. args = before \o <<a>> \o (<<b>> \o <<c>>)
  <2>1. before \o <<>> = before
    BY <1>2, ConcatEmptySeq
  <2>2. args = before \o <<>> \o <<a>> \o (<<b>> \o <<c>>)
    BY <1>1, <1>3 DEF SpawnArgs, SessionScope, OptionIf
  <2> QED
    BY <2>1, <2>2
<1>5. PICK n \in Nat : n = Len(before) /\ \A i \in 1 .. n : before[i] \in Plain
  <2> HIDE DEF Plain
  <2>1. Len(before) \in Nat /\ \A i \in 1 .. Len(before) : before[i] \in Plain
    BY <1>2, LenProperties, ElementOfSeq
  <2> QED
    BY <2>1
<1>6. before \in Seq(Items) /\ {a, b, c} \subseteq Items
  <2>1. Plain \subseteq Items
    <3>1. {"-v", "-vv", "-a"} \subseteq {"-v", "-vv", "-a", "--config-file", "--config-index",
                                         "--device-index"}
      OBVIOUS
    <3>2. {0} \subseteq Nat
      OBVIOUS
    <3> QED
      BY <3>1, <3>2
  <2>2. {a, b, c} \subseteq Items
    BY <1>3 DEF Option, Valued
  <2> HIDE DEF Plain, Items
  <2> QED
    BY <1>2, <2>1, <2>2, SeqMonotonic
<1> HIDE DEF args
<1>7. /\ DOMAIN args = 1 .. n + 3
      /\ \A i \in 1 .. n : args[i] = before[i]
      /\ args[n + 1] = a /\ args[n + 2] = b /\ args[n + 3] = c
  <2> HIDE DEF Items
  <2>1. PICK y : y = before \o <<a>>
    OBVIOUS
  <2>2. /\ y \in Seq(Items) /\ Len(y) = n + 1
        /\ (\A i \in 1 .. n : y[i] = before[i]) /\ y[n + 1] = a
    <3>1. <<a>> \in Seq(Items) /\ Len(<<a>>) = 1 /\ <<a>>[1] = a
      BY <1>6
    <3>2. /\ y \in Seq(Items) /\ Len(y) = Len(before) + Len(<<a>>)
          /\ \A i \in 1 .. Len(before) + Len(<<a>>) :
                y[i] = IF i <= Len(before) THEN before[i] ELSE <<a>>[i - Len(before)]
      BY <1>6, <2>1, <3>1, ConcatProperties
    <3>3. /\ y \in Seq(Items) /\ Len(y) = n + 1
          /\ \A i \in 1 .. n + 1 : y[i] = IF i <= n THEN before[i] ELSE <<a>>[i - n]
      BY <1>5, <3>1, <3>2
    <3>4. (n + 1) - n = 1
      OBVIOUS
    <3> QED
      BY <3>1, <3>3, <3>4
  <2>z. PICK z : z = <<b>> \o <<c>>
    OBVIOUS
  <2>3. z \in Seq(Items) /\ Len(z) = 2 /\ z[1] = b /\ z[2] = c
    <3>1. PICK s, t : s = <<b>> /\ t = <<c>>
      OBVIOUS
    <3>2. /\ s \in Seq(Items) /\ Len(s) = 1 /\ s[1] = b
          /\ t \in Seq(Items) /\ Len(t) = 1 /\ t[1] = c
      BY <1>6, <3>1
    <3>3. z = s \o t
      BY <2>z, <3>1
    <3> HIDE <3>1
    <3>4. /\ z \in Seq(Items) /\ Len(z) = Len(s) + Len(t)
          /\ \A i \in 1 .. Len(s) + Len(t) : z[i] = IF i <= Len(s) THEN s[i] ELSE t[i - Len(s)]
      BY <3>2, <3>3, ConcatProperties
    <3>5. Len(z) = 2 /\ z[1] = s[1] /\ z[2] = t[2 - 1]
      BY <3>2, <3>4
    <3> QED
      BY <3>2, <3>4, <3>5
  <2>4. /\ args \in Seq(Items) /\ Len(args) = n + 3
        /\ \A i \in 1 .. n + 3 : args[i] = IF i <= n + 1 THEN y[i] ELSE z[i - (n + 1)]
    <3>1. args = y \o z
      BY <1>4, <2>1, <2>z
    <3>2. /\ args \in Seq(Items) /\ Len(args) = Len(y) + Len(z)
          /\ \A i \in 1 .. Len(y) + Len(z) :
                args[i] = IF i <= Len(y) THEN y[i] ELSE z[i - Len(y)]
      BY <2>2, <2>3, <3>1, ConcatProperties
    <3>3. (n + 1) + 2 = n + 3
      OBVIOUS
    <3> QED
      BY <2>2, <2>3, <3>2, <3>3
  <2>5. DOMAIN args = 1 .. n + 3
    BY <2>4, LenProperties
  <2>6. (n + 2) - (n + 1) = 1 /\ (n + 3) - (n + 1) = 2
    OBVIOUS
  <2> QED
    BY <2>2, <2>3, <2>4, <2>5, <2>6
<1>8. \A i \in 1 .. n + 3 : i \in 1 .. n \/ i = n + 1 \/ i = n + 2 \/ i = n + 3
  OBVIOUS
<1>9. /\ \A i \in 1 .. n + 3 : args[i].flag = "--config-index" <=> i = n + 2
      /\ \A i \in 1 .. n + 3 : args[i].flag = "--device-index" <=> i = n + 3
  <2>1. \A i \in 1 .. n : args[i].flag \notin {"--config-index", "--device-index"}
    BY <1>5, <1>7
  <2>2. /\ args[n + 1].flag = "--config-file" /\ args[n + 2].flag = "--config-index"
        /\ args[n + 3].flag = "--device-index"
    BY <1>3, <1>7 DEF Option, Valued
  <2> QED
    BY <1>8, <2>1, <2>2
<1>10. TakeValue(args, "--config-index") = profile /\ TakeValue(args, "--device-index") = device
  <2>1. n + 3 \in Nat /\ n + 2 \in 1 .. n + 3 /\ n + 3 \in 1 .. n + 3
    OBVIOUS
  <2>2. /\ TakeValue(args, "--config-index") = args[n + 2].value
        /\ TakeValue(args, "--device-index") = args[n + 3].value
    BY <1>7, <1>9, <2>1, LastOfFlag
  <2> QED
    BY <1>3, <1>7, <2>2 DEF Valued
<1> QED
  BY <1>10 DEF Spawned, Parse, args

SessionInv ==
    /\ DOMAIN session = {"plan", "loaded", "finished", "shown", "asked"}
    /\ AskedIsLoaded

\* A device that is asked for by its place is planned and loaded alone.
LEMMA TestLoaded ==
  ASSUME NEW c, NEW profile \in DOMAIN c, NEW device \in DOMAIN c[profile].devices,
         NEW n \in Nat, NEW d \in Nat, n = Len(c), d = Len(c[profile].devices),
         DOMAIN c = 1 .. n, DOMAIN c[profile].devices = 1 .. d,
         NEW muted \in BOOLEAN, IsDevice(c[profile].devices[device]),
         session' = StartedTest(c, profile, device, muted, <<c[profile].devices[device]>>)
  PROVE  SessionInv'
<1>1. PICK entry : entry = c[profile].devices[device]
  OBVIOUS
<1>2. PICK chosen : chosen = [entry EXCEPT !.enabled = TRUE]
  OBVIOUS
<1>3. chosen.enabled = TRUE /\ chosen.class = entry.class
  BY <1>1, <1>2 DEF IsDevice
<1>4. device # 0 /\ ~(device > d) /\ profile # 0 /\ ~(profile > n)
  OBVIOUS
<1>5. PICK active \in BOOLEAN : active = ~(muted /\ entry.class = "Sound")
  OBVIOUS
<1>6. PICK subject : subject = SubjectFrom(entry, muted, TRUE) /\ subject.active = active
  <2>1. PICK subject : subject = [entry |-> entry, active |-> active]
    OBVIOUS
  <2>2. ((TRUE \/ entry.enabled) /\ ~(muted /\ entry.class = "Sound")) = active
    BY <1>5, Zenon
  <2>3. SubjectFrom(entry, muted, TRUE) = subject
    BY <2>1, <2>2, Zenon DEF SubjectFrom
  <2>4. subject.active = active
    BY <2>1
  <2> QED
    BY <2>3, <2>4
<1>7. Plan(c, profile, device, muted) = [subjects |-> <<subject>>, focused |-> TRUE]
  BY <1>1, <1>4, <1>6 DEF Plan, ResolveProfile
<1>8. LoadTestDevices(c, profile, device, muted) = IF active THEN <<chosen>> ELSE <<>>
  <2>1. ResolveProfile(Len(c), profile) = profile
    BY <1>4 DEF ResolveProfile
  <2> QED
    BY <1>1, <1>2, <1>3, <1>4, <1>5, <2>1, Zenon DEF LoadTestDevices
<1>9. <<subject>> # <<>>
  OBVIOUS
<1>10. PICK plan : plan = [subjects |-> <<subject>>, focused |-> TRUE]
  OBVIOUS
<1>11. plan.subjects = <<subject>> /\ plan.focused = TRUE
  BY <1>10
<1>12. session' = [plan |-> plan, loaded |-> IF active THEN <<chosen>> ELSE <<>>,
                   finished |-> FALSE, shown |-> {}, asked |-> <<entry>>]
  BY <1>1, <1>7, <1>8, <1>9, <1>10, <1>11, Zenon DEF StartedTest
<1>13. /\ DOMAIN session' = {"plan", "loaded", "finished", "shown", "asked"}
       /\ session'.plan = plan /\ session'.loaded = IF active THEN <<chosen>> ELSE <<>>
       /\ session'.asked = <<entry>>
  BY <1>12
<1>14. Range(<<subject>>) = {subject}
  BY DEF Range
<1>15. (IsSound(chosen) /\ \A s \in Range(plan.subjects) : ~s.active) <=> ~active
  BY <1>3, <1>5, <1>6, <1>11, <1>14 DEF IsSound
<1>16. session'.asked[1] = entry
  BY <1>13
<1>17. AskedIsLoaded'
  BY <1>2, <1>11, <1>13, <1>15, <1>16 DEF AskedIsLoaded
<1> QED
  BY <1>13, <1>17 DEF SessionInv

LEMMA NothingAsked ==
  ASSUME session' = NoSession
  PROVE  SessionInv'
BY DEF NoSession, SessionInv, AskedIsLoaded

LEMMA SessionStays ==
  ASSUME SessionInv, UNCHANGED session
  PROVE  SessionInv'
BY DEF SessionInv, AskedIsLoaded

LEMMA UnaskedTest ==
  ASSUME NEW onDisk, NEW scope, LaunchTest(scope, onDisk, <<>>)
  PROVE  SessionInv'
<1>1. CASE KillTracked
  BY <1>1, NothingAsked DEF KillTracked
<1>2. ASSUME NEW c, NEW p, NEW d, NEW muted, session' = StartedTest(c, p, d, muted, <<>>)
      PROVE  SessionInv'
  BY <1>2 DEF StartedTest, SessionInv, AskedIsLoaded
<1> QED
  BY <1>1, <1>2 DEF LaunchTest

\* start_editor_test: what is on disk under the cursor is what the form held.
LEMMA FormTested ==
  ASSUME Inv, TestForm
  PROVE  SessionInv'
<1>1. CASE KillTracked
  BY <1>1, NothingAsked DEF KillTracked
<1>2. CASE file' # config'
  <2>1. PICK scope : LaunchTest(scope, file', <<>>)
    BY <1>2 DEF TestForm
  <2> QED
    BY <2>1, UnaskedTest
<1>3. CASE ~KillTracked /\ file' = config'
  <2>1. /\ form.isNew \in BOOLEAN /\ {"device", "original", "isNew", "typing"} = DOMAIN form
        /\ IsDevice(form.device) /\ FormOpen
    BY DEF Inv, FormInv, FormTyped, TestForm, Editing, On, FormOpen
  <2>2. form.isNew \/ HasDevice
    BY <2>1 DEF Inv, FormInv
  <2>3. ConfigInv' /\ profileIndex' = profileIndex /\ FormIsStored'
    BY <2>1, <2>2, Committed DEF Inv, TestForm
  <2>4. PICK c, p, d : c = config' /\ p = profileIndex' /\ d = deviceIndex'
    OBVIOUS
  <2>5. /\ IsConfig(c) /\ p \in DOMAIN c /\ d \in DOMAIN c[p].devices
        /\ c[p].devices[d] = form.device /\ p = profileIndex
    BY <2>1, <2>3, <2>4, Committed, Zenon
       DEF ConfigInv, FormIsStored, Current, Profile, TestForm, Inv
  <2>6. IsList(c) /\ IsList(c[p].devices) /\ IsDevices(c[p].devices)
    BY <2>5 DEF IsConfig, IsProfile, IsDevices
  <2>7. PICK n \in Nat, k \in Nat : /\ n = Len(c) /\ k = Len(c[p].devices)
                                    /\ DOMAIN c = 1 .. n /\ DOMAIN c[p].devices = 1 .. k
    BY <2>6, ListLength
  <2>8. p \in Nat \ {0} /\ d \in Nat \ {0}
    BY <2>5, <2>7
  <2>9. PICK parsed : parsed = Spawned("test", state.flags, [profile |-> p, device |-> d])
    OBVIOUS
  <2>10. parsed.configIndex = p /\ parsed.deviceIndex = d
    BY <2>8, <2>9, TestAsked
  <2>11. session' = StartedTest(c, p, d, parsed.disableAudio, <<c[p].devices[d]>>)
    BY <1>3, <2>4, <2>5, <2>9, <2>10 DEF TestForm, LaunchTest, DeviceScope
  <2>12. parsed.disableAudio \in BOOLEAN
    BY <2>9 DEF Spawned, Parse
  <2>13. IsDevice(c[p].devices[d])
    BY <2>1, <2>5
  <2> QED
    BY <2>5, <2>7, <2>11, <2>12, <2>13, TestLoaded
<1> QED
  BY <1>1, <1>2, <1>3

LEMMA SessionSteps ==
  ASSUME Inv, SessionInv, Next
  PROVE  SessionInv'
<1>a. ASSUME KillTracked PROVE SessionInv'
  BY <1>a, NothingAsked DEF KillTracked
<1>b. ASSUME UNCHANGED processes PROVE SessionInv'
  BY <1>b, SessionStays DEF processes
<1>c. ASSUME NEW s, Restarted(s) PROVE SessionInv'
  BY <1>c, <1>a, NothingAsked DEF Restarted
<1>d. ASSUME NEW s, ApplySavedProfile(s) PROVE SessionInv'
  BY <1>d, <1>b, <1>c DEF ApplySavedProfile
<1>e. ASSUME NEW scope, RequestTest(scope) PROVE SessionInv'
  BY <1>e, <1>a, UnaskedTest DEF RequestTest
<1>1. CASE StartPlay \/ RestartPlay \/ StopAll \/ ToggleTest \/ StartDeviceTest
           \/ StopTestFromLogs \/ ChildEnds \/ StartTui
  BY <1>1, <1>a, <1>b, <1>c, <1>e
     DEF StartPlay, RestartPlay, StopAll, ToggleTest, StartDeviceTest, StopTestFromLogs, ChildEnds,
         StartTui
<1>2. CASE SwitchTab \/ CycleProfile \/ MoveDevice \/ ReorderDevice \/ ToggleEnabled
           \/ DuplicateDevice \/ OpenNewForm \/ OpenEditor \/ OpenTemplates \/ OpenProfileEdit
           \/ AskToDelete \/ EditField \/ BeginEdit \/ EndEdit \/ LeaveOrConfirmDiscard
  BY <1>2, <1>b
     DEF SwitchTab, CycleProfile, MoveDevice, ReorderDevice, ToggleEnabled, DuplicateDevice,
         OpenNewForm, OpenEditor, OpenTemplates, OpenProfileEdit, AskToDelete, EditField, BeginEdit,
         EndEdit, LeaveOrConfirmDiscard
<1>3. CASE TypeName \/ AddProfile \/ SaveProfile \/ PickTemplate \/ OpenSettingsSub \/ NudgeFlag
           \/ SaveFlags \/ SweepFromTune \/ SweepFromSettings \/ CycleSink
  BY <1>3, <1>b
     DEF TypeName, AddProfile, SaveProfile, PickTemplate, OpenSettingsSub, NudgeFlag, SaveFlags,
         SweepFromTune, SweepFromSettings, OpenSweep, CycleSink
<1>4. CASE BindSettings \/ BeginSweepEdit \/ EndSweepEdit \/ StartSweepJob \/ LeaveSweep
           \/ SweepEnds \/ ConfirmNo \/ Quit
  BY <1>4, <1>b
     DEF BindSettings, BeginSweepEdit, EndSweepEdit, StartSweepJob, LeaveSweep, SweepEnds, ConfirmNo,
         Quit
<1>5. CASE SaveForm
  BY <1>5, <1>b DEF SaveForm
<1>6. CASE ApplyTune
  BY <1>6, <1>b, <1>c DEF ApplyTune
<1>7. CASE StopFormTest
  BY <1>7, <1>a DEF StopFormTest
<1>8. CASE TestForm
  BY <1>8, FormTested
<1>9. CASE ConfirmYes
  BY <1>9, <1>a, <1>b, NothingAsked
     DEF ConfirmYes, DeleteDevice, DeleteProfile, RestartAfterSave, ApplyTemplate, DiscardUnsaved,
         ApplyTactileFilter
<1>10. CASE TestPlays
  <2>1. /\ DOMAIN session' = DOMAIN session /\ session'.plan = session.plan
        /\ session'.loaded = session.loaded /\ session'.asked = session.asked
    BY <1>10 DEF TestPlays, TestPlaysOut, SessionInv
  <2> QED
    BY <2>1 DEF SessionInv, AskedIsLoaded
<1> QED
  BY <1>1, <1>2, <1>3, <1>4, <1>5, <1>6, <1>7, <1>8, <1>9, <1>10 DEF Next

LEMMA InvInductive == Inv /\ [Next]_vars => Inv'
<1> SUFFICES ASSUME Inv, [Next]_vars PROVE Inv'
  OBVIOUS
<1>1. CASE Next
  BY <1>1, ConfigSteps, PlaceSteps, FlagsSteps, FormSteps DEF Inv
<1>2. CASE UNCHANGED vars
  BY <1>2 DEF vars, data, settings, place, editing, cursor, Inv, ConfigInv, StateInv, FormInv,
              FormTyped, FormOpen, HasDevice, Current, Profile, PlaceInv, SweepInv, FlagsInv, NameInv
<1> QED
  BY <1>1, <1>2

LEMMA InvInitially == Init => Inv
<1> SUFFICES ASSUME Init PROVE Inv
  OBVIOUS
<1>1. ConfigInv
  BY EditorsAssumption, ConfigFacts DEF EditorsAssumption, Init, ConfigInv
<1>2. FreshState \in [flags : Flags, byGame : [Games -> Flags \cup {NoFlags}], game : Games,
                      profile : Nat \ {0}]
  BY EditorsAssumption DEF EditorsAssumption, FreshState
<1>3. StateInv /\ FlagsInv
  BY <1>2, EditorsAssumption DEF EditorsAssumption, Init, StateInv, FlagsInv, FreshState
<1>4. FormInv
  <2>1. IsDevice(BlankEntry)
    BY EditorsAssumption DEF EditorsAssumption
  <2> QED
    BY <2>1 DEF Init, NewForm, FormInv, FormTyped, FormOpen, Forms
<1>5. PlaceInv /\ SweepInv
  BY DEF Init, NewSweep, PlaceInv, SweepInv, Screens, MainTabs
<1>6. NameInv
  BY EditorsAssumption DEF EditorsAssumption, Init, NameInv
<1> QED
  BY <1>1, <1>3, <1>4, <1>5, <1>6 DEF Inv

\* What was typed into a device form, set in the play flags or typed into a
\* sweep is lost by no step of the TUI but the ones that take it over into the
\* config or the flags in memory (whether or not the file is then written), end
\* it or were asked whether to discard it.
THEOREM EditsSurviveCorrect == Spec => EditsSurvive
<1>1. Inv /\ [Next]_vars => [FormSurvives /\ FlagsSurvive /\ TextSurvives]_vars
  BY FormSteps, FlagsSteps, TextSteps DEF Inv
<1> QED
  BY <1>1, InvInitially, InvInductive, PTL DEF Spec, EditsSurvive

\* A test that a device form asked for, of a device whose save reached the
\* disk, loads that device alone and switched on, or nothing where it is a
\* muted shaker; whatever the flags on its command line are.
THEOREM FormTestCorrect == Spec => []AskedIsLoaded
<1>1. Init => Inv /\ SessionInv
  <2>1. Init => SessionInv
    BY DEF Init, NoSession, SessionInv, AskedIsLoaded
  <2> QED
    BY <2>1, InvInitially
<1>2. Inv /\ SessionInv /\ [Next]_vars => (Inv /\ SessionInv)'
  <2> SUFFICES ASSUME Inv, SessionInv, [Next]_vars PROVE SessionInv'
    BY InvInductive
  <2>2. CASE Next
    BY <2>2, SessionSteps
  <2>3. CASE UNCHANGED vars
    BY <2>3, SessionStays DEF vars, processes
  <2> QED
    BY <2>2, <2>3
<1>3. SessionInv => AskedIsLoaded
  BY DEF SessionInv
<1> QED
  BY <1>1, <1>2, <1>3, PTL DEF Spec
=============================================================================
