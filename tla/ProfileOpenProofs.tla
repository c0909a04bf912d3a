-------------------------- MODULE ProfileOpenProofs --------------------------
(***************************************************************************)
(* Ports, streams and HID devices of a profile, for any profiles, any      *)
(* table, any hardware and a sound server that does as it likes.           *)
(*                                                                         *)
(* While entries are considered, the table of ports is what the counts     *)
(* must agree with (Table); what is held belongs to a loaded device or to  *)
(* the entry under consideration (InProgress), and what the audio thread   *)
(* may call has a stream (StreamInv).                                      *)
(***************************************************************************)
EXTENDS ProfileOpen, FiniteSetTheorems, TLAPS

SerialKinds == PlainSerial \cup ScriptedSerial \cup {"MozaNew", "MozaKs"}

-----------------------------------------------------------------------------
(* The invariant, in parts *)

\* The table while entry n is under consideration: only entries up to n hold or
\* opened a port, a port is in one slot, and one in use is in the table.
Table(n) ==
    /\ SerialTypeOK
    /\ \A d \in Entries : handle[d] # NoOne => handle[d] <= d /\ d <= n
    /\ \A s \in Slots : slots[s] # NoOne
           => slots[s] <= n /\ (slots[s] = n => handle[n] # NoOne)
    /\ \A s, t \in Slots : slots[s] = slots[t] /\ slots[s] # NoOne => s = t
    /\ \A c \in Entries : InUse(c) => \E s \in Slots : slots[s] = c
    /\ RefsCountUsers
    /\ OneFilePerPort

StreamInv ==
    /\ stream \in [Shakers -> {"none", "creating", "ready", "failed"}]
    /\ callback = streams /\ streams \subseteq Shakers
    /\ \A d \in streams : stream[d] # "none"
    /\ connecting # NoShaker
           => connecting \in Shakers \ streams /\ stream[connecting] # "none" /\ context = "ready"
    /\ IF lock = "audio"
       THEN audio \in [at : {"voice", "write"}, on : streams]
       ELSE audio = AudioIdle

HostTypeOK ==
    /\ phase \in {"empty", "opening", "loaded", "silenced"}
    /\ profile \in Profiles \cup {<<>>}
    /\ slot \in Nat
    /\ loaded \in Seq(Device)
    /\ usb \subseteq Entries

\* What the entry under consideration may hold.
HoldsPort(d) ==
    /\ phase = "opening" /\ d = slot /\ slot \in DOMAIN profile
    /\ entry.enabled /\ entry.kind \in SerialKinds
    /\ opened.outcome \in {"fresh", "shared"}
HoldsHid(d) ==
    /\ phase = "opening" /\ d = slot /\ slot \in DOMAIN profile
    /\ entry.enabled /\ entry.kind \in HidKinds
HoldsStream(d) ==
    /\ phase = "opening" /\ d = slot /\ slot \in DOMAIN profile
    /\ entry.enabled /\ entry.kind = "Sound"

InProgress ==
    /\ \A d \in LoadedSlots : d < slot
    /\ \A d \in Entries : handle[d] # NoOne => d \in LoadedSlots \/ HoldsPort(d)
    /\ \A d \in usb : d \in UsbSlots \/ HoldsHid(d)
    /\ connecting # NoShaker => HoldsStream(connecting)

PhaseInv ==
    /\ phase = "opening" => Table(slot)
    /\ phase # "opening" => slots = EmptySlots /\ opened = NotOpened
    /\ phase = "empty" => handle = NoHandles /\ port = NoPorts /\ usb = {} /\ loaded = NoDevices
    /\ UsbSlots \subseteq usb
    /\ phase \in {"opening", "loaded"} => streams = SoundSlots
    /\ phase \in {"silenced", "empty"} => streams = {}

OpenIInv ==
    /\ SerialTypeOK /\ HostTypeOK
    /\ PortsAreCounted
    /\ StreamInv /\ InProgress /\ PhaseInv

-----------------------------------------------------------------------------
(* The entries of a profile *)

LEMMA EntryTypes ==
  ASSUME HostTypeOK, slot \in DOMAIN profile
  PROVE  /\ slot \in Entries /\ slot # NoOne /\ profile \in Profiles
         /\ entry \in DeviceEntry
         /\ entry.kind = "Sound" => slot \in Shakers
<1>1. profile # <<>> /\ profile \in Profiles
  BY DEF HostTypeOK
<1> QED
  BY <1>1, ProfileOpenAssumption, SerialPortsAssumption DEF entry

\* Kinds are of one sort.
LEMMA KindSorts ==
  /\ SerialKinds \cap HidKinds = {}
  /\ "Sound" \notin SerialKinds \cup HidKinds
BY DEF SerialKinds, PlainSerial, ScriptedSerial, HidKinds, UsbWheels, Pedals

\* What a device that is built adds.
LEMMA BuiltSlots ==
  ASSUME HostTypeOK, slot \in DOMAIN profile,
         NEW lua \in BOOLEAN, NEW armed \in BOOLEAN,
         NEW read \in {"none", "unset", "counted", "points"},
         BuildDevice(lua, armed, read)
  PROVE  /\ HostTypeOK' /\ slot' = slot + 1
         /\ LoadedSlots' = LoadedSlots \cup {slot}
         /\ UsbSlots' = UsbSlots \cup (IF entry.kind \in HidKinds THEN {slot} ELSE {})
         /\ SoundSlots' = SoundSlots \cup (IF entry.kind = "Sound" THEN {slot} ELSE {})
<1> DEFINE d == [slot |-> slot, kind |-> entry.kind, lua |-> lua, armed |-> armed,
                 read |-> read]
<1>1. d \in Device
  BY EntryTypes DEF DeviceEntry, Device
<1>2. d.slot = slot /\ d.kind = entry.kind
  OBVIOUS
<1>3. loaded' = Append(loaded, d) /\ UNCHANGED <<phase, profile, haptics, usb>>
      /\ slot' = slot + 1
  BY DEF BuildDevice
<1> HIDE DEF d
<1>4. /\ loaded \in Seq(Device) /\ loaded' \in Seq(Device)
      /\ DOMAIN loaded = 1 .. Len(loaded) /\ Len(loaded) \in Nat
      /\ DOMAIN loaded' = 1 .. (Len(loaded) + 1)
      /\ \A i \in 1 .. Len(loaded) : loaded'[i] = loaded[i]
      /\ loaded'[Len(loaded) + 1] = d
  BY <1>1, <1>3 DEF HostTypeOK
<1>5. HostTypeOK'
  BY <1>3, <1>4 DEF HostTypeOK
<1> QED
  BY <1>2, <1>3, <1>4, <1>5 DEF LoadedSlots, UsbSlots, SoundSlots

LEMMA SlotSets ==
  UsbSlots \subseteq LoadedSlots /\ SoundSlots \subseteq LoadedSlots
BY DEF LoadedSlots, UsbSlots, SoundSlots

-----------------------------------------------------------------------------
(* The table of ports *)

LEMMA UsersFinite ==
  ASSUME NEW c
  PROVE  /\ IsFiniteSet(Users(c)) /\ Cardinality(Users(c)) \in Nat
         /\ Cardinality(Users(c)) = 0 <=> Users(c) = {}
<1>1. IsFiniteSet(Entries) /\ Users(c) \in SUBSET Entries
  BY SerialPortsAssumption DEF Users
<1> HIDE DEF Users
<1>2. IsFiniteSet(Users(c))
  BY <1>1, FS_Subset
<1> QED
  BY <1>2, FS_CardinalityType, FS_EmptySet

\* A port that counts right is in use if and only if it has users.
LEMMA UsedByUsers ==
  ASSUME SerialTypeOK, RefsCountUsers, NEW c \in Entries
  PROVE  InUse(c) <=> Users(c) # {}
BY UsersFinite DEF RefsCountUsers, InUse

\* One user more, or one less, of the port c.
LEMMA UserAdded ==
  ASSUME SerialTypeOK, NEW n \in Entries, NEW c \in Entries, handle[n] = NoOne,
         handle' = [handle EXCEPT ![n] = c]
  PROVE  /\ Users(c)' = Users(c) \cup {n}
         /\ Cardinality(Users(c)') = Cardinality(Users(c)) + 1
         /\ \A e \in Entries \ {c} : Users(e)' = Users(e)
<1>1. handle \in [Entries -> Entries \cup {NoOne}] /\ NoOne \notin Entries
  BY SerialPortsAssumption DEF SerialTypeOK
<1>2. Users(c)' = Users(c) \cup {n} /\ n \notin Users(c)
  BY <1>1 DEF Users
<1>3. \A e \in Entries \ {c} : Users(e)' = Users(e)
  BY <1>1 DEF Users
<1>4. Cardinality(Users(c) \cup {n}) = Cardinality(Users(c)) + 1
  BY <1>2, UsersFinite, FS_AddElement
<1> QED BY <1>2, <1>3, <1>4

LEMMA UserDropped ==
  ASSUME SerialTypeOK, NEW n \in Entries, NEW c \in Entries, handle[n] = c,
         handle' = [handle EXCEPT ![n] = NoOne]
  PROVE  /\ Users(c)' = Users(c) \ {n}
         /\ Cardinality(Users(c)') = Cardinality(Users(c)) - 1
         /\ Cardinality(Users(c)) > 0
         /\ \A e \in Entries \ {c} : Users(e)' = Users(e)
<1>1. handle \in [Entries -> Entries \cup {NoOne}] /\ NoOne \notin Entries
  BY SerialPortsAssumption DEF SerialTypeOK
<1>2. Users(c)' = Users(c) \ {n} /\ n \in Users(c)
  BY <1>1 DEF Users
<1>3. \A e \in Entries \ {c} : Users(e)' = Users(e)
  BY <1>1 DEF Users
<1>4. Cardinality(Users(c) \ {n}) = Cardinality(Users(c)) - 1
  BY <1>2, UsersFinite, FS_RemoveElement
<1>5. Cardinality(Users(c)) > 0
  BY <1>2, UsersFinite
<1> QED BY <1>2, <1>3, <1>4, <1>5

\* A table without room has a used port in every slot.
LEMMA FullTable ==
  ASSUME NEW n, Table(n), ~HasRoom
  PROVE  Cardinality({c \in Entries : Users(c) # {}}) >= Capacity
<1> DEFINE Used == {c \in Entries : Users(c) # {}}
<1>1. IsFiniteSet(Used) /\ Cardinality(Used) \in Nat
  <2>1. Used \in SUBSET Entries /\ IsFiniteSet(Entries)
    BY SerialPortsAssumption
  <2> HIDE DEF Used
  <2> QED BY <2>1, FS_Subset, FS_CardinalityType
<1>2. \A s \in Slots : slots[s] \in Used /\ slots[s] # NoOne
  BY UsedByUsers, SerialPortsAssumption DEF Table, HasRoom, SlotIsFree
<1>3. slots \in Injection(Slots, Used)
  <2>1. slots \in [Slots -> Used]
    BY <1>2 DEF Table, SerialTypeOK
  <2> QED BY <2>1, <1>2 DEF Table, Injection, IsInjective
<1>4. Cardinality(Slots) = Capacity
  BY FS_Interval, SerialPortsAssumption DEF Slots
<1> HIDE DEF Used
<1>5. Cardinality(Slots) <= Cardinality(Used)
  BY <1>1, <1>3, FS_Injection
<1> QED BY <1>4, <1>5, <1>1, SerialPortsAssumption DEF Used

\* An entry that has nothing of its own, neither a handle nor a slot.
LEMMA EntryIsNew ==
  ASSUME NEW n \in Entries, Table(n), handle[n] = NoOne
  PROVE  /\ Users(n) = {}
         /\ \A s \in Slots : slots[s] # n
<1>1. n \in Nat /\ n # NoOne /\ \A d \in Entries : d \in Nat
  BY SerialPortsAssumption
<1>2. \A d \in Entries : handle[d] # n
  BY <1>1 DEF Table
<1> QED BY <1>1, <1>2 DEF Table, Users

\* What open_serial leaves keeps the table right, whichever way it ends.
LEMMA OpenKeepsTable ==
  ASSUME NEW n \in Entries, Table(n), handle[n] = NoOne,
         NEW p \in Paths \cup {NoPath}, NEW baud \in Bauds, OpenSerial(n, p, baud)
  PROVE  /\ Table(n)'
         /\ \A d \in Entries \ {n} : handle'[d] = handle[d]
         /\ handle'[n] # NoOne => opened'.outcome \in {"fresh", "shared"}
         /\ ExhaustedIsFull'
<1>1. /\ SerialTypeOK /\ RefsCountUsers /\ OneFilePerPort
      /\ n \in Nat /\ n # NoOne /\ \A d \in Entries : d \in Nat /\ d # NoOne
  BY SerialPortsAssumption DEF Table
<1>2. ASSUME UNCHANGED <<slots, port, handle>>, NEW how \in Outcomes, Ended(n, p, how),
             how = "exhausted" => ~HasRoom
      PROVE  /\ Table(n)' /\ ExhaustedIsFull' /\ handle' = handle
  <2>1. opened' \in [by : Entries \cup {NoOne}, path : Paths \cup {NoPath}, outcome : Outcomes]
        /\ opened'.outcome = how
    BY <1>2 DEF Ended
  <2>2. SerialTypeOK'
    BY <1>1, <1>2, <2>1 DEF SerialTypeOK
  <2>3. Table(n)'
    BY <1>2, <2>2 DEF Table, InUse, RefsCountUsers, OneFilePerPort, Users
  <2>4. ExhaustedIsFull'
    BY <1>2, <2>1, FullTable DEF ExhaustedIsFull, Users
  <2> QED BY <1>2, <2>3, <2>4
<1>3. CASE OpenEmpty(n, p) \/ OpenExhausted(n, p) \/ OpenMissing(n, p)
  BY <1>1, <1>2, <1>3 DEF OpenEmpty, OpenExhausted, OpenMissing, Outcomes, SerialTypeOK
<1>4. CASE OpenShared(n, p)
  <2>1. PICK c \in Entries :
          /\ Found(c, p)
          /\ port' = [port EXCEPT ![c].refs = @ + 1]
          /\ handle' = [handle EXCEPT ![n] = c]
          /\ Ended(n, p, "shared")
          /\ UNCHANGED slots
    BY <1>4 DEF OpenShared
  <2>2. c < n
    BY <2>1, <1>1, EntryIsNew DEF Found, Table
  <2>3. /\ port[c].refs \in Nat
        /\ port' \in [Entries -> SharedSerial]
        /\ port'[c].refs = port[c].refs + 1
        /\ \A e \in Entries : port'[e].path = port[e].path
        /\ \A e \in Entries \ {c} : port'[e] = port[e]
    BY <2>1, <1>1 DEF SerialTypeOK, SharedSerial
  <2>4. /\ opened' \in [by : Entries \cup {NoOne}, path : Paths \cup {NoPath}, outcome : Outcomes]
        /\ opened'.outcome = "shared"
    BY <2>1 DEF Ended, Outcomes
  <2>5. SerialTypeOK' /\ handle'[n] = c /\ \A d \in Entries \ {n} : handle'[d] = handle[d]
    BY <2>1, <2>3, <2>4, <1>1 DEF SerialTypeOK
  <2>6. RefsCountUsers'
    <3>1. /\ Cardinality(Users(c)') = Cardinality(Users(c)) + 1
          /\ \A e \in Entries \ {c} : Users(e)' = Users(e)
      BY <2>1, <1>1, UserAdded
    <3> SUFFICES ASSUME NEW e \in Entries PROVE port'[e].refs = Cardinality(Users(e)')
      BY DEF RefsCountUsers
    <3>2. port[e].refs = Cardinality(Users(e))
      BY <1>1 DEF RefsCountUsers
    <3> QED BY <3>1, <3>2, <2>3
  <2>7. OneFilePerPort'
    <3>1. Users(c) # {}
      BY <2>1, <1>1, UsedByUsers DEF Found, SharedNamed
    <3>2. \A e \in Entries : Users(e)' # {} => Users(e) # {}
      BY <3>1, <2>1, <1>1, UserAdded
    <3> QED BY <3>2, <2>3, <1>1 DEF OneFilePerPort
  <2>8. \A e \in Entries : InUse(e)' => InUse(e)
    BY <2>1, <2>3 DEF InUse, Found, SharedNamed
  <2>9. Table(n)'
    BY <2>1, <2>2, <2>5, <2>6, <2>7, <2>8, <1>1 DEF Table
  <2> QED BY <2>4, <2>5, <2>9 DEF ExhaustedIsFull
<1>5. CASE OpenFresh(n, p, baud)
  <2>1. PICK s \in Slots : FirstFree(s) /\ slots' = [slots EXCEPT ![s] = n]
    BY <1>5 DEF OpenFresh
  <2>2. /\ port' = [port EXCEPT ![n] = [path |-> p, baud |-> baud, refs |-> 1, exclusive |-> TRUE]]
        /\ handle' = [handle EXCEPT ![n] = n]
        /\ Ended(n, p, "fresh") /\ NewPath(p) /\ p \in Paths
    BY <1>5 DEF OpenFresh, NewPath
  <2>3. /\ port' \in [Entries -> SharedSerial]
        /\ port'[n].refs = 1 /\ port'[n].path = p
        /\ \A e \in Entries \ {n} : port'[e] = port[e]
    BY <2>2, <1>1 DEF SerialTypeOK, SharedSerial
  <2>4. /\ opened' \in [by : Entries \cup {NoOne}, path : Paths \cup {NoPath}, outcome : Outcomes]
        /\ opened'.outcome = "fresh"
    BY <2>2 DEF Ended, Outcomes
  <2>5. /\ SerialTypeOK' /\ handle'[n] = n /\ slots'[s] = n
        /\ \A d \in Entries \ {n} : handle'[d] = handle[d]
        /\ \A t \in Slots \ {s} : slots'[t] = slots[t]
    BY <2>1, <2>2, <2>3, <2>4, <1>1 DEF SerialTypeOK
  <2>6. Users(n) = {} /\ \A t \in Slots : slots[t] # n
    BY EntryIsNew
  <2>7. RefsCountUsers'
    <3>1. /\ Cardinality(Users(n)') = Cardinality(Users(n)) + 1
          /\ \A e \in Entries \ {n} : Users(e)' = Users(e)
      BY <2>2, <1>1, UserAdded
    <3>2. Cardinality(Users(n)) = 0
      BY <2>6, FS_EmptySet
    <3> SUFFICES ASSUME NEW e \in Entries PROVE port'[e].refs = Cardinality(Users(e)')
      BY DEF RefsCountUsers
    <3>3. port[e].refs = Cardinality(Users(e))
      BY <1>1 DEF RefsCountUsers
    <3> QED BY <3>1, <3>2, <3>3, <2>3
  <2>8. OneFilePerPort'
    <3>1. \A e \in Entries \ {n} : Users(e)' # {} =>
            FoldCase(port[e].path) # FoldCase(p)
      <4> SUFFICES ASSUME NEW e \in Entries \ {n}, Users(e)' # {}
                   PROVE  FoldCase(port[e].path) # FoldCase(p)
        OBVIOUS
      <4>1. Users(e) # {}
        BY <2>2, <1>1, UserAdded
      <4>2. InUse(e) /\ \E t \in Slots : slots[t] = e
        BY <4>1, <1>1, UsedByUsers DEF Table
      <4> QED BY <4>2, <2>2, <1>1 DEF NewPath, Found, SharedNamed
    <3>2. \A e \in Entries \ {n} : Users(e)' # {} => Users(e) # {}
      BY <2>2, <1>1, UserAdded
    <3> QED BY <3>1, <3>2, <2>3, <1>1 DEF OneFilePerPort
  <2>9. \A c \in Entries : InUse(c)' => \E t \in Slots : slots'[t] = c
    <3> SUFFICES ASSUME NEW c \in Entries, InUse(c)' PROVE \E t \in Slots : slots'[t] = c
      OBVIOUS
    <3>1. CASE c = n
      BY <3>1, <2>5
    <3>2. CASE c # n
      <4>1. InUse(c)
        BY <3>2, <2>3 DEF InUse
      <4>2. PICK t \in Slots : slots[t] = c
        BY <4>1 DEF Table
      <4>3. t # s
        BY <4>1, <4>2, <2>1 DEF FirstFree, SlotIsFree
      <4> QED BY <4>2, <4>3, <2>5
    <3> QED BY <3>1, <3>2
  <2>10. /\ \A d \in Entries : handle'[d] # NoOne => handle'[d] <= d /\ d <= n
         /\ \A t \in Slots : slots'[t] # NoOne
              => slots'[t] <= n /\ (slots'[t] = n => handle'[n] # NoOne)
    BY <2>5, <1>1 DEF Table
  <2>11. \A t, u \in Slots : slots'[t] = slots'[u] /\ slots'[t] # NoOne => t = u
    BY <2>5, <2>6 DEF Table
  <2>12. Table(n)'
    BY <2>5, <2>7, <2>8, <2>9, <2>10, <2>11 DEF Table
  <2> QED BY <2>4, <2>5, <2>12 DEF ExhaustedIsFull
<1> QED BY <1>3, <1>4, <1>5 DEF OpenSerial

\* The next entry finds the table as the last one left it.
LEMMA NextEntry == \A n \in Nat : Table(n) => Table(n + 1)
<1> SUFFICES ASSUME NEW n \in Nat, Table(n) PROVE Table(n + 1)
  OBVIOUS
<1>1. \A d \in Entries : d \in Nat
  BY SerialPortsAssumption
<1>2. \A d \in Entries : handle[d] # NoOne => handle[d] <= d /\ d <= n + 1
  BY <1>1 DEF Table
<1>3. \A s \in Slots : slots[s] # NoOne => slots[s] <= n + 1 /\ slots[s] # n + 1
  BY <1>1 DEF Table, SerialTypeOK
<1> QED BY <1>2, <1>3 DEF Table

LEMMA NextEntryLater == (\A n \in Nat : Table(n) => Table(n + 1))'
BY NextEntry, PTL

\* A refused device gives its use of the port back.
LEMMA DropKeepsTable ==
  ASSUME NEW n \in Entries, Table(n), handle[n] # NoOne, DropPort(n), UNCHANGED <<slots, opened>>
  PROVE  /\ Table(n + 1)'
         /\ handle'[n] = NoOne /\ \A d \in Entries \ {n} : handle'[d] = handle[d]
<1>0. PICK c \in Entries : handle[n] = c
  BY DEF Table, SerialTypeOK
<1>1. /\ SerialTypeOK /\ RefsCountUsers /\ OneFilePerPort
      /\ n \in Nat /\ n # NoOne /\ \A d \in Entries : d \in Nat /\ d # NoOne
  BY SerialPortsAssumption DEF Table
<1>2. /\ handle' = [handle EXCEPT ![n] = NoOne]
      /\ port' = [port EXCEPT ![c].refs = @ - 1]
  BY <1>0 DEF DropPort
<1>3. /\ Cardinality(Users(c)') = Cardinality(Users(c)) - 1
      /\ Cardinality(Users(c)) > 0
      /\ Users(c)' = Users(c) \ {n}
      /\ \A e \in Entries \ {c} : Users(e)' = Users(e)
  BY <1>0, <1>1, <1>2, UserDropped
<1>4. port[c].refs = Cardinality(Users(c)) /\ port[c].refs \in Nat
  BY <1>1 DEF RefsCountUsers, SerialTypeOK, SharedSerial
<1>5. /\ port' \in [Entries -> SharedSerial]
      /\ port'[c].refs = port[c].refs - 1
      /\ \A e \in Entries : port'[e].path = port[e].path
      /\ \A e \in Entries \ {c} : port'[e] = port[e]
  BY <1>1, <1>2, <1>3, <1>4 DEF SerialTypeOK, SharedSerial
<1>6. /\ SerialTypeOK' /\ handle'[n] = NoOne
      /\ \A d \in Entries \ {n} : handle'[d] = handle[d]
  BY <1>1, <1>2, <1>5 DEF SerialTypeOK
<1>7. RefsCountUsers'
  <2> SUFFICES ASSUME NEW e \in Entries PROVE port'[e].refs = Cardinality(Users(e)')
    BY DEF RefsCountUsers
  <2>1. port[e].refs = Cardinality(Users(e))
    BY <1>1 DEF RefsCountUsers
  <2> QED BY <2>1, <1>3, <1>5
<1>8. OneFilePerPort'
  <2>1. \A e \in Entries : Users(e)' # {} => Users(e) # {}
    BY <1>3
  <2> QED BY <2>1, <1>5, <1>1 DEF OneFilePerPort
<1>9. \A e \in Entries : InUse(e)' => InUse(e)
  BY <1>3, <1>4, <1>5 DEF InUse
<1>10. \A d \in Entries : handle'[d] # NoOne => handle'[d] <= d /\ d <= n + 1
  <2>1. \A d \in Entries : handle[d] # NoOne => handle[d] <= d /\ d <= n
    BY DEF Table
  <2> QED BY <2>1, <1>1, <1>6
<1>11. \A s \in Slots : slots[s] # NoOne => slots[s] <= n + 1 /\ slots[s] # n + 1
  <2> SUFFICES ASSUME NEW s \in Slots, slots[s] # NoOne
               PROVE  slots[s] <= n + 1 /\ slots[s] # n + 1
    OBVIOUS
  <2>1. slots[s] \in Entries
    BY <1>1 DEF SerialTypeOK
  <2>2. slots[s] <= n
    BY DEF Table
  <2>3. slots[s] \in Nat /\ n \in Nat
    BY <2>1, <1>1
  <2> QED BY <2>2, <2>3
<1> QED
  BY <1>6, <1>7, <1>8, <1>9, <1>10, <1>11 DEF Table

\* Giving up exclusive use of a tty changes no count.
LEMMA ShareKeepsTable ==
  ASSUME NEW n \in Entries, NEW m, Table(m), handle[n] # NoOne, SharePort(n),
         UNCHANGED <<slots, handle, opened>>
  PROVE  Table(m)'
<1>1. PICK kept \in BOOLEAN : port' = [port EXCEPT ![handle[n]].exclusive = @ /\ kept]
  BY DEF SharePort, Share
<1>2. /\ port' \in [Entries -> SharedSerial]
      /\ \A c \in Entries : port'[c].refs = port[c].refs /\ port'[c].path = port[c].path
  BY <1>1 DEF Table, SerialTypeOK, SharedSerial
<1>3. \A c : Users(c)' = Users(c)
  BY DEF Users
<1>4. SerialTypeOK'
  BY <1>2 DEF Table, SerialTypeOK
<1>5. RefsCountUsers' /\ OneFilePerPort'
  BY <1>2, <1>3 DEF Table, RefsCountUsers, OneFilePerPort
<1> QED BY <1>2, <1>4, <1>5 DEF Table, InUse

\* Nobody has a port: at first, and after a release.
NoPortsHeld ==
    slots = EmptySlots /\ handle = NoHandles /\ port = NoPorts /\ opened = NotOpened

LEMMA NoPortsTable == NoPortsHeld => PortsAreCounted /\ \A n \in Nat : Table(n)
<1> SUFFICES ASSUME NoPortsHeld PROVE PortsAreCounted /\ \A n \in Nat : Table(n)
  OBVIOUS
<1> USE DEF NoPortsHeld
<1>1. SerialTypeOK
  BY SerialPortsAssumption DEF SerialTypeOK, EmptySlots, NoHandles, NoPorts, NotOpened,
     SharedSerial, Outcomes
<1>2. \A c \in Entries : Users(c) = {} /\ port[c].refs = 0
  BY SerialPortsAssumption DEF Users, NoHandles, NoPorts
<1>3. RefsCountUsers /\ OneFilePerPort
  BY <1>2, FS_EmptySet DEF RefsCountUsers, OneFilePerPort
<1>4. ExhaustedIsFull
  BY DEF ExhaustedIsFull, NotOpened
<1>5. \A n \in Nat : Table(n)
  BY <1>1, <1>2, <1>3 DEF Table, EmptySlots, NoHandles, InUse
<1> QED BY <1>3, <1>4, <1>5 DEF PortsAreCounted

LEMMA NoPortsLater == NoPortsHeld' => (PortsAreCounted /\ \A n \in Nat : Table(n))'
BY NoPortsTable, PTL

-----------------------------------------------------------------------------
(* The streams, whatever thread moves *)

\* What the invariant says of the host's side of the streams.
LEMMA AudioKeepsStreams ==
  ASSUME StreamInv, AudioThread
  PROVE  StreamInv' /\ UNCHANGED <<streams, callback, connecting, context>>
<1> USE DEF StreamInv
<1>1. CASE ContextMoves
  <2>1. stream' \in [Shakers -> {"none", "creating", "ready", "failed"}]
        /\ \A d \in Shakers : stream[d] # "none" => stream'[d] # "none"
    BY <1>1 DEF ContextMoves
  <2> QED BY <1>1, <2>1 DEF ContextMoves
<1>2. ASSUME NEW d \in Shakers, ServerMoves(d)
      PROVE  StreamInv' /\ UNCHANGED <<streams, callback, connecting, context>>
  <2>1. stream' \in [Shakers -> {"none", "creating", "ready", "failed"}]
        /\ \A e \in Shakers : stream[e] # "none" => stream'[e] # "none"
    BY <1>2 DEF ServerMoves
  <2> QED BY <1>2, <2>1 DEF ServerMoves
<1>3. ASSUME NEW d \in Shakers, WritePlayback(d)
      PROVE  StreamInv' /\ UNCHANGED <<streams, callback, connecting, context>>
  BY <1>3 DEF WritePlayback
<1>4. CASE RenderVoice
  BY <1>4 DEF RenderVoice, AudioIdle
<1>5. CASE WriteBytes
  BY <1>5 DEF WriteBytes, AudioIdle
<1> QED BY <1>1, <1>2, <1>3, <1>4, <1>5 DEF AudioThread

\* The session opens: no stream is touched.
LEMMA SessionKeepsStreams ==
  ASSUME StreamInv, AudioDisabled \/ RejectContext \/ BeginSession \/ PollSettled \/ Settled
  PROVE  StreamInv' /\ UNCHANGED <<streams, connecting>>
BY DEF StreamInv, AudioDisabled, RejectContext, BeginSession, PollSettled, Settled

\* A stream is connected for an entry that has none.
LEMMA ConnectKeepsStreams ==
  ASSUME StreamInv, NEW d \in Shakers \ streams, d # NoShaker, BeginConnect(d)
  PROVE  StreamInv' /\ connecting' = d /\ UNCHANGED streams
BY DEF StreamInv, BeginConnect, AudioIdle

LEMMA WaitKeepsStreams ==
  ASSUME StreamInv, Nap \/ Relock
  PROVE  StreamInv' /\ UNCHANGED <<streams, connecting>>
BY DEF StreamInv, Nap, Relock, Waiting, AudioIdle

LEMMA ConnectedKeepsStreams ==
  ASSUME StreamInv, Connected
  PROVE  /\ StreamInv' /\ connecting # NoShaker /\ connecting' = NoShaker
         /\ streams' = streams \cup {connecting}
BY DEF StreamInv, Connected, Waiting, AudioIdle

LEMMA NotConnectedKeepsStreams ==
  ASSUME StreamInv, NotConnected
  PROVE  StreamInv' /\ connecting # NoShaker /\ connecting' = NoShaker /\ UNCHANGED streams
BY DEF StreamInv, NotConnected, Waiting, Released, AudioIdle

LEMMA MixKeepsStreams ==
  ASSUME StreamInv, NEW d, BeginMix(d) \/ EndMix
  PROVE  StreamInv' /\ UNCHANGED <<streams, connecting>>
BY DEF StreamInv, BeginMix, EndMix

\* All streams go while the audio thread is at none of them.
LEMMA ReleaseKeepsStreams ==
  ASSUME StreamInv, DisconnectShakers \/ CloseSession
  PROVE  StreamInv' /\ streams' = {} /\ connecting = NoShaker /\ UNCHANGED connecting
BY DEF StreamInv, DisconnectShakers, CloseSession, HostFree, Released, AudioIdle

\* What the audio thread may reach is there.
LEMMA LivePointers == StreamInv => PointersAreLive
BY DEF StreamInv, PointersAreLive, AudioIdle

-----------------------------------------------------------------------------
(* What consider_entry does with an entry, whatever its kind *)

Passes ==
    /\ connecting = NoShaker /\ handle[slot] = NoOne
    /\ Unopened
    /\ UNCHANGED <<serial, pulse>>
TakesHid ==
    /\ connecting = NoShaker /\ handle[slot] = NoOne
    /\ entry.enabled /\ entry.kind \in HidKinds
    /\ usb' = usb \cup {slot}
    /\ UNCHANGED <<phase, profile, slot, haptics, loaded, serial, pulse>>
Builds ==
    /\ connecting = NoShaker
    /\ \E lua \in BOOLEAN, armed \in BOOLEAN, read \in {"none", "unset", "counted", "points"} :
         BuildDevice(lua, armed, read)
    /\ UNCHANGED pulse
KeepsHid ==
    /\ handle[slot] = NoOne
    /\ slot \in usb /\ entry.kind \in HidKinds
    /\ Builds
    /\ UNCHANGED serial
OpensPort ==
    /\ connecting = NoShaker /\ handle[slot] = NoOne
    /\ entry.enabled /\ entry.kind \in SerialKinds
    /\ AcceptSerial
LosesPort ==
    /\ connecting = NoShaker /\ handle[slot] # NoOne
    /\ RejectOpened
KeepsPort ==
    /\ handle[slot] # NoOne /\ entry.kind \in SerialKinds
    /\ Builds
    /\ UNCHANGED serial \/ (SharePort(slot) /\ UNCHANGED <<slots, handle, opened>>)
BeginsStream ==
    /\ handle[slot] = NoOne /\ slot \notin usb
    /\ entry.enabled /\ entry.kind = "Sound"
    /\ BeginConnect(slot)
    /\ UNCHANGED <<serial, host>>

\* The entry under consideration is not loaded, and what it holds fits its kind.
LEMMA SlotInHand ==
  ASSUME OpenIInv, phase = "opening", slot \in DOMAIN profile
  PROVE  /\ slot \notin LoadedSlots
         /\ handle[slot] # NoOne => entry.enabled /\ entry.kind \in SerialKinds
                                      /\ opened.outcome \in {"fresh", "shared"}
         /\ slot \in usb => entry.enabled /\ entry.kind \in HidKinds
         /\ connecting # NoShaker
              => connecting = slot /\ entry.enabled /\ entry.kind = "Sound" /\ context = "ready"
<1>1. slot \in Entries /\ slot \in Nat
  BY EntryTypes, SerialPortsAssumption DEF OpenIInv
<1>2. slot \notin LoadedSlots
  BY <1>1 DEF OpenIInv, InProgress
<1> QED
  BY <1>1, <1>2, SlotSets DEF OpenIInv, InProgress, HoldsPort, HoldsHid, HoldsStream, StreamInv

LEMMA ConsiderCases ==
  ASSUME OpenIInv, Consider
  PROVE  /\ phase = "opening" /\ slot \in DOMAIN profile
         /\ \/ Passes \/ TakesHid \/ KeepsHid
            \/ OpensPort \/ LosesPort \/ KeepsPort \/ BeginsStream
<1> DEFINE Goal == Passes \/ TakesHid \/ KeepsHid
                    \/ OpensPort \/ LosesPort \/ KeepsPort \/ BeginsStream
<1>1. phase = "opening" /\ slot \in DOMAIN profile
  BY DEF Consider, Skipped, ConsiderTach, Refuse, Enter, At, RevburnerReady, WithHid,
     ConsiderShiftlights, InHand, ConsiderSimwind, ConsiderSerialHaptic, ConsiderSimledCustom,
     ConsiderSimled, ConsiderArduinoCustom, ConsiderMoza, ConsiderMozaR5, ConsiderMozaKs,
     ConsiderSound, ConsiderG29, ConsiderC5, ConsiderC12, FinishC12, ConsiderGt, ConsiderCsl,
     AttachCsl, ConsiderP1000, ConsiderSimnet, ConsiderUnknownWheel, ConsiderClosed
<1> SUFFICES Goal
  BY <1>1
<1>2. ASSUME NEW kind, Enter(kind)
      PROVE  /\ connecting = NoShaker /\ handle[slot] = NoOne /\ slot \notin usb
             /\ entry.enabled /\ entry.kind = kind
  <2>1. entry \in DeviceEntry
    BY <1>1, EntryTypes DEF OpenIInv
  <2> QED BY <1>2, <2>1 DEF Enter, At, PortInHand, HidInHand, Skip, DeviceEntry
<1>3. ASSUME NEW kind, Enter(kind), Unopened, UNCHANGED <<serial, pulse>> PROVE Goal
  BY <1>2, <1>3 DEF Passes
<1>4. ASSUME NEW kind \in HidKinds, Enter(kind), OpenHid PROVE Goal
  BY <1>2, <1>4 DEF Passes, TakesHid, OpenHid
<1>5. ASSUME NEW kind \in HidKinds, WithHid(kind)
      PROVE  /\ connecting = NoShaker /\ handle[slot] = NoOne /\ slot \in usb
             /\ entry.kind = kind /\ UNCHANGED <<serial, pulse>>
  BY <1>1, <1>5, SlotInHand, KindSorts DEF WithHid, At, HidInHand
<1>6. ASSUME NEW kind \in HidKinds, WithHid(kind), Unopened PROVE Goal
  BY <1>5, <1>6 DEF Passes
<1>7. ASSUME NEW kind \in HidKinds, WithHid(kind),
             NEW lua \in BOOLEAN, NEW armed \in BOOLEAN,
             NEW read \in {"none", "unset", "counted", "points"}, BuildDevice(lua, armed, read)
      PROVE  Goal
  BY <1>5, <1>7 DEF KeepsHid, Builds
<1>8. ASSUME NEW kind \in SerialKinds, Enter(kind), AcceptSerial PROVE Goal
  BY <1>2, <1>8 DEF OpensPort
<1>9. ASSUME NEW kind \in SerialKinds, InHand(kind)
      PROVE  connecting = NoShaker /\ handle[slot] # NoOne /\ entry.kind \in SerialKinds
  BY <1>9 DEF InHand, At, PortInHand
<1>10. ASSUME NEW kind \in SerialKinds, InHand(kind), RejectOpened PROVE Goal
  BY <1>9, <1>10 DEF LosesPort
<1>11. ASSUME NEW kind \in SerialKinds, InHand(kind), NEW lua \in BOOLEAN,
              NEW read \in {"none", "unset", "counted", "points"}, KeepPort(lua, read)
       PROVE  Goal
  <2> DEFINE armed == entry.kind = "SerialHaptic" /\ entry.effect # "none"
  <2>1. armed \in BOOLEAN /\ BuildDevice(lua, armed, read) /\ UNCHANGED <<serial, pulse>>
    BY <1>11 DEF KeepPort
  <2> HIDE DEF armed
  <2> QED BY <1>9, <1>11, <2>1 DEF KeepsPort, Builds
<1> USE DEF HidKinds, UsbWheels, Pedals, SerialKinds, PlainSerial, ScriptedSerial
<1> HIDE DEF Goal
<1>12. CASE Skipped
  <2>1. connecting = NoShaker /\ handle[slot] = NoOne
    <3>1. entry.kind = "Sound" => entry.kind \notin SerialKinds
      OBVIOUS
    <3> QED BY <1>1, <1>12, <3>1, SlotInHand DEF Skipped, Skip
  <2> QED BY <2>1, <1>12 DEF Skipped, Passes, Goal
<1>13. CASE ConsiderTach \/ RevburnerReady
  BY <1>13, <1>3, <1>4, <1>7 DEF ConsiderTach, Refuse, RevburnerReady, LoadTachPoints
<1>14. CASE ConsiderG29 \/ ConsiderC5
  BY <1>14, <1>4, <1>7 DEF ConsiderG29, ConsiderC5, Plain
<1>15. CASE ConsiderC12 \/ FinishC12 \/ ConsiderGt
  BY <1>15, <1>3, <1>4, <1>6, <1>7 DEF ConsiderC12, FinishC12, ConsiderGt, Plain, Refuse
<1>16. CASE ConsiderCsl \/ ConsiderP1000 \/ ConsiderSimnet
  <2> DEFINE armed == Armed
  <2>1. armed \in BOOLEAN
    BY DEF Armed
  <2>2. ReadyPedal => BuildDevice(FALSE, armed, "none")
    BY DEF ReadyPedal
  <2> HIDE DEF armed
  <2> QED
    BY <1>16, <2>1, <2>2, <1>3, <1>4, <1>6, <1>7
    DEF ConsiderCsl, AttachCsl, Refuse, ConsiderP1000, ConsiderSimnet
<1>17. CASE ConsiderUnknownWheel \/ ConsiderClosed
  BY <1>17, <1>3 DEF ConsiderUnknownWheel, ConsiderClosed
<1>18. CASE ConsiderShiftlights \/ ConsiderSimwind \/ ConsiderSimled \/ ConsiderMozaR5
  BY <1>18, <1>8, <1>11 DEF ConsiderShiftlights, ConsiderSimwind, ConsiderSimled, ConsiderMozaR5
<1>19. CASE ConsiderSerialHaptic
  BY <1>19, <1>3, <1>8, <1>11 DEF ConsiderSerialHaptic
<1>20. CASE ConsiderMozaKs \/ ConsiderArduinoCustom
  BY <1>20, <1>3, <1>8, <1>10, <1>11 DEF ConsiderMozaKs, ConsiderArduinoCustom
<1>21. CASE ConsiderSimledCustom
  <2>1. QuerySimledCount \subseteq {"rejected", "counted", "unset"}
    BY DEF QuerySimledCount, LiveReplies, ParseSimledCount, FinishSimledCount
  <2> QED BY <1>21, <2>1, <1>8, <1>10, <1>11 DEF ConsiderSimledCustom
<1>22. CASE ConsiderMoza
  <2>1. CASE Enter("MozaNew") /\ AcceptSerial
    BY <2>1, <1>8
  <2>2. CASE InHand("MozaNew") /\ SharePort(slot) /\ Plain /\ UNCHANGED <<slots, handle, opened, pulse>>
    BY <2>2, <1>9 DEF KeepsPort, Builds, Plain, Goal
  <2> QED BY <1>22, <2>1, <2>2 DEF ConsiderMoza
<1>23. CASE ConsiderSound
  BY <1>2, <1>3, <1>23 DEF ConsiderSound, LinkSound, CannotConnect, BeginsStream, Goal
<1> QED
  BY <1>1, <1>12, <1>13, <1>14, <1>15, <1>16, <1>17, <1>18, <1>19, <1>20, <1>21, <1>22, <1>23
  DEF Consider

-----------------------------------------------------------------------------
(* The invariant is kept *)

\* A table that nobody touched, and one that is read under a new entry.
LEMMA SerialSame ==
  ASSUME UNCHANGED serial
  PROVE  /\ SerialTypeOK => SerialTypeOK'
         /\ PortsAreCounted => PortsAreCounted'
         /\ \A n \in Nat : Table(n) => Table(n)'
<1>1. UNCHANGED <<slots, port, handle, opened>>
  BY DEF serial
<1>2. SerialTypeOK => SerialTypeOK'
  BY <1>1 DEF SerialTypeOK
<1>3. /\ RefsCountUsers => RefsCountUsers'
      /\ OneFilePerPort => OneFilePerPort'
      /\ ExhaustedIsFull => ExhaustedIsFull'
  BY <1>1 DEF RefsCountUsers, OneFilePerPort, ExhaustedIsFull, Users
<1> QED
  BY <1>1, <1>2, <1>3 DEF PortsAreCounted, Table, InUse

LEMMA TableAt ==
  ASSUME NEW n, Table(n)', slot' = n
  PROVE  Table(slot)'
BY DEF Table

LEMMA StreamsSame ==
  ASSUME UNCHANGED pulse
  PROVE  (StreamInv => StreamInv') /\ UNCHANGED <<streams, connecting>>
BY DEF StreamInv, pulse

LEMMA DevicesSame ==
  ASSUME loaded' = loaded
  PROVE  LoadedSlots' = LoadedSlots /\ UsbSlots' = UsbSlots /\ SoundSlots' = SoundSlots
BY DEF LoadedSlots, UsbSlots, SoundSlots

\* What is known while an entry is considered.
LEMMA OpeningFacts ==
  ASSUME OpenIInv, phase = "opening", slot \in DOMAIN profile
  PROVE  /\ slot \in Entries /\ slot \in Nat /\ slot # NoOne
         /\ HostTypeOK /\ SerialTypeOK /\ StreamInv /\ PortsAreCounted /\ Table(slot)
         /\ entry \in DeviceEntry
         /\ UsbSlots \subseteq usb /\ streams = SoundSlots
         /\ \A d \in LoadedSlots : d \in Nat /\ d < slot
         /\ \A d \in Entries \ {slot} : handle[d] # NoOne => d \in LoadedSlots
         /\ \A d \in usb \ {slot} : d \in UsbSlots
<1>1. \A d \in LoadedSlots : d \in Nat
  <2>1. \A i \in DOMAIN loaded : loaded[i] \in Device
    BY DEF OpenIInv, HostTypeOK
  <2>2. \A i \in DOMAIN loaded : loaded[i].slot \in Nat
    BY <2>1, SerialPortsAssumption DEF Device
  <2> QED BY <2>2 DEF LoadedSlots
<1> QED
  BY <1>1, EntryTypes, SerialPortsAssumption
  DEF OpenIInv, InProgress, PhaseInv, HoldsPort, HoldsHid

\* The entry is over without a device, and holds no port.
LEMMA UnopenedKeeps ==
  ASSUME OpenIInv, phase = "opening", slot \in DOMAIN profile, Unopened,
         connecting' = NoShaker, StreamInv', streams' = streams,
         NEW n \in Nat, slot = n,
         SerialTypeOK', PortsAreCounted', Table(n + 1)',
         handle'[slot] = NoOne, \A d \in Entries \ {slot} : handle'[d] = handle[d]
  PROVE  OpenIInv'
<1>1. /\ slot' = slot + 1 /\ usb' = usb \ {slot}
      /\ UNCHANGED <<phase, profile, loaded>>
  BY DEF Unopened
<1>2. LoadedSlots' = LoadedSlots /\ UsbSlots' = UsbSlots /\ SoundSlots' = SoundSlots
  BY <1>1, DevicesSame
<1>3. /\ slot \in Entries /\ slot \in Nat /\ HostTypeOK
      /\ UsbSlots \subseteq usb /\ streams = SoundSlots
      /\ \A d \in LoadedSlots : d \in Nat /\ d < slot
      /\ \A d \in Entries \ {slot} : handle[d] # NoOne => d \in LoadedSlots
      /\ \A d \in usb \ {slot} : d \in UsbSlots
  BY OpeningFacts
<1>4. HostTypeOK'
  BY <1>1, <1>3 DEF HostTypeOK
<1>5. InProgress'
  <2>1. \A d \in LoadedSlots' : d < slot'
    BY <1>1, <1>2, <1>3
  <2>2. \A d \in Entries : handle'[d] # NoOne => d \in LoadedSlots'
    BY <1>2, <1>3
  <2>3. \A d \in usb' : d \in UsbSlots'
    BY <1>1, <1>2, <1>3
  <2> QED BY <2>1, <2>2, <2>3 DEF InProgress
<1>6. PhaseInv'
  <2>1. slot \notin UsbSlots
    BY <1>3, SlotSets
  <2>2. Table(slot)'
    <3>1. slot' = n + 1
      BY <1>1
    <3> QED BY <3>1, TableAt
  <2> QED BY <2>1, <2>2, <1>1, <1>2, <1>3 DEF PhaseInv
<1> QED BY <1>4, <1>5, <1>6 DEF OpenIInv

\* The entry is over with a device.
LEMMA BuiltKeeps ==
  ASSUME OpenIInv, phase = "opening", slot \in DOMAIN profile,
         NEW lua \in BOOLEAN, NEW armed \in BOOLEAN,
         NEW read \in {"none", "unset", "counted", "points"}, BuildDevice(lua, armed, read),
         connecting' = NoShaker, StreamInv',
         streams' = streams \cup (IF entry.kind = "Sound" THEN {slot} ELSE {}),
         NEW n \in Nat, slot = n,
         SerialTypeOK', PortsAreCounted', Table(n + 1)', handle' = handle,
         slot \in usb <=> entry.kind \in HidKinds
  PROVE  OpenIInv'
<1>1. /\ slot' = slot + 1 /\ HostTypeOK'
      /\ LoadedSlots' = LoadedSlots \cup {slot}
      /\ UsbSlots' = UsbSlots \cup (IF entry.kind \in HidKinds THEN {slot} ELSE {})
      /\ SoundSlots' = SoundSlots \cup (IF entry.kind = "Sound" THEN {slot} ELSE {})
  BY BuiltSlots DEF OpenIInv
<1>2. UNCHANGED <<phase, profile, usb>>
  BY DEF BuildDevice
<1>3. /\ slot \in Nat
      /\ UsbSlots \subseteq usb /\ streams = SoundSlots
      /\ \A d \in LoadedSlots : d \in Nat /\ d < slot
      /\ \A d \in Entries \ {slot} : handle[d] # NoOne => d \in LoadedSlots
      /\ \A d \in usb \ {slot} : d \in UsbSlots
  BY OpeningFacts
<1>4. InProgress'
  <2>1. \A d \in LoadedSlots' : d < slot'
    BY <1>1, <1>3
  <2>2. \A d \in Entries : handle'[d] # NoOne => d \in LoadedSlots'
    BY <1>1, <1>3
  <2>3. \A d \in usb' : d \in UsbSlots'
    BY <1>1, <1>2, <1>3
  <2> QED BY <2>1, <2>2, <2>3 DEF InProgress
<1>5. PhaseInv'
  <2>1. Table(slot)'
    <3>1. slot' = n + 1
      BY <1>1
    <3> QED BY <3>1, TableAt
  <2>2. UsbSlots' \subseteq usb' /\ streams' = SoundSlots'
    BY <1>1, <1>2, <1>3
  <2> QED BY <2>1, <2>2, <1>2 DEF PhaseInv
<1> QED BY <1>1, <1>4, <1>5 DEF OpenIInv

\* Whatever the hardware answers, an entry leaves the invariant as it was.
LEMMA ConsiderKeeps ==
  ASSUME OpenIInv, Consider
  PROVE  OpenIInv'
<1>1. phase = "opening" /\ slot \in DOMAIN profile
  BY ConsiderCases
<1>2. PICK n \in Entries : slot = n
  BY <1>1, OpeningFacts
<1>3. /\ n \in Nat /\ n # NoOne /\ Table(n) /\ Table(n + 1)
      /\ SerialTypeOK /\ HostTypeOK /\ StreamInv /\ PortsAreCounted
      /\ entry \in DeviceEntry /\ UsbSlots \subseteq usb /\ streams = SoundSlots
      /\ slot \notin LoadedSlots
  BY <1>1, <1>2, OpeningFacts, NextEntry, SlotInHand, SerialPortsAssumption
<1>4. ASSUME UNCHANGED serial
      PROVE  /\ SerialTypeOK' /\ PortsAreCounted' /\ Table(n)' /\ Table(n + 1)'
             /\ UNCHANGED <<slots, port, handle, opened>>
  <2>1. n + 1 \in Nat
    BY <1>3
  <2> QED BY <1>3, <1>4, <2>1, SerialSame DEF serial
<1>5. CASE Passes
  BY <1>1, <1>2, <1>3, <1>4, <1>5, StreamsSame, UnopenedKeeps DEF Passes
<1>6. CASE TakesHid
  <2>1. /\ UNCHANGED <<phase, profile, slot, loaded>> /\ usb' = usb \cup {slot}
        /\ StreamInv' /\ UNCHANGED <<streams, connecting>>
        /\ SerialTypeOK' /\ PortsAreCounted' /\ Table(n)'
        /\ UNCHANGED <<slots, port, handle, opened>>
        /\ LoadedSlots' = LoadedSlots /\ UsbSlots' = UsbSlots /\ SoundSlots' = SoundSlots
    BY <1>6, <1>3, <1>4, StreamsSame, DevicesSame DEF TakesHid
  <2>2. HostTypeOK'
    BY <2>1, <1>2, <1>3 DEF HostTypeOK
  <2>3. HoldsHid(slot)'
    BY <2>1, <1>1, <1>6 DEF TakesHid, HoldsHid, entry
  <2>4. InProgress'
    <3>1. \A d \in usb' : d \in UsbSlots' \/ HoldsHid(d)'
      BY <2>1, <2>3 DEF OpenIInv, InProgress, HoldsHid, entry
    <3> QED
      BY <3>1, <2>1, <1>6 DEF OpenIInv, InProgress, HoldsPort, entry, TakesHid
  <2>5. PhaseInv'
    <3>1. Table(slot)'
      BY <2>1, <1>2, TableAt
    <3> QED BY <3>1, <2>1, <1>1, <1>3 DEF PhaseInv
  <2> QED BY <2>1, <2>2, <2>4, <2>5 DEF OpenIInv
<1>7. ASSUME Builds, SerialTypeOK', PortsAreCounted', Table(n + 1)', handle' = handle,
             slot \in usb <=> entry.kind \in HidKinds, entry.kind # "Sound"
      PROVE  OpenIInv'
  <2>1. StreamInv' /\ streams' = streams /\ connecting' = NoShaker
    BY <1>3, <1>7, StreamsSame DEF Builds
  <2>2. PICK lua \in BOOLEAN, armed \in BOOLEAN, read \in {"none", "unset", "counted", "points"} :
          BuildDevice(lua, armed, read)
    BY <1>7 DEF Builds
  <2> QED BY <1>1, <1>2, <1>3, <1>7, <2>1, <2>2, BuiltKeeps
<1>8. CASE KeepsHid
  BY <1>4, <1>7, <1>8, KindSorts DEF KeepsHid
<1>9. ASSUME entry.kind \in SerialKinds
      PROVE  slot \notin usb /\ entry.kind \notin HidKinds /\ entry.kind # "Sound"
  BY <1>1, <1>9, SlotInHand, KindSorts
<1>10. CASE KeepsPort
  <2>1. CASE UNCHANGED serial
    BY <1>4, <1>7, <1>9, <1>10, <2>1 DEF KeepsPort
  <2>2. CASE SharePort(slot) /\ UNCHANGED <<slots, handle, opened>>
    <3>1. Table(n + 1)'
      BY <1>2, <1>3, <1>10, <2>2, ShareKeepsTable DEF KeepsPort
    <3>2. ExhaustedIsFull'
      BY <1>1, <1>10, <2>2, SlotInHand DEF KeepsPort, ExhaustedIsFull
    <3>3. SerialTypeOK' /\ PortsAreCounted'
      BY <3>1, <3>2 DEF Table, PortsAreCounted
    <3> QED BY <1>7, <1>9, <1>10, <2>2, <3>1, <3>3 DEF KeepsPort
  <2> QED BY <1>10, <2>1, <2>2 DEF KeepsPort
<1>11. CASE LosesPort
  <2>1. /\ DropPort(n) /\ UNCHANGED <<slots, opened, pulse>> /\ Unopened
        /\ handle[n] # NoOne /\ connecting = NoShaker
    BY <1>2, <1>11 DEF LosesPort, RejectOpened
  <2>2. /\ Table(n + 1)' /\ handle'[n] = NoOne
        /\ \A d \in Entries \ {n} : handle'[d] = handle[d]
    BY <1>3, <2>1, DropKeepsTable
  <2>3. ExhaustedIsFull'
    BY <1>1, <1>2, <2>1, SlotInHand DEF ExhaustedIsFull
  <2>4. SerialTypeOK' /\ PortsAreCounted'
    BY <2>2, <2>3 DEF Table, PortsAreCounted
  <2>5. StreamInv' /\ streams' = streams /\ connecting' = NoShaker
    BY <1>3, <2>1, StreamsSame
  <2> QED BY <1>1, <1>2, <1>3, <2>1, <2>2, <2>4, <2>5, UnopenedKeeps
<1>12. CASE OpensPort
  <2>1. /\ OpenSerial(n, entry.path, entry.baud) /\ UNCHANGED pulse
        /\ IF handle'[n] = NoOne THEN Unopened ELSE UNCHANGED host
        /\ handle[n] = NoOne /\ connecting = NoShaker
        /\ entry.enabled /\ entry.kind \in SerialKinds
    BY <1>2, <1>12 DEF OpensPort, AcceptSerial
  <2>2. entry.path \in Paths \cup {NoPath} /\ entry.baud \in Bauds
    BY <1>3 DEF DeviceEntry
  <2>3. /\ Table(n)' /\ ExhaustedIsFull'
        /\ \A d \in Entries \ {n} : handle'[d] = handle[d]
        /\ handle'[n] # NoOne => opened'.outcome \in {"fresh", "shared"}
    BY <1>3, <2>1, <2>2, OpenKeepsTable
  <2>4. SerialTypeOK' /\ PortsAreCounted' /\ Table(n + 1)'
    BY <1>3, <2>3, NextEntryLater DEF Table, PortsAreCounted
  <2>5. StreamInv' /\ streams' = streams /\ connecting' = NoShaker
    BY <1>3, <2>1, StreamsSame
  <2>6. CASE handle'[n] = NoOne
    BY <1>1, <1>2, <1>3, <2>1, <2>3, <2>4, <2>5, <2>6, UnopenedKeeps
  <2>7. CASE handle'[n] # NoOne
    <3>1. UNCHANGED <<phase, profile, slot, haptics, loaded, usb>>
      BY <2>1, <2>7 DEF host
    <3>2. LoadedSlots' = LoadedSlots /\ UsbSlots' = UsbSlots /\ SoundSlots' = SoundSlots
      BY <3>1, DevicesSame
    <3>3. HostTypeOK'
      BY <3>1, <1>3 DEF HostTypeOK
    <3>4. HoldsPort(n)'
      BY <3>1, <1>1, <1>2, <2>1, <2>3, <2>7 DEF HoldsPort, entry
    <3>5. InProgress'
      <4>1. \A d \in Entries : handle'[d] # NoOne => d \in LoadedSlots' \/ HoldsPort(d)'
        BY <1>1, <1>2, <3>2, <3>4, <2>3, OpeningFacts
      <4>2. \A d \in usb' : d \in UsbSlots' \/ HoldsHid(d)'
        BY <3>1, <3>2 DEF OpenIInv, InProgress, HoldsHid, entry
      <4> QED BY <4>1, <4>2, <3>1, <3>2, <2>5 DEF OpenIInv, InProgress
    <3>6. PhaseInv'
      <4>1. Table(slot)'
        BY <3>1, <1>2, <2>3, TableAt
      <4> QED BY <4>1, <3>1, <3>2, <2>5, <1>1, <1>3 DEF PhaseInv
    <3> QED BY <2>4, <2>5, <3>3, <3>5, <3>6 DEF OpenIInv
  <2> QED BY <2>6, <2>7
<1>13. CASE BeginsStream
  <2>1. /\ BeginConnect(n) /\ UNCHANGED <<phase, profile, slot, haptics, loaded, usb>>
        /\ entry.enabled /\ entry.kind = "Sound"
        /\ SerialTypeOK' /\ PortsAreCounted' /\ Table(n)'
        /\ UNCHANGED <<slots, port, handle, opened>>
    BY <1>2, <1>4, <1>13 DEF BeginsStream, host
  <2>2. n \in Shakers \ streams /\ n # NoShaker
    <3>1. n \in Shakers
      BY <1>1, <1>2, <1>3, <2>1, EntryTypes
    <3> QED BY <3>1, <1>2, <1>3, SlotSets, PulseStreamsAssumption
  <2>3. StreamInv' /\ connecting' = n /\ streams' = streams
    BY <1>3, <2>1, <2>2, ConnectKeepsStreams
  <2>4. LoadedSlots' = LoadedSlots /\ UsbSlots' = UsbSlots /\ SoundSlots' = SoundSlots
    BY <2>1, DevicesSame
  <2>5. HostTypeOK'
    BY <2>1, <1>3 DEF HostTypeOK
  <2>6. InProgress'
    <3>1. HoldsStream(n)'
      BY <1>1, <1>2, <2>1 DEF HoldsStream, entry
    <3> QED
      BY <3>1, <2>1, <2>3, <2>4 DEF OpenIInv, InProgress, HoldsPort, HoldsHid, entry
  <2>7. PhaseInv'
    <3>1. Table(slot)'
      BY <2>1, <1>2, TableAt
    <3> QED BY <3>1, <2>1, <2>3, <2>4, <1>1, <1>3 DEF PhaseInv
  <2> QED BY <2>1, <2>3, <2>5, <2>6, <2>7 DEF OpenIInv
<1> QED
  BY <1>5, <1>6, <1>8, <1>10, <1>11, <1>12, <1>13, ConsiderCases

\* A step of the sound server's thread, or of the host with it, that leaves the
\* devices and the set of streams alone.
LEMMA QuietKeeps ==
  ASSUME OpenIInv, UNCHANGED <<serial, host>>, StreamInv', streams' = streams,
         connecting' = connecting
  PROVE  OpenIInv'
<1>1. /\ UNCHANGED <<slots, port, handle, opened>>
      /\ UNCHANGED <<phase, profile, slot, haptics, loaded, usb>>
  BY DEF serial, host
<1>2. LoadedSlots' = LoadedSlots /\ UsbSlots' = UsbSlots /\ SoundSlots' = SoundSlots
  BY <1>1, DevicesSame
<1>3. SerialTypeOK' /\ PortsAreCounted' /\ HostTypeOK'
  BY <1>1, SerialSame DEF OpenIInv, HostTypeOK
<1>4. InProgress'
  BY <1>1, <1>2 DEF OpenIInv, InProgress, HoldsPort, HoldsHid, HoldsStream, entry
<1>5. phase = "opening" => Table(slot)'
  <2> SUFFICES ASSUME phase = "opening" PROVE Table(slot)'
    OBVIOUS
  <2>1. PICK n \in Nat : n = slot
    BY DEF OpenIInv, HostTypeOK
  <2>2. Table(n)
    BY <2>1 DEF OpenIInv, PhaseInv
  <2> QED BY <1>1, <2>1, <2>2, SerialSame, TableAt
<1>6. PhaseInv'
  BY <1>1, <1>2, <1>5 DEF OpenIInv, PhaseInv
<1> QED BY <1>3, <1>4, <1>6 DEF OpenIInv

LEMMA HostKeeps ==
  ASSUME OpenIInv, Host
  PROVE  OpenIInv'
<1> USE DEF OpenIInv
<1>1. CASE OpenPulse
  BY <1>1, SessionKeepsStreams, QuietKeeps DEF OpenPulse
<1>2. CASE ClosePulse
  BY <1>2, ReleaseKeepsStreams, QuietKeeps DEF ClosePulse, PhaseInv
<1>3. CASE StreamWait
  BY <1>3, WaitKeepsStreams, QuietKeeps DEF StreamWait
<1>4. CASE WriteSound
  BY <1>4, MixKeepsStreams, QuietKeeps DEF WriteSound
<1>5. CASE Consider
  BY <1>5, ConsiderKeeps
<1>6. CASE LoadConfigured
  <2>1. /\ phase = "empty" /\ phase' = "opening" /\ slot' = 1 /\ profile' \in Profiles
        /\ UNCHANGED <<loaded, usb>> /\ UNCHANGED serial /\ DisconnectShakers
    BY <1>6 DEF LoadConfigured
  <2>2. /\ slots = EmptySlots /\ opened = NotOpened /\ handle = NoHandles /\ port = NoPorts
        /\ usb = {} /\ loaded = NoDevices
    BY <2>1 DEF PhaseInv
  <2>3. StreamInv' /\ streams' = {} /\ connecting' = NoShaker
    BY <2>1, ReleaseKeepsStreams
  <2>4. LoadedSlots' = {} /\ UsbSlots' = {} /\ SoundSlots' = {}
    BY <2>1, <2>2 DEF LoadedSlots, UsbSlots, SoundSlots, NoDevices
  <2>5. /\ Table(1)' /\ SerialTypeOK' /\ PortsAreCounted'
    BY <2>1, <2>2, NoPortsTable, SerialSame DEF NoPortsHeld
  <2>6. HostTypeOK'
    BY <2>1, <2>2 DEF HostTypeOK, NoDevices
  <2>7. InProgress'
    BY <2>1, <2>2, <2>3, <2>4 DEF InProgress, serial, NoHandles
  <2>8. PhaseInv'
    <3>1. Table(slot)'
      BY <2>1, <2>5, TableAt
    <3> QED BY <3>1, <2>1, <2>2, <2>3, <2>4 DEF PhaseInv
  <2> QED BY <2>3, <2>5, <2>6, <2>7, <2>8
<1>7. CASE StreamReady
  <2>1. Connected /\ Plain /\ UNCHANGED serial
    BY <1>7 DEF StreamReady
  <2>2. /\ StreamInv' /\ connecting # NoShaker /\ connecting' = NoShaker
        /\ streams' = streams \cup {connecting}
    BY <2>1, ConnectedKeepsStreams
  <2>3. phase = "opening" /\ connecting = slot /\ slot \in DOMAIN profile /\ entry.kind = "Sound"
    BY <2>2 DEF InProgress, HoldsStream
  <2>4. PICK n \in Nat : n = slot
    BY DEF HostTypeOK
  <2>5. Table(n + 1) /\ n + 1 \in Nat
    BY <2>3, <2>4, OpeningFacts, NextEntry
  <2>6. SerialTypeOK' /\ PortsAreCounted' /\ Table(n + 1)' /\ handle' = handle
    BY <2>1, <2>5, SerialSame DEF serial
  <2>7. slot \notin usb /\ entry.kind \notin HidKinds
    BY <2>3, SlotInHand, KindSorts
  <2>8. BuildDevice(FALSE, FALSE, "none")
    BY <2>1 DEF Plain
  <2>9. streams' = streams \cup (IF entry.kind = "Sound" THEN {slot} ELSE {})
    BY <2>2, <2>3
  <2> QED
    BY <2>2, <2>3, <2>4, <2>6, <2>7, <2>8, <2>9, BuiltKeeps
<1>8. CASE StreamRefused
  <2>1. NotConnected /\ Unopened /\ UNCHANGED serial
    BY <1>8 DEF StreamRefused
  <2>2. StreamInv' /\ connecting # NoShaker /\ connecting' = NoShaker /\ streams' = streams
    BY <2>1, NotConnectedKeepsStreams
  <2>3. phase = "opening" /\ slot \in DOMAIN profile /\ entry.kind = "Sound"
    BY <2>2 DEF InProgress, HoldsStream
  <2>4. PICK n \in Nat : n = slot
    BY DEF HostTypeOK
  <2>5. Table(n + 1) /\ n + 1 \in Nat
    BY <2>3, <2>4, OpeningFacts, NextEntry
  <2>6. SerialTypeOK' /\ PortsAreCounted' /\ Table(n + 1)' /\ handle' = handle
    BY <2>1, <2>5, SerialSame DEF serial
  <2>7. handle[slot] = NoOne
    BY <2>3, SlotInHand, KindSorts
  <2> QED
    BY <2>1, <2>2, <2>3, <2>4, <2>6, <2>7, UnopenedKeeps
<1>9. CASE FinishOpen
  <2>1. /\ phase = "opening" /\ slot \notin DOMAIN profile /\ phase' = "loaded"
        /\ slots' = EmptySlots /\ opened' = NotOpened
        /\ UNCHANGED <<port, handle, pulse, profile, slot, haptics, loaded, usb>>
    BY <1>9 DEF FinishOpen
  <2>2. LoadedSlots' = LoadedSlots /\ UsbSlots' = UsbSlots /\ SoundSlots' = SoundSlots
    BY <2>1, DevicesSame
  <2>3. SerialTypeOK'
    BY <2>1 DEF SerialTypeOK, EmptySlots, NotOpened, Outcomes
  <2>4. PortsAreCounted'
    BY <2>1 DEF PortsAreCounted, RefsCountUsers, OneFilePerPort, ExhaustedIsFull, Users, NotOpened
  <2>5. StreamInv' /\ UNCHANGED <<streams, connecting>>
    BY <2>1, StreamsSame
  <2>6. HostTypeOK'
    BY <2>1 DEF HostTypeOK
  <2>7. InProgress'
    BY <2>1, <2>2, <2>5 DEF InProgress, HoldsPort, HoldsHid, HoldsStream
  <2>8. PhaseInv'
    BY <2>1, <2>2, <2>5 DEF PhaseInv
  <2> QED BY <2>3, <2>4, <2>5, <2>6, <2>7, <2>8
<1>10. CASE SilenceShakers
  <2>1. /\ phase = "loaded" /\ phase' = "silenced" /\ DisconnectShakers
        /\ UNCHANGED <<serial, profile, slot, haptics, loaded, usb>>
    BY <1>10 DEF SilenceShakers
  <2>2. StreamInv' /\ streams' = {} /\ connecting' = NoShaker
    BY <2>1, ReleaseKeepsStreams
  <2>3. LoadedSlots' = LoadedSlots /\ UsbSlots' = UsbSlots /\ SoundSlots' = SoundSlots
    BY <2>1, DevicesSame
  <2>4. SerialTypeOK' /\ PortsAreCounted' /\ UNCHANGED <<slots, port, handle, opened>>
    BY <2>1, SerialSame DEF serial
  <2>5. HostTypeOK'
    BY <2>1 DEF HostTypeOK
  <2>6. InProgress'
    BY <2>1, <2>2, <2>3, <2>4 DEF InProgress, HoldsPort, HoldsHid
  <2>7. PhaseInv'
    BY <2>1, <2>2, <2>3, <2>4 DEF PhaseInv
  <2> QED BY <2>2, <2>4, <2>5, <2>6, <2>7
<1>11. CASE ReleaseDevices
  <2>1. /\ phase = "silenced" /\ phase' = "empty" /\ profile' = <<>>
        /\ handle' = NoHandles /\ port' = NoPorts /\ usb' = {} /\ loaded' = NoDevices
        /\ UNCHANGED <<slots, opened, pulse, slot, haptics>>
    BY <1>11 DEF ReleaseDevices, DropAllPorts, CloseUsb
  <2>2. slots' = EmptySlots /\ opened' = NotOpened /\ streams = {} /\ connecting = NoShaker
    BY <2>1 DEF PhaseInv, InProgress, HoldsStream
  <2>3. SerialTypeOK' /\ PortsAreCounted'
    <3>1. NoPortsHeld'
      BY <2>1, <2>2 DEF NoPortsHeld
    <3>2. PortsAreCounted' /\ Table(0)'
      BY <3>1, NoPortsLater
    <3> QED BY <3>2 DEF Table
  <2>4. StreamInv' /\ UNCHANGED <<streams, connecting>>
    BY <2>1, StreamsSame
  <2>5. LoadedSlots' = {} /\ UsbSlots' = {} /\ SoundSlots' = {}
    BY <2>1 DEF LoadedSlots, UsbSlots, SoundSlots, NoDevices
  <2>6. HostTypeOK'
    BY <2>1 DEF HostTypeOK, NoDevices
  <2>7. InProgress'
    BY <2>1, <2>2, <2>4, <2>5 DEF InProgress, NoHandles
  <2>8. PhaseInv'
    BY <2>1, <2>2, <2>4, <2>5 DEF PhaseInv
  <2> QED BY <2>3, <2>4, <2>6, <2>7, <2>8
<1> QED
  BY <1>1, <1>2, <1>3, <1>4, <1>5, <1>6, <1>7, <1>8, <1>9, <1>10, <1>11 DEF Host

-----------------------------------------------------------------------------
(* The theorems *)

LEMMA OpenInvariant == Spec => []OpenIInv
<1>1. Init => OpenIInv
  <2> SUFFICES ASSUME Init PROVE OpenIInv
    OBVIOUS
  <2>1. SerialTypeOK /\ PortsAreCounted
    BY NoPortsTable DEF Init, SerialInit, NoPortsHeld, Table
  <2>2. HostTypeOK
    BY DEF Init, HostTypeOK, NoDevices
  <2>3. StreamInv
    BY DEF Init, PulseInit, StreamInv
  <2>4. LoadedSlots = {} /\ UsbSlots = {}
    BY DEF Init, LoadedSlots, UsbSlots, NoDevices
  <2>5. InProgress
    BY <2>4 DEF Init, SerialInit, PulseInit, InProgress, NoHandles
  <2>6. PhaseInv
    BY <2>4 DEF Init, SerialInit, PulseInit, PhaseInv
  <2> QED BY <2>1, <2>2, <2>3, <2>5, <2>6 DEF OpenIInv
<1>2. OpenIInv /\ [Next]_vars => OpenIInv'
  <2> SUFFICES ASSUME OpenIInv, [Next]_vars PROVE OpenIInv'
    OBVIOUS
  <2>1. CASE Host
    BY <2>1, HostKeeps
  <2>2. CASE AudioThread /\ UNCHANGED <<serial, host>>
    BY <2>2, AudioKeepsStreams, QuietKeeps DEF OpenIInv
  <2>3. CASE UNCHANGED vars
    BY <2>3, StreamsSame, QuietKeeps DEF OpenIInv, vars
  <2> QED BY <2>1, <2>2, <2>3 DEF Next
<1> QED BY <1>1, <1>2, PTL DEF Spec

\* The count of a port is the number of devices that hold it, no port is driven
\* through two files, and a table that is called full is full, for any profile
\* and any devices that are refused (SerialRegistry, SharedSerial).
THEOREM PortsCorrect == Spec => []PortsAreCounted
<1>1. OpenIInv => PortsAreCounted
  BY DEF OpenIInv
<1> QED BY <1>1, OpenInvariant, PTL

\* No callback and no wait meets a stream that was freed, whatever the sound
\* server does while the host connects, mixes and releases (wait_for_stream,
\* write_playback, disconnect_shakers).
THEOREM PointersCorrect == Spec => []PointersAreLive
<1>1. OpenIInv => PointersAreLive
  BY LivePointers DEF OpenIInv
<1> QED BY <1>1, OpenInvariant, PTL

\* Between loads and releases nothing is held but by a loaded device, and during
\* a load only by that or by the entry under consideration (consider_entry,
\* release_configured).
THEOREM HeldCorrect == Spec => []HeldByLoaded
<1>1. OpenIInv => HeldByLoaded
  <2> SUFFICES ASSUME OpenIInv PROVE HeldByLoaded
    OBVIOUS
  <2> USE DEF OpenIInv
  <2>1. ASSUME phase # "opening", NEW c \in Entries, IsOpen(c)
        PROVE  \E d \in Users(c) : d \in LoadedSlots
    <3>1. Users(c) # {}
      BY <2>1, SerialPortsAssumption DEF IsOpen, PhaseInv, EmptySlots
    <3>2. PICK d \in Entries : handle[d] = c
      BY <3>1 DEF Users
    <3>3. d \in LoadedSlots
      BY <2>1, <3>2, SerialPortsAssumption DEF InProgress, HoldsPort
    <3> QED BY <3>2, <3>3 DEF Users
  <2>2. usb \ UsbSlots \subseteq (IF phase = "opening" THEN {slot} ELSE {})
    BY DEF InProgress, HoldsHid
  <2>3. UsbSlots \subseteq usb /\ callback = streams
    BY DEF PhaseInv, StreamInv
  <2>4. streams = {} => audio = AudioIdle
    BY DEF StreamInv
  <2> QED BY <2>1, <2>2, <2>3, <2>4 DEF HeldByLoaded, PhaseInv
<1> QED BY <1>1, OpenInvariant, PTL
=============================================================================
