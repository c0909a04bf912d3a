---------------------------- MODULE SerialPorts ----------------------------
(***************************************************************************)
(* The table of open serial ports of one profile load: SerialRegistry,     *)
(* SharedSerial and SerialPort of crates/cargopit/src/devices.rs.          *)
(*                                                                         *)
(* Several entries of a profile may name one port.  The first opens it and *)
(* stores it in a slot of a fixed table, the later ones find it there, and *)
(* a count of users says when the slot may be taken again.  A port stays   *)
(* open in the operating system for as long as the table or a device holds *)
(* it (an Rc), whatever the count says.                                    *)
(***************************************************************************)
EXTENDS Naturals, FiniteSets

CONSTANTS
    Entries,    \* positions of a profile's device list
    Capacity,   \* slots of the table, SERIAL_DEVICE_CAPACITY (20)
    Paths,      \* device paths as a profile writes them
    NoPath,     \* the empty path
    FoldCase(_),\* eq_ignore_ascii_case: the paths of one class are one port
    Bauds       \* configured baud rates

NoOne == 0

ASSUME SerialPortsAssumption ==
    /\ Entries \subseteq Nat \ {NoOne}
    /\ IsFiniteSet(Entries)
    /\ Capacity \in Nat \ {0}
    /\ NoPath \notin Paths
    /\ Bauds # {}
    /\ Paths # {}

Slots == 1 .. Capacity

VARIABLES
    slots,      \* SerialRegistry: per slot the entry that opened its port
    port,       \* SharedSerial, by the entry that opened it
    handle,     \* SerialPort: per device the entry whose port it shares
    opened      \* how the last open_serial ended (OpenedSerial)

serial == <<slots, port, handle, opened>>

SharedSerial == [path : Paths, baud : Bauds, refs : Nat, exclusive : BOOLEAN]

\* "missing" is split: the port is not there, or the system refuses it because
\* it is open already.
Outcomes == {"none", "empty", "absent", "busy", "exhausted", "fresh", "shared"}

SerialTypeOK ==
    /\ slots \in [Slots -> Entries \cup {NoOne}]
    /\ port \in [Entries -> SharedSerial]
    /\ handle \in [Entries -> Entries \cup {NoOne}]
    /\ opened \in [by : Entries \cup {NoOne}, path : Paths \cup {NoPath},
                   outcome : Outcomes]

\* SerialRegistry::new
EmptySlots == [s \in Slots |-> NoOne]
NoHandles == [d \in Entries |-> NoOne]
NotOpened == [by |-> NoOne, path |-> NoPath, outcome |-> "none"]

NoPorts == [c \in Entries |-> [path |-> CHOOSE p \in Paths : TRUE,
                               baud |-> CHOOSE b \in Bauds : TRUE,
                               refs |-> 0, exclusive |-> FALSE]]

SerialInit ==
    /\ slots = EmptySlots
    /\ port = NoPorts
    /\ handle = NoHandles
    /\ opened = NotOpened

Users(c) == {d \in Entries : handle[d] = c}
InUse(c) == port[c].refs > 0

\* The Rc is alive: the port is open in the operating system.
IsOpen(c) == (\E s \in Slots : slots[s] = c) \/ Users(c) # {}

-----------------------------------------------------------------------------
(* The table *)

SlotIsFree(s) == \A c \in Entries : slots[s] = c => ~InUse(c)

HasRoom == \E s \in Slots : SlotIsFree(s)

\* insert takes the first free slot.
FirstFree(s) == SlotIsFree(s) /\ \A t \in Slots : t < s => ~SlotIsFree(t)

\* shared_named: the port in use that p names.
SharedNamed(c, p) == InUse(c) /\ FoldCase(port[c].path) = FoldCase(p)

Found(c, p) == \E s \in Slots : slots[s] = c /\ c # NoOne /\ SharedNamed(c, p)

\* serialport opens a tty exclusively (TIOCEXCL): a second open of it fails.
Exclusive(p) == \E c \in Entries :
    IsOpen(c) /\ port[c].exclusive /\ port[c].path = p

\* RealSerial::open
Openable(p) == p # NoPath /\ ~Exclusive(p)

-----------------------------------------------------------------------------
(* open_serial for device d; each disjunct sets every variable. *)

Ended(d, p, how) == opened' = [by |-> d, path |-> p, outcome |-> how]

\* An empty path is never opened.
OpenEmpty(d, p) ==
    /\ p = NoPath
    /\ Ended(d, p, "empty")
    /\ UNCHANGED <<slots, port, handle>>

FaultShareUncounted(d, p) ==
    \E c \in Entries :
        /\ Found(c, p)
        /\ handle' = [handle EXCEPT ![d] = c]
        /\ Ended(d, p, "shared")
        /\ UNCHANGED <<slots, port>>

\* A port in use is shared, at the baud rate of its first user.
OpenShared(d, p) ==
    \E c \in Entries :
        /\ Found(c, p)
        /\ port' = [port EXCEPT ![c].refs = @ + 1]
        /\ handle' = [handle EXCEPT ![d] = c]
        /\ Ended(d, p, "shared")
        /\ UNCHANGED slots

NewPath(p) == p # NoPath /\ ~\E c \in Entries : Found(c, p)

OpenExhausted(d, p) ==
    /\ NewPath(p)
    /\ ~HasRoom
    /\ Ended(d, p, "exhausted")
    /\ UNCHANGED <<slots, port, handle>>

\* RealSerial::open fails: no such port, or its tty is held exclusively.
OpenMissing(d, p) ==
    /\ NewPath(p)
    /\ HasRoom
    /\ \/ Ended(d, p, "absent")
       \/ ~Openable(p) /\ Ended(d, p, "busy")
    /\ UNCHANGED <<slots, port, handle>>

\* The port opens and takes the first free slot; the port a reused slot held
\* is closed with its last Rc.
OpenFresh(d, p, baud) ==
    /\ NewPath(p)
    /\ Openable(p)
    /\ \E s \in Slots :
        /\ FirstFree(s)
        /\ slots' = [slots EXCEPT ![s] = d]
    /\ port' = [port EXCEPT ![d] = [path |-> p, baud |-> baud, refs |-> 1,
                                    exclusive |-> TRUE]]
    /\ handle' = [handle EXCEPT ![d] = d]
    /\ Ended(d, p, "fresh")

OpenSerial(d, p, baud) ==
    \/ OpenEmpty(d, p)
    \/ OpenShared(d, p)
    \/ OpenExhausted(d, p)
    \/ OpenMissing(d, p)
    \/ OpenFresh(d, p, baud)

\* Drop for SerialPort: one user less.  The slot keeps its Rc.
DropPort(d) ==
    /\ handle' = [handle EXCEPT ![d] = NoOne]
    /\ port' = IF handle[d] = NoOne THEN port
               ELSE [port EXCEPT ![handle[d]].refs = @ - 1]

\* RealSerial::share gives up exclusive use of the tty, or fails to.
Share(c) == \E kept \in BOOLEAN : port' = [port EXCEPT ![c].exclusive = @ /\ kept]

\* share_notices: a failure is logged, no more.
SharePort(d) == Share(handle[d])

\* close_ports and the end of LoadedDevices: every device drops its port.
DropAllPorts ==
    /\ handle' = NoHandles
    /\ port' = NoPorts

-----------------------------------------------------------------------------
(* Properties *)

\* The count of a port is the number of devices that hold it, whatever mix of
\* first, shared, refused and released opens led here.  (Too low, the slot of a
\* live port is given away; too high, a slot is lost for the load.)
RefsCountUsers ==
    \A c \in Entries : port[c].refs = Cardinality(Users(c))

\* Two devices hold different ports only if these have different names: no tty
\* is driven through two files, with two baud rates.
OneFilePerPort ==
    \A c, e \in Entries :
        c # e /\ Users(c) # {} /\ Users(e) # {}
            => FoldCase(port[c].path) # FoldCase(port[e].path)

\* A device is turned away for lack of slots only while that many ports are in
\* use: what refused devices opened does not count against the others.
ExhaustedIsFull ==
    opened.outcome = "exhausted"
        => Cardinality({c \in Entries : Users(c) # {}}) >= Capacity

\* The table counts right, finds what is open, and is full when it says so.
PortsAreCounted == RefsCountUsers /\ OneFilePerPort /\ ExhaustedIsFull
=============================================================================
