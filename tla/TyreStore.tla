------------------------------ MODULE TyreStore ------------------------------
(***************************************************************************)
(* diameters.config and its two writers: the host's tyre check             *)
(* (cargopit/src/tyres.rs), which appends a car it has measured, and the   *)
(* TUI's tyre store (tui/src/tyres.rs), which keeps the list it loaded     *)
(* when it started and writes all of it back.                              *)
(*                                                                         *)
(* The host reads the file twice before it writes it, in place; the TUI's  *)
(* write is a rename and may fall between any two of these.  A name is     *)
(* compared as the game gives it and written as text.                      *)
(***************************************************************************)
EXTENDS Naturals, SequencesExt

CONSTANTS
    CarNames,       \* names a game gives its cars, as bytes, without
    NoCar,          \* the empty name
    DefaultCar,     \* TyreCar::default
    Lower,          \* the names, and their texts, without their case
    Lossy,          \* String::from_utf8_lossy: the text of a name
    Exes,           \* simulators, as numbers: of a C enum, so that stored_sim's i32 has them
    MaxCars,        \* bound: cars in the file
    MaxEdits        \* bound: times the TUI writes the file

ASSUME TyreStoreAssumption ==
    /\ NoCar \notin CarNames \cup {DefaultCar}
    /\ CarNames \cup {NoCar} \subseteq DOMAIN Lossy /\ Lossy[NoCar] = NoCar
    /\ {DefaultCar} \cup CarNames \cup {Lossy[name] : name \in CarNames} \subseteq DOMAIN Lower
    /\ Exes \subseteq Nat \ {0}
    /\ {MaxCars, MaxEdits} \subseteq Nat

VARIABLES
    diameters,      \* diameters.config
    checked,        \* config_checked
    saving,         \* the host's save: its entry, and the file as it read it
    tui,            \* the TUI's store, while it runs
    edits

tyres == <<diameters, checked, saving, tui, edits>>

\* stored_sim: a sim that is no integer reads as zero.
Text == 0
Entries == [car : {Lossy[name] : name \in CarNames} \cup {NoCar, DefaultCar},
            sim : Exes \cup {Text}, positive : BOOLEAN]

\* "missing" or unreadable, "corrupt" to the parser, "bare" without a list of
\* cars, or with one.
NoFile(kind) == [kind |-> kind, cars |-> <<>>]
WithCars(cars) == [kind |-> "cars", cars |-> cars]
Idle == [stage |-> "idle", entry |-> <<>>, read |-> NoFile("missing")]
Closed == [on |-> FALSE, cars |-> <<>>]

TyreTypeOK ==
    /\ diameters.kind \in {"missing", "corrupt", "bare", "cars"}
    /\ diameters.cars \in Seq(Entries)
    /\ {checked, tui.on} \subseteq BOOLEAN
    /\ saving.stage \in {"idle", "read", "write"}
    /\ saving.stage # "idle" => saving.entry \in Entries
    /\ tui.cars \in Seq(Entries)
    /\ edits \in 0 .. MaxEdits

-----------------------------------------------------------------------------
(* The host's tyre check *)

\* log_and_match: the name itself against the text that was saved.
Matches(entry, car, exe) ==
    /\ NoCar \notin {car, entry.car}
    /\ Lower[car] = Lower[entry.car]
    /\ entry.sim = exe

\* load_tyre_config: UNAVAILABLE without a list, NOT_FOUND (zero) without the car.
Unavailable(f) == f.kind # "cars"
FindCar(f, car, exe) ==
    SelectInSeq(f.cars, LAMBDA entry : Matches(entry, car, exe))

\* apply_diameters: a frame has its diameters when all are positive.
Loads(f, car, exe) ==
    LET i == FindCar(f, car, exe) IN ~Unavailable(f) /\ i # 0 /\ f.cars[i].positive

\* diameter_entry, car_text
DiameterEntry(car, exe) == [car |-> Lossy[car], sim |-> exe, positive |-> TRUE]

\* Whether the frame has a diameter for every tyre is held: every detection and
\* every mapping is given the whole frame, and may set them or drop them.

\* load_if_needed, once for each load of the devices.
LoadIfNeeded(held, car, exe) ==
    car # NoCar /\ ~held /\ ~checked /\ Loads(diameters, car, exe)
Checks(held, car) == car # NoCar /\ ~held

\* measure_if_needed: a coasting car, straight and fast enough.
MeasureIfNeeded(car, coasting) == car # NoCar /\ coasting

\* Fault for NoTwins: the file is not looked at again before the save.
FaultSavesNow(car, exe) == ~Unavailable(diameters)

\* save_if_ready
SavesNow(car, exe) == ~Unavailable(diameters) /\ FindCar(diameters, car, exe) = 0

\* check_tyres, up to the second reading; stops tells whether it is over.
CheckTyres(held, car, exe, coasting, stops) ==
    LET has == held \/ LoadIfNeeded(held, car, exe) \/ MeasureIfNeeded(car, coasting)
    IN  /\ checked' = (checked \/ Checks(held, car))
        /\ stops = has
        /\ saving' = IF has /\ SavesNow(car, exe) /\ Len(diameters.cars) < MaxCars
                     THEN [stage |-> "read", entry |-> DiameterEntry(car, exe),
                           read |-> NoFile("missing")]
                     ELSE saving
        /\ UNCHANGED <<diameters, tui, edits>>

\* save_tyre_config: reads the file again, whatever it is by now.
ReadToSave ==
    /\ saving.stage = "read"
    /\ saving' = [saving EXCEPT !.stage = "write", !.read = diameters]
    /\ UNCHANGED <<diameters, checked, tui, edits>>

\* Fault for KeepsMeasured: a file is begun anew.
FaultEnsureCars(f) == <<>>
\* ensure_cars: a file without a list, or without a syntax, is begun anew.
EnsureCars(f) == IF f.kind = "cars" THEN f.cars ELSE <<>>

\* fs::write truncates first: when it fails the file is whole, empty or cut off.
WriteDiameters ==
    /\ saving.stage = "write"
    /\ diameters' \in {WithCars(Append(EnsureCars(saving.read), saving.entry)),
                       diameters, NoFile("bare"), NoFile("corrupt")}
    /\ saving' = Idle
    /\ UNCHANGED <<checked, tui, edits>>

-----------------------------------------------------------------------------
(* The TUI's store *)

\* tyres::load, at the start of the TUI: a file that does not parse is an empty
\* store.  car_from_value takes a sim that is no text for an empty text.  A TUI
\* that is started again loads it again.
CarFromValue(entry) == [entry EXCEPT !.sim = Text]
OpenStore ==
    /\ edits < MaxEdits
    /\ tui' = [on |-> TRUE,
               cars |-> [i \in DOMAIN diameters.cars |-> CarFromValue(diameters.cars[i])]]
    /\ UNCHANGED <<diameters, checked, saving, edits>>

\* to_value: the sim is written as text.
CarToValue(entry) == [entry EXCEPT !.sim = Text]

\* tyres::save replaces the file; when that fails the TUI ends.
SaveStore(cars) ==
    /\ edits' = edits + 1
    /\ \/ /\ diameters' = WithCars([i \in DOMAIN cars |-> CarToValue(cars[i])])
          /\ tui' = [tui EXCEPT !.cars = cars]
       \/ diameters' = diameters /\ tui' = Closed

\* handle_tyres: its keys add, delete and save.
EditStore ==
    /\ tui.on /\ edits < MaxEdits
    /\ \/ /\ Len(tui.cars) < MaxCars
          /\ SaveStore(Append(tui.cars, [car |-> DefaultCar, sim |-> Text, positive |-> FALSE]))
       \/ \E i \in DOMAIN tui.cars : SaveStore(RemoveAt(tui.cars, i))
       \/ SaveStore(tui.cars)
    /\ UNCHANGED <<checked, saving>>

-----------------------------------------------------------------------------
(* Properties *)

\* The texts that stand for a name which is no UTF-8: none is ever found again.
Replaced == {Lossy[name] : name \in {raw \in CarNames : Lossy[raw] # raw}}

\* However the mappings, the TUI's writes and the host's failed ones follow
\* each other, and though a measured car is looked for once and appended
\* later, no car of a simulator is in the file twice (one host at a time),
\* unless its name is no UTF-8 and was saved as another.
NoTwins ==
    \A i, j \in DOMAIN diameters.cars :
        LET a == diameters.cars[i]
            b == diameters.cars[j]
        IN  /\ a.sim # Text /\ Matches(a, b.car, b.sim)
            /\ {a.car, b.car} \cap Replaced = {}
            => i = j

\* The cars that a host has measured and written: the TUI writes no number.
Measured(cars) == {cars[i] : i \in {j \in DOMAIN cars : cars[j].sim # Text}}

\* A host's write that ends well keeps every car that a host had measured: the
\* list it writes back may be older than the file, but only a TUI, which takes
\* all their numbers away, can have written in between.
KeepsMeasured ==
    [][saving.stage = "write" /\ saving' = Idle /\ diameters'.kind = "cars"
         => Measured(diameters.cars) \subseteq Measured(diameters'.cars)]_tyres
=============================================================================
