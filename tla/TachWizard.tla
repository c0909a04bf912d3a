----------------------------- MODULE TachWizard -----------------------------
(***************************************************************************)
(* The calibration of a RevBurner: `cargopit config tachometer` of         *)
(* crates/cargopit (cli.rs, main.rs config_tach, tach.rs) writes the table *)
(* that a session reads when it loads the device (cargopit-config tach.rs).*)
(*                                                                         *)
(* The user sets the needle by keys for one engine speed after the other.  *)
(* The file is written in place, and only when all were accepted; a host   *)
(* that dies meanwhile leaves it cut off.                                  *)
(***************************************************************************)
EXTENDS Integers, Sequences, FiniteSets

CONSTANTS
    AskedRevs,      \* the limits that are asked for
    TachFiles,      \* tables that users wrote by hand
    MaxKeys,        \* keys that move the needle, and
    MaxRuns         \* runs of the program

\* What a user may have written: a table, with any numbers.
ASSUME TachAssumption ==
    /\ AskedRevs \subseteq Nat /\ {MaxKeys, MaxRuns} \subseteq Nat
    /\ \A file \in TachFiles : file.spacing = 0

VARIABLES
    wizard,         \* the program: its stage, targets, what was accepted
    tachFile        \* the table: is it all there, its items

tach == <<wizard, tachFile>>

\* A file, and the spacing its points were calibrated with; 0 by hand.
Table(items, spacing) == [items |-> items, spacing |-> spacing, complete |-> TRUE]
CutOff == [items |-> <<>>, spacing |-> 0, complete |-> FALSE]
\* An item may lack its TimeValue.
Item(rpm, pulses) == [rpm |-> rpm, pulses |-> pulses, timed |-> TRUE]

NewWizard == [stage |-> "none", terminal |-> FALSE, spacing |-> 1, targets |-> <<>>,
              saved |-> <<>>, pulses |-> 0, keys |-> 0, runs |-> 0]
Exit == wizard' = [NewWizard EXCEPT !.keys = wizard.keys, !.runs = wizard.runs]

TachTypeOK ==
    /\ wizard \in [stage : {"none", "continue", "adjust", "write", "fill"},
                   terminal : BOOLEAN, spacing : {1, 2, 4}, targets : Seq(Nat),
                   saved : Seq(Int), pulses : Int, keys : 0 .. MaxKeys, runs : 0 .. MaxRuns]
    /\ tachFile.spacing \in {0, 1, 2, 4}

TachInit == tachFile \in TachFiles /\ wizard = NewWizard

-----------------------------------------------------------------------------
(* The points *)

MinRevs == 2000
AcceptedGranularity(asked) == IF asked \in {1, 2, 4} THEN asked ELSE 1
IncrementFor(granularity) ==
    CASE granularity = 2 -> 500
      [] granularity >= 4 -> 250
      [] OTHER -> 1000

FaultEvenTargets(maxRevs, granularity) ==
    [i \in 1 .. (maxRevs \div 1000) * granularity |-> i * IncrementFor(granularity)]
\* The first point of the coarser tables is the idle's.
RpmTargets(maxRevs, granularity) ==
    LET increment == IncrementFor(granularity)
        nodes == (maxRevs \div 1000) * granularity
    IN  IF granularity >= 4 THEN [i \in 1 .. nodes |-> i * increment]
        ELSE [i \in 1 .. nodes + 1 |-> IF i = 1 THEN 250 ELSE (i - 1) * increment]

ApplyKey(pulses, key) ==
    pulses + CASE key = ">" -> 1
               [] key = "<" -> -1
               [] key = "c" -> 100
               [] key = "z" -> -100
               [] key = "m" -> 1000
               [] key = "n" -> -1000
               [] OTHER -> 0

-----------------------------------------------------------------------------
(* The program *)

\* nudge_tach of the TUI: limits by steps of 500, and the accepted granularities.
TachScreen == [revs : {revs \in AskedRevs : revs >= 1000 /\ revs % 500 = 0},
               granularity : {1, 2, 4}]
\* spawn_tachometer, tachometer_args: there is no terminal to read keys from.
TuiAsks == {[revs |-> asked.revs, granularity |-> asked.granularity, terminal |-> FALSE] :
               asked \in TachScreen}
UserAsks == [revs : AskedRevs, granularity : 0 .. 5, terminal : {TRUE}]

\* parse_config, rpm_targets: too low a limit is refused.
ConfigTach ==
    /\ wizard.stage = "none" /\ wizard.runs < MaxRuns
    /\ \E asked \in TuiAsks \cup UserAsks :
          LET granularity == AcceptedGranularity(asked.granularity) IN
          /\ asked.revs >= MinRevs
          /\ wizard' = [wizard EXCEPT
                           !.runs = @ + 1, !.stage = "continue", !.terminal = asked.terminal,
                           !.spacing = granularity,
                           !.targets = RpmTargets(asked.revs, granularity)]
    /\ UNCHANGED tachFile

\* await_continue: any key.
AwaitContinue ==
    /\ wizard.stage = "continue" /\ wizard.terminal
    /\ wizard' = [wizard EXCEPT !.stage = "adjust"]
    /\ UNCHANGED tachFile

\* adjust_until_accept; the needle stays where it is for the next target.
Adjust ==
    /\ wizard.stage = "adjust" /\ wizard.keys < MaxKeys
    /\ \E key \in {">", "<", "c", "z", "m", "n"} :
          wizard' = [wizard EXCEPT !.pulses = ApplyKey(@, key), !.keys = @ + 1]
    /\ UNCHANGED tachFile
Accept ==
    LET saved == Append(wizard.saved, wizard.pulses) IN
    /\ wizard.stage = "adjust"
    /\ wizard' = [wizard EXCEPT !.saved = saved,
                     !.stage = IF Len(saved) = Len(wizard.targets) THEN "write" ELSE @]
    /\ UNCHANGED tachFile

\* The input ends, or the user stops the program: no file is written.
CaptureStopped ==
    /\ wizard.stage \in {"continue", "adjust"}
    /\ Exit
    /\ UNCHANGED tachFile

\* fs::write empties the file, if it can be opened, and then fills it.
EmptyFile ==
    /\ wizard.stage = "write"
    /\ \/ tachFile' = CutOff /\ wizard' = [wizard EXCEPT !.stage = "fill"]
       \/ Exit /\ UNCHANGED tachFile
\* write_xml
FillFile ==
    /\ wizard.stage = "fill"
    /\ Exit
    /\ \/ tachFile' = Table([i \in DOMAIN wizard.targets |->
                                Item(wizard.targets[i], wizard.saved[i])], wizard.spacing)
       \/ UNCHANGED tachFile                      \* the disk is full, or it is killed

TachNext ==
    \/ ConfigTach \/ AwaitContinue \/ Adjust \/ Accept \/ CaptureStopped
    \/ EmptyFile \/ FillFile

-----------------------------------------------------------------------------
(* Reading it *)

\* parse_tach_xml: an element that is not closed makes the file unreadable,
\* items without pulses do not count, and a number below zero is read as none.
TachPoints(file) ==
    LET timed == {i \in DOMAIN file.items : file.items[i].timed}
        nth(n) == CHOOSE i \in timed : Cardinality({j \in timed : j <= i}) = n
    IN  IF ~file.complete THEN <<>>
        ELSE [n \in 1 .. Cardinality(timed) |->
                 [file.items[nth(n)] EXCEPT !.pulses = IF @ < 0 THEN 0 ELSE @]]
=============================================================================
