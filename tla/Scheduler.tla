----------------------------- MODULE Scheduler ------------------------------
(***************************************************************************)
(* The due-time scheduler of crates/cargopit/src/scheduler.rs, which paces  *)
(* the devices and the tyre check.  It has no thread: a timer fires only    *)
(* when the play loop polls, and the loop polls late, at uneven intervals,  *)
(* and after a long sleep.                                                  *)
(***************************************************************************)
EXTENDS Integers, Sequences, FiniteSets

CONSTANTS
    Fps,                \* the fps a device may be configured with, any i32
    DiscoveryMs,        \* DISCOVERY_MS, 1000 in the code
    TyreCheckMs,        \* TYRE_CHECK_MS, 1000 in the code
    MappingStartMs,     \* MAPPING_START_MS, 2000 in the code
    MaxTime,            \* bound: the clock stops here
    MaxGap,             \* bound: the longest time between two polls
    MaxAdds             \* bound: timers ever added

ASSUME SchedulerAssumption ==
    /\ Fps \subseteq Int
    /\ DiscoveryMs \in Nat \ {0}
    /\ TyreCheckMs \in Nat \ {0}
    /\ MappingStartMs \in Nat
    /\ MaxTime \in Nat
    /\ MaxGap \in Nat
    /\ MaxAdds \in Nat

VARIABLES
    now,            \* now_ms: the clock as the last poll read it
    nextSequence,
    timers,         \* in the order they were pushed
    fired           \* what the last poll returned

vars == <<now, nextSequence, timers, fired>>

Kinds == {"Device", "Discovery", "TyreDiameter", "Mapping"}

\* The fields of the code, and four of history: when the timer was first due,
\* how often it fired, and when it did so last and the time before.
Timer == [due : Nat, sequence : Nat, period : Nat \ {0}, kind : Kinds, device : Nat,
          armed : Nat, fires : Nat, last : Nat, prev : Nat]

Due == [kind : Kinds, device : Nat, due : Nat]

TypeOK ==
    /\ now \in Nat
    /\ nextSequence \in Nat
    /\ timers \in Seq(Timer)
    /\ fired \in Seq(Due)

Init ==
    /\ now = 0
    /\ nextSequence = 0
    /\ timers = <<>>
    /\ fired = <<>>

-----------------------------------------------------------------------------

\* clamp_fps
ClampFps(fps) == IF fps < 1 THEN 1 ELSE IF fps > 1000 THEN 1000 ELSE fps

\* tick_interval_ms, whose default for 0 fps a clamped value never asks for.
TickIntervalMs(fps) == 1000 \div fps

\* push
Push(kind, device, due, period) ==
    /\ nextSequence < MaxAdds
    /\ timers' = Append(timers,
         [due |-> due, sequence |-> nextSequence, period |-> period, kind |-> kind,
          device |-> device, armed |-> due, fires |-> 0, last |-> due, prev |-> due])
    /\ nextSequence' = nextSequence + 1
    /\ UNCHANGED <<now, fired>>

\* tick_devices adds the devices of a profile first, 0, 1, ... in config order.
AddDevice ==
    /\ \A i \in DOMAIN timers : timers[i].kind = "Device"
    /\ \E fps \in Fps : Push("Device", Len(timers), now, TickIntervalMs(ClampFps(fps)))

AddDiscovery == Push("Discovery", 0, now, DiscoveryMs)

AddTyreCheck == Push("TyreDiameter", 0, now, TyreCheckMs)

AddMapping ==
    \E fps \in Fps :
      Push("Mapping", 0, now + MappingStartMs, TickIntervalMs(ClampFps(fps)))

\* A release; the sequence numbers go on.
Clear ==
    /\ timers' = <<>>
    /\ UNCHANGED <<now, nextSequence, fired>>

\* Fault for NoBacklog: a late timer catches up one period at a time.
FaultCatchUp(timer, time) == timer.due + timer.period

\* Fault for RateBound and NoBurst: a late timer is due again at once.
FaultEager(timer, time) ==
    IF timer.due < time THEN time + 1 ELSE timer.due + timer.period

\* When a timer that fires at time is due again: on its grid, or a period from
\* now when that has passed as well.
NextDue(timer, time) ==
    LET next == timer.due + timer.period
    IN  IF next <= time THEN time + timer.period ELSE next

\* Fault for ConfigOrder: a timer that fired is queued anew.
FaultRequeue(timer, time) ==
    [timer EXCEPT !.due = NextDue(timer, time), !.sequence = nextSequence - @,
                  !.fires = @ + 1, !.prev = timer.last, !.last = time]

Fire(timer, time) ==
    [timer EXCEPT !.due = NextDue(timer, time), !.fires = @ + 1,
                  !.prev = timer.last, !.last = time]

Before(a, b) == a.due < b.due \/ (a.due = b.due /\ a.sequence < b.sequence)

\* due.sort_by: the one order of the timers in S in which each is before the next.
InOrder(S) ==
    {order \in [1 .. Cardinality(S) -> S] :
       \A m, n \in DOMAIN order : m < n => Before(timers[order[m]], timers[order[n]])}

Report(timer) == [kind |-> timer.kind, device |-> timer.device, due |-> timer.due]

\* One reading of the clock; an overdue timer fires once, however late it is.
Poll ==
    \E time \in now .. now + MaxGap :
      LET overdue == {i \in DOMAIN timers : timers[i].due <= time}
      IN  /\ time <= MaxTime
          /\ now' = time
          /\ \E order \in InOrder(overdue) :
               fired' = [n \in DOMAIN order |-> Report(timers[order[n]])]
          /\ timers' = [i \in DOMAIN timers |->
                          IF i \in overdue THEN Fire(timers[i], time) ELSE timers[i]]
          /\ UNCHANGED nextSequence

Next == AddDevice \/ AddDiscovery \/ AddTyreCheck \/ AddMapping \/ Clear \/ Poll

Spec == Init /\ [][Next]_vars

-----------------------------------------------------------------------------
(* Properties *)

\* A poll leaves no timer overdue, and a timer that has fired is due again within
\* one period of that: a loop that was late owes a device no frames, and no device
\* waits longer than a period and the wait of the poll that ends it.
NoBacklog ==
    \A i \in DOMAIN timers :
      LET timer == timers[i]
      IN  timer.fires > 0 => /\ now < timer.due
                             /\ timer.due <= timer.last + timer.period

\* Counted from when it was added a device gets no more frames than its interval
\* allows, however the polls fall: the first may be late and the next on time.
RateBound ==
    \A i \in DOMAIN timers :
      timers[i].armed + timers[i].fires * timers[i].period <= timers[i].due

\* Two frames may come closer than the interval when the first was late, but a
\* third always waits for a whole interval after the first of them.
NoBurst ==
    \A i \in DOMAIN timers :
      timers[i].fires >= 2 => timers[i].prev + timers[i].period < timers[i].due

\* Neither on average nor in a burst is a device driven faster than configured.
FramesAreSpaced == RateBound /\ NoBurst

\* The module's header: "Equal deadlines run in config order", and a device that
\* is due earlier runs earlier, after any number of polls and reloads.
ConfigOrder ==
    \A m, n \in DOMAIN fired :
      m < n => \/ fired[m].due < fired[n].due
               \/ /\ fired[m].due = fired[n].due
                  /\ fired[m].kind = "Device" /\ fired[n].kind = "Device" =>
                       fired[m].device < fired[n].device
=============================================================================
