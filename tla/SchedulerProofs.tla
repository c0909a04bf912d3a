-------------------------- MODULE SchedulerProofs ---------------------------
(***************************************************************************)
(* Proofs about Scheduler for every profile of fps values and every         *)
(* sequence of polls, however late.                                         *)
(***************************************************************************)
EXTENDS Scheduler, FiniteSetTheorems, TLAPS

\* Whatever fps a profile asks for, its interval is a positive number of
\* milliseconds: the clamp keeps the division from reaching 0.
LEMMA IntervalType ==
  ASSUME NEW fps \in Int
  PROVE  TickIntervalMs(ClampFps(fps)) \in Nat \ {0}
<1> DEFINE f == ClampFps(fps)
<1>1. f \in 1 .. 1000
  BY DEF ClampFps
<1> HIDE DEF f
<1>2. 1000 \div f \in Nat
  BY <1>1
<1>3. 1000 \div f >= 1
  BY <1>1
<1> QED
  BY <1>2, <1>3 DEF TickIntervalMs, f

LEMMA NextDueLater ==
  ASSUME NEW timer \in Timer, NEW time \in Nat
  PROVE  /\ NextDue(timer, time) \in Nat
         /\ NextDue(timer, time) > time
         /\ NextDue(timer, time) >= timer.due + timer.period
         /\ timer.due <= time => NextDue(timer, time) <= time + timer.period
BY DEF Timer, NextDue

\* What firing does to the fields of a timer.
LEMMA FireFields ==
  ASSUME NEW timer \in Timer, NEW time \in Nat
  PROVE  LET after == Fire(timer, time)
         IN  /\ after \in Timer
             /\ after.due = NextDue(timer, time)
             /\ after.fires = timer.fires + 1
             /\ after.prev = timer.last
             /\ after.last = time
             /\ after.period = timer.period
             /\ after.armed = timer.armed
             /\ after.sequence = timer.sequence
             /\ after.kind = timer.kind
             /\ after.device = timer.device
<1> DEFINE next == NextDue(timer, time)
           after == Fire(timer, time)
<1>1. next \in Nat
  BY NextDueLater
<1> HIDE DEF next
<1>2. after = [timer EXCEPT !.due = next, !.fires = @ + 1,
                            !.prev = timer.last, !.last = time]
  BY DEF Fire, next
<1> HIDE DEF after
<1>3. after \in Timer
  <2> DEFINE more == timer.fires + 1
  <2>1. more \in Nat /\ timer.last \in Nat
    BY DEF Timer
  <2> HIDE DEF more
  <2>2. [timer EXCEPT !.due = next, !.fires = more,
                      !.prev = timer.last, !.last = time] \in Timer
    BY <1>1, <2>1 DEF Timer
  <2> QED
    BY <1>2, <2>2 DEF more
<1>4. /\ after.due = next
      /\ after.fires = timer.fires + 1
      /\ after.prev = timer.last
      /\ after.last = time
  BY <1>2 DEF Timer
<1>5. /\ after.period = timer.period
      /\ after.armed = timer.armed
      /\ after.sequence = timer.sequence
      /\ after.kind = timer.kind
      /\ after.device = timer.device
  BY <1>2 DEF Timer
<1> QED
  BY <1>3, <1>4, <1>5 DEF next, after

LEMMA ReportType ==
  ASSUME NEW timer \in Timer
  PROVE  Report(timer) \in Due
BY DEF Report, Timer, Due

-----------------------------------------------------------------------------
(* What each operation does to the list of timers *)

\* push appends one timer that has not fired; the others are as they were.
LEMMA PushTimers ==
  ASSUME TypeOK, NEW kind \in Kinds, NEW device \in Nat, NEW due \in Nat,
         NEW period \in Nat \ {0}, Push(kind, device, due, period)
  PROVE  /\ TypeOK'
         /\ UNCHANGED <<now, fired>>
         /\ nextSequence' = nextSequence + 1
         /\ Len(timers') = Len(timers) + 1
         /\ \A i \in DOMAIN timers : timers'[i] = timers[i]
         /\ LET new == timers'[Len(timers) + 1]
            IN  /\ new.due = due /\ new.armed = due
                /\ new.fires = 0 /\ new.period = period
                /\ new.kind = kind /\ new.device = device
                /\ new.sequence = nextSequence
<1> USE DEF TypeOK
<1> DEFINE new == [due |-> due, sequence |-> nextSequence, period |-> period,
                   kind |-> kind, device |-> device, armed |-> due, fires |-> 0,
                   last |-> due, prev |-> due]
<1>1. new \in Timer
  BY DEF Timer
<1>2. timers' = Append(timers, new)
  BY DEF Push
<1>3. /\ new.due = due /\ new.armed = due
      /\ new.fires = 0 /\ new.period = period
      /\ new.kind = kind /\ new.device = device
      /\ new.sequence = nextSequence
  OBVIOUS
<1> HIDE DEF new
<1>4. /\ timers' \in Seq(Timer)
      /\ Len(timers') = Len(timers) + 1
      /\ \A i \in DOMAIN timers : timers'[i] = timers[i]
      /\ timers'[Len(timers) + 1] = new
  BY <1>1, <1>2
<1>5. UNCHANGED <<now, fired>> /\ nextSequence' = nextSequence + 1
  BY DEF Push
<1> QED
  BY <1>3, <1>4, <1>5

\* A poll at some time fires the overdue timers, reports them in order, and
\* leaves the others as they were.
LEMMA PollTimers ==
  ASSUME TypeOK, Poll
  PROVE  \E time \in Nat :
           /\ now <= time /\ now' = time
           /\ UNCHANGED nextSequence
           /\ timers' \in Seq(Timer)
           /\ Len(timers') = Len(timers)
           /\ \A i \in DOMAIN timers :
                timers'[i] = IF timers[i].due <= time THEN Fire(timers[i], time)
                                                      ELSE timers[i]
           /\ \E S \in SUBSET DOMAIN timers : \E order \in InOrder(S) :
                fired' = [n \in DOMAIN order |-> Report(timers[order[n]])]
<1> USE DEF TypeOK
<1>1. PICK time \in now .. now + MaxGap :
        /\ now' = time
        /\ \E order \in InOrder({i \in DOMAIN timers : timers[i].due <= time}) :
             fired' = [n \in DOMAIN order |-> Report(timers[order[n]])]
        /\ timers' = [i \in DOMAIN timers |->
                        IF i \in {k \in DOMAIN timers : timers[k].due <= time}
                        THEN Fire(timers[i], time) ELSE timers[i]]
        /\ UNCHANGED nextSequence
  BY DEF Poll
<1>2. time \in Nat /\ now <= time
  BY <1>1, SchedulerAssumption DEF SchedulerAssumption
<1>3. \A i \in DOMAIN timers : timers[i] \in Timer /\ Fire(timers[i], time) \in Timer
  BY <1>2, FireFields
<1>4. timers' = [i \in 1 .. Len(timers) |->
                   IF timers[i].due <= time THEN Fire(timers[i], time) ELSE timers[i]]
  BY <1>1
<1>5. timers' \in Seq(Timer) /\ Len(timers') = Len(timers)
  BY <1>3, <1>4
<1> QED
  BY <1>1, <1>2, <1>4, <1>5

\* What is reported in order is a sequence of reports.
LEMMA ReportedType ==
  ASSUME TypeOK, NEW S \in SUBSET DOMAIN timers, NEW order \in InOrder(S)
  PROVE  [n \in DOMAIN order |-> Report(timers[order[n]])] \in Seq(Due)
<1>1. IsFiniteSet(S)
  <2>1. IsFiniteSet(1 .. Len(timers))
    BY FS_Interval DEF TypeOK
  <2> QED
    BY <2>1, FS_Subset DEF TypeOK
<1>2. Cardinality(S) \in Nat
  BY <1>1, FS_CardinalityType
<1>3. DOMAIN order = 1 .. Cardinality(S)
  BY DEF InOrder
<1>4. \A n \in DOMAIN order : Report(timers[order[n]]) \in Due
  <2> TAKE n \in DOMAIN order
  <2>1. order[n] \in DOMAIN timers
    BY DEF InOrder
  <2> QED
    BY <2>1, ReportType DEF TypeOK
<1> QED
  BY <1>2, <1>3, <1>4

-----------------------------------------------------------------------------
(* Type correctness *)

\* Each of the four ways to add a timer is a push of well-typed arguments.
LEMMA AddIsPush ==
  ASSUME TypeOK, AddDevice \/ AddDiscovery \/ AddTyreCheck \/ AddMapping
  PROVE  \E kind \in Kinds, device \in Nat, due \in Nat, period \in Nat \ {0} :
           /\ kind = "Device" => device = Len(timers)
           /\ Push(kind, device, due, period)
<1> USE DEF TypeOK
<1>0. now \in Nat /\ Len(timers) \in Nat
  OBVIOUS
<1>1. \A fps \in Fps : TickIntervalMs(ClampFps(fps)) \in Nat \ {0}
  BY IntervalType, SchedulerAssumption DEF SchedulerAssumption
<1>2. CASE AddDevice
  <2>1. PICK fps \in Fps :
          Push("Device", Len(timers), now, TickIntervalMs(ClampFps(fps)))
    BY <1>2 DEF AddDevice
  <2>2. "Device" \in Kinds
    BY DEF Kinds
  <2> QED
    BY <1>0, <1>1, <2>1, <2>2
<1>3. CASE AddDiscovery
  <2>1. "Discovery" \in Kinds /\ DiscoveryMs \in Nat \ {0} /\ "Discovery" # "Device"
    BY SchedulerAssumption DEF SchedulerAssumption, Kinds
  <2>2. Push("Discovery", 0, now, DiscoveryMs)
    BY <1>3 DEF AddDiscovery
  <2> QED
    BY <1>0, <2>1, <2>2
<1>4. CASE AddTyreCheck
  <2>1. "TyreDiameter" \in Kinds /\ TyreCheckMs \in Nat \ {0} /\ "TyreDiameter" # "Device"
    BY SchedulerAssumption DEF SchedulerAssumption, Kinds
  <2>2. Push("TyreDiameter", 0, now, TyreCheckMs)
    BY <1>4 DEF AddTyreCheck
  <2> QED
    BY <1>0, <2>1, <2>2
<1>5. CASE AddMapping
  <2>1. "Mapping" \in Kinds /\ now + MappingStartMs \in Nat /\ "Mapping" # "Device"
    BY <1>0, SchedulerAssumption DEF SchedulerAssumption, Kinds
  <2>2. PICK fps \in Fps :
          Push("Mapping", 0, now + MappingStartMs, TickIntervalMs(ClampFps(fps)))
    BY <1>5 DEF AddMapping
  <2> QED
    BY <1>1, <2>1, <2>2
<1> QED
  BY <1>2, <1>3, <1>4, <1>5

LEMMA PollType == TypeOK /\ Poll => TypeOK'
<1> SUFFICES ASSUME TypeOK, Poll PROVE TypeOK'
  OBVIOUS
<1>1. now' \in Nat /\ UNCHANGED nextSequence /\ timers' \in Seq(Timer)
  BY PollTimers
<1>2. fired' \in Seq(Due)
  BY PollTimers, ReportedType
<1> QED
  BY <1>1, <1>2 DEF TypeOK

LEMMA NextType == TypeOK /\ [Next]_vars => TypeOK'
<1> SUFFICES ASSUME TypeOK, [Next]_vars PROVE TypeOK'
  OBVIOUS
<1>1. CASE AddDevice \/ AddDiscovery \/ AddTyreCheck \/ AddMapping
  BY <1>1, AddIsPush, PushTimers
<1>2. CASE Clear
  BY <1>2 DEF Clear, TypeOK
<1>3. CASE Poll
  BY <1>3, PollType
<1>4. CASE UNCHANGED vars
  BY <1>4 DEF vars, TypeOK
<1> QED
  BY <1>1, <1>2, <1>3, <1>4 DEF Next

\* The scheduler's state is well typed, intervals are never 0.
THEOREM SchedulerTypeCorrect == Spec => []TypeOK
<1>1. Init => TypeOK
  BY DEF Init, TypeOK
<1> QED
  BY <1>1, NextType, PTL DEF Spec

-----------------------------------------------------------------------------
(* Pacing *)

\* A timer that fired did so no later than now.
FiredInThePast ==
    \A i \in DOMAIN timers : timers[i].fires > 0 => timers[i].last <= now

\* NoBurst needs to know that a timer is due after its last firing, which follows
\* from NoBacklog at the poll that fired it and FiredInThePast since.
PaceInv == NoBacklog /\ RateBound /\ NoBurst /\ FiredInThePast

\* The parts of PaceInv that speak of one timer.
Paced(timer, time) ==
    /\ timer.fires > 0 => /\ time < timer.due
                          /\ timer.due <= timer.last + timer.period
                          /\ timer.last <= time
    /\ timer.armed + timer.fires * timer.period <= timer.due
    /\ timer.fires >= 2 => timer.prev + timer.period < timer.due

LEMMA PaceIsPaced == PaceInv <=> \A i \in DOMAIN timers : Paced(timers[i], now)
BY DEF PaceInv, NoBacklog, RateBound, NoBurst, FiredInThePast, Paced

LEMMA PaceIsPacedPrimed ==
  PaceInv' <=> \A i \in DOMAIN timers' : Paced(timers'[i], now')
BY DEF PaceInv, NoBacklog, RateBound, NoBurst, FiredInThePast, Paced

\* Firing keeps the pace.
LEMMA FirePaced ==
  ASSUME NEW timer \in Timer, NEW before \in Nat, NEW time \in Nat,
         Paced(timer, before), before <= time, timer.due <= time
  PROVE  Paced(Fire(timer, time), time)
<1> DEFINE after == Fire(timer, time)
<1>1. /\ after.due = NextDue(timer, time)
      /\ after.fires = timer.fires + 1
      /\ after.prev = timer.last
      /\ after.last = time
      /\ after.period = timer.period
      /\ after.armed = timer.armed
  BY FireFields
<1>2. /\ NextDue(timer, time) \in Nat
      /\ NextDue(timer, time) > time
      /\ NextDue(timer, time) >= timer.due + timer.period
      /\ NextDue(timer, time) <= time + timer.period
  BY NextDueLater
<1>3. /\ timer.due \in Nat /\ timer.fires \in Nat /\ timer.period \in Nat
      /\ timer.last \in Nat /\ timer.armed \in Nat
  BY DEF Timer
<1> HIDE DEF after
<1>4. after.fires > 0 => /\ time < after.due
                         /\ after.due <= after.last + after.period
                         /\ after.last <= time
  BY <1>1, <1>2, <1>3
<1>5. after.armed + after.fires * after.period <= after.due
  <2>1. (timer.fires + 1) * timer.period = timer.fires * timer.period + timer.period
    BY <1>3
  <2>2. timer.fires * timer.period \in Nat
    BY <1>3
  <2>3. timer.armed + timer.fires * timer.period <= timer.due
    BY DEF Paced
  <2> QED
    BY <1>1, <1>2, <1>3, <2>1, <2>2, <2>3
<1>6. after.fires >= 2 => after.prev + after.period < after.due
  <2> SUFFICES ASSUME after.fires >= 2 PROVE after.prev + after.period < after.due
    OBVIOUS
  <2>1. timer.last < timer.due
    BY <1>1, <1>3 DEF Paced
  <2> QED
    BY <1>1, <1>2, <1>3, <2>1
<1> QED
  BY <1>4, <1>5, <1>6 DEF Paced, after

LEMMA NextPaced == TypeOK /\ PaceInv /\ [Next]_vars => PaceInv'
<1> SUFFICES ASSUME TypeOK, PaceInv, [Next]_vars
             PROVE  \A i \in DOMAIN timers' : Paced(timers'[i], now')
  BY PaceIsPacedPrimed
<1> USE DEF TypeOK
<1>0. \A i \in DOMAIN timers : Paced(timers[i], now)
  BY PaceIsPaced
<1>1. CASE AddDevice \/ AddDiscovery \/ AddTyreCheck \/ AddMapping
  <2>1. PICK kind \in Kinds, device \in Nat, due \in Nat, period \in Nat \ {0} :
          Push(kind, device, due, period)
    BY <1>1, AddIsPush
  <2> DEFINE new == timers'[Len(timers) + 1]
  <2>2. /\ now' = now
        /\ timers' \in Seq(Timer)
        /\ Len(timers') = Len(timers) + 1
        /\ \A i \in DOMAIN timers : timers'[i] = timers[i]
        /\ new.due = due /\ new.armed = due /\ new.fires = 0 /\ new.period = period
    BY <2>1, PushTimers
  <2>3. Paced(new, now)
    <3>1. new.fires * new.period = 0
      BY <2>2
    <3> HIDE DEF new
    <3> QED
      BY <2>2, <3>1 DEF Paced
  <2> QED
    BY <1>0, <2>2, <2>3
<1>2. CASE Clear
  BY <1>2 DEF Clear
<1>3. CASE Poll
  <2>1. PICK time \in Nat :
          /\ now <= time /\ now' = time
          /\ timers' \in Seq(Timer)
          /\ Len(timers') = Len(timers)
          /\ \A i \in DOMAIN timers :
               timers'[i] = IF timers[i].due <= time THEN Fire(timers[i], time)
                                                     ELSE timers[i]
    BY <1>3, PollTimers
  <2> SUFFICES ASSUME NEW i \in DOMAIN timers' PROVE Paced(timers'[i], time)
    BY <2>1
  <2>2. i \in DOMAIN timers /\ timers[i] \in Timer /\ Paced(timers[i], now)
    BY <1>0, <2>1
  <2>3. CASE timers[i].due <= time
    BY <2>1, <2>2, <2>3, FirePaced
  <2>4. CASE ~(timers[i].due <= time)
    <3>1. /\ timers[i].due \in Nat /\ timers[i].last \in Nat
          /\ timers'[i] = timers[i]
      BY <2>1, <2>2, <2>4 DEF Timer
    <3>2. time < timers[i].due
      BY <2>1, <2>4, <3>1
    <3> QED
      BY <2>1, <2>2, <3>1, <3>2 DEF Paced
  <2> QED
    BY <2>3, <2>4
<1>4. CASE UNCHANGED vars
  BY <1>0, <1>4 DEF vars
<1> QED
  BY <1>1, <1>2, <1>3, <1>4 DEF Next

LEMMA PaceCorrect == Spec => []PaceInv
<1>1. Init => PaceInv
  BY DEF Init, PaceInv, NoBacklog, RateBound, NoBurst, FiredInThePast
<1> QED
  BY <1>1, NextPaced, SchedulerTypeCorrect, PTL DEF Spec

\* No device is sent more than its interval allows, counted from its start.
THEOREM RateCorrect == Spec => []RateBound
BY PaceCorrect, PTL DEF PaceInv

\* A late loop owes no frames and keeps no device waiting beyond the next one.
THEOREM BacklogCorrect == Spec => []NoBacklog
BY PaceCorrect, PTL DEF PaceInv

\* No device gets three frames within one interval.
THEOREM BurstCorrect == Spec => []NoBurst
BY PaceCorrect, PTL DEF PaceInv

\* No device is driven faster than configured, on average or in a burst.
THEOREM SpacedCorrect == Spec => []FramesAreSpaced
BY PaceCorrect, PTL DEF PaceInv, FramesAreSpaced

-----------------------------------------------------------------------------
(* Order *)

\* Timers stand in the order they were pushed, devices by their index.
PushOrder ==
    /\ \A i \in DOMAIN timers : /\ timers[i].sequence < nextSequence
                                /\ timers[i].kind = "Device" => timers[i].device = i - 1
    /\ \A i, j \in DOMAIN timers : i < j => timers[i].sequence < timers[j].sequence

\* Reporting in order of deadline and sequence is reporting in config order.
LEMMA ReportedInOrder ==
  ASSUME TypeOK, PushOrder, NEW S \in SUBSET DOMAIN timers, NEW order \in InOrder(S),
         fired' = [n \in DOMAIN order |-> Report(timers[order[n]])]
  PROVE  ConfigOrder'
<1> USE DEF TypeOK
<1> SUFFICES ASSUME NEW m \in DOMAIN order, NEW n \in DOMAIN order, m < n
             PROVE  \/ fired'[m].due < fired'[n].due
                    \/ /\ fired'[m].due = fired'[n].due
                       /\ fired'[m].kind = "Device" /\ fired'[n].kind = "Device" =>
                            fired'[m].device < fired'[n].device
  BY DEF ConfigOrder
<1> DEFINE i == order[m]
           j == order[n]
<1>1. i \in DOMAIN timers /\ j \in DOMAIN timers
  BY DEF InOrder
<1>2. Before(timers[i], timers[j])
  BY DEF InOrder
<1>3. fired'[m] = Report(timers[i]) /\ fired'[n] = Report(timers[j])
  OBVIOUS
<1> HIDE DEF i, j
<1>4. timers[i] \in Timer /\ timers[j] \in Timer
  BY <1>1
<1>5. CASE timers[i].due < timers[j].due
  BY <1>3, <1>5 DEF Report
<1>6. CASE timers[i].due = timers[j].due /\ timers[i].sequence < timers[j].sequence
  <2>1. i < j
    <3>1. timers[i].sequence \in Nat /\ timers[j].sequence \in Nat
      BY <1>4 DEF Timer
    <3>2. i # j /\ ~(j < i)
      BY <1>1, <1>6, <3>1 DEF PushOrder
    <3> QED
      BY <1>1, <3>2
  <2>2. timers[i].kind = "Device" /\ timers[j].kind = "Device" =>
          timers[i].device < timers[j].device
    BY <1>1, <2>1 DEF PushOrder
  <2> QED
    BY <1>3, <1>6, <2>2 DEF Report
<1> QED
  BY <1>2, <1>5, <1>6 DEF Before

LEMMA NextOrder ==
  TypeOK /\ PushOrder /\ ConfigOrder /\ [Next]_vars => PushOrder' /\ ConfigOrder'
<1> SUFFICES ASSUME TypeOK, PushOrder, ConfigOrder, [Next]_vars
             PROVE  PushOrder' /\ ConfigOrder'
  OBVIOUS
<1> USE DEF TypeOK
<1>1. CASE AddDevice \/ AddDiscovery \/ AddTyreCheck \/ AddMapping
  <2>1. PICK kind \in Kinds, device \in Nat, due \in Nat, period \in Nat \ {0} :
          /\ kind = "Device" => device = Len(timers)
          /\ Push(kind, device, due, period)
    BY <1>1, AddIsPush
  <2> DEFINE new == timers'[Len(timers) + 1]
  <2>2. /\ fired' = fired
        /\ nextSequence' = nextSequence + 1
        /\ timers' \in Seq(Timer)
        /\ Len(timers') = Len(timers) + 1
        /\ \A i \in DOMAIN timers : timers'[i] = timers[i]
        /\ new.kind = kind /\ new.device = device /\ new.sequence = nextSequence
    BY <2>1, PushTimers
  <2>3. \A i \in DOMAIN timers' : i \in DOMAIN timers \/ i = Len(timers) + 1
    BY <2>2
  <2>4. \A i \in DOMAIN timers : timers[i].sequence \in Nat
    <3>1. \A i \in DOMAIN timers : timers[i] \in Timer
      OBVIOUS
    <3> QED
      BY <3>1 DEF Timer
  <2>5. \A i \in DOMAIN timers' :
          /\ timers'[i].sequence < nextSequence'
          /\ timers'[i].kind = "Device" => timers'[i].device = i - 1
    <3> TAKE i \in DOMAIN timers'
    <3>1. CASE i \in DOMAIN timers
      BY <2>2, <2>4, <3>1 DEF PushOrder
    <3>2. CASE i = Len(timers) + 1
      BY <2>1, <2>2, <3>2
    <3> QED
      BY <2>3, <3>1, <3>2
  <2>6. \A i, j \in DOMAIN timers' : i < j => timers'[i].sequence < timers'[j].sequence
    <3> SUFFICES ASSUME NEW i \in DOMAIN timers', NEW j \in DOMAIN timers', i < j
                 PROVE  timers'[i].sequence < timers'[j].sequence
      OBVIOUS
    <3>1. i \in DOMAIN timers
      BY <2>2
    <3>2. CASE j \in DOMAIN timers
      BY <2>2, <3>1, <3>2 DEF PushOrder
    <3>3. CASE j = Len(timers) + 1
      BY <2>2, <3>1, <3>3 DEF PushOrder
    <3> QED
      BY <2>3, <3>2, <3>3
  <2> QED
    BY <2>2, <2>5, <2>6 DEF PushOrder, ConfigOrder
<1>2. CASE Clear
  BY <1>2 DEF Clear, PushOrder, ConfigOrder
<1>3. CASE Poll
  <2>1. PICK time \in Nat :
          /\ UNCHANGED nextSequence
          /\ timers' \in Seq(Timer)
          /\ Len(timers') = Len(timers)
          /\ \A i \in DOMAIN timers :
               timers'[i] = IF timers[i].due <= time THEN Fire(timers[i], time)
                                                     ELSE timers[i]
          /\ \E S \in SUBSET DOMAIN timers : \E order \in InOrder(S) :
               fired' = [n \in DOMAIN order |-> Report(timers[order[n]])]
    BY <1>3, PollTimers
  <2>2. \A i \in DOMAIN timers : /\ timers'[i].sequence = timers[i].sequence
                                 /\ timers'[i].kind = timers[i].kind
                                 /\ timers'[i].device = timers[i].device
    <3> TAKE i \in DOMAIN timers
    <3>1. timers[i] \in Timer
      OBVIOUS
    <3> DEFINE after == Fire(timers[i], time)
    <3>2. /\ after.sequence = timers[i].sequence
          /\ after.kind = timers[i].kind
          /\ after.device = timers[i].device
      BY <3>1, FireFields
    <3>3. timers'[i] = after \/ timers'[i] = timers[i]
      BY <2>1
    <3> HIDE DEF after
    <3> QED
      BY <3>2, <3>3
  <2>3. DOMAIN timers' = DOMAIN timers
    BY <2>1
  <2>4. PushOrder'
    BY <2>1, <2>2, <2>3 DEF PushOrder
  <2>5. ConfigOrder'
    BY <2>1, ReportedInOrder
  <2> QED
    BY <2>4, <2>5
<1>4. CASE UNCHANGED vars
  BY <1>4 DEF vars, PushOrder, ConfigOrder
<1> QED
  BY <1>1, <1>2, <1>3, <1>4 DEF Next

\* Equal deadlines run in config order, for ever.
THEOREM OrderCorrect == Spec => []ConfigOrder
<1>1. Init => PushOrder /\ ConfigOrder
  BY DEF Init, PushOrder, ConfigOrder
<1> QED
  BY <1>1, NextOrder, SchedulerTypeCorrect, PTL DEF Spec
=============================================================================
