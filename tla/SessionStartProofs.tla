------------------------- MODULE SessionStartProofs ------------------------
(***************************************************************************)
(* The two protocols a session's start takes part in: for its socket       *)
(* (ControlSocket) with any number of sessions and callers, and for simd   *)
(* (SimdStart) with any number of sessions, any length of the wait, and a  *)
(* simd that may die whenever it likes; and the file it reads its          *)
(* configuration from (ConfigStore), whatever the user has in it and edits.*)
(*                                                                         *)
(* UnracedCorrect strengthens UnracedStarts with what a start knows at     *)
(* each of its system calls.  StopLeavesNothing is about the step that     *)
(* ends a stop, so it needs what holds from the SIGTERM on: no session of  *)
(* before the stop is in ensure any more (StopInv).  PidFileKept needs to  *)
(* know where a file comes from: its simd serves (FileInv), because no     *)
(* session starts a simd while one of its own is there.  FileIsWhole needs *)
(* what each step of a save has made sure of (StoreInv); nothing about the *)
(* parser or the renderer, which the code does not trust either.           *)
(***************************************************************************)
EXTENDS ControlSocket, SimdStart, ConfigStore, TLAPS

-----------------------------------------------------------------------------
(* ControlSocket *)

LEMMA TypeInit == Init => TypeOK
<1> SUFFICES ASSUME Init PROVE TypeOK
  OBVIOUS
<1>1. <<>> \in Seq(Peers)
  OBVIOUS
<1>2. queue \in [Sessions -> Seq(Peers)]
  BY <1>1 DEF Init
<1>3. asks \in [Callers -> Commands]
  BY DEF Init
<1> QED
  BY <1>2, <1>3 DEF Init, TypeOK

LEMMA TypeNext == TypeOK /\ [Next]_vars => TypeOK'
<1> SUFFICES ASSUME TypeOK, [Next]_vars PROVE TypeOK'
  OBVIOUS
<1> USE DEF TypeOK
<1>1. ASSUME NEW s \in Sessions, Probe(s) PROVE TypeOK'
  <2>1. s \in Peers
    BY DEF Peers
  <2>2. stage' \in [Sessions -> {"off", "running", "ended"} \cup Starting]
    <3>1. CASE Reachable
      <4>1. stage' = [stage EXCEPT ![s] = "running"]
        BY <1>1, <3>1 DEF Probe, Started
      <4> QED
        BY <4>1
    <3>2. CASE ~Reachable
      BY <1>1, <3>2 DEF Probe, GoesOn, Starting
    <3> QED
      BY <3>1, <3>2
  <2>3. control' \in [Sessions -> {"unknown", "ready", "owned", "failed"}]
    BY <1>1 DEF Probe, Started, GoesOn
  <2>4. queue' \in [Sessions -> Seq(Peers)]
    <3>1. CASE Reachable
      <4>1. path \in Sessions
        BY <3>1 DEF Reachable
      <4>2. Append(queue[path], s) \in Seq(Peers)
        BY <2>1, <4>1
      <4> QED
        BY <1>1, <3>1, <4>1, <4>2 DEF Probe
    <3>2. CASE ~Reachable
      BY <1>1, <3>2 DEF Probe
    <3> QED
      BY <3>1, <3>2
  <2>5. raced' \in BOOLEAN
    BY <1>1 DEF Probe
  <2> QED
    BY <1>1, <2>2, <2>3, <2>4, <2>5 DEF Probe, callerVars
<1>2. ASSUME NEW s \in Sessions, CheckPath(s) PROVE TypeOK'
  BY <1>2 DEF CheckPath, GoesOn, Starting, callerVars
<1>3. ASSUME NEW s \in Sessions, RemovePath(s) PROVE TypeOK'
  BY <1>3 DEF RemovePath, GoesOn, Started, Starting, callerVars
<1>4. ASSUME NEW s \in Sessions, Bind(s) PROVE TypeOK'
  BY <1>4 DEF Bind, Started, Starting, callerVars
<1>5. ASSUME NEW s \in Sessions, Accept(s) PROVE TypeOK'
  <2>1. /\ Head(queue[s]) \in Peers
        /\ Tail(queue[s]) \in Seq(Peers)
    BY <1>5 DEF Accept
  <2> QED
    BY <1>5, <2>1 DEF Accept, callerVars
<1>6. ASSUME NEW s \in Sessions, Drop(s) PROVE TypeOK'
  BY <1>6 DEF Drop, callerVars
<1>7. ASSUME NEW s \in Sessions, Answer(s) PROVE TypeOK'
  BY <1>7 DEF Answer
<1>8. ASSUME NEW s \in Sessions, Ended(s), effects' \in [Callers -> Nat] PROVE TypeOK'
  BY <1>8 DEF Ended, Starting
<1>9. ASSUME NEW s \in Sessions, Act(s) PROVE TypeOK'
  <2>1. acting[s] \in Callers
    BY <1>9 DEF Act
  <2>2. effects' \in [Callers -> Nat]
    BY <1>9, <2>1 DEF Act
  <2>3. CASE Ended(s)
    BY <2>2, <2>3, <1>8
  <2>4. CASE /\ acting' = [acting EXCEPT ![s] = Nobody]
             /\ UNCHANGED <<path, stage, control, signalled, queue, serving, callerVars,
                            raced>>
    BY <2>2, <2>4 DEF callerVars
  <2> QED
    BY <1>9, <2>3, <2>4 DEF Act
<1>10. ASSUME NEW s \in Sessions, Quit(s) \/ Kill(s) PROVE TypeOK'
  BY <1>10, <1>8 DEF Quit, Kill
<1>11. ASSUME NEW s \in Sessions, Signal(s) PROVE TypeOK'
  BY <1>11 DEF Signal, callerVars
<1>12. ASSUME NEW c \in Callers, Connect(c) PROVE TypeOK'
  <2>1. c \in Peers
    BY DEF Peers
  <2>2. path \in Sessions
    BY <1>12 DEF Connect, Reachable
  <2> QED
    BY <1>12, <2>1, <2>2 DEF Connect
<1>13. ASSUME NEW c \in Callers, Ask(c) \/ ReadReply(c) \/ GiveUp(c) PROVE TypeOK'
  BY <1>13 DEF Ask, ReadReply, GiveUp, sessionVars
<1>14. CASE UNCHANGED vars
  BY <1>14 DEF vars, sessionVars, callerVars
<1> QED
  BY <1>1, <1>2, <1>3, <1>4, <1>5, <1>6, <1>7, <1>9, <1>10, <1>11, <1>12, <1>13, <1>14
  DEF Next, SessionStep

\* Whatever the sessions and callers do, every variable keeps its type; in
\* particular only a caller's command is ever acted upon, never a probe.
THEOREM ControlTypeCorrect == Spec => []TypeOK
<1> QED
  BY TypeInit, TypeNext, PTL DEF Spec
-----------------------------------------------------------------------------
(* Starts that do not overlap *)

\* While no two starts have overlapped, one session at most is in start().  It
\* got past its probe, so nobody listens; what it saw of the path is still so;
\* and a listener is where the path leads.
UnracedInv ==
    ~raced =>
      /\ \A s, other \in Sessions :
           stage[s] \in Starting =>
             /\ stage[other] \in Starting => other = s
             /\ ~Listening(other)
      /\ \A s \in Sessions :
           /\ stage[s] = "removing" => path # Nobody
           /\ stage[s] = "binding" => path = Nobody
           /\ Listening(s) => path = s
           /\ control[s] # "failed"

LEMMA UnracedNext == TypeOK /\ UnracedInv /\ [Next]_vars => UnracedInv'
<1> SUFFICES ASSUME TypeOK, UnracedInv, [Next]_vars PROVE UnracedInv'
  OBVIOUS
<1> USE DEF UnracedInv, Listening, Starting
\* A step that neither starts a session nor touches the path.
<1>0. ASSUME UNCHANGED <<path, stage, control, raced>> PROVE UnracedInv'
  BY <1>0
<1>1. ASSUME NEW s \in Sessions, Probe(s) PROVE UnracedInv'
  <2>1. CASE Reachable
    <3>1. path \in Sessions /\ Listening(path)
      BY <2>1 DEF Reachable, TypeOK
    <3>2. /\ stage' = [stage EXCEPT ![s] = "running"]
          /\ control' = [control EXCEPT ![s] = "owned"]
          /\ path' = path
      BY <1>1, <2>1 DEF Probe, Started
    <3>3. ~raced' => ~raced
      BY <1>1 DEF Probe
    <3>4. \A other \in Sessions :
            /\ stage'[other] = IF other = s THEN "running" ELSE stage[other]
            /\ control'[other] = IF other = s THEN "owned" ELSE control[other]
      BY <3>2 DEF TypeOK
    <3> QED
      BY <3>1, <3>2, <3>3, <3>4
  <2>2. CASE ~Reachable
    <3>1. \A other \in Sessions : ~raced => ~Listening(other)
      BY <2>2, ControlSocketAssumption DEF Reachable
    <3>2. /\ path' = path
          /\ control' = control
          /\ \A other \in Sessions :
               stage'[other] = IF other = s THEN "probed" ELSE stage[other]
      BY <1>1, <2>2 DEF Probe, GoesOn, TypeOK
    <3>3. ~raced' => ~raced /\ \A other \in Sessions : stage[other] \notin Starting
      BY <1>1 DEF Probe
    <3> QED
      BY <3>1, <3>2, <3>3
  <2> QED
    BY <2>1, <2>2
<1>2. ASSUME NEW s \in Sessions, CheckPath(s) PROVE UnracedInv'
  BY <1>2 DEF CheckPath, GoesOn, TypeOK
<1>3. ASSUME NEW s \in Sessions, RemovePath(s) PROVE UnracedInv'
  BY <1>3 DEF RemovePath, GoesOn, Started, TypeOK
<1>4. ASSUME NEW s \in Sessions, Bind(s) PROVE UnracedInv'
  BY <1>4, ControlSocketAssumption DEF Bind, Started, TypeOK
<1>5. ASSUME NEW s \in Sessions, Accept(s) \/ Drop(s) \/ Answer(s) \/ Signal(s)
      PROVE  UnracedInv'
  BY <1>5, <1>0 DEF Accept, Drop, Answer, Signal
<1>6. ASSUME NEW s \in Sessions, Ended(s) PROVE UnracedInv'
  BY <1>6 DEF Ended, TypeOK
<1>7. ASSUME NEW s \in Sessions, Act(s) \/ Quit(s) \/ Kill(s) PROVE UnracedInv'
  BY <1>7, <1>6, <1>0 DEF Act, Quit, Kill
<1>8. ASSUME NEW c \in Callers, Connect(c) \/ Ask(c) \/ ReadReply(c) \/ GiveUp(c)
      PROVE  UnracedInv'
  BY <1>8, <1>0 DEF Connect, Ask, ReadReply, GiveUp, sessionVars
<1>9. CASE UNCHANGED vars
  BY <1>9, <1>0 DEF vars, sessionVars
<1> QED
  BY <1>1, <1>2, <1>3, <1>4, <1>5, <1>7, <1>8, <1>9 DEF Next, SessionStep

\* For any number of processes that start, end or are killed, in any order but
\* for two starts at once, start() never fails and never takes the path from a
\* session that listens.
THEOREM UnracedCorrect == Spec => []UnracedStarts
<1>1. Init => UnracedInv
  BY DEF Init, UnracedInv, Listening, Starting
<1>2. UnracedInv => UnracedStarts
  BY DEF UnracedInv, UnracedStarts
<1> QED
  BY <1>1, <1>2, TypeInit, TypeNext, UnracedNext, PTL DEF Spec
-----------------------------------------------------------------------------
(* What a caller was told *)

Queued(c, s) == \E i \in DOMAIN queue[s] : queue[s][i] = c

\* A call is with one session only, the one it connected to, whether it waits
\* there, is served or is about to be carried out.
WithOneSession ==
    /\ \A c \in Callers : caller[c] # "idle" => to[c] \in Sessions
    /\ \A s \in Sessions : \A c \in Callers :
         Queued(c, s) \/ serving[s] = c \/ acting[s] = c =>
           to[c] = s /\ caller[c] # "idle"

\* A session carries out one answered call before it serves the next.
OneAtATime ==
    \A s \in Sessions :
      /\ serving[s] = Nobody \/ acting[s] = Nobody
      /\ \A c \in Callers :
           acting[s] = c => caller[c] \in {"replied", "told", "gone"} /\ effects[c] = 0

Told == WithOneSession /\ OneAtATime /\ ToldIsDone

\* Nobody is no caller and no session.
LEMMA NobodyElse ==
  /\ \A s \in Sessions : s # Nobody
  /\ \A c \in Callers : c # Nobody
BY ControlSocketAssumption

\* A step of a session or a caller that moves no call and revives no session.
LEMMA ToldFrame ==
  ASSUME TypeOK, Told, UNCHANGED <<queue, serving, acting, callerVars, effects>>,
         \A s \in Sessions : stage[s] = "ended" => stage'[s] = "ended"
  PROVE  Told'
<1> USE DEF Told
<1>1. WithOneSession'
  BY DEF WithOneSession, Queued, callerVars
<1>2. OneAtATime'
  BY DEF OneAtATime, callerVars
<1>3. ToldIsDone'
  BY DEF ToldIsDone, WithOneSession, callerVars
<1> QED
  BY <1>1, <1>2, <1>3

\* A session that ends, whether or not it has just carried out a call.
LEMMA ToldEnded ==
  ASSUME TypeOK, Told, NEW s \in Sessions, Ended(s), effects' \in [Callers -> Nat],
         \A c \in Callers : acting[s] # c => effects'[c] = effects[c],
         \A c \in Callers : acting[s] = c => effects'[c] \in {0, 1}
  PROVE  Told'
<1> USE DEF Told
<1>1. /\ to' = to
      /\ \A t \in Sessions :
           /\ stage'[t] = IF t = s THEN "ended" ELSE stage[t]
           /\ queue'[t] = IF t = s THEN <<>> ELSE queue[t]
           /\ serving'[t] = IF t = s THEN Nobody ELSE serving[t]
           /\ acting'[t] = IF t = s THEN Nobody ELSE acting[t]
  BY DEF Ended, TypeOK
<1>2. \A c \in Callers :
        caller'[c] = IF to[c] = s /\ caller[c] \in {"connected", "asked"}
                     THEN "refused" ELSE caller[c]
  BY DEF Ended
<1>3. WithOneSession'
  BY <1>1, <1>2, NobodyElse DEF WithOneSession, Queued
<1>4. OneAtATime'
  BY <1>1, <1>2, NobodyElse DEF OneAtATime, WithOneSession
<1>5. ToldIsDone'
  BY <1>1, <1>2, NobodyElse DEF ToldIsDone, WithOneSession, OneAtATime
<1> QED
  BY <1>3, <1>4, <1>5

LEMMA ToldNext == TypeOK /\ Told /\ [Next]_vars => Told'
<1> SUFFICES ASSUME TypeOK, Told, [Next]_vars PROVE Told'
  OBVIOUS
<1>1. ASSUME NEW s \in Sessions, Probe(s) PROVE Told'
  <2>1. CASE ~Reachable
    BY <1>1, <2>1, ToldFrame DEF Probe, GoesOn, TypeOK
  <2>2. CASE Reachable
    <3>1. path \in Sessions /\ s \notin Callers
      BY <2>2, ControlSocketAssumption DEF Reachable, TypeOK
    <3>2. /\ stage' = [stage EXCEPT ![s] = "running"]
          /\ queue' = [queue EXCEPT ![path] = Append(@, s)]
          /\ UNCHANGED <<serving, acting, caller, asks, to, effects>>
      BY <1>1, <2>2 DEF Probe, Started, callerVars
    <3>3. \A c \in Callers, t \in Sessions : Queued(c, t)' => Queued(c, t)
      BY <3>1, <3>2 DEF Queued, TypeOK
    <3>4. \A t \in Sessions : stage[t] = "ended" => stage'[t] = "ended"
      BY <1>1, <3>2 DEF Probe, TypeOK
    <3>5. WithOneSession'
      BY <3>2, <3>3 DEF Told, WithOneSession
    <3>6. OneAtATime'
      BY <3>2 DEF Told, OneAtATime
    <3>7. ToldIsDone'
      BY <3>2, <3>4 DEF Told, ToldIsDone, WithOneSession
    <3> QED
      BY <3>5, <3>6, <3>7 DEF Told
  <2> QED
    BY <2>1, <2>2
<1>2. ASSUME NEW s \in Sessions, CheckPath(s) \/ RemovePath(s) \/ Bind(s) PROVE Told'
  <2>1. \A t \in Sessions : stage[t] = "ended" => stage'[t] = "ended"
    BY <1>2 DEF CheckPath, RemovePath, Bind, GoesOn, Started, TypeOK
  <2> QED
    BY <1>2, <2>1, ToldFrame DEF CheckPath, RemovePath, Bind
<1>3. ASSUME NEW s \in Sessions, Accept(s) PROVE Told'
  <2>1. /\ UNCHANGED <<stage, acting, caller, to, effects>>
        /\ \A t \in Sessions :
             /\ serving'[t] = IF t = s THEN Head(queue[s]) ELSE serving[t]
             /\ queue'[t] = IF t = s THEN Tail(queue[s]) ELSE queue[t]
        /\ acting[s] = Nobody
    BY <1>3 DEF Accept, TypeOK, callerVars
  <2>2. \A c \in Callers, t \in Sessions : Queued(c, t)' => Queued(c, t)
    <3>1. queue[s] \in Seq(Peers) /\ queue[s] # <<>>
      BY <1>3 DEF Accept, TypeOK
    <3>2. \A i \in DOMAIN Tail(queue[s]) :
            i + 1 \in DOMAIN queue[s] /\ Tail(queue[s])[i] = queue[s][i + 1]
      BY <3>1
    <3> TAKE c \in Callers, t \in Sessions
    <3>3. CASE t = s
      <4> HAVE Queued(c, t)'
      <4>1. PICK i \in DOMAIN Tail(queue[s]) : Tail(queue[s])[i] = c
        BY <2>1, <3>3 DEF Queued
      <4> QED
        BY <3>2, <3>3, <4>1 DEF Queued
    <3>4. CASE t # s
      BY <2>1, <3>4 DEF Queued
    <3> QED
      BY <3>3, <3>4
  <2>3. \A c \in Callers : serving'[s] = c => Queued(c, s)
    <3>1. queue[s] \in Seq(Peers) /\ queue[s] # <<>>
      BY <1>3 DEF Accept, TypeOK
    <3>2. 1 \in DOMAIN queue[s] /\ Head(queue[s]) = queue[s][1]
      BY <3>1
    <3> QED
      BY <2>1, <3>2 DEF Queued
  <2>4. WithOneSession'
    BY <2>1, <2>2, <2>3 DEF Told, WithOneSession
  <2>5. OneAtATime'
    BY <2>1 DEF Told, OneAtATime
  <2>6. ToldIsDone'
    BY <2>1 DEF Told, ToldIsDone
  <2> QED
    BY <2>4, <2>5, <2>6 DEF Told
<1>4. ASSUME NEW s \in Sessions, Drop(s) PROVE Told'
  <2>1. /\ UNCHANGED <<stage, queue, acting, caller, to, effects>>
        /\ \A t \in Sessions : serving'[t] = IF t = s THEN Nobody ELSE serving[t]
    BY <1>4 DEF Drop, TypeOK, callerVars
  <2>2. WithOneSession'
    BY <2>1, NobodyElse DEF Told, WithOneSession, Queued
  <2>3. OneAtATime'
    BY <2>1 DEF Told, OneAtATime
  <2>4. ToldIsDone'
    BY <2>1 DEF Told, ToldIsDone
  <2> QED
    BY <2>2, <2>3, <2>4 DEF Told
<1>5. ASSUME NEW s \in Sessions, Answer(s) PROVE Told'
  <2> DEFINE a == serving[s]
  <2>1. /\ a \in Callers
        /\ caller[a] = "asked"
        /\ to[a] = s
        /\ effects[a] = 0
        /\ acting[s] = Nobody
    BY <1>5, NobodyElse DEF Answer, Told, WithOneSession, OneAtATime, ToldIsDone
  <2>2. /\ UNCHANGED <<stage, queue, to, effects>>
        /\ \A c \in Callers : caller'[c] = IF c = a THEN "replied" ELSE caller[c]
        /\ \A t \in Sessions :
             /\ serving'[t] = IF t = s THEN Nobody ELSE serving[t]
             /\ acting'[t] = IF t = s THEN a ELSE acting[t]
    BY <1>5 DEF Answer, TypeOK
  <2> HIDE DEF a
  <2>3. WithOneSession'
    BY <2>1, <2>2, NobodyElse DEF Told, WithOneSession, Queued
  <2>4. OneAtATime'
    BY <2>1, <2>2 DEF Told, OneAtATime
  <2>5. ToldIsDone'
    BY <2>1, <2>2, NobodyElse DEF Told, ToldIsDone, WithOneSession, OneAtATime
  <2> QED
    BY <2>3, <2>4, <2>5 DEF Told
<1>6. ASSUME NEW s \in Sessions, Act(s) PROVE Told'
  <2> DEFINE a == acting[s]
  <2>1. /\ a \in Callers
        /\ caller[a] \in {"replied", "told", "gone"}
        /\ effects[a] = 0
        /\ to[a] = s
    BY <1>6 DEF Act, TypeOK, Told, OneAtATime, WithOneSession
  <2>2. /\ effects' \in [Callers -> Nat]
        /\ \A c \in Callers : effects'[c] = IF c = a THEN 1 ELSE effects[c]
    BY <1>6, <2>1 DEF Act, TypeOK
  <2>3. CASE Ended(s)
    BY <2>1, <2>2, <2>3, ToldEnded
  <2>4. CASE /\ acting' = [acting EXCEPT ![s] = Nobody]
             /\ UNCHANGED <<path, stage, control, signalled, queue, serving, callerVars,
                            raced>>
    <3>1. /\ UNCHANGED <<stage, queue, serving, caller, to>>
          /\ \A t \in Sessions : acting'[t] = IF t = s THEN Nobody ELSE acting[t]
      BY <2>4 DEF callerVars, TypeOK
    <3> HIDE DEF a
    <3>2. WithOneSession'
      BY <3>1, NobodyElse DEF Told, WithOneSession, Queued
    <3>3. OneAtATime'
      BY <2>1, <2>2, <3>1, NobodyElse DEF Told, OneAtATime, WithOneSession
    <3>4. ToldIsDone'
      BY <2>1, <2>2, <3>1, NobodyElse DEF Told, ToldIsDone, WithOneSession, a
    <3> QED
      BY <3>2, <3>3, <3>4 DEF Told
  <2> QED
    BY <1>6, <2>3, <2>4 DEF Act
<1>7. ASSUME NEW s \in Sessions, Quit(s) \/ Kill(s) PROVE Told'
  <2>1. /\ Ended(s)
        /\ effects' = effects
    BY <1>7 DEF Quit, Kill
  <2>2. \A c \in Callers : acting[s] = c => effects'[c] \in {0, 1}
    BY <2>1 DEF Told, OneAtATime
  <2> QED
    BY <2>1, <2>2, ToldEnded DEF TypeOK
<1>8. ASSUME NEW s \in Sessions, Signal(s) PROVE Told'
  BY <1>8, ToldFrame DEF Signal
<1>9. ASSUME NEW c \in Callers, Connect(c) PROVE Told'
  <2>1. /\ path \in Sessions
        /\ caller[c] = "idle"
    BY <1>9 DEF Connect, Reachable, TypeOK
  <2>2. /\ UNCHANGED <<stage, serving, acting, effects>>
        /\ \A d \in Callers :
             /\ caller'[d] = IF d = c THEN "connected" ELSE caller[d]
             /\ to'[d] = IF d = c THEN path ELSE to[d]
    BY <1>9 DEF Connect, TypeOK
  <2>3. \A d \in Callers, t \in Sessions :
          Queued(d, t)' => Queued(d, t) \/ (d = c /\ t = path)
    BY <1>9, <2>1 DEF Connect, Queued, TypeOK
  <2>4. WithOneSession'
    BY <2>1, <2>2, <2>3 DEF Told, WithOneSession
  <2>5. OneAtATime'
    BY <2>1, <2>2 DEF Told, OneAtATime
  <2>6. ToldIsDone'
    BY <2>1, <2>2 DEF Told, ToldIsDone
  <2> QED
    BY <2>4, <2>5, <2>6 DEF Told
<1>10. ASSUME NEW c \in Callers, Ask(c) \/ ReadReply(c) \/ GiveUp(c) PROVE Told'
  <2>1. /\ UNCHANGED <<stage, queue, serving, acting, to, effects>>
        /\ \A d \in Callers : d # c => caller'[d] = caller[d]
        /\ \/ caller[c] = "connected" /\ caller'[c] = "asked"
           \/ caller[c] = "replied" /\ caller'[c] = "told"
           \/ caller[c] # "idle" /\ caller'[c] = "gone"
    BY <1>10 DEF Ask, ReadReply, GiveUp, sessionVars, TypeOK
  <2>2. WithOneSession'
    BY <2>1 DEF Told, WithOneSession, Queued
  <2>3. OneAtATime'
    BY <2>1 DEF Told, OneAtATime
  <2>4. ToldIsDone'
    BY <2>1 DEF Told, ToldIsDone
  <2> QED
    BY <2>2, <2>3, <2>4 DEF Told
<1>11. CASE UNCHANGED vars
  BY <1>11, ToldFrame DEF vars, sessionVars
<1> QED
  BY <1>1, <1>2, <1>3, <1>4, <1>5, <1>6, <1>7, <1>8, <1>9, <1>10, <1>11
  DEF Next, SessionStep

\* Whoever was told "ok" got it once, for any sessions, callers and order of
\* steps; only a kill between reply and effect takes it away.
THEOREM ToldCorrect == Spec => []ToldIsDone
<1>1. Init => Told
  BY NobodyElse DEF Init, Told, WithOneSession, OneAtATime, ToldIsDone, Queued
<1>2. Told => ToldIsDone
  BY DEF Told
<1> QED
  BY <1>1, <1>2, TypeInit, TypeNext, ToldNext, PTL DEF Spec

-----------------------------------------------------------------------------
(* SimdStart *)

\* The stages from which a session may still start a simd of its own.
BeforeSpawn == {"stale", "unlink", "systemd", "waitUnit", "find"}

StopInv ==
    /\ stopper \in {"nap", "killSimd", "killHosts"} /\ ~since
           => \A h \in Hosts : pc[h] \notin InEnsure
    /\ stopper = "killHosts" /\ ~since => \A p \in Launchers : simd[p] = "none"

FileInv ==
    /\ \A h \in Hosts : pc[h] \in BeforeSpawn => simd[h] = "none"
    /\ pidFile \in Launchers => simd[pidFile] = "serving"
    /\ \A h \in Hosts : pc[h] = "unlink" /\ h \notin fresh => pidFile \in {Gone, NoFile}
    /\ cleaner.at = "ask" /\ Tui \notin fresh => pidFile \in {Gone, NoFile, cleaner.pid}
    /\ cleaner.at = "remove" /\ Tui \notin fresh => pidFile \in {Gone, NoFile}

SimdIInv == SimdStartTypeOK /\ StopInv /\ FileInv

-----------------------------------------------------------------------------
(* The state is well formed *)

\* The variables keep their ranges, whatever the processes do (simd.rs ensure,
\* process.rs stop_all and try_remove_stale).
THEOREM SimdTypeCorrect == SimdSpec => []SimdStartTypeOK
<1>1. SimdInit => SimdStartTypeOK
  <2> SUFFICES ASSUME SimdInit PROVE SimdStartTypeOK
    OBVIOUS
  <2>1. 0 \in 0 .. StartPolls
    BY SimdStartAssumption
  <2>2. simd \in [Launchers -> {"none", "starting", "serving"}]
    BY DEF SimdInit
  <2>3. /\ launch \in [Hosts -> {"none", "running", "ok", "failed"}]
        /\ pc \in [Hosts -> Stages]
        /\ polls \in [Hosts -> 0 .. StartPolls]
    BY <2>1 DEF SimdInit, Stages
  <2>4. cleaner \in [at : {"idle", "read", "ask", "remove"},
                     pid : Launchers \cup {Gone, NoFile}]
    BY DEF SimdInit
  <2> QED BY <2>2, <2>3, <2>4 DEF SimdInit, SimdStartTypeOK
<1>2. SimdStartTypeOK /\ [SimdNext]_simdVars => SimdStartTypeOK'
  <2> SUFFICES ASSUME SimdStartTypeOK, [SimdNext]_simdVars PROVE SimdStartTypeOK'
    OBVIOUS
  <2> USE SimdStartAssumption DEF SimdStartTypeOK, Launchers, Stages
  <2>1. ASSUME NEW p \in Launchers, Daemonize(p) PROVE SimdStartTypeOK'
    BY <2>1 DEF Daemonize, Removers
  <2>2. ASSUME NEW p \in Launchers, SimdExits(p) PROVE SimdStartTypeOK'
    BY <2>2 DEF SimdExits
  <2>3. CASE UnitStarts
    BY <2>3 DEF UnitStarts, Starts, Noted, files
  <2>4. ASSUME NEW h \in Hosts, StartHost(h) PROVE SimdStartTypeOK'
    BY <2>4 DEF StartHost, To, Noted, procs
  <2>5. ASSUME NEW h \in Hosts, Ensure(h) PROVE SimdStartTypeOK'
    <3>1. CASE CheckRunning(h) \/ StalePid(h) \/ WaitSees(h) \/ NotInstalled(h)
      BY <3>1 DEF CheckRunning, StalePid, WaitSees, NotInstalled, To, procs
    <3>2. CASE UnlinkPid(h)
      BY <3>2 DEF UnlinkPid, To
    <3>3. CASE SystemdStart(h)
      BY <3>3 DEF SystemdStart, To, Starts, files
    <3>4. CASE WaitPolls(h) \/ WaitEnds(h)
      BY <3>4 DEF WaitPolls, WaitEnds, To, procs
    <3>5. CASE Spawn(h) \/ Spawned(h)
      BY <3>5 DEF Spawn, Spawned, To, Starts, files
    <3> QED BY <2>5, <3>1, <3>2, <3>3, <3>4, <3>5 DEF Ensure
  <2>6. ASSUME NEW h \in Hosts, HostEnds(h) PROVE SimdStartTypeOK'
    BY <2>6 DEF HostEnds, To, procs
  <2>7. CASE StopAll
    <3>1. CASE BeginStopAll \/ Nap
      BY <3>1 DEF BeginStopAll, Nap, procs
    <3>2. CASE TermNamed
      BY <3>2 DEF TermNamed
    <3>3. CASE KillSimd
      BY <3>3 DEF KillSimd
    <3>4. CASE KillHosts
      BY <3>4 DEF KillHosts
    <3> QED BY <2>7, <3>1, <3>2, <3>3, <3>4 DEF StopAll
  <2>8. CASE CleanUp
    BY <2>8 DEF CleanUp, TuiLists, TuiReads, TuiAsks, TuiRemoves, procs
  <2>9. CASE UNCHANGED simdVars
    BY <2>9 DEF simdVars
  <2> QED BY <2>1, <2>2, <2>3, <2>4, <2>5, <2>6, <2>7, <2>8, <2>9 DEF SimdNext
<1> QED BY <1>1, <1>2, PTL DEF SimdSpec

-----------------------------------------------------------------------------
(* A stop leaves nothing *)

LEMMA StopInvInit == SimdInit => StopInv
BY DEF SimdInit, StopInv

\* A session or a unit that begins during the stop is noted; what a session does
\* in ensure it can only do if it began later than the SIGTERM.
LEMMA StopInvStep == SimdStartTypeOK /\ StopInv /\ [SimdNext]_simdVars => StopInv'
<1> SUFFICES ASSUME SimdStartTypeOK, StopInv, [SimdNext]_simdVars PROVE StopInv'
  OBVIOUS
<1> USE SimdStartAssumption DEF SimdStartTypeOK, StopInv, Launchers, Stages, InEnsure
<1>1. ASSUME NEW p \in Launchers, Daemonize(p) PROVE StopInv'
  BY <1>1 DEF Daemonize
<1>2. ASSUME NEW p \in Launchers, SimdExits(p) PROVE StopInv'
  BY <1>2 DEF SimdExits
<1>3. CASE UnitStarts
  BY <1>3 DEF UnitStarts, Starts, Noted
<1>4. ASSUME NEW h \in Hosts, StartHost(h) PROVE StopInv'
  BY <1>4 DEF StartHost, To, Noted, procs
<1>5. ASSUME NEW h \in Hosts, Ensure(h) PROVE StopInv'
  <2>1. pc[h] \in InEnsure /\ UNCHANGED <<stopper, since>>
    BY <1>5 DEF Ensure, CheckRunning, StalePid, UnlinkPid, SystemdStart, WaitSees, WaitPolls,
                WaitEnds, NotInstalled, Spawn, Spawned, At
  <2> QED BY <2>1
<1>6. ASSUME NEW h \in Hosts, HostEnds(h) PROVE StopInv'
  BY <1>6 DEF HostEnds, To, At, procs
<1>7. CASE StopAll
  BY <1>7 DEF StopAll, BeginStopAll, TermNamed, Nap, KillSimd, KillHosts, procs
<1>8. CASE CleanUp
  BY <1>8 DEF CleanUp, TuiLists, TuiReads, TuiAsks, TuiRemoves, procs
<1>9. CASE UNCHANGED simdVars
  BY <1>9 DEF simdVars
<1> QED BY <1>1, <1>2, <1>3, <1>4, <1>5, <1>6, <1>7, <1>8, <1>9 DEF SimdNext

\* However many sessions are in ensure when the user stops everything, a simd is
\* left behind only if something began after the stop did (process.rs stop_all).
THEOREM StopCorrect == SimdSpec => StopLeavesNothing
<1>1. SimdInit => StopInv
  BY StopInvInit
<1>2. SimdStartTypeOK /\ StopInv /\ [SimdNext]_simdVars => StopInv'
  BY StopInvStep
<1>3. StopInv /\ [SimdNext]_simdVars
        => [KillHosts => \A p \in Launchers : simd[p] # "none" => since]_simdVars
  BY DEF StopInv, KillHosts
<1> QED BY <1>1, <1>2, <1>3, SimdTypeCorrect, PTL DEF SimdSpec, StopLeavesNothing

-----------------------------------------------------------------------------
(* The PID file *)

LEMMA FileInvInit == SimdInit => FileInv
BY SimdStartAssumption DEF SimdInit, FileInv, BeforeSpawn, Launchers

\* A session comes to stale only if no simd runs, its own included, and nobody
\* else starts that one; a file appears only with the simd it names.
LEMMA FileInvStep == SimdStartTypeOK /\ FileInv /\ [SimdNext]_simdVars => FileInv'
<1> SUFFICES ASSUME SimdStartTypeOK, FileInv, [SimdNext]_simdVars PROVE FileInv'
  OBVIOUS
<1> USE SimdStartAssumption DEF SimdStartTypeOK, FileInv, Launchers, Stages, BeforeSpawn
<1>1. ASSUME NEW p \in Launchers, Daemonize(p) PROVE FileInv'
  BY <1>1 DEF Daemonize, Removers
<1>2. ASSUME NEW p \in Launchers, SimdExits(p) PROVE FileInv'
  BY <1>2 DEF SimdExits
<1>3. CASE UnitStarts
  BY <1>3 DEF UnitStarts, Starts, files
<1>4. ASSUME NEW h \in Hosts, StartHost(h) PROVE FileInv'
  BY <1>4 DEF StartHost, To, procs
<1>5. ASSUME NEW h \in Hosts, Ensure(h) PROVE FileInv'
  <2>1. CASE CheckRunning(h) \/ StalePid(h)
    BY <2>1 DEF CheckRunning, StalePid, ProcessRunning, At, To, procs
  <2>2. CASE UnlinkPid(h)
    BY <2>2 DEF UnlinkPid, At, To
  <2>3. CASE SystemdStart(h)
    BY <2>3 DEF SystemdStart, At, To, Starts, files
  <2>4. CASE WaitSees(h) \/ WaitPolls(h) \/ WaitEnds(h) \/ NotInstalled(h)
    BY <2>4 DEF WaitSees, WaitPolls, WaitEnds, NotInstalled, At, To, procs
  <2>5. CASE Spawn(h) \/ Spawned(h)
    BY <2>5 DEF Spawn, Spawned, At, To, Starts, files
  <2> QED BY <1>5, <2>1, <2>2, <2>3, <2>4, <2>5 DEF Ensure
<1>6. ASSUME NEW h \in Hosts, HostEnds(h) PROVE FileInv'
  BY <1>6 DEF HostEnds, To, procs
<1>7. CASE StopAll
  BY <1>7 DEF StopAll, BeginStopAll, TermNamed, Nap, KillSimd, KillHosts, InEnsure, procs
<1>8. CASE CleanUp
  BY <1>8 DEF CleanUp, TuiLists, TuiReads, TuiAsks, TuiRemoves, procs
<1>9. CASE UNCHANGED simdVars
  BY <1>9 DEF simdVars
<1> QED BY <1>1, <1>2, <1>3, <1>4, <1>5, <1>6, <1>7, <1>8, <1>9 DEF SimdNext

\* A session and the TUI take a file from a simd that serves only if it wrote the
\* file after they looked (simd.rs remove_stale_pid, process.rs try_remove_stale).
THEOREM PidFileCorrect == SimdSpec => PidFileKept
<1>1. SimdInit => FileInv
  BY FileInvInit
<1>2. SimdStartTypeOK /\ FileInv /\ [SimdNext]_simdVars => FileInv'
  BY FileInvStep
<1>3. FileInv /\ [SimdNext]_simdVars
        => [(\E h \in Hosts : UnlinkPid(h) /\ h \notin fresh) \/ (TuiRemoves /\ Tui \notin fresh)
              => pidFile \in {Gone, NoFile}]_simdVars
  BY DEF FileInv, UnlinkPid, TuiRemoves, At
<1> QED BY <1>1, <1>2, <1>3, SimdTypeCorrect, PTL DEF SimdSpec, PidFileKept

-----------------------------------------------------------------------------
(* The configuration file *)

\* A save in progress knows the text it will leave, and that it parses; what
\* is renamed to the file is that text, and on the disk.
Saving == {"create", "write", "sync", "rename"}
NewText == Render(ToValue(config))
StoreInv ==
    /\ file = Content(file.text, TRUE)
    /\ FileIsWhole
    /\ step \in Saving => NewText \in written /\ ParseDocument(NewText).ok
    /\ step = "sync" => temp = Content(NewText, FALSE)
    /\ step = "rename" => temp = Content(NewText, TRUE)

LEMMA StoreInvInit == StoreInit => StoreInv
BY ConfigStoreAssumption DEF StoreInit, StoreInv, FileIsWhole, Content, Readable, Saving

\* A step leaves the file alone unless it is the rename; a power failure finds
\* nothing to cut off.
LEMMA StoreInvNext == StoreInv /\ [StoreNext]_storeVars => StoreInv'
<1> SUFFICES ASSUME StoreInv, [StoreNext]_storeVars PROVE StoreInv'
  OBVIOUS
<1> USE DEF StoreInv, FileIsWhole, Saving, NewText
<1>1. CASE Start
  BY <1>1 DEF Start
<1>2. CASE Edit
  BY <1>2 DEF Edit
<1>3. CASE Save
  BY <1>3 DEF Save
<1>4. CASE Create
  BY <1>4 DEF Create
<1>5. CASE Write
  BY <1>5 DEF Write, Content
<1>6. CASE WriteFails
  BY <1>6 DEF WriteFails
<1>7. CASE Sync
  <2>1. temp = Content(NewText, FALSE)
    BY <1>7 DEF Sync
  <2>2. temp' = Content(NewText, TRUE)
    BY <1>7, <2>1 DEF Sync, Content
  <2> QED
    BY <1>7, <2>2 DEF Sync
<1>8. CASE Rename
  <2>1. temp = Content(NewText, TRUE) /\ temp.text = NewText
    BY <1>8 DEF Rename, Content
  <2> QED
    BY <1>8, <2>1 DEF Rename
<1>9. CASE Killed
  BY <1>9 DEF Killed
<1>10. CASE PowerFails
  <2>1. Left(file) = {file}
    BY DEF Left, Content
  <2> QED
    BY <1>10, <2>1 DEF PowerFails
<1>11. CASE UNCHANGED storeVars
  BY <1>11 DEF storeVars
<1> QED BY <1>1, <1>2, <1>3, <1>4, <1>5, <1>6, <1>7, <1>8, <1>9, <1>10, <1>11 DEF StoreNext

\* Whatever is typed and wherever the TUI is killed or power fails, the
\* configuration file is one text, the last one saved or the one being saved,
\* and parses (config.rs atomic_write, save_file).
THEOREM FileWhole == StoreSpec => []FileIsWhole
<1>1. StoreInv => FileIsWhole
  BY DEF StoreInv
<1> QED BY <1>1, StoreInvInit, StoreInvNext, PTL DEF StoreSpec
=============================================================================
