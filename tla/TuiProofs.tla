----------------------------- MODULE TuiProofs -----------------------------
(***************************************************************************)
(* The TUI, for every value of the constants.                              *)
(*                                                                         *)
(* When it shows telemetry as live (LiveGames): what it samples and when   *)
(* anything last moved are two clocks that start together or one tick      *)
(* apart (FlowInv).  To which game it binds the settings: one of the last  *)
(* listing, however the table, the files and the processes changed.  And   *)
(* what the host makes of an entry of its device form (DeviceForm): every  *)
(* edit of one field leaves an entry the form made one with settings that  *)
(* fit the class and the type it names (FormInv).                          *)
(***************************************************************************)
EXTENDS LiveGames, DeviceForm, FiniteSetTheorems, SequenceTheorems, WellFoundedInduction, TLAPS

Clocks ==
    /\ file \in {NoFile, Short} \cup Frames
    /\ mapping \in {"none", "current", "old"}
    /\ mapping = "current" => file \in Frames
    /\ {test, live, ticked} \subseteq BOOLEAN
    /\ lastFlow \in Times(FlowHold) \cup {Never}
    /\ still \in Times(FlowHold + 1)
    /\ prevFlow \in {NoFlow} \cup {FlowSnapshot(frame) : frame \in Frames}

\* A frame that differs from the one of the last sample came since the last tick;
\* and nothing has been still for longer than the last change was seen.
FlowInv ==
    /\ test => still = 0
    /\ file \in Frames /\ prevFlow \notin {NoFlow, FlowSnapshot(file)}
          => still <= IF ticked THEN 0 ELSE 1
    /\ lastFlow # Never => still <= lastFlow + 1
    /\ LiveMeansFlow

LiveIInv == Clocks /\ FlowInv

LEMMA Hold == FlowHold \in Nat /\ FlowHold > 0
BY LiveGamesAssumption

LEMMA LiveInit == Init => LiveIInv
<1> SUFFICES ASSUME Init PROVE Clocks /\ FlowInv
  BY DEF LiveIInv
<1>1. Clocks
  <2>1. mapping \in {"none", "current"} /\ (mapping = "current" => file \in Frames)
    BY DEF Init, Remapped
  <2>2. lastFlow \in Times(FlowHold) \cup {Never} /\ still \in Times(FlowHold + 1)
    BY Hold DEF Init, Times
  <2>3. prevFlow \in {NoFlow} \cup {FlowSnapshot(frame) : frame \in Frames}
    BY DEF Init
  <2> QED BY <2>1, <2>2, <2>3 DEF Init, Clocks
<1>2. FlowInv
  BY DEF Init, FlowInv, LiveMeansFlow
<1> QED BY <1>1, <1>2

\* What a sample leaves, when its mapping is the file's.
LEMMA SampleInv ==
  ASSUME Clocks, FlowInv, NEW m \in {"current", "none"}, m = "current" <=> file \in Frames,
         NEW prev \in {prevFlow, NoFlow}, NEW last \in {lastFlow, Never}, NEW rows,
         Sample(m, prev, last, rows), mapping' = m, ticked' = TRUE, UNCHANGED <<file, test, still>>
  PROVE  Clocks' /\ FlowInv'
<1> DEFINE changed == m # "none" /\ TelemetrySending(file, prev)
           since == IF changed \/ test THEN 0 ELSE last
           sending == test \/ (m # "none" /\ (changed \/ FlowHeld(since)))
<1>1. /\ prevFlow' = IF m = "none" THEN NoFlow ELSE FlowSnapshot(file)
      /\ lastFlow' = since /\ live' = sending
  BY DEF Sample
<1>2. changed \in BOOLEAN /\ sending \in BOOLEAN /\ test \in BOOLEAN /\ still \in Nat
  BY Hold DEF Clocks, TelemetrySending, FlowHeld, Times
<1>3. changed => still <= 1
  BY Hold DEF TelemetrySending, FlowInv, Clocks, Times
<1>4. since \in Times(FlowHold) \cup {Never} /\ (since # Never => still <= since + 1)
  BY <1>2, <1>3, Hold DEF Clocks, FlowInv, Times, Never
<1>5. sending => still <= FlowHold + 1
  <2>1. CASE test \/ changed
    BY <1>2, <1>3, <2>1, Hold DEF FlowInv
  <2>2. CASE ~test /\ ~changed /\ FlowHeld(since)
    BY <1>2, <1>4, <2>2, Hold DEF FlowHeld, Times, Never
  <2> QED BY <1>2, <2>1, <2>2
<1>6. prevFlow' \in {NoFlow} \cup {FlowSnapshot(frame) : frame \in Frames}
  BY <1>1
<1> HIDE DEF changed, since, sending
<1> QED
  BY <1>1, <1>2, <1>4, <1>5, <1>6 DEF Clocks, FlowInv, LiveMeansFlow

LEMMA LiveStep == LiveIInv /\ [Next]_vars => LiveIInv'
<1> SUFFICES ASSUME Clocks, FlowInv, [Next]_vars PROVE Clocks' /\ FlowInv'
  BY DEF LiveIInv
<1>1. CASE Tick
  <2>1. PICK n \in 0 .. Len(events) :
          LET due == lastTick = StatusRefresh
              drained == Drained(SubSeq(events, 1, n))
              blind == n > 0 /\ drained = "none"
              rows == IF n > 0 \/ due THEN Extras ELSE extras
          IN /\ Sample(Revalidated(drained), IF blind THEN NoFlow ELSE prevFlow,
                       IF blind THEN Never ELSE lastFlow, rows)
             /\ mapping' = Revalidated(drained)
             /\ ticked' = TRUE /\ UNCHANGED <<file, test, still>>
    BY <1>1 DEF Tick
  <2> DEFINE drained == Drained(SubSeq(events, 1, n))
  <2>2. drained \in {Remapped, "none", mapping}
    BY DEF Drained
  <2>3. /\ Revalidated(drained) \in {"current", "none"}
        /\ Revalidated(drained) = "current" <=> file \in Frames
    BY <2>2 DEF Revalidated, Remapped, Clocks
  <2> HIDE DEF drained
  <2> QED BY <2>1, <2>3, SampleInv DEF drained
<1>2. CASE EditTable \/ GameStartsOrEnds
  BY <1>2 DEF EditTable, GameStartsOrEnds, env, seen, Clocks, FlowInv, LiveMeansFlow
<1>3. CASE MakeFile \/ MoveFileIn \/ WriteFrame
  <2>1. still' = 0 /\ file' \in {Short} \cup Frames /\ UNCHANGED <<test, seen, ticked>>
    BY <1>3 DEF MakeFile, MoveFileIn, WriteFrame
  <2>2. mapping' \in {"none", "current", "old"} /\ (mapping' = "current" => file' \in Frames)
    BY <1>3, LiveGamesAssumption DEF MakeFile, MoveFileIn, WriteFrame, Lost, Clocks
  <2>3. 0 \in Times(FlowHold + 1) /\ (lastFlow # Never => 0 <= lastFlow + 1)
    BY Hold DEF Clocks, Times, Never
  <2>4. Clocks'
    BY <2>1, <2>2, <2>3 DEF seen, Clocks
  <2>5. 0 <= FlowHold + 1
    BY Hold
  <2> QED BY <2>1, <2>3, <2>4, <2>5 DEF seen, FlowInv, LiveMeansFlow
<1>4. CASE RemoveFile
  BY <1>4, LiveGamesAssumption DEF RemoveFile, Lost, seen, Clocks, FlowInv, LiveMeansFlow
<1>5. CASE TestStartsOrEnds
  BY <1>5, Hold DEF TestStartsOrEnds, env, seen, Clocks, FlowInv, LiveMeansFlow, Times, Never
<1>6. CASE TimePasses
  <2>1. /\ still \in Nat /\ still' \in Times(FlowHold + 1) /\ still' <= still + 1
        /\ test => still' = 0
    <3>1. still \in Nat /\ still <= FlowHold + 2
      BY Hold DEF Clocks, Times
    <3>2. CASE test
      <4>1. still' = 0
        BY <1>6, <3>2, Hold DEF TimePasses, FlowInv
      <4> QED BY <3>2, <3>1, <4>1, Hold DEF Times
    <3>3. CASE ~test /\ still = FlowHold + 2
      BY <1>6, <3>1, <3>3, Hold DEF TimePasses, Times
    <3>4. CASE ~test /\ still # FlowHold + 2
      <4>1. still' = still + 1
        BY <1>6, <3>4 DEF TimePasses
      <4> QED BY <3>1, <3>4, <4>1, Hold DEF Times
    <3> QED BY <3>2, <3>3, <3>4
  <2>2. /\ lastFlow' \in Times(FlowHold) \cup {Never}
        /\ lastFlow = Never <=> lastFlow' = Never
        /\ lastFlow' # Never => lastFlow' = lastFlow + 1 \/ (lastFlow' = lastFlow /\ lastFlow = FlowHold + 1)
    BY <1>6, Hold DEF TimePasses, Clocks, Times, Never
  <2>3. lastFlow' # Never => still' <= lastFlow' + 1
    BY <2>1, <2>2, Hold DEF Clocks, FlowInv, Times, Never
  <2>4. Clocks'
    BY <1>6, <2>1, <2>2 DEF TimePasses, env, Clocks
  <2>5. file \in Frames /\ prevFlow \notin {NoFlow, FlowSnapshot(file)} => still' <= 1
    BY <1>6, <2>1 DEF TimePasses, FlowInv
  <2> QED BY <1>6, <2>1, <2>3, <2>4, <2>5 DEF TimePasses, env, FlowInv, LiveMeansFlow
<1>7. CASE UNCHANGED vars
  BY <1>7 DEF vars, env, seen, Clocks, FlowInv, LiveMeansFlow
<1> QED
  BY <1>1, <1>2, <1>3, <1>4, <1>5, <1>6, <1>7 DEF Next

\* Telemetry that stopped is not shown as live for longer than the hold, whatever
\* files, events and processes came and went (app.rs, sample_telemetry).
THEOREM LiveCorrect == Spec => []LiveMeansFlow
<1>1. Init => LiveIInv
  BY LiveInit
<1>2. LiveIInv /\ [Next]_vars => LiveIInv'
  BY LiveStep
<1>3. LiveIInv => LiveMeansFlow
  BY DEF LiveIInv, FlowInv
<1> QED BY <1>1, <1>2, <1>3, PTL DEF Spec

-----------------------------------------------------------------------------
(* Types *)

LEMMA RowsAre ==
  /\ Table \in Seq(Rows) /\ Example \in Seq(Rows) /\ NewRow \in Rows
  /\ \A row \in Rows : row.gameid \in Games \cup {Idle}
<1>1. Range(Table) \subseteq Rows /\ Range(Example) \subseteq Rows /\ NewRow \in Rows
  BY DEF Rows
<1>2. \A row \in Rows : row.gameid \in Games \cup {Idle}
  BY LiveGamesAssumption DEF Rows, NewRow, LiveGamesAssumption
<1>3. Table \in Seq(Range(Table)) /\ Example \in Seq(Range(Example))
  BY LiveGamesAssumption DEF LiveGamesAssumption
<1> QED
  BY <1>1, <1>2, <1>3, SeqMonotonic

\* Deleting a row leaves a table.
LEMMA RemoveAtIsSeq ==
  ASSUME NEW S, NEW s \in Seq(S), NEW i \in DOMAIN s
  PROVE  RemoveAt(s, i) \in Seq(S)
<1>1. i \in 1 .. Len(s) /\ Len(s) \in Nat
  OBVIOUS
<1>2. SubSeq(s, 1, i - 1) \in Seq(S) /\ SubSeq(s, i + 1, Len(s)) \in Seq(S)
  <2>1. \A j \in 1 .. i - 1 : j \in 1 .. Len(s)
    BY <1>1
  <2>2. \A j \in i + 1 .. Len(s) : j \in 1 .. Len(s)
    BY <1>1
  <2> QED
    BY <1>1, <2>1, <2>2, SubSeqProperties
<1> QED
  BY <1>2, ConcatProperties DEF RemoveAt

\* What is listed are ids of the table, at places from 1 on.
LEMMA ListedTypes ==
  ASSUME NEW rows \in Seq(Rows)
  PROVE  ExtrasFromListing(rows) \subseteq [place : Nat \ {0}, game : Games \cup {Idle}]
<1> DEFINE running == {i \in DOMAIN rows : \/ ExeMatchesListing(rows[i].launch)
                                          \/ ExeMatchesListing(rows[i].live)}
           place(i) == Cardinality({j \in running : j <= i})
<1>1. PICK n \in Nat : n = Len(rows) /\ DOMAIN rows = 1 .. n
  OBVIOUS
<1>2. running \subseteq 1 .. n
  BY <1>1
<1> HIDE DEF running
<1>3. ASSUME NEW i \in running PROVE place(i) \in Nat \ {0}
  <2> DEFINE upto == {j \in running : j <= i}
  <2>0. i \in Nat /\ i <= i
    BY <1>2
  <2>1. upto \subseteq 1 .. n /\ i \in upto
    BY <1>2, <2>0
  <2> HIDE DEF upto
  <2>2. IsFiniteSet(1 .. n)
    BY FS_Interval
  <2>3. IsFiniteSet(upto)
    BY <2>1, <2>2, FS_Subset
  <2>4. Cardinality(upto) \in Nat /\ Cardinality(upto) # 0
    BY <2>1, <2>3, FS_CardinalityType, FS_EmptySet
  <2> QED
    BY <2>4 DEF upto
<1>4. ASSUME NEW i \in running PROVE rows[i].gameid \in Games \cup {Idle}
  <2>1. rows[i] \in Rows
    BY <1>1, <1>2, ElementOfSeq
  <2> QED
    BY <2>1, RowsAre
<1>5. ExtrasFromListing(rows) = {Placed(place(i), rows[i].gameid) : i \in running}
  BY DEF ExtrasFromListing, running
<1> HIDE DEF place
<1> QED
  BY <1>3, <1>4, <1>5 DEF Placed

\* What one tick drained, mapped and listed.
TickOf(n, m, rows) ==
    LET drained == Drained(SubSeq(events, 1, n))
        blind == n > 0 /\ drained = "none"
    IN  /\ m = Revalidated(drained)
        /\ rows \in {Extras, extras}
        /\ events' = SubSeq(events, n + 1, Len(events))
        /\ lastTick' \in {0, lastTick}
        /\ mapping' = m /\ extras' = rows /\ ticked' = TRUE
        /\ UNCHANGED <<file, processes, test, sims, still>>
        /\ Sample(m, IF blind THEN NoFlow ELSE prevFlow, IF blind THEN Never ELSE lastFlow, rows)

LEMMA Ticks ==
  ASSUME Tick
  PROVE  \E n \in 0 .. Len(events) : \E m, rows : TickOf(n, m, rows)
<1>1. PICK n \in 0 .. Len(events) :
         LET due == lastTick = StatusRefresh
             drained == Drained(SubSeq(events, 1, n))
             blind == n > 0 /\ drained = "none"
             rows == IF n > 0 \/ due THEN Extras ELSE extras
             m == Revalidated(drained)
         IN /\ events' = SubSeq(events, n + 1, Len(events))
            /\ lastTick' = IF due THEN 0 ELSE lastTick
            /\ mapping' = m
            /\ extras' = rows
            /\ Sample(m, IF blind THEN NoFlow ELSE prevFlow, IF blind THEN Never ELSE lastFlow, rows)
            /\ ticked' = TRUE
            /\ UNCHANGED <<file, processes, test, sims, still>>
  BY DEF Tick
<1> DEFINE rows == IF n > 0 \/ lastTick = StatusRefresh THEN Extras ELSE extras
<1>2. rows \in {Extras, extras}
  OBVIOUS
<1>3. lastTick' \in {0, lastTick}
  BY <1>1
<1>4. TickOf(n, Revalidated(Drained(SubSeq(events, 1, n))), rows)
  BY <1>1, <1>2, <1>3 DEF TickOf
<1> QED
  BY <1>4

-----------------------------------------------------------------------------
(* The game of the settings *)

\* A list of games that is not empty has a first one.
LEMMA FirstIs ==
  ASSUME NEW games, games # {}, \A g \in games : g.place \in Int /\ g.place >= -1
  PROVE  First(games) \in games
<1> DEFINE R == {pair \in Nat \X Nat : pair[1] < pair[2]}
           places == {g.place + 1 : g \in games}
<1>1. IsWellFoundedOn(R, Nat)
  BY NatLessThanWellFounded DEF OpToRel
<1>2. places \subseteq Nat /\ places # {}
  OBVIOUS
<1>3. PICK p \in places : \A q \in places : <<q, p>> \notin R
  <2> HIDE DEF R, places
  <2> QED
    BY <1>1, <1>2, WFMin
<1>4. ASSUME NEW q \in places PROVE p <= q
  <2>1. p \in Nat /\ q \in Nat
    BY <1>2
  <2>2. ~(q < p)
    BY <1>3, <2>1
  <2> QED
    BY <2>1, <2>2
<1>5. PICK g \in games : p = g.place + 1
  OBVIOUS
<1>6. ASSUME NEW h \in games PROVE g.place <= h.place
  <2>1. g.place + 1 <= h.place + 1
    BY <1>4, <1>5
  <2> QED
    BY <2>1
<1> QED
  BY <1>5, <1>6 DEF First

\* A game is bound that is in the list, if any is.
LEMMA BoundIsListed ==
  ASSUME NEW games, NEW S, \A g \in games : g.place \in Int /\ g.place >= -1,
         \A g \in games : g.game \in S \cup {Idle}
  PROVE  LiveSettingsGame(games) \in S \cup {Idle}
<1> DEFINE those == {g \in games : g.game # Idle}
           sending == {g \in those : g.sending}
<1>1. CASE sending # {}
  <2>1. First(sending) \in sending
    BY <1>1, FirstIs
  <2>2. LiveSettingsGame(games) = First(sending).game
    BY <1>1 DEF LiveSettingsGame
  <2> QED
    BY <2>1, <2>2
<1>2. CASE those # {} /\ sending = {}
  <2>1. First(those) \in those
    BY <1>2, FirstIs
  <2>2. LiveSettingsGame(games) = First(those).game
    BY <1>2 DEF LiveSettingsGame
  <2> QED
    BY <2>1, <2>2
<1>3. CASE those = {} /\ sending = {}
  BY <1>3 DEF LiveSettingsGame
<1> QED
  BY <1>1, <1>2, <1>3

\* Games that run are of the listing, or none, whatever the telemetry says.
LEMMA ResolvedAreListed ==
  ASSUME NEW m, NEW prev, NEW last, NEW rows,
         rows \subseteq [place : Nat \ {0}, game : Games \cup {Idle}],
         Sample(m, prev, last, rows)
  PROVE  bound' \in Ids(rows) \cup {Idle}
<1>1. PICK sending, games :
         /\ games = IF m = "none" THEN WithFlow(rows, sending) ELSE ResolveGames(file, sending, rows)
         /\ bound' = LiveSettingsGame(WithTestNode(games))
  BY DEF Sample
<1> DEFINE Good(games_) == \A g \in games_ : /\ g.place \in Int /\ g.place >= -1
                                            /\ g.game \in Ids(rows) \cup {Idle}
<1>2. ASSUME NEW some, \A row \in some : /\ row.place \in Int /\ row.place >= -1
                                         /\ row.game \in Ids(rows) \cup {Idle}
      PROVE  Good(WithFlow(some, sending))
  BY <1>2 DEF WithFlow, Running
<1>3. \A row \in rows : row.place \in Int /\ row.place >= -1 /\ row.game \in Ids(rows) \cup {Idle}
  BY DEF Ids
<1>4. Good(WithFlow(rows, sending))
  BY <1>2, <1>3
<1>5. \A s : Good({TestNode(s)})
  BY DEF TestNode, Running, Placed
<1>6. Good(ResolveGames(file, sending, rows))
  <2>1. CASE file.simexe = Idle /\ file.simapi = 0 /\ rows = {} /\ file.simon
    <3>0. ~ShmGameConfirmed(file, rows)
      BY <2>1 DEF ShmGameConfirmed
    <3>1. ResolveGames(file, sending, rows) = {TestNode(sending)}
      BY <2>1, <3>0, Zenon DEF ResolveGames
    <3> QED
      BY <1>5, <3>1
  <2>2. CASE /\ ~(file.simexe = Idle /\ file.simapi = 0 /\ rows = {} /\ file.simon)
             /\ ShmGameConfirmed(file, rows)
    <3> DEFINE some == {ShmGame(file.simexe)} \cup {row \in rows : row.game # file.simexe}
    <3>1. \A row \in some : /\ row.place \in Int /\ row.place >= -1
                            /\ row.game \in Ids(rows) \cup {Idle}
      BY <1>3, <2>2 DEF ShmGameConfirmed, ShmGame, Placed
    <3>2. ResolveGames(file, sending, rows) = WithFlow(some, sending)
      BY <2>2 DEF ResolveGames
    <3> QED
      BY <1>2, <3>1, <3>2
  <2>3. CASE /\ ~(file.simexe = Idle /\ file.simapi = 0 /\ rows = {} /\ file.simon)
             /\ ~ShmGameConfirmed(file, rows)
    BY <1>4, <2>3 DEF ResolveGames
  <2> QED
    BY <2>1, <2>2, <2>3
<1>7. Good(games)
  BY <1>1, <1>4, <1>6
<1>8. Good(WithTestNode(games))
  BY <1>5, <1>7 DEF WithTestNode
<1> QED
  BY <1>1, <1>8, BoundIsListed

LEMMA TickTypes ==
  ASSUME LiveGamesTypeOK, Tick
  PROVE  LiveGamesTypeOK'
<1>1. PICK n \in 0 .. Len(events) : \E m, rows : TickOf(n, m, rows)
  BY Ticks
<1>2. PICK m, rows : TickOf(n, m, rows)
  BY <1>1
<1>3. extras' \subseteq [place : Nat \ {0}, game : Games \cup {Idle}] /\ rows = extras'
  BY <1>2, ListedTypes DEF TickOf, Extras, LiveGamesTypeOK
<1>4. /\ events' \in Seq({"appeared", "disappeared"}) /\ Len(events') <= MaxEvents
  <2> DEFINE Kind == {"appeared", "disappeared"}
  <2>1. events \in Seq(Kind) /\ Len(events) \in Nat /\ n \in Nat /\ n <= Len(events)
        /\ MaxEvents \in Nat /\ Len(events) <= MaxEvents
    BY LiveGamesAssumption DEF LiveGamesTypeOK, LiveGamesAssumption
  <2>2. events' = SubSeq(events, n + 1, Len(events))
    BY <1>2 DEF TickOf
  <2>3. \A j \in n + 1 .. Len(events) : j \in 1 .. Len(events)
    BY <2>1
  <2>4. \A j \in n + 1 .. Len(events) : events[j] \in Kind
    BY <2>1, <2>3, ElementOfSeq
  <2> HIDE DEF Kind
  <2>5. events' \in Seq(Kind) /\ Len(events') = IF n + 1 <= Len(events) THEN Len(events) - n ELSE 0
    BY <2>1, <2>2, <2>4, SubSeqProperties
  <2> QED
    BY <2>1, <2>5 DEF Kind
<1>5. mapping' \in {"none", "current"} /\ (mapping' = "current" => file \in Frames)
  BY <1>2 DEF TickOf, Revalidated, Remapped, Drained, LiveGamesTypeOK
<1>6. bound' \in Games \cup {Idle}
  <2>1. PICK prev, last : Sample(m, prev, last, rows)
    BY <1>2 DEF TickOf
  <2>2. bound' \in Ids(rows) \cup {Idle}
    BY <1>3, <2>1, ResolvedAreListed
  <2> QED
    BY <1>3, <2>2 DEF Ids
<1>7. live' \in BOOLEAN /\ lastFlow' \in Times(FlowHold) \cup {Never}
  <2>0. PICK blind \in BOOLEAN :
           Sample(m, IF blind THEN NoFlow ELSE prevFlow, IF blind THEN Never ELSE lastFlow, rows)
    BY <1>2 DEF TickOf
  <2>1. PICK prev, last : last \in {lastFlow, Never} /\ Sample(m, prev, last, rows)
    BY <2>0
  <2>2. test \in BOOLEAN /\ last \in Times(FlowHold) \cup {Never} /\ 0 \in Times(FlowHold)
    BY <2>1, Hold DEF LiveGamesTypeOK, Times
  <2>3. lastFlow' \in {0, last}
    BY <2>1 DEF Sample
  <2>4. live' \in BOOLEAN
    BY <2>1, <2>2 DEF Sample, TelemetrySending, FlowHeld
  <2> QED
    BY <2>2, <2>3, <2>4
<1>8. lastTick' \in 0 .. StatusRefresh
  BY <1>2, LiveGamesAssumption DEF TickOf, LiveGamesTypeOK, LiveGamesAssumption
<1> QED
  BY <1>2, <1>3, <1>4, <1>5, <1>6, <1>7, <1>8 DEF TickOf, LiveGamesTypeOK, Listed, Ids

LEMMA TypesStay == LiveGamesTypeOK /\ [Next]_vars => LiveGamesTypeOK'
<1> SUFFICES ASSUME LiveGamesTypeOK, [Next]_vars PROVE LiveGamesTypeOK'
  OBVIOUS
<1>0. /\ FlowHold \in Nat /\ StatusRefresh \in Nat /\ MaxEvents \in Nat
      /\ 0 \in Times(FlowHold + 1)
  BY Hold, LiveGamesAssumption DEF LiveGamesAssumption, Times
<1>1. ASSUME NEW kind \in {"appeared", "disappeared"}, Announce(kind)
      PROVE  events' \in Seq({"appeared", "disappeared"}) /\ Len(events') <= MaxEvents
  <2>1. events \in Seq({"appeared", "disappeared"}) /\ Len(events) \in Nat
    BY DEF LiveGamesTypeOK
  <2>2. events' = Append(events, kind) /\ Len(events) < MaxEvents
    BY <1>1 DEF Announce
  <2>3. events' \in Seq({"appeared", "disappeared"}) /\ Len(events') = Len(events) + 1
    BY <2>1, <2>2, AppendProperties
  <2> QED
    BY <1>0, <2>1, <2>2, <2>3
<1>2. Lost \in {"none", "current", "old"} /\ Lost # "current"
  BY DEF Lost, LiveGamesTypeOK
<1>3. CASE Tick
  BY <1>3, TickTypes
<1>4. CASE EditTable
  <2>1. sims \in Seq(Rows) /\ UNCHANGED <<env, mapping, test, seen, ticked, still>>
    BY <1>4 DEF EditTable, LiveGamesTypeOK
  <2>2. sims' \in Seq(Rows)
    <3>1. CASE sims' \in {Example, <<>>}
      BY <3>1, RowsAre, EmptySeq
    <3>2. CASE sims' = Append(sims, NewRow)
      BY <2>1, <3>2, RowsAre, AppendProperties
    <3>3. CASE \E row \in DOMAIN sims : sims' = RemoveAt(sims, row)
      BY <2>1, <3>3, RemoveAtIsSeq
    <3> QED
      BY <1>4, <3>1, <3>2, <3>3 DEF EditTable
  <2> QED
    BY <2>1, <2>2 DEF env, seen, LiveGamesTypeOK, Listed, Ids
<1>5. CASE MakeFile
  BY <1>0, <1>1, <1>5, LiveGamesAssumption
     DEF MakeFile, seen, LiveGamesTypeOK, LiveGamesAssumption
<1>6. CASE MoveFileIn
  BY <1>0, <1>1, <1>2, <1>6 DEF MoveFileIn, seen, LiveGamesTypeOK
<1>7. CASE RemoveFile
  BY <1>0, <1>1, <1>2, <1>7 DEF RemoveFile, seen, LiveGamesTypeOK
<1>8. CASE WriteFrame
  BY <1>0, <1>8 DEF WriteFrame, seen, LiveGamesTypeOK
<1>9. CASE GameStartsOrEnds
  BY <1>9 DEF GameStartsOrEnds, seen, LiveGamesTypeOK
<1>10. CASE TestStartsOrEnds
  BY <1>0, <1>10 DEF TestStartsOrEnds, env, seen, LiveGamesTypeOK
<1>11. CASE TimePasses
  <2>1. lastTick' \in 0 .. StatusRefresh
    BY <1>0, <1>11 DEF TimePasses, LiveGamesTypeOK
  <2>2. lastFlow' \in Times(FlowHold) \cup {Never}
    <3>1. lastFlow \in Times(FlowHold) \cup {Never}
      BY DEF LiveGamesTypeOK
    <3>2. lastFlow' = IF lastFlow \in {Never, FlowHold + 1} THEN lastFlow ELSE lastFlow + 1
      BY <1>11 DEF TimePasses
    <3> QED
      BY <1>0, <3>1, <3>2 DEF Times, Never
  <2>3. still' \in Times(FlowHold + 1)
    BY <1>0, <1>11 DEF TimePasses, LiveGamesTypeOK, Times
  <2> QED
    BY <1>11, <2>1, <2>2, <2>3 DEF TimePasses, env, LiveGamesTypeOK
<1>12. CASE UNCHANGED vars
  BY <1>12 DEF vars, env, seen, LiveGamesTypeOK
<1> QED
  BY <1>3, <1>4, <1>5, <1>6, <1>7, <1>8, <1>9, <1>10, <1>11, <1>12 DEF Next

LEMMA TypesInitial == Init => LiveGamesTypeOK
<1> SUFFICES ASSUME Init PROVE LiveGamesTypeOK
  OBVIOUS
<1>1. /\ MaxEvents \in Nat /\ StatusRefresh \in Nat /\ 0 \in Times(FlowHold + 1)
      /\ sims \in Seq(Rows)
  BY Hold, RowsAre, LiveGamesAssumption DEF Init, Times, LiveGamesAssumption
<1>2. /\ mapping \in {"none", "current"} /\ (mapping = "current" => file \in Frames)
      /\ {test, live, ticked} \subseteq BOOLEAN
  BY DEF Init, Remapped
<1>3. events \in Seq({"appeared", "disappeared"}) /\ Len(events) = 0 /\ processes \subseteq Lines
  BY DEF Init
<1> QED
  BY <1>1, <1>2, <1>3 DEF Init, LiveGamesTypeOK, Ids

\* Whatever the files, the processes and the user's table: what is mapped is
\* there, events stay bounded, what is listed are ids of the table, and the game
\* of the settings is one of them (app.rs, simapi_shm.rs).
THEOREM LiveGamesTypeCorrect == Spec => []LiveGamesTypeOK
<1> QED
  BY TypesInitial, TypesStay, PTL DEF Spec

\* The settings are bound to a game only if the last listing showed its process,
\* however long its telemetry lies in a file that nobody writes any more, and
\* whatever the table, the watcher and a test did (resolve_games,
\* live_settings_game_id).
THEOREM BoundCorrect == Spec => []BoundGameRuns
<1>1. Init => BoundGameRuns
  BY DEF Init, BoundGameRuns
<1>2. LiveGamesTypeOK /\ LiveGamesTypeOK' /\ BoundGameRuns /\ [Next]_vars => BoundGameRuns'
  <2> SUFFICES ASSUME LiveGamesTypeOK, LiveGamesTypeOK', BoundGameRuns, [Next]_vars
               PROVE  BoundGameRuns'
    OBVIOUS
  <2>1. CASE Tick
    <3>1. PICK n \in 0 .. Len(events) : \E m, rows : TickOf(n, m, rows)
      BY <2>1, Ticks
    <3>2. PICK m, rows : TickOf(n, m, rows)
      BY <3>1
    <3>3. PICK prev, last : Sample(m, prev, last, rows)
      BY <3>2 DEF TickOf
    <3>4. rows = extras' /\ rows \subseteq [place : Nat \ {0}, game : Games \cup {Idle}]
      BY <3>2 DEF TickOf, LiveGamesTypeOK
    <3>5. bound' \in Ids(rows) \cup {Idle}
      BY <3>3, <3>4, ResolvedAreListed
    <3> QED
      BY <3>4, <3>5 DEF BoundGameRuns, Listed, Ids
  <2>2. CASE UNCHANGED <<extras, bound>>
    BY <2>2 DEF BoundGameRuns, Listed, Ids
  <2> QED
    BY <2>1, <2>2 DEF Next, vars, seen, EditTable, MakeFile, MoveFileIn, RemoveFile, WriteFrame,
                      GameStartsOrEnds, TestStartsOrEnds, TimePasses
<1> QED
  BY <1>1, <1>2, LiveGamesTypeCorrect, PTL DEF Spec

-----------------------------------------------------------------------------
(* Entries *)

LEMMA OverIs ==
  ASSUME NEW f, NEW g
  PROVE  /\ DOMAIN Over(f, g) = DOMAIN f \cup DOMAIN g
         /\ \A key \in DOMAIN f : Over(f, g)[key] = f[key]
         /\ \A key \in DOMAIN g : key \notin DOMAIN f => Over(f, g)[key] = g[key]
BY DEF Over

LEMMA SetIs ==
  ASSUME NEW entry, NEW key, NEW value
  PROVE  /\ DOMAIN Set(entry, key, value) = DOMAIN entry \cup {key}
         /\ Set(entry, key, value)[key] = value
         /\ \A other \in DOMAIN entry :
               other # key => Set(entry, key, value)[other] = entry[other]
BY DEF Set, Over

LEMMA WithoutIs ==
  ASSUME NEW entry, NEW keys
  PROVE  /\ DOMAIN Without(entry, keys) = DOMAIN entry \ keys
         /\ \A key \in DOMAIN entry \ keys : Without(entry, keys)[key] = entry[key]
BY DEF Without

LEMMA EmptyIs == DOMAIN <<>> = {}
OBVIOUS

\* A value between bounds.
LEMMA WithinIs ==
  ASSUME NEW n \in Int, NEW low \in Int, NEW high \in Int, low <= high
  PROVE  Within(n, low, high) \in low .. high
BY DEF Within

LEMMA PositiveIs ==
  ASSUME NEW n \in Int
  PROVE  Positive(n) \in Nat
BY DEF Positive

-----------------------------------------------------------------------------
(* The tables of names *)

ClassNames == {"USB", "Sound", "Serial"}
TypeNames(class) ==
    CASE class = "USB" -> {"Tachometer", "Haptic", "Wheel"}
      [] class = "Sound" -> {"Haptic"}
      [] class = "Serial" -> {"ShiftLights", "SimWind", "Haptic", "Wheel", "Simleds", "Custom"}

\* The hardware a made entry may name.
SubtypeNames(class, type) ==
    CASE class = "USB" -> DOMAIN Hardware
      [] class = "Serial" /\ type = "Wheel" -> {"MozaR9", "MozaNew", "MozaR5", "MozaKSProWheel"}
      [] OTHER -> {}

LEMMA HardwareIs ==
  /\ DOMAIN Hardware =
        {"MozaR5", "MozaR8", "MozaR3", "MozaNew", "MozaR9", "MozaKSProWheel", "CammusC5",
         "CammusC12", "LogitechG29", "CSLELITEV3PEDALS", "SIMNETPEDALS", "SIMAGICP1000PEDALS",
         "SIMAGICGTNEO", "Revburner"}
  /\ \A name \in DOMAIN Hardware :
        Hardware[name] \in {"MozaR5", "MozaNew", "MozaKs", "Revburner"} \cup OpenedUsbHardware
  /\ \A name \in {"MozaR9", "MozaNew", "MozaR5", "MozaKSProWheel"} :
        name \in DOMAIN Hardware /\ Hardware[name] \in {"MozaNew", "MozaR5", "MozaKs"}
BY DEF Hardware, OpenedUsbHardware

LEMMA EffectsAre ==
  /\ \A name \in {"Engine", "Gear", "ABS", "TyreSlip", "TyreLock", "Suspension"} :
        name \in DOMAIN EffectNames
  /\ \A name \in DOMAIN EffectNames : EffectNames[name] # Unset
BY DEF EffectNames, Unset

LEMMA ModulationsAre ==
  /\ {"None", "Frequency", "Amplitude"} \subseteq DOMAIN Modulations
  /\ \A name \in DOMAIN Modulations :
        /\ Modulations[name] \in {"None", "Frequency", "Amplitude"}
        /\ Modulations[name] = "Frequency" => name = "Frequency"
BY DEF Modulations

LEMMA TypesForClassIs ==
  ASSUME NEW class \in ClassNames
  PROVE  /\ ToSet(TypesForClass(class)) = TypeNames(class)
         /\ TypesForClass(class) \in Seq(TypeNames(class))
         /\ Len(TypesForClass(class)) > 0
         /\ DefaultType(class) \in TypeNames(class)
<1>1. CASE class = "USB"
  BY <1>1 DEF TypeNames, TypesForClass, DefaultType, ToSet
<1>2. CASE class = "Sound"
  BY <1>2 DEF TypeNames, TypesForClass, DefaultType, ToSet
<1>3. CASE class = "Serial"
  <2> DEFINE types == <<"ShiftLights", "SimWind", "Haptic", "Wheel", "Simleds", "Custom">>
  <2>1. TypesForClass(class) = types
    BY <1>3 DEF TypesForClass
  <2>2. Len(types) = 6 /\ types \in Seq(TypeNames(class)) /\ types[1] = "ShiftLights"
    BY <1>3 DEF TypeNames
  <2>3. DOMAIN types = 1 .. 6
    OBVIOUS
  <2>4. {types[i] : i \in 1 .. 6} = TypeNames(class)
    BY <1>3 DEF TypeNames
  <2> HIDE DEF types
  <2>5. ToSet(TypesForClass(class)) = TypeNames(class)
    BY <2>1, <2>3, <2>4 DEF ToSet
  <2>6. DefaultType(class) \in TypeNames(class)
    BY <1>3, <2>1, <2>2 DEF DefaultType, TypeNames
  <2> QED
    BY <2>1, <2>2, <2>5, <2>6
<1> QED
  BY <1>1, <1>2, <1>3 DEF ClassNames

LEMMA SerialExtraIs ==
  /\ DOMAIN SerialExtra = TypeNames("Serial")
  /\ SerialExtra["ShiftLights"] = {"numlights"}
  /\ SerialExtra["SimWind"] = {"fanpower"}
  /\ SerialExtra["Haptic"] = {"motors"}
  /\ SerialExtra["Wheel"] = {"subtype"}
  /\ SerialExtra["Simleds"] = {"numleds", "startled", "endled", "config"}
  /\ SerialExtra["Custom"] = {"config"}
BY DEF SerialExtra, TypeNames
LEMMA AllowedAre ==
  ASSUME NEW class \in ClassNames, NEW type \in TypeNames(class)
  PROVE  /\ "subtype" \in AllowedKeys(class, type) =>
               class = "USB" \/ (class = "Serial" /\ type = "Wheel")
         /\ "devid" \in AllowedKeys(class, type) => class # "Serial"
         /\ class # "Sound" =>
               {"channels", "channelMask", "pan"} \cap AllowedKeys(class, type) = {}
         /\ class = "Sound" =>
               {"channels", "channelMask", "pan"} \subseteq AllowedKeys(class, type)
         /\ VisibleFields(class, type) \subseteq AllowedKeys(class, type)
<1> USE DEF AllowedKeys, VisibleFields, Common, TypeFields, HasHaptic, HapticBlock
<1>1. CASE class = "USB"
  <2>1. TypeFields(class, type) \in {{"subtype", "devid", "granularity", "config"},
                                     {"subtype", "devid", "devpath"}}
    BY <1>1
  <2>2. AllowedKeys(class, type) \subseteq Common \cup TypeFields(class, type) \cup HapticBlock
    BY <1>1
  <2>3. {"channels", "channelMask", "pan"}
           \cap (Common \cup TypeFields(class, type) \cup HapticBlock) = {}
    BY <2>1 DEF Common, HapticBlock
  <2>4. VisibleFields(class, type) \subseteq AllowedKeys(class, type)
    BY DEF AllowedKeys
  <2> QED
    BY <1>1, <2>2, <2>3, <2>4
<1>2. CASE class = "Sound"
  BY <1>2
<1>3. CASE class = "Serial"
  <2>1. TypeFields(class, type) = {"devpath", "baud", "ampfactor"} \cup SerialExtra[type]
    BY <1>3
  <2>2. /\ "subtype" \in SerialExtra[type] => type = "Wheel"
        /\ {"devid", "channels", "channelMask", "pan"} \cap SerialExtra[type] = {}
    BY <1>3, SerialExtraIs DEF TypeNames
  <2> HIDE DEF TypeFields
  <2> QED
    BY <1>3, <2>1, <2>2
<1> QED
  BY <1>1, <1>2, <1>3 DEF ClassNames

-----------------------------------------------------------------------------
(* The speakers of a sound device *)

LEMMA QuantitiesAre ==
  /\ {"device", "type", "subtype", "devid", "devpath", "config", "enabled", "effect",
      "modulation", "tyre", "channelMask", "pan"} \cap Quantities = {}
  /\ {"channels", "motors", "streamVolume", "volume", "frequency", "frequencyMax",
      "granularity"} \subseteq Quantities
BY DEF Quantities, Numeric, Fractions

LEMMA GetIs ==
  ASSUME NEW entry, IsEntry(entry), NEW key \in Quantities, NEW default \in Int
  PROVE  Get(entry, key, default) \in Int
BY DEF IsEntry, Get

LEMMA CountIs ==
  ASSUME NEW entry, IsEntry(entry)
  PROVE  /\ SoundChannelCount(entry) \in 1 .. 8
         /\ ChannelMaskAll(SoundChannelCount(entry)) # {}
<1>1. Get(entry, "channels", 2) \in Int
  BY GetIs, QuantitiesAre
<1>2. SoundChannelCount(entry) \in 1 .. 8
  BY <1>1 DEF SoundChannelCount, MostChannels, Within
<1>3. 0 \in ChannelMaskAll(SoundChannelCount(entry))
  BY <1>2 DEF ChannelMaskAll
<1> QED
  BY <1>2, <1>3

LEMMA ClippedIs ==
  ASSUME NEW mask, NEW all, all # {}
  PROVE  /\ ClippedMask(mask, all) \subseteq all
         /\ ClippedMask(mask, all) # {}
         /\ mask \subseteq all /\ mask # {} => ClippedMask(mask, all) = mask
BY DEF ClippedMask

LEMMA ResolvedIs ==
  ASSUME NEW entry, IsEntry(entry)
  PROVE  /\ SoundResolveChannelMask(entry) \subseteq ChannelMaskAll(SoundChannelCount(entry))
         /\ SoundResolveChannelMask(entry) # {}
<1> DEFINE all == ChannelMaskAll(SoundChannelCount(entry))
<1>1. all # {}
  BY CountIs
<1> HIDE DEF all
<1>2. SoundResolveChannelMask(entry) =
        IF "channelMask" \in DOMAIN entry THEN ClippedMask(entry.channelMask, all)
        ELSE PanMask(Get(entry, "pan", -1), all)
  BY DEF SoundResolveChannelMask, all
<1>3. SoundResolveChannelMask(entry) \subseteq all /\ SoundResolveChannelMask(entry) # {}
  BY <1>1, <1>2, ClippedIs DEF PanMask
<1> QED
  BY <1>3 DEF all

\* The mask that is shown depends on these keys only.
LEMMA ResolveSame ==
  ASSUME NEW entry, NEW other, "channelMask" \in DOMAIN entry, "channelMask" \in DOMAIN other,
         entry.channelMask = other.channelMask,
         Get(entry, "channels", 2) = Get(other, "channels", 2)
  PROVE  SoundResolveChannelMask(entry) = SoundResolveChannelMask(other)
BY DEF SoundResolveChannelMask, SoundChannelCount

\* The mask and the pan of an entry agree.
PanTold(entry) ==
    /\ {"channelMask", "pan"} \subseteq DOMAIN entry
    /\ entry.pan = SoundFirstChannel(SoundResolveChannelMask(entry))

LEMMA WriteIs ==
  ASSUME NEW entry, IsEntry(entry), NEW mask
  PROVE  LET written == WriteSoundChannelMask(entry, mask)
         IN  /\ IsEntry(written)
             /\ PanTold(written)
             /\ DOMAIN written = DOMAIN entry \cup {"channelMask", "pan"}
             /\ \A key \in DOMAIN entry \ {"channelMask", "pan"} : written[key] = entry[key]
<1> DEFINE all == ChannelMaskAll(SoundChannelCount(entry))
           clipped == ClippedMask(mask, all)
           masked == Set(entry, "channelMask", clipped)
           written == Set(masked, "pan", SoundFirstChannel(clipped))
<1>1. all # {}
  BY CountIs
<1>2. clipped \subseteq all /\ clipped # {}
  BY <1>1, ClippedIs
<1>3. WriteSoundChannelMask(entry, mask) = written
  BY DEF WriteSoundChannelMask
<1> HIDE DEF all, clipped
<1>4. /\ DOMAIN masked = DOMAIN entry \cup {"channelMask"}
      /\ masked["channelMask"] = clipped
      /\ \A key \in DOMAIN entry \ {"channelMask"} : masked[key] = entry[key]
  BY DEF Set, Over
<1> HIDE DEF masked
<1>5. /\ DOMAIN written = DOMAIN masked \cup {"pan"}
      /\ written["pan"] = SoundFirstChannel(clipped)
      /\ \A key \in DOMAIN masked \ {"pan"} : written[key] = masked[key]
  BY DEF Set, Over
<1> HIDE DEF written
<1>6. /\ DOMAIN written = DOMAIN entry \cup {"channelMask", "pan"}
      /\ \A key \in DOMAIN entry \ {"channelMask", "pan"} : written[key] = entry[key]
      /\ written["channelMask"] = clipped
  BY <1>4, <1>5
<1>7. IsEntry(written)
  BY <1>6, QuantitiesAre DEF IsEntry
<1>8. Get(written, "channels", 2) = Get(entry, "channels", 2)
  BY <1>6 DEF Get
<1>9. SoundResolveChannelMask(written) = ClippedMask(clipped, all)
  BY <1>6, <1>8 DEF SoundResolveChannelMask, SoundChannelCount, all
<1>10. SoundResolveChannelMask(written) = clipped
  BY <1>1, <1>2, <1>9, ClippedIs
<1> QED
  BY <1>3, <1>5, <1>6, <1>7, <1>10 DEF PanTold

-----------------------------------------------------------------------------
(* What an entry the form made looks like *)

\* Its settings are ones of a device of this class and type.
Fits(entry, class, type) ==
    /\ IsEntry(entry)
    /\ "subtype" \in DOMAIN entry => entry.subtype \in SubtypeNames(class, type)
    /\ "effect" \in DOMAIN entry => entry.effect \in DOMAIN EffectNames
    /\ "modulation" \in DOMAIN entry => entry.modulation \in DOMAIN Modulations
    /\ class = "Serial" => "devid" \notin DOMAIN entry
    /\ IF class = "Sound"
       THEN {"channelMask", "pan"} \cap DOMAIN entry # {} => PanTold(entry)
       ELSE {"channels", "channelMask", "pan"} \cap DOMAIN entry = {}

\* It names them the way apply_defaults does.
IsNamed(entry, class, type) ==
    /\ "device" \in DOMAIN entry /\ entry.device = class
    /\ IF class = "Sound" THEN "type" \notin DOMAIN entry
       ELSE "type" \in DOMAIN entry /\ entry.type = type

Made(entry) ==
    \E class \in ClassNames : \E type \in TypeNames(class) :
        /\ IsNamed(entry, class, type)
        /\ Fits(entry, class, type)
        /\ class = "Sound" => PanTold(entry)

LEMMA NamedKind ==
  ASSUME NEW class \in ClassNames, NEW type \in TypeNames(class), NEW entry,
         IsNamed(entry, class, type)
  PROVE  Class(entry) = class /\ ShownType(entry) = type
<1>1. Class(entry) = class
  BY DEF IsNamed, Class, Get, ClassNames
<1>2. class # "Sound" => TypeName(entry) = type
  BY DEF IsNamed, TypeName, Get
<1>3. NormalizeTypeName(class, TypeName(entry)) = type
  <2>1. CASE class = "USB"
    BY <1>2, <2>1 DEF NormalizeTypeName, TypeNames
  <2>2. CASE class = "Sound"
    BY <2>2 DEF NormalizeTypeName, TypeNames
  <2>3. CASE class = "Serial"
    BY <1>2, <2>3, SerialExtraIs DEF NormalizeTypeName, TypeNames
  <2> QED
    BY <2>1, <2>2, <2>3 DEF ClassNames
<1> QED
  BY <1>1, <1>3 DEF ShownType

LEMMA OverIsEntry ==
  ASSUME NEW f, NEW g, IsEntry(f), IsEntry(g)
  PROVE  IsEntry(Over(f, g))
BY DEF IsEntry, Over

LEMMA OverBase ==
  ASSUME NEW more, IsEntry(more)
  PROVE  LET defaults == Over([enabled |-> TRUE, fps |-> 60], more)
         IN  /\ IsEntry(defaults)
             /\ DOMAIN defaults = {"enabled", "fps"} \cup DOMAIN more
             /\ \A key \in DOMAIN more :
                   key \notin {"enabled", "fps"} => defaults[key] = more[key]
<1> DEFINE base == [enabled |-> TRUE, fps |-> 60]
<1>1. IsEntry(base) /\ DOMAIN base = {"enabled", "fps"}
  BY QuantitiesAre DEF IsEntry
<1> HIDE DEF base
<1> DEFINE defaults == Over(base, more)
<1>2. IsEntry(defaults)
  BY <1>1, OverIsEntry
<1>3. DOMAIN defaults = {"enabled", "fps"} \cup DOMAIN more
  BY <1>1 DEF Over
<1>4. \A key \in DOMAIN more : key \notin {"enabled", "fps"} => defaults[key] = more[key]
  BY <1>1 DEF Over
<1> QED
  BY <1>2, <1>3, <1>4 DEF base

LEMMA DefaultsAre ==
  ASSUME NEW class \in ClassNames, NEW type \in TypeNames(class)
  PROVE  LET defaults == Defaults(class, type)
         IN  /\ IsEntry(defaults)
             /\ {"device", "type", "effect", "modulation", "devid", "channelMask", "pan",
                 "streamVolume", "volume"} \cap DOMAIN defaults = {}
             /\ "subtype" \in DOMAIN defaults =>
                   defaults.subtype \in SubtypeNames(class, type)
             /\ IF class = "Sound"
                THEN "channels" \in DOMAIN defaults /\ defaults.channels = 2
                ELSE "channels" \notin DOMAIN defaults
<1> DEFINE base == [enabled |-> TRUE, fps |-> 60]
           defaults == Defaults(class, type)
<1>1. ASSUME NEW more, IsEntry(more), defaults = Over(base, more)
      PROVE  /\ IsEntry(defaults)
             /\ DOMAIN defaults = {"enabled", "fps"} \cup DOMAIN more
             /\ "subtype" \in DOMAIN more => defaults["subtype"] = more["subtype"]
             /\ "channels" \in DOMAIN more => defaults["channels"] = more["channels"]
  <2>1. /\ IsEntry(Over(base, more))
        /\ DOMAIN Over(base, more) = {"enabled", "fps"} \cup DOMAIN more
        /\ \A key \in DOMAIN more :
              key \notin {"enabled", "fps"} => Over(base, more)[key] = more[key]
    BY <1>1, OverBase
  <2> HIDE DEF base, defaults
  <2> QED
    BY <1>1, <2>1
<1>2. CASE class = "USB"
  <2>1. CASE type = "Tachometer"
    <3> DEFINE more == [subtype |-> "Revburner", granularity |-> 1]
    <3>1. defaults = Over(base, more)
      BY <1>2, <2>1 DEF Defaults
    <3>2. IsEntry(more) /\ DOMAIN more = {"subtype", "granularity"}
      BY QuantitiesAre DEF IsEntry
    <3>3. "Revburner" \in SubtypeNames(class, type)
      BY <1>2, HardwareIs DEF SubtypeNames
    <3>4. more["subtype"] \in SubtypeNames(class, type)
      BY <3>3
    <3> HIDE DEF more, base
    <3>5. /\ IsEntry(defaults)
          /\ DOMAIN defaults = {"enabled", "fps"} \cup DOMAIN more
          /\ "subtype" \in DOMAIN more => defaults["subtype"] = more["subtype"]
      BY <1>1, <3>1, <3>2
    <3> HIDE DEF defaults
    <3>6. "channels" \notin DOMAIN defaults /\ defaults["subtype"] \in SubtypeNames(class, type)
      BY <3>2, <3>4, <3>5
    <3> QED
      BY <1>2, <3>2, <3>5, <3>6 DEF defaults
  <2>2. CASE type # "Tachometer"
    <3> DEFINE more == [subtype |-> "CSLELITEV3PEDALS"]
    <3>1. defaults = Over(base, more)
      BY <1>2, <2>2 DEF Defaults
    <3>2. IsEntry(more) /\ DOMAIN more = {"subtype"}
      BY QuantitiesAre DEF IsEntry
    <3>3. "CSLELITEV3PEDALS" \in SubtypeNames(class, type)
      BY <1>2, HardwareIs DEF SubtypeNames
    <3>4. more["subtype"] \in SubtypeNames(class, type)
      BY <3>3
    <3> HIDE DEF more, base
    <3>5. /\ IsEntry(defaults)
          /\ DOMAIN defaults = {"enabled", "fps"} \cup DOMAIN more
          /\ "subtype" \in DOMAIN more => defaults["subtype"] = more["subtype"]
      BY <1>1, <3>1, <3>2
    <3> HIDE DEF defaults
    <3>6. "channels" \notin DOMAIN defaults /\ defaults["subtype"] \in SubtypeNames(class, type)
      BY <3>2, <3>4, <3>5
    <3> QED
      BY <1>2, <3>2, <3>5, <3>6 DEF defaults
  <2> QED
    BY <2>1, <2>2
<1>3. CASE class = "Sound"
  <2> DEFINE more == [channels |-> 2, noise |-> 0]
  <2>1. defaults = Over(base, more)
    BY <1>3 DEF Defaults
  <2>2. IsEntry(more) /\ DOMAIN more = {"channels", "noise"} /\ more.channels = 2
    BY QuantitiesAre DEF IsEntry
  <2> HIDE DEF more, base
  <2>3. /\ IsEntry(defaults)
        /\ DOMAIN defaults = {"enabled", "fps"} \cup DOMAIN more
        /\ "channels" \in DOMAIN more => defaults["channels"] = more["channels"]
    BY <1>1, <2>1, <2>2
  <2> HIDE DEF defaults
  <2>4. "channels" \in DOMAIN defaults /\ defaults["channels"] = 2
    BY <2>2, <2>3
  <2> QED
    BY <1>3, <2>2, <2>3, <2>4 DEF defaults
<1>4. CASE class = "Serial"
  <2> DEFINE own == Get(SerialTypeDefaults, type, <<>>)
             more == Over([baud |-> 9600, ampfactor |-> 1000], own)
  <2>1. defaults = Over(base, more)
    BY <1>4 DEF Defaults
  <2>2. /\ IsEntry(own)
        /\ DOMAIN own \subseteq {"subtype", "fanpower", "numlights", "numleds", "startled",
                                "endled"}
        /\ "subtype" \in DOMAIN own => type = "Wheel" /\ own.subtype = "MozaR9"
    <3>1. CASE type \in {"Haptic", "Custom"}
      <4>1. own = <<>>
        BY <3>1 DEF SerialTypeDefaults, Get
      <4> QED
        BY <4>1, EmptyIs DEF IsEntry
    <3>2. CASE type = "Wheel"
      <4>1. own = [subtype |-> "MozaR9"]
        BY <3>2 DEF SerialTypeDefaults, Get
      <4> QED
        BY <3>2, <4>1, QuantitiesAre DEF IsEntry
    <3>3. CASE type = "SimWind"
      <4>1. own = [fanpower |-> 600]
        BY <3>3 DEF SerialTypeDefaults, Get
      <4> QED
        BY <4>1 DEF IsEntry
    <3>4. CASE type = "ShiftLights"
      <4>1. own = [numlights |-> 6]
        BY <3>4 DEF SerialTypeDefaults, Get
      <4> QED
        BY <4>1 DEF IsEntry
    <3>5. CASE type = "Simleds"
      <4>1. own = [numleds |-> 6, startled |-> 1, endled |-> 1]
        BY <3>5 DEF SerialTypeDefaults, Get
      <4> QED
        BY <4>1 DEF IsEntry
    <3> QED
      BY <1>4, <3>1, <3>2, <3>3, <3>4, <3>5 DEF TypeNames
  <2> HIDE DEF own
  <2>3. IsEntry([baud |-> 9600, ampfactor |-> 1000])
    BY DEF IsEntry
  <2>4. /\ IsEntry(more)
        /\ DOMAIN more = {"baud", "ampfactor"} \cup DOMAIN own
        /\ "subtype" \in DOMAIN more => more["subtype"] = own["subtype"]
    BY <2>2, <2>3, OverIsEntry DEF Over
  <2> HIDE DEF more
  <2>5. "subtype" \in DOMAIN more => more["subtype"] \in SubtypeNames(class, type)
    BY <1>4, <2>2, <2>4 DEF SubtypeNames
  <2> HIDE DEF base
  <2>6. /\ IsEntry(defaults)
        /\ DOMAIN defaults = {"enabled", "fps"} \cup DOMAIN more
        /\ "subtype" \in DOMAIN more => defaults["subtype"] = more["subtype"]
    BY <1>1, <2>1, <2>4
  <2> HIDE DEF defaults
  <2>7. "subtype" \in DOMAIN defaults => defaults["subtype"] \in SubtypeNames(class, type)
    BY <2>5, <2>6
  <2>8. DOMAIN defaults \subseteq {"enabled", "fps", "baud", "ampfactor", "subtype", "fanpower",
                                  "numlights", "numleds", "startled", "endled"}
    BY <2>2, <2>4, <2>6
  <2> QED
    BY <1>4, <2>6, <2>7, <2>8 DEF defaults
<1> QED
  BY <1>2, <1>3, <1>4 DEF ClassNames

LEMMA HapticDefaultsAre ==
  /\ IsEntry(HapticDefaults)
  /\ HapticDefaults.effect \in DOMAIN EffectNames
  /\ HapticDefaults.modulation \in DOMAIN Modulations
  /\ {"effect", "modulation"} \subseteq DOMAIN HapticDefaults
  /\ {"device", "type", "subtype", "devid", "channels", "channelMask", "pan"}
        \cap DOMAIN HapticDefaults = {}
<1>1. /\ HapticDefaults.effect = "Engine" /\ HapticDefaults.modulation = "Frequency"
      /\ DOMAIN HapticDefaults = {"effect", "modulation", "tyre", "frequency", "frequencyMax",
                                  "amplitude", "amplitudeMax", "threshold", "duration"}
  BY DEF HapticDefaults
<1>2. IsEntry(HapticDefaults)
  BY QuantitiesAre DEF HapticDefaults, IsEntry
<1> QED
  BY <1>1, <1>2, EffectsAre, ModulationsAre

\* What a made entry is told by: all but its identity.
Telling == {"device", "type", "subtype", "effect", "modulation", "channels", "channelMask", "pan"}
Agree(entry, other, keys) ==
    \A key \in keys : /\ key \in DOMAIN entry <=> key \in DOMAIN other
                      /\ key \in DOMAIN entry => entry[key] = other[key]

LEMMA PanSame ==
  ASSUME NEW entry, NEW other, PanTold(entry),
         Agree(entry, other, {"channels", "channelMask", "pan"})
  PROVE  PanTold(other)
<1>1. /\ "channelMask" \in DOMAIN entry /\ "channelMask" \in DOMAIN other
      /\ entry["channelMask"] = other["channelMask"]
      /\ "pan" \in DOMAIN other /\ entry["pan"] = other["pan"]
  BY DEF PanTold, Agree
<1>2. Get(entry, "channels", 2) = Get(other, "channels", 2)
  BY DEF Agree, Get
<1>3. SoundResolveChannelMask(entry) = SoundResolveChannelMask(other)
  BY <1>1, <1>2, ResolveSame
<1> QED
  BY <1>1, <1>3 DEF PanTold

LEMMA FitsSame ==
  ASSUME NEW class, NEW type, NEW entry, NEW other, IsEntry(other),
         Fits(entry, class, type), Agree(entry, other, Telling),
         class = "Serial" => "devid" \notin DOMAIN other
  PROVE  /\ Fits(other, class, type)
         /\ IsNamed(entry, class, type) => IsNamed(other, class, type)
         /\ PanTold(entry) => PanTold(other)
<1>1. IsNamed(entry, class, type) => IsNamed(other, class, type)
  BY DEF IsNamed, Agree, Telling
<1>2. Agree(entry, other, {"channels", "channelMask", "pan"})
  BY DEF Agree, Telling
<1>3. PanTold(entry) => PanTold(other)
  BY <1>2, PanSame
<1>4. /\ "subtype" \in DOMAIN other => other.subtype \in SubtypeNames(class, type)
      /\ "effect" \in DOMAIN other => other.effect \in DOMAIN EffectNames
      /\ "modulation" \in DOMAIN other => other.modulation \in DOMAIN Modulations
  BY DEF Fits, Agree, Telling
<1>5. IF class = "Sound"
      THEN {"channelMask", "pan"} \cap DOMAIN other # {} => PanTold(other)
      ELSE {"channels", "channelMask", "pan"} \cap DOMAIN other = {}
  <2>1. \A key \in {"channels", "channelMask", "pan"} :
           key \in DOMAIN entry <=> key \in DOMAIN other
    BY <1>2 DEF Agree
  <2>2. IF class = "Sound"
        THEN {"channelMask", "pan"} \cap DOMAIN entry # {} => PanTold(entry)
        ELSE {"channels", "channelMask", "pan"} \cap DOMAIN entry = {}
    BY DEF Fits
  <2> QED
    BY <1>3, <2>1, <2>2
<1> QED
  BY <1>1, <1>3, <1>4, <1>5 DEF Fits

LEMMA NamedIs ==
  ASSUME NEW class \in ClassNames, NEW type, NEW entry, Fits(entry, class, type)
  PROVE  LET named == Named(entry, class, type)
         IN  /\ IsNamed(named, class, type)
             /\ Fits(named, class, type)
             /\ \A key : key \notin {"device", "type"} =>
                   /\ key \in DOMAIN entry <=> key \in DOMAIN named
                   /\ key \in DOMAIN entry => entry[key] = named[key]
<1> DEFINE named == Named(entry, class, type)
<1>1. /\ IsNamed(named, class, type)
      /\ \A key : key \notin {"device", "type"} =>
            /\ key \in DOMAIN entry <=> key \in DOMAIN named
            /\ key \in DOMAIN entry => entry[key] = named[key]
  <2>1. CASE class = "Sound"
    <3> DEFINE untyped == Without(entry, {"type"})
    <3>1. named = Set(untyped, "device", class)
      BY <2>1 DEF Named
    <3>2. /\ DOMAIN untyped = DOMAIN entry \ {"type"}
          /\ \A key \in DOMAIN untyped : untyped[key] = entry[key]
      BY DEF Without
    <3> HIDE DEF untyped, named
    <3>3. /\ DOMAIN named = DOMAIN untyped \cup {"device"}
          /\ named["device"] = class
          /\ \A key \in DOMAIN untyped : key # "device" => named[key] = untyped[key]
      BY <3>1 DEF Set, Over
    <3> QED
      BY <2>1, <3>2, <3>3 DEF IsNamed
  <2>2. CASE class # "Sound"
    <3> DEFINE classed == Set(entry, "device", class)
    <3>1. named = Set(classed, "type", type)
      BY <2>2 DEF Named
    <3>2. /\ DOMAIN classed = DOMAIN entry \cup {"device"}
          /\ classed["device"] = class
          /\ \A key \in DOMAIN entry : key # "device" => classed[key] = entry[key]
      BY DEF Set, Over
    <3> HIDE DEF classed, named
    <3>3. /\ DOMAIN named = DOMAIN classed \cup {"type"}
          /\ named["type"] = type
          /\ \A key \in DOMAIN classed : key # "type" => named[key] = classed[key]
      BY <3>1 DEF Set, Over
    <3> QED
      BY <2>2, <3>2, <3>3 DEF IsNamed
  <2> QED
    BY <2>1, <2>2
<1> HIDE DEF named
<1>2. IsEntry(named)
  BY <1>1, QuantitiesAre DEF Fits, IsEntry
<1>3. Agree(entry, named, {"channels", "channelMask", "pan"})
  BY <1>1 DEF Agree
<1>4. PanTold(entry) => PanTold(named)
  BY <1>3, PanSame
<1>5. /\ "subtype" \in DOMAIN named => named.subtype \in SubtypeNames(class, type)
      /\ "effect" \in DOMAIN named => named.effect \in DOMAIN EffectNames
      /\ "modulation" \in DOMAIN named => named.modulation \in DOMAIN Modulations
      /\ class = "Serial" => "devid" \notin DOMAIN named
  BY <1>1 DEF Fits
<1>6. IF class = "Sound"
      THEN {"channelMask", "pan"} \cap DOMAIN named # {} => PanTold(named)
      ELSE {"channels", "channelMask", "pan"} \cap DOMAIN named = {}
  <2>1. \A key \in {"channels", "channelMask", "pan"} :
           key \in DOMAIN entry <=> key \in DOMAIN named
    BY <1>3 DEF Agree
  <2>2. IF class = "Sound"
        THEN {"channelMask", "pan"} \cap DOMAIN entry # {} => PanTold(entry)
        ELSE {"channels", "channelMask", "pan"} \cap DOMAIN entry = {}
    BY DEF Fits
  <2> QED
    BY <1>4, <2>1, <2>2
<1> QED
  BY <1>1, <1>2, <1>5, <1>6 DEF named, Fits

\* Over the defaults an entry keeps what it has.
LEMMA FilledIs ==
  ASSUME NEW class \in ClassNames, NEW type \in TypeNames(class), NEW entry,
         IsNamed(entry, class, type), Fits(entry, class, type)
  PROVE  LET filled == Over(entry, Defaults(class, type))
         IN  /\ IsNamed(filled, class, type)
             /\ Fits(filled, class, type)
             /\ class = "Sound" => Get(filled, "channels", 2) = Get(entry, "channels", 2)
<1> DEFINE defaults == Defaults(class, type)
           filled == Over(entry, defaults)
<1>1. /\ IsEntry(defaults)
      /\ {"device", "type", "effect", "modulation", "devid", "channelMask", "pan",
          "streamVolume", "volume"} \cap DOMAIN defaults = {}
      /\ "subtype" \in DOMAIN defaults => defaults["subtype"] \in SubtypeNames(class, type)
      /\ IF class = "Sound"
         THEN "channels" \in DOMAIN defaults /\ defaults["channels"] = 2
         ELSE "channels" \notin DOMAIN defaults
  BY DefaultsAre
<1> HIDE DEF defaults
<1>2. /\ DOMAIN filled = DOMAIN entry \cup DOMAIN defaults
      /\ \A key \in DOMAIN entry : filled[key] = entry[key]
      /\ \A key \in DOMAIN defaults : key \notin DOMAIN entry => filled[key] = defaults[key]
  BY DEF Over
<1>3. IsEntry(filled)
  BY <1>1, OverIsEntry DEF Fits
<1> HIDE DEF filled
<1>4. \A key \in {"device", "type", "effect", "modulation", "devid", "channelMask", "pan"} :
         /\ key \in DOMAIN filled <=> key \in DOMAIN entry
         /\ key \in DOMAIN entry => filled[key] = entry[key]
  BY <1>1, <1>2
<1>5. IsNamed(filled, class, type)
  BY <1>4 DEF IsNamed
<1>6. class = "Sound" => Get(filled, "channels", 2) = Get(entry, "channels", 2)
  BY <1>1, <1>2 DEF Get
<1>7. class = "Sound" /\ PanTold(entry) => PanTold(filled)
  <2> SUFFICES ASSUME class = "Sound", PanTold(entry) PROVE PanTold(filled)
    OBVIOUS
  <2>1. Get(filled, "channels", 2) = Get(entry, "channels", 2)
    BY <1>6
  <2>2. /\ "channelMask" \in DOMAIN entry /\ "channelMask" \in DOMAIN filled
        /\ entry["channelMask"] = filled["channelMask"]
        /\ "pan" \in DOMAIN filled /\ entry["pan"] = filled["pan"]
    BY <1>4 DEF PanTold
  <2>3. SoundResolveChannelMask(entry) = SoundResolveChannelMask(filled)
    BY <2>1, <2>2, ResolveSame
  <2> QED
    BY <2>2, <2>3 DEF PanTold
<1>8. /\ "subtype" \in DOMAIN filled => filled["subtype"] \in SubtypeNames(class, type)
      /\ "effect" \in DOMAIN filled => filled["effect"] \in DOMAIN EffectNames
      /\ "modulation" \in DOMAIN filled => filled["modulation"] \in DOMAIN Modulations
      /\ class = "Serial" => "devid" \notin DOMAIN filled
  BY <1>1, <1>2, <1>4 DEF Fits
<1>9. class = "Sound" => ({"channelMask", "pan"} \cap DOMAIN filled # {} => PanTold(filled))
  BY <1>4, <1>7 DEF Fits
<1>10. class # "Sound" => {"channels", "channelMask", "pan"} \cap DOMAIN filled = {}
  BY <1>1, <1>2, <1>4 DEF Fits
<1>11. Fits(filled, class, type)
  BY <1>3, <1>8, <1>9, <1>10 DEF Fits
<1> QED
  BY <1>5, <1>11, <1>6 DEF filled, defaults

\* A sound device is also given a volume and speakers.
LEMMA HeardIs ==
  ASSUME NEW type, NEW entry, IsNamed(entry, "Sound", type), Fits(entry, "Sound", type)
  PROVE  LET heard == Aimed(Loud(entry))
         IN  /\ IsNamed(heard, "Sound", type)
             /\ Fits(heard, "Sound", type)
             /\ PanTold(heard)
             /\ Get(heard, "channels", 2) = Get(entry, "channels", 2)
<1> DEFINE loud == Loud(entry)
<1>1. /\ IsNamed(loud, "Sound", type)
      /\ Fits(loud, "Sound", type)
      /\ Get(loud, "channels", 2) = Get(entry, "channels", 2)
  <2>1. CASE loud = entry
    BY <2>1
  <2>2. CASE loud # entry
    <3> DEFINE once == Set(entry, "streamVolume", 70)
    <3>1. loud = Set(once, "volume", 70)
      BY <2>2 DEF Loud
    <3>2. /\ DOMAIN once = DOMAIN entry \cup {"streamVolume"}
          /\ once["streamVolume"] = 70
          /\ \A key \in DOMAIN entry : key # "streamVolume" => once[key] = entry[key]
      BY DEF Set, Over
    <3> HIDE DEF once, loud
    <3>3. /\ DOMAIN loud = DOMAIN once \cup {"volume"}
          /\ loud["volume"] = 70
          /\ \A key \in DOMAIN once : key # "volume" => loud[key] = once[key]
      BY <3>1 DEF Set, Over
    <3>4. IsEntry(loud)
      BY <3>2, <3>3 DEF Fits, IsEntry
    <3>5. Agree(entry, loud, Telling)
      BY <3>2, <3>3 DEF Agree, Telling
    <3>6. Get(loud, "channels", 2) = Get(entry, "channels", 2)
      BY <3>2, <3>3 DEF Get
    <3> QED
      BY <3>4, <3>5, <3>6, FitsSame
  <2> QED
    BY <2>1, <2>2
<1> HIDE DEF loud
<1> DEFINE heard == Aimed(loud)
<1>2. CASE {"channelMask", "pan"} \cap DOMAIN loud # {}
  <2>1. heard = loud
    BY <1>2 DEF Aimed
  <2>2. PanTold(loud)
    BY <1>1, <1>2 DEF Fits
  <2> QED
    BY <1>1, <2>1, <2>2 DEF loud
<1>3. CASE {"channelMask", "pan"} \cap DOMAIN loud = {}
  <2>1. heard = WriteSoundChannelMask(loud, ChannelMaskAll(2))
    BY <1>3 DEF Aimed
  <2>2. IsEntry(loud)
    BY <1>1 DEF Fits
  <2> HIDE DEF heard
  <2>3. /\ IsEntry(heard)
        /\ PanTold(heard)
        /\ DOMAIN heard = DOMAIN loud \cup {"channelMask", "pan"}
        /\ \A key \in DOMAIN loud \ {"channelMask", "pan"} : heard[key] = loud[key]
    BY <2>1, <2>2, WriteIs
  <2>4. IsNamed(heard, "Sound", type)
    BY <1>1, <2>3 DEF IsNamed
  <2>5. Fits(heard, "Sound", type)
    BY <1>1, <2>3 DEF Fits
  <2>6. Get(heard, "channels", 2) = Get(loud, "channels", 2)
    BY <2>3 DEF Get
  <2> QED
    BY <1>1, <2>3, <2>4, <2>5, <2>6 DEF heard, loud
<1> QED
  BY <1>2, <1>3

\* apply_defaults makes a device of a class and a type of settings that fit them.
LEMMA ApplyMade ==
  ASSUME NEW class \in ClassNames, NEW type \in TypeNames(class), NEW entry,
         Fits(entry, class, type)
  PROVE  LET made == ApplyDefaults(entry, class, type)
         IN  /\ IsNamed(made, class, type)
             /\ Fits(made, class, type)
             /\ class = "Sound" =>
                   PanTold(made) /\ Get(made, "channels", 2) = Get(entry, "channels", 2)
<1> DEFINE named == Named(entry, class, type)
           filled == Over(named, Defaults(class, type))
           heard == IF class = "Sound" THEN Aimed(Loud(filled)) ELSE filled
           made == ApplyDefaults(entry, class, type)
<1>1. IsNamed(named, class, type) /\ Fits(named, class, type)
  BY NamedIs
<1>2. Get(named, "channels", 2) = Get(entry, "channels", 2)
  BY NamedIs DEF Get
<1> HIDE DEF named
<1>3. /\ IsNamed(filled, class, type) /\ Fits(filled, class, type)
      /\ class = "Sound" => Get(filled, "channels", 2) = Get(entry, "channels", 2)
  BY <1>1, <1>2, FilledIs
<1> HIDE DEF filled
<1>4. /\ IsNamed(heard, class, type)
      /\ Fits(heard, class, type)
      /\ class = "Sound" =>
            PanTold(heard) /\ Get(heard, "channels", 2) = Get(entry, "channels", 2)
  BY <1>3, HeardIs
<1>5. made = IF HasHaptic(class, type) /\ "effect" \notin DOMAIN entry
             THEN Over(HapticDefaults, heard) ELSE heard
  BY DEF ApplyDefaults, heard, filled, named
<1> HIDE DEF heard, made
<1>6. CASE made = heard
  BY <1>4, <1>6 DEF made
<1>7. CASE made = Over(HapticDefaults, heard)
  <2>1. /\ DOMAIN made = DOMAIN HapticDefaults \cup DOMAIN heard
        /\ \A key \in DOMAIN HapticDefaults : made[key] = HapticDefaults[key]
        /\ \A key \in DOMAIN heard : key \notin DOMAIN HapticDefaults => made[key] = heard[key]
    BY <1>7 DEF Over
  <2>2. IsEntry(made)
    BY <1>4, <1>7, HapticDefaultsAre, OverIsEntry DEF Fits
  <2>3. Agree(heard, made, Telling \ {"effect", "modulation"})
    BY <2>1, HapticDefaultsAre DEF Agree, Telling
  <2>4. made["effect"] \in DOMAIN EffectNames /\ made["modulation"] \in DOMAIN Modulations
    BY <2>1, HapticDefaultsAre
  <2>5. IsNamed(made, class, type)
    BY <1>4, <2>3 DEF IsNamed, Agree, Telling
  <2>6. Agree(heard, made, {"channels", "channelMask", "pan"})
    BY <2>3 DEF Agree, Telling
  <2>7. PanTold(heard) => PanTold(made)
    BY <2>6, PanSame
  <2>8. Get(made, "channels", 2) = Get(heard, "channels", 2)
    BY <2>6 DEF Agree, Get
  <2>9. class = "Serial" => "devid" \notin DOMAIN made
    BY <1>4, <2>1, HapticDefaultsAre DEF Fits
  <2>10. "subtype" \in DOMAIN made => made["subtype"] \in SubtypeNames(class, type)
    BY <1>4, <2>3 DEF Fits, Agree, Telling
  <2>11. class # "Sound" => {"channels", "channelMask", "pan"} \cap DOMAIN made = {}
    BY <1>4, <2>6 DEF Fits, Agree
  <2>12. Fits(made, class, type)
    BY <1>4, <2>2, <2>4, <2>7, <2>9, <2>10, <2>11 DEF Fits
  <2> QED
    BY <1>4, <2>5, <2>7, <2>12, <2>8 DEF made
<1> QED
  BY <1>5, <1>6, <1>7

-----------------------------------------------------------------------------
(* The numbers of an entry stay numbers *)

LEMMA SetEntry ==
  ASSUME NEW entry, IsEntry(entry), NEW key, NEW value, key \in Quantities => value \in Int
  PROVE  IsEntry(Set(entry, key, value))
BY DEF IsEntry, Set, Over

LEMMA WithoutEntry ==
  ASSUME NEW entry, IsEntry(entry), NEW keys
  PROVE  IsEntry(Without(entry, keys))
BY DEF IsEntry, Without

LEMMA ApplyEntry ==
  ASSUME NEW class \in ClassNames, NEW type \in TypeNames(class), NEW entry, IsEntry(entry)
  PROVE  IsEntry(ApplyDefaults(entry, class, type))
<1> DEFINE named == Named(entry, class, type)
           filled == Over(named, Defaults(class, type))
           loud == Loud(filled)
           heard == IF class = "Sound" THEN Aimed(loud) ELSE filled
<1>1. IsEntry(named)
  BY SetEntry, WithoutEntry, QuantitiesAre DEF Named
<1> HIDE DEF named
<1>2. IsEntry(filled)
  BY <1>1, DefaultsAre, OverIsEntry
<1> HIDE DEF filled
<1>3. IsEntry(loud)
  BY <1>2, SetEntry DEF Loud
<1> HIDE DEF loud
<1>4. IsEntry(Aimed(loud))
  BY <1>3, WriteIs DEF Aimed
<1>5. IsEntry(heard)
  BY <1>2, <1>4
<1>6. ApplyDefaults(entry, class, type) =
        IF HasHaptic(class, type) /\ "effect" \notin DOMAIN entry
        THEN Over(HapticDefaults, heard) ELSE heard
  BY DEF ApplyDefaults, heard, loud, filled, named
<1> HIDE DEF heard
<1> QED
  BY <1>5, <1>6, HapticDefaultsAre, OverIsEntry

LEMMA EmptyFits ==
  ASSUME NEW class, NEW type
  PROVE  Fits(<<>>, class, type) /\ IsEntry(<<>>)
BY EmptyIs DEF Fits, IsEntry

-----------------------------------------------------------------------------
(* A change of the class or of the type *)

LEMMA ShownIs ==
  ASSUME NEW entry
  PROVE  Class(entry) \in ClassNames /\ ShownType(entry) \in TypeNames(Class(entry))
<1>1. Class(entry) \in ClassNames
  BY DEF Class, ClassNames
<1>2. \A class \in ClassNames : \A raw : NormalizeTypeName(class, raw) \in TypeNames(class)
  BY SerialExtraIs DEF NormalizeTypeName, TypeNames, ClassNames
<1> QED
  BY <1>1, <1>2 DEF ShownType

LEMMA RebuiltEntry ==
  ASSUME NEW class \in ClassNames, NEW type \in TypeNames(class), NEW entry, IsEntry(entry)
  PROVE  IsEntry(Rebuilt(entry, class, type))
<1> DEFINE kept == Without(entry, DOMAIN entry \ AllowedKeys(class, type))
           next == ApplyDefaults(<<>>, class, type)
<1>1. IsEntry(kept) /\ IsEntry(next)
  BY WithoutEntry, ApplyEntry, EmptyFits
<1>2. Rebuilt(entry, class, type) = ApplyDefaults(Over(kept, next), class, type)
  BY DEF Rebuilt, RestoreCompatible
<1> HIDE DEF kept, next
<1> QED
  BY <1>1, <1>2, OverIsEntry, ApplyEntry

\* What restore_compatible keeps of a made entry fits the class and the type it
\* goes to: the type is the class's first one, or the class stays.
LEMMA KeptFits ==
  ASSUME NEW c0 \in ClassNames, NEW t0 \in TypeNames(c0),
         NEW class \in ClassNames, NEW type \in TypeNames(class),
         class = c0 \/ type = DefaultType(class),
         NEW entry, Fits(entry, c0, t0), c0 = "Sound" => PanTold(entry)
  PROVE  Fits(Over(Without(entry, DOMAIN entry \ AllowedKeys(class, type)),
                   ApplyDefaults(<<>>, class, type)), class, type)
<1> DEFINE allowed == AllowedKeys(class, type)
           kept == Without(entry, DOMAIN entry \ allowed)
           next == ApplyDefaults(<<>>, class, type)
           merged == Over(kept, next)
<1>1. /\ Fits(next, class, type)
      /\ class = "Sound" => PanTold(next) /\ Get(next, "channels", 2) = 2
  <2>1. Get(<<>>, "channels", 2) = 2
    BY EmptyIs DEF Get
  <2> QED
    BY <2>1, EmptyFits, ApplyMade
<1> HIDE DEF next, allowed
<1>2. /\ DOMAIN kept = DOMAIN entry \cap allowed
      /\ \A key \in DOMAIN kept : kept[key] = entry[key]
  BY DEF Without
<1>3. IsEntry(kept)
  BY WithoutEntry DEF Fits
<1> HIDE DEF kept
<1>4. /\ DOMAIN merged = DOMAIN kept \cup DOMAIN next
      /\ \A key \in DOMAIN kept : merged[key] = kept[key]
      /\ \A key \in DOMAIN next : key \notin DOMAIN kept => merged[key] = next[key]
  BY DEF Over
<1>5. IsEntry(merged)
  BY <1>1, <1>3, OverIsEntry DEF Fits
<1> HIDE DEF merged
<1>6. /\ "subtype" \in allowed => class = "USB" \/ (class = "Serial" /\ type = "Wheel")
      /\ "devid" \in allowed => class # "Serial"
      /\ class # "Sound" => {"channels", "channelMask", "pan"} \cap allowed = {}
      /\ class = "Sound" => {"channels", "channelMask", "pan"} \subseteq allowed
  BY AllowedAre DEF allowed
<1>7. "subtype" \in DOMAIN kept => kept["subtype"] \in SubtypeNames(class, type)
  <2> SUFFICES ASSUME "subtype" \in DOMAIN kept
               PROVE  kept["subtype"] \in SubtypeNames(class, type)
    OBVIOUS
  <2>1. entry["subtype"] \in SubtypeNames(c0, t0) /\ kept["subtype"] = entry["subtype"]
    BY <1>2 DEF Fits
  <2>2. SubtypeNames(c0, t0) \subseteq DOMAIN Hardware
    BY HardwareIs DEF SubtypeNames
  <2>3. CASE class = "USB"
    BY <2>1, <2>2, <2>3 DEF SubtypeNames
  <2>4. CASE class = "Serial" /\ type = "Wheel"
    <3>1. DefaultType(class) = "ShiftLights"
      BY <2>4 DEF DefaultType, TypesForClass
    <3>2. c0 = "Serial"
      BY <2>4, <3>1
    <3> QED
      BY <2>1, <2>4, <3>2 DEF SubtypeNames
  <2> QED
    BY <1>2, <1>6, <2>3, <2>4
<1>8. "subtype" \in DOMAIN merged => merged["subtype"] \in SubtypeNames(class, type)
  BY <1>1, <1>4, <1>7 DEF Fits
<1>9. /\ "effect" \in DOMAIN merged => merged["effect"] \in DOMAIN EffectNames
      /\ "modulation" \in DOMAIN merged => merged["modulation"] \in DOMAIN Modulations
  BY <1>1, <1>2, <1>4 DEF Fits
<1>10. class = "Serial" => "devid" \notin DOMAIN merged
  BY <1>1, <1>2, <1>4, <1>6 DEF Fits
<1>11. class # "Sound" => {"channels", "channelMask", "pan"} \cap DOMAIN merged = {}
  BY <1>1, <1>2, <1>4, <1>6 DEF Fits
<1>12. ASSUME class = "Sound" PROVE PanTold(merged)
  <2>1. CASE c0 = "Sound"
    <3>1. \A key \in {"channelMask", "pan"} :
             key \in DOMAIN entry /\ key \in DOMAIN merged /\ merged[key] = entry[key]
      BY <1>2, <1>4, <1>6, <1>12, <2>1 DEF PanTold
    <3>2. Get(merged, "channels", 2) = Get(entry, "channels", 2)
      BY <1>1, <1>2, <1>4, <1>6, <1>12 DEF Get
    <3>3. SoundResolveChannelMask(entry) = SoundResolveChannelMask(merged)
      BY <3>1, <3>2, ResolveSame
    <3> QED
      BY <2>1, <3>1, <3>3 DEF PanTold
  <2>2. CASE c0 # "Sound"
    <3>1. {"channels", "channelMask", "pan"} \cap DOMAIN kept = {}
      BY <1>2, <2>2 DEF Fits
    <3>2. Agree(next, merged, {"channels", "channelMask", "pan"})
      BY <1>4, <3>1 DEF Agree
    <3> QED
      BY <1>1, <1>12, <3>2, PanSame
  <2> QED
    BY <2>1, <2>2
<1>13. Fits(merged, class, type)
  BY <1>5, <1>8, <1>9, <1>10, <1>11, <1>12 DEF Fits
<1> QED
  BY <1>13 DEF merged, kept, next, allowed

LEMMA RebuiltMade ==
  ASSUME NEW entry, Made(entry), NEW class \in ClassNames, NEW type \in TypeNames(class),
         class = Class(entry) \/ type = DefaultType(class)
  PROVE  LET made == Rebuilt(entry, class, type)
         IN  /\ IsNamed(made, class, type)
             /\ Fits(made, class, type)
             /\ class = "Sound" => PanTold(made)
<1>1. PICK c0 \in ClassNames : \E t0 \in TypeNames(c0) :
         IsNamed(entry, c0, t0) /\ Fits(entry, c0, t0) /\ (c0 = "Sound" => PanTold(entry))
  BY DEF Made
<1>2. PICK t0 \in TypeNames(c0) :
         IsNamed(entry, c0, t0) /\ Fits(entry, c0, t0) /\ (c0 = "Sound" => PanTold(entry))
  BY <1>1
<1>3. Class(entry) = c0
  BY <1>2, NamedKind
<1> DEFINE merged == Over(Without(entry, DOMAIN entry \ AllowedKeys(class, type)),
                          ApplyDefaults(<<>>, class, type))
<1>4. Fits(merged, class, type)
  BY <1>2, <1>3, KeptFits
<1>5. Rebuilt(entry, class, type) = ApplyDefaults(merged, class, type)
  BY DEF Rebuilt, RestoreCompatible
<1> HIDE DEF merged
<1> QED
  BY <1>4, <1>5, ApplyMade

LEMMA ChangeClassMade ==
  ASSUME NEW entry, NEW class \in ClassNames
  PROVE  /\ IsEntry(entry) => IsEntry(ChangeClass(entry, class))
         /\ Made(entry) => /\ Made(ChangeClass(entry, class))
                            /\ Class(ChangeClass(entry, class)) = class
<1> DEFINE next == Rebuilt(entry, class, DefaultType(class))
           key == IF class = "Serial" THEN "devpath" ELSE "devid"
           told == Set(next, key, Identity(entry))
<1>1. DefaultType(class) \in TypeNames(class)
  BY TypesForClassIs
<1>2. ChangeClass(entry, class) = IF Identity(entry) = "" THEN next ELSE told
  BY DEF ChangeClass
<1>3. IsEntry(entry) => IsEntry(next)
  BY <1>1, RebuiltEntry
<1>4. Made(entry) => /\ IsNamed(next, class, DefaultType(class))
                     /\ Fits(next, class, DefaultType(class))
                     /\ class = "Sound" => PanTold(next)
  BY <1>1, RebuiltMade
<1> HIDE DEF next
<1>5. IsEntry(next) => IsEntry(told)
  BY SetEntry, QuantitiesAre
<1>6. Agree(next, told, Telling) /\ (class = "Serial" => DOMAIN told = DOMAIN next \cup {"devpath"})
  BY DEF Agree, Telling, Set, Over
<1> HIDE DEF told
<1>7. ASSUME Made(entry)
      PROVE  /\ IsNamed(told, class, DefaultType(class))
             /\ Fits(told, class, DefaultType(class))
             /\ class = "Sound" => PanTold(told)
  <2>1. IsEntry(told) /\ (class = "Serial" => "devid" \notin DOMAIN told)
    BY <1>4, <1>5, <1>6, <1>7 DEF Fits
  <2> QED
    BY <1>4, <1>6, <1>7, <2>1, FitsSame
<1>8. Made(entry) => Class(next) = class /\ Class(told) = class
  BY <1>1, <1>4, <1>7, NamedKind
<1> QED
  BY <1>1, <1>2, <1>3, <1>4, <1>5, <1>7, <1>8 DEF Made

LEMMA ChangeTypeMade ==
  ASSUME NEW entry, NEW type \in TypeNames(Class(entry))
  PROVE  /\ IsEntry(entry) => IsEntry(ChangeType(entry, type))
         /\ Made(entry) => Made(ChangeType(entry, type))
<1>1. Class(entry) \in ClassNames
  BY ShownIs
<1> QED
  BY <1>1, RebuiltEntry, RebuiltMade DEF ChangeType, Made

\* A new entry is made.
LEMMA NewMade == \A entry \in NewEntries : Made(entry)
<1>1. Made(Blank)
  <2>1. "Sound" \in ClassNames /\ "Haptic" \in TypeNames("Sound")
    BY DEF ClassNames, TypeNames
  <2> QED
    BY <2>1, EmptyFits, ApplyMade DEF Blank, Made
<1>2. ASSUME NEW entries, \A entry \in entries : Made(entry)
      PROVE  \A entry \in Picked(entries) : Made(entry)
  <2> SUFFICES ASSUME NEW entry \in entries, NEW class \in ToSet(Classes),
                      NEW type \in ToSet(TypesForClass(class))
               PROVE  Made(ChangeType(ChangeClass(entry, class), type))
    BY DEF Picked
  <2>1. class \in ClassNames
    BY DEF ToSet, Classes, ClassNames
  <2>2. /\ Made(ChangeClass(entry, class)) /\ Class(ChangeClass(entry, class)) = class
        /\ type \in TypeNames(class)
    BY <1>2, <2>1, ChangeClassMade, TypesForClassIs
  <2> QED
    BY <2>2, ChangeTypeMade
<1>3. \A entry \in {Blank} : Made(entry)
  BY <1>1
<1>4. \A entry \in Picked({Blank}) : Made(entry)
  BY <1>2, <1>3
<1>5. \A entry \in Picked(Picked({Blank})) : Made(entry)
  BY <1>2, <1>4
<1> QED
  BY <1>1, <1>4, <1>5 DEF NewEntries

-----------------------------------------------------------------------------
(* An edit of one field *)

\* An edit leaves an entry an entry, and a made one made.
Keeps(entry, next) == IsEntry(next) /\ (Made(entry) => Made(next))

Kinds == {"device", "type", "subtype", "effect", "modulation"}

LEMMA OtherKept ==
  ASSUME NEW entry, NEW other, IsEntry(other), Agree(entry, other, Telling),
         "devid" \in DOMAIN other => "devid" \in DOMAIN entry \/ Class(entry) # "Serial"
  PROVE  Keeps(entry, other)
<1> SUFFICES ASSUME Made(entry) PROVE Made(other)
  BY DEF Keeps
<1>1. PICK class \in ClassNames : \E type \in TypeNames(class) :
         IsNamed(entry, class, type) /\ Fits(entry, class, type)
            /\ (class = "Sound" => PanTold(entry))
  BY DEF Made
<1>2. PICK type \in TypeNames(class) :
         IsNamed(entry, class, type) /\ Fits(entry, class, type)
            /\ (class = "Sound" => PanTold(entry))
  BY <1>1
<1>3. class = "Serial" => "devid" \notin DOMAIN other
  BY <1>2, NamedKind DEF Fits
<1>4. /\ Fits(other, class, type) /\ IsNamed(other, class, type)
      /\ PanTold(entry) => PanTold(other)
  BY <1>2, <1>3, FitsSame
<1> QED
  BY <1>2, <1>4 DEF Made

LEMMA SetOther ==
  ASSUME NEW entry, IsEntry(entry), NEW key, key \notin Telling, NEW value,
         key \in Quantities => value \in Int, key = "devid" => Class(entry) # "Serial"
  PROVE  Keeps(entry, Set(entry, key, value))
<1> DEFINE next == Set(entry, key, value)
<1>1. Agree(entry, next, Telling) /\ DOMAIN next = DOMAIN entry \cup {key}
  BY DEF Agree, Set, Over
<1>2. IsEntry(next)
  BY SetEntry
<1> HIDE DEF next
<1>3. Keeps(entry, next)
  BY <1>1, <1>2, OtherKept
<1> QED
  BY <1>3 DEF next

LEMMA WithoutOther ==
  ASSUME NEW entry, IsEntry(entry), NEW keys, keys \cap Telling = {}
  PROVE  Keeps(entry, Without(entry, keys))
<1> DEFINE next == Without(entry, keys)
<1>1. Agree(entry, next, Telling) /\ DOMAIN next = DOMAIN entry \ keys
  BY DEF Agree, Without
<1>2. IsEntry(next)
  BY WithoutEntry
<1> HIDE DEF next
<1>3. Keeps(entry, next)
  BY <1>1, <1>2, OtherKept
<1> QED
  BY <1>3 DEF next

\* The hardware, the effect and the modulation are changed to ones that fit, or
\* cleared.
LEMMA PartKept ==
  ASSUME NEW entry, NEW next, IsEntry(next), NEW key \in {"subtype", "effect", "modulation"},
         Agree(entry, next, (Telling \cup {"devid"}) \ {key}),
         key \in DOMAIN next =>
            CASE key = "subtype" -> next[key] \in SubtypeNames(Class(entry), ShownType(entry))
              [] key = "effect" -> next[key] \in DOMAIN EffectNames
              [] key = "modulation" -> next[key] \in DOMAIN Modulations
  PROVE  Keeps(entry, next)
<1> SUFFICES ASSUME Made(entry) PROVE Made(next)
  BY DEF Keeps
<1>1. PICK class \in ClassNames : \E type \in TypeNames(class) :
         IsNamed(entry, class, type) /\ Fits(entry, class, type)
            /\ (class = "Sound" => PanTold(entry))
  BY DEF Made
<1>2. PICK type \in TypeNames(class) :
         IsNamed(entry, class, type) /\ Fits(entry, class, type)
            /\ (class = "Sound" => PanTold(entry))
  BY <1>1
<1>3. Class(entry) = class /\ ShownType(entry) = type
  BY <1>2, NamedKind
<1>4. \A other \in {"device", "type", "channels", "channelMask", "pan", "devid"} :
         /\ other \in DOMAIN entry <=> other \in DOMAIN next
         /\ other \in DOMAIN entry => entry[other] = next[other]
  BY DEF Agree, Telling
<1>5. IsNamed(next, class, type)
  BY <1>2, <1>4 DEF IsNamed
<1>6. Agree(entry, next, {"channels", "channelMask", "pan"})
  BY <1>4 DEF Agree
<1>7. PanTold(entry) => PanTold(next)
  BY <1>6, PanSame
<1>8. "subtype" \in DOMAIN next => next["subtype"] \in SubtypeNames(class, type)
  BY <1>2, <1>3 DEF Fits, Agree, Telling
<1>9. "effect" \in DOMAIN next => next["effect"] \in DOMAIN EffectNames
  BY <1>2 DEF Fits, Agree, Telling
<1>10. "modulation" \in DOMAIN next => next["modulation"] \in DOMAIN Modulations
  BY <1>2 DEF Fits, Agree, Telling
<1>11. class # "Sound" => {"channels", "channelMask", "pan"} \cap DOMAIN next = {}
  BY <1>2, <1>4 DEF Fits
<1>12. class = "Serial" => "devid" \notin DOMAIN next
  BY <1>2, <1>4 DEF Fits
<1>13. Fits(next, class, type)
  BY <1>2, <1>7, <1>8, <1>9, <1>10, <1>11, <1>12 DEF Fits
<1> QED
  BY <1>2, <1>5, <1>7, <1>13 DEF Made

\* Whatever was done to the speakers of a sound device, the mask is written last.
LEMMA WriteKept ==
  ASSUME NEW entry, Class(entry) = "Sound", NEW next, IsEntry(next), Agree(entry, next, Kinds),
         NEW mask
  PROVE  LET written == WriteSoundChannelMask(next, mask)
         IN  Keeps(entry, written) /\ Agree(entry, written, Kinds)
<1> DEFINE written == WriteSoundChannelMask(next, mask)
<1>1. /\ IsEntry(written)
      /\ PanTold(written)
      /\ DOMAIN written = DOMAIN next \cup {"channelMask", "pan"}
      /\ \A key \in DOMAIN next \ {"channelMask", "pan"} : written[key] = next[key]
  BY WriteIs
<1> HIDE DEF written
<1>2. Agree(entry, written, Kinds)
  BY <1>1 DEF Agree, Kinds
<1>3. ASSUME Made(entry) PROVE Made(written)
  <2>1. PICK class \in ClassNames : \E type \in TypeNames(class) :
           IsNamed(entry, class, type) /\ Fits(entry, class, type)
    BY <1>3 DEF Made
  <2>2. PICK type \in TypeNames(class) : IsNamed(entry, class, type) /\ Fits(entry, class, type)
    BY <2>1
  <2>3. class = "Sound"
    BY <2>2, NamedKind
  <2>4. IsNamed(written, class, type)
    BY <1>2, <2>2 DEF IsNamed, Agree, Kinds
  <2>5. Fits(written, class, type)
    BY <1>1, <1>2, <2>2, <2>3 DEF Fits, Agree, Kinds
  <2> QED
    BY <1>1, <2>4, <2>5 DEF Made
<1>4. Keeps(entry, written)
  BY <1>1, <1>3 DEF Keeps
<1> QED
  BY <1>2, <1>4 DEF written

LEMMA ClipKept ==
  ASSUME NEW entry, Class(entry) = "Sound", NEW next, IsEntry(next), Agree(entry, next, Kinds)
  PROVE  Keeps(entry, ClipSoundOutput(next)) /\ Agree(entry, ClipSoundOutput(next), Kinds)
BY WriteKept DEF ClipSoundOutput

\* A field shown is one the class and the type have.
LEMMA FieldsAre ==
  ASSUME NEW entry, NEW field \in Fields(entry)
  PROVE  /\ field \in {"channels", "channelMask"} => Class(entry) = "Sound"
         /\ field = "devid" => Class(entry) # "Serial"
         /\ field # "pan"
<1>1. Class(entry) \in ClassNames /\ ShownType(entry) \in TypeNames(Class(entry))
  BY ShownIs
<1>2. ASSUME NEW class \in ClassNames, NEW type \in TypeNames(class)
      PROVE  "pan" \notin VisibleFields(class, type)
  <2>1. "pan" \notin TypeFields(class, type)
    BY <1>2, SerialExtraIs DEF TypeFields, ClassNames, TypeNames
  <2> QED
    BY <2>1 DEF VisibleFields, Common, HapticBlock
<1> QED
  BY <1>1, <1>2, AllowedAre DEF Fields

LEMMA CycleIs ==
  ASSUME NEW S, NEW items \in Seq(S), Len(items) > 0, NEW current, NEW delta \in {-1, 1}
  PROVE  CycleSlice(items, current, delta) \in S
<1> DEFINE known == \E i \in DOMAIN items : items[i] = current
           index == IF known THEN CHOOSE i \in DOMAIN items : items[i] = current ELSE 1
<1>1. DOMAIN items = 1 .. Len(items) /\ Len(items) \in Nat
  OBVIOUS
<1>2. index \in 1 .. Len(items)
  BY <1>1
<1> HIDE DEF index
<1>3. (index - 1 + delta) % Len(items) \in 0 .. Len(items) - 1
  BY <1>1, <1>2
<1>4. ((index - 1 + delta) % Len(items)) + 1 \in 1 .. Len(items)
  BY <1>1, <1>3
<1>5. CycleSlice(items, current, delta) = items[((index - 1 + delta) % Len(items)) + 1]
  BY DEF CycleSlice, index
<1> QED
  BY <1>1, <1>4, <1>5

\* What a combo of the names may come to.
ComboEntries(entry, field, names) ==
    {ClearCurrent(entry, field)} \cup {Set(entry, field, name) : name \in names}

LEMMA NextComboIs ==
  ASSUME NEW entry, NEW field, NEW S, NEW choices \in Seq(S), NEW blank, NEW delta \in {-1, 1}
  PROVE  NextCombo(entry, field, choices, blank, delta) \in ComboEntries(entry, field, S)
<1> DEFINE items == <<blank>> \o choices
           next == CycleSlice(items, Get(entry, field, blank), delta)
<1>1. items \in Seq(S \cup {blank}) /\ Len(items) > 0
  OBVIOUS
<1> HIDE DEF items
<1>2. next \in S \cup {blank}
  BY <1>1, CycleIs
<1>3. NextCombo(entry, field, choices, blank, delta)
         = IF next = blank THEN ClearCurrent(entry, field) ELSE Set(entry, field, next)
  BY DEF NextCombo, items
<1> HIDE DEF next
<1> QED
  BY <1>2, <1>3 DEF ComboEntries

LEMMA SameKept ==
  ASSUME NEW entry, IsEntry(entry)
  PROVE  Keeps(entry, entry)
BY DEF Keeps

LEMMA ClearKept ==
  ASSUME NEW entry, IsEntry(entry), NEW field \in Fields(entry)
  PROVE  Keeps(entry, ClearCurrent(entry, field))
<1>1. CASE field = "streamVolume"
  <2>1. ClearCurrent(entry, field) = Without(entry, {"streamVolume", "volume"})
    BY <1>1 DEF ClearCurrent, ClearField
  <2>2. {"streamVolume", "volume"} \cap Telling = {}
    BY DEF Telling
  <2> QED
    BY <2>1, <2>2, WithoutOther
<1>2. CASE field = "channelMask"
  <2>1. Class(entry) = "Sound" /\ Agree(entry, entry, Kinds)
    BY <1>2, FieldsAre DEF Agree
  <2>2. ClearCurrent(entry, field) =
           WriteSoundChannelMask(entry, ChannelMaskAll(SoundChannelCount(entry)))
    BY <1>2 DEF ClearCurrent, ClearField
  <2> QED
    BY <2>1, <2>2, WriteKept
<1>3. CASE field = "channels"
  <2> DEFINE next == Without(entry, {"channels"})
  <2>1. Class(entry) = "Sound"
    BY <1>3, FieldsAre
  <2>2. IsEntry(next) /\ Agree(entry, next, Kinds)
    BY WithoutEntry DEF Without, Agree, Kinds
  <2>3. ClearCurrent(entry, field) = ClipSoundOutput(next)
    BY <1>3 DEF ClearCurrent, ClearField, IsOptional
  <2> HIDE DEF next
  <2> QED
    BY <2>1, <2>2, <2>3, ClipKept
<1>4. CASE field \in {"subtype", "effect", "modulation"}
  <2> DEFINE next == Without(entry, {field})
  <2>1. IsEntry(next)
    BY WithoutEntry
  <2>2. Agree(entry, next, (Telling \cup {"devid"}) \ {field}) /\ field \notin DOMAIN next
    BY DEF Without, Agree
  <2>3. ClearCurrent(entry, field) = next
    BY <1>4 DEF ClearCurrent, ClearField, IsOptional
  <2> HIDE DEF next
  <2> QED
    BY <1>4, <2>1, <2>2, <2>3, PartKept
<1>5. CASE field \in {"device", "type", "enabled"}
  <2>1. ClearCurrent(entry, field) = entry
    BY <1>5 DEF ClearCurrent, ClearField, IsOptional
  <2> QED
    BY <2>1, SameKept
<1>6. CASE field \notin {"streamVolume", "channelMask", "channels", "subtype", "effect",
                         "modulation", "device", "type", "enabled"}
  <2>1. ClearCurrent(entry, field) = Without(entry, {field})
    BY <1>6 DEF ClearCurrent, ClearField, IsOptional
  <2>2. {field} \cap Telling = {}
    BY <1>6, FieldsAre DEF Telling
  <2> QED
    BY <2>1, <2>2, WithoutOther
<1> QED
  BY <1>1, <1>2, <1>3, <1>4, <1>5, <1>6

LEMMA VolumeKept ==
  ASSUME NEW entry, IsEntry(entry), NEW volume \in Int
  PROVE  Keeps(entry, WithVolume(entry, volume))
<1> DEFINE level == Within(volume, 0, 100)
           once == Set(entry, "streamVolume", level)
<1>1. level \in Int
  BY DEF Within
<1>2. {"streamVolume", "volume"} \cap Telling = {}
  BY DEF Telling
<1> HIDE DEF level
<1>3. Keeps(entry, once)
  BY <1>1, <1>2, SetOther
<1>4. WithVolume(entry, volume) = Set(once, "volume", level)
  BY DEF WithVolume, once, level
<1> HIDE DEF once
<1>5. Keeps(once, Set(once, "volume", level))
  BY <1>1, <1>2, <1>3, SetOther DEF Keeps
<1> QED
  BY <1>3, <1>4, <1>5 DEF Keeps

LEMMA NudgedKept ==
  ASSUME NEW entry, IsEntry(entry), NEW delta \in {-1, 1}, NEW large \in BOOLEAN,
         NEW field \in Numeric \cup Fractions \cup {"streamVolume", "granularity"}
  PROVE  Keeps(entry, Nudged(entry, field, delta, large))
<1> DEFINE step == IF large THEN 5 ELSE 1
           fraction == IF large THEN 200 ELSE 50
<1>1. step * delta \in Int /\ fraction * delta \in Int
  OBVIOUS
<1>2. field \in Quantities /\ field \notin Telling /\ field # "devid"
  BY DEF Quantities, Numeric, Fractions, Telling
<1>3. Get(entry, field, 0) \in Int
  BY <1>2, GetIs
<1>4. /\ Positive(Get(entry, field, 0) + fraction * delta) \in Int
      /\ Positive(Get(entry, field, 0) + step * delta) \in Int
  BY <1>1, <1>3 DEF Positive
<1>5. Get(entry, "streamVolume", Get(entry, "volume", 70)) + step * delta \in Int
  <2>1. Get(entry, "volume", 70) \in Int
    BY QuantitiesAre, GetIs
  <2>2. Get(entry, "streamVolume", Get(entry, "volume", 70)) \in Int
    BY <2>1, QuantitiesAre, GetIs
  <2> QED
    BY <1>1, <2>2
<1>6. CASE field \in Fractions
  <2>1. Nudged(entry, field, delta, large)
           = Set(entry, field, Positive(Get(entry, field, 0) + fraction * delta))
    BY <1>6 DEF Nudged, Fractions
  <2> HIDE DEF step, fraction
  <2> QED
    BY <1>2, <1>4, <2>1, SetOther
<1>7. CASE field = "streamVolume"
  <2>1. Nudged(entry, field, delta, large)
           = WithVolume(entry, Get(entry, "streamVolume", Get(entry, "volume", 70))
                                  + step * delta)
    BY <1>7 DEF Nudged, Fractions
  <2> HIDE DEF step, fraction
  <2> QED
    BY <1>5, <2>1, VolumeKept
<1>8. CASE field \notin Fractions /\ field # "streamVolume"
  <2>1. Nudged(entry, field, delta, large)
           = Set(entry, field, Positive(Get(entry, field, 0) + step * delta))
    BY <1>8 DEF Nudged
  <2> HIDE DEF step, fraction
  <2> QED
    BY <1>2, <1>4, <2>1, SetOther
<1> QED
  BY <1>6, <1>7, <1>8

\* The names a field may be set to are the host's.
LEMMA ChoicesAre ==
  ASSUME NEW class \in ClassNames, NEW type \in TypeNames(class)
  PROVE  /\ ComboChoices("subtype", class, type) \in Seq(SubtypeNames(class, type))
         /\ ComboChoices("effect", class, type) \in Seq(DOMAIN EffectNames)
         /\ ComboChoices("modulation", class, type) \in Seq(DOMAIN Modulations)
         /\ ComboChoices("tyre", class, type) \in Seq(DOMAIN TyreNames)
         /\ \A field : field \notin {"subtype", "effect", "modulation", "tyre"} =>
                          ComboChoices(field, class, type) = <<>>
<1>1. ComboChoices("effect", class, type) \in Seq(DOMAIN EffectNames)
  <2>1. {"Engine", "Gear", "ABS", "TyreSlip", "TyreLock", "Suspension"}
           \subseteq DOMAIN EffectNames
    BY EffectsAre
  <2> QED
    BY <2>1 DEF ComboChoices
<1>2. ComboChoices("modulation", class, type) \in Seq(DOMAIN Modulations)
  BY ModulationsAre DEF ComboChoices
<1>3. ComboChoices("tyre", class, type) \in Seq(DOMAIN TyreNames)
  <2>1. {"FrontLeft", "FrontRight", "RearLeft", "RearRight", "Fronts", "Rears", "All"}
           \subseteq DOMAIN TyreNames
    BY DEF TyreNames, Over, Plainly
  <2> QED
    BY <2>1 DEF ComboChoices
<1>4. ComboChoices("subtype", class, type) \in Seq(SubtypeNames(class, type))
  <2>1. ComboChoices("subtype", class, type) = SubtypesFor(class, type)
    BY DEF ComboChoices
  <2>2. CASE class = "USB"
    <3>1. SubtypeNames(class, type) = DOMAIN Hardware
      BY <2>2 DEF SubtypeNames
    <3> DEFINE names == <<"CammusC5", "CammusC12", "MozaR5", "MozaR8", "MozaR3", "MozaR9",
                          "MozaNew", "CSLELITEV3PEDALS", "SIMAGICP1000PEDALS", "SIMAGICGTNEO",
                          "LogitechG29", "MozaKSProWheel", "SIMNETPEDALS">>
    <3>2. SubtypesFor(class, type) = IF type = "Tachometer" THEN <<"Revburner">> ELSE names
      BY <2>2 DEF SubtypesFor
    <3>3. names \in Seq(DOMAIN Hardware) /\ <<"Revburner">> \in Seq(DOMAIN Hardware)
      BY HardwareIs
    <3> HIDE DEF names
    <3>4. SubtypesFor(class, type) \in Seq(DOMAIN Hardware)
      BY <3>2, <3>3
    <3> QED
      BY <2>1, <3>1, <3>4
  <2>3. CASE class = "Serial" /\ type = "Wheel"
    <3> DEFINE names == {"MozaR9", "MozaNew", "MozaR5", "MozaKSProWheel"}
    <3>1. SubtypesFor(class, type) = <<"MozaR9", "MozaNew", "MozaR5", "MozaKSProWheel">>
      BY <2>3 DEF SubtypesFor
    <3>2. SubtypeNames(class, type) = names
      BY <2>3 DEF SubtypeNames
    <3>3. <<"MozaR9", "MozaNew", "MozaR5", "MozaKSProWheel">> \in Seq(names)
      OBVIOUS
    <3> QED
      BY <2>1, <3>1, <3>2, <3>3
  <2>4. CASE class # "USB" /\ ~(class = "Serial" /\ type = "Wheel")
    <3>1. SubtypesFor(class, type) = <<>>
      BY <2>4 DEF SubtypesFor
    <3>2. \A S : <<>> \in Seq(S)
      OBVIOUS
    <3> QED
      BY <2>1, <3>1, <3>2
  <2> QED
    BY <2>2, <2>3, <2>4
<1>5. \A field : field \notin {"subtype", "effect", "modulation", "tyre"} =>
                    ComboChoices(field, class, type) = <<>>
  BY DEF ComboChoices
<1> QED
  BY <1>1, <1>2, <1>3, <1>4, <1>5

\* A combo of a field that is told by nothing else.
LEMMA PlainCombo ==
  ASSUME NEW entry, IsEntry(entry), NEW field \in Fields(entry), field \notin Telling,
         field # "devid", NEW S, NEW choices \in Seq(S), field \in Quantities => S \subseteq Int,
         NEW blank, NEW delta \in {-1, 1}
  PROVE  Keeps(entry, NextCombo(entry, field, choices, blank, delta))
<1>1. Keeps(entry, ClearCurrent(entry, field))
  BY ClearKept
<1>2. \A value \in S : Keeps(entry, Set(entry, field, value))
  BY SetOther
<1>3. \A next \in ComboEntries(entry, field, S) : Keeps(entry, next)
  BY <1>1, <1>2 DEF ComboEntries
<1> QED
  BY <1>3, NextComboIs

LEMMA GranularityKept ==
  ASSUME NEW entry, IsEntry(entry), "granularity" \in Fields(entry), NEW delta \in {-1, 1}
  PROVE  Keeps(entry, CycleGranularity(entry, delta))
<1>1. <<1, 2, 4>> \in Seq(Int) /\ "granularity" \notin Telling
  BY DEF Telling
<1> QED
  BY <1>1, PlainCombo DEF CycleGranularity

LEMMA MotorsKept ==
  ASSUME NEW entry, IsEntry(entry), "motors" \in Fields(entry), NEW delta \in {-1, 1}
  PROVE  Keeps(entry, CycleMotors(entry, delta))
<1> DEFINE index == IF Get(entry, "motors", 0) \in 0 .. 14 THEN Get(entry, "motors", -1) ELSE 0
           at == IF index = -1 THEN entry ELSE Set(entry, "motors", index)
           positions == [i \in 1 .. 15 |-> i - 1]
<1>1. "motors" \notin Telling /\ "motors" \in Quantities
  BY QuantitiesAre DEF Telling
<1>2. index \in Int
  BY <1>1, GetIs
<1>3. positions \in Seq(Int)
  OBVIOUS
<1>4. CycleMotors(entry, delta) = NextCombo(at, "motors", positions, -1, delta)
  BY DEF CycleMotors
<1> HIDE DEF index, positions
<1>5. Keeps(entry, at)
  BY <1>1, <1>2, SameKept, SetOther
<1>6. IsEntry(at)
  BY <1>5 DEF Keeps
<1> HIDE DEF at
<1>7. ClearCurrent(at, "motors") = Without(at, {"motors"})
  BY DEF ClearCurrent, ClearField, IsOptional
<1>8. Keeps(at, Without(at, {"motors"})) /\ \A value \in Int : Keeps(at, Set(at, "motors", value))
  BY <1>1, <1>6, WithoutOther, SetOther
<1>9. \A next \in ComboEntries(at, "motors", Int) : Keeps(at, next)
  BY <1>7, <1>8 DEF ComboEntries
<1>10. NextCombo(at, "motors", positions, -1, delta) \in ComboEntries(at, "motors", Int)
  BY <1>3, NextComboIs
<1> QED
  BY <1>4, <1>5, <1>9, <1>10 DEF Keeps

LEMMA ChannelsKept ==
  ASSUME NEW entry, IsEntry(entry), Class(entry) = "Sound", NEW delta \in {-1, 1}
  PROVE  Keeps(entry, CycleChannels(entry, delta))
<1> DEFINE next == NextCombo(entry, "channels", <<1, 2, 4, 6, 8>>, 0, delta)
<1>1. <<1, 2, 4, 6, 8>> \in Seq(Int)
  OBVIOUS
<1>2. /\ IsEntry(ClearCurrent(entry, "channels"))
      /\ Agree(entry, ClearCurrent(entry, "channels"), Kinds)
  <2> DEFINE cleared == Without(entry, {"channels"})
  <2>1. IsEntry(cleared) /\ Agree(entry, cleared, Kinds)
    BY WithoutEntry DEF Without, Agree, Kinds
  <2>2. ClearCurrent(entry, "channels") = ClipSoundOutput(cleared)
    BY DEF ClearCurrent, ClearField, IsOptional
  <2> HIDE DEF cleared
  <2> QED
    BY <2>1, <2>2, ClipKept DEF Keeps
<1>3. ASSUME NEW value \in Int
      PROVE  /\ IsEntry(Set(entry, "channels", value))
             /\ Agree(entry, Set(entry, "channels", value), Kinds)
  <2>1. Agree(entry, Set(entry, "channels", value), Kinds)
    BY DEF Set, Over, Agree, Kinds
  <2> QED
    BY <2>1, SetEntry
<1>4. next \in ComboEntries(entry, "channels", Int)
  BY <1>1, NextComboIs
<1>5. IsEntry(next) /\ Agree(entry, next, Kinds)
  BY <1>2, <1>3, <1>4 DEF ComboEntries
<1>6. CycleChannels(entry, delta) = ClipSoundOutput(next)
  BY DEF CycleChannels
<1> HIDE DEF next
<1> QED
  BY <1>5, <1>6, ClipKept

\* A combo of names: the next name is one the host has, or none.
LEMMA NamesKept ==
  ASSUME NEW entry, IsEntry(entry), NEW delta \in {-1, 1},
         NEW field \in Fields(entry) \cap {"subtype", "effect", "modulation", "tyre"}
  PROVE  Keeps(entry, NextCombo(entry, field,
                          ComboChoices(field, Class(entry), ShownType(entry)), "", delta))
<1> DEFINE class == Class(entry)
           type == ShownType(entry)
           choices == ComboChoices(field, class, type)
<1>1. class \in ClassNames /\ type \in TypeNames(class)
  BY ShownIs
<1>2. CASE field = "tyre"
  <2>1. choices \in Seq(DOMAIN TyreNames)
    BY <1>1, <1>2, ChoicesAre
  <2>2. "tyre" \notin Telling /\ "tyre" \notin Quantities
    BY QuantitiesAre DEF Telling
  <2> QED
    BY <1>2, <2>1, <2>2, PlainCombo
<1>3. CASE field \in {"subtype", "effect", "modulation"}
  <2> DEFINE names == CASE field = "subtype" -> SubtypeNames(class, type)
                        [] field = "effect" -> DOMAIN EffectNames
                        [] field = "modulation" -> DOMAIN Modulations
  <2>1. choices \in Seq(names)
    BY <1>1, <1>3, ChoicesAre
  <2>2. ASSUME NEW value \in names PROVE Keeps(entry, Set(entry, field, value))
    <3> DEFINE next == Set(entry, field, value)
    <3>1. IsEntry(next)
      BY <1>3, SetEntry, QuantitiesAre
    <3>2. Agree(entry, next, (Telling \cup {"devid"}) \ {field}) /\ next[field] = value
      BY DEF Set, Over, Agree
    <3> HIDE DEF next
    <3>3. (CASE field = "subtype" -> next[field] \in SubtypeNames(class, type)
             [] field = "effect" -> next[field] \in DOMAIN EffectNames
             [] field = "modulation" -> next[field] \in DOMAIN Modulations)
      BY <1>3, <2>2, <3>2
    <3>4. Keeps(entry, next)
      BY <1>3, <3>1, <3>2, <3>3, PartKept
    <3> QED
      BY <3>4 DEF next
  <2>3. Keeps(entry, ClearCurrent(entry, field))
    BY ClearKept
  <2> HIDE DEF names, choices
  <2> DEFINE next == NextCombo(entry, field, choices, "", delta)
  <2>4. next \in ComboEntries(entry, field, names)
    BY <2>1, NextComboIs
  <2>5. Keeps(entry, next)
    BY <2>2, <2>3, <2>4 DEF ComboEntries
  <2> QED
    BY <2>5 DEF choices
<1> QED
  BY <1>2, <1>3

LEMMA CycledKept ==
  ASSUME NEW entry, IsEntry(entry), NEW field \in Fields(entry), field # "channelMask",
         NEW delta \in {-1, 1}, NEW next \in Cycled(entry, field, delta)
  PROVE  Keeps(entry, next)
<1> DEFINE class == Class(entry)
           type == ShownType(entry)
           choices == ComboChoices(field, class, type)
<1>1. class \in ClassNames /\ type \in TypeNames(class)
  BY ShownIs
<1> USE DEF Numeric, Fractions
<1>2. CASE field = "enabled"
  <2>1. choices = <<>>
    BY <1>1, <1>2, ChoicesAre
  <2>2. next = Set(entry, field, ~Get(entry, field, TRUE))
    BY <1>2, <2>1 DEF Cycled
  <2> QED
    BY <1>2, <2>2, QuantitiesAre, SetOther DEF Telling
<1>3. CASE field = "granularity"
  <2>1. choices = <<>>
    BY <1>1, <1>3, ChoicesAre
  <2>2. next = CycleGranularity(entry, delta)
    BY <1>3, <2>1 DEF Cycled
  <2> QED
    BY <1>3, <2>2, GranularityKept
<1>4. CASE field = "channels"
  <2>1. choices = <<>>
    BY <1>1, <1>4, ChoicesAre
  <2>2. next = CycleChannels(entry, delta)
    BY <1>4, <2>1 DEF Cycled
  <2> QED
    BY <1>4, <2>2, ChannelsKept, FieldsAre
<1>5. CASE field = "motors"
  <2>1. choices = <<>>
    BY <1>1, <1>5, ChoicesAre
  <2>2. next = CycleMotors(entry, delta)
    BY <1>5, <2>1 DEF Cycled
  <2> QED
    BY <1>5, <2>2, MotorsKept
<1>6. CASE field \in {"devid", "devpath"}
  <2>1. choices = <<>>
    BY <1>1, <1>6, ChoicesAre
  <2>2. next \in CycleIdentity(entry, field)
    BY <1>6, <2>1 DEF Cycled
  <2>3. field \notin Telling /\ field \notin Quantities
    BY <1>6, QuantitiesAre DEF Telling
  <2>4. CASE next = Without(entry, {field})
    BY <2>3, <2>4, WithoutOther
  <2>5. CASE \E value : next = Set(entry, field, value)
    BY <2>3, <2>5, FieldsAre, SetOther
  <2> QED
    BY <2>2, <2>4, <2>5 DEF CycleIdentity
<1>7. CASE field \in Numeric \cup Fractions \cup {"streamVolume"}
  <2>1. choices = <<>>
    BY <1>1, <1>7, ChoicesAre
  <2>2. next = Nudged(entry, field, delta, FALSE)
    BY <1>7, <2>1 DEF Cycled
  <2> QED
    BY <1>7, <2>2, NudgedKept
<1>8. CASE field = "device"
  <2>1. choices = <<>>
    BY <1>1, <1>8, ChoicesAre
  <2>2. next = ChangeClass(entry, CycleSlice(Classes, class, delta))
    BY <1>8, <2>1 DEF Cycled
  <2>3. Classes \in Seq(ClassNames) /\ Len(Classes) > 0
    BY DEF Classes, ClassNames
  <2>4. CycleSlice(Classes, class, delta) \in ClassNames
    BY <2>3, CycleIs
  <2> QED
    BY <2>2, <2>4, ChangeClassMade DEF Keeps
<1>9. CASE field = "type"
  <2>1. choices = <<>>
    BY <1>1, <1>9, ChoicesAre
  <2>2. next = ChangeType(entry, CycleSlice(TypesForClass(class), type, delta))
    BY <1>9, <2>1 DEF Cycled
  <2>3. CycleSlice(TypesForClass(class), type, delta) \in TypeNames(class)
    BY <1>1, TypesForClassIs, CycleIs
  <2> QED
    BY <2>2, <2>3, ChangeTypeMade DEF Keeps
<1>10. CASE field \in {"subtype", "effect", "modulation", "tyre"}
  <2>1. next = NextCombo(entry, field, choices, "", delta) \/ next = entry
    BY <1>10 DEF Cycled
  <2> QED
    BY <1>10, <2>1, NamesKept, SameKept
<1>11. CASE /\ field \notin {"enabled", "granularity", "channels", "motors", "devid", "devpath",
                             "device", "type", "subtype", "effect", "modulation", "tyre"}
            /\ field \notin Numeric \cup Fractions \cup {"streamVolume"}
  <2>1. choices = <<>>
    BY <1>1, <1>11, ChoicesAre
  <2>2. next = entry
    BY <1>11, <2>1 DEF Cycled
  <2> QED
    BY <2>2, SameKept
<1> QED
  BY <1>2, <1>3, <1>4, <1>5, <1>6, <1>7, <1>8, <1>9, <1>10, <1>11

-----------------------------------------------------------------------------
(* The inductive invariant *)

\* The values of an entry are of their kinds, and an entry the form made is one
\* of the class and the type it names, with settings that fit them.
FormInv == IsEntry(device) /\ (isNew => Made(device))

LEMMA FormInvInit == FormInit => FormInv
<1> SUFFICES ASSUME FormInit PROVE FormInv
  OBVIOUS
<1>1. CASE isNew
  <2>1. Made(device)
    BY <1>1, NewMade DEF FormInit
  <2>2. IsEntry(device)
    BY <2>1 DEF Made, Fits
  <2> QED
    BY <2>1, <2>2 DEF FormInv
<1>2. CASE ~isNew
  BY <1>2, DeviceFormAssumption DEF FormInit, FormInv
<1> QED
  BY <1>1, <1>2

LEMMA FormInvNext == FormInv /\ [FormNext]_formVars => FormInv'
<1> SUFFICES ASSUME FormInv, [FormNext]_formVars PROVE FormInv'
  OBVIOUS
<1>1. IsEntry(device)
  BY DEF FormInv
<1>2. ASSUME NEW entry, Keeps(device, entry), NEW at, Becomes(entry, at)
      PROVE  FormInv'
  BY <1>2 DEF FormInv, Becomes, Keeps
<1>3. ASSUME NEW field \in EditedFields, NEW delta \in {-1, 1}, CycleCurrent(field, delta)
      PROVE  FormInv'
  <2>1. field \in Fields(device) /\ field # "channelMask"
    BY <1>3 DEF CycleCurrent, Edits
  <2>2. PICK entry \in Cycled(device, field, delta) :
           Becomes(entry, IF field \in {"device", "type"} THEN 0
                          ELSE ClampOutputSlot(slot, entry))
    BY <1>3 DEF CycleCurrent
  <2>3. Keeps(device, entry)
    BY <1>1, <2>1, CycledKept
  <2> QED
    BY <1>2, <2>2, <2>3
<1>4. ASSUME NEW field \in EditedFields, NEW delta \in {-1, 1}, NudgeLarge(field, delta)
      PROVE  FormInv'
  <2>1. Keeps(device, Nudged(device, field, delta, TRUE))
    BY <1>1, <1>4, NudgedKept DEF NudgeLarge
  <2> QED
    BY <1>2, <1>4, <2>1 DEF NudgeLarge
<1>5. ASSUME NEW field \in EditedFields, Clear(field)
      PROVE  FormInv'
  <2>1. Keeps(device, ClearCurrent(device, field))
    BY <1>1, <1>5, ClearKept DEF Clear, Edits
  <2> QED
    BY <1>2, <1>5, <2>1 DEF Clear
<1>6. ASSUME NEW field \in EditedFields, CommitEdit(field)
      PROVE  FormInv'
  <2>1. field \in Fields(device) /\ field \in DOMAIN Typed
    BY <1>6 DEF CommitEdit, Edits
  <2>2. PICK value \in Typed[field] : Becomes(ApplyTyped(device, field, value), slot)
    BY <1>6 DEF CommitEdit
  <2>3. field \notin Combos /\ (field \in Quantities => value \in Int)
    BY <2>1, <2>2, DeviceFormAssumption
  <2>4. field \notin Telling
    BY <2>1, <2>3, FieldsAre DEF Telling, Combos
  <2>5. Keeps(device, ApplyTyped(device, field, value))
    BY <1>1, <2>1, <2>3, <2>4, QuantitiesAre, FieldsAre, VolumeKept, SetOther DEF ApplyTyped
  <2> QED
    BY <1>2, <2>2, <2>5
<1>7. ASSUME NEW delta, MoveOutputSlot(delta)
      PROVE  FormInv'
  <2>1. Keeps(device, device)
    BY <1>1, SameKept
  <2> QED
    BY <1>2, <1>7, <2>1 DEF MoveOutputSlot
<1>8. ASSUME ToggleOutput PROVE FormInv'
  <2> DEFINE at == ClampOutputSlot(slot, device)
  <2>1. Class(device) = "Sound" /\ Agree(device, device, Kinds)
    BY <1>8, FieldsAre DEF ToggleOutput, Edits, Agree
  <2>2. Keeps(device, ToggleSoundChannel(device, at))
    BY <1>1, <2>1, SameKept, WriteKept DEF ToggleSoundChannel
  <2>3. Becomes(ToggleSoundChannel(device, at), at)
    BY <1>8 DEF ToggleOutput
  <2> HIDE DEF at
  <2> QED
    BY <1>2, <2>2, <2>3
<1>9. CASE UNCHANGED formVars
  BY <1>9 DEF FormInv, formVars
<1> QED
  BY <1>3, <1>4, <1>5, <1>6, <1>7, <1>8, <1>9 DEF FormNext

-----------------------------------------------------------------------------
(* What the host makes of a made entry *)

LEMMA KindIs ==
  ASSUME NEW class \in ClassNames, NEW type \in TypeNames(class), NEW entry,
         IsNamed(entry, class, type)
  PROVE  /\ EntryKind(entry) = class /\ ClassOf(entry) = class
         /\ class = "USB" => UsbType(entry) = type
         /\ class = "Serial" => SerialType(entry) = type
<1>1. \A name \in ClassNames : Lookup(DeviceClasses, name) = name
  BY DEF Lookup, Get, DeviceClasses, Plainly, ClassNames
<1>2. EntryKind(entry) = class /\ ClassOf(entry) = class
  BY <1>1 DEF IsNamed, EntryKind, ClassOf, Get
<1>3. class # "Sound" => Get(entry, "type", "") = type
  BY DEF IsNamed, Get
<1>4. \A name \in TypeNames("USB") : Lookup(UsbTypes, name) = name
  BY DEF Lookup, Get, UsbTypes, Plainly, Over, TypeNames
<1>5. \A name \in TypeNames("Serial") : Lookup(SerialTypes, name) = name
  BY DEF Lookup, Get, SerialTypes, Plainly, Over, TypeNames
<1> QED
  BY <1>2, <1>3, <1>4, <1>5 DEF UsbType, SerialType

LEMMA MadeIs ==
  ASSUME NEW entry, Made(entry)
  PROVE  LET class == Class(entry)
             type == ShownType(entry)
         IN  /\ class \in ClassNames /\ type \in TypeNames(class)
             /\ IsNamed(entry, class, type) /\ Fits(entry, class, type)
             /\ class = "Sound" => PanTold(entry)
             /\ EntryKind(entry) = class /\ ClassOf(entry) = class
             /\ class = "USB" => UsbType(entry) = type
             /\ class = "Serial" => SerialType(entry) = type
<1>1. PICK class \in ClassNames : \E type \in TypeNames(class) :
         IsNamed(entry, class, type) /\ Fits(entry, class, type)
            /\ (class = "Sound" => PanTold(entry))
  BY DEF Made
<1>2. PICK type \in TypeNames(class) :
         IsNamed(entry, class, type) /\ Fits(entry, class, type)
            /\ (class = "Sound" => PanTold(entry))
  BY <1>1
<1>3. Class(entry) = class /\ ShownType(entry) = type
  BY <1>2, NamedKind
<1> QED
  BY <1>2, <1>3, KindIs

\* The hardware and the effect, where an entry has them.
LEMMA NamesAre ==
  ASSUME NEW entry, Made(entry)
  PROVE  /\ IF "effect" \in DOMAIN entry THEN DeviceEffect(entry) # Unset
            ELSE DeviceEffect(entry) = Unset
         /\ "subtype" \in DOMAIN entry => HardwareOf(entry) # Unset
         /\ Class(entry) = "Serial" /\ ShownType(entry) = "Wheel" =>
               IF "subtype" \in DOMAIN entry
               THEN HardwareOf(entry) \in {"MozaNew", "MozaR5", "MozaKs"}
               ELSE HardwareOf(entry) = Unset
<1> DEFINE class == Class(entry)
           type == ShownType(entry)
<1>1. Fits(entry, class, type) /\ class \in ClassNames
  BY MadeIs
<1>2. ASSUME "effect" \in DOMAIN entry PROVE DeviceEffect(entry) # Unset
  <2>1. entry["effect"] \in DOMAIN EffectNames
    BY <1>1, <1>2 DEF Fits
  <2>2. DeviceEffect(entry) = EffectNames[entry["effect"]]
    BY <1>2, <2>1 DEF DeviceEffect, Lookup, Get
  <2>3. \A name \in DOMAIN EffectNames : EffectNames[name] # Unset
    BY EffectsAre
  <2> QED
    BY <2>1, <2>2, <2>3
<1>3. "effect" \notin DOMAIN entry => DeviceEffect(entry) = Unset
  BY DEF DeviceEffect, Lookup, Get, EffectNames
<1>4. "subtype" \notin DOMAIN entry => HardwareOf(entry) = Unset
  BY HardwareIs DEF HardwareOf, Lookup, Get
<1>5. ASSUME "subtype" \in DOMAIN entry
      PROVE  /\ HardwareOf(entry) # Unset
             /\ class = "Serial" /\ type = "Wheel" =>
                   HardwareOf(entry) \in {"MozaNew", "MozaR5", "MozaKs"}
  <2>1. entry["subtype"] \in SubtypeNames(class, type)
    BY <1>1, <1>5 DEF Fits
  <2>2. entry["subtype"] \in DOMAIN Hardware
    BY <2>1, HardwareIs DEF SubtypeNames
  <2>3. HardwareOf(entry) = Hardware[entry["subtype"]]
    BY <1>5, <2>2 DEF HardwareOf, Lookup, Get
  <2>4. HardwareOf(entry) # Unset
    BY <2>2, <2>3, HardwareIs DEF Unset, OpenedUsbHardware
  <2>5. class = "Serial" /\ type = "Wheel" =>
           HardwareOf(entry) \in {"MozaNew", "MozaR5", "MozaKs"}
    BY <2>1, <2>3, HardwareIs DEF SubtypeNames
  <2> QED
    BY <2>4, <2>5
<1> QED
  BY <1>2, <1>3, <1>4, <1>5

\* The host opens a made entry as a device of its class and type.
LEMMA MadeKind ==
  FormInv => KindAsShown
<1> SUFFICES ASSUME FormInv, isNew, Validate(device), ~NeverOpened
             PROVE  \/ ConsiderEntry(device) \in OpensAs(Class(device), ShownType(device))
                    \/ LacksPart /\ ConsiderEntry(device) = "Closed"
  BY DEF KindAsShown
<1> DEFINE class == Class(device)
           type == ShownType(device)
           opened == ConsiderEntry(device)
<1>1. /\ class \in ClassNames /\ type \in TypeNames(class)
      /\ EntryKind(device) = class
      /\ class = "USB" => UsbType(device) = type
      /\ class = "Serial" => SerialType(device) = type
  BY MadeIs DEF FormInv
<1>2. /\ IF "effect" \in DOMAIN device THEN DeviceEffect(device) # Unset
         ELSE DeviceEffect(device) = Unset
      /\ class = "Serial" /\ type = "Wheel" =>
            IF "subtype" \in DOMAIN device
            THEN HardwareOf(device) \in {"MozaNew", "MozaR5", "MozaKs"}
            ELSE HardwareOf(device) = Unset
  BY NamesAre DEF FormInv
<1> DEFINE models == {"MozaNew", "MozaR5", "MozaKs"}
<1>3. /\ UsbUsesRevburner(device) <=> class = "USB" /\ type = "Tachometer"
      /\ UsbWheelEntry(device) <=> class = "USB" /\ type = "Wheel"
      /\ \A name : SerialIs(device, name) <=> class = "Serial" /\ type = name
      /\ SoundEntry(device) <=> class = "Sound" /\ DeviceEffect(device) # Unset
      /\ SerialWheelHardware(device, models) <=>
            class = "Serial" /\ type = "Wheel" /\ HardwareOf(device) \in models
  BY <1>1 DEF UsbUsesRevburner, UsbWheelEntry, SerialIs, SoundEntry, SerialWheelHardware,
              ClassNames, TypeNames
<1>4. CASE class = "USB"
  <2>1. opened = IF type = "Tachometer" THEN "Tach"
                 ELSE IF type = "Wheel"
                      THEN IF HardwareOf(device) \in OpenedUsbHardware THEN HardwareOf(device)
                           ELSE "UnknownWheel"
                      ELSE "Closed"
    BY <1>3, <1>4 DEF ConsiderEntry
  <2> HIDE DEF opened
  <2>2. opened \in OpensAs(class, type)
    <3>1. CASE type = "Tachometer"
      BY <1>4, <2>1, <3>1 DEF OpensAs
    <3>2. CASE type = "Wheel"
      BY <1>4, <2>1, <3>2 DEF OpensAs
    <3>3. type # "Haptic"
      BY <1>4 DEF NeverOpened
    <3> QED
      BY <1>1, <1>4, <3>1, <3>2, <3>3 DEF TypeNames
  <2> QED
    BY <2>2 DEF opened
<1>5. CASE class = "Sound"
  <2>1. opened = IF DeviceEffect(device) # Unset THEN "Sound" ELSE "Closed"
    BY <1>3, <1>5 DEF ConsiderEntry
  <2>2. "effect" \notin DOMAIN device => LacksPart
    BY <1>5 DEF LacksPart
  <2>3. OpensAs(class, type) = {"Sound"}
    BY <1>5 DEF OpensAs
  <2> HIDE DEF opened
  <2> QED
    BY <1>2, <2>1, <2>2, <2>3 DEF opened
<1>6. CASE class = "Serial"
  <2>1. /\ type = "ShiftLights" => opened = "ShiftLights"
        /\ type = "SimWind" => opened = "SimWind"
        /\ type = "Haptic" => opened = "SerialHaptic"
        /\ type = "Custom" => opened = "ArduinoCustom"
    BY <1>3, <1>6 DEF ConsiderEntry
  <2>2. type = "Simleds" => opened = IF SimledScript(device) THEN "SimLedCustom" ELSE "SimLed"
    BY <1>3, <1>6 DEF ConsiderEntry
  <2>3. type = "Wheel" => opened = IF HardwareOf(device) \in models THEN HardwareOf(device)
                                   ELSE "Closed"
    BY <1>3, <1>6 DEF ConsiderEntry
  <2>4. type = "Simleds" => SimledScript(device)
    <3>1. type = "Simleds" => Get(device, "config", "") \in Files
      BY DEF Validate
    <3> QED
      BY <3>1, DeviceFormAssumption DEF SimledScript
  <2>5. type = "Wheel" /\ "subtype" \notin DOMAIN device => LacksPart
    BY <1>6 DEF LacksPart
  <2> HIDE DEF opened
  <2>6. CASE type = "Wheel"
    <3>1. OpensAs(class, type) = models
      BY <1>6, <2>6 DEF OpensAs
    <3>2. Unset \notin models
      BY DEF Unset
    <3> HIDE DEF models
    <3> QED
      BY <1>2, <1>6, <2>3, <2>5, <2>6, <3>1, <3>2 DEF opened, models
  <2>7. CASE type # "Wheel"
    <3>1. opened \in OpensAs(class, type)
      BY <1>1, <1>6, <2>1, <2>2, <2>4, <2>7 DEF OpensAs, TypeNames
    <3> QED
      BY <3>1 DEF opened
  <2> QED
    BY <2>6, <2>7
<1> QED
  BY <1>1, <1>4, <1>5, <1>6 DEF ClassNames

\* It opens it where the form shows.
LEMMA MadePort ==
  FormInv => PortAsShown
<1> SUFFICES ASSUME FormInv, isNew, Validate(device)
             PROVE  /\ Class(device) = "Serial" =>
                           DevicePort(device) = Get(device, "devpath", "")
                    /\ Class(device) = "Sound" =>
                           SinkArg(OpenSound(device, TRUE).sink) = device.devid
  BY DEF PortAsShown
<1>1. Class(device) = "Serial" => "devid" \notin DOMAIN device
  BY MadeIs DEF FormInv, Fits
<1>2. ~IdentityEmpty(device)
  BY DEF Validate
<1>3. CASE Class(device) = "Serial"
  BY <1>1, <1>3 DEF DevicePort, Get
<1>4. CASE Class(device) = "Sound"
  <2>1. Get(device, "devid", "") # ""
    BY <1>2, <1>4 DEF IdentityEmpty
  <2>2. DevicePort(device) = device.devid /\ device.devid # ""
    BY <2>1 DEF DevicePort, Get
  <2>3. OpenSound(device, TRUE).sink = DevicePort(device)
    BY DEF OpenSound, Playback
  <2>4. SinkArg(OpenSound(device, TRUE).sink) = device.devid
    BY <2>2, <2>3 DEF SinkArg
  <2> QED
    BY <1>4, <2>4
<1> QED
  BY <1>3, <1>4

\* It has nothing to warn of.
LEMMA MadeQuiet ==
  FormInv => NothingFallsBack
<1> SUFFICES ASSUME FormInv, isNew, Validate(device), Get(device, "frequency", 0) >= 0
             PROVE  DeviceParseWarnings(device) \subseteq {"fps"}
  BY DEF NothingFallsBack
<1> DEFINE class == Class(device)
           type == ShownType(device)
<1>1. /\ class \in ClassNames /\ type \in TypeNames(class)
      /\ IsNamed(device, class, type) /\ Fits(device, class, type)
      /\ ClassOf(device) = class
      /\ class = "USB" => UsbType(device) = type
      /\ class = "Serial" => SerialType(device) = type
  BY MadeIs DEF FormInv
<1>2. /\ "effect" \in DOMAIN device => DeviceEffect(device) # Unset
      /\ "subtype" \in DOMAIN device => HardwareOf(device) # Unset
  BY NamesAre DEF FormInv
<1>3. class # Unset /\ Unset \notin TypeNames("USB") \cup TypeNames("Serial")
  BY <1>1 DEF Unset, ClassNames, TypeNames
<1>4. SubtypeNameOk(device)
  BY <1>1, <1>3 DEF SubtypeNameOk, ClassNames
<1>5. DeviceClassWarning(device) = {}
  BY <1>1, <1>2, <1>3, <1>4 DEF DeviceClassWarning
<1>6. EffectWarning(device) = {}
  BY <1>2 DEF EffectWarning
<1>7. ModulationWarning(device) = {}
  <2> DEFINE value == Lookup(Modulations, Get(device, "modulation", ""))
             frequency == Get(device, "frequency", 0)
             frequencyMax == Get(device, "frequencyMax", 0)
  <2>1. frequency \in Int /\ frequencyMax \in Int /\ frequency >= 0
    BY QuantitiesAre, GetIs DEF FormInv
  <2>2. CASE "modulation" \notin DOMAIN device
    <3>1. ParseModulation(device) = "Missing"
      <4>1. value = Unset
        BY <2>2 DEF Lookup, Get, Modulations
      <4>2. Unset # "Frequency"
        BY DEF Unset
      <4> QED
        BY <2>2, <4>1, <4>2 DEF ParseModulation
    <3> QED
      BY <3>1 DEF ModulationWarning
  <2>3. CASE "modulation" \in DOMAIN device
    <3>1. device["modulation"] \in DOMAIN Modulations
      BY <1>1, <2>3 DEF Fits
    <3>2. value = Modulations[device["modulation"]]
      BY <2>3, <3>1 DEF Lookup, Get
    <3>3. value \in {"None", "Frequency", "Amplitude"}
      BY <3>1, <3>2, ModulationsAre
    <3>4. value = "Frequency" => frequencyMax > frequency
      <4>1. value = "Frequency" => Get(device, "modulation", "None") = "Frequency"
        BY <2>3, <3>1, <3>2, ModulationsAre DEF Get
      <4> QED
        BY <4>1 DEF Validate
    <3>5. ~(value = "Frequency" /\ (frequencyMax = 0 \/ frequencyMax < frequency))
      <4> HIDE DEF value, frequency, frequencyMax
      <4>1. frequencyMax > frequency => ~(frequencyMax = 0 \/ frequencyMax < frequency)
        BY <2>1
      <4> QED
        BY <3>4, <4>1
    <3>6. ParseModulation(device) = value
      <4>1. value # Unset
        BY <3>3 DEF Unset
      <4> QED
        BY <2>3, <3>5, <4>1 DEF ParseModulation
    <3> QED
      BY <3>3, <3>6 DEF ModulationWarning
  <2> QED
    BY <2>2, <2>3
<1>8. FpsWarning(device) \subseteq {"fps"}
  BY DEF FpsWarning
<1> QED
  BY <1>5, <1>6, <1>7, <1>8 DEF DeviceParseWarnings, HapticSettingsWarnings

\* The motors of the board at a position are those the form lights there, of the
\* two it has.
LEMMA MotorsAre ==
  ASSUME NEW index \in 0 .. 14
  PROVE  Driven(index) = MotorLabels[index + 1] \cap {1, 3}
<1>1. index \in {0, 1, 2, 3, 4, 5, 6, 7, 8, 9, 10, 11, 12, 13, 14}
  OBVIOUS
<1> QED
  BY <1>1 DEF Driven, MotorOne, MotorThree, MotorLabels

\* The places a stream's channels stand for are those of the form's labels.
LEMMA LayoutsAre ==
  ASSUME NEW channels \in {2, 4, 6, 8}, NEW c \in 0 .. channels - 1
  PROVE  ShakerMap[channels][c + 1] = SoundChannelLayout(channels)[c + 1]
<1>1. CASE channels = 2
  BY <1>1 DEF ShakerMap, SoundChannelLayout, FrontPair, RearPair
<1>2. CASE channels = 4
  BY <1>2 DEF ShakerMap, SoundChannelLayout, FrontPair, RearPair
<1>3. CASE channels = 6
  BY <1>3 DEF ShakerMap, SoundChannelLayout, FrontPair, RearPair
<1>4. CASE channels = 8
  BY <1>4 DEF ShakerMap, SoundChannelLayout, FrontPair, RearPair
<1> QED
  BY <1>1, <1>2, <1>3, <1>4

\* The stream of a sound entry is loud on the speakers the form shows.
LEMMA SpeakersAre ==
  ASSUME NEW entry, IsEntry(entry), "channels" \in DOMAIN entry
  PROVE  LET shown == SoundResolveChannelMask(entry)
             request == OpenSound(entry, TRUE)
         IN  /\ request.channels = SoundChannelCount(entry)
             /\ ActiveChannelMask(request.mask, request.channels) = shown
             /\ Loudspeakers(request) = IF ConfiguredVolume(entry) > 0 THEN shown ELSE {}
<1> DEFINE count == SoundChannelCount(entry)
           all == ChannelMaskAll(count)
           shown == SoundResolveChannelMask(entry)
           request == OpenSound(entry, TRUE)
           volume == ConfiguredVolume(entry)
           own == [amplitude |-> 100, volume |-> volume, channels |-> ConfiguredChannels(entry),
                   mask |-> ChannelMask(entry), noise |-> Get(entry, "noise", 0)]
           settings == SoundSettings(entry)
<1>1. ConfiguredChannels(entry) = count
  BY DEF ConfiguredChannels, SoundChannelCount, Get
<1>2. ChannelMask(entry) = shown
  BY <1>1 DEF ChannelMask, SoundResolveChannelMask
<1>3. /\ settings["volume"] = volume
      /\ settings["channels"] = count
      /\ settings["mask"] = shown
  <2>1. settings = Over(own, HapticSettings(entry))
    BY DEF SoundSettings
  <2>2. /\ {"volume", "channels", "mask"} \subseteq DOMAIN own
        /\ own["volume"] = volume /\ own["channels"] = count /\ own["mask"] = shown
    BY <1>1, <1>2
  <2> HIDE DEF own, settings, volume, count, shown
  <2> QED
    BY <2>1, <2>2 DEF Over
<1> HIDE DEF settings, own
<1>4. /\ request["volume"] = volume
      /\ request["channels"] = count
      /\ request["mask"] = shown
  <2>1. request = Playback(settings, DevicePort(entry))
    BY DEF OpenSound, settings
  <2> HIDE DEF request, volume, count, shown
  <2>2. /\ request["volume"] = settings["volume"]
        /\ request["channels"] = settings["channels"]
        /\ request["mask"] = settings["mask"]
    BY <2>1 DEF Playback
  <2> QED
    BY <1>3, <2>2
<1>5. shown \subseteq all /\ shown # {} /\ all # {}
  BY ResolvedIs, CountIs
<1> HIDE DEF request, volume, count, shown
<1>6. ActiveChannelMask(request.mask, request.channels) = shown
  BY <1>4, <1>5, ClippedIs DEF ActiveChannelMask
<1>7. ShakerVolumes(request) = [c \in all |-> IF c \in shown THEN volume ELSE 0]
  BY <1>4, <1>6 DEF ShakerVolumes
<1>8. Loudspeakers(request) = IF volume > 0 THEN shown ELSE {}
  BY <1>5, <1>7 DEF Loudspeakers
<1> QED
  BY <1>4, <1>6, <1>8 DEF request, volume, count, shown

LEMMA OutputsShown == FormInv => OutputsAsShown
<1> SUFFICES ASSUME FormInv PROVE OutputsAsShown
  OBVIOUS
<1> DEFINE shown == SoundResolveChannelMask(device)
           request == OpenSound(device, TRUE)
           count == SoundChannelCount(device)
           Places(layout, channels) == {layout[c + 1] : c \in channels}
<1>1. IsEntry(device)
  BY DEF FormInv
<1>2. ASSUME Class(device) = "Sound", "channels" \in DOMAIN device
      PROVE  /\ Loudspeakers(request) = IF ConfiguredVolume(device) > 0 THEN shown ELSE {}
             /\ request.channels \in DOMAIN ShakerMap =>
                    Places(ShakerMap[request.channels],
                           ActiveChannelMask(request.mask, request.channels))
                        = Places(SoundChannelLayout(count), shown)
             /\ isNew => device.pan = SoundFirstChannel(shown)
  <2>1. /\ request.channels = count
        /\ ActiveChannelMask(request.mask, request.channels) = shown
        /\ Loudspeakers(request) = IF ConfiguredVolume(device) > 0 THEN shown ELSE {}
    BY <1>1, <1>2, SpeakersAre
  <2>2. isNew => device.pan = SoundFirstChannel(shown)
    BY <1>2, MadeIs DEF FormInv, PanTold
  <2>3. shown \subseteq 0 .. count - 1
    BY <1>1, ResolvedIs DEF ChannelMaskAll
  <2>4. DOMAIN ShakerMap = {2, 4, 6, 8}
    BY DEF ShakerMap
  <2> HIDE DEF request, shown, count
  <2>5. count \in {2, 4, 6, 8} =>
           Places(ShakerMap[count], shown) = Places(SoundChannelLayout(count), shown)
    <3> SUFFICES ASSUME count \in {2, 4, 6, 8}
                 PROVE  \A c \in shown :
                           ShakerMap[count][c + 1] = SoundChannelLayout(count)[c + 1]
      OBVIOUS
    <3> QED
      BY <2>3, LayoutsAre
  <2> QED
    BY <2>1, <2>2, <2>4, <2>5
<1>3. ASSUME "motors" \in DOMAIN device, device.motors < Len(MotorLabels)
      PROVE  Driven(HapticSettings(device).motor) = MotorActive(device) \cap {1, 3}
  <2> DEFINE motors == device["motors"]
  <2>1. motors \in Int /\ motors <= 14
    <3>1. motors \in Int
      BY <1>1, <1>3, QuantitiesAre DEF IsEntry
    <3>2. Len(MotorLabels) = 15
      BY DEF MotorLabels
    <3> QED
      BY <1>3, <3>1, <3>2
  <2>2. HapticSettings(device).motor = Positive(motors)
    BY <1>3 DEF HapticSettings, Get
  <2>3. MotorActive(device) = MotorLabels[IF motors \in 0 .. 14 THEN motors + 1 ELSE 1]
    BY <1>3 DEF MotorActive, Get
  <2>4. CASE motors \in 0 .. 14
    <3>1. Positive(motors) = motors
      BY <2>4 DEF Positive
    <3> HIDE DEF motors
    <3> QED
      BY <2>2, <2>3, <2>4, <3>1, MotorsAre
  <2>5. CASE motors \notin 0 .. 14
    <3>1. Positive(motors) = 0
      BY <2>1, <2>5 DEF Positive
    <3>2. Driven(0) = MotorLabels[0 + 1] \cap {1, 3}
      BY MotorsAre
    <3> HIDE DEF motors
    <3> QED
      BY <2>2, <2>3, <2>5, <3>1, <3>2
  <2> QED
    BY <2>4, <2>5
<1> QED
  BY <1>2, <1>3 DEF OutputsAsShown

-----------------------------------------------------------------------------
(* The theorems *)

\* The form keeps an entry of the file an entry, and one it made one it made.
THEOREM FormTyped == FormSpec => []FormInv
BY FormInvInit, FormInvNext, PTL DEF FormSpec

\* An entry the form made and accepts, of any kind but USB Haptic, is opened by the
\* host as the class and the type the form shows and, serial or sound, at the port or
\* the sink the form shows, whatever classes and types it went through and whatever
\* the user cleared.
THEOREM OpenedTold == FormSpec => []OpenedAsShown
<1>1. FormInv => OpenedAsShown
  BY MadeKind, MadePort DEF OpenedAsShown
<1> QED
  BY <1>1, FormTyped, PTL

\* The speakers and the motors the form shows are those the host drives, for an
\* entry of the file too: for every mask, pan and number of channels in it.
THEOREM OutputsTold == FormSpec => []OutputsAsShown
BY OutputsShown, FormTyped, PTL

\* Every name the form lets an entry have is in a table of the host, and a
\* frequency modulation has its range.
THEOREM AllNamesKnown == FormSpec => []NothingFallsBack
BY MadeQuiet, FormTyped, PTL
=============================================================================
