--------------------------- MODULE JudgeEventsProofs ---------------------------
(* Theorems about JudgeEvents for any senders, rules and bounds. *)
EXTENDS JudgeEvents, TLAPS

Verdict == [verdict : {"notEnough", "triggered", "quiet"}, oldest : 0..MaxTs]

\* What Compute tells about a series: its oldest entry is a point of the series.
LEMMA JudgedType ==
  ASSUME NEW r \in Rules, NEW pts \in Seq(Point)
  PROVE  Judged(Rule[r], pts, Type) \in Verdict
<1> DEFINE f == Rule[r]
<1>1. Limit(f) \in Int
  BY JudgeAssumption DEF Limit
<1>2. CASE IsEnough(pts, Type, Limit(f))
  <2>1. Limit(f) \in 1..Len(pts)
    BY <1>1, <1>2, JudgeAssumption DEF IsEnough, PointsNeeded
  <2>2. pts[Limit(f)] \in Point
    BY <2>1
  <2>3. HistoryData(pts, Type, Limit(f))[Limit(f)].ts = pts[Limit(f)].ts
    BY <2>1 DEF HistoryData
  <2> QED
    BY <1>2, <2>2, <2>3, JudgeAssumption DEF Judged, Verdict, Point
<1>3. CASE ~IsEnough(pts, Type, Limit(f))
  BY <1>3, JudgeAssumption DEF Judged, Verdict
<1> QED
  BY <1>2, <1>3

\* Pushing keeps a sequence of points, no longer than Remain.
LEMMA PushedType ==
  ASSUME NEW pts \in Seq(Point), NEW p \in Point, Len(pts) <= Remain
  PROVE  /\ Pushed(pts, p) \in Seq(Point)
         /\ Pushed(pts, p) # <<>>
         /\ Len(Pushed(pts, p)) <= Remain
         /\ \A i \in DOMAIN Pushed(pts, p) :
              Pushed(pts, p)[i] = IF i = 1 THEN p ELSE pts[i - 1]
         /\ \A i \in DOMAIN Pushed(pts, p) : i > 1 => i - 1 \in DOMAIN pts
<1> DEFINE all == <<p>> \o pts
           n   == IF Len(pts) < Remain THEN Len(pts) + 1 ELSE Remain
<1>1. all \in Seq(Point) /\ Len(all) = Len(pts) + 1
  OBVIOUS
<1>2. n \in 1..Len(all) /\ n <= Remain
  BY JudgeAssumption, <1>1
<1>3. SubSeq(all, 1, n) \in Seq(Point) /\ Len(SubSeq(all, 1, n)) = n
  BY <1>1, <1>2
<1>4. \A i \in 1..n : SubSeq(all, 1, n)[i] = all[i]
  BY <1>1, <1>2, <1>3
<1>5. \A i \in 1..n : all[i] = IF i = 1 THEN p ELSE pts[i - 1]
  BY <1>1, <1>2
<1> QED
  BY <1>1, <1>2, <1>3, <1>4, <1>5 DEF Pushed

-----------------------------------------------------------------------------
(* Type correctness, with what each place in Judge.Send has set. *)

Placed(s) ==
  /\ pc[s] \notin {"idle", "items"} => item[s] \in Point
  /\ pc[s] \in {"judged", "decide", "publish"} => rule[s] \in Rules
  /\ pc[s] = "publish" => event[s] \in Event

Typed == TypeOK /\ Len(series) <= Remain /\ \A s \in Senders : Placed(s)

\* An event built from a typed point, finding and rule is one of Event.
LEMMA NewEventType ==
  ASSUME Typed, NEW s \in Senders, pc[s] = "decide",
         NEW status \in {"PROBLEM", "OK", "DDALARM", "DDOK", "DDALERT"}, NEW step \in Nat
  PROVE  NewEvent(s, status, step) \in Event
<1>1. item[s] \in Point /\ rule[s] \in Rules
  BY DEF Typed, Placed
<1>2. now[s] \in 0..MaxClock /\ found[s].oldest \in 0..MaxTs
  BY DEF Typed, TypeOK
<1> QED
  BY <1>1, <1>2 DEF NewEvent, Event, Point

\* What sendEventIfNeed decides to send is an event or nothing.
LEMMA DecisionType ==
  ASSUME Typed, NEW s \in Senders, pc[s] = "decide"
  PROVE  Decision(s) \in Event \cup {NoEvent}
<1>1. seen[s].step \in Nat
  BY DEF Typed, TypeOK, Event, NoEvent
<1>2. ProblemStatus \in {"PROBLEM", "DDALARM"} /\ Recovery(seen[s]) \in {"OK", "DDOK"}
  BY DEF ProblemStatus, Recovery
<1>3. NewEvent(s, ProblemStatus, 1) \in Event
  BY <1>2, NewEventType
<1>4. NewEvent(s, ProblemStatus, seen[s].step + 1) \in Event
  BY <1>1, <1>2, NewEventType
<1>5. NewEvent(s, Recovery(seen[s]), 1) \in Event
  BY <1>2, NewEventType
<1> QED
  BY <1>3, <1>4, <1>5 DEF Decision

\* The start is typed.
LEMMA TypedInit == Init => Typed
<1> SUFFICES ASSUME Init PROVE Typed
  OBVIOUS
<1>1. NotJudged \in [verdict : {"notEnough", "triggered", "quiet"}, oldest : 0..MaxTs]
  BY JudgeAssumption DEF NotJudged
<1>2. TypeOK
  <2>1. /\ clock \in 0..MaxClock /\ syncs \in 0..MaxSyncs /\ restarts \in 0..MaxRestarts
        /\ \A s \in Senders : now[s] \in 0..MaxClock
    BY JudgeAssumption DEF Init
  <2>2. series \in Seq(Point) /\ pages \in Seq(Event)
    BY DEF Init
  <2>3. found \in [Senders -> [verdict : {"notEnough", "triggered", "quiet"}, oldest : 0..MaxTs]]
    BY <1>1 DEF Init
  <2> QED
    BY <2>1, <2>2, <2>3 DEF Init, TypeOK
<1>3. \A s \in Senders : Placed(s)
  BY DEF Init, Placed
<1> QED
  BY <1>2, <1>3, JudgeAssumption DEF Init, Typed

\* Every action of the judge keeps the types.
LEMMA TypedStep == Typed /\ [Next]_vars => Typed'
<1> SUFFICES ASSUME Typed, [Next]_vars PROVE Typed'
  OBVIOUS
<1> USE JudgeAssumption
<1>1. CASE Tick
  BY <1>1 DEF Tick, Typed, TypeOK, Placed, syncVars, senderVars
<1>15. CASE SyncStrategies
  <2>1. TypeOK'
    BY <1>15 DEF SyncStrategies, Typed, TypeOK, senderVars
  <2> QED
    BY <1>15, <2>1 DEF SyncStrategies, Typed, Placed, senderVars
<1>16. CASE SyncExpression
  <2>1. TypeOK'
    BY <1>16 DEF SyncExpression, Typed, TypeOK, senderVars
  <2> QED
    BY <1>16, <2>1 DEF SyncExpression, Typed, Placed, senderVars
<1>17. CASE SyncFilter
  <2>1. TypeOK'
    BY <1>17 DEF SyncFilter, Typed, TypeOK, senderVars
  <2> QED
    BY <1>17, <2>1 DEF SyncFilter, Typed, Placed, senderVars
<1>3. CASE Restart
  <2>1. NotJudged \in [verdict : {"notEnough", "triggered", "quiet"}, oldest : 0..MaxTs]
    BY DEF NotJudged
  <2>2. TypeOK'
    <3>1. /\ clock' \in 0..MaxClock /\ syncs' \in 0..MaxSyncs /\ restarts' \in 0..MaxRestarts
          /\ \A s \in Senders : now'[s] \in 0..MaxClock
      BY <1>3 DEF Restart, Typed, TypeOK
    <3>2. series' \in Seq(Point) /\ pages' \in Seq(Event)
      BY <1>3 DEF Restart, Typed, TypeOK
    <3>3. found' \in [Senders -> [verdict : {"notEnough", "triggered", "quiet"}, oldest : 0..MaxTs]]
      BY <1>3, <2>1 DEF Restart
    <3> QED
      BY <1>3, <3>1, <3>2, <3>3 DEF Restart, Typed, TypeOK
  <2> QED
    BY <1>3, <2>2 DEF Restart, Typed, Placed
<1>4. ASSUME NEW s \in Senders, BeginSend(s) PROVE Typed'
  <2>1. TypeOK'
    BY <1>4 DEF BeginSend, Goto, Typed, TypeOK, syncVars
  <2>2. \A t \in Senders : Placed(t)'
    BY <1>4 DEF BeginSend, Goto, Typed, TypeOK, Placed
  <2> QED
    BY <1>4, <2>1, <2>2 DEF BeginSend, Typed
<1>5. ASSUME NEW s \in Senders, NEW p \in Point, Receive(s, p) PROVE Typed'
  <2>1. series' \in Seq(Point) /\ Len(series') <= Remain
    BY <1>5, PushedType DEF Receive, Typed, TypeOK
  <2>2. TypeOK'
    BY <1>5, <2>1 DEF Receive, Goto, Typed, TypeOK, syncVars, Rules
  <2>3. \A t \in Senders : Placed(t)'
    BY <1>5 DEF Receive, Goto, Typed, TypeOK, Placed
  <2> QED
    BY <2>1, <2>2, <2>3 DEF Typed
<1>6. ASSUME NEW s \in Senders, CheckExpression(s) PROVE Typed'
  <2>1. TypeOK'
    BY <1>6 DEF CheckExpression, Goto, Typed, TypeOK, syncVars, Rules
  <2>2. \A t \in Senders : Placed(t)'
    BY <1>6 DEF CheckExpression, Goto, Typed, TypeOK, Placed
  <2> QED
    BY <1>6, <2>1, <2>2 DEF CheckExpression, Typed
<1>7. ASSUME NEW s \in Senders, NEW r \in Rules, JudgeItem(s, r) PROVE Typed'
  <2>1. Judged(Rule[r], series, Type) \in Verdict
    BY JudgedType DEF Typed, TypeOK
  <2>2. found' \in [Senders -> Verdict]
    <3>1. found' = found \/ found' = [found EXCEPT ![s] = Judged(Rule[r], series, Type)]
      BY <1>7 DEF JudgeItem
    <3> QED
      BY <2>1, <3>1, ZenonT(40) DEF Typed, TypeOK, Verdict
  <2>3. /\ item' = item /\ event' = event
        /\ \/ pc' = pc /\ rule' = rule
           \/ pc' = [pc EXCEPT ![s] = "judged"] /\ rule' = [rule EXCEPT ![s] = r]
    BY <1>7 DEF JudgeItem
  <2>4. pc[s] \in {"strategies", "expressions"}
    BY <1>7 DEF JudgeItem, Loop
  <2>5. \A t \in Senders : Placed(t)'
    BY <2>3, <2>4 DEF Typed, TypeOK, Placed
  <2>6. TypeOK'
    <3>1. todo' \in [Senders -> SUBSET Rules]
      BY <1>7 DEF JudgeItem, Typed, TypeOK
    <3>2. rule' \in [Senders -> Rules \cup {NoRule}]
      BY <2>3, ZenonT(40) DEF Typed, TypeOK
    <3>3. pc' \in [Senders -> {"idle", "items", "strategies", "expressions",
                              "judged", "decide", "publish"}]
      BY <2>3 DEF Typed, TypeOK
    <3>4. UNCHANGED <<clock, restarts, syncVars, series, last, pages, now, item, seen, event>>
      BY <1>7 DEF JudgeItem
    <3> QED
      BY <2>2, <3>1, <3>2, <3>3, <3>4 DEF Typed, TypeOK, Verdict, syncVars
  <2> QED
    BY <1>7, <2>5, <2>6 DEF JudgeItem, Typed
<1>8. ASSUME NEW s \in Senders, GetLastEvent(s) PROVE Typed'
  BY <1>8 DEF GetLastEvent, Goto, Typed, TypeOK, Placed, syncVars
<1>9. ASSUME NEW s \in Senders, Stay(s) PROVE Typed'
  BY <1>9 DEF Stay, NextRule, Loop, Typed, TypeOK, Placed, syncVars, NoEvent, NotJudged
<1>10. ASSUME NEW s \in Senders, SendWithoutSave(s) PROVE Typed'
  <2>1. NewEvent(s, "DDALERT", 0) \in Event
    BY <1>10, NewEventType DEF SendWithoutSave, Goto
  <2> QED
    BY <1>10, <2>1 DEF SendWithoutSave, Goto, Typed, TypeOK, Placed, syncVars
<1>11. ASSUME NEW s \in Senders, SendEvent(s) PROVE Typed'
  <2>1. Decision(s) \in Event
    BY <1>11, DecisionType DEF SendEvent, Goto
  <2> QED
    BY <1>11, <2>1 DEF SendEvent, Goto, Typed, TypeOK, Placed, syncVars
<1>12. ASSUME NEW s \in Senders, Publish(s) PROVE Typed'
  <2>1. pages' \in Seq(Event)
    <3>1. event[s] \in Event /\ pages \in Seq(Event)
      BY <1>12 DEF Publish, Typed, TypeOK, Placed
    <3>2. pages' = Append(pages, event[s]) \/ pages' = pages
      BY <1>12 DEF Publish
    <3> QED
      BY <3>1, <3>2
  <2>2. TypeOK'
    BY <1>12, <2>1 DEF Publish, NextRule, Loop, Typed, TypeOK, syncVars, NoEvent, NotJudged
  <2>3. \A t \in Senders : Placed(t)'
    BY <1>12 DEF Publish, NextRule, Loop, Typed, TypeOK, Placed
  <2> QED
    BY <1>12, <2>2, <2>3 DEF Publish, Typed
<1>18. ASSUME NEW s \in Senders, EndItem(s) PROVE Typed'
  <2>1. TypeOK'
    BY <1>18 DEF EndItem, Goto, Typed, TypeOK, syncVars
  <2>2. \A t \in Senders : Placed(t)'
    BY <1>18 DEF EndItem, Goto, Typed, TypeOK, Placed
  <2> QED
    BY <1>18, <2>1, <2>2 DEF EndItem, Typed
<1>19. ASSUME NEW s \in Senders, EndSend(s) PROVE Typed'
  <2>1. TypeOK'
    BY <1>19 DEF EndSend, Goto, Typed, TypeOK, syncVars
  <2>2. \A t \in Senders : Placed(t)'
    BY <1>19 DEF EndSend, Goto, Typed, TypeOK, Placed
  <2> QED
    BY <1>19, <2>1, <2>2 DEF EndSend, Typed
<1>14. CASE UNCHANGED vars
  BY <1>14 DEF vars, Typed, TypeOK, Placed, syncVars, senderVars
<1> QED
  BY <1>1, <1>15, <1>16, <1>17, <1>3, <1>4, <1>5, <1>6, <1>7, <1>8, <1>9, <1>10, <1>11, <1>12, <1>18, <1>19, <1>14
     DEF Next, Step

\* Every variable keeps its type whatever the senders, rules and bounds are.
THEOREM TypeCorrect == Spec => []TypeOK
<1>1. Typed => TypeOK
  BY DEF Typed
<1> QED
  BY <1>1, TypedInit, TypedStep, PTL DEF Spec

-----------------------------------------------------------------------------
(* The series *)

\* Only Receive touches the series, and only to put a newer point in front.
LEMMA OrderedStep == Typed /\ SeriesOrdered /\ [Next]_vars => SeriesOrdered'
<1> SUFFICES ASSUME Typed, SeriesOrdered, [Next]_vars PROVE SeriesOrdered'
  OBVIOUS
<1> USE JudgeAssumption
<1>1. ASSUME NEW s \in Senders, NEW p \in Point, Receive(s, p) PROVE SeriesOrdered'
  <2>1. series \in Seq(Point) /\ Len(series) <= Remain
    BY DEF Typed, TypeOK
  <2>2. series' = Pushed(series, p) /\ Accepts(series, p)
    BY <1>1 DEF Receive
  <2>3. /\ series' \in Seq(Point) /\ Len(series') <= Remain
        /\ \A i \in DOMAIN series' : series'[i] = IF i = 1 THEN p ELSE series[i - 1]
        /\ \A i \in DOMAIN series' : i > 1 => i - 1 \in DOMAIN series
    <3>1. /\ Pushed(series, p) \in Seq(Point) /\ Len(Pushed(series, p)) <= Remain
          /\ \A i \in DOMAIN Pushed(series, p) :
               Pushed(series, p)[i] = IF i = 1 THEN p ELSE series[i - 1]
          /\ \A i \in DOMAIN Pushed(series, p) : i > 1 => i - 1 \in DOMAIN series
      BY <2>1, PushedType
    <3>2. series' = Pushed(series, p)
      BY <2>2
    <3> HIDE DEF Pushed
    <3> QED
      BY <3>1, <3>2
  <2>4. \A i \in DOMAIN series : p.ts > series[i].ts
    <3>1. TAKE i \in DOMAIN series
    <3>2. p.ts > series[1].ts /\ 1 \in DOMAIN series /\ i \in 1..Len(series)
      BY <2>1, <2>2, <3>1 DEF Accepts
    <3>3. i = 1 \/ series[1].ts > series[i].ts
      <4>1. i # 1 => 1 < i
        BY <3>2
      <4> QED
        BY <3>1, <3>2, <4>1 DEF SeriesOrdered
    <3>4. p.ts \in Int /\ series[1].ts \in Int /\ series[i].ts \in Int
      <4>1. series[1] \in Point /\ series[i] \in Point
        BY <2>1, <3>2
      <4>2. \A q \in Point : q.ts \in Int
        BY DEF Point
      <4> QED
        BY <4>1, <4>2
    <3> QED
      BY <3>2, <3>3, <3>4
  <2>5. ASSUME NEW i \in DOMAIN series', NEW j \in DOMAIN series', i < j
        PROVE  series'[i].ts > series'[j].ts
    <3>1. j > 1 /\ i \in Nat \ {0} /\ j \in Nat
      BY <2>3, <2>5
    <3>2. j - 1 \in DOMAIN series /\ series'[j] = series[j - 1]
      BY <2>3, <3>1
    <3>3. CASE i = 1
      BY <2>3, <2>4, <3>2, <3>3
    <3>4. CASE i > 1
      <4>1. i - 1 \in DOMAIN series /\ series'[i] = series[i - 1] /\ i - 1 < j - 1
        BY <2>3, <2>5, <3>1, <3>4
      <4> QED
        BY <4>1, <3>2 DEF SeriesOrdered
    <3> QED
      BY <3>1, <3>3, <3>4
  <2> QED
    BY <2>3, <2>5 DEF SeriesOrdered
<1>2. CASE Restart
  BY <1>2 DEF Restart, SeriesOrdered
<1>3. CASE UNCHANGED series
  BY <1>3 DEF SeriesOrdered
<1> QED
  BY <1>1, <1>2, <1>3
     DEF Next, Step, vars, Tick, SyncStrategies, SyncExpression, SyncFilter, BeginSend,
         CheckExpression, JudgeItem, GetLastEvent, Stay, SendWithoutSave, SendEvent,
         Publish, EndItem, EndSend

\* The list of a series is newest first without a repeated timestamp and no
\* longer than Remain, for any number of senders pushing on it.
THEOREM SeriesCorrect == Spec => []SeriesSound
<1>1. Init => SeriesOrdered
  BY JudgeAssumption DEF Init, SeriesOrdered
<1>2. Typed /\ SeriesOrdered => SeriesSound
  BY DEF Typed, SeriesSound
<1> QED
  BY <1>1, <1>2, OrderedStep, TypedInit, TypedStep, PTL DEF Spec

-----------------------------------------------------------------------------
(* The bound on the alarms of a rule *)

\* StepBound with what the senders carry between the map and redis.
Bounded ==
  /\ StepBound
  /\ \A s \in Senders : pc[s] = "decide" => MayKeep(seen[s], rule[s], metric)
  /\ \A s \in Senders : pc[s] = "publish" => MayPublish(event[s], metric)

\* From a last event that may be kept, the next one may be kept and published.
LEMMA DecisionBounded ==
  ASSUME Typed, Bounded, NEW s \in Senders, pc[s] = "decide", ~Alert(s)
  PROVE  /\ MayKeep(Decision(s), rule[s], metric)
         /\ Decision(s) # NoEvent => MayPublish(Decision(s), metric)
<1> USE JudgeAssumption
<1>1. rule[s] \in Rules /\ Rule[rule[s]].maxStep \in Nat /\ MayKeep(seen[s], rule[s], metric)
  BY DEF Typed, Placed, Bounded
<1>2. seen[s] \in Event \cup {NoEvent} /\ seen[s].step \in Nat
  BY DEF Typed, TypeOK, Event, NoEvent
<1>3. CASE Decision(s) = NoEvent
  BY <1>3 DEF MayKeep
<1>4. CASE found[s].verdict = "triggered" /\ Decision(s) # NoEvent
  <2>1. metric # "ignoreSelf" /\ ProblemStatus \in {"PROBLEM", "DDALARM"}
    BY <1>4 DEF Alert, ProblemStatus
  <2>2. Rule[rule[s]].maxStep # 0
    <3>1. CASE IsOpen(seen[s])
      BY <3>1, <1>1 DEF IsOpen, MayKeep, NoEvent, Muted
    <3>2. CASE ~IsOpen(seen[s])
      BY <3>2, <1>4 DEF Decision
    <3> QED
      BY <3>1, <3>2
  <2>3. PICK n \in 1..Rule[rule[s]].maxStep : Decision(s) = NewEvent(s, ProblemStatus, n)
    <3>1. CASE IsOpen(seen[s])
      <4>1. MayRepeat(s) /\ Decision(s) = NewEvent(s, ProblemStatus, seen[s].step + 1)
        BY <3>1, <1>4 DEF Decision
      <4> QED
        BY <4>1, <1>1, <1>2 DEF MayRepeat
    <3>2. CASE ~IsOpen(seen[s])
      BY <3>2, <1>1, <1>4, <2>2 DEF Decision
    <3> QED
      BY <3>1, <3>2
  <2> QED
    BY <2>1, <2>2, <2>3 DEF MayKeep, MayPublish, Muted, Counted, Alarming, NewEvent
<1>5. CASE found[s].verdict # "triggered" /\ Decision(s) # NoEvent
  <2>1. /\ seen[s].status \in {"PROBLEM", "DDALARM"}
        /\ Decision(s) = NewEvent(s, Recovery(seen[s]), 1)
    BY <1>5 DEF Decision
  <2>2. ~Muted(rule[s], metric)
    BY <2>1, <1>1 DEF MayKeep, NoEvent
  <2>3. Recovery(seen[s]) \in {"OK", "DDOK"}
    BY DEF Recovery
  <2> QED
    BY <2>1, <2>2, <2>3 DEF MayKeep, MayPublish, Counted, Alarming, NewEvent
<1> QED
  BY <1>3, <1>4, <1>5

\* No action touches the kind of the metric.
LEMMA MetricKept == [Next]_vars => metric' = metric
BY DEF Next, Step, vars, syncVars, Tick, SyncStrategies, SyncExpression, SyncFilter, Restart,
       BeginSend, Receive, CheckExpression, JudgeItem, GetLastEvent, Stay, SendWithoutSave,
       SendEvent, Publish, EndItem, EndSend

\* No action of any sender lets a step past maxStep through.
LEMMA BoundedStep == Typed /\ Bounded /\ [Next]_vars => Bounded'
<1> SUFFICES ASSUME Typed, Bounded, [Next]_vars PROVE Bounded'
  OBVIOUS
<1>0. metric' = metric
  BY MetricKept
<1>1. ASSUME NEW s \in Senders, GetLastEvent(s) PROVE Bounded'
  <2>1. MayKeep(last[rule[s]], rule[s], metric)
    BY <1>1 DEF GetLastEvent, Goto, Typed, Placed, Bounded, StepBound
  <2>2. \A t \in Senders : pc'[t] = "decide" => MayKeep(seen'[t], rule'[t], metric)
    BY <1>1, <2>1 DEF GetLastEvent, Goto, Typed, TypeOK, Bounded
  <2>3. \A t \in Senders : pc'[t] = "publish" => MayPublish(event'[t], metric)
    BY <1>1 DEF GetLastEvent, Goto, Typed, TypeOK, Bounded
  <2> QED
    BY <1>0, <1>1, <2>2, <2>3 DEF GetLastEvent, Bounded, StepBound
<1>2. ASSUME NEW s \in Senders, SendWithoutSave(s) PROVE Bounded'
  <2>1. MayPublish(NewEvent(s, "DDALERT", 0), metric)
    BY DEF MayPublish, Counted, Alarming, NewEvent
  <2>2. \A t \in Senders : pc'[t] = "decide" => MayKeep(seen'[t], rule'[t], metric)
    BY <1>2 DEF SendWithoutSave, Goto, Typed, TypeOK, Bounded
  <2>3. \A t \in Senders : pc'[t] = "publish" => MayPublish(event'[t], metric)
    BY <1>2, <2>1 DEF SendWithoutSave, Goto, Typed, TypeOK, Bounded
  <2> QED
    BY <1>0, <1>2, <2>2, <2>3 DEF SendWithoutSave, Bounded, StepBound
<1>3. ASSUME NEW s \in Senders, SendEvent(s) PROVE Bounded'
  <2>1. MayKeep(Decision(s), rule[s], metric) /\ MayPublish(Decision(s), metric)
    BY <1>3, DecisionBounded DEF SendEvent, Goto
  <2>2. \A r \in Rules : MayKeep(last'[r], r, metric)
    BY <1>3, <2>1 DEF SendEvent, Typed, TypeOK, Bounded, StepBound
  <2>3. \A t \in Senders : pc'[t] = "decide" => MayKeep(seen'[t], rule'[t], metric)
    BY <1>3 DEF SendEvent, Goto, Typed, TypeOK, Bounded
  <2>4. \A t \in Senders : pc'[t] = "publish" => MayPublish(event'[t], metric)
    BY <1>3, <2>1 DEF SendEvent, Goto, Typed, TypeOK, Bounded
  <2> QED
    BY <1>0, <1>3, <2>2, <2>3, <2>4 DEF SendEvent, Bounded, StepBound
<1>4. ASSUME NEW s \in Senders, Publish(s) PROVE Bounded'
  <2>1. pages \in Seq(Event) /\ MayPublish(event[s], metric)
    BY <1>4 DEF Publish, Typed, TypeOK, Bounded
  <2>2. pages' = Append(pages, event[s]) \/ pages' = pages
    BY <1>4 DEF Publish
  <2>3. \A i \in DOMAIN pages' : MayPublish(pages'[i], metric)
    <3>1. \A i \in DOMAIN pages' : pages'[i] = event[s] \/ (i \in DOMAIN pages /\ pages'[i] = pages[i])
      BY <2>1, <2>2
    <3> QED
      BY <2>1, <3>1 DEF Bounded, StepBound
  <2>4. \A t \in Senders : t # s => pc'[t] = pc[t] /\ seen'[t] = seen[t] /\ event'[t] = event[t] /\ rule'[t] = rule[t]
    BY <1>4 DEF Publish, NextRule, Typed, TypeOK
  <2>5. pc'[s] \in {"strategies", "expressions"}
    BY <1>4 DEF Publish, NextRule, Loop, Typed, TypeOK
  <2>6. last' = last
    BY <1>4 DEF Publish
  <2> QED
    BY <1>0, <2>3, <2>4, <2>5, <2>6 DEF Bounded, StepBound
<1>5. ASSUME NEW s \in Senders, Stay(s) PROVE Bounded'
  <2>1. \A t \in Senders : t # s => pc'[t] = pc[t] /\ seen'[t] = seen[t] /\ event'[t] = event[t] /\ rule'[t] = rule[t]
    BY <1>5 DEF Stay, NextRule, Typed, TypeOK
  <2>2. pc'[s] \in {"strategies", "expressions"}
    BY <1>5 DEF Stay, NextRule, Loop, Typed, TypeOK
  <2> QED
    BY <1>0, <1>5, <2>1, <2>2 DEF Stay, Bounded, StepBound
<1>6. ASSUME NEW s \in Senders, NEW r \in Rules, JudgeItem(s, r) PROVE Bounded'
  <2>1. \A t \in Senders : pc'[t] \in {"decide", "publish"} => pc'[t] = pc[t] /\ rule'[t] = rule[t]
    BY <1>6 DEF JudgeItem, Loop, Typed, TypeOK
  <2> QED
    BY <1>0, <1>6, <2>1 DEF JudgeItem, Bounded, StepBound
<1>7. ASSUME NEW s \in Senders,
             \/ BeginSend(s) \/ CheckExpression(s) \/ EndItem(s) \/ EndSend(s)
             \/ \E p \in Point : Receive(s, p)
      PROVE  Bounded'
  <2>1. UNCHANGED <<last, pages, seen, rule, event>>
    BY <1>7 DEF BeginSend, Receive, CheckExpression, EndItem, EndSend
  <2>2. \A t \in Senders : pc'[t] \in {"decide", "publish"} => pc'[t] = pc[t]
    BY <1>7 DEF BeginSend, Receive, CheckExpression, EndItem, EndSend, Goto, Typed, TypeOK
  <2> QED
    BY <1>0, <2>1, <2>2 DEF Bounded, StepBound
<1>8. CASE Restart
  BY <1>0, <1>8 DEF Restart, Bounded, StepBound, MayKeep
<1>9. CASE Tick \/ SyncStrategies \/ SyncExpression \/ SyncFilter \/ UNCHANGED vars
  BY <1>0, <1>9 DEF Tick, SyncStrategies, SyncExpression, SyncFilter, vars, senderVars, Bounded, StepBound
<1> QED
  BY <1>1, <1>2, <1>3, <1>4, <1>5, <1>6, <1>7, <1>8, <1>9 DEF Next, Step

\* No interleaving of the senders makes a rule alarm past its maxStep, or a
\* muted rule alarm or recover.
THEOREM StepsBounded == Spec => []StepBound
<1>1. Init => Bounded
  BY DEF Init, Bounded, StepBound, MayKeep
<1>2. Bounded => StepBound
  BY DEF Bounded
<1> QED
  BY <1>1, <1>2, BoundedStep, TypedInit, TypedStep, PTL DEF Spec

-----------------------------------------------------------------------------
(* One sender: the lastEvent it read is still the one in the map. *)

OneSender   == \A s, t \in Senders : s = t
SeenCurrent == \A s \in Senders : pc[s] = "decide" => seen[s] = last[rule[s]]

\* A single sender decides on the last event there is.
LEMMA SeenCurrentStep ==
  ASSUME OneSender
  PROVE  Typed /\ SeenCurrent /\ [Next]_vars => SeenCurrent'
<1> SUFFICES ASSUME Typed, SeenCurrent, [Next]_vars PROVE SeenCurrent'
  OBVIOUS
<1>1. ASSUME NEW s \in Senders, GetLastEvent(s) PROVE SeenCurrent'
  BY <1>1 DEF GetLastEvent, Goto, Typed, TypeOK, SeenCurrent
<1>2. ASSUME NEW s \in Senders, pc'[s] # "decide" PROVE SeenCurrent'
  BY <1>2, OneSender DEF OneSender, SeenCurrent
<1>3. ASSUME NEW s \in Senders, NEW r \in Rules, JudgeItem(s, r) PROVE pc'[s] # "decide"
  BY <1>3 DEF JudgeItem, Loop, Typed, TypeOK
<1>4. ASSUME NEW s \in Senders,
             \/ BeginSend(s) \/ CheckExpression(s) \/ EndItem(s) \/ EndSend(s)
             \/ SendWithoutSave(s) \/ SendEvent(s)
             \/ \E p \in Point : Receive(s, p)
      PROVE  pc'[s] # "decide"
  BY <1>4 DEF BeginSend, CheckExpression, EndItem, EndSend, SendWithoutSave, SendEvent,
              Receive, Goto, Typed, TypeOK
<1>5. ASSUME NEW s \in Senders, Stay(s) \/ Publish(s) PROVE pc'[s] # "decide"
  BY <1>5 DEF Stay, Publish, NextRule, Loop, Typed, TypeOK
<1>6. CASE Restart
  BY <1>6 DEF Restart, SeenCurrent
<1>7. CASE Tick \/ SyncStrategies \/ SyncExpression \/ SyncFilter \/ UNCHANGED vars
  BY <1>7 DEF Tick, SyncStrategies, SyncExpression, SyncFilter, vars, senderVars, SeenCurrent
<1> QED
  BY <1>1, <1>2, <1>3, <1>4, <1>5, <1>6, <1>7 DEF Next, Step

\* The only steps that touch LastEvents.
LEMMA WhoSetsLast ==
  ASSUME [Next]_vars, last' # last
  PROVE  Restart \/ \E s \in Senders : SendEvent(s)
BY DEF Next, Step, vars, Tick, SyncStrategies, SyncExpression, SyncFilter, BeginSend,
       Receive, CheckExpression, JudgeItem, GetLastEvent, Stay, SendWithoutSave, Publish,
       EndItem, EndSend

Spaced ==
  \A r \in Rules : Repeats(r) =>
    \/ last'[r] = last[r]
    \/ /\ last'[r].step = last[r].step + 1
       /\ last'[r].oldest > last[r].time
       /\ last'[r].at - last[r].time >= MinInterval

\* A single sender's repeats are spaced.
LEMMA SpacedStep ==
  Typed /\ SeenCurrent /\ [Next]_vars => [Spaced]_last
<1> SUFFICES ASSUME Typed, SeenCurrent, [Next]_vars, last' # last PROVE Spaced
  OBVIOUS
<1>1. CASE Restart
  BY <1>1 DEF Restart, Spaced, Repeats, IsOpen, NoEvent
<1>2. ASSUME NEW s \in Senders, SendEvent(s) PROVE Spaced
  <2>1. /\ pc[s] = "decide" /\ rule[s] \in Rules /\ seen[s] = last[rule[s]]
        /\ Decision(s) # NoEvent
        /\ last' = [last EXCEPT ![rule[s]] = Decision(s)]
    BY <1>2 DEF SendEvent, Goto, Typed, Placed, SeenCurrent
  <2>2. SUFFICES ASSUME Repeats(rule[s])
                 PROVE  /\ Decision(s).step = last[rule[s]].step + 1
                        /\ Decision(s).oldest > last[rule[s]].time
                        /\ Decision(s).at - last[rule[s]].time >= MinInterval
    BY <2>1 DEF Spaced, Typed, TypeOK
  <2>3. IsOpen(last[rule[s]]) /\ IsOpen(Decision(s))
    BY <2>1, <2>2 DEF Repeats, Typed, TypeOK
  <2>4. found[s].verdict = "triggered"
    <3>1. Recovery(seen[s]) \in {"OK", "DDOK"}
      BY DEF Recovery
    <3> QED
      BY <2>3, <3>1, <2>1 DEF Decision, IsOpen, NewEvent
  <2>5. MayRepeat(s) /\ Decision(s) = NewEvent(s, ProblemStatus, seen[s].step + 1)
    BY <2>1, <2>3, <2>4 DEF Decision
  <2> QED
    BY <2>1, <2>5 DEF MayRepeat, NewEvent
<1> QED
  BY <1>1, <1>2, WhoSetsLast

\* Handled one by one, the requests for a series repeat an alarm only on points
\* newer than the one that alarmed, counted up by one, MinInterval after it.
THEOREM RepeatsSpaced ==
  ASSUME OneSender
  PROVE  Spec => RepeatsOnNewPoints
<1>1. Init => SeenCurrent
  BY DEF Init, SeenCurrent
<1>2. Spec => [](Typed /\ SeenCurrent)
  BY <1>1, SeenCurrentStep, TypedInit, TypedStep, PTL DEF Spec
<1>3. Spec => [][Spaced]_last
  BY <1>2, SpacedStep, PTL DEF Spec
<1> QED
  BY <1>3 DEF RepeatsOnNewPoints, Spaced

-----------------------------------------------------------------------------
(* One sender implements the episodes of AlarmEpisode. *)

\* A single sender's step is a step of AlarmEpisode or leaves its alarms alone.
LEMMA StepImplements ==
  Typed /\ Bounded /\ SeenCurrent /\ [Next]_vars => [Episodes!Next]_OpenAlarms
<1> SUFFICES ASSUME Typed, Bounded, SeenCurrent, [Next]_vars, last' # last
             PROVE  Episodes!Next \/ OpenAlarms' = OpenAlarms
  BY DEF OpenAlarms
<1>1. CASE Restart
  <2>1. OpenAlarms' = [r \in Rules |-> 0]
    BY <1>1 DEF Restart, OpenAlarms, IsOpen, NoEvent
  <2> QED
    BY <2>1 DEF Episodes!Next, Episodes!Forget
<1>2. ASSUME NEW s \in Senders, SendEvent(s) PROVE Episodes!Next \/ OpenAlarms' = OpenAlarms
  <2> DEFINE r == rule[s]
             e == Decision(s)
  <2>1. /\ pc[s] = "decide" /\ r \in Rules /\ seen[s] = last[r] /\ e # NoEvent
        /\ last' = [last EXCEPT ![r] = e]
    BY <1>2 DEF SendEvent, Goto, Typed, Placed, SeenCurrent
  <2>2. MayKeep(last[r], r, metric) /\ MayKeep(e, r, metric) /\ Rule[r].maxStep \in Nat
    BY <1>2, <2>1, DecisionBounded, JudgeAssumption DEF Bounded, StepBound, SendEvent
  <2>3. last[r] \in Event \cup {NoEvent} /\ last \in [Rules -> Event \cup {NoEvent}]
    BY <2>1 DEF Typed, TypeOK
  <2>4. OpenAlarms' = [OpenAlarms EXCEPT ![r] = IF IsOpen(e) THEN e.step ELSE 0]
    <3> HIDE DEF r, e
    <3> QED
      BY <2>1, <2>3 DEF OpenAlarms, IsOpen
  <2>5. IsOpen(last[r]) => OpenAlarms[r] = last[r].step /\ last[r].step \in 1..Rule[r].maxStep
    <3>1. IsOpen(last[r]) => Alarming(last[r]) /\ last[r] # NoEvent
      BY <2>2, <2>3 DEF MayKeep, IsOpen, Alarming, Event, NoEvent
    <3> QED
      BY <2>1, <2>2, <3>1 DEF OpenAlarms, MayKeep, Counted
  <2>6. ~IsOpen(last[r]) => OpenAlarms[r] = 0
    BY <2>1 DEF OpenAlarms
  <2>7. ProblemStatus \in {"PROBLEM", "DDALARM"} /\ Recovery(seen[s]) \in {"OK", "DDOK"}
    BY DEF ProblemStatus, Recovery
  <2>11. MaxSteps[r] = Rule[r].maxStep
    BY <2>1 DEF MaxSteps
  <2>8. CASE found[s].verdict = "triggered" /\ ~IsOpen(last[r])
    <3>1. e = NewEvent(s, ProblemStatus, 1) /\ Rule[r].maxStep # 0
      BY <2>1, <2>8 DEF Decision
    <3>2. IsOpen(e) /\ e.step = 1
      BY <3>1, <2>7 DEF IsOpen, NewEvent
    <3>3. /\ OpenAlarms[r] = 0 /\ MaxSteps[r] > 0
          /\ OpenAlarms' = [OpenAlarms EXCEPT ![r] = 1]
      <4>1. (IF IsOpen(e) THEN e.step ELSE 0) = 1
        BY <3>2
      <4>2. Rule[r].maxStep > 0
        BY <2>2, <3>1
      <4> QED
        BY <2>4, <2>6, <2>8, <2>11, <4>1, <4>2
    <3>4. Episodes!Raise(r)
      BY <3>3 DEF Episodes!Raise
    <3> QED
      BY <2>1, <3>4 DEF Episodes!Next
  <2>9. CASE found[s].verdict = "triggered" /\ IsOpen(last[r])
    <3>1. MayRepeat(s) /\ e = NewEvent(s, ProblemStatus, last[r].step + 1)
      BY <2>1, <2>9 DEF Decision
    <3>2. IsOpen(e) /\ e.step = last[r].step + 1 /\ last[r].step < Rule[r].maxStep
      BY <2>1, <2>7, <3>1 DEF IsOpen, NewEvent, MayRepeat
    <3>3. /\ OpenAlarms[r] \in 1..(MaxSteps[r] - 1)
          /\ OpenAlarms' = [OpenAlarms EXCEPT ![r] = OpenAlarms[r] + 1]
      <4>1. (IF IsOpen(e) THEN e.step ELSE 0) = OpenAlarms[r] + 1
        BY <2>5, <2>9, <3>2
      <4>2. OpenAlarms[r] \in 1..(Rule[r].maxStep - 1)
        BY <2>2, <2>5, <2>9, <3>2
      <4> QED
        BY <2>4, <2>11, <4>1, <4>2
    <3>4. Episodes!Repeat(r)
      BY <3>3 DEF Episodes!Repeat
    <3> QED
      BY <2>1, <3>4 DEF Episodes!Next
  <2>10. CASE found[s].verdict # "triggered"
    <3>1. last[r].status \in {"PROBLEM", "DDALARM"} /\ e = NewEvent(s, Recovery(seen[s]), 1)
      BY <2>1, <2>10 DEF Decision
    <3>2. IsOpen(last[r]) /\ ~IsOpen(e)
      BY <2>7, <3>1 DEF IsOpen, NewEvent
    <3>3. Episodes!Recover(r)
      BY <2>4, <2>5, <3>2 DEF Episodes!Recover
    <3> QED
      BY <2>1, <3>3 DEF Episodes!Next
  <2> QED
    BY <2>8, <2>9, <2>10
<1> QED
  BY <1>1, <1>2, WhoSetsLast

\* Whatever the points are, the alarms of every rule come in episodes: numbered
\* from 1 without a gap to at most maxStep, ended by one recovery or a restart.
THEOREM JudgeImplementsEpisodes ==
  ASSUME OneSender
  PROVE  Spec => ImplementsEpisodes
<1>1. Init => SeenCurrent /\ Bounded
  BY DEF Init, SeenCurrent, Bounded, StepBound, MayKeep
<1>2. Init => Episodes!Init
  BY DEF Init, Episodes!Init, OpenAlarms, IsOpen, NoEvent
<1> QED
  BY <1>1, <1>2, SeenCurrentStep, BoundedStep, TypedInit, TypedStep, StepImplements, PTL
     DEF Spec, ImplementsEpisodes, Episodes!Spec

-----------------------------------------------------------------------------
(* One sender and a redis that takes every event: what redis was told last. *)

Publishing(r) == \E s \in Senders : pc[s] = "publish" /\ event[s] = last[r]
Tells(i, r)   == pages[i].rule = r /\ pages[i].status # "DDALERT"
ToldLast(r)   == \E i \in DOMAIN pages :
                   /\ Tells(i, r) /\ pages[i] = last[r]
                   /\ \A j \in DOMAIN pages : Tells(j, r) => j <= i

\* What is being published is in the map, and what is in the map was told last.
Agreed ==
  /\ \A s \in Senders : pc[s] = "publish" /\ event[s].status # "DDALERT" => event[s] = last[event[s].rule]
  /\ \A r \in Rules : last[r] = NoEvent \/ Publishing(r) \/ ToldLast(r)

\* The largest of a set of numbers.
LEMMA MaxIs ==
  ASSUME NEW S, NEW m \in S, S \subseteq Int, \A x \in S : x <= m
  PROVE  Max(S) = m
<1>1. \E x \in S : \A y \in S : x >= y
  OBVIOUS
<1>2. Max(S) \in S /\ \A y \in S : Max(S) >= y
  BY <1>1 DEF Max
<1>3. PICK k : k = Max(S)
  OBVIOUS
<1>4. k \in Int /\ m \in Int /\ k <= m /\ m <= k
  BY <1>2, <1>3
<1>5. k = m
  BY ONLY <1>4
<1> QED
  BY <1>3, <1>5

\* An event goes to the map and is being published.
LEMMA AgreedSend ==
  ASSUME OneSender, Typed, Agreed, NEW s \in Senders, SendEvent(s)
  PROVE  Agreed'
<1>1. /\ pc[s] = "decide" /\ pc' = [pc EXCEPT ![s] = "publish"]
      /\ event' = [event EXCEPT ![s] = Decision(s)]
      /\ last' = [last EXCEPT ![rule[s]] = Decision(s)]
      /\ pages' = pages /\ Decision(s) # NoEvent /\ rule[s] \in Rules
  BY DEF SendEvent, Goto, Typed, Placed
<1>2. PICK e : e = Decision(s)
  OBVIOUS
<1>3. /\ pc'[s] = "publish" /\ event'[s] = e /\ last'[rule[s]] = e
      /\ \A r \in Rules : r # rule[s] => last'[r] = last[r]
  BY <1>1, <1>2 DEF Typed, TypeOK
<1>4. e.rule = rule[s]
  BY <1>1, <1>2 DEF Decision, NewEvent
<1>5. ASSUME NEW r \in Rules PROVE last'[r] = NoEvent \/ Publishing(r)' \/ ToldLast(r)'
  <2>1. CASE r = rule[s]
    BY <2>1, <1>3 DEF Publishing
  <2>2. CASE r # rule[s]
    <3>1. ~Publishing(r)
      BY <1>1, OneSender DEF Publishing, OneSender
    <3>2. last[r] = NoEvent \/ ToldLast(r)
      BY <3>1 DEF Agreed
    <3> QED
      BY <2>2, <3>2, <1>1, <1>3 DEF ToldLast, Tells
  <2> QED
    BY <2>1, <2>2
<1>6. ASSUME NEW t \in Senders PROVE event'[t] = last'[event'[t].rule]
  <2>1. t = s
    BY OneSender DEF OneSender
  <2> QED
    BY <2>1, <1>3, <1>4
<1> QED
  BY <1>5, <1>6 DEF Agreed

\* Redis takes it.
LEMMA AgreedPublish ==
  ASSUME OneSender, ~RedisFails, Typed, Bounded, Agreed, NEW s \in Senders, Publish(s)
  PROVE  Agreed'
<1>1. PICK e : e = event[s]
  OBVIOUS
<1>2. /\ pc[s] = "publish" /\ pages' = Append(pages, e) /\ last' = last
      /\ rule[s] \in Rules /\ e \in Event
      /\ \A t \in Senders : pc'[t] # "publish"
  <2>1. /\ pc[s] = "publish" /\ pages' = Append(pages, e) /\ last' = last
        /\ rule[s] \in Rules /\ e \in Event
        /\ pc' = [pc EXCEPT ![s] = Loop(rule[s])]
    BY <1>1 DEF Publish, NextRule, Typed, Placed
  <2>2. ASSUME NEW t \in Senders PROVE pc'[t] # "publish"
    <3>1. t = s
      BY OneSender DEF OneSender
    <3> QED
      BY <2>1, <3>1 DEF Loop, Typed, TypeOK
  <2> QED
    BY <2>1, <2>2
<1>3. PICK n : n = Len(pages) /\ n \in Nat
  <2>1. pages \in Seq(Event)
    BY DEF Typed, TypeOK
  <2>2. Len(pages) \in Nat
    BY ONLY <2>1
  <2> QED
    BY <2>2
<1>4. /\ DOMAIN pages = 1..n /\ DOMAIN pages' = 1..n + 1
      /\ pages'[n + 1] = e /\ \A i \in 1..n : pages'[i] = pages[i]
  BY <1>2, <1>3 DEF Typed, TypeOK
<1>5. \A i \in 1..n + 1 : i \in 1..n \/ i = n + 1
  BY <1>3
<1>6. ASSUME NEW r \in Rules, last[r] # NoEvent PROVE ToldLast(r)'
  <2>1. CASE e.rule = r /\ e.status # "DDALERT"
    <3>1. e = last[r]
      BY <2>1, <1>1, <1>2 DEF Agreed
    <3>2. n + 1 \in DOMAIN pages' /\ \A j \in DOMAIN pages' : j <= n + 1
      BY <1>3, <1>4
    <3>3. pages'[n + 1] = last'[r] /\ pages'[n + 1].rule = r /\ pages'[n + 1].status # "DDALERT"
      BY <2>1, <3>1, <1>2, <1>4
    <3> QED
      BY <3>2, <3>3 DEF ToldLast, Tells
  <2>2. CASE ~(e.rule = r /\ e.status # "DDALERT")
    <3>1. ~Publishing(r)
      <4>1. last[r].rule = r /\ last[r].status # "DDALERT"
        BY <1>6 DEF Bounded, StepBound, MayKeep
      <4> QED
        BY <4>1, <2>2, <1>1, OneSender DEF Publishing, OneSender
    <3>2. ToldLast(r)
      BY <3>1, <1>6 DEF Agreed
    <3>3. PICK i \in 1..n : /\ Tells(i, r) /\ pages[i] = last[r]
                            /\ \A j \in 1..n : Tells(j, r) => j <= i
      BY <3>2, <1>4 DEF ToldLast
    <3>4. i \in 1..n + 1 /\ pages'[i] = last'[r] /\ pages'[i].rule = r /\ pages'[i].status # "DDALERT"
      BY <3>3, <1>2, <1>3, <1>4 DEF Tells
    <3>5. ASSUME NEW j \in 1..n + 1, pages'[j].rule = r, pages'[j].status # "DDALERT" PROVE j <= i
      <4>1. j \in 1..n /\ pages[j] = pages'[j]
        BY <3>5, <2>2, <1>4, <1>5
      <4> QED
        BY <4>1, <3>3, <3>5 DEF Tells
    <3> QED
      BY <3>4, <3>5, <1>4 DEF ToldLast, Tells
  <2> QED
    BY <2>1, <2>2
<1> QED
  BY <1>2, <1>6 DEF Agreed

\* Nothing else touches an event between the map and redis.
LEMMA AgreedStep ==
  ASSUME OneSender, ~RedisFails
  PROVE  Typed /\ Bounded /\ Agreed /\ [Next]_vars => Agreed'
<1> SUFFICES ASSUME Typed, Bounded, Agreed, [Next]_vars PROVE Agreed'
  OBVIOUS
<1>1. ASSUME UNCHANGED <<last, pages, event>>,
             \A s \in Senders : pc[s] = "publish" <=> pc'[s] = "publish"
      PROVE  Agreed'
  BY <1>1 DEF Agreed, Publishing, ToldLast, Tells
<1>2. CASE Restart
  BY <1>2 DEF Restart, Agreed
<1>3. CASE Tick \/ SyncStrategies \/ SyncExpression \/ SyncFilter \/ UNCHANGED vars
  <2>1. UNCHANGED <<last, pages, event, pc>>
    BY <1>3 DEF Tick, SyncStrategies, SyncExpression, SyncFilter, vars, senderVars
  <2> QED
    BY <2>1, <1>1
<1>4. ASSUME NEW s \in Senders, Step(s) PROVE Agreed'
  <2>0. ASSUME NEW t \in Senders PROVE t = s
    BY OneSender DEF OneSender
  <2>1. CASE SendEvent(s)
    BY <2>1, AgreedSend
  <2>2. CASE Publish(s)
    BY <2>2, AgreedPublish
  <2>3. CASE SendWithoutSave(s)
    <3>1. /\ pc[s] = "decide" /\ UNCHANGED <<last, pages>>
          /\ event' = [event EXCEPT ![s] = NewEvent(s, "DDALERT", 0)]
      BY <2>3 DEF SendWithoutSave, Goto
    <3>2. event'[s].status = "DDALERT"
      BY <3>1 DEF NewEvent, Typed, TypeOK
    <3>3. \A r \in Rules : ~Publishing(r)
      BY <2>0, <3>1 DEF Publishing
    <3> QED
      BY <2>0, <3>1, <3>2, <3>3 DEF Agreed, ToldLast, Tells
  <2>4. CASE BeginSend(s) \/ CheckExpression(s) \/ EndItem(s) \/ EndSend(s) \/ GetLastEvent(s) \/ \E p \in Point : Receive(s, p)
    <3>1. UNCHANGED <<last, pages, event>> /\ pc[s] # "publish" /\ pc'[s] # "publish"
      BY <2>4 DEF BeginSend, CheckExpression, EndItem, EndSend, GetLastEvent, Receive, Goto, Typed, TypeOK
    <3> QED
      BY <2>0, <3>1, <1>1
  <2>5. ASSUME NEW r \in Rules, JudgeItem(s, r) PROVE Agreed'
    <3>1. UNCHANGED <<last, pages, event>> /\ pc[s] # "publish" /\ pc'[s] # "publish"
      BY <2>5 DEF JudgeItem, Loop, Typed, TypeOK
    <3> QED
      BY <2>0, <3>1, <1>1
  <2>6. CASE Stay(s)
    <3>1. UNCHANGED <<last, pages>> /\ pc[s] # "publish" /\ pc'[s] # "publish"
      BY <2>6 DEF Stay, NextRule, Loop, Typed, TypeOK
    <3> QED
      BY <2>0, <3>1 DEF Agreed, Publishing, ToldLast, Tells
  <2> QED
    BY <1>4, <2>1, <2>2, <2>3, <2>4, <2>5, <2>6 DEF Step
<1> QED
  BY <1>2, <1>3, <1>4 DEF Next

\* src/judge/rpc/receiver.go, store/judge.go:78-100: handled one by one, and with a redis that
\* takes every LPUSH, the requests for a series leave in redis, as the last word about a rule,
\* what the judge believes of it, for any points, rules and restarts.
THEOREM PagesAreBelieved ==
  ASSUME OneSender, ~RedisFails
  PROVE  Spec => []PagesAgree
<1>1. Init => Bounded /\ Agreed
  BY DEF Init, Bounded, StepBound, MayKeep, Agreed
<1>2. Typed /\ Agreed => PagesAgree
  <2> SUFFICES ASSUME Typed, Agreed, NEW r \in Rules, ToldLast(r)
               PROVE  LET told == {i \in DOMAIN pages : pages[i].rule = r /\ pages[i].status # "DDALERT"}
                      IN  told # {} /\ pages[Max(told)] = last[r]
    BY DEF Agreed, PagesAgree, Publishing
  <2>1. PICK told : told = {i \in DOMAIN pages : Tells(i, r)}
    OBVIOUS
  <2>2. told \subseteq Int
    BY <2>1 DEF Typed, TypeOK
  <2>3. PICK i \in told : pages[i] = last[r] /\ \A j \in told : j <= i
    BY <2>1 DEF ToldLast
  <2>4. Max(told) = i
    BY <2>2, <2>3, MaxIs
  <2> QED
    BY <2>1, <2>3, <2>4 DEF Tells
<1> QED
  BY <1>1, <1>2, AgreedStep, BoundedStep, TypedInit, TypedStep, PTL DEF Spec
=============================================================================
