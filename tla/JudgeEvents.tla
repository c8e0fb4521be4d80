------------------------------ MODULE JudgeEvents ------------------------------
(***************************************************************************)
(* How the judge turns the points of one series into alarm events          *)
(* (src/judge/rpc/receiver.go, store/judge.go, cron/strategy.go).          *)
(*                                                                         *)
(* Judge.Send runs in a goroutine per request, so several Senders handle   *)
(* points of the same series at once.  Between the locked operations (the  *)
(* push on the list, LastEvents.Get, LastEvents.Set, the LPUSH) anything   *)
(* of another goroutine may happen: each of them is an action here.  The   *)
(* walk over the list inside Compute is one action; module JudgeHistory    *)
(* takes it apart.                                                         *)
(*                                                                         *)
(* A rule is a strategy or an expression related to the series; its event  *)
(* id contains the rule and the series, so LastEvents is a function of the *)
(* rule.                                                                   *)
(***************************************************************************)
EXTENDS JudgeFunc

CONSTANTS
  Senders,      \* goroutines of Judge.Send
  Strategies,   \* the rules found by CheckStrategy ...
  Expressions,  \* ... and by CheckExpression
  NoRule,       \* none of them
  Rule,         \* rule -> [fn, limit, num, op, right, maxStep]
  Type,         \* "GAUGE" or "COUNTER": the judge type of the series
  Metrics,      \* kinds of metric: in one of the config's lists or "plain"
  Remain,       \* config: points kept per series
  MinInterval,  \* config: seconds between two alarms of an event
  Values,       \* values a point can have
  MaxTs,        \* bound: timestamps of points
  MaxClock,     \* bound: the judge's clock
  MaxPages,     \* bound: events accepted by redis
  MaxSyncs,     \* bound: rounds of the SyncStrategies loop
  MaxRestarts,  \* bound: restarts
  RedisFails    \* BOOLEAN: may an LPUSH fail

Rules == Strategies \cup Expressions

ASSUME JudgeAssumption ==
  /\ Strategies \cap Expressions = {} /\ NoRule \notin Rules
  /\ Type \in {"GAUGE", "COUNTER"}
  /\ Metrics \subseteq {"plain", "ignoreSelf", "problemSelf"}
  /\ Remain \in Nat \ {0}
  /\ MinInterval \in Nat
  /\ Values \subseteq Int
  /\ MaxTs \in Nat /\ MaxClock \in Nat /\ MaxPages \in Nat
  /\ MaxSyncs \in Nat /\ MaxRestarts \in Nat
  /\ RedisFails \in BOOLEAN
  /\ \A r \in Rules :
       /\ Rule[r].limit \in Int
       /\ Rule[r].maxStep \in Nat

VARIABLES
  metric,       \* the kind of the series' metric
  clock,        \* time.Now() of the judge
  strategyMap,  \* g.StrategyMap, g.ExpressionMap: the rules installed
  expressionMap,
  filter,       \* g.FilterMap: is the metric of the series in it
  syncing,      \* the next step of the SyncStrategies loop
  syncs,        \* its rounds since the start
  restarts,     \* restarts so far
  series,       \* the list of the series, newest point first
  last,         \* g.LastEvents
  pages,        \* what redis accepted, oldest first
  pc,           \* where a sender is in Judge.Send
  now,          \* the `now` of the request the sender handles
  item,         \* the point it handles
  todo,         \* the rules it has not judged yet
  rule,         \* the rule it judges
  found,        \* what Compute returned
  seen,         \* lastEvent, as LastEvents.Get returned it
  event         \* the event it is about to publish

syncVars   == <<metric, strategyMap, expressionMap, filter, syncing, syncs>>
senderVars == <<pc, now, item, todo, rule, found, seen, event>>
vars == <<clock, restarts, syncVars, series, last, pages, senderVars>>

NoEvent == [status |-> "none", step |-> 0, time |-> 0, at |-> 0, oldest |-> 0,
            rule |-> NoRule]

Point     == [ts : 1..MaxTs, val : Values]
NoPoint   == [ts |-> 0, val |-> 0]
\* at and oldest are not fields of the code's Event: they record when the
\* event was judged and the oldest point it was judged on.
Event     == [status : {"PROBLEM", "OK", "DDALARM", "DDOK", "DDALERT"}, step : Nat,
              time : 1..MaxTs, at : 0..MaxClock, oldest : 0..MaxTs, rule : Rules]
NotJudged == [verdict |-> "notEnough", oldest |-> 0]

-----------------------------------------------------------------------------
Init ==
  /\ metric \in Metrics
  /\ clock = 0
  /\ strategyMap = {} /\ expressionMap = {} /\ filter = FALSE
  /\ syncing = "strategies" /\ syncs = 0 /\ restarts = 0
  /\ series = <<>>
  /\ last = [r \in Rules |-> NoEvent]
  /\ pages = <<>>
  /\ pc = [s \in Senders |-> "idle"]
  /\ now = [s \in Senders |-> 0]
  /\ item = [s \in Senders |-> NoPoint]
  /\ todo = [s \in Senders |-> {}]
  /\ rule = [s \in Senders |-> NoRule]
  /\ found = [s \in Senders |-> NotJudged]
  /\ seen = [s \in Senders |-> NoEvent]
  /\ event = [s \in Senders |-> NoEvent]

Tick ==
  /\ clock < MaxClock
  /\ clock' = clock + 1
  /\ UNCHANGED <<restarts, syncVars, series, last, pages, senderVars>>

-----------------------------------------------------------------------------
(* The SyncStrategies loop.  A failed call of hbs leaves the old map, so   *)
(* any answer includes "unchanged".                                        *)

SyncStrategies ==
  /\ syncing = "strategies" /\ syncing' = "expressions"
  /\ syncs < MaxSyncs /\ syncs' = syncs + 1
  /\ strategyMap' \in SUBSET Strategies
  /\ UNCHANGED <<metric, clock, restarts, expressionMap, filter, series, last, pages, senderVars>>

SyncExpression ==
  /\ syncing = "expressions" /\ syncing' = "filter"
  /\ expressionMap' \in SUBSET Expressions
  /\ UNCHANGED <<metric, clock, restarts, syncs, strategyMap, filter, series, last, pages, senderVars>>

SyncFilter ==
  /\ syncing = "filter" /\ syncing' = "strategies"
  /\ filter' = (strategyMap \cup expressionMap # {})
  /\ UNCHANGED <<metric, clock, restarts, syncs, strategyMap, expressionMap, series, last, pages, senderVars>>

-----------------------------------------------------------------------------
(* Judge.Send *)

Goto(s, from, to) == pc[s] = from /\ pc' = [pc EXCEPT ![s] = to]

BeginSend(s) ==
  /\ Goto(s, "idle", "items")
  /\ now' = [now EXCEPT ![s] = clock]
  /\ UNCHANGED <<clock, restarts, syncVars, series, last, pages, item, todo, rule, found, seen, event>>

\* Mutant: a point with the front's timestamp is taken in again.
AcceptsEqual(pts, p) == pts # <<>> => p.ts >= pts[1].ts

\* SafeLinkedList.PushFrontAndMaintain takes p in.
Accepts(pts, p) == pts # <<>> => p.ts > pts[1].ts
Pushed(pts, p)  == SubSeq(<<p>> \o pts, 1, IF Len(pts) < Remain THEN Len(pts) + 1 ELSE Remain)

\* An item of a metric without rules, or not newer than the front, is skipped.
Receive(s, p) ==
  /\ Len(pages) < MaxPages
  /\ filter
  /\ Accepts(series, p)
  /\ Goto(s, "items", "strategies")
  /\ series' = Pushed(series, p)
  /\ item' = [item EXCEPT ![s] = p]
  /\ todo' = [todo EXCEPT ![s] = strategyMap]
  /\ UNCHANGED <<clock, restarts, syncVars, last, pages, now, rule, found, seen, event>>

CheckExpression(s) ==
  /\ todo[s] = {}
  /\ Goto(s, "strategies", "expressions")
  /\ todo' = [todo EXCEPT ![s] = expressionMap]
  /\ UNCHANGED <<clock, restarts, syncVars, series, last, pages, now, item, rule, found, seen, event>>

\* Back to the loop over the rules, the locals of sendEventIfNeed gone.
Loop(r) == IF r \in Strategies THEN "strategies" ELSE "expressions"
NextRule(s) ==
  /\ pc' = [pc EXCEPT ![s] = Loop(rule[s])]
  /\ rule' = [rule EXCEPT ![s] = NoRule]
  /\ found' = [found EXCEPT ![s] = NotJudged]
  /\ seen' = [seen EXCEPT ![s] = NoEvent]
  /\ event' = [event EXCEPT ![s] = NoEvent]

\* judgeItemWithStrategy, judgeItemWithExpression up to sendEventIfNeed.
JudgeItem(s, r) ==
  LET f == Judged(Rule[r], series, Type) IN
  /\ pc[s] = Loop(r) /\ r \in todo[s]
  /\ todo' = [todo EXCEPT ![s] = @ \ {r}]
  /\ IF f.verdict # "notEnough"
     THEN /\ pc' = [pc EXCEPT ![s] = "judged"]
          /\ rule' = [rule EXCEPT ![s] = r]
          /\ found' = [found EXCEPT ![s] = f]
     ELSE UNCHANGED <<pc, rule, found>>
  /\ UNCHANGED <<clock, restarts, syncVars, series, last, pages, now, item, seen, event>>

\* LastEvents.Get at the top of sendEventIfNeed.
GetLastEvent(s) ==
  /\ Goto(s, "judged", "decide")
  /\ seen' = [seen EXCEPT ![s] = last[rule[s]]]
  /\ UNCHANGED <<clock, restarts, syncVars, series, last, pages, now, item, todo, rule, found, event>>

ProblemStatus == IF metric = "problemSelf" THEN "DDALARM" ELSE "PROBLEM"

NewEvent(s, status, step) ==
  [status |-> status, step |-> step, time |-> item[s].ts, at |-> now[s],
   oldest |-> found[s].oldest, rule |-> rule[s]]

\* The episode of an event that was kept is open: it exists and is no OK.
IsOpen(e) == e.status \notin {"none", "OK", "DDOK"}

Recovery(e) == IF e.status = "DDALARM" THEN "DDOK" ELSE "OK"

\* Mutant: the point that alarmed may alarm again.
MayRepeatSamePoint(s) ==
  /\ seen[s].step < Rule[rule[s]].maxStep
  /\ found[s].oldest >= seen[s].time
  /\ now[s] - seen[s].time >= MinInterval

\* The early returns of sendEventIfNeed for a condition that is still met.
MayRepeat(s) ==
  /\ seen[s].step < Rule[rule[s]].maxStep
  /\ found[s].oldest > seen[s].time
  /\ now[s] - seen[s].time >= MinInterval

\* Mutant: the step goes on counting after a recovery.
DecisionNoReset(s) ==
  IF found[s].verdict = "triggered"
  THEN IF ~IsOpen(seen[s]) \/ MayRepeat(s)
       THEN NewEvent(s, ProblemStatus, seen[s].step + 1)
       ELSE NoEvent
  ELSE IF seen[s].status \in {"PROBLEM", "DDALARM"}
       THEN NewEvent(s, Recovery(seen[s]), 1)
       ELSE NoEvent

\* The event sendEvent is called with, or NoEvent.
Decision(s) ==
  IF found[s].verdict = "triggered"
  THEN IF ~IsOpen(seen[s])
       THEN IF Rule[rule[s]].maxStep = 0 THEN NoEvent
            ELSE NewEvent(s, ProblemStatus, 1)
       ELSE IF MayRepeat(s) THEN NewEvent(s, ProblemStatus, seen[s].step + 1)
            ELSE NoEvent
  ELSE IF seen[s].status \in {"PROBLEM", "DDALARM"}
       THEN NewEvent(s, Recovery(seen[s]), 1)
       ELSE NoEvent

Alert(s) == metric = "ignoreSelf" /\ found[s].verdict = "triggered"

Stay(s) ==
  /\ pc[s] = "decide" /\ ~Alert(s) /\ Decision(s) = NoEvent
  /\ NextRule(s)
  /\ UNCHANGED <<clock, restarts, syncVars, series, last, pages, now, item, todo>>

\* Mutant: an event is published and not kept.
SendNothingKept(s) ==
  /\ ~Alert(s) /\ Decision(s) # NoEvent
  /\ Goto(s, "decide", "publish")
  /\ event' = [event EXCEPT ![s] = Decision(s)]
  /\ last' = IF found[s].verdict = "triggered" THEN [last EXCEPT ![rule[s]] = Decision(s)] ELSE last
  /\ UNCHANGED <<clock, restarts, syncVars, series, pages, now, item, todo, rule, found, seen>>
\* Mutant: an alert is kept like an alarm.
AlertKept(s) ==
  /\ Alert(s)
  /\ Goto(s, "decide", "publish")
  /\ event' = [event EXCEPT ![s] = NewEvent(s, "DDALERT", 0)]
  /\ last' = [last EXCEPT ![rule[s]] = NewEvent(s, "DDALERT", 0)]
  /\ UNCHANGED <<clock, restarts, syncVars, series, pages, now, item, todo, rule, found, seen>>

\* DDALERT is published and not kept for a recovery.
SendWithoutSave(s) ==
  /\ Alert(s)
  /\ Goto(s, "decide", "publish")
  /\ event' = [event EXCEPT ![s] = NewEvent(s, "DDALERT", 0)]
  /\ UNCHANGED <<clock, restarts, syncVars, series, last, pages, now, item, todo, rule, found, seen>>

SendEvent(s) ==
  /\ ~Alert(s) /\ Decision(s) # NoEvent
  /\ Goto(s, "decide", "publish")
  /\ event' = [event EXCEPT ![s] = Decision(s)]
  /\ last' = [last EXCEPT ![rule[s]] = Decision(s)]
  /\ UNCHANGED <<clock, restarts, syncVars, series, pages, now, item, todo, rule, found, seen>>

\* LPUSH; its error is not looked at.
Publish(s) ==
  /\ pc[s] = "publish"
  /\ NextRule(s)
  /\ \/ pages' = Append(pages, event[s])
     \/ RedisFails /\ UNCHANGED pages
  /\ UNCHANGED <<clock, restarts, syncVars, series, last, now, item, todo>>

EndItem(s) ==
  /\ todo[s] = {}
  /\ Goto(s, "expressions", "items")
  /\ item' = [item EXCEPT ![s] = NoPoint]
  /\ UNCHANGED <<clock, restarts, syncVars, series, last, pages, now, todo, rule, found, seen, event>>

EndSend(s) ==
  /\ Goto(s, "items", "idle")
  /\ now' = [now EXCEPT ![s] = 0]
  /\ UNCHANGED <<clock, restarts, syncVars, series, last, pages, item, todo, rule, found, seen, event>>

\* The process dies and starts again: only redis keeps what it has.
Restart ==
  /\ restarts < MaxRestarts /\ restarts' = restarts + 1
  /\ strategyMap' = {} /\ expressionMap' = {} /\ filter' = FALSE
  /\ syncing' = "strategies" /\ syncs' = 0
  /\ series' = <<>>
  /\ last' = [r \in Rules |-> NoEvent]
  /\ pc' = [s \in Senders |-> "idle"]
  /\ now' = [s \in Senders |-> 0]
  /\ item' = [s \in Senders |-> NoPoint]
  /\ todo' = [s \in Senders |-> {}]
  /\ rule' = [s \in Senders |-> NoRule]
  /\ found' = [s \in Senders |-> NotJudged]
  /\ seen' = [s \in Senders |-> NoEvent]
  /\ event' = [s \in Senders |-> NoEvent]
  /\ UNCHANGED <<metric, clock, pages>>

Step(s) ==
  \/ BeginSend(s)
  \/ \E p \in Point : Receive(s, p)
  \/ CheckExpression(s)
  \/ \E r \in Rules : JudgeItem(s, r)
  \/ GetLastEvent(s)
  \/ Stay(s)
  \/ SendWithoutSave(s)
  \/ SendEvent(s)
  \/ Publish(s)
  \/ EndItem(s)
  \/ EndSend(s)

Next ==
  \/ Tick \/ SyncStrategies \/ SyncExpression \/ SyncFilter \/ Restart
  \/ \E s \in Senders : Step(s)

Spec == Init /\ [][Next]_vars

-----------------------------------------------------------------------------
(* Properties *)

\* Every variable holds the values its comment says.
TypeOK ==
  /\ metric \in Metrics
  /\ clock \in 0..MaxClock
  /\ strategyMap \subseteq Strategies /\ expressionMap \subseteq Expressions
  /\ filter \in BOOLEAN
  /\ syncing \in {"strategies", "expressions", "filter"}
  /\ syncs \in 0..MaxSyncs /\ restarts \in 0..MaxRestarts
  /\ series \in Seq(Point)
  /\ last \in [Rules -> Event \cup {NoEvent}]
  /\ pages \in Seq(Event)
  /\ pc \in [Senders -> {"idle", "items", "strategies", "expressions",
                         "judged", "decide", "publish"}]
  /\ now \in [Senders -> 0..MaxClock]
  /\ item \in [Senders -> Point \cup {NoPoint}]
  /\ todo \in [Senders -> SUBSET Rules]
  /\ rule \in [Senders -> Rules \cup {NoRule}]
  /\ found \in [Senders -> [verdict : {"notEnough", "triggered", "quiet"}, oldest : 0..MaxTs]]
  /\ seen \in [Senders -> Event \cup {NoEvent}]
  /\ event \in [Senders -> Event \cup {NoEvent}]

\* The series is what a window is read from: newest first, no timestamp
\* twice (a counter divides by the difference), never more than Remain.
SeriesOrdered ==
  /\ Len(series) <= Remain
  /\ \A i, j \in DOMAIN series : i < j => series[i].ts > series[j].ts
SeriesSound == TypeOK /\ SeriesOrdered

Muted(r, m)  == Rule[r].maxStep = 0 \/ m = "ignoreSelf"
Alarming(e)  == e.status \in {"PROBLEM", "DDALARM"}
Counted(e)   == Alarming(e) => e.step \in 1..Rule[e.rule].maxStep
\* What LastEvents may hold for r.
MayKeep(e, r, m) ==
  \/ e = NoEvent
  \/ e.rule = r /\ e.status # "DDALERT" /\ ~Muted(r, m) /\ Counted(e)
MayPublish(e, m) == Counted(e) /\ (e.status = "DDALERT" \/ ~Muted(e.rule, m))

\* However the senders interleave, no rule alarms more often than its maxStep
\* allows, none with maxStep 0 alarms or recovers, and an alarm that is to be
\* forgotten at once (DDALERT) is never what a recovery is decided on.
StepBound ==
  /\ \A r \in Rules : MayKeep(last[r], r, metric)
  /\ \A i \in DOMAIN pages : MayPublish(pages[i], metric)

Repeats(r) == IsOpen(last[r]) /\ IsOpen(last'[r])

\* What follows needs that the requests for a series are handled one by one.
\* An alarm is repeated only on points newer than the one that alarmed before,
\* with the step counted up by one, and MinInterval after that point.
RepeatsOnNewPoints ==
  [][\A r \in Rules : Repeats(r) =>
        \/ last'[r] = last[r]
        \/ /\ last'[r].step = last[r].step + 1
           /\ last'[r].oldest > last[r].time
           /\ last'[r].at - last[r].time >= MinInterval]_last

\* judge.go:259: a point that produced an alarm is not used for another one.
PointAlarmsOnce ==
  [][\A r \in Rules : Repeats(r) =>
        last'[r] = last[r] \/ last'[r].oldest > last[r].time]_last

\* With a redis that takes every LPUSH, what it was told last about a rule is
\* what the judge believes, unless the event is being published right now.
PagesAgree ==
  \A r \in Rules :
    LET told == {i \in DOMAIN pages : pages[i].rule = r /\ pages[i].status # "DDALERT"}
    IN  \/ last[r] = NoEvent
        \/ \E s \in Senders : pc[s] = "publish" /\ event[s] = last[r]
        \/ told # {} /\ pages[Max(told)] = last[r]

\* The alarms of the open episode of each rule.
OpenAlarms == [r \in Rules |-> IF IsOpen(last[r]) THEN last[r].step ELSE 0]
MaxSteps   == [r \in Rules |-> Rule[r].maxStep]

Episodes == INSTANCE AlarmEpisode WITH MaxStep <- MaxSteps, open <- OpenAlarms

\* One sender implements the episodes of AlarmEpisode.
ImplementsEpisodes == Episodes!Spec
=============================================================================
