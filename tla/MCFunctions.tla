------------------------------ MODULE MCFunctions ------------------------------
(***************************************************************************)
(* A series on every input of a small instance.  A behaviour builds one    *)
(* input for the pure parts of judge, transfer and graph: a series, as     *)
(* PushFrontAndMaintain lets it grow, for the functions of JudgeFunc and   *)
(* for GraphQuery, or two values of a series, over rpc or the socket, for  *)
(* TransferItem.  Or it is one of JudgeHistory, where senders push on the  *)
(* series and walk over it at the same time.                               *)
(***************************************************************************)
EXTENDS MCJudgeHistory, JudgeFunc, GatewayItem, GraphQuery

CONSTANTS
  Keep, LastTs, Numbers, Limits,    \* of the series
  Timestamps, Steps                 \* of the values

ASSUME InputAssumption ==
  /\ Keep \in Nat \ {0} /\ LastTs \in Nat /\ Numbers \subseteq Int /\ Limits \subseteq Nat \ {0}
  /\ Timestamps \subseteq Int /\ Steps \subseteq Int

MCNumbers    == {-1, 0, 2}
MCTimestamps == (-1..6) \cup {10, 12}
MCSteps      == {-1, 0, 1, 2, 3}

VARIABLES
  type, pts,  \* the judge type and the points of a series, newest first
  items,      \* what transfer accepted, oldest first
  part        \* what the behaviour is about

inputs == <<type, pts, items>>

MCInit ==
  /\ Init /\ part \in {"input", "history"}
  /\ type \in {"GAUGE", "COUNTER"} /\ (part = "history" => type = "GAUGE")
  /\ pts = <<>> /\ items = <<>>

PushPoint ==
  /\ items = <<>>
  /\ \E t \in 1..LastTs, v \in Numbers :
       /\ pts # <<>> => t > pts[1].ts
       /\ pts' = SubSeq(<<[ts |-> t, val |-> v]>> \o pts, 1,
                        IF Len(pts) < Keep THEN Len(pts) + 1 ELSE Keep)
  /\ UNCHANGED <<type, items>>

Values ==
  [metric : {"named", "kernel.hostname", "empty"}, endpoint : {"named", "empty"},
   tags : {"fit", "torn", "tooLong"}, type : Types \cup {"other"}, value : {"number", "numeral", "text"},
   step : Steps, ts : Timestamps]
Lines == [fields : 4..6, ts : Timestamps, type : Types \cup {"other"}, step : Steps]

MoreItems == type = "GAUGE" /\ pts = <<>> /\ Len(items) < 2

\* An rpc value counts as 0 fields.
Accept(i, fields) ==
  /\ items' = Append(items, [item |-> i, fields |-> fields])
  /\ UNCHANGED <<type, pts>>

OverRpc    == MoreItems /\ \E v \in Values : ~Refused(v) /\ Accept(Received(v), 0)
OverSocket == MoreItems /\ \E l \in Lines : ~LineRefused(l) /\ Accept(ReadLine(l), l.fields)

\* What a gateway accepts and transfer then takes: values, or lines.
ByGateway(i) == ~Refused(convert(i)) /\ Accept(Received(convert(i)), 0)
OverGateway ==
  /\ MoreItems
  /\ \/ \E v \in Values : ~GatewayRefuses(v) /\ ByGateway(Received(v))
     \/ \E l \in Lines : ~LineRefused(l) /\ ByGateway(LineItem(l))

Input == PushPoint \/ OverRpc \/ OverSocket \/ OverGateway

MCNext ==
  /\ UNCHANGED part
  /\ \/ part = "input" /\ Input /\ UNCHANGED vars
     \/ part = "history" /\ Next /\ UNCHANGED inputs

MCSpec == MCInit /\ [][MCNext]_<<inputs, vars, part>>

-----------------------------------------------------------------------------
(* The functions of the judge *)

Operators == {"==", "!=", "<", "<=", ">", ">="}
Function(fn, limit, num, op, right) ==
  [fn |-> fn, limit |-> limit, num |-> num, op |-> op, right |-> Frac(right, 1)]
History(f) == HistoryData(pts, type, Limit(f))
Ready(f)   == IsEnough(pts, type, Limit(f))

\* The number an alarm shows (leftValue) is one that meets the condition the
\* alarm is about, for each function that compares what it shows.
ReportedValueDecides ==
  \A fn \in {"max", "min", "sum", "avg", "diff"}, n \in Limits, op \in Operators, right \in Numbers :
    LET f == Function(fn, n, 0, op, right) IN
    Ready(f) => LET c == Compute(f, History(f)) IN c.triggered = Triggers(c.left, op, f.right)

\* all(#n) is lookup(#n,#n): the two ways a user can write it agree, and
\* lookup(#1,#n) triggers where max or min does for an open comparison.
LookupAgrees ==
  \A n \in Limits, op \in Operators, right \in Numbers :
    LET all == Function("all", n, 0, op, right)
        has(k) == Compute(Function("lookup", n, k, op, right), History(all)).triggered
        max == Compute(Function("max", n, 0, op, right), History(all)).triggered
        min == Compute(Function("min", n, 0, op, right), History(all)).triggered
    IN Ready(all) =>
         /\ Compute(all, History(all)).triggered = has(n)
         /\ \A k \in 2..n : has(k) => has(k - 1)
         /\ op \in {">", ">="} => max = has(1) /\ min = has(n)
         /\ op \in {"<", "<="} => min = has(1) /\ max = has(n)

\* The rates of a counter are taken between neighbours and add up, weighted by
\* the time between the points, to the rise over the whole window.
RatesAddUp ==
  \A n \in Limits :
    LET f == Function("sum", n, 0, ">", 0)
        Rise(i) == Frac(pts[i].ts - pts[i + 1].ts, 1)
        total == FoldLeft(LAMBDA acc, i : Plus(acc, Frac(History(f)[i].val.n * Rise(i).n, History(f)[i].val.d)),
                          Frac(0, 1), [i \in 1..n |-> i])
    IN (type = "COUNTER" /\ Ready(f)) => SameValue(total, Frac(pts[1].val - pts[n + 1].val, 1))

\* The functions of the judge agree with what an alarm shows and with each other.
FunctionsAgree == ReportedValueDecides /\ LookupAgrees /\ RatesAddUp

-----------------------------------------------------------------------------
(* What transfer makes of its values *)

Item(n)  == items[n].item
Accepted == 1..Len(items)

\* The judge is given a point under the timestamp it is stored under, although
\* the two queues are filled by different functions.
SameInstant == \A n \in Accepted : JudgeItem(Item(n)).ts = GraphItem(Item(n)).ts

\* Two points of a series that are a step apart stay in their order and get
\* different timestamps; points of the same step never change places.
StepsKeptApart ==
  \A m, n \in Accepted :
    LET a == Item(m)  b == Item(n)
        aligned(i) == alignTs(i.ts, StepOf(a))
    IN  (a.ts >= 0 /\ a.ts < b.ts) =>
          /\ aligned(a) <= aligned(b)
          /\ b.ts - a.ts >= StepOf(a) => aligned(a) < aligned(b)
          /\ aligned(a) <= a.ts

\* Whatever an agent sends over rpc, no item is dated further ahead than twice
\* the present, where no later point could replace it.
NeverFarAhead ==
  \A n \in Accepted : items[n].fields = 0 => GraphItem(Item(n)).ts \in 0..(2 * Now)

\* The timestamps of judge and graph are one, keep points apart, and do not run ahead.
TimesAgree == SameInstant /\ StepsKeptApart /\ NeverFarAhead

-----------------------------------------------------------------------------
(* What graph answers *)

\* The series as the cache of graph has it, one step of 2 for each timestamp.
\* The file, or the old node, answers with a value for every step, or not at all.
QueryStep == 2
Points    == Reverse([n \in DOMAIN pts |-> Datum(QueryStep * pts[n].ts, pts[n].val)])
Answers(steps) == {<<>>} \cup [1..steps -> {NaN, 7}]

\* A query is answered with one value for every step: the cached one where there
\* is one, the file's where there is none, and NaN where neither has one.  The
\* newest value, which Last takes from another cache, is in it: that of a counter
\* a step before its time, unless the counter was restarted.
AnswerIsComplete ==
  pts # <<>> /\ (\A n \in DOMAIN pts : pts[n].val >= 0) =>
    \A start \in {3, 6}, end \in {5, 8, 9} :
      LET from  == StartTs(start, QueryStep)
          to    == EndTs(end, QueryStep) - (IF type = "GAUGE" THEN 0 ELSE QueryStep)
          steps == ((to - from) \div QueryStep) + 1
          last  == GetLast(Points, type, QueryStep)
          shown == last.ts - (IF type = "GAUGE" THEN 0 ELSE QueryStep)
          fresh(ts) == ValueAt(Points, type, QueryStep, ts)
      IN \A vals \in Answers(steps) :
           LET stored(k) == IF vals = <<>> THEN NaN ELSE vals[k]
               file   == [k \in DOMAIN vals |-> Datum(from + (k - 1) * QueryStep, vals[k])]
               answer == Query(file, Points, type, QueryStep, start, end)
           IN EndTs(end, QueryStep) - from > QueryStep =>
                /\ Len(answer) = steps
                /\ \A k \in 1..steps :
                     LET ts == from + (k - 1) * QueryStep IN
                     answer[k] = Datum(ts, IF fresh(ts) # NaN THEN fresh(ts) ELSE stored(k))
                /\ (last.ts # 0 /\ shown \in from..to /\ fresh(shown) # NaN) =>
                     Datum(shown, last.val) \in Range(answer)
=============================================================================
