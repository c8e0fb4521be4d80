------------------------------- MODULE JudgeFunc -------------------------------
(***************************************************************************)
(* The threshold functions of the judge (src/judge/store/func.go) and the  *)
(* window of history they are computed on (store/linkedlist.go).           *)
(*                                                                         *)
(* A series is a sequence of points, newest first.  A value the code keeps *)
(* in a float64 is an exact fraction here: [n |-> numerator, d |-> a       *)
(* positive denominator].  stddev is left out: its mean and deviation come *)
(* from common/utils, which is not part of this repository.                *)
(***************************************************************************)
EXTENDS Integers, SequencesExt

Frac(n, d)     == [n |-> n, d |-> d]
Plus(a, b)     == Frac(a.n * b.d + b.n * a.d, a.d * b.d)
Minus(a, b)    == Frac(a.n * b.d - b.n * a.d, a.d * b.d)
Less(a, b)     == a.n * b.d < b.n * a.d
SameValue(a, b) == a.n * b.d = b.n * a.d

\* 10000 * |a - b|: the code takes values closer than 0.0001 for equal.
Distance(a, b) == LET d == Minus(a, b) IN Frac(10000 * (IF d.n < 0 THEN -d.n ELSE d.n), d.d)

\* checkIsTriggered; an operator the switch does not know never triggers.
Triggers(left, op, right) ==
    \/ op \in {"=", "=="} /\ Less(Distance(left, right), Frac(1, 1))
    \/ op = "!="          /\ Less(Frac(1, 1), Distance(left, right))
    \/ op \in {"<", "<="} /\ Less(left, right)
    \/ op \in {">", ">="} /\ Less(right, left)
    \/ op \in {"<=", ">="} /\ SameValue(left, right)

-----------------------------------------------------------------------------
(* SafeLinkedList.HistoryData on a list nobody is changing. *)

\* The points that have to be there: a counter point is a difference of two.
PointsNeeded(type, limit) == IF type = "GAUGE" THEN limit ELSE limit + 1

IsEnough(pts, type, limit) == limit >= 1 /\ Len(pts) >= PointsNeeded(type, limit)

\* Mutant: a rate is taken over the time since the newest point.
HistoryDataFromFront(pts, type, limit) ==
    [i \in 1..limit |->
        [ts  |-> pts[i].ts,
         val |-> IF type = "GAUGE"
                 THEN Frac(pts[i].val, 1)
                 ELSE Frac(pts[i].val - pts[i + 1].val, pts[1].ts - pts[i + 1].ts)]]

\* Defined when IsEnough; two points of one list never share a timestamp.
HistoryData(pts, type, limit) ==
    [i \in 1..limit |->
        [ts  |-> pts[i].ts,
         val |-> IF type = "GAUGE"
                 THEN Frac(pts[i].val, 1)
                 ELSE Frac(pts[i].val - pts[i + 1].val, pts[i].ts - pts[i + 1].ts)]]

-----------------------------------------------------------------------------
(* A function is [fn, limit, num, op, right]; its window is a sequence of  *)
(* HistoryData, newest first.  Diff and pdiff ask for one entry more.      *)

Limit(f) == IF f.fn \in {"diff", "pdiff"} THEN f.limit + 1 ELSE f.limit

Extreme(vs, Better(_, _)) ==
    FoldLeft(LAMBDA best, v : IF Better(best, v.val) THEN v.val ELSE best, vs[1].val, vs)

SumOf(vs) == FoldLeft(LAMBDA acc, v : Plus(acc, v.val), Frac(0, 1), vs)

\* (first - v) / v * 100, with the denominator kept positive.
Percent(first, v) ==
    LET q == Minus(first, v)
        s == IF v.n < 0 THEN -1 ELSE 1
    IN  Frac(s * q.n * v.d * 100, s * q.d * v.n)

\* The walk breaks at the first hit, if there is one.
StopAt(hits, eligible) == IF hits = {} THEN Max(eligible) ELSE Min(hits)

\* diff and pdiff walk from the second entry on, skip what Skip names, keep
\* the last value computed and stop at the first one that triggers.
Walk(vs, op, right, Value(_), Skip(_)) ==
    LET eligible == {i \in 2..Len(vs) : ~Skip(vs[i].val)}
        hits     == {i \in eligible : Triggers(Value(vs[i].val), op, right)}
    IN  [left      |-> IF eligible = {} THEN Frac(0, 1) ELSE Value(vs[StopAt(hits, eligible)].val),
         triggered |-> hits # {}]

AtThreshold(left, f) ==
    [left |-> left, triggered |-> Triggers(left, f.op, f.right)]

\* The nth triggering point ends the loop; n == Num never holds for Num <= 0.
HitsUpTo(vs, f, i) ==
    Cardinality({j \in 1..i : Triggers(vs[j].val, f.op, f.right)})

Compute(f, vs) ==
    CASE f.fn = "max" -> AtThreshold(Extreme(vs, LAMBDA a, b : Less(a, b)), f)
      [] f.fn = "min" -> AtThreshold(Extreme(vs, LAMBDA a, b : Less(b, a)), f)
      [] f.fn = "sum" -> AtThreshold(SumOf(vs), f)
      [] f.fn = "avg" -> LET s == SumOf(vs) IN AtThreshold(Frac(s.n, s.d * f.limit), f)
      [] f.fn = "all" ->
            [left      |-> vs[1].val,
             triggered |-> \A i \in DOMAIN vs : Triggers(vs[i].val, f.op, f.right)]
      [] f.fn = "lookup" ->
            [left      |-> vs[1].val,
             triggered |-> \E i \in 1..f.limit : HitsUpTo(vs, f, i) = f.num /\ f.num > 0]
      [] f.fn = "diff" ->
            Walk(vs, f.op, f.right, LAMBDA v : Minus(vs[1].val, v), LAMBDA v : FALSE)
      [] f.fn = "pdiff" ->
            Walk(vs, f.op, f.right, LAMBDA v : Percent(vs[1].val, v), LAMBDA v : v.n = 0)

\* Function.Compute as the caller sees it: its verdict, and the timestamp of
\* the oldest entry it was based on.
Judged(f, pts, type) ==
    IF IsEnough(pts, type, Limit(f))
    THEN LET vs == HistoryData(pts, type, Limit(f))
         IN  [verdict |-> IF Compute(f, vs).triggered THEN "triggered" ELSE "quiet",
              oldest  |-> vs[Limit(f)].ts]
    ELSE [verdict |-> "notEnough", oldest |-> 0]
=============================================================================
