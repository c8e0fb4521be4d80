------------------------------- MODULE GraphQuery -------------------------------
(***************************************************************************)
(* What Graph.Query and Graph.Last answer: the values of the rrd file      *)
(* joined with the cached points, and the newest value of a series         *)
(* (src/graph/api/graph.go).                                               *)
(*                                                                         *)
(* Values are numbers from 0 on; NaN is below them.  Cached points are     *)
(* sorted, oldest first, on multiples of the step, as transfer makes them; *)
(* the file has a value for every step it covers.  The query is recent     *)
(* enough for the finest archive.                                          *)
(***************************************************************************)
EXTENDS Integers, SequencesExt

NaN == -1
Datum(ts, val) == [ts |-> ts, val |-> val]
Ticks(from, to, step) == [k \in 1..((to - from) \div step + 1) |-> from + (k - 1) * step]

\* What lies in the range is one piece of the data, which are sorted.
Within(data, start, end) ==
  LET in == {k \in DOMAIN data : data[k].ts >= start /\ data[k].ts <= end}
  IN  IF in = {} THEN <<>> ELSE SubSeq(data, Min(in), Max(in))

\* The whole steps a query is about.
StartTs(start, step) == start - (start % step)
EndTs(end, step)     == end - (end % step) + step

\* The value of a gauge at a point is the point's own; the value of a counter is
\* its rate up to the point of the next step, if there is one and it is no less.
ValueAt(points, type, step, ts) ==
  LET at(t) == {p \in Range(points) : p.ts = t}
      vals  == IF type = "GAUGE" THEN {p.val : p \in at(ts)}
               ELSE {(pq[2].val - pq[1].val) \div step :
                       pq \in {r \in at(ts) \X at(ts + step) : r[2].val >= r[1].val}}
  IN IF vals = {} THEN NaN ELSE CHOOSE v \in vals : TRUE

Cached(points, type, step, start, end) ==
  LET last == Last(points).ts - (IF type = "GAUGE" THEN 0 ELSE step)
      ts   == Ticks(points[1].ts, last, step)
  IN Within([k \in DOMAIN ts |-> Datum(ts[k], ValueAt(points, type, step, ts[k]))], start, end)

\* Mutant: the cached values begin one step late.
JunctionOneLate(file, cached) == Cardinality({k \in DOMAIN file : file[k].ts <= cached[1].ts})

\* How many values of the file come before the cached ones.
Junction(file, cached) == Cardinality({k \in DOMAIN file : file[k].ts < cached[1].ts})

\* Steps between the file and the cache have no value.  A cached value takes the
\* place of the file's, unless it is NaN, or is put at the end.
Merged(file, cached, step) ==
  LET j    == Junction(file, cached)
      gap  == IF j = 0 THEN <<>> ELSE Ticks(file[j].ts + step, cached[1].ts - step, step)
      full == file \o [k \in DOMAIN gap |-> Datum(gap[k], NaN)]
      first == IF j < Len(file) THEN j ELSE Len(full)
      size == IF first + Len(cached) > Len(full) THEN first + Len(cached) ELSE Len(full)
  IN  IF cached = <<>> THEN file
      ELSE [k \in 1..size |->
              IF k \in (first + 1)..(first + Len(cached)) /\ (k > Len(full) \/ cached[k - first].val # NaN)
              THEN cached[k - first] ELSE full[k]]

\* One value for every step asked for; what does not fit is skipped.
Formatted(merged, ts) ==
  FoldLeft(LAMBDA acc, t : IF acc.next <= Len(merged) /\ merged[acc.next].ts = t
                           THEN [next |-> acc.next + 1, out |-> Append(acc.out, merged[acc.next])]
                           ELSE [acc EXCEPT !.out = Append(@, Datum(t, NaN))],
           [next |-> 1, out |-> <<>>], ts).out

\* A gauge's answer takes the end in, a counter's does not.
Query(file, points, type, step, start, end) ==
  LET from == StartTs(start, step)
      to   == EndTs(end, step)
      asked == Ticks(from, IF type = "GAUGE" THEN to ELSE to - step, step)
  IN IF to - from - step < 1 THEN <<>>
     ELSE IF points = <<>> THEN file
     ELSE Formatted(Merged(Within(file, from, to), Cached(points, type, step, from, to), step), asked)

\* A counter that is restarted has rate 0; one that missed a step has none.
GetLast(points, type, step) ==
  LET n == Len(points) IN
  IF type = "GAUGE" THEN IF n = 0 THEN Datum(0, 0) ELSE points[n]
  ELSE IF n < 2 THEN Datum(0, 0)
  ELSE LET rise == points[n].val - points[n - 1].val IN
       IF points[n].ts - points[n - 1].ts # step THEN Datum(0, 0)
       ELSE Datum(points[n].ts, IF rise < 0 THEN 0 ELSE rise \div step)
=============================================================================
