---------------------------- MODULE MCSynthetic ----------------------------
(* nodata and the aggregator, which make values of others' values, and share    *)
(* nothing: each behaviour shows one part of one of them.                       *)
EXTENDS Nodata, Aggregator

VARIABLES part, sample

MCGroupHosts == [g \in Groups |-> Endpoints]
MCSources == {<<e, c>> : e \in {"e1"}, c \in {"c"}}
MCRules ==
    {[objType |-> "host", obj |-> {"e1"}, counters |-> {"c", "d"}, type |-> "GAUGE", step |-> 1],
     [objType |-> "host", obj |-> {"e1", "e2"}, counters |-> {"c"}, type |-> "COUNTER", step |-> 1],
     [objType |-> "group", obj |-> {"g1"}, counters |-> {"c"}, type |-> "GAUGE", step |-> 1],
     [objType |-> "group", obj |-> {"g1"}, counters |-> {"c"}, type |-> "GAUGE", step |-> -1],
     [objType |-> "other", obj |-> {"e2"}, counters |-> {"c"}, type |-> "GAUGE", step |-> 1]}
MCRow == [objType |-> "other", obj |-> {"e1"}, counters |-> {"c"}, type |-> "GAUGE", step |-> 1]


\* One run of a worker over two hosts and two counters, x and y: values now, too
\* old or missing, and every kind of side.
Term(sign, x) == [sign |-> sign, counter |-> x]
Sum(terms, cmp) == [kind |-> "sum", number |-> 0, terms |-> terms, cmp |-> cmp]
Plain == [mode |-> "", limit |-> 0]
Sides ==
    {[kind |-> "count", number |-> 0, terms |-> << >>, cmp |-> Plain],
     [kind |-> "number", number |-> 2, terms |-> << >>, cmp |-> Plain],
     Sum(<<Term(1, "x")>>, Plain), Sum(<<Term(1, "y"), Term(-1, "x")>>, Plain)}
    \cup {Sum(<<Term(1, "x")>>, [mode |-> m, limit |-> 1]) : m \in {">", "<", "=", ">=", "<="}}
Points == {[ts |-> 0, value |-> 0], [ts |-> 5, value |-> 1], [ts |-> 8, value |-> 1], [ts |-> 10, value |-> 2]}
Samples ==
    [numerator : Sides, denominator : Sides, now : {10}, step : {1}, away : {{}, {"h1"}},
     points : [{"h1", "h2"} -> [{"x", "y"} -> Points]]]

MCInit ==
    /\ part \in {"rules", "pages", "faults", "workers", "run"}
    /\ NodataConfigInit /\ NodataInit /\ AggregatorInit
    /\ sample \in IF part = "run" THEN Samples ELSE {<< >>}
MCNext ==
    /\ UNCHANGED <<part, sample>>
    /\ \/ part = "rules" /\ NodataConfigNext /\ UNCHANGED <<tvars, avars>>
       \/ part \in {"pages", "faults"} /\ rows = 0 /\ CreateNoData(MCRow) /\ UNCHANGED <<tvars, avars>>
       \/ part = "pages" /\ rows > 0 /\ NodataNext /\ edits' <= 2 /\ faults' = 0 /\ UNCHANGED avars
       \/ part = "faults" /\ rows > 0 /\ NodataNext /\ edits' <= 1 /\ UNCHANGED avars
       \/ part = "workers" /\ AggregatorNext /\ UNCHANGED <<nvars, tvars>>

Spec == MCInit /\ [][MCNext]_<<nvars, tvars, avars, part, sample>>
TypeOK == NodataConfigTypeOK /\ NodataTypeOK /\ AggregatorTypeOK

\* What a worker pushes is a quotient over one set of hosts.
AggregateSound == part = "run" => SumsOverSameHosts(sample)
=============================================================================
