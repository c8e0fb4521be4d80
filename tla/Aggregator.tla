----------------------------- MODULE Aggregator -----------------------------
(* The aggregator: one worker per row of the table cluster, each computing the  *)
(* quotient of two expressions over the hosts of a group at every tick           *)
(* (src/aggregator/cron, db/reader.go; the rows are the api's).                  *)
EXTENDS Integers, FiniteSets, FiniteSetsExt, SequencesExt

CONSTANTS
    MaxAggs,       \* bound: rows ever created
    MaxWorkers,    \* bound: workers ever started
    MaxAggEdits,   \* bound: changes of the table
    MaxAggFaults,  \* bound: readings cut short
    MaxSecond      \* bound: the clock of MySQL

VARIABLES
    cluster,       \* id -> [step, version, last_update]
    aggs, second, aggEdits, aggFaults,
    Workers,       \* <<id, last_update>> -> number of the worker
    work,          \* number -> the worker's goroutine
    unlucky        \* history: a row changed under the key of its worker
avars == <<cluster, aggs, second, aggEdits, aggFaults, Workers, work, unlucky>>

Started == DOMAIN work
AggregatorTypeOK ==
    /\ aggs \in 0..MaxAggs /\ second \in 1..MaxSecond
    /\ DOMAIN cluster \subseteq 1..aggs
    /\ \A key \in DOMAIN Workers : Workers[key] \in Started
    /\ \A w \in Started : work[w].at \in {"wait", "run", "gone"}

----------------------------------------------------------------------------
\* The api writes rows; MySQL sets last_update, in seconds, when a row is written.
AggEdit == aggEdits < MaxAggEdits /\ aggEdits' = aggEdits + 1

CreateAggregator(step) ==
    /\ AggEdit
    /\ aggs < MaxAggs
    /\ aggs' = aggs + 1
    /\ cluster' = [id \in DOMAIN cluster \cup {aggs'} |->
                     IF id = aggs' THEN [step |-> step, version |-> 1, last_update |-> second] ELSE cluster[id]]
    /\ UNCHANGED <<second, aggFaults, Workers, work, unlucky>>

UpdateAggregator(id, step) ==
    /\ AggEdit
    /\ cluster' = [cluster EXCEPT ![id] = [step |-> step, version |-> @.version + 1, last_update |-> second]]
    /\ unlucky' = (unlucky \/ <<id, second>> \in DOMAIN Workers)
    /\ UNCHANGED <<aggs, second, aggFaults, Workers, work>>

DeleteAggregator(id) ==
    /\ AggEdit
    /\ cluster' = [i \in DOMAIN cluster \ {id} |-> cluster[i]]
    /\ UNCHANGED <<aggs, second, aggFaults, Workers, work, unlucky>>

PassSecond ==
    /\ second < MaxSecond
    /\ second' = second + 1
    /\ UNCHANGED <<cluster, aggs, aggEdits, aggFaults, Workers, work, unlucky>>

----------------------------------------------------------------------------
\* db/reader.go: the rows by id and time of the last update.
Key(id) == <<id, cluster[id].last_update>>
Item(id) == [id |-> id, version |-> cluster[id].version, step |-> cluster[id].step]
ReadClusterMonitorItems(ids) ==
    [key \in {Key(id) : id \in ids} |-> Item(key[1])]

\* run.go, worker.go: the workers whose key is gone are told to quit and forgotten,
\* then every new key with a positive step gets a worker.
DeleteNoUseWorker(m) == [key \in DOMAIN Workers \cap DOMAIN m |-> Workers[key]]
\* Mutant: keys that have a worker get another.
ToCreateAnyway(m) == {key \in DOMAIN m : m[key].step > 0}
ToCreate(m) == {key \in DOMAIN m \ DOMAIN Workers : m[key].step > 0}
NewWorker(item) == [item |-> item, at |-> "wait", tick |-> FALSE, quit |-> FALSE]

UpdateItems(m) ==
    LET kept == DeleteNoUseWorker(m)
        new  == ToCreate(m)
        Number == CHOOSE f \in [new -> Cardinality(Started) + 1 .. Cardinality(Started) + Cardinality(new)] :
                      \A x, y \in new : x # y => f[x] # f[y]
    IN  /\ Cardinality(Started) + Cardinality(new) <= MaxWorkers
        /\ Workers' = [key \in DOMAIN kept \cup new |-> IF key \in new THEN Number[key] ELSE kept[key]]
        /\ work' = [w \in Started \cup {Number[key] : key \in new} |->
                      IF w \notin Started
                      THEN NewWorker(m[CHOOSE key \in new : Number[key] = w])
                      ELSE [work[w] EXCEPT !.quit = @ \/ \E key \in DOMAIN Workers \ DOMAIN m : Workers[key] = w]]

ReadAll ==
    /\ UpdateItems(ReadClusterMonitorItems(DOMAIN cluster))
    /\ UNCHANGED <<cluster, aggs, second, aggEdits, aggFaults, unlucky>>

\* A connection lost between two rows ends the loop over them like the last row.
ReadCut(ids) ==
    /\ aggFaults < MaxAggFaults
    /\ aggFaults' = aggFaults + 1
    /\ UpdateItems(ReadClusterMonitorItems(ids))
    /\ UNCHANGED <<cluster, aggs, second, aggEdits, unlucky>>

----------------------------------------------------------------------------
\* A worker's goroutine selects between its ticker, which holds one tick, and Quit,
\* in no order when both are ready.
Goroutine(w, to) ==
    /\ work' = [work EXCEPT ![w] = to]
    /\ UNCHANGED <<cluster, aggs, second, aggEdits, aggFaults, Workers, unlucky>>

Ticks(w) == work[w].at # "gone" /\ ~work[w].tick /\ Goroutine(w, [work[w] EXCEPT !.tick = TRUE])
RunBegins(w) == work[w].at = "wait" /\ work[w].tick /\ Goroutine(w, [work[w] EXCEPT !.tick = FALSE, !.at = "run"])
RunEnds(w) == work[w].at = "run" /\ Goroutine(w, [work[w] EXCEPT !.at = "wait"])
Quits(w) == work[w].at = "wait" /\ work[w].quit /\ Goroutine(w, [work[w] EXCEPT !.tick = FALSE, !.at = "gone"])

----------------------------------------------------------------------------
\* run.go, computer.go, query.go: what one run computes.  A side is the count of
\* hosts "$#", a number, or a sum of counters, which may be compared with a limit
\* and is then 1 or 0.  points[host][counter] is [ts, value]; ts 0 when the api has
\* none.
Fresh(point, now, step) == point.ts > 0 /\ point.ts >= now - 2 * step /\ point.ts <= now

CompareSum(sum, cmp) ==
    \/ cmp.mode \in {">", ">="} /\ sum > cmp.limit
    \/ cmp.mode \in {"<", "<="} /\ sum < cmp.limit
    \/ cmp.mode \in {"=", ">=", "<="} /\ sum = cmp.limit

\* The operands whose counter has a value: fewer than there are is an error.
Operands(side, points, now, step) ==
    {i \in 1..Len(side.terms) : Fresh(points[side.terms[i].counter], now, step)}

Compute(side, points, now, step) ==
    LET vals == Operands(side, points, now, step)
        sum == MapThenSumSet(LAMBDA i : side.terms[i].sign * points[side.terms[i].counter].value, vals)
    IN  IF vals # 1..Len(side.terms) THEN [err |-> TRUE, val |-> 0]
        ELSE [err |-> FALSE,
              val |-> IF side.cmp.mode = "" THEN sum ELSE IF CompareSum(sum, side.cmp) THEN 1 ELSE 0]

Constant(side, validCount) == IF side.kind = "count" THEN validCount ELSE side.number

\* Mutant: the numerator is added before the denominator is known.
AddNumerator(c, host, acc) ==
    LET n == Compute(c.numerator, c.points[host], c.now, c.step)
        d == Compute(c.denominator, c.points[host], c.now, c.step)
    IN  IF c.numerator.kind = "sum" /\ n.err THEN acc
        ELSE IF c.denominator.kind = "sum" /\ d.err THEN [acc EXCEPT !.n = @ + n.val]
        ELSE [n |-> acc.n + n.val, d |-> acc.d + d.val, valid |-> acc.valid + 1]

\* A host counts when every side that needs it can be computed.
AddHost(c, host, acc) ==
    LET n == Compute(c.numerator, c.points[host], c.now, c.step)
        d == Compute(c.denominator, c.points[host], c.now, c.step)
    IN  IF (c.numerator.kind = "sum" /\ n.err) \/ (c.denominator.kind = "sum" /\ d.err)
        THEN acc
        ELSE [n |-> acc.n + n.val, d |-> acc.d + d.val, valid |-> acc.valid + 1]

HostnamesByID(c) == DOMAIN c.points \ c.away

\* What sender.Push is given, or none.
WorkerRun(c) ==
    LET acc == FoldSet(LAMBDA host, a : AddHost(c, host, a), [n |-> 0, d |-> 0, valid |-> 0], HostnamesByID(c))
        num == IF c.numerator.kind = "sum" THEN acc.n ELSE Constant(c.numerator, acc.valid)
        den == IF c.denominator.kind = "sum" THEN acc.d ELSE Constant(c.denominator, acc.valid)
    IN  IF (c.numerator.kind # "sum" /\ c.denominator.kind # "sum") \/ den = 0 \/ acc.valid = 0
        THEN << >> ELSE <<num, den>>

----------------------------------------------------------------------------
AggregatorInit ==
    /\ cluster = << >> /\ aggs = 0 /\ second = 1 /\ aggEdits = 0 /\ aggFaults = 0
    /\ Workers = << >> /\ work = << >>
    /\ unlucky = FALSE

AggregatorNext ==
    \/ \E step \in {0, 60} : CreateAggregator(step) \/ \E id \in DOMAIN cluster : UpdateAggregator(id, step)
    \/ \E id \in DOMAIN cluster : DeleteAggregator(id)
    \/ PassSecond
    \/ ReadAll
    \/ \E ids \in SUBSET DOMAIN cluster : ReadCut(ids)
    \/ \E w \in Started : Ticks(w) \/ RunBegins(w) \/ RunEnds(w) \/ Quits(w)

----------------------------------------------------------------------------
\* Every goroutine that has not been told to quit is in the table of workers under
\* the key of its own row, so that a change of the row can still stop it, and
\* computes that row as it is: no worker is left over, doubled or out of date, also
\* after a reading that was cut short.  A row changed twice in one second is the
\* exception, which its key does not show.
NoWorkerLeaks ==
    LET going == {w \in Started : work[w].at # "gone" /\ ~work[w].quit}
    IN  /\ going = {Workers[key] : key \in DOMAIN Workers}
        /\ Cardinality(going) = Cardinality(DOMAIN Workers)
        /\ \A key \in DOMAIN Workers :
              LET id == key[1] IN
              /\ work[Workers[key]].item.id = id
              /\ id \in DOMAIN cluster /\ Key(id) = key /\ ~unlucky => work[Workers[key]].item = Item(id)

\* The numerator and the denominator are sums over the same hosts: those outside
\* maintenance that have a fresh value of every counter of both sides.
SumOver(side, hosts, points) ==
    LET Value(h) == MapThenSumSet(LAMBDA i : side.terms[i].sign * points[h][side.terms[i].counter].value,
                                  1..Len(side.terms))
    IN  IF side.kind = "count" THEN Cardinality(hosts)
        ELSE IF side.kind = "number" THEN side.number
        ELSE IF side.cmp.mode = "" THEN MapThenSumSet(Value, hosts)
        ELSE Cardinality({h \in hosts : CompareSum(Value(h), side.cmp)})

SumsOverSameHosts(c) ==
    LET CountersOf(side) == IF side.kind = "sum" THEN {term.counter : term \in ToSet(side.terms)} ELSE {}
        needed == CountersOf(c.numerator) \cup CountersOf(c.denominator)
        hosts == {h \in DOMAIN c.points \ c.away :
                    \A x \in needed : Fresh(c.points[h][x], c.now, c.step)}
        pushed == WorkerRun(c)
    IN  /\ pushed # << >> => pushed = <<SumOver(c.numerator, hosts, c.points),
                                        SumOver(c.denominator, hosts, c.points)>>
        /\ pushed = << >> => \/ hosts = {} \/ needed = {}
                             \/ SumOver(c.denominator, hosts, c.points) = 0
=============================================================================
