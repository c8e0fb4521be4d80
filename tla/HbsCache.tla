------------------------------ MODULE HbsCache ------------------------------
(* The heartbeat server: its copies of the portal's tables, which LoopInit    *)
(* reloads one after the other while the api changes them, and the answers it *)
(* composes from them for judge and for the agents.                           *)
EXTENDS PortalTables

CONSTANTS
    MaxDepth,  \* the depth at which ParentIds takes a chain for a cycle
    Builtin,   \* keys of the metrics an agent has to be told of
    MaxUp,     \* requests in behaviours in which hbs runs
    MaxFails   \* queries of hbs that fail

ASSUME HbsAssumption == MaxDepth \in Nat \ {0}

VARIABLES
    cache,     \* cache[c]: the contents of each cache
    reload,    \* the place in Loop of the next cache to reload
    up,        \* whether hbs runs
    fails      \* queries that failed so far

hvars == <<vars, cache, reload, up, fails>>

\* The order of Init and LoopInit.
Loop == <<"GroupPlugins", "GroupTemplates", "HostGroupsMap", "HostMap", "TemplateCache",
          "Strategies", "HostTemplateIds", "ExpressionCache", "MonitoredHosts">>
Caches == ToSet(Loop)

QueryPlugins == {<<plugin[p].grp, p>> : p \in DOMAIN plugin}
QueryGroupTemplates == {<<grpTpl[i].grp, grpTpl[i].tpl>> : i \in DOMAIN grpTpl}
QueryHostGroups == grpHost
QueryHosts == DOMAIN host
QueryTemplates == [t \in Tpls |-> tpl[t].parent]
\* A strategy whose template is not among those in the cache is left out.
QueryStrategies(tpls) ==
    Restrict(strategy, {s \in DOMAIN strategy : strategy[s].tpl \in DOMAIN tpls})
\* The join of grp_tpl and grp_host has a template once for each group of the host,
\* in the order of the bindings, by whose places they are told apart.
QueryHostTemplateIds ==
    [h \in {r[2] : r \in {x \in grpHost : \E i \in DOMAIN grpTpl : grpTpl[i].grp = x[1]}} |->
        [i \in {x \in DOMAIN grpTpl : <<grpTpl[x].grp, h>> \in grpHost} |-> grpTpl[i].tpl]]
QueryExpressions == {e \in DOMAIN expression : expression[e].action > 0 /\ ~expression[e].pause}
QueryMonitoredHosts == {h \in DOMAIN host : ~host[h]}

\* What the query of a cache returns now, given the templates in their cache.
Query(c, tpls) ==
    CASE c = "GroupPlugins"    -> QueryPlugins
      [] c = "GroupTemplates"  -> QueryGroupTemplates
      [] c = "HostGroupsMap"   -> QueryHostGroups
      [] c = "HostMap"         -> QueryHosts
      [] c = "TemplateCache"   -> QueryTemplates
      [] c = "Strategies"      -> QueryStrategies(tpls)
      [] c = "HostTemplateIds" -> QueryHostTemplateIds
      [] c = "ExpressionCache" -> QueryExpressions
      [] c = "MonitoredHosts"  -> QueryMonitoredHosts

\* hbs has just started and every query succeeded.
HInit ==
    /\ Init /\ reload = 1 /\ up \in BOOLEAN /\ fails = 0
    /\ cache = [c \in Caches |-> Query(c, QueryTemplates)]

\* Without templates QueryStrategies is an error: the strategies stay.
Loads(c) == c = "Strategies" => DOMAIN cache["TemplateCache"] # {}

\* Mutant: the loop leaves out its last two caches.
AdvanceNoExpressions == up /\ reload' = (reload % 7) + 1 /\ UNCHANGED <<vars, up>>

Advance == up /\ reload' = (reload % Len(Loop)) + 1 /\ UNCHANGED <<vars, up>>
Reload ==
    /\ Advance /\ UNCHANGED fails
    /\ LET c == Loop[reload] IN
        /\ Loads(c)
        /\ cache' = [cache EXCEPT ![c] = Query(c, cache["TemplateCache"])]
\* A query that fails leaves the cache as it was.
ReloadFails ==
    /\ Advance /\ UNCHANGED cache
    /\ IF Loads(Loop[reload]) THEN fails < MaxFails /\ fails' = fails + 1 ELSE UNCHANGED fails

(******************************** answers ********************************)
\* A template and its ancestors, the oldest first; nothing for a chain of MaxDepth.
ParentIds(tpls, t) ==
    LET anc[i \in 0..MaxDepth] ==
            IF i = 0 THEN t
            ELSE IF anc[i - 1] \in DOMAIN tpls THEN tpls[anc[i - 1]] ELSE 0
        n == Cardinality({i \in 0..(MaxDepth - 1) : anc[i] \in DOMAIN tpls})
    IN  IF n = MaxDepth THEN <<>> ELSE [i \in 1..n |-> anc[n - i]]

\* Mutant: the comparison of chains is the other way about.
slice_int_ltSwapped(a, b) == ToSet(b) \subseteq ToSet(a)

slice_int_lt(a, b) == ToSet(a) \subseteq ToSet(b)

\* The chains of the templates of a host, those that go being empty: one that is part
\* of another goes, unless an equal one comes before the larger.
UniqueBuckets(tids) ==
    LET bs == [i \in DOMAIN tids |-> ParentIds(cache["TemplateCache"], tids[i])]
        hits(i) == {j \in DOMAIN bs \ {i} : bs[i] # <<>> /\ slice_int_lt(bs[i], bs[j])}
    IN  [i \in DOMAIN bs |-> IF hits(i) = {} \/ bs[Min(hits(i))] = bs[i] THEN bs[i] ELSE <<>>]

\* The strategies left in a chain when a younger template overrides an older one
\* that has a strategy for the same metric and tags.
Winners(strategies, bucket) ==
    {s \in DOMAIN strategies : \E i \in DOMAIN bucket :
        /\ bucket[i] = strategies[s].tpl
        /\ \A j \in DOMAIN bucket, o \in DOMAIN strategies :
            j > i /\ strategies[o].tpl = bucket[j] => strategies[o].key # strategies[s].key}

\* Each strategy once, with the youngest template of the first chain it is in.
CalcInheritStrategies(tids) ==
    LET bs == UniqueBuckets(tids)
        has(s) == {i \in DOMAIN bs : s \in Winners(cache["Strategies"], bs[i])}
    IN  [s \in {x \in DOMAIN cache["Strategies"] : has(x) # {}} |->
            bs[Min(has(s))][Len(bs[Min(has(s))])]]

\* The hosts of the answer to judge and the strategies of each.
Answered == IF DOMAIN cache["TemplateCache"] = {} THEN {}
            ELSE DOMAIN cache["HostTemplateIds"] \cap cache["MonitoredHosts"]
GetStrategies(h) == IF h \in Answered THEN CalcInheritStrategies(cache["HostTemplateIds"][h]) ELSE <<>>

\* The plugins of an agent.
GroupsOf(h) == IF h \in cache["HostMap"] THEN {g \in AnyGroup : <<g, h>> \in cache["HostGroupsMap"]} ELSE {}
GetPlugins(h) == {r[2] : r \in {x \in cache["GroupPlugins"] : x[1] \in GroupsOf(h)}}
\* The builtin metrics of an agent: the templates are the cached ones, the
\* strategies are read from the table.
GetBuiltinMetrics(h) ==
    LET bound == {r[2] : r \in {x \in cache["GroupTemplates"] : x[1] \in GroupsOf(h)}}
        all == bound \cup UNION {ToSet(ParentIds(cache["TemplateCache"], t)) : t \in bound}
    IN  {strategy[s].key : s \in {x \in DOMAIN strategy : strategy[x].tpl \in all}} \cap Builtin

\* While hbs runs, the requests that change what it reads.
Read == <<plugin, grpTpl, grpHost, host, QueryTemplates, strategy, QueryExpressions>>
Request ==
    /\ Next /\ UNCHANGED <<cache, reload, up, fails>>
    /\ up => asked' <= MaxUp /\ (Read' # Read \/ flight' # flight)

HNext == Request \/ Reload \/ ReloadFails

\* LoopInit comes round.
HSpec == HInit /\ [][HNext]_hvars /\ WF_hvars(Reload \/ ReloadFails)

-----------------------------------------------------------------------------
Fresh == up /\ \A c \in Caches : Loads(c) => cache[c] = Query(c, cache["TemplateCache"])

\* What a host should be judged by, from the tables: the templates bound to its
\* groups, without those that are ancestors of another, each with its ancestors.
Bindings(h) == {t \in Tpls : \E g \in AnyGroup : <<g, h>> \in grpHost /\ Bound(g, t) # {}}
Above(t) == ToSet(ParentIds(QueryTemplates, t))
Youngest(h) == {t \in Bindings(h) : \A u \in Bindings(h) : u # t => t \notin Above(u)}
Judged(h) == IF h \in QueryMonitoredHosts
             THEN UNION {Winners(strategy, ParentIds(QueryTemplates, t)) : t \in Youngest(h)}
             ELSE {}
Told(h) == {strategy[s].key : s \in {x \in DOMAIN strategy : \E t \in Bindings(h) :
                strategy[x].tpl \in Above(t) \cup {t}}} \cap Builtin
BoundTwice(h) == \E i, j \in DOMAIN grpTpl : i # j /\ grpTpl[i].tpl = grpTpl[j].tpl
                    /\ {<<grpTpl[i].grp, h>>, <<grpTpl[j].grp, h>>} \subseteq grpHost

\* With caches as the tables are, judge is told for each host of every strategy that
\* counts, and only of strategies of its templates and their ancestors; where no
\* template reaches the host twice, of none that is overridden.
JudgedByTables ==
    Fresh => \A h \in Hosts :
        /\ Judged(h) \subseteq DOMAIN GetStrategies(h)
        /\ \A s \in DOMAIN GetStrategies(h) :
            \E t \in Bindings(h) : strategy[s].tpl \in Above(t)
        /\ ~BoundTwice(h) => DOMAIN GetStrategies(h) = Judged(h)

\* Whatever moments the caches are from, judge is given no strategy twice, none for
\* a template hbs does not know, and the template is one bound to the host that
\* inherits the strategy.
AnswerHoldsTogether ==
    up => \A h \in Hosts : \A s \in DOMAIN GetStrategies(h) :
        LET t == GetStrategies(h)[s]
        IN  /\ t \in ToSet(cache["HostTemplateIds"][h])
            /\ cache["Strategies"][s].tpl \in ToSet(ParentIds(cache["TemplateCache"], t))

\* Once the requests stop, what hbs tells of every host is what the tables say.
FollowsTables ==
    <>[](up /\ asked = MaxUp /\ flight = {} =>
        \A h \in Hosts :
            /\ Judged(h) \subseteq DOMAIN GetStrategies(h)
            /\ GetPlugins(h) = {p \in DOMAIN plugin : <<plugin[p].grp, h>> \in grpHost}
            /\ h \in QueryHosts => GetBuiltinMetrics(h) = Told(h)
            /\ cache["ExpressionCache"] = QueryExpressions)
=============================================================================
