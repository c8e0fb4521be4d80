---------------------------- MODULE PortalTables ----------------------------
(* The tables of the portal and the handlers of the api that change them.    *)
(* A handler that reads outside its transaction is a request in flight: what *)
(* it read may have changed when it writes. Every other handler is one step. *)
EXTENDS Naturals, Sequences, FiniteSets, Functions, SequencesExt

CONSTANTS
    Admins,      \* users for whom IsAdmin holds
    Users,       \* users, the admins among them
    Hosts,       \* host names; a row of host is named by its unique hostname
    MaxGroup, MaxTpl, MaxStrategy, MaxExpression, MaxPlugin, MaxCluster,
    MaxAction,   \* how many ids of each auto_increment column may be used
    MaxFlight,   \* requests in flight at the same time
    MaxRequests, \* requests in all
    Keys,        \* metric and tags of strategies
    Start        \* contents of the tables a behaviour may begin with

ASSUME UsersAssumption == Admins \subseteq Users /\ MaxFlight \in Nat /\ MaxRequests \in Nat

\* The tables begin whole: rows name what is there, templates are bound to a group
\* once, and no two rows share an action.
ASSUME StartAssumption ==
    \A s \in Start :
        /\ s.last \in [{"grp", "tpl", "strategy", "action", "expression", "plugin", "cluster"} -> Nat]
        /\ DOMAIN s.grp \subseteq 1..s.last["grp"] /\ \A g \in DOMAIN s.grp : s.grp[g] \in Users
        /\ s.grpHost \subseteq (DOMAIN s.grp) \X (DOMAIN s.host)
        /\ s.grpTpl \in Seq([grp : DOMAIN s.grp, tpl : DOMAIN s.tpl, user : Users])
        /\ DOMAIN s.tpl \subseteq 1..s.last["tpl"] /\ s.action \subseteq 1..s.last["action"]
        /\ \A t \in DOMAIN s.tpl : s.tpl[t] \in [user : Users, parent : Nat, action : s.action \cup {0}]
        /\ \A e \in DOMAIN s.expression : s.expression[e] \in [user : Users, action : s.action, pause : BOOLEAN]
        /\ \A x \in DOMAIN s.strategy : s.strategy[x] \in [tpl : DOMAIN s.tpl, key : Keys]
        /\ \A p \in DOMAIN s.plugin : s.plugin[p].grp \in DOMAIN s.grp
        /\ \A c \in DOMAIN s.cluster : s.cluster[c].grp \in DOMAIN s.grp
        /\ \A i, j \in DOMAIN s.grpTpl :
              s.grpTpl[i].grp = s.grpTpl[j].grp /\ s.grpTpl[i].tpl = s.grpTpl[j].tpl => i = j
        /\ \A t, u \in DOMAIN s.tpl : s.tpl[t].action = s.tpl[u].action => t = u \/ s.tpl[t].action = 0
        /\ \A e, f \in DOMAIN s.expression : s.expression[e].action = s.expression[f].action => e = f
        /\ \A t \in DOMAIN s.tpl, e \in DOMAIN s.expression : s.tpl[t].action # s.expression[e].action

VARIABLES
    grp,         \* grp[g]: its create_user
    host,        \* host[h]: whether it is under maintenance now
    grpHost,     \* rows <<grp_id, host>>, its primary key
    grpTpl,      \* rows [grp, tpl, user] in the order they were inserted
    tpl,         \* tpl[t]: create_user, parent_id and action_id
    strategy,    \* strategy[s]: tpl_id, metric and tags
    action,      \* ids of the rows of action
    expression,  \* expression[e]: create_user, action_id and pause
    plugin,      \* plugin[p]: grp_id and create_user
    cluster,     \* cluster[c]: grp_id and creator, an aggregator
    last,        \* the last id given out in each auto_increment column
    flight,      \* requests between their first read and their write
    asked,       \* requests so far
    late,        \* rows written when what they name was gone
    twice        \* bindings two requests for which overlapped

tables == <<grp, host, grpHost, grpTpl, tpl, strategy, action, expression,
            plugin, cluster, last>>
vars   == <<tables, flight, asked, late, twice>>

Put(f, k, v) == [x \in DOMAIN f \cup {k} |-> IF x = k THEN v ELSE f[x]]
Without(f, S) == Restrict(f, DOMAIN f \ S)
May(u, owner) == u \in Admins \/ owner = u
Groups == DOMAIN grp
Tpls   == DOMAIN tpl
\* For an admin the group is not looked for.
OwnGroup(u, g) == u \in Admins \/ (g \in Groups /\ grp[g] = u)

Ask == asked < MaxRequests /\ asked' = asked + 1
NextId(column, max) == last[column] < max /\ last' = [last EXCEPT ![column] = @ + 1]

TypeOK ==
    /\ \A g \in Groups : g \in 1..last["grp"] /\ grp[g] \in Users
    /\ grpHost \subseteq (1..last["grp"]) \X DOMAIN host
    /\ \A i \in DOMAIN grpTpl : grpTpl[i].user \in Users
    /\ \A t \in Tpls : tpl[t].action \in 0..last["action"]
    /\ action \subseteq 1..last["action"]
    /\ Cardinality(flight) <= MaxFlight /\ asked \in 0..MaxRequests

Init ==
    /\ \E s \in Start :
        /\ grp = s.grp /\ host = s.host /\ grpHost = s.grpHost /\ grpTpl = s.grpTpl
        /\ tpl = s.tpl /\ strategy = s.strategy /\ action = s.action
        /\ expression = s.expression /\ plugin = s.plugin /\ cluster = s.cluster
        /\ last = s.last
    /\ flight = {} /\ asked = 0 /\ late = {} /\ twice = {}

(****************************** host groups ******************************)
\* Every user may create a group.
CreateHostGroup(u) ==
    /\ Ask /\ NextId("grp", MaxGroup)
    /\ grp' = Put(grp, last["grp"] + 1, u)
    /\ UNCHANGED <<host, grpHost, grpTpl, tpl, strategy, action, expression, plugin,
                   cluster, flight, late, twice>>

\* Mutant: the deletion looks for rows of no group.
OfGroupOfNobody(table, g) == {p \in DOMAIN table : table[p].grp = g /\ table[p].user \notin Users}

OfGroup(table, g) == {p \in DOMAIN table : table[p].grp = g}

\* The transaction deletes what names the group, but for its rows in grp_tpl.
DeleteHostGroup(u, g) ==
    /\ Ask /\ OwnGroup(u, g)
    /\ grpHost' = {r \in grpHost : r[1] # g}
    /\ plugin'  = Without(plugin, OfGroup(plugin, g))
    /\ cluster' = Without(cluster, OfGroup(cluster, g))
    /\ grp' = Without(grp, {g})
    /\ UNCHANGED <<host, grpTpl, tpl, strategy, action, expression, last, flight,
                   late, twice>>

Begin(r) == Ask /\ Cardinality(flight) < MaxFlight /\ flight' = flight \cup {r}
LateIn(rows, gone) == late' = IF gone THEN late \cup rows ELSE late

\* The group is found and the permission checked before the transaction.
BindHostToHostGroup(u, g, hs) ==
    /\ g \in Groups /\ May(u, grp[g])
    /\ Begin([op |-> "bind", grp |-> g, hosts |-> hs])
    /\ UNCHANGED <<tables, late, twice>>

NewHosts(hs) == [h \in DOMAIN host \cup hs |-> IF h \in DOMAIN host THEN host[h] ELSE FALSE]

\* The transaction replaces the hosts of the group, inserting unknown hosts.
ReplaceHosts(r) ==
    /\ r.op = "bind"
    /\ grpHost' = {x \in grpHost : x[1] # r.grp} \cup ({r.grp} \X r.hosts)
    /\ host' = NewHosts(r.hosts)
    /\ LateIn({<<"grpHost", <<r.grp, h>>>> : h \in r.hosts}, r.grp \notin Groups)
    /\ flight' = flight \ {r}
    /\ UNCHANGED <<grp, grpTpl, tpl, strategy, action, expression, plugin, cluster,
                   last, asked, twice>>

\* Any statement of a transaction may fail: nothing is changed.
Rollback(r) ==
    /\ r.op \in {"bind", "add"} /\ flight' = flight \ {r}
    /\ UNCHANGED <<tables, asked, late, twice>>

UnBindAHostToHostGroup(u, g, h) ==
    /\ Ask /\ OwnGroup(u, g)
    /\ grpHost' = grpHost \ {<<g, h>>}
    /\ UNCHANGED <<grp, host, grpTpl, tpl, strategy, action, expression, plugin,
                   cluster, last, flight, late, twice>>

\* Adding and removing both find the group first. Which of the hosts are bound
\* is read outside the transaction that adds the others.
PatchHostGroupHost(u, g, hs, op) ==
    /\ g \in Groups /\ May(u, grp[g])
    /\ Begin([op |-> op, grp |-> g, hosts |->
              IF op = "add" THEN {h \in hs : <<g, h>> \notin grpHost} ELSE hs \cap DOMAIN host])
    /\ UNCHANGED <<tables, late, twice>>

\* A row that another request inserted meanwhile breaks the key: Rollback.
bindHostToHostGroup(r) ==
    /\ r.op = "add" /\ ({r.grp} \X r.hosts) \cap grpHost = {}
    /\ grpHost' = grpHost \cup ({r.grp} \X r.hosts)
    /\ host' = NewHosts(r.hosts)
    /\ LateIn({<<"grpHost", <<r.grp, h>>>> : h \in r.hosts}, r.grp \notin Groups)
    /\ flight' = flight \ {r}
    /\ UNCHANGED <<grp, grpTpl, tpl, strategy, action, expression, plugin, cluster,
                   last, asked, twice>>

\* Each row is deleted by a statement of its own, outside the transaction: one
\* that fails ends the request and leaves the earlier ones deleted.
unbindHostToHostGroup(r) ==
    /\ r.op = "remove"
    /\ \E done \in SUBSET r.hosts : grpHost' = grpHost \ ({r.grp} \X done)
    /\ flight' = flight \ {r}
    /\ UNCHANGED <<grp, host, grpTpl, tpl, strategy, action, expression, plugin,
                   cluster, last, asked, late, twice>>

\* The bindings that are left without those in these places.
BindingsBut(places) ==
    LET left[n \in 0..Len(grpTpl)] ==
            IF n = 0 THEN <<>>
            ELSE IF n \in places THEN left[n - 1] ELSE Append(left[n - 1], grpTpl[n])
    IN  left[Len(grpTpl)]

Bound(g, t) == {i \in DOMAIN grpTpl : grpTpl[i].grp = g /\ grpTpl[i].tpl = t}

\* Two requests for one pair that overlap.
Overlap(g, t) ==
    twice' = IF \E r \in flight : r.op = "bindTpl" /\ r.grp = g /\ r.tpl = t
             THEN twice \cup {<<g, t>>} ELSE twice

\* The binding is looked for first; whether group and template exist is not asked.
BindTemplateToGroup(u, g, t) ==
    /\ Bound(g, t) = {}
    /\ Begin([op |-> "bindTpl", grp |-> g, tpl |-> t, user |-> u])
    /\ Overlap(g, t) /\ UNCHANGED <<tables, late>>

SaveBinding(r) ==
    /\ r.op = "bindTpl"
    /\ grpTpl' = Append(grpTpl, [grp |-> r.grp, tpl |-> r.tpl, user |-> r.user])
    /\ LateIn({<<"tpl", r.tpl>>}, r.tpl \notin Tpls)
    /\ flight' = flight \ {r}
    /\ UNCHANGED <<grp, host, grpHost, tpl, strategy, action, expression, plugin,
                   cluster, last, asked, twice>>

\* Only the user of the binding that was found first may take it away; all the
\* rows of the pair go.
UnBindTemplateToGroup(u, g, t) ==
    /\ Ask
    /\ u \in Admins \/ (Bound(g, t) # {} /\ \E i \in Bound(g, t) : grpTpl[i].user = u)
    /\ grpTpl' = BindingsBut(Bound(g, t))
    /\ UNCHANGED <<grp, host, grpHost, tpl, strategy, action, expression, plugin,
                   cluster, last, flight, late, twice>>

(*********************** hosts, plugins, aggregators ***********************)
\* SetMaintain and UnsetMaintain change the hosts that exist.
SetMaintain(hs, on) ==
    /\ Ask /\ hs # {}
    /\ host' = [h \in DOMAIN host |-> IF h \in hs THEN on ELSE host[h]]
    /\ UNCHANGED <<grp, grpHost, grpTpl, tpl, strategy, action, expression, plugin,
                   cluster, last, flight, late, twice>>

CreatePlugin(u, g) ==
    /\ Ask /\ OwnGroup(u, g) /\ NextId("plugin", MaxPlugin)
    /\ plugin' = Put(plugin, last["plugin"] + 1, [grp |-> g, user |-> u])
    /\ LateIn({<<"plugin", last["plugin"] + 1>>}, g \notin Groups)
    /\ UNCHANGED <<grp, host, grpHost, grpTpl, tpl, strategy, action, expression,
                   cluster, flight, twice>>

DeletePlugin(u, p) ==
    /\ Ask /\ p \in DOMAIN plugin
    /\ u \notin Admins => plugin[p].grp \in Groups /\ u \in {grp[plugin[p].grp], plugin[p].user}
    /\ plugin' = Without(plugin, {p})
    /\ UNCHANGED <<grp, host, grpHost, grpTpl, tpl, strategy, action, expression,
                   cluster, last, flight, late, twice>>

CreateAggregator(u, g) ==
    /\ Ask /\ OwnGroup(u, g) /\ NextId("cluster", MaxCluster)
    /\ cluster' = Put(cluster, last["cluster"] + 1, [grp |-> g, user |-> u])
    /\ LateIn({<<"cluster", last["cluster"] + 1>>}, g \notin Groups)
    /\ UNCHANGED <<grp, host, grpHost, grpTpl, tpl, strategy, action, expression,
                   plugin, flight, twice>>

DeleteAggregator(u, c) ==
    /\ Ask /\ c \in DOMAIN cluster /\ OwnGroup(u, cluster[c].grp)
    /\ cluster' = Without(cluster, {c})
    /\ UNCHANGED <<grp, host, grpHost, grpTpl, tpl, strategy, action, expression,
                   plugin, last, flight, late, twice>>

(************************ templates and strategies ************************)
\* Any number is taken as the parent. The pages that create a template give it
\* no action.
CreateTemplate(u, parent) ==
    /\ Ask /\ NextId("tpl", MaxTpl)
    /\ tpl' = Put(tpl, last["tpl"] + 1, [user |-> u, parent |-> parent, action |-> 0])
    /\ UNCHANGED <<grp, host, grpHost, grpTpl, strategy, action, expression, plugin,
                   cluster, flight, late, twice>>

UpdateTemplate(u, t, parent) ==
    /\ Ask /\ t \in Tpls /\ May(u, tpl[t].user)
    /\ tpl' = [tpl EXCEPT ![t].parent = parent]
    /\ UNCHANGED <<grp, host, grpHost, grpTpl, strategy, action, expression, plugin,
                   cluster, last, flight, late, twice>>

ActionOf(t) == tpl[t].action

\* The template, its action, its strategies and its bindings; children keep
\* its number as their parent.
DeleteTemplate(t) ==
    /\ Ask /\ t \in Tpls
    /\ tpl' = Without(tpl, {t})
    /\ action' = action \ {ActionOf(t)}
    /\ strategy' = Without(strategy, {s \in DOMAIN strategy : strategy[s].tpl = t})
    /\ grpTpl' = BindingsBut({i \in DOMAIN grpTpl : grpTpl[i].tpl = t})
    /\ UNCHANGED <<grp, host, grpHost, expression, plugin, cluster, last, flight,
                   late, twice>>

\* The row of the action the template had before stays.
CreateActionToTmplate(t) ==
    /\ Ask /\ t \in Tpls /\ NextId("action", MaxAction)
    /\ action' = action \cup {last["action"] + 1}
    /\ tpl' = [tpl EXCEPT ![t].action = last["action"] + 1]
    /\ UNCHANGED <<grp, host, grpHost, grpTpl, strategy, expression, plugin, cluster,
                   flight, late, twice>>

\* Whether the template exists is not asked.
CreateStrategy(t, k) ==
    /\ Ask /\ NextId("strategy", MaxStrategy)
    /\ strategy' = Put(strategy, last["strategy"] + 1, [tpl |-> t, key |-> k])
    /\ LateIn({<<"strategy", last["strategy"] + 1>>}, t \notin Tpls)
    /\ UNCHANGED <<grp, host, grpHost, grpTpl, tpl, action, expression, plugin, cluster,
                   flight, twice>>

UpdateStrategy(s, k) ==
    /\ Ask /\ s \in DOMAIN strategy
    /\ strategy' = [strategy EXCEPT ![s].key = k]
    /\ UNCHANGED <<grp, host, grpHost, grpTpl, tpl, action, expression, plugin, cluster,
                   last, flight, late, twice>>

DeleteStrategy(s) ==
    /\ Ask /\ s \in DOMAIN strategy
    /\ strategy' = Without(strategy, {s})
    /\ UNCHANGED <<grp, host, grpHost, grpTpl, tpl, action, expression, plugin, cluster,
                   last, flight, late, twice>>

(****************************** expressions ******************************)
CreateExrpession(u, pause) ==
    /\ Ask /\ last["action"] < MaxAction /\ last["expression"] < MaxExpression
    /\ last' = [last EXCEPT !["action"] = @ + 1, !["expression"] = @ + 1]
    /\ action' = action \cup {last["action"] + 1}
    /\ expression' = Put(expression, last["expression"] + 1,
                         [user |-> u, action |-> last["action"] + 1, pause |-> pause])
    /\ UNCHANGED <<grp, host, grpHost, grpTpl, tpl, strategy, plugin, cluster, flight,
                   late, twice>>

\* Rolled back when the action of the expression is not found.
UpdateExrpession(u, e, pause) ==
    /\ Ask /\ e \in DOMAIN expression /\ May(u, expression[e].user)
    /\ expression[e].action \in action
    /\ expression' = [expression EXCEPT ![e].pause = pause]
    /\ UNCHANGED <<grp, host, grpHost, grpTpl, tpl, strategy, action, plugin, cluster,
                   last, flight, late, twice>>

\* An admin's request does not load the expression, so the action is not found
\* and its row stays.
DeleteExpression(u, e) ==
    /\ Ask /\ e \in DOMAIN expression /\ May(u, expression[e].user)
    /\ action' = action \ {IF u \in Admins THEN 0 ELSE expression[e].action}
    /\ expression' = Without(expression, {e})
    /\ UNCHANGED <<grp, host, grpHost, grpTpl, tpl, strategy, plugin, cluster, last,
                   flight, late, twice>>

(******************************** reading ********************************)
\* The pages of a template, an expression and the aggregators of a group are
\* refused when a row they name is missing.
GetATemplate(t) == tpl[t].action \in action \cup {0}
GetExpression(e) == expression[e].action \in action
GetAggregatorListOfGrp(g) ==
    (\E c \in DOMAIN cluster : cluster[c].grp = g) => g \in Groups

\* The groups and the templates of a host, as the pages of the api show them.
RelatedGrp(h) == {g \in Groups : <<g, h>> \in grpHost}
RelatedTpl(h) ==
    {t \in Tpls : \E i \in DOMAIN grpTpl : grpTpl[i].tpl = t /\ grpTpl[i].grp \in RelatedGrp(h)}

AnyGroup == 1..last["grp"]
AnyTpl   == 1..last["tpl"]

GroupRequest(u) ==
    \/ CreateHostGroup(u)
    \/ \E g \in AnyGroup :
        \/ DeleteHostGroup(u, g) \/ CreatePlugin(u, g) \/ CreateAggregator(u, g)
        \/ \E hs \in SUBSET Hosts \ {{}} :
            \/ BindHostToHostGroup(u, g, hs)
            \/ \E op \in {"add", "remove"} : PatchHostGroupHost(u, g, hs, op)
        \/ \E h \in Hosts : UnBindAHostToHostGroup(u, g, h)
        \/ \E t \in AnyTpl : BindTemplateToGroup(u, g, t) \/ UnBindTemplateToGroup(u, g, t)
    \/ \E p \in DOMAIN plugin : DeletePlugin(u, p)
    \/ \E c \in DOMAIN cluster : DeleteAggregator(u, c)

TemplateRequest(u) ==
    \/ \E parent \in AnyTpl \cup {0} :
        CreateTemplate(u, parent) \/ \E t \in Tpls : UpdateTemplate(u, t, parent)
    \/ \E t \in AnyTpl : DeleteTemplate(t) \/ CreateActionToTmplate(t)
    \/ \E k \in Keys :
        \/ \E t \in AnyTpl : CreateStrategy(t, k)
        \/ \E s \in DOMAIN strategy : UpdateStrategy(s, k)
    \/ \E s \in DOMAIN strategy : DeleteStrategy(s)
    \/ \E pause \in BOOLEAN :
        CreateExrpession(u, pause)
        \/ \E e \in DOMAIN expression : UpdateExrpession(u, e, pause)
    \/ \E e \in DOMAIN expression : DeleteExpression(u, e)

Finish(r) == ReplaceHosts(r) \/ Rollback(r) \/ bindHostToHostGroup(r)
             \/ unbindHostToHostGroup(r) \/ SaveBinding(r)

Maintain == \E hs \in SUBSET Hosts, on \in BOOLEAN : SetMaintain(hs, on)

Next ==
    \/ \E u \in Users : GroupRequest(u) \/ TemplateRequest(u)
    \/ Maintain
    \/ \E r \in flight : Finish(r)

Spec == Init /\ [][Next]_vars

-----------------------------------------------------------------------------
\* Deleting a group or a template takes every row along that names it: what is
\* left was written by a request that came too late; and but for such rows the
\* templates hbs finds for a host are those its page shows. (The rows of a deleted
\* group in grp_tpl do stay, see DeleteHostGroup, and must reach no host.)
CascadesWhole ==
    /\ \A r \in grpHost : \A i \in DOMAIN grpTpl :
        grpTpl[i].grp = r[1] => \/ grpTpl[i].tpl \in RelatedTpl(r[2])
                               \/ {<<"grpHost", r>>, <<"tpl", grpTpl[i].tpl>>} \cap late # {}
    /\ \A r \in grpHost : r[1] \in Groups \/ <<"grpHost", r>> \in late
    /\ \A p \in DOMAIN plugin : plugin[p].grp \in Groups \/ <<"plugin", p>> \in late
    /\ \A c \in DOMAIN cluster : cluster[c].grp \in Groups \/ <<"cluster", c>> \in late
    /\ \A s \in DOMAIN strategy : strategy[s].tpl \in Tpls \/ <<"strategy", s>> \in late
    /\ \A i \in DOMAIN grpTpl : grpTpl[i].tpl \in Tpls \/ <<"tpl", grpTpl[i].tpl>> \in late

\* A template is bound to a group once, unless two requests overlapped.
BoundOnce ==
    \A i, j \in DOMAIN grpTpl :
        i # j /\ grpTpl[i].grp = grpTpl[j].grp /\ grpTpl[i].tpl = grpTpl[j].tpl
        => <<grpTpl[i].grp, grpTpl[i].tpl>> \in twice

\* The page of every template and every expression opens, and no two of them
\* share an action, which the deletion of one would take from the other. The list
\* of aggregators of a group opens too, unless one was created too late.
PagesOpen ==
    /\ \A t \in Tpls : GetATemplate(t)
    /\ \A e \in DOMAIN expression : GetExpression(e)
    /\ \A t \in Tpls, u \in Tpls : t # u /\ tpl[t].action # 0 => tpl[t].action # tpl[u].action
    /\ \A t \in Tpls, e \in DOMAIN expression : tpl[t].action # expression[e].action
    /\ \A g \in AnyGroup : GetAggregatorListOfGrp(g)
        \/ \E c \in DOMAIN cluster : cluster[c].grp = g /\ <<"cluster", c>> \in late
=============================================================================
