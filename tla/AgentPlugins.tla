---------------------------- MODULE AgentPlugins ----------------------------
(* The plugins of an agent: the loop that asks hbs which scripts to run, the  *)
(* tables of plugins and of their schedulers, and the goroutine of each.      *)
EXTENDS Naturals, Sequences, FiniteSets, Functions, SequencesExt

CONSTANTS
    Files,        \* scripts of the one directory, named $cycle_$name
    Bindable,     \* what a host can be told to run: <<"dir", "">>, <<file, args>>
    MaxMTime,     \* how often a script may be written
    MaxScheds,    \* schedulers alive at the same time
    MaxChanges,   \* changes to the bindings or the scripts
    MaxBack       \* seconds the clock of hbs may be set back

ASSUME PluginsAssumption ==
    /\ IsFiniteSet(Files) /\ IsFiniteSet(Bindable) /\ \A b \in Bindable : b[1] \in Files \cup {"dir"}
    /\ MaxMTime \in Nat \ {0} /\ MaxScheds \in Nat /\ MaxChanges \in Nat /\ MaxBack \in Nat

VARIABLES
    bindings,     \* what hbs answers for the host
    file,         \* file[f]: the modification time of a script, 0 if there is none
    changes,
    lag,          \* the timestamp of the last answer minus the clock of hbs; -1 and
                  \* below are one
    found,        \* the entries of an answer that were on disk when looked for
    asleep,       \* whether syncMinePlugins sleeps, found being empty
    Plugins,      \* Plugins[key]: the modification time the key was scheduled with
    PluginsWithScheduler, \* the scheduler of a key
    sched         \* sched[i]: key, modification time, whether Quit is closed, and doing

disk  == <<bindings, file, changes>>
loop  == <<lag, found, asleep>>
table == <<Plugins, PluginsWithScheduler, sched>>
pvars == <<disk, loop, table>>

Scheds == 1..MaxScheds
\* A script of the directory and a script bound by itself have keys of their own.
Keys == {<<f, "listed">> : f \in Files} \cup {b \in Bindable : b[1] # "dir"}
Ended == [key |-> <<"", "">>, mtime |-> 0, quit |-> TRUE, doing |-> "ended"]

PluginsTypeOK ==
    /\ bindings \subseteq Bindable /\ file \in [Files -> 0..MaxMTime]
    /\ changes \in 0..MaxChanges /\ lag \in (0 - 1)..MaxBack
    /\ found \subseteq Bindable /\ asleep \in BOOLEAN
    /\ Plugins \in [DOMAIN Plugins -> 1..MaxMTime] /\ DOMAIN Plugins \subseteq Keys
    /\ PluginsWithScheduler \in [DOMAIN Plugins -> Scheds]
    /\ sched \in [Scheds -> [key : Keys \cup {Ended.key}, mtime : 0..MaxMTime,
                             quit : BOOLEAN, doing : {"wait", "run", "ended"}]]

Fresh ==
    /\ lag = 0 - 1 /\ found = {} /\ asleep = TRUE
    /\ Plugins = <<>> /\ PluginsWithScheduler = <<>>
    /\ sched = [i \in Scheds |-> Ended]
PluginsInit == bindings \in SUBSET Bindable /\ file \in [Files -> 0..1] /\ changes = 0 /\ Fresh

\* A panic ends the agent, which is started again.
Panic ==
    /\ lag' = 0 - 1 /\ found' = {} /\ asleep' = TRUE
    /\ Plugins' = <<>> /\ PluginsWithScheduler' = <<>>
    /\ sched' = [i \in Scheds |-> Ended]

(**************************** around the agent ****************************)
Change == changes < MaxChanges /\ changes' = changes + 1 /\ UNCHANGED <<loop, table>>
\* The portal binds other scripts to the host.
Bind == Change /\ bindings' \in SUBSET Bindable \ {bindings} /\ UNCHANGED file
\* A pull of the plugin's repository writes or removes a script.
Pull ==
    /\ Change /\ UNCHANGED bindings
    /\ \E f \in Files :
        \/ file[f] < MaxMTime /\ file' = [file EXCEPT ![f] = @ + 1]
        \/ file[f] > 0 /\ file' = [file EXCEPT ![f] = 0]
Second ==
    /\ lag >= 0 /\ lag' = lag - 1
    /\ UNCHANGED <<disk, found, asleep, table>>
ClockBack ==
    /\ changes < MaxChanges /\ changes' = changes + 1 /\ lag = 0 /\ lag' = MaxBack
    /\ UNCHANGED <<bindings, file, found, asleep, table>>

(****************************** syncMinePlugins ******************************)
\* Stop closes Quit; the goroutine sees it when it comes to its select.
Stopped(keys) ==
    [i \in Scheds |-> [sched[i] EXCEPT !.quit = @ \/ \E k \in keys : PluginsWithScheduler[k] = i]]

ClearAllPlugins ==
    /\ Plugins' = <<>> /\ PluginsWithScheduler' = <<>>
    /\ sched' = Stopped(DOMAIN Plugins)

\* An answer that is not newer than the last is passed over. A call that fails
\* changes nothing.
MinePlugins ==
    /\ asleep /\ lag < 0 /\ lag' = 0
    /\ UNCHANGED disk
    /\ IF bindings = {}
       THEN ClearAllPlugins /\ UNCHANGED <<found, asleep>>
       ELSE /\ found' = {b \in bindings : b[1] = "dir" \/ file[b[1]] > 0}
            /\ asleep' = FALSE
            /\ UNCHANGED table

\* The scripts bound by themselves, and those of the directory but for the former.
Desired(entries) ==
    LET alone  == {e \in entries : e[1] # "dir"}
        taken  == {e[1] : e \in alone}
        listed == IF alone = entries THEN {} ELSE {f \in Files \ taken : file[f] > 0}
    IN  [k \in alone \cup {<<f, "listed">> : f \in listed} |-> file[k[1]]]

\* Mutant: a script that was written since is not unused.
UnusedByName(d) == DOMAIN Plugins \ DOMAIN d

\* DelNoUsePlugins deletes what is not wanted any more or was written since.
Unused(d) == {k \in DOMAIN Plugins : k \notin DOMAIN d \/ Plugins[k] # d[k]}

\* AddNewPlugins schedules what is not in the table or has another time there.
New(d, kept) == {k \in DOMAIN d : k \notin kept \/ Plugins[k] # d[k]}

\* Stat of a script that is gone by now gives nil, whose ModTime panics.
Sync ==
    /\ ~asleep /\ UNCHANGED disk
    /\ IF \E e \in found : e[1] # "dir" /\ file[e[1]] = 0
       THEN Panic
       ELSE LET d == Desired(found)
                unused == Unused(d)
                kept == DOMAIN Plugins \ unused
                new == SetToSeq(New(d, kept))
                free == SetToSeq({i \in Scheds : sched[i].doing = "ended"})
                of(k) == CHOOSE n \in DOMAIN new : new[n] = k
            IN  /\ Len(new) <= Len(free)
                /\ Plugins' = [k \in kept \cup DOMAIN d |-> d[k]]
                /\ PluginsWithScheduler' =
                    [k \in kept \cup DOMAIN d |->
                        IF k \in ToSet(new) THEN free[of(k)] ELSE PluginsWithScheduler[k]]
                /\ sched' = [i \in Scheds |->
                    IF \E n \in DOMAIN new : free[n] = i
                    THEN LET k == new[CHOOSE n \in DOMAIN new : free[n] = i]
                         IN  [key |-> k, mtime |-> d[k], quit |-> FALSE, doing |-> "wait"]
                    ELSE Stopped(unused)[i]]
                /\ found' = {} /\ asleep' = TRUE /\ UNCHANGED lag

(******************************** schedulers ********************************)
Doing(i, from, to) ==
    /\ sched[i].doing = from /\ sched' = [sched EXCEPT ![i] = to]
    /\ UNCHANGED <<disk, loop, Plugins, PluginsWithScheduler>>

\* When a tick and Quit are both there, select takes any. A script that is not on
\* disk is not run.
Tick(i) == /\ file[sched[i].key[1]] > 0 /\ Doing(i, "wait", [sched[i] EXCEPT !.doing = "run"])
\* A run ends by itself or is killed before the next tick.
PluginRunEnds(i) == Doing(i, "run", [sched[i] EXCEPT !.doing = "wait"])
Quit(i) == sched[i].quit /\ Doing(i, "wait", Ended)

Schedule(i) == PluginRunEnds(i) \/ Quit(i) \/ (sched[i].doing = "wait" /\ Tick(i))

PluginsNext ==
    \/ Bind \/ Pull \/ Second \/ ClockBack \/ MinePlugins \/ Sync
    \/ \E i \in Scheds : Schedule(i)

-----------------------------------------------------------------------------
\* Every key has one scheduler that goes on, started for the script as the key has
\* it, and a scheduler that goes on has its key; what runs beside it was stopped.
SchedulersMatch ==
    /\ DOMAIN Plugins = DOMAIN PluginsWithScheduler
    /\ \A k \in DOMAIN Plugins :
        LET s == sched[PluginsWithScheduler[k]]
        IN  s.key = k /\ s.mtime = Plugins[k] /\ ~s.quit /\ s.doing # "ended"
    /\ \A i \in Scheds : ~sched[i].quit =>
        /\ sched[i].key \in DOMAIN Plugins
        /\ PluginsWithScheduler[sched[i].key] = i

\* The agent runs what is bound, as it is on disk, and nothing else.
RunsAsBound ==
    /\ Plugins = Desired({b \in bindings : b[1] = "dir" \/ file[b[1]] > 0})
    /\ \A i \in Scheds : sched[i].doing # "ended" => ~sched[i].quit
=============================================================================
