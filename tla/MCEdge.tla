------------------------------- MODULE MCEdge -------------------------------
(* The programs at the edge.  An agent's plugins, its heartbeats, its reports   *)
(* and the pushing of its metrics share no state, and a gateway none with them: *)
(* each behaviour shows one of the five.                                       *)
EXTENDS AgentPlugins, AgentHeartbeat, AgentPush, Gateway

VARIABLE part

MCBindable == {<<"dir", "">>, <<"f", "">>, <<"f", "x">>}

MCInit == PluginsInit /\ HeartbeatInit /\ AgentPushInit /\ GatewayInit
          /\ part \in {"plugins", "beat", "report", "push", "gateway"}
          /\ (part # "plugins" => bindings = {} /\ file = [f \in Files |-> 0])
          /\ (part # "beat" => metrics = {} /\ currentRebootTimes = 1)
MCNext ==
    /\ UNCHANGED part
    /\ \/ part = "plugins" /\ PluginsNext /\ UNCHANGED <<bvars, pushvars, gvars>>
       \/ part = "beat" /\ BeatNext /\ UNCHANGED <<pvars, pushvars, gvars>>
       \/ part = "report" /\ ReportNext /\ UNCHANGED <<pvars, pushvars, gvars>>
       \/ part = "push" /\ AgentPushNext /\ UNCHANGED <<pvars, bvars, gvars>>
       \/ part = "gateway" /\ GatewayNext /\ UNCHANGED <<pvars, bvars, pushvars>>

\* Time passes, the loops go on, calls come through again, hbs handles what it has
\* begun, no run of a plugin lasts, and select does not prefer ticks for ever.
PluginsFair ==
    /\ WF_pvars(part = "plugins" /\ Second)
    /\ WF_pvars(part = "plugins" /\ (MinePlugins \/ Sync))
    /\ \A i \in Scheds : WF_pvars(part = "plugins" /\ PluginRunEnds(i))
                        /\ SF_pvars(part = "plugins" /\ Quit(i))
HeartbeatFair ==
    /\ WF_bvars(part = "beat" /\ Elapse)
    /\ WF_bvars(part = "beat" /\ Heartbeat)
    /\ WF_bvars(part = "beat" /\ Asked)
ReportFair ==
    /\ WF_bvars(part = "report" /\ ReportStatus)
    /\ WF_bvars(part = "report" /\ \E p \in puts : Put(p))
\* Goroutines are scheduled and timeouts fire; the receiving end owes nothing.
ForwardFair ==
    /\ \A p \in Pushers : WF_pushvars(part = "push" /\ Push(p))
    /\ WF_gvars(part = "gateway" /\ ForwardTask)

Spec == MCInit /\ [][MCNext]_<<pvars, bvars, pushvars, gvars, part>>
        /\ PluginsFair /\ HeartbeatFair /\ ReportFair /\ ForwardFair

TypeOK == PluginsTypeOK /\ HeartbeatTypeOK /\ AgentPushTypeOK /\ GatewayTypeOK

\* The agent's tables of plugins and schedulers, and the gateway's counters of calls,
\* say what there is to stop and to wait for.
TablesMatch == TypeOK /\ SchedulersMatch /\ SlotsMatch

\* A batch that the agent pushes, and one the gateway forwards, is served as
\* DeliveryChannel promises.
ForwardIsChannel == PushIsChannel /\ GatewayIsChannel

\* Once nothing changes from outside any more, the agent does what the portal has
\* for it, and the row of its host says what it reports.
AgentFollows ==
    <>[](/\ part = "plugins" => RunsAsBound
         /\ part = "beat" => watched = metrics
         /\ part = "report" => row = version \/ unlucky)

\* Every push of the agent ends, and the gateway brings everything it has received
\* to an end: no lock, slot or round is left open by a call that failed.
ForwardSettles == <>[](/\ part = "push" => PushesEnd
                       /\ part = "gateway" => GatewayIdle)
=============================================================================
