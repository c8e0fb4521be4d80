----------------------------- MODULE EdgeProofs -----------------------------
(* Proofs about the programs at the edge: AgentHeartbeat, AgentPush, Gateway    *)
(* and AgentPlugins.                                                            *)
EXTENDS MCEdge, FiniteSetTheorems, TLAPS

-----------------------------------------------------------------------------
(* Reboots the agent asks android for *)

\* Android's wish and the agent's flag are the same between two callbacks, during
\* one the wish has been taken, and the mark is sent with the first answer only.
Armed ==
    /\ bOfflineReboot \in BOOLEAN /\ armed \in BOOLEAN /\ crossed \in BOOLEAN /\ bootUp \in BOOLEAN
    /\ asking \in BOOLEAN /\ marks \in {0, 1} /\ (bootUp => marks = 0)
    /\ ~crossed => IF asking THEN ~armed ELSE bOfflineReboot = armed

\* An agent starts with no wish of android's and no flag.
LEMMA ArmedInit == HeartbeatInit => Armed
BY DEF HeartbeatInit, Armed

\* Each of the heartbeat's and the report's steps keeps the flag with the wish.
LEMMA ArmedStep == Armed /\ [BeatNext \/ ReportNext]_bvars => Armed'
<1> SUFFICES ASSUME Armed, [BeatNext \/ ReportNext]_bvars PROVE Armed'
  OBVIOUS
<1> USE DEF beat, report
<1>1. CASE Rebind \/ Elapse
  BY <1>1 DEF Rebind, Elapse, Armed
<1>2. ASSUME NEW wanted \in BOOLEAN, SetOfflineReboot(wanted) PROVE Armed'
  <2>1. bOfflineReboot' = wanted /\ armed' = wanted /\ asking' = asking /\ marks' = marks /\ bootUp' = bootUp
    BY <1>2 DEF SetOfflineReboot
  <2>2. crossed' \in BOOLEAN /\ (~crossed' => ~asking)
    BY <1>2, Zenon DEF SetOfflineReboot, Armed
  <2> QED
    BY <2>1, <2>2 DEF Armed
<1>3. CASE Heartbeat \/ HeartbeatError
  <2>1. asking = FALSE /\ UNCHANGED <<bOfflineReboot, armed, asking, crossed>>
    BY <1>3 DEF Heartbeat, HeartbeatError, Answered, Armed
  <2>2. bootUp' = FALSE /\ marks' \in {0, 1}
    <3>1. bootUp' = FALSE /\ marks' = IF bootUp THEN marks + 1 ELSE marks
      BY <1>3 DEF Heartbeat, HeartbeatError, Answered
    <3>2. marks \in {0, 1} /\ (bootUp => marks = 0)
      BY DEF Armed
    <3>3. CASE bootUp
      BY <3>1, <3>2, <3>3
    <3>4. CASE ~bootUp
      BY <3>1, <3>2, <3>4
    <3> QED
      BY <3>1, <3>3, <3>4
  <2> QED
    BY <2>1, <2>2, Zenon DEF Armed
<1>4. CASE AskReboot
  BY <1>4 DEF AskReboot, Armed
<1>5. CASE Asked
  BY <1>5 DEF Asked, Armed
<1>6. ASSUME UNCHANGED beat PROVE Armed'
  BY <1>6 DEF Armed
<1>7. CASE ReportNext
  BY <1>6, <1>7 DEF ReportNext, Upgrade, ReportStatus, ReportTimesOut, Forget, ReportLost, Put, PutReads,
     UpdateAgent, PutWrites
<1>8. CASE UNCHANGED bvars
  BY <1>6, <1>8 DEF bvars
<1> QED
  BY <1>1, <1>2, <1>3, <1>4, <1>5, <1>7, <1>8 DEF BeatNext

\* Between two callbacks that is what the property says.
LEMMA ArmedKept == Armed => ArmingKept
BY DEF Armed, ArmingKept

\* A behaviour is one of the five programs, and each keeps to its own actions.
LEMMA SpecSteps == Spec => MCInit /\ [][MCNext]_<<pvars, bvars, pushvars, gvars, part>>
BY DEF Spec

\* A step of one program is its own next-state relation or a stutter of each.
LEMMA PartSteps ==
    [MCNext]_<<pvars, bvars, pushvars, gvars, part>> =>
        /\ [PluginsNext]_pvars /\ [BeatNext \/ ReportNext]_bvars
        /\ [AgentPushNext]_pushvars /\ [GatewayNext]_gvars
BY DEF MCNext

\* src/agent/cron/reporter.go and g/offline: android is asked once for each time it
\* allowed a reboot, and offline.reboot is sent once.
THEOREM ArmingIsKept == Spec => []ArmingKept
<1>1. MCInit => Armed
  BY ArmedInit DEF MCInit
<1> QED
  BY <1>1, ArmedStep, PartSteps, SpecSteps, ArmedKept, PTL

-----------------------------------------------------------------------------
(* The row of a host                                                            *)

ReportTyped ==
    /\ events \in 0..MaxEvents /\ version \in 1..events + 1
    /\ puts \subseteq [version : 1..MaxEvents + 1, waits : BOOLEAN, at : {"sent", "differs", "same"}]
    /\ cached \in 0..MaxEvents + 1 /\ row \in 0..MaxEvents + 1 /\ unlucky \in BOOLEAN

\* As long as nothing went wrong, hbs handles one report at a time, a report that is
\* still to be cached has the contents of the row, and else the row is as cached.
RowKnown ==
    /\ \A p, q \in puts : p.at # "sent" /\ q.at # "sent" => p = q
    /\ \A p \in puts : p.at = "same" => row = p.version
    /\ (\A p \in puts : p.at # "same") => cached = 0 \/ row = cached
RowSound == ReportTyped /\ (~unlucky => RowKnown)

\* hbs has no report at first.
LEMMA RowInit == HeartbeatInit => RowSound
<1> SUFFICES ASSUME HeartbeatInit PROVE RowSound
  OBVIOUS
<1>1. events = 0 /\ version = 1 /\ puts = {} /\ cached = 0 /\ row = 0 /\ unlucky = FALSE
  BY DEF HeartbeatInit
<1>2. ReportTyped
  <2>1. 0 \in 0..MaxEvents /\ 0 \in 0..MaxEvents + 1 /\ 1 \in 1..0 + 1
    BY BeatBounds
  <2> QED
    BY <1>1, <2>1, Zenon DEF ReportTyped
<1>3. RowKnown
  BY <1>1 DEF RowKnown
<1> QED
  BY <1>2, <1>3 DEF RowSound

\* A report is a record with three fields, of which hbs changes one.
LEMMA PutFields ==
    ASSUME ReportTyped, NEW p \in puts
    PROVE  /\ p.version \in 1..MaxEvents + 1 /\ p.waits \in BOOLEAN /\ p.at \in {"sent", "differs", "same"}
           /\ [p EXCEPT !.waits = FALSE] \in [version : 1..MaxEvents + 1, waits : BOOLEAN, at : {"sent", "differs", "same"}]
           /\ [p EXCEPT !.waits = FALSE].at = p.at /\ [p EXCEPT !.waits = FALSE].version = p.version
           /\ \A x \in {"sent", "differs", "same"} :
                /\ [p EXCEPT !.at = x] \in [version : 1..MaxEvents + 1, waits : BOOLEAN, at : {"sent", "differs", "same"}]
                /\ [p EXCEPT !.at = x].at = x /\ [p EXCEPT !.at = x].version = p.version
<1>1. p \in [version : 1..MaxEvents + 1, waits : BOOLEAN, at : {"sent", "differs", "same"}]
  BY DEF ReportTyped
<1> QED
  BY <1>1

\* Put's three steps, a time-out, a restart of hbs and a failed write keep the row known.
LEMMA RowStep == RowSound /\ [BeatNext \/ ReportNext]_bvars => RowSound'
<1> SUFFICES ASSUME RowSound, [BeatNext \/ ReportNext]_bvars PROVE RowSound'
  OBVIOUS
<1> USE DEF beat, report
<1>t. ReportTyped
  BY DEF RowSound
<1>0. ASSUME UNCHANGED report, events' = events \/ Event PROVE RowSound'
  <2>1. ReportTyped'
    BY <1>0, <1>t, BeatBounds DEF ReportTyped, Event
  <2>2. UNCHANGED <<RowKnown, unlucky>>
    BY <1>0 DEF RowKnown
  <2> QED
    BY <2>1, <2>2 DEF RowSound
<1>1. CASE BeatNext
  BY <1>0, <1>1 DEF BeatNext, Rebind, Elapse, Heartbeat, HeartbeatError, Answered, AskReboot, Asked, SetOfflineReboot
<1>2. CASE Upgrade
  <2>1. UNCHANGED <<puts, cached, row, unlucky>> /\ Event /\ version' = version + 1
    BY <1>2 DEF Upgrade
  <2>2. ReportTyped'
    BY <2>1, <1>t, BeatBounds DEF ReportTyped, Event
  <2>3. UNCHANGED RowKnown
    BY <2>1 DEF RowKnown
  <2> QED
    BY <2>1, <2>2, <2>3 DEF RowSound
<1>3. CASE ReportStatus
  <2> DEFINE r == [version |-> version, waits |-> TRUE, at |-> "sent"]
  <2>1. puts' = puts \cup {r} /\ UNCHANGED <<version, cached, row, unlucky, events>>
    BY <1>3 DEF ReportStatus
  <2>2. version \in 1..MaxEvents + 1
    BY <1>t, BeatBounds DEF ReportTyped
  <2>3. r \in [version : 1..MaxEvents + 1, waits : BOOLEAN, at : {"sent", "differs", "same"}] /\ r.at = "sent"
    BY <2>2
  <2> HIDE DEF r
  <2>4. ReportTyped'
    BY <2>1, <2>3, <1>t DEF ReportTyped
  <2>5. RowKnown => RowKnown'
    BY <2>1, <2>3 DEF RowKnown
  <2> QED
    BY <2>1, <2>4, <2>5 DEF RowSound
<1>4. ASSUME NEW p \in puts, p.waits, puts' = (puts \ {p}) \cup {[p EXCEPT !.waits = FALSE]}, Event,
             UNCHANGED <<beat, version, cached, row, unlucky>>
      PROVE  RowSound'
  <2> DEFINE r == [p EXCEPT !.waits = FALSE]
  <2>1. r \in [version : 1..MaxEvents + 1, waits : BOOLEAN, at : {"sent", "differs", "same"}]
        /\ r.at = p.at /\ r.version = p.version
    BY <1>t, PutFields
  <2>2. puts' = (puts \ {p}) \cup {r}
    BY <1>4
  <2> HIDE DEF r
  <2>4. ReportTyped'
    BY <2>1, <2>2, <1>t, <1>4, BeatBounds DEF ReportTyped, Event
  <2>5. RowKnown => RowKnown'
    BY <2>1, <2>2, <1>4 DEF RowKnown
  <2> QED
    BY <1>4, <2>4, <2>5 DEF RowSound
<1>5. ASSUME NEW p \in puts, ReportLost(p) PROVE RowSound'
  <2>1. puts' = puts \ {p} /\ p.at = "sent" /\ UNCHANGED <<version, cached, row, unlucky, events>>
    BY <1>5 DEF ReportLost
  <2>4. ReportTyped'
    BY <2>1, <1>t DEF ReportTyped
  <2>5. RowKnown => RowKnown'
    BY <2>1 DEF RowKnown
  <2> QED
    BY <2>1, <2>4, <2>5 DEF RowSound
<1>6. ASSUME NEW p \in puts, PutReads(p) PROVE RowSound'
  <2> DEFINE x == IF cached = p.version THEN "same" ELSE "differs"
  <2> DEFINE r == [p EXCEPT !.at = x]
  <2>0. x \in {"sent", "differs", "same"} /\ x # "sent" /\ (x = "same" => cached = p.version)
    OBVIOUS
  <2>1. puts' = (puts \ {p}) \cup {r} /\ p.at = "sent" /\ UNCHANGED <<version, cached, row, events>>
        /\ unlucky' = (unlucky \/ \E q \in puts : q.at # "sent")
    BY <1>6 DEF PutReads
  <2> HIDE DEF x
  <2>2. r \in [version : 1..MaxEvents + 1, waits : BOOLEAN, at : {"sent", "differs", "same"}]
        /\ r.at = x /\ r.version = p.version
    <3>1. \A y \in {"sent", "differs", "same"} :
            /\ [p EXCEPT !.at = y] \in [version : 1..MaxEvents + 1, waits : BOOLEAN, at : {"sent", "differs", "same"}]
            /\ [p EXCEPT !.at = y].at = y /\ [p EXCEPT !.at = y].version = p.version
      BY <1>t, PutFields
    <3> QED
      BY <3>1, <2>0, Zenon
  <2> HIDE DEF r
  <2>3. unlucky' \in BOOLEAN /\ (~unlucky' => ~unlucky /\ \A q \in puts : q.at = "sent")
    BY <2>1, <1>t, Zenon DEF ReportTyped
  <2>4. ReportTyped'
    BY <2>1, <2>2, <2>3, <1>t DEF ReportTyped
  <2>5. ASSUME RowKnown, \A q \in puts : q.at = "sent" PROVE RowKnown'
    BY <2>0, <2>1, <2>2, <2>5 DEF RowKnown
  <2> QED
    BY <2>3, <2>4, <2>5 DEF RowSound
<1>7. ASSUME NEW p \in puts, UpdateAgent(p) PROVE RowSound'
  <2> DEFINE r == [p EXCEPT !.at = "same"]
  <2>1. puts' = (puts \ {p}) \cup {r} /\ p.at = "differs" /\ UNCHANGED <<version, cached>>
    BY <1>7 DEF UpdateAgent
  <2>2. r \in [version : 1..MaxEvents + 1, waits : BOOLEAN, at : {"sent", "differs", "same"}]
        /\ r.at = "same" /\ r.version = p.version /\ p.version \in 1..MaxEvents + 1
    BY <1>t, PutFields
  <2> HIDE DEF r
  <2>3. CASE row' = p.version /\ UNCHANGED <<unlucky, events>>
    <3>1. ReportTyped'
      BY <2>1, <2>2, <2>3, <1>t DEF ReportTyped
    <3>2. RowKnown => RowKnown'
      BY <2>1, <2>2, <2>3 DEF RowKnown
    <3> QED
      BY <3>1, <3>2, <2>3 DEF RowSound
  <2>4. CASE Event /\ UNCHANGED row /\ unlucky' = TRUE
    <3>1. ReportTyped'
      BY <2>1, <2>2, <2>4, <1>t, BeatBounds DEF ReportTyped, Event
    <3> QED
      BY <3>1, <2>4 DEF RowSound
  <2> QED
    BY <1>7, <2>3, <2>4 DEF UpdateAgent
<1>8. ASSUME NEW p \in puts, PutWrites(p) PROVE RowSound'
  <2>1. puts' = puts \ {p} /\ p.at = "same" /\ cached' = p.version /\ UNCHANGED <<version, row, unlucky, events>>
    BY <1>8 DEF PutWrites
  <2>2. p.version \in 1..MaxEvents + 1
    BY <1>t, PutFields
  <2>3. ReportTyped'
    BY <2>1, <2>2, <1>t, BeatBounds DEF ReportTyped
  <2>4. RowKnown => RowKnown'
    BY <2>1 DEF RowKnown
  <2> QED
    BY <2>1, <2>3, <2>4 DEF RowSound
<1>9. CASE Forget
  <2>1. puts' = {} /\ cached' = 0 /\ Event /\ UNCHANGED <<version, row, unlucky>>
    BY <1>9 DEF Forget
  <2>2. ReportTyped'
    BY <2>1, <1>t, BeatBounds DEF ReportTyped, Event
  <2>3. RowKnown'
    BY <2>1 DEF RowKnown
  <2> QED
    BY <2>2, <2>3 DEF RowSound
<1>10. CASE UNCHANGED bvars
  BY <1>0, <1>10 DEF bvars
<1>11. CASE ReportTimesOut
  <2>1. PICK p \in puts : p.waits /\ puts' = (puts \ {p}) \cup {[p EXCEPT !.waits = FALSE]}
    BY <1>11 DEF ReportTimesOut
  <2> QED
    BY <1>4, <1>11, <2>1 DEF ReportTimesOut
<1> QED
  BY <1>1, <1>2, <1>3, <1>5, <1>6, <1>7, <1>8, <1>9, <1>10, <1>11 DEF ReportNext, Put

\* With no report under way the row is as cached, or hbs was unlucky.
LEMMA RowKept == RowSound => RowAsCached
BY DEF RowSound, RowKnown, RowAsCached, ReportTyped

\* src/hbs/cache/agents.go: the row of a host says what hbs has cached of it, unless
\* two reports crossed or a write of the row failed.
THEOREM RowIsAsCached == Spec => []RowAsCached
<1>1. MCInit => RowSound
  BY RowInit DEF MCInit
<1> QED
  BY <1>1, RowStep, PartSteps, SpecSteps, RowKept, PTL

-----------------------------------------------------------------------------
(* A batch the agent pushes                                                     *)

FlightPlaces == {"none", "ready", "sent", "answered", "late", "adrift"}
Flights == [at : FlightPlaces, client : Pushers \cup {NoClient}]

\* A pusher that is about to call knows its client, a call has been begun by a pusher
\* that is under way, and what is answered was taken.
Pushed ==
    /\ AgentPushTypeOK
    /\ \A p \in Pushers : at[p] \in {"lock", "wait"} => using[p] \in Clients
    /\ \A p \in Pushers : at[p] = "init" => using[p] \in Addrs \X {NoClient}
    /\ \A p \in Pushers, a \in Addrs : flight[<<p, a>>].at # "none" => at[p] # "new"
    /\ \A p \in Pushers, a \in Addrs : flight[<<p, a>>].at = "answered" => taken[<<p, a>>]

\* A call that has not begun or is forgotten names no client.
LEMMA FlightIs == \A x \in FlightPlaces : Flight(x) \in Flights /\ Flight(x).at = x
BY DEF Flight, Flights, FlightPlaces

\* A call under way goes from one place to another.
LEMMA FlightMoves ==
    ASSUME NEW f \in Flights, NEW x \in FlightPlaces
    PROVE  [f EXCEPT !.at = x] \in Flights /\ [f EXCEPT !.at = x].at = x
BY DEF Flights

\* Nothing is pushed at first.
LEMMA PushedInit == AgentPushInit => Pushed
<1> SUFFICES ASSUME AgentPushInit PROVE Pushed
  OBVIOUS
<1>1. flight \in [Calls -> Flights] /\ \A c \in Calls : flight[c].at = "none"
  BY FlightIs DEF AgentPushInit, FlightPlaces
<1>2. AgentPushTypeOK
  <2>1. NoCall \in Clients \cup (Addrs \X {NoClient}) \cup {NoCall}
    OBVIOUS
  <2> QED
    BY <1>1, <2>1 DEF AgentPushInit, AgentPushTypeOK, Flights, FlightPlaces
<1> QED
  BY <1>1, <1>2 DEF AgentPushInit, Pushed, Calls

\* The pusher's own step changes its place, and at most what it uses and its call.
LEMMA PushedMoves ==
    ASSUME Pushed, NEW p \in Pushers, NEW to \in {"next", "init", "lock", "wait", "sent", "failed"},
           NEW u \in Clients \cup (Addrs \X {NoClient}) \cup {NoCall},
           at' = [at EXCEPT ![p] = to], using' = [using EXCEPT ![p] = u],
           to \in {"lock", "wait"} => u \in Clients, to = "init" => u \in Addrs \X {NoClient},
           UNCHANGED taken
    PROVE  /\ at' \in [Pushers -> {"new", "next", "init", "lock", "wait", "sent", "failed"}]
           /\ using' \in [Pushers -> Clients \cup (Addrs \X {NoClient}) \cup {NoCall}]
           /\ taken' \in [Calls -> BOOLEAN]
           /\ \A q \in Pushers : at'[q] \in {"lock", "wait"} => using'[q] \in Clients
           /\ \A q \in Pushers : at'[q] = "init" => using'[q] \in Addrs \X {NoClient}
           /\ \A q \in Pushers : at[q] # "new" => at'[q] # "new"
           /\ \A q \in Pushers, a \in Addrs : flight[<<q, a>>].at # "none" => at'[q] # "new"
           /\ \A q \in Pushers, a \in Addrs : flight[<<q, a>>].at = "answered" => taken'[<<q, a>>]
<1>1. /\ at \in [Pushers -> {"new", "next", "init", "lock", "wait", "sent", "failed"}]
      /\ using \in [Pushers -> Clients \cup (Addrs \X {NoClient}) \cup {NoCall}]
  BY DEF Pushed, AgentPushTypeOK
<1>2. /\ at' \in [Pushers -> {"new", "next", "init", "lock", "wait", "sent", "failed"}]
      /\ using' \in [Pushers -> Clients \cup (Addrs \X {NoClient}) \cup {NoCall}]
      /\ at'[p] = to /\ using'[p] = u
      /\ \A q \in Pushers : q # p => at'[q] = at[q] /\ using'[q] = using[q]
  BY <1>1
<1>3. \A q \in Pushers : at'[q] \in {"lock", "wait"} => using'[q] \in Clients
  BY <1>2 DEF Pushed
<1>4. \A q \in Pushers : at'[q] = "init" => using'[q] \in Addrs \X {NoClient}
  BY <1>2 DEF Pushed
<1>5. \A q \in Pushers : at[q] # "new" => at'[q] # "new"
  BY <1>2
<1>6. \A q \in Pushers, a \in Addrs : flight[<<q, a>>].at # "none" => at'[q] # "new"
  BY <1>5 DEF Pushed
<1>7. taken' \in [Calls -> BOOLEAN]
      /\ \A q \in Pushers, a \in Addrs : flight[<<q, a>>].at = "answered" => taken'[<<q, a>>]
  BY DEF Pushed, AgentPushTypeOK
<1> QED
  BY <1>2, <1>3, <1>4, <1>5, <1>6, <1>7

\* Every step of a pusher, of a client's calls and of the agent keeps what pushers know.
LEMMA PushedStep == Pushed /\ [AgentPushNext]_pushvars => Pushed'
<1> SUFFICES ASSUME Pushed, [AgentPushNext]_pushvars PROVE Pushed'
  OBVIOUS
<1>t. /\ at \in [Pushers -> {"new", "next", "init", "lock", "wait", "sent", "failed"}]
      /\ left \in [Pushers -> SUBSET Addrs]
      /\ using \in [Pushers -> Clients \cup (Addrs \X {NoClient}) \cup {NoCall}]
      /\ TransferClients \in [Addrs -> Pushers \cup {NoClient}]
      /\ locked \in [Clients -> BOOLEAN] /\ conn \in [Clients -> BOOLEAN]
      /\ flight \in [Calls -> Flights]
      /\ taken \in [Calls -> BOOLEAN] /\ alive \in BOOLEAN
  BY DEF Pushed, AgentPushTypeOK, Flights, FlightPlaces
<1>q. ASSUME left' \in [Pushers -> SUBSET Addrs],
             TransferClients' \in [Addrs -> Pushers \cup {NoClient}],
             locked' \in [Clients -> BOOLEAN], conn' \in [Clients -> BOOLEAN],
             flight' \in [Calls -> Flights], alive' \in BOOLEAN,
             at' \in [Pushers -> {"new", "next", "init", "lock", "wait", "sent", "failed"}],
             using' \in [Pushers -> Clients \cup (Addrs \X {NoClient}) \cup {NoCall}],
             taken' \in [Calls -> BOOLEAN]
      PROVE AgentPushTypeOK'
  BY <1>q DEF AgentPushTypeOK, Flights, FlightPlaces
<1>1. ASSUME NEW p \in Pushers, NEW a \in Addrs, GetTransferClient(p, a) PROVE Pushed'
  <2> DEFINE to == IF TransferClients[a] = NoClient THEN "init" ELSE "lock"
             u == <<a, TransferClients[a]>>
  <2>1. at' = [at EXCEPT ![p] = to] /\ using' = [using EXCEPT ![p] = u]
        /\ left' = [left EXCEPT ![p] = @ \ {a}] /\ UNCHANGED <<TransferClients, locked, conn, flight, taken, alive>>
    BY <1>1 DEF GetTransferClient
  <2>2. to \in {"next", "init", "lock", "wait", "sent", "failed"}
    OBVIOUS
  <2>3. CASE TransferClients[a] = NoClient
    <3>1. u \in Addrs \X {NoClient} /\ to = "init"
      BY <2>3
    <3> HIDE DEF u, to
    <3>2. left' \in [Pushers -> SUBSET Addrs]
      BY <2>1, <1>t
    <3> QED
      BY <1>t, <1>q, <2>1, <2>2, <3>1, <3>2, PushedMoves DEF Pushed
  <2>4. CASE TransferClients[a] # NoClient
    <3>1. u \in Clients /\ to = "lock"
      BY <2>4, <1>t DEF Clients
    <3> HIDE DEF u, to
    <3>2. left' \in [Pushers -> SUBSET Addrs]
      BY <2>1, <1>t
    <3> QED
      BY <1>t, <1>q, <2>1, <2>2, <3>1, <3>2, PushedMoves DEF Pushed
  <2> QED
    BY <2>3, <2>4
<1>2. ASSUME NEW p \in Pushers, InitTransferClient(p) PROVE Pushed'
  <2>1. at[p] = "init" /\ at' = [at EXCEPT ![p] = "lock"] /\ using' = [using EXCEPT ![p][2] = p]
        /\ TransferClients' = [TransferClients EXCEPT ![Addr(p)] = p]
        /\ UNCHANGED <<left, locked, conn, flight, taken, alive>>
    BY <1>2 DEF InitTransferClient, Now
  <2>2. PICK a \in Addrs : using[p] = <<a, NoClient>>
    BY <2>1 DEF Pushed
  <2>3. [using[p] EXCEPT ![2] = p] = <<a, p>>
    BY <2>2
  <2>4. using' = [using EXCEPT ![p] = <<a, p>>] /\ <<a, p>> \in Clients
    BY <2>1, <2>3 DEF Clients
  <2>5. TransferClients' \in [Addrs -> Pushers \cup {NoClient}]
    BY <2>1, <1>t
  <2> QED
    BY <1>t, <1>q, <2>1, <2>4, <2>5, PushedMoves, ZenonT(40) DEF Pushed
<1>3. ASSUME NEW p \in Pushers, GiveUp(p) PROVE Pushed'
  <2>1. at[p] = "next" /\ at' = [at EXCEPT ![p] = "failed"]
        /\ UNCHANGED <<left, using, TransferClients, locked, conn, flight, taken, alive>>
    BY <1>3 DEF GiveUp, Now
  <2>2. using' = [using EXCEPT ![p] = using[p]] /\ using[p] \in Clients \cup (Addrs \X {NoClient}) \cup {NoCall}
    BY <1>t, <2>1
  <2> QED
    BY <1>t, <1>q, <2>1, <2>2, PushedMoves DEF Pushed
<1>4. ASSUME NEW p \in Pushers, ServerConn(p) PROVE Pushed'
  <2> DEFINE f == [at |-> "ready", client |-> using[p][2]]
             c == <<p, Addr(p)>>
  <2>1. at[p] = "lock" /\ at' = [at EXCEPT ![p] = "wait"]
        /\ locked' = [locked EXCEPT ![using[p]] = TRUE] /\ conn' = [conn EXCEPT ![using[p]] = TRUE]
        /\ flight' = [flight EXCEPT ![c] = f] /\ UNCHANGED <<left, using, TransferClients, taken, alive>>
    BY <1>4 DEF ServerConn, Now
  <2>2. using[p] \in Clients /\ using' = [using EXCEPT ![p] = using[p]]
    BY <1>t, <2>1 DEF Pushed
  <2>3. f \in Flights /\ f.at = "ready"
    BY <2>2 DEF Flights, FlightPlaces, Clients
  <2> HIDE DEF f, c
  <2>4. flight' \in [Calls -> Flights]
        /\ \A q \in Pushers, a \in Addrs :
             flight'[<<q, a>>] = IF <<q, a>> = c THEN f ELSE flight[<<q, a>>]
    BY <1>t, <2>1, <2>3 DEF Calls
  <2>5. locked' \in [Clients -> BOOLEAN] /\ conn' \in [Clients -> BOOLEAN]
    BY <1>t, <2>1
  <2>6. \A q \in Pushers, a \in Addrs : <<q, a>> = c => q = p
    BY DEF c
  <2>m. /\ at' \in [Pushers -> {"new", "next", "init", "lock", "wait", "sent", "failed"}]
        /\ using' \in [Pushers -> Clients \cup (Addrs \X {NoClient}) \cup {NoCall}]
        /\ taken' \in [Calls -> BOOLEAN]
        /\ \A q \in Pushers : at'[q] \in {"lock", "wait"} => using'[q] \in Clients
        /\ \A q \in Pushers : at'[q] = "init" => using'[q] \in Addrs \X {NoClient}
        /\ \A q \in Pushers, a \in Addrs : flight[<<q, a>>].at # "none" => at'[q] # "new"
        /\ \A q \in Pushers, a \in Addrs : flight[<<q, a>>].at = "answered" => taken'[<<q, a>>]
    BY <2>1, <2>2, PushedMoves
  <2>7. at'[p] # "new"
    BY <1>t, <2>1
  <2>8. AgentPushTypeOK'
    BY <1>t, <1>q, <2>1, <2>4, <2>5, <2>m
  <2>9. \A q \in Pushers, a \in Addrs : flight'[<<q, a>>].at # "none" => at'[q] # "new"
    BY <2>3, <2>4, <2>6, <2>7, <2>m
  <2>10. \A q \in Pushers, a \in Addrs : flight'[<<q, a>>].at = "answered" => taken'[<<q, a>>]
    BY <2>3, <2>4, <2>m
  <2> QED
    BY <2>8, <2>9, <2>10, <2>m DEF Pushed
<1>5. ASSUME NEW p \in Pushers, DialFails(p) PROVE Pushed'
  <2>1. at[p] = "lock" /\ at' = [at EXCEPT ![p] = "next"] /\ using' = [using EXCEPT ![p] = NoCall]
        /\ UNCHANGED <<left, TransferClients, locked, conn, flight, taken, alive>>
    BY <1>5 DEF DialFails, Now
  <2> QED
    BY <1>t, <1>q, <2>1, PushedMoves DEF Pushed
\* A call ends: its pusher goes on and the call is answered no more.
<1>6. ASSUME NEW p \in Pushers, NEW to \in {"next", "sent"}, NEW f \in Flights, f.at # "answered",
             at[p] = "wait", at' = [at EXCEPT ![p] = to], locked' = Unlocked(p),
             conn' \in [Clients -> BOOLEAN],
             flight' = [flight EXCEPT ![<<p, Addr(p)>>] = f], using' = [using EXCEPT ![p] = NoCall],
             UNCHANGED <<left, TransferClients, taken, alive>>
      PROVE  Pushed'
  <2> DEFINE c == <<p, Addr(p)>>
  <2>1. flight' = [flight EXCEPT ![c] = f]
    BY <1>6
  <2>2. \A q \in Pushers, a \in Addrs : <<q, a>> = c => q = p
    OBVIOUS
  <2> HIDE DEF c
  <2>4. flight' \in [Calls -> Flights]
        /\ \A q \in Pushers, a \in Addrs :
             flight'[<<q, a>>] = IF <<q, a>> = c THEN f ELSE flight[<<q, a>>]
    BY <1>t, <2>1 DEF Calls
  <2>5. locked' \in [Clients -> BOOLEAN]
    BY <1>t, <1>6 DEF Unlocked
  <2>m. /\ at' \in [Pushers -> {"new", "next", "init", "lock", "wait", "sent", "failed"}]
        /\ using' \in [Pushers -> Clients \cup (Addrs \X {NoClient}) \cup {NoCall}]
        /\ taken' \in [Calls -> BOOLEAN]
        /\ \A q \in Pushers : at'[q] \in {"lock", "wait"} => using'[q] \in Clients
        /\ \A q \in Pushers : at'[q] = "init" => using'[q] \in Addrs \X {NoClient}
        /\ \A q \in Pushers, a \in Addrs : flight[<<q, a>>].at # "none" => at'[q] # "new"
        /\ \A q \in Pushers, a \in Addrs : flight[<<q, a>>].at = "answered" => taken'[<<q, a>>]
    BY <1>6, PushedMoves
  <2>7. at'[p] # "new"
    BY <1>t, <1>6
  <2>8. AgentPushTypeOK'
    BY <1>t, <1>q, <1>6, <2>4, <2>5, <2>m
  <2>9. \A q \in Pushers, a \in Addrs : flight'[<<q, a>>].at # "none" => at'[q] # "new"
    BY <2>4, <2>2, <2>7, <2>m
  <2>10. \A q \in Pushers, a \in Addrs : flight'[<<q, a>>].at = "answered" => taken'[<<q, a>>]
    BY <1>6, <2>4, <2>m
  <2> QED
    BY <2>8, <2>9, <2>10, <2>m DEF Pushed
<1>7. ASSUME NEW p \in Pushers, Answer(p) PROVE Pushed'
  <2>1. at[p] = "wait" /\ at' = [at EXCEPT ![p] = "sent"] /\ locked' = Unlocked(p)
        /\ flight' = [flight EXCEPT ![<<p, Addr(p)>>].at = "none"] /\ using' = [using EXCEPT ![p] = NoCall]
        /\ UNCHANGED <<left, TransferClients, conn, taken, alive>>
    BY <1>7 DEF Answer, Now
  <2> DEFINE f == [flight[<<p, Addr(p)>>] EXCEPT !.at = "none"]
  <2>2. using[p] \in Clients /\ <<p, Addr(p)>> \in Calls
    BY <2>1 DEF Pushed, Addr, Clients, Calls
  <2>3. f \in Flights /\ f.at = "none"
    BY <1>t, <2>2, FlightMoves DEF FlightPlaces
  <2>4. flight' = [flight EXCEPT ![<<p, Addr(p)>>] = f]
    BY <2>1
  <2> HIDE DEF f
  <2> QED
    BY <1>6, <1>t, <2>1, <2>3, <2>4
<1>8. ASSUME NEW p \in Pushers, NEW arrives \in BOOLEAN, ClientCallFails(p, arrives) PROVE Pushed'
  <2> DEFINE g == flight[<<p, Addr(p)>>]
             f == CASE g.at = "ready"            -> [g EXCEPT !.at = "late"]
                    [] g.at = "sent" /\ arrives  -> Flight("adrift")
                    [] OTHER                     -> Flight("none")
  <2>1. at[p] = "wait" /\ at' = [at EXCEPT ![p] = "next"] /\ locked' = Unlocked(p)
        /\ conn' = [conn EXCEPT ![using[p]] = FALSE]
        /\ flight' = [flight EXCEPT ![<<p, Addr(p)>>] = f] /\ using' = [using EXCEPT ![p] = NoCall]
        /\ UNCHANGED <<left, TransferClients, taken, alive>>
    BY <1>8 DEF ClientCallFails, Now
  <2>2. using[p] \in Clients /\ <<p, Addr(p)>> \in Calls
    BY <2>1 DEF Pushed, Addr, Clients, Calls
  <2>3. g \in Flights
    BY <1>t, <2>2
  <2>4. f \in Flights /\ f.at # "answered"
    <3> HIDE DEF g
    <3>1. [g EXCEPT !.at = "late"] \in Flights /\ [g EXCEPT !.at = "late"].at = "late"
      BY <2>3, FlightMoves DEF FlightPlaces
    <3>2. Flight("adrift") \in Flights /\ Flight("adrift").at = "adrift" /\ Flight("none") \in Flights /\ Flight("none").at = "none"
      BY FlightIs DEF FlightPlaces
    <3> QED
      BY <3>1, <3>2
  <2>5. conn' \in [Clients -> BOOLEAN]
    BY <1>t, <2>1
  <2> HIDE DEF f
  <2> QED
    BY <1>6, <2>1, <2>4, <2>5
<1>9. ASSUME NEW p \in Pushers, NEW a \in Addrs, GoroutineCalls(p, a) PROVE Pushed'
  <2> DEFINE x == IF flight[<<p, a>>].at = "late" THEN "adrift" ELSE "sent"
             f == Flight(x)
  <2>1. flight[<<p, a>>].at \in {"ready", "late"}
        /\ UNCHANGED <<at, left, using, TransferClients, locked, conn, taken>>
        /\ \/ flight' = [flight EXCEPT ![<<p, a>>] = f] /\ UNCHANGED alive
           \/ alive' = FALSE /\ UNCHANGED flight
    BY <1>9 DEF GoroutineCalls
  <2>2. CASE alive' = FALSE /\ UNCHANGED flight
    <3>1. AgentPushTypeOK'
      BY <1>t, <1>q, <2>1, <2>2
    <3> QED
      BY <2>1, <2>2, <3>1 DEF Pushed
  <2>3. CASE flight' = [flight EXCEPT ![<<p, a>>] = f] /\ UNCHANGED alive
    <3>1. f \in Flights /\ f.at # "answered"
      <4>1. x \in FlightPlaces /\ x # "answered"
        BY DEF FlightPlaces
      <4> HIDE DEF x
      <4> QED
        BY <4>1, FlightIs
    <3> HIDE DEF f
    <3>2. flight' \in [Calls -> Flights]
          /\ \A q \in Pushers, b \in Addrs :
               flight'[<<q, b>>] = IF <<q, b>> = <<p, a>> THEN f ELSE flight[<<q, b>>]
      BY <1>t, <2>3, <3>1 DEF Calls
    <3>3. AgentPushTypeOK'
      BY <1>t, <1>q, <2>1, <2>3, <3>2
    <3>4. \A q \in Pushers, b \in Addrs : flight'[<<q, b>>].at # "none" => at[q] # "new"
      BY <2>1, <3>2 DEF Pushed
    <3>5. \A q \in Pushers, b \in Addrs : flight'[<<q, b>>].at = "answered" => taken[<<q, b>>]
      BY <3>1, <3>2 DEF Pushed
    <3> QED
      BY <2>1, <3>3, <3>4, <3>5 DEF Pushed
  <2> QED
    BY <2>1, <2>2, <2>3
<1>10. ASSUME NEW p \in Pushers, NEW a \in Addrs, Handled(p, a) PROVE Pushed'
  <2> DEFINE x == IF flight[<<p, a>>].at = "sent" THEN "answered" ELSE "none"
             f == [flight[<<p, a>>] EXCEPT !.at = x]
  <2>1. flight[<<p, a>>].at \in {"sent", "adrift"} /\ taken' = [taken EXCEPT ![<<p, a>>] = TRUE]
        /\ flight' = [flight EXCEPT ![<<p, a>>] = f]
        /\ UNCHANGED <<at, left, using, TransferClients, locked, conn, alive>>
    BY <1>10 DEF Handled
  <2>2. <<p, a>> \in Calls
    BY DEF Calls
  <2>3. f \in Flights
    <3>1. x \in FlightPlaces
      BY DEF FlightPlaces
    <3> HIDE DEF x
    <3> QED
      BY <1>t, <2>2, <3>1, FlightMoves
  <2> HIDE DEF f
  <2>4. flight' \in [Calls -> Flights]
        /\ \A q \in Pushers, b \in Addrs :
             flight'[<<q, b>>] = IF <<q, b>> = <<p, a>> THEN f ELSE flight[<<q, b>>]
    BY <1>t, <2>1, <2>3 DEF Calls
  <2>5. taken' \in [Calls -> BOOLEAN] /\ taken'[<<p, a>>]
        /\ \A q \in Pushers, b \in Addrs : <<q, b>> # <<p, a>> => taken'[<<q, b>>] = taken[<<q, b>>]
    BY <1>t, <2>1, <2>2 DEF Calls
  <2>6. AgentPushTypeOK'
    BY <1>t, <1>q, <2>1, <2>4, <2>5
  <2>7. \A q \in Pushers, b \in Addrs : flight'[<<q, b>>].at # "none" => at[q] # "new"
    <3>1. at[p] # "new"
      BY <2>1 DEF Pushed
    <3> QED
      BY <2>4, <3>1 DEF Pushed
  <2>8. \A q \in Pushers, b \in Addrs : flight'[<<q, b>>].at = "answered" => taken'[<<q, b>>]
    BY <2>4, <2>5 DEF Pushed
  <2> QED
    BY <2>1, <2>6, <2>7, <2>8 DEF Pushed
<1>11. CASE UNCHANGED pushvars
  BY <1>11 DEF pushvars, Pushed, AgentPushTypeOK
<1> QED
  BY <1>1, <1>2, <1>3, <1>4, <1>5, <1>7, <1>8, <1>9, <1>10, <1>11 DEF AgentPushNext, Push

\* What has become of the batches, and how often they were handled, as the channel
\* has them.
PushStatuses == [d \in {"transfer"} |-> PushStatus]
TakenBy(p)   == {a \in Addrs : taken[<<p, a>>]}
PushCopies   == [d \in {"transfer"} |-> [p \in Pushers |-> Cardinality({a \in Addrs : taken[<<p, a>>]})]]

\* A pusher's status follows from its place and from whether the agent lives.
LEMMA PushStatusIs ==
    ASSUME NEW p \in Pushers
    PROVE  /\ PushStatuses["transfer"][p] = PushStatus[p]
           /\ PushStatus[p] = IF at[p] \in {"new", "sent", "failed"} THEN at[p]
                              ELSE IF alive THEN "kept" ELSE "lost"
           /\ PushStatus'[p] = IF at'[p] \in {"new", "sent", "failed"} THEN at'[p]
                               ELSE IF alive' THEN "kept" ELSE "lost"
BY DEF PushStatuses, PushStatus

\* A step of one pusher moves its batch alone.
LEMMA PushMoves ==
    ASSUME NEW p \in Pushers, NEW to,
           \A q \in Pushers : PushStatus'[q] = IF q = p THEN to ELSE PushStatus[q]
    PROVE  PushChannel!Move("transfer", {p}, to)
<1> DEFINE now == [q \in Pushers |-> IF q = p THEN to ELSE PushStatus[q]]
<1>1. PushStatus' = now
  BY DEF PushStatus
<1>2. PushStatuses' = [PushStatuses EXCEPT !["transfer"] = now]
  BY <1>1 DEF PushStatuses
<1>3. now = [q \in Pushers |-> IF q \in {p} THEN to ELSE PushStatuses["transfer"][q]]
  BY DEF PushStatuses
<1> HIDE DEF now
<1> QED
  BY <1>2, <1>3 DEF PushChannel!Move, PushStatuses

\* The pushers start where the channel starts.
LEMMA PushChannelInit == AgentPushInit => PushChannel!Init
<1> SUFFICES ASSUME AgentPushInit PROVE PushChannel!Init
  OBVIOUS
<1>1. PushStatus = [p \in Pushers |-> "new"]
  BY DEF AgentPushInit, PushStatus
<1>2. ASSUME NEW p \in Pushers PROVE Cardinality({a \in Addrs : taken[<<p, a>>]}) = 0
  <2>1. {a \in Addrs : taken[<<p, a>>]} = {}
    BY DEF AgentPushInit, Calls
  <2> QED
    BY <2>1, FS_EmptySet
<1> QED
  BY <1>1, <1>2 DEF PushChannel!Init

\* What no address takes is copied to none.
LEMMA PushCopiesSame == UNCHANGED taken => UNCHANGED PushCopies
BY DEF PushCopies

\* Each step of the pushers is a step of the channel, or none.
LEMMA PushChannelStep == Pushed /\ [AgentPushNext]_pushvars => [PushChannel!Next]_<<PushStatuses, PushCopies>>
<1> SUFFICES ASSUME Pushed, [AgentPushNext]_pushvars PROVE [PushChannel!Next]_<<PushStatuses, PushCopies>>
  OBVIOUS
<1>t. at \in [Pushers -> {"new", "next", "init", "lock", "wait", "sent", "failed"}]
      /\ taken \in [Calls -> BOOLEAN] /\ alive \in BOOLEAN
  BY DEF Pushed, AgentPushTypeOK
\* A pusher that goes on with its batch.
<1>1. ASSUME NEW p \in Pushers, NEW to \in {"next", "init", "lock", "wait"},
             at[p] \in {"next", "init", "lock", "wait"}, at' = [at EXCEPT ![p] = to], UNCHANGED <<taken, alive>>
      PROVE  UNCHANGED <<PushStatuses, PushCopies>>
  <2>1. ASSUME NEW q \in Pushers PROVE PushStatus'[q] = PushStatus[q]
    BY <1>t, <1>1, PushStatusIs
  <2>2. UNCHANGED PushStatus
    BY <2>1 DEF PushStatus
  <2> QED
    BY <1>1, <2>2, PushCopiesSame DEF PushStatuses
\* A pusher that begins or ends.
<1>2. ASSUME NEW p \in Pushers, NEW to \in {"init", "lock", "sent", "failed"}, alive,
             at' = [at EXCEPT ![p] = to], UNCHANGED <<taken, alive>>
      PROVE  PushChannel!Move("transfer", {p}, IF to \in {"init", "lock"} THEN "kept" ELSE to)
  <2>1. \A q \in Pushers : PushStatus'[q] = IF q = p THEN IF to \in {"init", "lock"} THEN "kept" ELSE to
                                            ELSE PushStatus[q]
    BY <1>t, <1>2, PushStatusIs
  <2> QED
    BY <2>1, PushMoves
<1>3. ASSUME NEW p \in Pushers, NEW a \in Addrs, GetTransferClient(p, a)
      PROVE  [PushChannel!Next]_<<PushStatuses, PushCopies>>
  <2> DEFINE to == IF TransferClients[a] = NoClient THEN "init" ELSE "lock"
  <2>1. alive /\ at[p] \in {"new", "next"} /\ at' = [at EXCEPT ![p] = to] /\ UNCHANGED <<taken, alive>>
    BY <1>3 DEF GetTransferClient
  <2>2. to \in {"init", "lock"}
    OBVIOUS
  <2> HIDE DEF to
  <2>3. CASE at[p] = "new"
    <3>1. PushChannel!Move("transfer", {p}, "kept")
      BY <1>2, <2>1, <2>2
    <3>2. p \in PushChannel!In("transfer", "new")
      <4>1. PushStatus[p] = "new"
        BY <2>3, PushStatusIs
      <4> QED
        BY <4>1 DEF PushChannel!In, PushStatuses
    <3>3. PushChannel!Keep("transfer")
      BY <3>1, <3>2 DEF PushChannel!Keep
    <3> QED
      BY <2>1, <3>3, PushCopiesSame DEF PushChannel!Next, PushCopies
  <2>4. CASE at[p] = "next"
    BY <1>1, <2>1, <2>2, <2>4
  <2> QED
    BY <2>1, <2>3, <2>4
<1>4. ASSUME NEW p \in Pushers, InitTransferClient(p) \/ ServerConn(p) \/ DialFails(p)
      PROVE  [PushChannel!Next]_<<PushStatuses, PushCopies>>
  BY <1>1, <1>4 DEF InitTransferClient, ServerConn, DialFails, Now
<1>5. ASSUME NEW p \in Pushers, NEW arrives \in BOOLEAN, ClientCallFails(p, arrives)
      PROVE  [PushChannel!Next]_<<PushStatuses, PushCopies>>
  <2>1. at[p] = "wait" /\ at' = [at EXCEPT ![p] = "next"] /\ UNCHANGED <<taken, alive>>
    BY <1>5 DEF ClientCallFails, Now
  <2> QED
    BY <1>1, <2>1
<1>6. ASSUME NEW p \in Pushers, GiveUp(p) PROVE PushChannel!Next
  <2>1. alive /\ at[p] = "next" /\ at' = [at EXCEPT ![p] = "failed"] /\ UNCHANGED <<taken, alive>>
    BY <1>6 DEF GiveUp, Now
  <2>2. PushChannel!Move("transfer", {p}, "failed")
    BY <1>2, <2>1
  <2>3. p \in PushChannel!In("transfer", "kept")
    BY <2>1, PushStatusIs DEF PushChannel!In, PushStatuses
  <2>4. PushChannel!GiveUp("transfer")
    BY <2>2, <2>3 DEF PushChannel!GiveUp
  <2> QED
    BY <2>1, <2>4, PushCopiesSame DEF PushChannel!Next, PushCopies
<1>7. ASSUME NEW p \in Pushers, Answer(p) PROVE PushChannel!Next
  <2>1. alive /\ at[p] = "wait" /\ at' = [at EXCEPT ![p] = "sent"] /\ UNCHANGED <<taken, alive>>
        /\ flight[<<p, Addr(p)>>].at = "answered"
    BY <1>7 DEF Answer, Replied, Now
  <2>2. PushChannel!Move("transfer", {p}, "sent")
    BY <1>2, <2>1
  <2>3. p \in PushChannel!In("transfer", "kept")
    BY <2>1, PushStatusIs DEF PushChannel!In, PushStatuses
  <2>4. Addr(p) \in Addrs /\ taken[<<p, Addr(p)>>]
    BY <2>1 DEF Pushed, Addr, Clients
  <2>5. Cardinality({a \in Addrs : taken[<<p, a>>]}) > 0
    <3> DEFINE S == {a \in Addrs : taken[<<p, a>>]}
    <3>1. IsFiniteSet(S) /\ S # {}
      BY <2>4, PushersHaveAddrs, FS_Subset
    <3>2. Cardinality(S) \in Nat /\ Cardinality(S) # 0
      BY <3>1, FS_CardinalityType, FS_EmptySet
    <3> QED
      BY <3>2
  <2>6. PushChannel!Confirm("transfer")
    <3>1. p \in {i \in PushChannel!In("transfer", "kept") : PushCopies["transfer"][i] > 0}
      BY <2>3, <2>5 DEF PushCopies
    <3> QED
      BY <2>2, <3>1 DEF PushChannel!Confirm, PushCopies
  <2> QED
    BY <2>1, <2>6, PushCopiesSame DEF PushChannel!Next, PushCopies
<1>8. ASSUME NEW p \in Pushers, NEW a \in Addrs, GoroutineCalls(p, a)
      PROVE  [PushChannel!Next]_<<PushStatuses, PushCopies>>
  <2>1. UNCHANGED <<at, taken>> /\ (UNCHANGED alive \/ (alive /\ alive' = FALSE))
    BY <1>8 DEF GoroutineCalls
  <2>2. CASE UNCHANGED alive
    BY <2>1, <2>2, PushCopiesSame DEF PushStatuses, PushStatus
  <2>3. CASE alive /\ alive' = FALSE
    <3>1. ASSUME NEW q \in Pushers PROVE PushStatus'[q] = IF PushStatus[q] = "kept" THEN "lost" ELSE PushStatus[q]
      BY <1>t, <2>1, <2>3, PushStatusIs
    <3>2. PushStatus' = [q \in Pushers |-> IF PushStatus[q] = "kept" THEN "lost" ELSE PushStatus[q]]
      BY <3>1 DEF PushStatus
    <3>3. PushChannel!Crash
      BY <3>2 DEF PushChannel!Crash
    <3> QED
      BY <2>1, <3>3, PushCopiesSame DEF PushChannel!Next, PushCopies
  <2> QED
    BY <2>1, <2>2, <2>3
<1>9. ASSUME NEW p \in Pushers, NEW a \in Addrs, Handled(p, a)
      PROVE  [PushChannel!Next]_<<PushStatuses, PushCopies>>
  <2> DEFINE S(q) == {b \in Addrs : taken[<<q, b>>]}
  <2>1. flight[<<p, a>>].at \in {"sent", "adrift"} /\ taken' = [taken EXCEPT ![<<p, a>>] = TRUE]
        /\ UNCHANGED <<at, alive>>
    BY <1>9 DEF Handled
  <2>2. UNCHANGED PushStatuses
    BY <2>1 DEF PushStatuses, PushStatus
  <2>3. S(p)' = S(p) \cup {a} /\ \A q \in Pushers : q # p => S(q)' = S(q)
    BY <1>t, <2>1 DEF Calls
  <2>4. CASE taken[<<p, a>>]
    <3>1. \A q \in Pushers : S(q)' = S(q)
      BY <2>3, <2>4
    <3>2. UNCHANGED PushCopies
      BY <3>1 DEF PushCopies
    <3> QED
      BY <2>2, <3>2
  <2>5. CASE ~taken[<<p, a>>]
    <3>1. IsFiniteSet(S(p)) /\ a \notin S(p) /\ S(p) \subseteq Addrs \ {a}
      BY <2>5, PushersHaveAddrs, FS_Subset
    <3>2. Cardinality(S(p)') = Cardinality(S(p)) + 1
      BY <2>3, <3>1, FS_AddElement
    <3>3. Cardinality(S(p)) < Cardinality(Addrs)
      <4>1. IsFiniteSet(Addrs \ {a}) /\ Cardinality(Addrs \ {a}) = Cardinality(Addrs) - 1
        BY PushersHaveAddrs, FS_RemoveElement
      <4>2. Cardinality(S(p)) <= Cardinality(Addrs \ {a})
        BY <3>1, <4>1, FS_Subset
      <4>3. Cardinality(Addrs) \in Nat /\ Cardinality(S(p)) \in Nat
        BY <3>1, PushersHaveAddrs, FS_CardinalityType
      <4> QED
        BY <4>1, <4>2, <4>3
    <3>4. at[p] # "new"
      BY <2>1 DEF Pushed
    <3>5. PushStatus[p] \notin {"new", "dropped"}
      BY <3>4, PushStatusIs
    <3>6. p \in PushChannel!MayReach("transfer")
      BY <3>3, <3>5 DEF PushChannel!MayReach, PushChannel!In
    <3>7. \A q \in Pushers : Cardinality(S(q)') = IF q \in {p} THEN Cardinality(S(q)) + 1 ELSE Cardinality(S(q))
      BY <2>3, <3>2
    <3>8. PushCopies' = [PushCopies EXCEPT !["transfer"] = [q \in Pushers |-> IF q \in {p} THEN @[q] + 1 ELSE @[q]]]
      BY <3>7 DEF PushCopies
    <3>9. PushChannel!Handle("transfer")
      BY <3>6, <3>8 DEF PushChannel!Handle, PushCopies
    <3> QED
      BY <2>2, <3>9 DEF PushChannel!Next, PushCopies, PushStatuses
  <2> QED
    BY <2>4, <2>5
<1>10. CASE UNCHANGED pushvars
  BY <1>10, PushCopiesSame DEF pushvars, PushStatuses, PushStatus
<1> QED
  BY <1>3, <1>4, <1>5, <1>6, <1>7, <1>8, <1>9, <1>10 DEF AgentPushNext, Push

\* src/agent/g/transfer.go: a batch the agent pushes is served as DeliveryChannel
\* promises.
THEOREM PushImplementsChannel == Spec => PushIsChannel
<1>1. MCInit => Pushed /\ PushChannel!Init
  BY PushedInit, PushChannelInit DEF MCInit
<1>2. Pushed /\ [AgentPushNext]_pushvars =>
        [PushChannel!Next]_<<[d \in {"transfer"} |-> PushStatus],
            [d \in {"transfer"} |-> [p \in Pushers |-> Cardinality({a \in Addrs : taken[<<p, a>>]})]]>>
  BY PushChannelStep DEF PushStatuses, PushCopies
<1> QED
  BY <1>1, <1>2, PushedStep, PartSteps, SpecSteps, PTL DEF PushIsChannel, PushChannel!Spec

-----------------------------------------------------------------------------
(* The gateway's tasks                                                          *)

Places == {"scan", "free", "call", "answered"}
Calling(t) == t.at \in {"call", "answered"}

\* A task has a host from the time it has found one to the end of the call.
Shaped(t) ==
    /\ t \in Tasks /\ t.round \in 1..Retry
    /\ IF t.at = "scan" THEN t.host = {} ELSE \E h \in Hosts : t.host = {h}

TasksOK  == IsFiniteSet(tasks) /\ Cardinality(tasks) <= Concurrent /\ \A t \in tasks : Shaped(t)
Distinct == \A t, u \in tasks : t.item = u.item => t = u

\* The numbers of the configuration.
LEMMA GatewayNumbers ==
    /\ Cardinality(Hosts) \in Nat \ {0} /\ Concurrent \in Nat \ {0} /\ Retry \in Nat \ {0}
<1>1. Cardinality(Hosts) \in Nat /\ Cardinality(Hosts) # 0
  BY GatewayAssumption, FS_CardinalityType, FS_EmptySet
<1>2. \A m, n \in Nat \ {0} : m * n \in Nat \ {0}
  OBVIOUS
<1>3. Concurrent \in Nat \ {0}
  BY <1>1, <1>2, GatewayAssumption DEF Concurrent
<1> QED
  BY <1>1, <1>3, GatewayAssumption DEF Retry

\* The fields of a task, and what they are after a change of some.
LEMMA TaskFields ==
    ASSUME NEW t \in Tasks
    PROVE  t.item \in Arrivals /\ t.round \in Nat /\ t.left \in SUBSET Hosts /\ t.at \in Places /\ t.host \in SUBSET Hosts
BY DEF Tasks, Places

\* A task that has fewer hosts left is a task.
LEMMA TaskLeft ==
    ASSUME NEW t \in Tasks, NEW L \in SUBSET Hosts
    PROVE  LET u == [t EXCEPT !.left = L] IN
           u \in Tasks /\ u.item = t.item /\ u.round = t.round /\ u.left = L /\ u.at = t.at /\ u.host = t.host
BY DEF Tasks, Places

\* A task that is somewhere else is a task.
LEMMA TaskAt ==
    ASSUME NEW t \in Tasks, NEW a \in Places
    PROVE  LET u == [t EXCEPT !.at = a] IN
           u \in Tasks /\ u.item = t.item /\ u.round = t.round /\ u.left = t.left /\ u.at = a /\ u.host = t.host
BY DEF Tasks, Places

\* A task that goes on keeps its item and stands for the task it was.
LEMMA TaskBecomes ==
    ASSUME TasksOK, Distinct, NEW t \in tasks, NEW u, Shaped(u), u.item = t.item, Becomes(t, u)
    PROVE  /\ TasksOK' /\ Distinct' /\ InTasks' = InTasks
           /\ u \in tasks' /\ \A v \in tasks' : v = u \/ (v \in tasks /\ v # t /\ v.item # t.item)
<1>1. tasks' = (tasks \ {t}) \cup {u}
  BY DEF Becomes
<1>2. \A v \in tasks \ {t} : v.item # t.item
  BY DEF Distinct
<1>3. IsFiniteSet(tasks \ {t}) /\ Cardinality(tasks \ {t}) = Cardinality(tasks) - 1 /\ Cardinality(tasks) \in Nat
  BY FS_RemoveElement, FS_CardinalityType DEF TasksOK
<1>4. IsFiniteSet(tasks') /\ Cardinality(tasks') = Cardinality(tasks)
  <2>1. u \notin tasks \ {t}
    BY <1>2
  <2>2. IsFiniteSet((tasks \ {t}) \cup {u}) /\ Cardinality((tasks \ {t}) \cup {u}) = Cardinality(tasks \ {t}) + 1
    BY <1>3, <2>1, FS_AddElement
  <2> QED
    BY <1>1, <1>3, <2>2
<1>5. TasksOK'
  BY <1>1, <1>4 DEF TasksOK, Shaped
<1>6. Distinct'
  BY <1>1, <1>2 DEF Distinct
<1>7. InTasks' = InTasks
  BY <1>1 DEF InTasks
<1> QED
  BY <1>1, <1>2, <1>5, <1>6, <1>7

\* A task that ends leaves the others as they are.
LEMMA TaskEnds ==
    ASSUME TasksOK, Distinct, NEW t \in tasks, tasks' = tasks \ {t}
    PROVE  /\ TasksOK' /\ Distinct' /\ InTasks' = InTasks \ {t.item} /\ t.item \in InTasks
           /\ \A v \in tasks' : v \in tasks /\ v.item # t.item
<1>1. \A v \in tasks \ {t} : v.item # t.item
  BY DEF Distinct
<1>2. IsFiniteSet(tasks \ {t}) /\ Cardinality(tasks \ {t}) = Cardinality(tasks) - 1 /\ Cardinality(tasks) \in Nat
  BY FS_RemoveElement, FS_CardinalityType DEF TasksOK
<1>3. TasksOK'
  BY <1>2, GatewayNumbers DEF TasksOK, Shaped
<1>4. InTasks' = InTasks \ {t.item} /\ t.item \in InTasks
  BY <1>1 DEF InTasks
<1> QED
  BY <1>1, <1>3, <1>4 DEF Distinct

\* A task that starts is one of an item no other has.
LEMMA TaskStarts ==
    ASSUME TasksOK, Distinct, NEW i \in Arrivals, i \notin InTasks, Cardinality(tasks) < Concurrent,
           tasks' = tasks \cup {Task(i)}
    PROVE  /\ TasksOK' /\ Distinct' /\ InTasks' = InTasks \cup {i}
           /\ \A v \in tasks' : v = Task(i) \/ (v \in tasks /\ v.item # i)
<1>1. Task(i) \in Tasks /\ Task(i).item = i /\ Task(i).round = 1 /\ Task(i).at = "scan" /\ Task(i).host = {}
  BY DEF Task, Tasks
<1>2. Shaped(Task(i))
  BY <1>1, GatewayNumbers DEF Shaped
<1>3. \A v \in tasks : v.item # i
  BY DEF InTasks
<1>4. IsFiniteSet(tasks') /\ Cardinality(tasks') <= Concurrent
  <2>0. IsFiniteSet(tasks) /\ Cardinality(tasks) \in Nat
    BY FS_CardinalityType DEF TasksOK
  <2>1. IsFiniteSet(tasks') /\ Cardinality(tasks') <= Cardinality(tasks) + 1
    BY <2>0, FS_AddElement, SMTT(30)
  <2>2. Cardinality(tasks') \in Nat
    BY <2>1, FS_CardinalityType
  <2> QED
    BY <2>0, <2>1, <2>2, GatewayNumbers
<1>5. TasksOK'
  BY <1>2, <1>4 DEF TasksOK, Shaped
<1>6. Distinct' /\ InTasks' = InTasks \cup {i}
  BY <1>1, <1>3 DEF Distinct, InTasks
<1> QED
  BY <1>3, <1>5, <1>6

-----------------------------------------------------------------------------
(* The calls in flight to a host                                                *)

OnHost(h) == {t \in tasks : Calling(t) /\ h \in t.host}
Counted   == \A h \in Hosts : calling[h] = Cardinality(OnHost(h))

\* A host has finitely many calls.
LEMMA OnHostFinite ==
    ASSUME TasksOK, NEW h
    PROVE  IsFiniteSet(OnHost(h)) /\ Cardinality(OnHost(h)) \in Nat /\ Cardinality(OnHost(h)) <= Concurrent
<1>1. IsFiniteSet(OnHost(h)) /\ Cardinality(OnHost(h)) <= Cardinality(tasks)
  BY FS_Subset DEF OnHost, TasksOK
<1> QED
  BY <1>1, FS_CardinalityType, GatewayNumbers DEF TasksOK

\* What a task's step does to the number of calls to a host.
LEMMA OnHostBecomes ==
    ASSUME TasksOK, Distinct, NEW t \in tasks, NEW u, u.item = t.item, Becomes(t, u), NEW h
    PROVE  LET was == Calling(t) /\ h \in t.host   is == Calling(u) /\ h \in u.host IN
           /\ was => Cardinality(OnHost(h)) > 0
           /\ Cardinality(OnHost(h)') = IF was /\ ~is THEN Cardinality(OnHost(h)) - 1
                                        ELSE IF is /\ ~was THEN Cardinality(OnHost(h)) + 1
                                        ELSE Cardinality(OnHost(h))
<1> DEFINE was == Calling(t) /\ h \in t.host
           is  == Calling(u) /\ h \in u.host
           S   == OnHost(h) \ {t}
<1>1. tasks' = (tasks \ {t}) \cup {u}
  BY DEF Becomes
<1>2. u \notin S
  BY DEF Distinct, OnHost
<1>3. OnHost(h)' = IF is THEN S \cup {u} ELSE S
  BY <1>1 DEF OnHost, Calling
<1>4. t \in OnHost(h) <=> was
  BY DEF OnHost
<1>5. IsFiniteSet(S) /\ Cardinality(OnHost(h)) \in Nat
      /\ Cardinality(S) = IF was THEN Cardinality(OnHost(h)) - 1 ELSE Cardinality(OnHost(h))
  BY <1>4, OnHostFinite, FS_RemoveElement
<1>6. Cardinality(S) \in Nat
  BY <1>5, FS_CardinalityType
<1>7. Cardinality(S \cup {u}) = Cardinality(S) + 1
  BY <1>2, <1>5, FS_AddElement
<1> HIDE DEF was, is, S
<1> QED
  <2>1. was => Cardinality(OnHost(h)) > 0
    BY <1>5, <1>6
  <2>2. Cardinality(OnHost(h)') = IF was /\ ~is THEN Cardinality(OnHost(h)) - 1
                                        ELSE IF is /\ ~was THEN Cardinality(OnHost(h)) + 1
                                        ELSE Cardinality(OnHost(h))
    BY <1>3, <1>5, <1>6, <1>7
  <2> QED
    BY <2>1, <2>2 DEF was, is

\* A task that makes no call starts or ends.
LEMMA OnHostSame ==
    ASSUME NEW t, ~Calling(t), tasks' = tasks \cup {t} \/ tasks' = tasks \ {t}, NEW h
    PROVE  OnHost(h)' = OnHost(h)
BY DEF OnHost, Calling

\* A call ends together with its task.
LEMMA OnHostEnds ==
    ASSUME TasksOK, NEW t \in tasks, Calling(t), tasks' = tasks \ {t}, NEW h
    PROVE  /\ h \in t.host => Cardinality(OnHost(h)) > 0
           /\ Cardinality(OnHost(h)') = IF h \in t.host THEN Cardinality(OnHost(h)) - 1 ELSE Cardinality(OnHost(h))
<1>1. OnHost(h)' = OnHost(h) \ {t} /\ (t \in OnHost(h) <=> h \in t.host)
  BY DEF OnHost, Calling
<1>2. IsFiniteSet(OnHost(h)) /\ Cardinality(OnHost(h)) \in Nat /\ IsFiniteSet(OnHost(h) \ {t})
      /\ Cardinality(OnHost(h)') = IF h \in t.host THEN Cardinality(OnHost(h)) - 1 ELSE Cardinality(OnHost(h))
  BY <1>1, OnHostFinite, FS_RemoveElement
<1>3. Cardinality(OnHost(h)') \in Nat
  BY <1>1, <1>2, FS_CardinalityType
<1> QED
  BY <1>2, <1>3

-----------------------------------------------------------------------------
(* Where the gateway's items are                                                *)

\* Putting an item at the end of a queue, and taking the first one off.
LEMMA QueueAppend ==
    ASSUME NEW S, NEW q \in Seq(S), NEW i \in S
    PROVE  /\ Append(q, i) \in Seq(S) /\ Len(Append(q, i)) = Len(q) + 1
           /\ Range(Append(q, i)) = Range(q) \cup {i}
           /\ IsInjective(q) /\ i \notin Range(q) => IsInjective(Append(q, i))
<1>1. Append(q, i) \in Seq(S) /\ Len(Append(q, i)) = Len(q) + 1
  OBVIOUS
<1>2. \A k \in 1..Len(q) : Append(q, i)[k] = q[k]
  OBVIOUS
<1>3. Append(q, i)[Len(q) + 1] = i
  OBVIOUS
<1>4. Range(Append(q, i)) = Range(q) \cup {i}
  BY <1>1, <1>2, <1>3 DEF Range
<1>5. IsInjective(q) /\ i \notin Range(q) => IsInjective(Append(q, i))
  BY <1>1, <1>2, <1>3 DEF Range, IsInjective
<1> QED
  BY <1>1, <1>4, <1>5

\* What is popped is the head, and the rest is as it was.
LEMMA QueueTail ==
    ASSUME NEW S, NEW q \in Seq(S), q # << >>
    PROVE  /\ Head(q) \in S /\ Tail(q) \in Seq(S) /\ Len(Tail(q)) = Len(q) - 1
           /\ Range(q) = Range(Tail(q)) \cup {Head(q)}
           /\ IsInjective(q) => IsInjective(Tail(q)) /\ Head(q) \notin Range(Tail(q))
<1>1. Head(q) \in S /\ Tail(q) \in Seq(S) /\ Len(Tail(q)) = Len(q) - 1 /\ Len(q) \in Nat \ {0} /\ Head(q) = q[1]
  OBVIOUS
<1>2. \A k \in 1..Len(q) - 1 : Tail(q)[k] = q[k + 1]
  OBVIOUS
<1>3. DOMAIN Tail(q) = 1..Len(q) - 1 /\ DOMAIN q = 1..Len(q)
  BY <1>1
<1>4. Range(Tail(q)) \cup {Head(q)} \subseteq Range(q)
  BY <1>1, <1>2, <1>3 DEF Range
<1>5. ASSUME NEW k \in 1..Len(q) PROVE q[k] \in Range(Tail(q)) \cup {Head(q)}
  <2>1. CASE k = 1
    BY <1>1, <2>1
  <2>2. CASE k # 1
    <3>1. k - 1 \in 1..Len(q) - 1 /\ (k - 1) + 1 = k
      BY <1>1, <2>2
    <3>2. Tail(q)[k - 1] = q[k]
      BY <1>2, <3>1
    <3> QED
      BY <1>3, <3>1, <3>2 DEF Range
  <2> QED
    BY <2>1, <2>2
<1>6. Range(q) = Range(Tail(q)) \cup {Head(q)}
  BY <1>3, <1>4, <1>5 DEF Range
<1>7. ASSUME IsInjective(q) PROVE IsInjective(Tail(q)) /\ Head(q) \notin Range(Tail(q))
  <2>1. \A k, m \in 1..Len(q) : q[k] = q[m] => k = m
    BY <1>3, <1>7 DEF IsInjective
  <2>2. ASSUME NEW k \in 1..Len(q) - 1, NEW m \in 1..Len(q) - 1, Tail(q)[k] = Tail(q)[m] PROVE k = m
    <3>1. k + 1 \in 1..Len(q) /\ m + 1 \in 1..Len(q) /\ q[k + 1] = q[m + 1]
      BY <1>1, <1>2, <2>2
    <3> QED
      BY <2>1, <3>1
  <2>3. ASSUME NEW k \in 1..Len(q) - 1 PROVE Tail(q)[k] # Head(q)
    <3>1. k + 1 \in 1..Len(q) /\ 1 \in 1..Len(q) /\ k + 1 # 1
      BY <1>1
    <3> QED
      BY <1>1, <1>2, <2>1, <3>1
  <2> QED
    BY <1>3, <2>2, <2>3 DEF IsInjective, Range
<1> QED
  BY <1>1, <1>6, <1>7

\* The batch that waits for the semaphore is none or one.
LEMMA OneBatch ==
    /\ Range(<< >>) = {}
    /\ \A S : \A i \in S : <<i>> \in Seq(S) /\ Len(<<i>>) = 1 /\ Range(<<i>>) = {i}
    /\ \A S : \A q \in Seq(S) : q # << >> /\ Len(q) <= 1 => Range(q) = {q[1]} /\ q[1] \in S
<1>1. Range(<< >>) = {}
  BY DEF Range
<1>2. ASSUME NEW S, NEW i \in S PROVE <<i>> \in Seq(S) /\ Len(<<i>>) = 1 /\ Range(<<i>>) = {i}
  BY DEF Range
<1>3. ASSUME NEW S, NEW q \in Seq(S), q # << >>, Len(q) <= 1 PROVE Range(q) = {q[1]} /\ q[1] \in S
  <2>0. Len(q) \in Nat /\ Len(q) # 0
    BY <1>3
  <2>1. Len(q) = 1
    BY <1>3, <2>0
  <2>2. DOMAIN q = 1..1 /\ q[1] \in S
    BY <1>3, <2>1
  <2> QED
    BY <2>2 DEF Range
<1> QED
  BY <1>1, <1>2, <1>3

\* Sets of items that share none, of the items received so far.
Split6(q, p, t, d, s, f, n) ==
    /\ q \cap (p \cup t \cup d \cup s \cup f) = {} /\ p \cap (t \cup d \cup s \cup f) = {}
    /\ t \cap (d \cup s \cup f) = {} /\ d \cap (s \cup f) = {} /\ s \cap f = {}
    /\ q \cup p \cup t \cup d \cup s \cup f \subseteq 1..n

InQueue  == Range(SenderQueue)
InPopped == Range(popped)
Located  == IsInjective(SenderQueue) /\ Split6(InQueue, InPopped, InTasks, dropped, sent, failed, received)

GatewayTyped ==
    /\ received \in 0..MaxArrivals
    /\ SenderQueue \in Seq(Arrivals) /\ popped \in Seq(Arrivals)
    /\ Len(SenderQueue) <= QueueMax /\ Len(popped) <= 1
    /\ calling \in [Hosts -> Nat] /\ handled \in [Arrivals -> Nat] /\ adrift \in [Arrivals -> Nat]
    /\ dropped \subseteq Arrivals /\ sent \subseteq Arrivals /\ failed \subseteq Arrivals

\* Every batch is in one place, and every call in flight counted.
Accountable == GatewayTyped /\ TasksOK /\ Distinct /\ Located /\ Counted

\* A gateway starts with nothing to account for.
LEMMA AccountableInit == GatewayInit => Accountable
<1> SUFFICES ASSUME GatewayInit PROVE Accountable
  OBVIOUS
<1>1. IsFiniteSet(tasks) /\ Cardinality(tasks) = 0 /\ tasks = {}
  BY FS_EmptySet DEF GatewayInit
<1>2. TasksOK /\ Distinct
  BY <1>1, GatewayNumbers DEF TasksOK, Distinct
<1>3. \A h : OnHost(h) = {}
  BY <1>1 DEF OnHost
<1>4. Counted
  BY <1>3, FS_EmptySet DEF Counted, GatewayInit
<1>5. InQueue = {} /\ InPopped = {} /\ InTasks = {} /\ dropped = {} /\ sent = {} /\ failed = {}
  BY OneBatch DEF InQueue, InPopped, InTasks, GatewayInit
<1>6. Located
  BY <1>5 DEF Located, Split6, IsInjective, GatewayInit
<1>7. GatewayTyped
  <2>1. << >> \in Seq(Arrivals) /\ Len(<< >>) = 0
    OBVIOUS
  <2> QED
    BY <2>1, GatewayAssumption DEF GatewayTyped, GatewayInit
<1> QED
  BY <1>2, <1>4, <1>6, <1>7 DEF Accountable

\* A step that leaves the places of the items, or the calls, as they were.
LEMMA LocatedSame ==
    Located /\ InTasks' = InTasks /\ UNCHANGED <<SenderQueue, popped, dropped, sent, failed, received>> => Located'
BY DEF Located, InQueue, InPopped

\* The counters are right as long as neither they nor the calls change.
LEMMA CountedSame == Counted /\ calling' = calling /\ (\A h : OnHost(h)' = OnHost(h)) => Counted'
BY DEF Counted

\* Each of the gateway's steps moves a batch from one place to another, and counts its calls.
LEMMA AccountableStep == Accountable /\ [GatewayNext]_gvars => Accountable'
<1> SUFFICES ASSUME Accountable, [GatewayNext]_gvars PROVE Accountable'
  OBVIOUS
<1>a. GatewayTyped /\ TasksOK /\ Distinct /\ Located /\ Counted
  BY DEF Accountable
<1>t. /\ received \in 0..MaxArrivals
      /\ SenderQueue \in Seq(Arrivals) /\ popped \in Seq(Arrivals)
      /\ Len(SenderQueue) <= QueueMax /\ Len(popped) <= 1
      /\ calling \in [Hosts -> Nat] /\ handled \in [Arrivals -> Nat] /\ adrift \in [Arrivals -> Nat]
      /\ dropped \subseteq Arrivals /\ sent \subseteq Arrivals /\ failed \subseteq Arrivals
  BY <1>a DEF GatewayTyped
<1>l. IsInjective(SenderQueue) /\ Split6(InQueue, InPopped, InTasks, dropped, sent, failed, received)
  BY <1>a DEF Located
<1>i. \A t \in tasks : Shaped(t) /\ t \in Tasks /\ t.item \in Arrivals /\ t.item \in InTasks
  BY <1>a, TaskFields DEF TasksOK, Shaped, InTasks
<1>s. ASSUME UNCHANGED tasks PROVE TasksOK' /\ Distinct' /\ InTasks' = InTasks /\ \A h : OnHost(h)' = OnHost(h)
  BY <1>a, <1>s DEF TasksOK, Distinct, InTasks, OnHost, Shaped
<1>1. CASE Receive
  <2> DEFINE i == received + 1
  <2>1. received < MaxArrivals /\ received' = i /\ UNCHANGED <<popped, tasks, calling, handled, adrift, sent, failed>>
        /\ \/ Len(SenderQueue) < QueueMax /\ SenderQueue' = Append(SenderQueue, i) /\ UNCHANGED dropped
           \/ dropped' = dropped \cup {i} /\ UNCHANGED SenderQueue
    BY <1>1 DEF Receive, Push2SendQueue
  <2>2. i \in Arrivals /\ i \in 0..MaxArrivals /\ i \notin 1..received /\ 1..received \subseteq 1..i /\ i \in 1..i
    BY <1>t, <2>1, GatewayAssumption DEF Arrivals
  <2> HIDE DEF i
  <2>3. InPopped' = InPopped /\ InTasks' = InTasks /\ TasksOK' /\ Distinct' /\ Counted'
    BY <1>a, <1>s, <2>1, CountedSame DEF InPopped
  <2>4. CASE Len(SenderQueue) < QueueMax /\ SenderQueue' = Append(SenderQueue, i) /\ UNCHANGED dropped
    <3>1. SenderQueue' \in Seq(Arrivals) /\ Len(SenderQueue') = Len(SenderQueue) + 1 /\ InQueue' = InQueue \cup {i}
          /\ (IsInjective(SenderQueue) /\ i \notin InQueue => IsInjective(SenderQueue'))
      BY <1>t, <2>2, <2>4, QueueAppend DEF InQueue
    <3>2. Len(SenderQueue') <= QueueMax
      BY <1>t, <2>4, <3>1, GatewayAssumption
    <3>3. i \notin InQueue
      BY <1>l, <2>2 DEF Split6
    <3>4. Split6(InQueue', InPopped', InTasks', dropped', sent', failed', received')
      BY <1>l, <2>1, <2>2, <2>3, <2>4, <3>1 DEF Split6
    <3>5. Located'
      BY <1>l, <3>1, <3>3, <3>4 DEF Located
    <3>6. GatewayTyped'
      BY <1>t, <2>1, <2>2, <2>4, <3>1, <3>2 DEF GatewayTyped
    <3> QED
      BY <2>3, <3>5, <3>6 DEF Accountable
  <2>5. CASE dropped' = dropped \cup {i} /\ UNCHANGED SenderQueue
    <3>1. Split6(InQueue', InPopped', InTasks', dropped', sent', failed', received')
      BY <1>l, <2>1, <2>2, <2>3, <2>5 DEF Split6, InQueue
    <3>2. Located'
      BY <1>l, <2>5, <3>1 DEF Located
    <3>3. GatewayTyped'
      BY <1>t, <2>1, <2>2, <2>5 DEF GatewayTyped
    <3> QED
      BY <2>3, <3>2, <3>3 DEF Accountable
  <2> QED
    BY <2>1, <2>4, <2>5
<1>2. CASE PopBackBy
  <2>1. popped = << >> /\ SenderQueue # << >> /\ popped' = <<Head(SenderQueue)>> /\ SenderQueue' = Tail(SenderQueue)
        /\ UNCHANGED <<received, tasks, calling, handled, adrift, dropped, sent, failed>>
    BY <1>2 DEF PopBackBy
  <2> DEFINE i == Head(SenderQueue)
             rest == Tail(SenderQueue)
  <2>2. /\ i \in Arrivals /\ rest \in Seq(Arrivals) /\ Len(rest) = Len(SenderQueue) - 1
        /\ InQueue = Range(rest) \cup {i} /\ IsInjective(rest) /\ i \notin Range(rest)
    BY <1>t, <1>l, <2>1, QueueTail DEF InQueue
  <2>3. SenderQueue' = rest /\ popped' = <<i>>
    BY <2>1
  <2> HIDE DEF i, rest
  <2>4. InQueue' = InQueue \ {i} /\ i \in InQueue /\ InPopped' = {i} /\ InPopped = {} /\ popped' \in Seq(Arrivals) /\ Len(popped') = 1
    <3>1. popped' \in Seq(Arrivals) /\ Len(popped') = 1 /\ Range(popped') = {i}
      BY <2>2, <2>3, OneBatch
    <3>2. InPopped = {} /\ InPopped' = {i}
      BY <2>1, <3>1, OneBatch DEF InPopped
    <3>3. InQueue' = Range(rest)
      BY <2>3 DEF InQueue
    <3> QED
      BY <2>2, <3>1, <3>2, <3>3
  <2>5. InTasks' = InTasks /\ TasksOK' /\ Distinct' /\ Counted'
    BY <1>a, <1>s, <2>1, CountedSame
  <2>6. Split6(InQueue', InPopped', InTasks', dropped', sent', failed', received')
    BY <1>l, <2>1, <2>4, <2>5 DEF Split6
  <2>7. Located'
    BY <2>2, <2>3, <2>6 DEF Located
  <2>8. GatewayTyped'
    <3>1. Len(SenderQueue') <= QueueMax
      BY <1>t, <2>2, <2>3, GatewayAssumption
    <3> QED
      BY <1>t, <2>1, <2>2, <2>3, <2>4, <3>1, SMTT(30) DEF GatewayTyped
  <2> QED
    BY <2>5, <2>7, <2>8 DEF Accountable
<1>3. CASE StartTask
  <2> DEFINE i == popped[1]
  <2>1. popped # << >> /\ Cardinality(tasks) < Concurrent /\ tasks' = tasks \cup {Task(i)} /\ popped' = << >>
        /\ UNCHANGED <<received, SenderQueue, calling, handled, adrift, dropped, sent, failed>>
    BY <1>3 DEF StartTask
  <2>2. InPopped = {i} /\ i \in Arrivals
    BY <1>t, <2>1, OneBatch DEF InPopped
  <2> HIDE DEF i
  <2>3. i \notin InTasks
    BY <1>l, <2>2 DEF Split6
  <2>4. TasksOK' /\ Distinct' /\ InTasks' = InTasks \cup {i}
    BY <1>a, <2>1, <2>2, <2>3, TaskStarts
  <2>5. Counted'
    <3>1. ~Calling(Task(i))
      BY DEF Calling, Task
    <3>2. \A h : OnHost(h)' = OnHost(h)
      BY <2>1, <3>1, OnHostSame
    <3> QED
      BY <1>a, <2>1, <3>2, CountedSame
  <2>6. InPopped' = {} /\ popped' \in Seq(Arrivals) /\ Len(popped') = 0
    BY <2>1, OneBatch DEF InPopped
  <2>7. Split6(InQueue', InPopped', InTasks', dropped', sent', failed', received')
    BY <1>l, <2>1, <2>2, <2>4, <2>6 DEF Split6, InQueue
  <2>8. Located'
    BY <1>l, <2>1, <2>7 DEF Located
  <2>9. GatewayTyped'
    BY <1>t, <2>1, <2>6 DEF GatewayTyped
  <2> QED
    BY <2>4, <2>5, <2>8, <2>9 DEF Accountable
\* A task goes on.
<1>4. ASSUME NEW t \in tasks, NEW u, Shaped(u), u.item = t.item, Becomes(t, u),
             UNCHANGED <<received, SenderQueue, popped, dropped, sent, failed>>,
             handled' \in [Arrivals -> Nat], adrift' \in [Arrivals -> Nat], calling' \in [Hosts -> Nat],
             \A h \in Hosts :
                calling'[h] = IF (Calling(t) /\ h \in t.host) /\ ~(Calling(u) /\ h \in u.host) THEN calling[h] - 1
                              ELSE IF (Calling(u) /\ h \in u.host) /\ ~(Calling(t) /\ h \in t.host) THEN calling[h] + 1
                              ELSE calling[h]
      PROVE  Accountable'
  <2>1. TasksOK' /\ Distinct' /\ InTasks' = InTasks
    BY <1>a, <1>4, TaskBecomes
  <2>2. Located'
    BY <1>a, <1>4, <2>1, LocatedSame
  <2>3. ASSUME NEW h \in Hosts PROVE calling'[h] = Cardinality(OnHost(h)')
    <3>1. calling[h] = Cardinality(OnHost(h))
      BY <1>a DEF Counted
    <3> QED
      BY <1>a, <1>4, <3>1, OnHostBecomes
  <2>4. Counted'
    BY <2>3 DEF Counted
  <2>5. GatewayTyped'
    BY <1>t, <1>4 DEF GatewayTyped
  <2> QED
    BY <2>1, <2>2, <2>4, <2>5 DEF Accountable
<1>5. ASSUME NEW t \in tasks, NEW h \in Hosts, LookAt(t, h) PROVE Accountable'
  <2> DEFINE next == [t EXCEPT !.left = @ \ {h}]
             u == IF Busy(h) THEN next ELSE [next EXCEPT !.at = "free", !.host = {h}]
  <2>1. t.at = "scan" /\ Becomes(t, u) /\ UNCHANGED <<received, SenderQueue, popped, calling, handled, adrift, dropped, sent, failed>>
    BY <1>5 DEF LookAt
  <2>2. next \in Tasks /\ next.item = t.item /\ next.round = t.round /\ next.at = t.at /\ next.host = t.host
    <3>1. t.left \ {h} \in SUBSET Hosts
      BY <1>i, TaskFields
    <3> QED
      BY <1>i, <3>1, TaskLeft
  <2>3. Shaped(u) /\ u.item = t.item /\ ~Calling(u) /\ ~Calling(t)
    <3> HIDE DEF next
    <3>1. CASE Busy(h)
      BY <1>i, <2>1, <2>2, <3>1 DEF Shaped, Calling
    <3>2. CASE ~Busy(h)
      <4>1. LET v == [next EXCEPT !.at = "free", !.host = {h}] IN
            v \in Tasks /\ v.item = next.item /\ v.round = next.round /\ v.at = "free" /\ v.host = {h}
        <5>1. "free" \in Places /\ {h} \in SUBSET Hosts
          BY DEF Places
        <5> QED
          BY <2>2, <5>1 DEF Tasks
      <4> QED
        BY <1>i, <2>1, <2>2, <3>2, <4>1 DEF Shaped, Calling
    <3> QED
      BY <3>1, <3>2
  <2> HIDE DEF u, next
  <2> QED
    BY <1>4, <1>t, <2>1, <2>3
<1>6. ASSUME NEW t \in tasks, StartCall(t) PROVE Accountable'
  <2> DEFINE u == [t EXCEPT !.at = "call"]
  <2>1. t.at = "free" /\ Becomes(t, u) /\ UNCHANGED <<received, SenderQueue, popped, handled, adrift, dropped, sent, failed>>
        /\ calling' = [h \in Hosts |-> IF h \in t.host THEN calling[h] + 1 ELSE calling[h]]
    BY <1>6 DEF StartCall
  <2>2. u \in Tasks /\ u.item = t.item /\ u.round = t.round /\ u.at = "call" /\ u.host = t.host
    BY <1>i, TaskAt DEF Places
  <2> HIDE DEF u
  <2>3. Shaped(u) /\ Calling(u) /\ ~Calling(t)
    BY <1>i, <2>1, <2>2 DEF Shaped, Calling
  <2>4. calling' \in [Hosts -> Nat]
    BY <1>t, <2>1
  <2> QED
    BY <1>4, <1>t, <2>1, <2>2, <2>3, <2>4
<1>7. ASSUME NEW t \in tasks, Handle(t) PROVE Accountable'
  <2> DEFINE u == [t EXCEPT !.at = "answered"]
  <2>1. t.at = "call" /\ Becomes(t, u) /\ UNCHANGED <<received, SenderQueue, popped, calling, adrift, dropped, sent, failed>>
        /\ handled' = [handled EXCEPT ![t.item] = @ + 1]
    BY <1>7 DEF Handle
  <2>2. u \in Tasks /\ u.item = t.item /\ u.round = t.round /\ u.at = "answered" /\ u.host = t.host
    BY <1>i, TaskAt DEF Places
  <2> HIDE DEF u
  <2>3. Shaped(u) /\ Calling(u) /\ Calling(t)
    BY <1>i, <2>1, <2>2 DEF Shaped, Calling
  <2>4. handled' \in [Arrivals -> Nat]
    BY <1>t, <1>i, <2>1
  <2> QED
    BY <1>4, <1>t, <2>1, <2>2, <2>3, <2>4
<1>8. ASSUME NEW i \in Arrivals, HandleAdrift(i) PROVE Accountable'
  <2>1. adrift[i] > 0 /\ adrift' = [adrift EXCEPT ![i] = @ - 1] /\ handled' = [handled EXCEPT ![i] = @ + 1]
        /\ UNCHANGED <<received, SenderQueue, popped, tasks, calling, dropped, sent, failed>>
    BY <1>8 DEF HandleAdrift
  <2>2. adrift' \in [Arrivals -> Nat] /\ handled' \in [Arrivals -> Nat]
    BY <1>t, <2>1
  <2>3. InTasks' = InTasks /\ TasksOK' /\ Distinct' /\ Counted'
    BY <1>a, <1>s, <2>1, CountedSame
  <2>4. Located'
    BY <1>a, <2>1, <2>3, LocatedSame
  <2>5. GatewayTyped'
    BY <1>t, <2>1, <2>2 DEF GatewayTyped
  <2> QED
    BY <2>3, <2>4, <2>5 DEF Accountable
<1>9. ASSUME NEW t \in tasks, CallOk(t) PROVE Accountable'
  <2>1. t.at = "answered" /\ calling' = Released(t) /\ tasks' = tasks \ {t} /\ sent' = sent \cup {t.item}
        /\ UNCHANGED <<received, SenderQueue, popped, handled, adrift, dropped, failed>>
    BY <1>9 DEF CallOk
  <2>2. TasksOK' /\ Distinct' /\ InTasks' = InTasks \ {t.item} /\ t.item \in InTasks
    BY <1>a, <2>1, TaskEnds
  <2>3. ASSUME NEW h \in Hosts PROVE calling'[h] = Cardinality(OnHost(h)') /\ calling'[h] \in Nat
    <3>1. calling[h] = Cardinality(OnHost(h)) /\ Calling(t) /\ calling[h] \in Nat
          /\ calling'[h] = IF h \in t.host THEN calling[h] - 1 ELSE calling[h]
      BY <1>a, <1>t, <2>1 DEF Counted, Calling, Released
    <3> QED
      BY <1>a, <2>1, <3>1, OnHostEnds
  <2>4. Counted' /\ calling' \in [Hosts -> Nat]
    BY <2>1, <2>3 DEF Counted, Released
  <2>5. Split6(InQueue', InPopped', InTasks', dropped', sent', failed', received')
    BY <1>l, <2>1, <2>2 DEF Split6, InQueue, InPopped
  <2>6. Located'
    BY <1>l, <2>1, <2>5 DEF Located
  <2>7. GatewayTyped'
    BY <1>t, <1>i, <2>1, <2>4 DEF GatewayTyped
  <2> QED
    BY <2>2, <2>4, <2>6, <2>7 DEF Accountable
<1>10. ASSUME NEW t \in tasks, NEW arrives \in BOOLEAN, CallFails(t, arrives) PROVE Accountable'
  <2> DEFINE u == [t EXCEPT !.at = "scan", !.host = {}]
  <2>1. t.at \in {"call", "answered"} /\ calling' = Released(t) /\ Becomes(t, u)
        /\ adrift' = [adrift EXCEPT ![t.item] = IF arrives THEN @ + 1 ELSE @]
        /\ UNCHANGED <<received, SenderQueue, popped, handled, dropped, sent, failed>>
    BY <1>10 DEF CallFails
  <2>2. u \in Tasks /\ u.item = t.item /\ u.round = t.round /\ u.at = "scan" /\ u.host = {}
    <3>1. "scan" \in Places /\ {} \in SUBSET Hosts
      BY DEF Places
    <3> QED
      BY <1>i, <3>1 DEF Tasks
  <2> HIDE DEF u
  <2>3. Shaped(u) /\ ~Calling(u) /\ Calling(t)
    BY <1>i, <2>1, <2>2 DEF Shaped, Calling
  <2>4. adrift' \in [Arrivals -> Nat]
    BY <1>t, <1>i, <2>1
  <2>5. ASSUME NEW h \in Hosts
        PROVE  calling'[h] \in Nat /\ calling'[h] = IF h \in t.host THEN calling[h] - 1 ELSE calling[h]
    <3>1. calling[h] = Cardinality(OnHost(h)) /\ calling[h] \in Nat
          /\ calling'[h] = IF h \in t.host THEN calling[h] - 1 ELSE calling[h]
      BY <1>a, <1>t, <2>1 DEF Counted, Released
    <3>2. h \in t.host => Cardinality(OnHost(h)) > 0
      BY <1>a, <2>1, <2>2, <2>3, OnHostBecomes
    <3> QED
      BY <3>1, <3>2
  <2>6. calling' \in [Hosts -> Nat]
    BY <2>1, <2>5 DEF Released
  <2> QED
    BY <1>4, <1>t, <2>1, <2>2, <2>3, <2>4, <2>5, <2>6
<1>11. ASSUME NEW t \in tasks, NextRound(t) PROVE Accountable'
  <2> DEFINE u == [t EXCEPT !.round = @ + 1, !.left = Hosts]
  <2>1. t.at = "scan" /\ ~(t.round >= Retry) /\ Becomes(t, u)
        /\ UNCHANGED <<received, SenderQueue, popped, calling, handled, adrift, dropped, sent, failed>>
    BY <1>11 DEF NextRound, LastRound
  <2>2. u \in Tasks /\ u.item = t.item /\ u.round = t.round + 1 /\ u.at = t.at /\ u.host = t.host
    <3>1. t \in Tasks /\ t.round \in Nat
      BY <1>i, TaskFields
    <3>2. t.round + 1 \in Nat
      BY <3>1
    <3> QED
      BY <3>1, <3>2 DEF Tasks
  <2> HIDE DEF u
  <2>3. Shaped(u) /\ ~Calling(u) /\ ~Calling(t)
    BY <1>i, <2>1, <2>2, GatewayNumbers DEF Shaped, Calling
  <2> QED
    BY <1>4, <1>t, <2>1, <2>2, <2>3
<1>12. ASSUME NEW t \in tasks, SendFails(t) PROVE Accountable'
  <2>1. t.at = "scan" /\ tasks' = tasks \ {t} /\ failed' = failed \cup {t.item}
        /\ UNCHANGED <<received, SenderQueue, popped, calling, handled, adrift, dropped, sent>>
    BY <1>12 DEF SendFails
  <2>2. TasksOK' /\ Distinct' /\ InTasks' = InTasks \ {t.item} /\ t.item \in InTasks
    BY <1>a, <2>1, TaskEnds
  <2>3. Counted'
    <3>1. ~Calling(t)
      BY <2>1 DEF Calling
    <3>2. \A h : OnHost(h)' = OnHost(h)
      BY <2>1, <3>1, OnHostSame
    <3> QED
      BY <1>a, <2>1, <3>2, CountedSame
  <2>5. Split6(InQueue', InPopped', InTasks', dropped', sent', failed', received')
    BY <1>l, <2>1, <2>2 DEF Split6, InQueue, InPopped
  <2>6. Located'
    BY <1>l, <2>1, <2>5 DEF Located
  <2>7. GatewayTyped'
    BY <1>t, <1>i, <2>1 DEF GatewayTyped
  <2> QED
    BY <2>2, <2>3, <2>6, <2>7 DEF Accountable
<1>13. CASE UNCHANGED gvars
  <2>1. UNCHANGED <<received, SenderQueue, popped, tasks, calling, handled, adrift, dropped, sent, failed>>
    BY <1>13 DEF gvars
  <2>2. InTasks' = InTasks /\ TasksOK' /\ Distinct' /\ Counted'
    BY <1>a, <1>s, <2>1, CountedSame
  <2> QED
    BY <1>a, <2>1, <2>2, LocatedSame DEF Accountable, GatewayTyped
<1> QED
  BY <1>1, <1>2, <1>3, <1>5, <1>6, <1>7, <1>8, <1>9, <1>10, <1>11, <1>12, <1>13 DEF GatewayNext, ForwardTask, Transfers

\* src/gateway/sender/sender.go: the counters of the hosts match the calls in flight.
LEMMA SlotsKept == Accountable => GatewayTypeOK /\ SlotsMatch
<1> SUFFICES ASSUME Accountable PROVE GatewayTypeOK /\ SlotsMatch
  OBVIOUS
<1>1. GatewayTypeOK
  BY DEF Accountable, GatewayTyped, TasksOK, Shaped, GatewayTypeOK
<1>2. ASSUME NEW h \in Hosts
      PROVE  calling[h] = Cardinality({t \in tasks : t.at \in {"call", "answered"} /\ h \in t.host})
             /\ calling[h] <= Concurrent
  BY OnHostFinite DEF Accountable, Counted, OnHost, Calling
<1> QED
  BY <1>1, <1>2 DEF SlotsMatch

-----------------------------------------------------------------------------
(* How often a batch is handled                                                 *)

N == Cardinality(Hosts)
Rounds(n) == n * N

\* The rounds over all hosts add up.
LEMMA RoundsAre ==
    /\ N \in Nat \ {0} /\ Rounds(0) = 0
    /\ \A n \in Nat : Rounds(n) \in Nat /\ Rounds(n + 1) = Rounds(n) + N
    /\ \A m, n \in Nat : m <= n => Rounds(m) <= Rounds(n)
<1>1. N \in Nat \ {0}
  BY GatewayNumbers DEF N
<1> HIDE DEF N
<1>2. ASSUME NEW n \in Nat PROVE n * N \in Nat /\ (n + 1) * N = n * N + N
  BY <1>1
<1>3. ASSUME NEW m \in Nat, NEW n \in Nat, m <= n PROVE m * N <= n * N
  BY <1>1, <1>3
<1> QED
  BY <1>1, <1>2, <1>3 DEF Rounds

\* What a task has used up of its tries: a host it has come to in this round, and
\* every host in each round before.
Used(t) == Rounds(t.round - 1) + (N - Cardinality(t.left))
Due(t)  == IF t.at \in {"free", "call"} THEN 1 ELSE 0

\* A batch was handled, or may still be, at most once for each host its task came to.
Within ==
    /\ \A t \in tasks : /\ handled[t.item] + adrift[t.item] + Due(t) <= Used(t)
                        /\ t.at = "answered" => handled[t.item] > 0
    /\ \A i \in sent \cup failed : handled[i] + adrift[i] <= Rounds(Retry)
    /\ \A i \in Arrivals : i \notin InTasks \cup sent \cup failed => handled[i] = 0 /\ adrift[i] = 0

\* No call is made at first.
LEMMA WithinInit == GatewayInit => Within
BY DEF GatewayInit, Within

\* Whatever a task has used up is within all its rounds.
LEMMA UsedIs ==
    ASSUME NEW t, Shaped(t)
    PROVE  /\ IsFiniteSet(t.left) /\ Cardinality(t.left) \in 0..N /\ Used(t) \in Nat
           /\ Used(t) <= Rounds(t.round) /\ Used(t) <= Rounds(Retry)
           /\ t.left = {} => Used(t) = Rounds(t.round)
<1>1. t.left \in SUBSET Hosts /\ t.round \in 1..Retry
  BY TaskFields DEF Shaped
<1>2. IsFiniteSet(t.left) /\ Cardinality(t.left) \in Nat /\ Cardinality(t.left) <= N
      /\ (t.left = {} => Cardinality(t.left) = 0)
  BY <1>1, GatewayAssumption, FS_Subset, FS_CardinalityType, FS_EmptySet DEF N
<1>3. t.round - 1 \in Nat /\ t.round = (t.round - 1) + 1 /\ t.round \in Nat /\ Retry \in Nat /\ t.round <= Retry
  BY <1>1, GatewayNumbers
<1>4. Rounds(t.round) = Rounds(t.round - 1) + N /\ Rounds(t.round) <= Rounds(Retry) /\ N \in Nat
      /\ Rounds(t.round - 1) \in Nat /\ Rounds(t.round) \in Nat /\ Rounds(Retry) \in Nat
  BY <1>3, RoundsAre
<1> QED
  BY <1>2, <1>4 DEF Used

\* Each call uses one of the tries the round and the task still have.
LEMMA WithinStep == Accountable /\ Accountable' /\ Within /\ [GatewayNext]_gvars => Within'
<1> SUFFICES ASSUME Accountable, Accountable', Within, [GatewayNext]_gvars PROVE Within'
  OBVIOUS
<1>a. /\ TasksOK /\ Distinct /\ Located /\ \A t \in tasks : Shaped(t) /\ t \in Tasks
      /\ handled \in [Arrivals -> Nat] /\ adrift \in [Arrivals -> Nat]
      /\ handled' \in [Arrivals -> Nat] /\ adrift' \in [Arrivals -> Nat]
      /\ \A t \in tasks' : Shaped(t)
  BY DEF Accountable, GatewayTyped, TasksOK, Shaped
<1>b. \A t \in tasks : t.item \in InTasks /\ t.item \in Arrivals /\ t.item \notin sent \cup failed
                       /\ handled[t.item] \in Nat /\ adrift[t.item] \in Nat
  BY <1>a, TaskFields DEF InTasks, Located, Split6
<1>w. /\ \A t \in tasks : /\ handled[t.item] + adrift[t.item] + Due(t) <= Used(t)
                          /\ t.at = "answered" => handled[t.item] > 0
      /\ \A i \in sent \cup failed : handled[i] + adrift[i] <= Rounds(Retry)
      /\ \A i \in Arrivals : i \notin InTasks \cup sent \cup failed => handled[i] = 0 /\ adrift[i] = 0
  BY DEF Within
\* Nothing happens to the tasks and the batches that are gone.
<1>1. ASSUME UNCHANGED <<tasks, handled, adrift, sent, failed>> PROVE Within'
  BY <1>1 DEF Within, InTasks, Used, Due, Rounds, N
\* A task goes on, and nothing happens to the other batches.
<1>2. ASSUME NEW t \in tasks, NEW u, Shaped(u), u.item = t.item, Becomes(t, u), UNCHANGED <<sent, failed>>,
             \A i \in Arrivals : i # t.item => handled'[i] = handled[i] /\ adrift'[i] = adrift[i],
             handled'[u.item] + adrift'[u.item] + Due(u) <= Used(u),
             u.at = "answered" => handled'[u.item] > 0
      PROVE  Within'
  <2>1. InTasks' = InTasks /\ \A v \in tasks' : v = u \/ (v \in tasks /\ v # t /\ v.item # t.item)
    BY <1>a, <1>2, TaskBecomes
  <2>2. ASSUME NEW v \in tasks' PROVE handled'[v.item] + adrift'[v.item] + Due(v) <= Used(v)
                                      /\ (v.at = "answered" => handled'[v.item] > 0)
    BY <1>2, <1>b, <1>w, <2>1
  <2>3. \A i \in sent \cup failed : i \in Arrivals /\ i # t.item
    BY <1>b DEF Accountable, GatewayTyped
  <2>4. \A i \in sent' \cup failed' : handled'[i] + adrift'[i] <= Rounds(Retry)
    BY <1>2, <1>w, <2>3
  <2>5. \A i \in Arrivals : i \notin InTasks' \cup sent' \cup failed' => handled'[i] = 0 /\ adrift'[i] = 0
    BY <1>2, <1>b, <1>w, <2>1
  <2> QED
    BY <2>2, <2>4, <2>5 DEF Within, Due, Used, Rounds, N
<1>3. CASE Receive \/ PopBackBy \/ UNCHANGED gvars
  BY <1>1, <1>3 DEF Receive, PopBackBy, gvars
<1>4. CASE StartTask
  <2> DEFINE i == popped[1]
  <2>1. popped # << >> /\ Cardinality(tasks) < Concurrent /\ tasks' = tasks \cup {Task(i)}
        /\ UNCHANGED <<handled, adrift, sent, failed>>
    BY <1>4 DEF StartTask
  <2>2. i \in Arrivals /\ i \notin InTasks \cup sent \cup failed
    <3>1. InPopped = {i} /\ i \in Arrivals
      BY <2>1, OneBatch DEF InPopped, Accountable, GatewayTyped
    <3> HIDE DEF i
    <3> QED
      BY <1>a, <3>1 DEF Located, Split6
  <2> HIDE DEF i
  <2>3. InTasks' = InTasks \cup {i} /\ \A v \in tasks' : v = Task(i) \/ (v \in tasks /\ v.item # i)
    BY <1>a, <2>1, <2>2, TaskStarts
  <2>4. Task(i).item = i /\ Due(Task(i)) = 0 /\ Task(i).at = "scan" /\ Used(Task(i)) \in Nat
    <3>1. Task(i).item = i /\ Task(i).at = "scan" /\ Task(i) \in tasks'
      BY <2>1 DEF Task
    <3> QED
      BY <1>a, <3>1, UsedIs DEF Due
  <2>5. handled[i] = 0 /\ adrift[i] = 0
    BY <1>w, <2>2
  <2>6. \A v \in tasks' : handled'[v.item] + adrift'[v.item] + Due(v) <= Used(v)
                          /\ (v.at = "answered" => handled'[v.item] > 0)
    BY <1>w, <2>1, <2>3, <2>4, <2>5
  <2> QED
    BY <1>w, <2>1, <2>3, <2>6 DEF Within, Due, Used, Rounds, N
<1>5. ASSUME NEW t \in tasks, NEW h \in Hosts, LookAt(t, h) PROVE Within'
  <2> DEFINE next == [t EXCEPT !.left = @ \ {h}]
             u == IF Busy(h) THEN next ELSE [next EXCEPT !.at = "free", !.host = {h}]
  <2>1. t.at = "scan" /\ h \in t.left /\ Becomes(t, u) /\ UNCHANGED <<handled, adrift, sent, failed>>
    BY <1>5 DEF LookAt
  <2>2. u.item = t.item /\ u.round = t.round /\ u.left = t.left \ {h} /\ u.at \in {"scan", "free"}
    <3>1. t.left \ {h} \in SUBSET Hosts
      BY <1>a, TaskFields
    <3>2. next \in Tasks /\ next.item = t.item /\ next.round = t.round /\ next.left = t.left \ {h} /\ next.at = "scan"
      BY <1>a, <2>1, <3>1, TaskLeft
    <3> HIDE DEF next
    <3> QED
      BY <3>2 DEF Tasks
  <2> HIDE DEF u, next
  <2>3. Shaped(u)
    BY <1>a, <2>1 DEF Becomes
  <2>4. Cardinality(u.left) = Cardinality(t.left) - 1 /\ Cardinality(t.left) \in 0..N /\ Cardinality(u.left) \in 0..N
    BY <1>a, <2>1, <2>2, <2>3, UsedIs, FS_RemoveElement, ZenonT(40)
  <2>5. Used(u) = Used(t) + 1 /\ Due(u) <= 1 /\ Due(u) \in Nat /\ Due(t) = 0
    <3>1. Rounds(t.round - 1) \in Nat /\ N \in Nat
      <4>1. t.round - 1 \in Nat
        BY <1>a, GatewayNumbers DEF Shaped
      <4> QED
        BY <4>1, RoundsAre
    <3> QED
      BY <2>1, <2>2, <2>4, <3>1 DEF Used, Due
  <2>6. handled'[u.item] + adrift'[u.item] + Due(u) <= Used(u)
    <3>1. Used(t) \in Nat /\ handled[t.item] + adrift[t.item] + Due(t) <= Used(t)
      BY <1>a, <1>w, UsedIs
    <3> QED
      BY <1>b, <2>1, <2>2, <2>5, <3>1
  <2> QED
    BY <1>2, <2>1, <2>2, <2>3, <2>6
\* A task goes on within its round.
<1>6. ASSUME NEW t \in tasks, NEW u, u.item = t.item, u.round = t.round, u.left = t.left, Becomes(t, u),
             UNCHANGED <<sent, failed>>,
             \A i \in Arrivals : i # t.item => handled'[i] = handled[i] /\ adrift'[i] = adrift[i],
             handled'[t.item] + adrift'[t.item] + Due(u) <= handled[t.item] + adrift[t.item] + Due(t),
             u.at = "answered" => handled'[t.item] > 0
      PROVE  Within'
  <2>1. Shaped(u)
    BY <1>a, <1>6 DEF Becomes
  <2>2. Used(u) = Used(t)
    BY <1>6 DEF Used
  <2>3. handled'[t.item] \in Nat /\ adrift'[t.item] \in Nat /\ Due(u) \in Nat /\ Due(t) \in Nat /\ Used(t) \in Nat
    BY <1>a, <1>b, UsedIs DEF Due
  <2>4. handled'[u.item] + adrift'[u.item] + Due(u) <= Used(u)
    BY <1>6, <1>b, <1>w, <2>2, <2>3
  <2> QED
    BY <1>2, <1>6, <2>1, <2>4
<1>7. ASSUME NEW t \in tasks, StartCall(t) PROVE Within'
  <2> DEFINE u == [t EXCEPT !.at = "call"]
  <2>1. t.at = "free" /\ Becomes(t, u) /\ UNCHANGED <<handled, adrift, sent, failed>>
    BY <1>7 DEF StartCall
  <2>2. u.item = t.item /\ u.round = t.round /\ u.left = t.left /\ u.at = "call"
    BY <1>a, TaskAt DEF Places
  <2> HIDE DEF u
  <2>3. Due(u) = Due(t)
    BY <2>1, <2>2 DEF Due
  <2> QED
    BY <1>6, <1>b, <2>1, <2>2, <2>3 DEF Due
<1>8. ASSUME NEW t \in tasks, Handle(t) PROVE Within'
  <2> DEFINE u == [t EXCEPT !.at = "answered"]
  <2>1. t.at = "call" /\ Becomes(t, u) /\ handled' = [handled EXCEPT ![t.item] = @ + 1] /\ UNCHANGED <<adrift, sent, failed>>
    BY <1>8 DEF Handle
  <2>2. u.item = t.item /\ u.round = t.round /\ u.left = t.left /\ u.at = "answered"
    BY <1>a, TaskAt DEF Places
  <2> HIDE DEF u
  <2>3. Due(u) = 0 /\ Due(t) = 1
    BY <2>1, <2>2 DEF Due
  <2>4. handled'[t.item] = handled[t.item] + 1 /\ adrift'[t.item] = adrift[t.item]
        /\ \A i \in Arrivals : i # t.item => handled'[i] = handled[i] /\ adrift'[i] = adrift[i]
    BY <1>a, <1>b, <2>1
  <2>5. handled'[t.item] > 0 /\ handled'[t.item] + adrift'[t.item] + Due(u) <= handled[t.item] + adrift[t.item] + Due(t)
    BY <1>b, <2>3, <2>4
  <2> QED
    BY <1>6, <2>1, <2>2, <2>4, <2>5
<1>9. ASSUME NEW i \in Arrivals, HandleAdrift(i) PROVE Within'
  <2>1. adrift[i] > 0 /\ adrift' = [adrift EXCEPT ![i] = @ - 1] /\ handled' = [handled EXCEPT ![i] = @ + 1]
        /\ UNCHANGED <<tasks, sent, failed>>
    BY <1>9 DEF HandleAdrift
  <2>2. handled'[i] = handled[i] + 1 /\ adrift'[i] = adrift[i] - 1 /\ handled[i] \in Nat /\ adrift[i] \in Nat
        /\ \A j \in Arrivals : j # i => handled'[j] = handled[j] /\ adrift'[j] = adrift[j]
    BY <1>a, <2>1
  <2>3. \A j \in Arrivals : handled'[j] + adrift'[j] = handled[j] + adrift[j] /\ handled'[j] >= handled[j]
    <3> TAKE j \in Arrivals
    <3>1. handled[j] \in Nat /\ adrift[j] \in Nat
      BY <1>a
    <3> QED
      BY <2>2, <3>1
  <2>4. \A t \in tasks : /\ handled'[t.item] + adrift'[t.item] + Due(t) <= Used(t)
                         /\ t.at = "answered" => handled'[t.item] > 0
    <3> TAKE t \in tasks
    <3>1. t.item \in Arrivals /\ handled[t.item] \in Nat /\ handled'[t.item] \in Nat
      BY <1>a, <1>b
    <3> QED
      BY <1>w, <2>3, <3>1
  <2>5. i \in InTasks \cup sent \cup failed
    BY <1>w, <2>1
  <2>6. \A j \in sent \cup failed : j \in Arrivals
    BY DEF Accountable, GatewayTyped
  <2>7. InTasks' = InTasks
    BY <2>1 DEF InTasks
  <2>8. \A j \in sent' \cup failed' : handled'[j] + adrift'[j] <= Rounds(Retry)
    BY <1>w, <2>1, <2>3, <2>6
  <2>9. \A j \in Arrivals : j \notin InTasks' \cup sent' \cup failed' => handled'[j] = 0 /\ adrift'[j] = 0
    BY <1>w, <2>1, <2>2, <2>5, <2>7
  <2> QED
    BY <2>1, <2>4, <2>8, <2>9 DEF Within, Due, Used, Rounds, N
\* A task ends, and its batch is gone.
<1>10. ASSUME NEW t \in tasks, tasks' = tasks \ {t}, UNCHANGED <<handled, adrift>>,
              sent' \cup failed' = sent \cup failed \cup {t.item}
       PROVE  Within'
  <2>1. InTasks' = InTasks \ {t.item} /\ \A v \in tasks' : v \in tasks
    BY <1>a, <1>10, TaskEnds
  <2>2. handled[t.item] + adrift[t.item] <= Rounds(Retry)
    <3>1. Used(t) \in Nat /\ Used(t) <= Rounds(Retry) /\ Due(t) \in Nat /\ Rounds(Retry) \in Nat
      BY <1>a, UsedIs, RoundsAre, GatewayNumbers DEF Due
    <3>2. handled[t.item] + adrift[t.item] + Due(t) <= Used(t)
      BY <1>w
    <3> QED
      BY <1>b, <3>1, <3>2
  <2>3. \A v \in tasks' : /\ handled'[v.item] + adrift'[v.item] + Due(v) <= Used(v)
                          /\ v.at = "answered" => handled'[v.item] > 0
    BY <1>10, <1>w, <2>1
  <2>4. \A i \in sent' \cup failed' : handled'[i] + adrift'[i] <= Rounds(Retry)
    BY <1>10, <1>w, <2>2
  <2>5. \A i \in Arrivals : i \notin InTasks' \cup sent' \cup failed' => handled'[i] = 0 /\ adrift'[i] = 0
    BY <1>10, <1>w, <2>1
  <2> QED
    BY <2>3, <2>4, <2>5 DEF Within, Due, Used, Rounds, N
<1>11. ASSUME NEW t \in tasks, CallOk(t) \/ SendFails(t) PROVE Within'
  BY <1>10, <1>11 DEF CallOk, SendFails
<1>12. ASSUME NEW t \in tasks, NEW arrives \in BOOLEAN, CallFails(t, arrives) PROVE Within'
  <2> DEFINE u == [t EXCEPT !.at = "scan", !.host = {}]
  <2>1. (arrives => t.at = "call") /\ Becomes(t, u) /\ UNCHANGED <<handled, sent, failed>>
        /\ adrift' = [adrift EXCEPT ![t.item] = IF arrives THEN @ + 1 ELSE @]
    BY <1>12 DEF CallFails
  <2>2. u.item = t.item /\ u.round = t.round /\ u.left = t.left /\ u.at = "scan"
    BY <1>a DEF Tasks
  <2> HIDE DEF u
  <2>3. Due(u) = 0 /\ (arrives => Due(t) = 1) /\ Due(t) \in Nat
    BY <2>1, <2>2 DEF Due
  <2>4. adrift'[t.item] = (IF arrives THEN adrift[t.item] + 1 ELSE adrift[t.item])
        /\ \A i \in Arrivals : i # t.item => handled'[i] = handled[i] /\ adrift'[i] = adrift[i]
    BY <1>a, <1>b, <2>1
  <2>5. handled'[t.item] + adrift'[t.item] + Due(u) <= handled[t.item] + adrift[t.item] + Due(t)
    BY <1>b, <2>1, <2>3, <2>4
  <2> QED
    BY <1>6, <2>1, <2>2, <2>4, <2>5
<1>13. ASSUME NEW t \in tasks, NextRound(t) PROVE Within'
  <2> DEFINE u == [t EXCEPT !.round = @ + 1, !.left = Hosts]
  <2>1. t.at = "scan" /\ t.left = {} /\ Becomes(t, u) /\ UNCHANGED <<handled, adrift, sent, failed>>
    BY <1>13 DEF NextRound
  <2>2. u.item = t.item /\ u.round = t.round + 1 /\ u.left = Hosts /\ u.at = "scan"
    BY <1>a, <2>1 DEF Tasks
  <2> HIDE DEF u
  <2>3. Shaped(u)
    BY <1>a, <2>1 DEF Becomes
  <2>4. Used(u) = Used(t) /\ Due(u) = 0 /\ Due(t) = 0
    <3>0. t.round \in Nat
      BY <1>a, TaskFields
    <3>1. (t.round + 1) - 1 = t.round
      BY <3>0
    <3>4. Rounds(t.round) \in Nat /\ N \in Nat
      BY <3>0, RoundsAre
    <3>2. Used(t) = Rounds(t.round)
      BY <1>a, <2>1, UsedIs
    <3>3. Used(u) = Rounds(t.round)
      BY <2>2, <3>1, <3>4 DEF Used, N
    <3> QED
      BY <2>1, <2>2, <3>2, <3>3 DEF Due
  <2> QED
    BY <1>2, <1>w, <2>1, <2>2, <2>3, <2>4
<1> QED
  BY <1>3, <1>4, <1>5, <1>7, <1>8, <1>9, <1>11, <1>12, <1>13 DEF GatewayNext, ForwardTask, Transfers

-----------------------------------------------------------------------------
(* The gateway serves as the channel does                                       *)

GatewayStatuses == [d \in {"transfer"} |-> GatewayStatus]
GatewayCopies   == [d \in {"transfer"} |-> handled]
Held == InQueue \cup InPopped \cup InTasks

\* What has become of an item follows from where it is.
StatusRight ==
    \A i \in Arrivals :
        /\ i \in Held    => GatewayStatus[i] = "kept"
        /\ i \in dropped => GatewayStatus[i] = "dropped"
        /\ i \in sent    => GatewayStatus[i] = "sent"
        /\ i \in failed  => GatewayStatus[i] = "failed"
        /\ i \notin Held \cup dropped \cup sent \cup failed => GatewayStatus[i] = "new"

\* A batch's status tells its place.
LEMMA GatewayStatusIs == Located => StatusRight
<1> SUFFICES ASSUME Located, NEW i \in Arrivals
             PROVE  /\ i \in Held    => GatewayStatus[i] = "kept"
                    /\ i \in dropped => GatewayStatus[i] = "dropped"
                    /\ i \in sent    => GatewayStatus[i] = "sent"
                    /\ i \in failed  => GatewayStatus[i] = "failed"
                    /\ i \notin Held \cup dropped \cup sent \cup failed => GatewayStatus[i] = "new"
  BY DEF StatusRight
<1>1. Held \cap (dropped \cup sent \cup failed) = {} /\ dropped \cap (sent \cup failed) = {} /\ sent \cap failed = {}
  BY DEF Located, Split6, Held
<1>2. GatewayStatus[i] = CASE i \in Held    -> "kept"
                           [] i \in dropped -> "dropped"
                           [] i \in sent    -> "sent"
                           [] i \in failed  -> "failed"
                           [] OTHER         -> "new"
  BY DEF GatewayStatus, Held, InQueue, InPopped
<1> HIDE DEF Held
<1>3. i \in Held => GatewayStatus[i] = "kept"
  BY <1>1, <1>2
<1>4. i \in dropped => GatewayStatus[i] = "dropped"
  BY <1>1, <1>2
<1>5. i \in sent => GatewayStatus[i] = "sent"
  BY <1>1, <1>2
<1>6. i \in failed => GatewayStatus[i] = "failed"
  BY <1>1, <1>2
<1>7. i \notin Held \cup dropped \cup sent \cup failed => GatewayStatus[i] = "new"
  BY <1>2
<1> QED
  BY <1>3, <1>4, <1>5, <1>6, <1>7

\* The same of the next state.
LEMMA GatewayStatusNext == Located' => StatusRight'
BY GatewayStatusIs, PTL

\* Items that stay where they are keep their status.
LEMMA GatewayStatusSame ==
    ASSUME Located, Located', NEW i \in Arrivals, i \in Held' <=> i \in Held,
           i \in dropped' <=> i \in dropped, i \in sent' <=> i \in sent, i \in failed' <=> i \in failed
    PROVE  GatewayStatus'[i] = GatewayStatus[i]
BY GatewayStatusIs, GatewayStatusNext DEF StatusRight

\* A batch that alone gets another status moves as the channel lets it.
LEMMA GatewayMoves ==
    ASSUME NEW i \in Arrivals, NEW to,
           \A j \in Arrivals : GatewayStatus'[j] = IF j = i THEN to ELSE GatewayStatus[j]
    PROVE  GatewayChannel!Move("transfer", {i}, to)
<1> DEFINE now == [j \in Arrivals |-> IF j = i THEN to ELSE GatewayStatus[j]]
<1>1. GatewayStatus' = now
  BY DEF GatewayStatus
<1>2. GatewayStatuses' = [GatewayStatuses EXCEPT !["transfer"] = now]
  BY <1>1 DEF GatewayStatuses
<1>3. now = [j \in Arrivals |-> IF j \in {i} THEN to ELSE GatewayStatuses["transfer"][j]]
  BY DEF GatewayStatuses
<1> HIDE DEF now
<1> QED
  BY <1>2, <1>3 DEF GatewayChannel!Move, GatewayStatuses

\* The gateway starts where the channel starts.
LEMMA GatewayChannelInit == GatewayInit => GatewayChannel!Init
<1> SUFFICES ASSUME GatewayInit PROVE GatewayChannel!Init
  OBVIOUS
<1>1. Held = {} /\ dropped = {} /\ sent = {} /\ failed = {} /\ Located
  BY AccountableInit, OneBatch DEF Held, InQueue, InPopped, InTasks, GatewayInit, Accountable
<1>2. \A i \in Arrivals : GatewayStatus[i] = "new"
  BY <1>1, GatewayStatusIs DEF StatusRight
<1>3. GatewayStatus = [i \in Arrivals |-> "new"]
  BY <1>2 DEF GatewayStatus
<1> QED
  BY <1>3 DEF GatewayInit, GatewayChannel!Init

\* Each step of the gateway is a step of the channel, or none.
LEMMA GatewayChannelStep ==
    Accountable /\ Accountable' /\ Within /\ Within' /\ [GatewayNext]_gvars
        => [GatewayChannel!Next]_<<GatewayStatuses, GatewayCopies>>
<1> SUFFICES ASSUME Accountable, Accountable', Within, Within', [GatewayNext]_gvars
             PROVE  [GatewayChannel!Next]_<<GatewayStatuses, GatewayCopies>>
  OBVIOUS
<1>a. /\ GatewayTyped /\ TasksOK /\ Distinct /\ Located /\ Located'
      /\ handled \in [Arrivals -> Nat] /\ adrift \in [Arrivals -> Nat]
      /\ handled' \in [Arrivals -> Nat] /\ adrift' \in [Arrivals -> Nat]
      /\ \A t \in tasks : t.item \in Arrivals /\ t.item \in InTasks
  BY TaskFields DEF Accountable, GatewayTyped, TasksOK, Shaped, InTasks
\* Nothing is heard of outside.
<1>1. ASSUME Held' = Held, UNCHANGED <<dropped, sent, failed>> PROVE UNCHANGED GatewayStatuses
  <2>1. \A i \in Arrivals : GatewayStatus'[i] = GatewayStatus[i]
    BY <1>a, <1>1, GatewayStatusSame
  <2> QED
    BY <2>1 DEF GatewayStatuses, GatewayStatus
<1>2. ASSUME Held' = Held, UNCHANGED <<dropped, sent, failed, handled>>
      PROVE  UNCHANGED <<GatewayStatuses, GatewayCopies>>
  BY <1>1, <1>2 DEF GatewayCopies
\* A task goes on.
<1>3. ASSUME NEW t \in tasks, NEW u, u.item = t.item, Becomes(t, u), UNCHANGED <<SenderQueue, popped>>
      PROVE  Held' = Held
  BY <1>3 DEF Becomes, Held, InQueue, InPopped, InTasks
\* A transfer handles a batch once more.
<1>4. ASSUME NEW i \in Arrivals, handled' = [handled EXCEPT ![i] = @ + 1], Held' = Held,
             UNCHANGED <<dropped, sent, failed>>, i \in InTasks \cup sent \cup failed, handled[i] < Rounds(Retry)
      PROVE  GatewayChannel!Next
  <2>1. UNCHANGED GatewayStatuses
    BY <1>1, <1>4
  <2>2. GatewayStatus[i] \in {"kept", "sent", "failed"}
    BY <1>a, <1>4, GatewayStatusIs DEF StatusRight, Held
  <2>3. i \in GatewayChannel!MayReach("transfer")
    BY <1>4, <2>2 DEF GatewayChannel!MayReach, GatewayChannel!In, Rounds, N
  <2>4. handled' = [j \in Arrivals |-> IF j \in {i} THEN handled[j] + 1 ELSE handled[j]]
    BY <1>a, <1>4
  <2>5. GatewayChannel!Handle("transfer")
    BY <2>3, <2>4 DEF GatewayChannel!Handle
  <2>6. handled'[i] # handled[i]
    BY <1>a, <1>4
  <2> QED
    BY <2>1, <2>5, <2>6 DEF GatewayChannel!Next, GatewayStatuses
<1>5. CASE Receive
  <2> DEFINE i == received + 1
  <2>1. received < MaxArrivals /\ UNCHANGED <<popped, tasks, handled, sent, failed>>
        /\ \/ SenderQueue' = Append(SenderQueue, i) /\ UNCHANGED dropped
           \/ dropped' = dropped \cup {i} /\ UNCHANGED SenderQueue
    BY <1>5 DEF Receive, Push2SendQueue
  <2>2. i \in Arrivals /\ i \notin 1..received
    BY <1>a, <2>1, GatewayAssumption DEF Arrivals, GatewayTyped
  <2> HIDE DEF i
  <2>3. i \notin Held \cup dropped \cup sent \cup failed /\ GatewayStatus[i] = "new"
    BY <1>a, <2>2, GatewayStatusIs DEF Located, Split6, Held, StatusRight
  <2>4. i \in GatewayChannel!In("transfer", "new")
    BY <2>2, <2>3 DEF GatewayChannel!In
  <2>5. InPopped' = InPopped /\ InTasks' = InTasks
    BY <2>1 DEF InPopped, InTasks
  <2>6. CASE SenderQueue' = Append(SenderQueue, i) /\ UNCHANGED dropped
    <3>1. Held' = Held \cup {i}
      BY <1>a, <2>2, <2>5, <2>6, QueueAppend DEF Held, InQueue, GatewayTyped
    <3>2. \A j \in Arrivals : GatewayStatus'[j] = IF j = i THEN "kept" ELSE GatewayStatus[j]
      <4> TAKE j \in Arrivals
      <4>1. CASE j = i
        BY <1>a, <3>1, <4>1, GatewayStatusNext DEF StatusRight
      <4>2. CASE j # i
        BY <1>a, <2>1, <2>6, <3>1, <4>2, GatewayStatusSame
      <4> QED
        BY <4>1, <4>2
    <3>3. GatewayChannel!Move("transfer", {i}, "kept")
      BY <2>2, <3>2, GatewayMoves
    <3>4. GatewayChannel!Keep("transfer")
      BY <2>4, <3>3 DEF GatewayChannel!Keep
    <3> QED
      BY <2>1, <3>4 DEF GatewayChannel!Next
  <2>7. CASE dropped' = dropped \cup {i} /\ UNCHANGED SenderQueue
    <3>1. Held' = Held
      BY <2>5, <2>7 DEF Held, InQueue
    <3>2. \A j \in Arrivals : GatewayStatus'[j] = IF j = i THEN "dropped" ELSE GatewayStatus[j]
      <4> TAKE j \in Arrivals
      <4>1. CASE j = i
        BY <1>a, <2>7, <4>1, GatewayStatusNext DEF StatusRight
      <4>2. CASE j # i
        BY <1>a, <2>1, <2>7, <3>1, <4>2, GatewayStatusSame
      <4> QED
        BY <4>1, <4>2
    <3>3. GatewayChannel!Move("transfer", {i}, "dropped")
      BY <2>2, <3>2, GatewayMoves
    <3>4. GatewayChannel!Drop("transfer")
      BY <2>4, <3>3 DEF GatewayChannel!Drop
    <3> QED
      BY <2>1, <3>4 DEF GatewayChannel!Next
  <2> QED
    BY <2>1, <2>6, <2>7
<1>6. CASE PopBackBy
  <2>1. popped = << >> /\ SenderQueue # << >> /\ popped' = <<Head(SenderQueue)>> /\ SenderQueue' = Tail(SenderQueue)
        /\ UNCHANGED <<tasks, handled, dropped, sent, failed>>
    BY <1>6 DEF PopBackBy
  <2>2. InQueue = Range(Tail(SenderQueue)) \cup {Head(SenderQueue)}
    BY <1>a, <2>1, QueueTail DEF InQueue, GatewayTyped
  <2>3. Head(SenderQueue) \in Arrivals
    BY <1>a, <2>1, QueueTail DEF GatewayTyped
  <2>4. InPopped = {} /\ InPopped' = {Head(SenderQueue)}
    BY <2>1, <2>3, OneBatch DEF InPopped
  <2>5. InQueue' = Range(Tail(SenderQueue)) /\ InTasks' = InTasks
    BY <2>1 DEF InQueue, InTasks
  <2> QED
    BY <1>2, <2>1, <2>2, <2>4, <2>5 DEF Held
<1>7. CASE StartTask
  <2>1. popped # << >> /\ tasks' = tasks \cup {Task(popped[1])} /\ popped' = << >>
        /\ UNCHANGED <<SenderQueue, handled, dropped, sent, failed>>
    BY <1>7 DEF StartTask
  <2>2. InPopped = {popped[1]} /\ InPopped' = {}
    BY <1>a, <2>1, OneBatch DEF InPopped, GatewayTyped
  <2>3. InTasks' = InTasks \cup {popped[1]} /\ InQueue' = InQueue
    <3>1. Task(popped[1]).item = popped[1]
      BY DEF Task
    <3> QED
      BY <2>1, <3>1 DEF InTasks, InQueue
  <2> QED
    BY <1>2, <2>1, <2>2, <2>3 DEF Held
<1>8. ASSUME NEW t \in tasks, NEW h \in Hosts, LookAt(t, h) PROVE UNCHANGED <<GatewayStatuses, GatewayCopies>>
  <2> DEFINE next == [t EXCEPT !.left = @ \ {h}]
             u == IF Busy(h) THEN next ELSE [next EXCEPT !.at = "free", !.host = {h}]
  <2>1. Becomes(t, u) /\ UNCHANGED <<SenderQueue, popped, handled, dropped, sent, failed>>
    BY <1>8 DEF LookAt
  <2>2. u.item = t.item
    <3>1. t \in Tasks
      BY <1>a DEF TasksOK, Shaped
    <3> QED
      BY <3>1 DEF Tasks
  <2> HIDE DEF u
  <2> QED
    BY <1>2, <1>3, <2>1, <2>2
<1>9. ASSUME NEW t \in tasks, StartCall(t) \/ NextRound(t) \/ \E arrives \in BOOLEAN : CallFails(t, arrives)
      PROVE  UNCHANGED <<GatewayStatuses, GatewayCopies>>
  <2>0. t \in Tasks
    BY <1>a DEF TasksOK, Shaped
  <2>1. [t EXCEPT !.at = "call"].item = t.item
    BY <2>0 DEF Tasks
  <2>2. [t EXCEPT !.round = @ + 1, !.left = Hosts].item = t.item
    BY <2>0 DEF Tasks
  <2>3. [t EXCEPT !.at = "scan", !.host = {}].item = t.item
    BY <2>0 DEF Tasks
  <2>4. UNCHANGED <<SenderQueue, popped, handled, dropped, sent, failed>>
    BY <1>9 DEF StartCall, NextRound, CallFails
  <2>5. \E u : u.item = t.item /\ Becomes(t, u)
    BY <1>9, <2>1, <2>2, <2>3 DEF StartCall, NextRound, CallFails
  <2> QED
    BY <1>2, <1>3, <2>4, <2>5
<1>10. ASSUME NEW t \in tasks, Handle(t) PROVE GatewayChannel!Next
  <2> DEFINE u == [t EXCEPT !.at = "answered"]
  <2>1. t.at = "call" /\ Becomes(t, u) /\ handled' = [handled EXCEPT ![t.item] = @ + 1]
        /\ UNCHANGED <<SenderQueue, popped, adrift, dropped, sent, failed>>
    BY <1>10 DEF Handle
  <2>2. u.item = t.item
    <3>1. t \in Tasks
      BY <1>a DEF TasksOK, Shaped
    <3> QED
      BY <3>1 DEF Tasks
  <2> HIDE DEF u
  <2>3. Held' = Held
    BY <1>3, <2>1, <2>2
  <2>4. handled[t.item] < Rounds(Retry)
    <3>1. handled[t.item] + adrift[t.item] + Due(t) <= Used(t) /\ Due(t) = 1
      BY <2>1 DEF Within, Due
    <3>2. Used(t) \in Nat /\ Used(t) <= Rounds(Retry) /\ Rounds(Retry) \in Nat
      BY <1>a, UsedIs, RoundsAre, GatewayNumbers DEF TasksOK
    <3>3. handled[t.item] \in Nat /\ adrift[t.item] \in Nat
      BY <1>a
    <3> QED
      BY <3>1, <3>2, <3>3
  <2> QED
    BY <1>4, <1>a, <2>1, <2>3, <2>4
<1>11. ASSUME NEW i \in Arrivals, HandleAdrift(i) PROVE GatewayChannel!Next
  <2>1. adrift[i] > 0 /\ handled' = [handled EXCEPT ![i] = @ + 1]
        /\ UNCHANGED <<SenderQueue, popped, tasks, dropped, sent, failed>>
    BY <1>11 DEF HandleAdrift
  <2>2. Held' = Held
    BY <2>1 DEF Held, InQueue, InPopped, InTasks
  <2>3. i \in InTasks \cup sent \cup failed
    BY <2>1 DEF Within
  <2>4. handled[i] + adrift[i] <= Rounds(Retry)
    <3>1. CASE i \in InTasks
      <4>1. PICK t \in tasks : t.item = i
        BY <3>1 DEF InTasks
      <4>2. handled[i] + adrift[i] + Due(t) <= Used(t) /\ Due(t) \in Nat
        BY <4>1 DEF Within, Due
      <4>3. Used(t) \in Nat /\ Used(t) <= Rounds(Retry) /\ Rounds(Retry) \in Nat
        BY <1>a, UsedIs, RoundsAre, GatewayNumbers DEF TasksOK
      <4>4. handled[i] \in Nat /\ adrift[i] \in Nat
        BY <1>a
      <4> QED
        BY <4>2, <4>3, <4>4
    <3> QED
      BY <2>3, <3>1 DEF Within
  <2>5. handled[i] < Rounds(Retry)
    <3>1. handled[i] \in Nat /\ adrift[i] \in Nat /\ Rounds(Retry) \in Nat
      BY <1>a, RoundsAre, GatewayNumbers
    <3> QED
      BY <2>1, <2>4, <3>1
  <2> QED
    BY <1>4, <2>1, <2>2, <2>3, <2>5
<1>12. ASSUME NEW t \in tasks, CallOk(t) PROVE GatewayChannel!Next
  <2> DEFINE i == t.item
  <2>1. t.at = "answered" /\ tasks' = tasks \ {t} /\ sent' = sent \cup {i}
        /\ UNCHANGED <<SenderQueue, popped, handled, dropped, failed>>
    BY <1>12 DEF CallOk
  <2>2. InTasks' = InTasks \ {i} /\ i \in InTasks /\ i \in Arrivals
    BY <1>a, <2>1, TaskEnds
  <2>3. handled[i] > 0
    BY <2>1 DEF Within
  <2> HIDE DEF i
  <2>4. Held' = Held \ {i} /\ i \in Held
    BY <1>a, <2>1, <2>2 DEF Held, InQueue, InPopped, Located, Split6
  <2>5. \A j \in Arrivals : GatewayStatus'[j] = IF j = i THEN "sent" ELSE GatewayStatus[j]
    <3> TAKE j \in Arrivals
    <3>1. CASE j = i
      BY <1>a, <2>1, <3>1, GatewayStatusNext DEF StatusRight
    <3>2. CASE j # i
      BY <1>a, <2>1, <2>4, <3>2, GatewayStatusSame
    <3> QED
      BY <3>1, <3>2
  <2>6. GatewayChannel!Move("transfer", {i}, "sent")
    BY <2>2, <2>5, GatewayMoves
  <2>7. i \in {j \in GatewayChannel!In("transfer", "kept") : handled[j] > 0}
    <3>1. GatewayStatus[i] = "kept"
      BY <1>a, <2>2, <2>4, GatewayStatusIs DEF StatusRight
    <3> QED
      BY <2>2, <2>3, <3>1 DEF GatewayChannel!In
  <2>8. GatewayChannel!Confirm("transfer")
    BY <2>6, <2>7 DEF GatewayChannel!Confirm
  <2> QED
    BY <2>1, <2>8 DEF GatewayChannel!Next
<1>13. ASSUME NEW t \in tasks, SendFails(t) PROVE GatewayChannel!Next
  <2> DEFINE i == t.item
  <2>1. tasks' = tasks \ {t} /\ failed' = failed \cup {i}
        /\ UNCHANGED <<SenderQueue, popped, handled, dropped, sent>>
    BY <1>13 DEF SendFails
  <2>2. InTasks' = InTasks \ {i} /\ i \in InTasks /\ i \in Arrivals
    BY <1>a, <2>1, TaskEnds
  <2> HIDE DEF i
  <2>4. Held' = Held \ {i} /\ i \in Held
    BY <1>a, <2>1, <2>2 DEF Held, InQueue, InPopped, Located, Split6
  <2>5. \A j \in Arrivals : GatewayStatus'[j] = IF j = i THEN "failed" ELSE GatewayStatus[j]
    <3> TAKE j \in Arrivals
    <3>1. CASE j = i
      BY <1>a, <2>1, <3>1, GatewayStatusNext DEF StatusRight
    <3>2. CASE j # i
      BY <1>a, <2>1, <2>4, <3>2, GatewayStatusSame
    <3> QED
      BY <3>1, <3>2
  <2>6. GatewayChannel!Move("transfer", {i}, "failed")
    BY <2>2, <2>5, GatewayMoves
  <2>7. i \in GatewayChannel!In("transfer", "kept")
    <3>1. GatewayStatus[i] = "kept"
      BY <1>a, <2>2, <2>4, GatewayStatusIs DEF StatusRight
    <3> QED
      BY <2>2, <3>1 DEF GatewayChannel!In
  <2>8. GatewayChannel!GiveUp("transfer")
    BY <2>6, <2>7 DEF GatewayChannel!GiveUp
  <2> QED
    BY <2>1, <2>8 DEF GatewayChannel!Next
<1>14. CASE UNCHANGED gvars
  <2>1. UNCHANGED <<SenderQueue, popped, tasks, handled, dropped, sent, failed>>
    BY <1>14 DEF gvars
  <2>2. Held' = Held
    BY <2>1 DEF Held, InQueue, InPopped, InTasks
  <2> QED
    BY <1>2, <2>1, <2>2
<1> QED
  BY <1>5, <1>6, <1>7, <1>8, <1>9, <1>10, <1>11, <1>12, <1>13, <1>14 DEF GatewayNext, ForwardTask, Transfers

\* src/agent/g/transfer.go and src/gateway/sender/sender.go: what the agent pushes and
\* what the gateway forwards is served as DeliveryChannel promises.
THEOREM ForwardImplementsChannel == Spec => ForwardIsChannel
<1>1. MCInit => Accountable /\ Within /\ GatewayChannel!Init
  BY AccountableInit, WithinInit, GatewayChannelInit DEF MCInit
<1>2. Accountable /\ Accountable' /\ Within /\ Within' /\ [GatewayNext]_gvars =>
        [GatewayChannel!Next]_<<[d \in {"transfer"} |-> GatewayStatus], [d \in {"transfer"} |-> handled]>>
  BY GatewayChannelStep DEF GatewayStatuses, GatewayCopies
<1>3. Spec => GatewayIsChannel
  BY <1>1, <1>2, AccountableStep, WithinStep, PartSteps, SpecSteps, PTL DEF GatewayIsChannel, GatewayChannel!Spec
<1> QED
  BY <1>3, PushImplementsChannel DEF ForwardIsChannel

-----------------------------------------------------------------------------
(* The tables of plugins and of their schedulers                                *)

\* SetToSeq lists each element of a finite set once.
LEMMA ListedOnce ==
    ASSUME NEW S, IsFiniteSet(S)
    PROVE  /\ SetToSeq(S) \in Seq(S) /\ Len(SetToSeq(S)) = Cardinality(S) /\ Cardinality(S) \in Nat
           /\ \A m, n \in 1..Cardinality(S) : SetToSeq(S)[m] = SetToSeq(S)[n] => m = n
           /\ \A x \in S : \E n \in 1..Cardinality(S) : SetToSeq(S)[n] = x
           /\ ToSet(SetToSeq(S)) = S
<1> DEFINE n == Cardinality(S)
           s == SetToSeq(S)
<1>1. n \in Nat /\ ExistsBijection(1..n, S)
  BY FS_CardinalityType
<1>2. \E f \in [1..n -> S] : IsInjective(f)
  BY <1>1 DEF ExistsBijection, Bijection, Injection
<1>3. s \in [1..n -> S] /\ IsInjective(s)
  BY <1>2 DEF SetToSeq
<1>4. Cardinality(1..n) = n /\ IsFiniteSet(1..n)
  BY <1>1, FS_Interval
<1> HIDE DEF s
<1>5. s \in Surjection(1..n, S)
  <2>1. s \in Injection(1..n, S)
    BY <1>3 DEF Injection
  <2> QED
    BY <1>4, <2>1, FS_Injection
<1>6. \A x \in S : \E k \in 1..n : s[k] = x
  BY <1>5 DEF Surjection
<1>7. \A k, m \in 1..n : s[k] = s[m] => k = m
  BY <1>3 DEF IsInjective
<1>8. s \in Seq(S) /\ Len(s) = n
  BY <1>1, <1>3
<1>9. ToSet(s) = S
  BY <1>3, <1>6 DEF ToSet
<1> QED
  BY <1>1, <1>6, <1>7, <1>8, <1>9 DEF s

SchedType == [key : Keys \cup {Ended.key}, mtime : 0..MaxMTime, quit : BOOLEAN, doing : {"wait", "run", "ended"}]
PluginsSound == PluginsTypeOK /\ SchedulersMatch

\* A scheduler that ended is one that was stopped.
LEMMA EndedIs == Ended \in SchedType /\ Ended.quit = TRUE /\ Ended.doing = "ended"
BY PluginsAssumption DEF Ended, SchedType

\* An agent that starts has empty tables.
LEMMA FreshTables ==
    ASSUME Plugins = << >>, PluginsWithScheduler = << >>, \A i \in Scheds : sched[i].quit
    PROVE  /\ Plugins \in [DOMAIN Plugins -> 1..MaxMTime] /\ DOMAIN Plugins \subseteq Keys
           /\ PluginsWithScheduler \in [DOMAIN Plugins -> Scheds] /\ SchedulersMatch
<1>1. DOMAIN << >> = {} /\ << >> \in [{} -> 1..MaxMTime] /\ << >> \in [{} -> Scheds]
  OBVIOUS
<1> QED
  BY <1>1 DEF SchedulersMatch

\* The loop starts with empty tables.
LEMMA PluginsInitSound == PluginsInit => PluginsSound
<1> SUFFICES ASSUME PluginsInit PROVE PluginsSound
  OBVIOUS
<1>1. sched \in [Scheds -> SchedType] /\ \A i \in Scheds : sched[i].quit
  BY EndedIs DEF PluginsInit, Fresh
<1>2. Plugins = << >> /\ PluginsWithScheduler = << >> /\ lag = 0 - 1 /\ changes = 0 /\ found = {} /\ asleep = TRUE
      /\ file \in [Files -> 0..1] /\ bindings \subseteq Bindable
  BY DEF PluginsInit, Fresh
<1>3. file \in [Files -> 0..MaxMTime] /\ lag \in (0 - 1)..MaxBack /\ changes \in 0..MaxChanges
  BY <1>2, PluginsAssumption
<1>4. PluginsTypeOK
  BY <1>1, <1>2, <1>3, FreshTables DEF PluginsTypeOK, SchedType
<1> QED
  BY <1>1, <1>2, <1>4, FreshTables DEF PluginsSound

\* A scheduler whose Quit is closed, or not, is else the same.
LEMMA SchedQuits ==
    ASSUME NEW s \in SchedType, NEW q \in BOOLEAN
    PROVE  LET r == [s EXCEPT !.quit = q] IN
           r \in SchedType /\ r.key = s.key /\ r.mtime = s.mtime /\ r.quit = q /\ r.doing = s.doing
BY DEF SchedType

\* A scheduler that waits or runs is else the same.
LEMMA SchedDoes ==
    ASSUME NEW s \in SchedType, NEW x \in {"wait", "run", "ended"}
    PROVE  LET r == [s EXCEPT !.doing = x] IN
           r \in SchedType /\ r.key = s.key /\ r.mtime = s.mtime /\ r.quit = s.quit /\ r.doing = x
BY DEF SchedType

\* Stop closes the Quit of the schedulers of some keys, and changes nothing else.
LEMMA StoppedIs ==
    ASSUME sched \in [Scheds -> SchedType], NEW K, NEW i \in Scheds
    PROVE  /\ Stopped(K)[i] \in SchedType /\ Stopped(K)[i].key = sched[i].key
           /\ Stopped(K)[i].mtime = sched[i].mtime /\ Stopped(K)[i].doing = sched[i].doing
           /\ Stopped(K)[i].quit <=> sched[i].quit \/ \E k \in K : PluginsWithScheduler[k] = i
<1> DEFINE q == sched[i].quit \/ \E k \in K : PluginsWithScheduler[k] = i
<1>1. sched[i] \in SchedType
  OBVIOUS
<1>2. Stopped(K)[i] = [sched[i] EXCEPT !.quit = q]
  BY DEF Stopped
<1>3. q \in BOOLEAN
  OBVIOUS
<1> HIDE DEF q
<1>4. LET r == [sched[i] EXCEPT !.quit = q] IN
      r \in SchedType /\ r.key = sched[i].key /\ r.mtime = sched[i].mtime /\ r.quit = q /\ r.doing = sched[i].doing
  BY <1>1, <1>3, SchedQuits
<1>5. /\ Stopped(K)[i] \in SchedType /\ Stopped(K)[i].key = sched[i].key
      /\ Stopped(K)[i].mtime = sched[i].mtime /\ Stopped(K)[i].doing = sched[i].doing /\ Stopped(K)[i].quit = q
  BY <1>2, <1>4
<1> QED
  BY <1>5 DEF q

\* What the loop wants to run is what it found, as it is on disk.
LEMMA DesiredIs ==
    ASSUME found \subseteq Bindable, file \in [Files -> 0..MaxMTime],
           ~\E e \in found : e[1] # "dir" /\ file[e[1]] = 0
    PROVE  LET d == Desired(found) IN
           DOMAIN d \subseteq Keys /\ IsFiniteSet(DOMAIN d) /\ d \in [DOMAIN d -> 1..MaxMTime]
<1> DEFINE alone  == {e \in found : e[1] # "dir"}
           names  == {e[1] : e \in alone}
           listed == IF alone = found THEN {} ELSE {f \in Files \ names : file[f] > 0}
           pairs  == {<<f, "listed">> : f \in listed}
           d      == [k \in alone \cup pairs |-> file[k[1]]]
<1>1. Desired(found) = d
  BY DEF Desired
<1>2. listed \subseteq Files /\ \A f \in listed : file[f] > 0
  OBVIOUS
<1>3. alone \subseteq Bindable /\ \A e \in alone : e[1] \in Files /\ file[e[1]] # 0
  BY PluginsAssumption
<1>4. IsFiniteSet(alone)
  BY <1>3, PluginsAssumption, FS_Subset
<1>5. IsFiniteSet(listed)
  BY <1>2, PluginsAssumption, FS_Subset
<1> HIDE DEF listed
<1>6. IsFiniteSet(pairs)
  <2>1. [f \in listed |-> <<f, "listed">>] \in Surjection(listed, pairs)
    BY DEF Surjection
  <2> QED
    BY <1>5, <2>1, FS_Surjection
<1>7. alone \cup pairs \subseteq Keys
  BY <1>2, <1>3 DEF Keys
<1>8. IsFiniteSet(alone \cup pairs)
  BY <1>4, <1>6, FS_Union
<1>9. \A k \in alone \cup pairs : file[k[1]] \in 1..MaxMTime
  <2>1. \A f \in Files : file[f] \in 0..MaxMTime
    OBVIOUS
  <2>2. \A k \in alone : file[k[1]] \in 1..MaxMTime
    BY <1>3, <2>1
  <2>3. \A k \in pairs : file[k[1]] \in 1..MaxMTime
    BY <1>2, <2>1
  <2> QED
    BY <2>2, <2>3
<1>10. DOMAIN d = alone \cup pairs /\ d \in [alone \cup pairs -> 1..MaxMTime]
  BY <1>9
<1> HIDE DEF d, alone, pairs
<1> QED
  BY <1>1, <1>7, <1>8, <1>10

\* A turn of the loop that finds all it looks for: what is new gets a scheduler of its
\* own, what is not wanted any more is stopped.
LEMMA SyncSound ==
    ASSUME PluginsSound, Sync, ~\E e \in found : e[1] # "dir" /\ file[e[1]] = 0
    PROVE  PluginsSound'
<1> DEFINE d == Desired(found)
           unused == Unused(d)
           kept == DOMAIN Plugins \ unused
           fresh == New(d, kept)
           new == SetToSeq(fresh)
           spare == {i \in Scheds : sched[i].doing = "ended"}
           free == SetToSeq(spare)
           of(k) == CHOOSE n \in DOMAIN new : new[n] = k
           given(i) == CHOOSE n \in DOMAIN new : free[n] = i
<1>1. /\ UNCHANGED <<disk, lag>> /\ found' = {} /\ asleep' = TRUE
      /\ Len(new) <= Len(free)
      /\ Plugins' = [k \in kept \cup DOMAIN d |-> d[k]]
      /\ PluginsWithScheduler' = [k \in kept \cup DOMAIN d |->
                                    IF k \in ToSet(new) THEN free[of(k)] ELSE PluginsWithScheduler[k]]
      /\ sched' = [i \in Scheds |->
                    IF \E n \in DOMAIN new : free[n] = i
                    THEN [key |-> new[given(i)], mtime |-> d[new[given(i)]], quit |-> FALSE, doing |-> "wait"]
                    ELSE Stopped(unused)[i]]
  BY DEF Sync
<1>2. /\ bindings \subseteq Bindable /\ file \in [Files -> 0..MaxMTime]
      /\ changes \in 0..MaxChanges /\ lag \in (0 - 1)..MaxBack /\ found \subseteq Bindable
      /\ Plugins \in [DOMAIN Plugins -> 1..MaxMTime] /\ DOMAIN Plugins \subseteq Keys
      /\ PluginsWithScheduler \in [DOMAIN Plugins -> Scheds]
      /\ sched \in [Scheds -> SchedType] /\ SchedulersMatch
  BY DEF PluginsSound, PluginsTypeOK, SchedType
<1>3. DOMAIN d \subseteq Keys /\ IsFiniteSet(DOMAIN d) /\ d \in [DOMAIN d -> 1..MaxMTime]
  BY <1>2, DesiredIs
<1> HIDE DEF d
<1>4. kept \subseteq DOMAIN d /\ kept \subseteq DOMAIN Plugins /\ \A k \in kept : Plugins[k] = d[k] /\ k \notin unused
  BY DEF Unused
<1>5. fresh = DOMAIN d \ kept /\ kept \cup DOMAIN d = DOMAIN d
  BY <1>4 DEF New
<1> HIDE DEF unused, kept, fresh
<1>6. IsFiniteSet(fresh) /\ IsFiniteSet(spare)
  <2>1. IsFiniteSet(Scheds)
    <3>1. 1 \in Int /\ MaxScheds \in Int
      BY PluginsAssumption
    <3> QED
      BY <3>1, FS_Interval DEF Scheds
  <2>2. spare \subseteq Scheds /\ fresh \subseteq DOMAIN d
    BY <1>5
  <2> QED
    BY <1>3, <2>1, <2>2, FS_Subset
<1>7. /\ new \in Seq(fresh) /\ DOMAIN new = 1..Len(new) /\ Len(new) \in Nat /\ ToSet(new) = fresh
      /\ \A m, n \in DOMAIN new : new[m] = new[n] => m = n
      /\ \A k \in fresh : \E n \in DOMAIN new : new[n] = k
  BY <1>6, ListedOnce, SMTT(30)
<1>8. /\ free \in Seq(spare) /\ Len(free) \in Nat
      /\ \A m, n \in 1..Len(free) : free[m] = free[n] => m = n
  <2> HIDE DEF spare, free
  <2>1. /\ SetToSeq(spare) \in Seq(spare) /\ Len(SetToSeq(spare)) = Cardinality(spare) /\ Cardinality(spare) \in Nat
        /\ \A m, n \in 1..Cardinality(spare) : SetToSeq(spare)[m] = SetToSeq(spare)[n] => m = n
    BY <1>6, ListedOnce
  <2>2. free = SetToSeq(spare)
    BY DEF free
  <2> QED
    BY <2>1, <2>2
<1> HIDE DEF new, free
<1>9. /\ \A n \in DOMAIN new : free[n] \in spare /\ new[n] \in fresh
      /\ \A m, n \in DOMAIN new : free[m] = free[n] => m = n
  <2>1. \A n \in DOMAIN new : n \in 1..Len(free)
    BY <1>1, <1>7, <1>8
  <2>2. \A n \in 1..Len(free) : free[n] \in spare
    BY <1>8
  <2>3. \A n \in 1..Len(new) : new[n] \in fresh
    BY <1>7
  <2> QED
    BY <1>7, <1>8, <2>1, <2>2, <2>3
<1>10. \A k \in fresh : of(k) \in DOMAIN new /\ new[of(k)] = k
  BY <1>7
<1>11. \A n \in DOMAIN new : given(free[n]) = n
  BY <1>9
<1>12. \A n \in DOMAIN new : of(new[n]) = n
  BY <1>7
<1> HIDE DEF of, given, spare
<1>13. /\ Plugins' = d /\ DOMAIN Plugins' = DOMAIN d /\ DOMAIN PluginsWithScheduler' = DOMAIN d
       /\ \A k \in fresh : PluginsWithScheduler'[k] = free[of(k)]
       /\ \A k \in kept  : PluginsWithScheduler'[k] = PluginsWithScheduler[k]
  <2>1. Plugins' = [k \in DOMAIN d |-> d[k]]
    BY <1>1, <1>5
  <2>2. Plugins' = d
    BY <1>3, <2>1
  <2>3. PluginsWithScheduler' = [k \in DOMAIN d |-> IF k \in fresh THEN free[of(k)] ELSE PluginsWithScheduler[k]]
    BY <1>1, <1>5, <1>7
  <2>4. \A k \in kept : k \notin fresh /\ k \in DOMAIN d
    BY <1>4, <1>5
  <2> QED
    BY <1>5, <2>2, <2>3, <2>4
<1>14. ASSUME NEW n \in DOMAIN new
       PROVE  /\ free[n] \in Scheds
              /\ sched'[free[n]] = [key |-> new[n], mtime |-> d[new[n]], quit |-> FALSE, doing |-> "wait"]
  BY <1>1, <1>9, <1>11 DEF spare
<1>15. ASSUME NEW i \in Scheds, ~\E n \in DOMAIN new : free[n] = i PROVE sched'[i] = Stopped(unused)[i]
  BY <1>1, <1>15
<1>16. ASSUME NEW n \in DOMAIN new
       PROVE  [key |-> new[n], mtime |-> d[new[n]], quit |-> FALSE, doing |-> "wait"] \in SchedType
  <2>1. new[n] \in DOMAIN d
    BY <1>5, <1>9
  <2>2. new[n] \in Keys /\ d[new[n]] \in 0..MaxMTime
    BY <1>3, <2>1
  <2> QED
    BY <2>2 DEF SchedType
<1>17. ASSUME NEW i \in Scheds PROVE sched'[i] \in SchedType
  <2>1. CASE \E n \in DOMAIN new : free[n] = i
    <3>1. PICK n \in DOMAIN new : free[n] = i
      BY <2>1
    <3>2. sched'[i] = [key |-> new[n], mtime |-> d[new[n]], quit |-> FALSE, doing |-> "wait"]
      BY <1>14, <3>1
    <3> QED
      BY <1>16, <3>2
  <2>2. CASE ~\E n \in DOMAIN new : free[n] = i
    <3>1. sched'[i] = Stopped(unused)[i]
      BY <1>15, <2>2
    <3> QED
      BY <1>2, <3>1, StoppedIs
  <2> QED
    BY <2>1, <2>2
<1>18. sched' \in [Scheds -> SchedType]
  BY <1>1, <1>17
<1>19. PluginsWithScheduler' \in [DOMAIN d -> Scheds]
  <2>1. \A k \in DOMAIN d : PluginsWithScheduler'[k] \in Scheds
    <3>1. \A k \in fresh : PluginsWithScheduler'[k] \in Scheds
      BY <1>10, <1>13, <1>14
    <3>2. \A k \in kept : PluginsWithScheduler'[k] \in Scheds
      BY <1>2, <1>4, <1>13
    <3> QED
      BY <1>5, <3>1, <3>2
  <2> QED
    BY <1>1, <1>5, <2>1
<1>20. PluginsTypeOK'
  BY <1>1, <1>2, <1>3, <1>13, <1>18, <1>19 DEF PluginsTypeOK, SchedType, disk
<1>21. ASSUME NEW k \in DOMAIN d
       PROVE  LET s == sched'[PluginsWithScheduler'[k]] IN s.key = k /\ s.mtime = d[k] /\ ~s.quit /\ s.doing # "ended"
  <2>1. CASE k \in fresh
    <3> DEFINE n == of(k)
    <3>1. n \in DOMAIN new /\ new[n] = k /\ PluginsWithScheduler'[k] = free[n]
      BY <1>10, <1>13, <2>1
    <3> HIDE DEF n
    <3>2. sched'[free[n]] = [key |-> new[n], mtime |-> d[new[n]], quit |-> FALSE, doing |-> "wait"]
      BY <1>14, <3>1
    <3> QED
      BY <3>1, <3>2
  <2>2. CASE k \in kept
    <3> DEFINE i == PluginsWithScheduler[k]
    <3>1. i \in Scheds /\ sched[i].key = k /\ sched[i].mtime = Plugins[k] /\ ~sched[i].quit /\ sched[i].doing # "ended"
      BY <1>2, <1>4, <2>2 DEF SchedulersMatch
    <3>2. ~\E n \in DOMAIN new : free[n] = i
      BY <1>9, <3>1 DEF spare
    <3>3. ~\E l \in unused : PluginsWithScheduler[l] = i
      <4>1. \A l \in unused : l \in DOMAIN Plugins
        BY DEF unused, Unused
      <4>2. \A l \in unused : sched[PluginsWithScheduler[l]].key = l
        BY <1>2, <4>1 DEF SchedulersMatch
      <4> QED
        BY <1>4, <2>2, <3>1, <4>2
    <3>4. sched'[i] = Stopped(unused)[i]
      BY <1>15, <3>1, <3>2
    <3>5. sched'[i].key = k /\ sched'[i].mtime = Plugins[k] /\ ~sched'[i].quit /\ sched'[i].doing # "ended"
      BY <1>2, <3>1, <3>3, <3>4, StoppedIs
    <3> QED
      BY <1>4, <1>13, <2>2, <3>5
  <2> QED
    BY <1>5, <2>1, <2>2
<1>22. ASSUME NEW i \in Scheds, ~sched'[i].quit
       PROVE  sched'[i].key \in DOMAIN d /\ PluginsWithScheduler'[sched'[i].key] = i
  <2>1. CASE \E n \in DOMAIN new : free[n] = i
    <3>1. PICK n \in DOMAIN new : free[n] = i
      BY <2>1
    <3>2. sched'[i].key = new[n] /\ new[n] \in fresh
      <4>1. sched'[i] = [key |-> new[n], mtime |-> d[new[n]], quit |-> FALSE, doing |-> "wait"]
        BY <1>14, <3>1
      <4> QED
        BY <1>9, <4>1
    <3> QED
      BY <1>5, <1>12, <1>13, <3>1, <3>2
  <2>2. CASE ~\E n \in DOMAIN new : free[n] = i
    <3>1. sched'[i] = Stopped(unused)[i]
      BY <1>15, <2>2
    <3>2. ~sched[i].quit /\ (~\E l \in unused : PluginsWithScheduler[l] = i) /\ sched'[i].key = sched[i].key
      BY <1>2, <1>22, <3>1, StoppedIs
    <3>3. sched[i].key \in DOMAIN Plugins /\ PluginsWithScheduler[sched[i].key] = i
      BY <1>2, <3>2 DEF SchedulersMatch
    <3>4. sched[i].key \in kept
      BY <3>2, <3>3 DEF kept
    <3> QED
      BY <1>4, <1>13, <3>2, <3>3, <3>4
  <2> QED
    BY <2>1, <2>2
<1>23. SchedulersMatch'
  BY <1>13, <1>21, <1>22 DEF SchedulersMatch
<1> QED
  BY <1>20, <1>23 DEF PluginsSound

\* Only the table changes, and no scheduler that goes on.
LEMMA TablesSame ==
    ASSUME PluginsSound, UNCHANGED table
    PROVE  /\ Plugins' \in [DOMAIN Plugins' -> 1..MaxMTime] /\ DOMAIN Plugins' \subseteq Keys
           /\ PluginsWithScheduler' \in [DOMAIN Plugins' -> Scheds]
           /\ sched' \in [Scheds -> SchedType] /\ SchedulersMatch'
BY DEF PluginsSound, PluginsTypeOK, SchedulersMatch, SchedType, table

\* Whatever the loop and its schedulers do, and whatever changes on disk, the two
\* tables and the goroutines stay matched.
LEMMA PluginsStep == PluginsSound /\ [PluginsNext]_pvars => PluginsSound'
<1> SUFFICES ASSUME PluginsSound, [PluginsNext]_pvars PROVE PluginsSound'
  OBVIOUS
<1> USE DEF disk, loop
<1>1. /\ bindings \subseteq Bindable /\ file \in [Files -> 0..MaxMTime]
      /\ changes \in 0..MaxChanges /\ lag \in (0 - 1)..MaxBack
      /\ found \subseteq Bindable /\ asleep \in BOOLEAN
      /\ Plugins \in [DOMAIN Plugins -> 1..MaxMTime] /\ DOMAIN Plugins \subseteq Keys
      /\ PluginsWithScheduler \in [DOMAIN Plugins -> Scheds]
      /\ sched \in [Scheds -> SchedType] /\ SchedulersMatch
  BY DEF PluginsSound, PluginsTypeOK, SchedType
<1>2. ASSUME UNCHANGED table,
             bindings' \subseteq Bindable, file' \in [Files -> 0..MaxMTime], changes' \in 0..MaxChanges,
             lag' \in (0 - 1)..MaxBack, found' \subseteq Bindable, asleep' \in BOOLEAN
      PROVE  PluginsSound'
  <2>1. /\ Plugins' \in [DOMAIN Plugins' -> 1..MaxMTime] /\ DOMAIN Plugins' \subseteq Keys
        /\ PluginsWithScheduler' \in [DOMAIN Plugins' -> Scheds]
        /\ sched' \in [Scheds -> SchedType] /\ SchedulersMatch'
    BY <1>2, TablesSame
  <2> QED
    BY <1>2, <2>1 DEF PluginsSound, PluginsTypeOK, SchedType
<1>3. ASSUME UNCHANGED <<disk, found, asleep, Plugins, PluginsWithScheduler, lag>>,
             sched' \in [Scheds -> SchedType], SchedulersMatch'
      PROVE  PluginsSound'
  BY <1>1, <1>3 DEF PluginsSound, PluginsTypeOK, SchedType
<1>4. ASSUME UNCHANGED disk, lag' \in (0 - 1)..MaxBack, found' \subseteq Bindable, asleep' \in BOOLEAN,
             Plugins' = << >>, PluginsWithScheduler' = << >>,
             sched' \in [Scheds -> SchedType], \A i \in Scheds : sched'[i].quit
      PROVE  PluginsSound'
  <2>1. DOMAIN << >> = {} /\ << >> \in [{} -> 1..MaxMTime] /\ << >> \in [{} -> Scheds]
    OBVIOUS
  <2>2. DOMAIN Plugins' = {} /\ Plugins' \in [DOMAIN Plugins' -> 1..MaxMTime] /\ DOMAIN Plugins' \subseteq Keys
        /\ PluginsWithScheduler' \in [DOMAIN Plugins' -> Scheds] /\ DOMAIN PluginsWithScheduler' = {}
    BY <1>4, <2>1
  <2>3. SchedulersMatch'
    BY <1>4, <2>2 DEF SchedulersMatch
  <2> QED
    BY <1>1, <1>4, <2>2, <2>3 DEF PluginsSound, PluginsTypeOK, SchedType
<1>5. ASSUME Change PROVE changes' \in 0..MaxChanges /\ UNCHANGED <<loop, table>>
  BY <1>1, <1>5, PluginsAssumption DEF Change
<1>6. CASE Bind
  BY <1>1, <1>2, <1>5, <1>6 DEF Bind
<1>7. CASE Pull
  <2>1. file' \in [Files -> 0..MaxMTime]
    <3>1. PICK f \in Files : \/ file[f] < MaxMTime /\ file' = [file EXCEPT ![f] = @ + 1]
                             \/ file[f] > 0 /\ file' = [file EXCEPT ![f] = 0]
      BY <1>7 DEF Pull
    <3> QED
      BY <1>1, <3>1, PluginsAssumption
  <2> QED
    BY <1>1, <1>2, <1>5, <1>7, <2>1 DEF Pull
<1>8. CASE Second
  BY <1>1, <1>2, <1>8, PluginsAssumption DEF Second
<1>9. CASE ClockBack
  BY <1>1, <1>2, <1>9, PluginsAssumption DEF ClockBack
<1>10. CASE MinePlugins
  <2>1. 0 \in (0 - 1)..MaxBack
    BY PluginsAssumption
  <2>2. CASE bindings = {}
    <3>1. Plugins' = << >> /\ PluginsWithScheduler' = << >> /\ sched' = Stopped(DOMAIN Plugins)
          /\ UNCHANGED <<disk, found, asleep>> /\ lag' = 0
      BY <1>10, <2>2 DEF MinePlugins, ClearAllPlugins
    <3>2. ASSUME NEW i \in Scheds PROVE sched'[i] \in SchedType /\ sched'[i].quit
      <4>1. Stopped(DOMAIN Plugins)[i] \in SchedType
            /\ (Stopped(DOMAIN Plugins)[i].quit <=> sched[i].quit \/ \E k \in DOMAIN Plugins : PluginsWithScheduler[k] = i)
        BY <1>1, StoppedIs
      <4> QED
        BY <1>1, <3>1, <4>1 DEF SchedulersMatch
    <3>3. sched' \in [Scheds -> SchedType]
      BY <3>1, <3>2 DEF Stopped
    <3> QED
      BY <1>1, <1>4, <2>1, <3>1, <3>2, <3>3
  <2>3. CASE bindings # {}
    BY <1>1, <1>2, <1>10, <2>1, <2>3 DEF MinePlugins
  <2> QED
    BY <2>2, <2>3
<1>11. CASE Sync
  <2>1. CASE \E e \in found : e[1] # "dir" /\ file[e[1]] = 0
    <3>1. UNCHANGED disk /\ lag' = 0 - 1 /\ found' = {} /\ asleep' = TRUE
          /\ Plugins' = << >> /\ PluginsWithScheduler' = << >> /\ sched' = [i \in Scheds |-> Ended]
      BY <1>11, <2>1 DEF Sync, Panic
    <3>2. lag' \in (0 - 1)..MaxBack
      BY <3>1, PluginsAssumption
    <3>3. sched' \in [Scheds -> SchedType] /\ \A i \in Scheds : sched'[i].quit
      BY <3>1, EndedIs
    <3> QED
      BY <1>4, <3>1, <3>2, <3>3
  <2> QED
    BY <1>11, <2>1, SyncSound
<1>12. ASSUME NEW i \in Scheds, Schedule(i) PROVE PluginsSound'
  <2>1. ASSUME NEW r \in SchedType, Doing(i, sched[i].doing, r),
               \/ sched[i].quit /\ r.quit
               \/ r.key = sched[i].key /\ r.mtime = sched[i].mtime /\ r.quit = sched[i].quit /\ r.doing # "ended"
        PROVE  PluginsSound'
    <3>1. sched' = [sched EXCEPT ![i] = r] /\ UNCHANGED <<disk, found, asleep, Plugins, PluginsWithScheduler, lag>>
      BY <2>1 DEF Doing
    <3>2. sched' \in [Scheds -> SchedType]
      BY <1>1, <3>1
    <3>3. sched'[i] = r /\ \A j \in Scheds \ {i} : sched'[j] = sched[j]
      BY <1>1, <3>1
    <3>4. SchedulersMatch'
      <4>1. ASSUME NEW k \in DOMAIN Plugins
            PROVE  LET s == sched'[PluginsWithScheduler[k]] IN s.key = k /\ s.mtime = Plugins[k] /\ ~s.quit /\ s.doing # "ended"
        <5> DEFINE j == PluginsWithScheduler[k]
        <5>1. j \in Scheds /\ sched[j].key = k /\ sched[j].mtime = Plugins[k] /\ ~sched[j].quit /\ sched[j].doing # "ended"
          BY <1>1 DEF SchedulersMatch
        <5> HIDE DEF j
        <5> QED
          BY <2>1, <3>3, <5>1 DEF j
      <4>2. ASSUME NEW j \in Scheds, ~sched'[j].quit
            PROVE  sched'[j].key \in DOMAIN Plugins /\ PluginsWithScheduler[sched'[j].key] = j
        <5>1. ~sched[j].quit /\ sched'[j].key = sched[j].key
          BY <2>1, <3>3, <4>2
        <5> QED
          BY <1>1, <5>1 DEF SchedulersMatch
      <4> QED
        BY <1>1, <3>1, <4>1, <4>2 DEF SchedulersMatch
    <3> QED
      BY <1>3, <3>1, <3>2, <3>4
  <2>2. sched[i] \in SchedType
    BY <1>1
  <2>3. CASE PluginRunEnds(i)
    <3>1. sched[i].doing = "run" /\ Doing(i, sched[i].doing, [sched[i] EXCEPT !.doing = "wait"])
      BY <2>3 DEF PluginRunEnds, Doing
    <3> DEFINE r == [sched[i] EXCEPT !.doing = "wait"]
    <3>2. r \in SchedType /\ r.key = sched[i].key /\ r.mtime = sched[i].mtime /\ r.quit = sched[i].quit /\ r.doing = "wait"
      BY <2>2, SchedDoes
    <3> HIDE DEF r
    <3>3. Doing(i, sched[i].doing, r)
      BY <3>1 DEF r
    <3> QED
      BY <2>1, <3>2, <3>3
  <2>4. CASE Quit(i)
    <3>1. sched[i].quit /\ Doing(i, sched[i].doing, Ended)
      BY <2>4 DEF Quit, Doing
    <3> QED
      BY <2>1, <3>1, EndedIs
  <2>5. CASE Tick(i)
    <3>1. sched[i].doing = "wait" /\ Doing(i, sched[i].doing, [sched[i] EXCEPT !.doing = "run"])
      BY <2>5 DEF Tick, Doing
    <3> DEFINE r == [sched[i] EXCEPT !.doing = "run"]
    <3>2. r \in SchedType /\ r.key = sched[i].key /\ r.mtime = sched[i].mtime /\ r.quit = sched[i].quit /\ r.doing = "run"
      BY <2>2, SchedDoes
    <3> HIDE DEF r
    <3>3. Doing(i, sched[i].doing, r)
      BY <3>1 DEF r
    <3> QED
      BY <2>1, <3>2, <3>3
  <2> QED
    BY <1>12, <2>3, <2>4, <2>5 DEF Schedule
<1>13. CASE UNCHANGED pvars
  BY <1>1, <1>2, <1>13 DEF pvars, table
<1> QED
  BY <1>6, <1>7, <1>8, <1>9, <1>10, <1>11, <1>12, <1>13 DEF PluginsNext

-----------------------------------------------------------------------------
(* The types of the heartbeats and the reports *)

\* What an agent watches, and the checksum it has, are of metrics hbs has had.
Watching ==
    /\ metrics \subseteq Targets /\ watched \subseteq Targets /\ checksum \in {Nil} \cup SUBSET Targets
    /\ offline \in 0..MaxOffline

\* An agent starts without metrics.
LEMMA WatchingInit == HeartbeatInit => Watching
BY BeatBounds DEF HeartbeatInit, Watching

\* Every answer, and every change at hbs, is of metrics there are.
LEMMA WatchingStep == Watching /\ [BeatNext \/ ReportNext]_bvars => Watching'
<1> SUFFICES ASSUME Watching, [BeatNext \/ ReportNext]_bvars PROVE Watching'
  OBVIOUS
<1> USE DEF beat, report
<1>1. CASE Rebind
  BY <1>1 DEF Rebind, Watching
<1>2. CASE Elapse
  BY <1>2, BeatBounds DEF Elapse, Watching
<1>3. CASE Heartbeat \/ HeartbeatError
  <2>1. ASSUME NEW ok \in BOOLEAN, Answered(BuiltinMetrics(ok)) PROVE Watching'
    <3>1. metrics' = metrics /\ offline' = 0
          /\ \/ checksum' = BuiltinMetrics(ok).checksum /\ watched' = BuiltinMetrics(ok).metrics
             \/ UNCHANGED <<checksum, watched>>
      BY <2>1 DEF Answered
    <3>2. BuiltinMetrics(ok).checksum \in SUBSET Targets /\ BuiltinMetrics(ok).metrics \in SUBSET Targets
      BY DEF BuiltinMetrics, Watching
    <3> QED
      BY <3>1, <3>2, BeatBounds DEF Watching
  <2> QED
    BY <1>3, <2>1 DEF Heartbeat, HeartbeatError
<1>4. CASE AskReboot \/ Asked \/ \E wanted \in BOOLEAN : SetOfflineReboot(wanted)
  BY <1>4 DEF AskReboot, Asked, SetOfflineReboot, Watching
<1>5. CASE ReportNext
  BY <1>5 DEF ReportNext, Upgrade, ReportStatus, ReportTimesOut, Forget, ReportLost, Put, PutReads,
     UpdateAgent, PutWrites, Watching
<1>6. CASE UNCHANGED bvars
  BY <1>6 DEF bvars, Watching
<1> QED
  BY <1>1, <1>2, <1>3, <1>4, <1>5, <1>6 DEF BeatNext

\* src/agent/plugins, src/agent/cron, src/gateway/sender: every plugin has the one
\* scheduler it was started with, whatever pulls, bindings and answers do, the slots of
\* the gateway's hosts match its calls, and all the state has its types.
THEOREM TablesStayMatched == Spec => []TablesMatch
<1>1. MCInit => PluginsSound /\ Watching /\ Armed /\ RowSound /\ Pushed /\ Accountable
  BY PluginsInitSound, WatchingInit, ArmedInit, RowInit, PushedInit, AccountableInit DEF MCInit
<1>2. PluginsSound /\ Watching /\ Armed /\ RowSound /\ Pushed /\ Accountable => TablesMatch
  <2> SUFFICES ASSUME PluginsSound, Watching, Armed, RowSound, Pushed, Accountable PROVE TablesMatch
    OBVIOUS
  <2>1. marks \in 0..MaxEvents + 1
    BY BeatBounds DEF Armed
  <2>2. HeartbeatTypeOK
    BY <2>1 DEF HeartbeatTypeOK, Watching, RowSound, ReportTyped
  <2>3. GatewayTypeOK /\ SlotsMatch
    BY SlotsKept
  <2> QED
    BY <2>2, <2>3 DEF TablesMatch, TypeOK, PluginsSound, Pushed
<1> QED
  BY <1>1, <1>2, PluginsStep, WatchingStep, ArmedStep, RowStep, PushedStep, AccountableStep, PartSteps, SpecSteps, PTL
=============================================================================
