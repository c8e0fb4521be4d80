--------------------------- MODULE AgentHeartbeat ---------------------------
(* The heartbeats of an agent: the builtin metrics it asks hbs for and the     *)
(* reboot it asks android for when no answer comes; and its reports, which hbs *)
(* keeps in a cache and in the table host.                                     *)
EXTENDS Naturals, FiniteSets

CONSTANTS
    Targets,       \* builtin metrics: ports, urls, processes, directories
    Nil,           \* the checksum of an agent that had no answer yet
    OfflineBaseTimeout,
    OfflineRebootInterval,
    Times,         \* which reboot of the day this may be: currentRebootTimes
    MaxOffline,    \* seconds without an answer that are counted
    MaxEvents,     \* changes from outside and failures
    MaxPuts        \* reports on their way or in hbs at the same time

ASSUME TimeoutsAssumption == OfflineBaseTimeout \in Nat /\ OfflineRebootInterval \in Nat
ASSUME BeatBounds == MaxOffline \in Nat /\ MaxEvents \in Nat

VARIABLES
    metrics,       \* the builtin metrics hbs has for the host
    events,
    timestamp,     \* of the last answer taken: "none", "error", or whether it is
                   \* still that of the current second: "now", "past"
    checksum, watched,
    offline,       \* seconds since the last answer, MaxOffline if there was none
    bOfflineReboot, currentRebootTimes, bootUp, \* set by android
    asking,        \* whether the loop is in android's callback
    armed,         \* whether android wants to be asked, whatever the agent made of it
    crossed,       \* whether android set the flag while the loop was in the callback
    marks,         \* answers after which offline.reboot was sent
    version,       \* what the agent reports now
    puts,          \* reports: version, whether the agent waits for it, and how far hbs is
    cached,        \* the report in the cache of hbs, 0 for none
    row,           \* the row of the host
    unlucky        \* whether two writes of the row overlapped, or one failed

beat   == <<metrics, timestamp, checksum, watched, offline, bOfflineReboot,
            currentRebootTimes, bootUp, asking, armed, crossed, marks>>
report == <<version, puts, cached, row, unlucky>>
bvars  == <<beat, report, events>>

Event == events < MaxEvents /\ events' = events + 1

HeartbeatTypeOK ==
    /\ metrics \subseteq Targets /\ watched \subseteq Targets
    /\ checksum \in {Nil} \cup SUBSET Targets
    /\ offline \in 0..MaxOffline /\ marks \in 0..MaxEvents + 1
    /\ puts \subseteq [version : 1..MaxEvents + 1, waits : BOOLEAN, at : {"sent", "differs", "same"}]
    /\ cached \in 0..MaxEvents + 1 /\ row \in 0..MaxEvents + 1

HeartbeatInit ==
    /\ metrics \in SUBSET Targets /\ events = 0
    /\ timestamp = "none" /\ checksum = Nil /\ watched = {} /\ offline = MaxOffline
    /\ bOfflineReboot = FALSE /\ currentRebootTimes \in Times /\ bootUp = TRUE
    /\ asking = FALSE /\ armed = FALSE /\ crossed = FALSE /\ marks = 0
    /\ version = 1 /\ puts = {} /\ cached = 0 /\ row = 0 /\ unlucky = FALSE

(**************************** around the agent ****************************)
Rebind ==
    /\ Event /\ metrics' \in SUBSET Targets \ {metrics}
    /\ UNCHANGED <<timestamp, checksum, watched, offline, bOfflineReboot, currentRebootTimes,
                   bootUp, asking, armed, crossed, marks, report>>
Elapse ==
    /\ timestamp' = IF timestamp = "now" THEN "past" ELSE timestamp
    /\ offline' = IF offline < MaxOffline THEN offline + 1 ELSE offline
    /\ UNCHANGED <<metrics, checksum, watched, bOfflineReboot, currentRebootTimes, bootUp,
                   asking, armed, crossed, marks, report, events>>
SetOfflineReboot(wanted) ==
    /\ Event /\ bOfflineReboot' = wanted /\ armed' = wanted
    /\ crossed' = (crossed \/ asking)
    /\ UNCHANGED <<metrics, timestamp, checksum, watched, offline, currentRebootTimes, bootUp,
                   asking, marks, report>>

(**************************** syncBuiltinMetrics ****************************)
\* hbs sends no metrics to an agent that has their checksum; the checksum of no
\* metrics is empty, and so is the whole answer when the query fails.
BuiltinMetrics(ok) ==
    [timestamp |-> IF ok THEN "now" ELSE "error",
     checksum  |-> IF ok THEN metrics ELSE {},
     metrics   |-> IF ok /\ checksum # metrics THEN metrics ELSE {}]

\* An answer counts if it is newer, and an answer without a time (0) before any.
Newer(resp) == timestamp = "none" \/ (resp.timestamp = "now" /\ timestamp # "now")

\* Mutant: an answer without metrics is taken like any other.
TakesAny(resp) == Newer(resp)

Takes(resp) == Newer(resp) /\ resp.checksum # checksum

Answered(resp) ==
    /\ ~asking /\ offline' = 0
    /\ marks' = IF bootUp THEN marks + 1 ELSE marks
    /\ bootUp' = FALSE
    /\ IF Takes(resp)
       THEN timestamp' = resp.timestamp /\ checksum' = resp.checksum /\ watched' = resp.metrics
       ELSE UNCHANGED <<timestamp, checksum, watched>>
    /\ UNCHANGED <<metrics, bOfflineReboot, currentRebootTimes, asking, armed, crossed, report>>
Heartbeat      == Answered(BuiltinMetrics(TRUE)) /\ UNCHANGED events
HeartbeatError == Event /\ Answered(BuiltinMetrics(FALSE))

Timeout == OfflineBaseTimeout + currentRebootTimes * OfflineRebootInterval
\* Without an answer since the start the time of the last one is 0, long ago.
OfflineTooLong == offline = MaxOffline \/ offline + OfflineRebootInterval > Timeout

\* The call fails.
AskReboot ==
    /\ ~asking /\ bOfflineReboot /\ OfflineTooLong
    /\ asking' = TRUE /\ armed' = FALSE
    /\ UNCHANGED <<metrics, timestamp, checksum, watched, offline, bOfflineReboot,
                   currentRebootTimes, bootUp, crossed, marks, report, events>>
\* Mutant: the flag is not cleared after the callback.
AskedAgain ==
    /\ asking /\ asking' = FALSE
    /\ UNCHANGED <<metrics, timestamp, checksum, watched, offline, bOfflineReboot,
                   currentRebootTimes, bootUp, armed, crossed, marks, report, events>>

Asked ==
    /\ asking /\ asking' = FALSE /\ bOfflineReboot' = FALSE
    /\ UNCHANGED <<metrics, timestamp, checksum, watched, offline, currentRebootTimes, bootUp,
                   armed, crossed, marks, report, events>>

(***************************** reportAgentStatus *****************************)
Upgrade ==
    /\ Event /\ version' = version + 1
    /\ UNCHANGED <<beat, puts, cached, row, unlucky>>

\* One call at a time; one that timed out may still be handled.
ReportStatus ==
    /\ \A p \in puts : ~p.waits
    /\ Cardinality(puts) < MaxPuts
    /\ puts' = puts \cup {[version |-> version, waits |-> TRUE, at |-> "sent"]}
    /\ UNCHANGED <<beat, version, cached, row, unlucky, events>>
ReportTimesOut ==
    /\ Event
    /\ \E p \in puts : p.waits /\ puts' = (puts \ {p}) \cup {[p EXCEPT !.waits = FALSE]}
    /\ UNCHANGED <<beat, version, cached, row, unlucky>>
ReportLost(p) ==
    /\ p.at = "sent" /\ ~p.waits /\ puts' = puts \ {p}
    /\ UNCHANGED <<beat, version, cached, row, unlucky, events>>

\* Mutant: a host that is known is not written again.
PutReadsKnown(p) ==
    /\ p.at = "sent"
    /\ puts' = (puts \ {p}) \cup {[p EXCEPT !.at = IF cached # 0 THEN "same" ELSE "differs"]}
    /\ unlucky' = (unlucky \/ \E q \in puts : q.at # "sent")
    /\ UNCHANGED <<beat, version, cached, row, events>>

\* Put reads the cache, writes the row if the report differs, then the cache,
\* each under a lock of its own.
PutReads(p) ==
    /\ p.at = "sent"
    /\ puts' = (puts \ {p}) \cup {[p EXCEPT !.at = IF cached = p.version THEN "same" ELSE "differs"]}
    /\ unlucky' = (unlucky \/ \E q \in puts : q.at # "sent")
    /\ UNCHANGED <<beat, version, cached, row, events>>
\* An error of MySQL is logged only.
UpdateAgent(p) ==
    /\ p.at = "differs"
    /\ puts' = (puts \ {p}) \cup {[p EXCEPT !.at = "same"]}
    /\ \/ row' = p.version /\ UNCHANGED <<unlucky, events>>
       \/ Event /\ UNCHANGED row /\ unlucky' = TRUE
    /\ UNCHANGED <<beat, version, cached>>
PutWrites(p) ==
    /\ p.at = "same" /\ puts' = puts \ {p} /\ cached' = p.version
    /\ UNCHANGED <<beat, version, row, unlucky, events>>
\* hbs starts again, or the host did not report for a day.
Forget ==
    /\ Event /\ cached # 0 /\ cached' = 0 /\ puts' = {}
    /\ UNCHANGED <<beat, version, row, unlucky>>

Put(p) == PutReads(p) \/ UpdateAgent(p) \/ PutWrites(p)
BeatNext ==
    \/ Rebind \/ Elapse \/ Heartbeat \/ HeartbeatError \/ AskReboot \/ Asked
    \/ \E wanted \in BOOLEAN : SetOfflineReboot(wanted)
ReportNext ==
    \/ Upgrade \/ ReportStatus \/ ReportTimesOut \/ Forget
    \/ \E p \in puts : ReportLost(p) \/ Put(p)

-----------------------------------------------------------------------------
\* Android is asked to reboot once for each time it said it may be, and what it
\* said last counts, unless it spoke while it was being asked.
ArmingKept ==
    /\ ~asking => bOfflineReboot = armed \/ crossed
    /\ marks <= 1

\* What the row of a host says is what hbs has cached, which it compares the next
\* report with, unless two reports of different contents crossed or the write failed.
RowAsCached == cached # 0 /\ puts = {} => row = cached \/ unlucky
=============================================================================
