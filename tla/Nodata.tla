------------------------------- MODULE Nodata -------------------------------
(* nodata: collecting the last point of every series that has a rule, judging   *)
(* which have no data, and sending the mock of those to transfer (src/nodata/    *)
(* collector, judge, sender).  Time is in units of 20 seconds: the collector    *)
(* starts every unit, the judge every minute.  A cron starts no second run of    *)
(* itself; the debug pages start a collection or a sending beside it.            *)
EXTENDS NodataConfig

CONSTANTS
    Step,          \* the step of every series, in units
    Delay,         \* units by which a run of the judge may start late
    Threshold,     \* the percentage of sender.block.threshold
    Sources,       \* the series that some source reports
    MaxNow         \* bound: the clock

ASSUME UnitsAreThirds ==
    Step \in 3..MaxNow /\ Step % 3 = 0 /\ Delay \in {0, 1} /\ Sources \subseteq Series

VARIABLES
    now,
    reported,      \* series -> time of the newest point its source sent
    newest,        \* series -> the newest point graph has: [ts, value, by]
    ItemMap,       \* series -> the item collected last: [ts, value, fts]
    pend,          \* collector -> the answer it waits for or has not stored yet
    collectAt,     \* units at which the cron's collection is still to start
    judgeAt,       \* the minute whose judgement is still to start
    StatusMap,     \* series -> [status, ts] since the first judgement
    MockMap,       \* series -> timestamp of the mock to be sent
    asked,         \* whether a run of SendMockOnce is still to start
    send,          \* the run of sendMock: what it does next and the mocks it took
    calm           \* history: units in which nothing disturbed the series
tvars == <<now, reported, newest, ItemMap, pend, collectAt, judgeAt, StatusMap, MockMap, asked, send,
           calm>>

Collectors == {"cron", "page"}
NoPoint == [ts |-> 0, value |-> "none", by |-> "none"]
NoItem == [ts |-> 0, value |-> "none", fts |-> 0]
Idle == [at |-> "idle", mocks |-> << >>]
Keys == DOMAIN NdConfigMap

NodataTypeOK ==
    /\ now \in 0..MaxNow
    /\ \A k \in Series : reported[k] \in 0..now /\ newest[k].ts \in 0..now /\ ItemMap[k].fts \in 0..now
    /\ DOMAIN MockMap \subseteq Series
    /\ send.at \in {"idle", "clear", "post"}

Disturbed(k) == calm' = [calm EXCEPT ![k] = 0]
AllDisturbed == calm' = [k \in Series |-> 0]

----------------------------------------------------------------------------
\* External: the source of a series sends the point of its period, with the mock's
\* value or another, before the period is over; graph takes a point when it is
\* newer than the newest it has.
TakePoint(k, ts, value, by) ==
    newest' = [newest EXCEPT ![k] = IF ts > @.ts THEN [ts |-> ts, value |-> value, by |-> by] ELSE @]

Report(k, value) ==
    LET ts == now - (now % Step)
    IN  /\ ts > reported[k]
        /\ reported' = [reported EXCEPT ![k] = ts]
        /\ TakePoint(k, ts, value, "source")
        /\ Disturbed(k)
        /\ UNCHANGED <<now, ItemMap, pend, collectAt, judgeAt, StatusMap, MockMap, asked, send, nvars>>

----------------------------------------------------------------------------
\* collector_cron.go: ask for the last point of every key, and store what comes
\* back with the time it came.  An error stores nothing.
CollectDataOnce(c) ==
    /\ pend[c] = << >>
    /\ c = "cron" => collectAt = now
    /\ c = "page" => Edit
    /\ c = "cron" => UNCHANGED edits
    /\ collectAt' = IF c = "cron" THEN 0 ELSE collectAt
    /\ pend' = [pend EXCEPT ![c] = [k \in {k \in Keys : newest[k].ts > 0} |-> newest[k]]]
    /\ UNCHANGED <<now, reported, newest, ItemMap, judgeAt, StatusMap, MockMap, asked, send, calm,
                   mockcfg, rows, away, NdConfigMap, faults>>

FetchItemsAndStore(c) ==
    /\ pend[c] # << >>
    /\ ItemMap' = [k \in Series |->
                     IF k \in DOMAIN pend[c]
                     THEN [ts |-> pend[c][k].ts, value |-> pend[c][k].value, fts |-> now]
                     ELSE ItemMap[k]]
    /\ pend' = [pend EXCEPT ![c] = << >>]
    /\ UNCHANGED <<now, reported, newest, collectAt, judgeAt, StatusMap, MockMap, asked, send, calm, nvars>>

QueryLastPointsFails(c) ==
    /\ Fault
    /\ pend[c] # << >>
    /\ pend' = [pend EXCEPT ![c] = << >>]
    /\ AllDisturbed
    /\ UNCHANGED <<now, reported, newest, ItemMap, collectAt, judgeAt, StatusMap, MockMap, asked, send,
                   mockcfg, rows, away, NdConfigMap, edits>>

----------------------------------------------------------------------------
\* judge_cron.go: a series whose item was collected lately has no data when the
\* value is the mock or the item is old; a mock is made at most once a step.
GetTimeout == IF Step < 3 THEN 9 ELSE Step * 3
\* Mutant: mocks are not moved back.
GenTsOfNow == now - (now % Step)
GenTs == now - (now % Step) - 2 * Step

Fetched(k) == ItemMap[k].fts > 0 /\ ItemMap[k].fts >= now - GetTimeout
Silent(k) == ItemMap[k].value = "mock" \/ ItemMap[k].ts < now - GetTimeout

Judged == {k \in Keys : Fetched(k)}
LastTs(k) == StatusMap[k].ts
\* Mutant: the timeout is waited for again after each mock.
TurnsNodataPerTimeout == {k \in Judged : Silent(k) /\ LastTs(k) + GetTimeout <= now}
TurnsNodata == {k \in Judged : Silent(k) /\ LastTs(k) + Step <= now}
TurnsOk == {k \in Judged : ~Silent(k)}

Judge ==
    /\ judgeAt > 0
    /\ judgeAt' = 0
    /\ StatusMap' = [k \in Series |->
                       CASE k \in TurnsNodata -> [status |-> "NODATA", ts |-> now]
                         [] k \in TurnsOk     -> [status |-> "OK", ts |-> now]
                         [] OTHER             -> StatusMap[k]]
    /\ MockMap' = [k \in DOMAIN MockMap \cup TurnsNodata |->
                     IF k \in TurnsNodata THEN GenTs ELSE MockMap[k]]
    /\ asked' = TRUE
    /\ UNCHANGED <<now, reported, newest, ItemMap, pend, collectAt, send, calm, nvars>>

----------------------------------------------------------------------------
\* sender.go: one run at a time copies the map, clears it and posts what it copied.
\* One that finds another at work gives up.
SendMock == send' = [at |-> "clear", mocks |-> MockMap]

SendMockOnce ==
    /\ asked
    /\ asked' = FALSE
    /\ IF send.at = "idle" THEN SendMock /\ UNCHANGED calm ELSE UNCHANGED send /\ AllDisturbed
    /\ UNCHANGED <<now, reported, newest, ItemMap, pend, collectAt, judgeAt, StatusMap, MockMap, nvars>>

SendMockPage ==
    /\ Edit
    /\ send.at = "idle"
    /\ SendMock
    /\ UNCHANGED <<now, reported, newest, ItemMap, pend, collectAt, judgeAt, StatusMap, MockMap, asked, calm,
                   mockcfg, rows, away, NdConfigMap, faults>>

ClearMocks ==
    /\ send.at = "clear"
    /\ send' = [send EXCEPT !.at = "post"]
    /\ MockMap' = << >>
    /\ calm' = [k \in Series |->
                  IF k \in DOMAIN MockMap /\ (k \notin DOMAIN send.mocks \/ send.mocks[k] # MockMap[k])
                  THEN 0 ELSE calm[k]]
    /\ UNCHANGED <<now, reported, newest, ItemMap, pend, collectAt, judgeAt, StatusMap, asked, nvars>>

SendItemsToTransfer ==
    /\ send.at = "post"
    /\ send' = Idle
    /\ newest' = [k \in Series |->
                    IF k \in DOMAIN send.mocks /\ send.mocks[k] > newest[k].ts
                    THEN [ts |-> send.mocks[k], value |-> "mock", by |-> "nodata"] ELSE newest[k]]
    /\ UNCHANGED <<now, reported, ItemMap, pend, collectAt, judgeAt, StatusMap, MockMap, asked, calm, nvars>>

SendItemsFails ==
    /\ Fault
    /\ send.at = "post"
    /\ send' = Idle
    /\ AllDisturbed
    /\ UNCHANGED <<now, reported, newest, ItemMap, pend, collectAt, judgeAt, StatusMap, MockMap, asked,
                   mockcfg, rows, away, NdConfigMap, edits>>

----------------------------------------------------------------------------
\* Rules change, or are lost for a while; nodata is started again, with nothing in
\* its maps; and a unit of time passes once what was due is done: a call times out
\* long before the next unit.
Configure ==
    /\ NdConfigMap = << >>
    /\ SyncNdConfig
    /\ UNCHANGED tvars

ConfigLost ==
    /\ \E lost \in SUBSET Groups : SyncNdConfigFails(lost)
    /\ AllDisturbed
    /\ UNCHANGED <<now, reported, newest, ItemMap, pend, collectAt, judgeAt, StatusMap, MockMap, asked, send>>

Restart ==
    /\ Fault
    /\ ItemMap' = [k \in Series |-> NoItem]
    /\ pend' = [c \in Collectors |-> << >>]
    /\ StatusMap' = [k \in Series |-> [status |-> "none", ts |-> 0]]
    /\ MockMap' = << >>
    /\ asked' = FALSE
    /\ send' = Idle
    /\ NdConfigMap' = << >>
    /\ AllDisturbed
    /\ UNCHANGED <<now, reported, newest, collectAt, judgeAt, mockcfg, rows, away, edits>>

Tick ==
    /\ now < MaxNow
    /\ collectAt = 0
    /\ \A c \in Collectors : pend[c] = << >>
    /\ send.at = "idle"
    /\ ~asked
    /\ judgeAt > 0 => now < judgeAt + Delay
    /\ now' = now + 1
    /\ collectAt' = now'
    /\ judgeAt' = IF now' % 3 = 0 THEN now' ELSE judgeAt
    /\ calm' = [k \in Series |-> IF k \in Keys THEN calm[k] + 1 ELSE 0]
    /\ UNCHANGED <<reported, newest, ItemMap, pend, StatusMap, MockMap, asked, send, nvars>>

----------------------------------------------------------------------------
NodataInit ==
    /\ now = Step
    /\ reported = [k \in Series |-> 0]
    /\ newest = [k \in Series |-> NoPoint]
    /\ ItemMap = [k \in Series |-> NoItem]
    /\ pend = [c \in Collectors |-> << >>]
    /\ collectAt = 0
    /\ judgeAt = 0
    /\ StatusMap = [k \in Series |-> [status |-> "none", ts |-> 0]]
    /\ MockMap = << >>
    /\ asked = FALSE
    /\ send = Idle
    /\ calm = [k \in Series |-> 0]

NodataNext ==
    \/ \E k \in Sources, value \in {"mock", "data"} : Report(k, value)
    \/ \E c \in Collectors : CollectDataOnce(c) \/ FetchItemsAndStore(c) \/ QueryLastPointsFails(c)
    \/ Judge
    \/ SendMockOnce \/ SendMockPage \/ ClearMocks \/ SendItemsToTransfer \/ SendItemsFails
    \/ Configure \/ ConfigLost \/ Restart
    \/ Tick

----------------------------------------------------------------------------
\* "The mock's time is moved back by more than a period, so that it does not cover
\* normal values" (judge_cron.go:102): whatever was collected late or not at all,
\* graph's newest point of a series is a mock only when the source has missed two
\* whole periods, so a source that reports within its period is never shut out.
MockFillsSilence ==
    \A k \in Series : newest[k].by = "nodata" =>
        reported[k] < newest[k].ts /\ reported[k] + 3 * Step <= now

\* The rule of a silent series is kept up: when nothing has disturbed it for the
\* timeout and two steps, graph has a mock of it, and never one older than four
\* steps and the delay of a judgement.
SilenceShows ==
    \A k \in Series : (newest[k].ts > 0 /\ calm[k] >= GetTimeout + 2 * Step) =>
        newest[k].by = "nodata" /\ now - newest[k].ts <= 4 * Step + Delay

\* "If the abnormal percentage exceeds the blocking threshold, nodata stops sending
\* mock data" (src/nodata/README.md:141).
NodataBlocks ==
    send.at = "post" /\ send.mocks # << >> =>
        Cardinality({k \in Keys : StatusMap[k].status = "NODATA"}) * 100 <= Threshold * Cardinality(Keys)
=============================================================================
