# Falcon in TLA+

Modules that model the core of this monitoring system, TLC configurations that
check them on small instances, and theorems about them that TLAPS checks. Paths
such as `judge/store/judge.go` are relative to `src/`. `PROJECT.json` maps every
definition to the lines it models and lists the hazards, runs, mutants, findings
and theorems.

- [The system](#the-system)
- [Modules and the code they model](#modules-and-the-code-they-model)
- [Runs](#runs)
- [Findings](#findings)
- [Proofs](#proofs)
- [What only TLC checks](#what-only-tlc-checks)
- [What is not modelled](#what-is-not-modelled)
- [Plan](#plan)

## The system

```
 agent --push--> [gateway] --> transfer --points--> graph  <--query-- api, nodata, aggregator
   |                              |  \---points---> tsdb
   | heartbeat                    \------points---> judge --events--> redis --> alarm --> users
   v                                                  ^                           |  \--> MySQL
  hbs <--tables-- MySQL <--- api                      |                           v
   \-----------strategies, expressions----------------/                      falcon-message
```

Every box is a process with in-memory state; MySQL, redis and the rrd files are
the only things that survive an exit. Calls between boxes are JSON-RPC or HTTP
with timeouts, so a call that failed for its caller may have been handled.

| Component | State it keeps | Operations | What is hard | What makes it correct |
|---|---|---|---|---|
| **judge** | per series a list of points; `LastEvents`; strategies and expressions from hbs | `Judge.Send` per request, in a goroutine; `SyncStrategies`; `CleanStale` | several requests for one series; walks without a lock; a redis error nobody looks at; restarts | alarms come in numbered episodes, none past `maxStep`; a window is a gapless run; what redis was told is what the judge believes |
| **transfer** | a bounded queue per destination, calls in flight | `RecvMetricValues`, the telnet socket; one forward task per destination | slow, failing, or late destinations; full queues; restarts | every copy of an item is in one place and counted once; one destination does not hold up another; *sent* means handled |
| **graph** | per series a list with a flag, an rrd file, an index in memory and MySQL | `Graph.Send`, `Query`, `syncDisk`, net workers that take files over from an old node | two goroutines making a list; flags read and written back around calls; exits | points leave memory, in order; none vanishes unnoticed; a query has one value per step |
| **alarm** | queues in redis, cases and events in MySQL, caches of actions and users | two readers, three combiners, three senders; notes through api | each event is written to four places with failures between; restarts; concurrent readers and notes | no user is told twice; what a user is not told was lost to a failure; a new event reopens a closed case |
| **hbs** | copies of the portal's tables, agents | `LoopInit`, `GetStrategies`, `GetExpressions`, agent reports | tables of different moments; a reload that fails | judge gets the strategies of some committed state, with inheritance and overriding |
| **agent** | last answers of hbs, plugin tables, cpu and disk samples, reboot counters | heartbeat loops, collectors, plugin scheduler, push | answers that fail, repeat or change; one connection shared by timed-out calls | wanted plugins run, others stop; a reboot only after the time offline |
| **nodata** | last items, status per series, `MockMap` | collect, judge, send | its own mocks come back as values; a map copied and then cleared | a mock for each period without data and none with data |
| **aggregator** | a table of workers against the rows of `cluster` | update, tick | a dropped worker's last tick | one worker per row, a value from one moment |
| **gateway** | one queue, calls per host | receive, forward | counters shared by goroutines; all hosts busy | a batch is sent once or counted as failed |
| **api** | rows of users, teams, templates, strategies, host groups, cases | HTTP handlers, several tables per request | one of several writes fails; two requests at once | rows refer to rows that exist; a request happens wholly or not at all |
| **falcon-message, dinghook** | a token; queues per robot | forward messages to chat services | rate limits | no message above the rate, none lost in the queue |

Interactions that matter most: transfer to judge and graph (at-least-once tries
over timeouts, and a concurrent order of batches), judge to alarm (redis lists,
no acknowledgement), api to hbs to judge (polled copies), graph to old graph
(files fetched while points still arrive).

## Modules and the code they model

### Judge

- **JudgeFunc** - operators: `HistoryData`, `IsEnough`, every `Compute` of
  `judge/store/func.go` except stddev, on a sequence of points, newest first.
  Values are exact fractions, since the code's floats are compared, not printed.
- **JudgeEvents** - `Judge.Send` for one series. A sender is one goroutine; `pc`
  is its place. An action ends where another goroutine can run: at the push on
  the list (`Receive`), the read of `LastEvents` (`GetLastEvent`), its write
  (`SendEvent`) and the `LPUSH` (`Publish`). `Decision` is `sendEventIfNeed` with
  its early returns. `SyncStrategies`, `SyncExpression`, `SyncFilter` are the
  three steps of the sync loop; since a failed call leaves what was there, each
  may yield any subset of the rules. `Restart` keeps redis only.
- **AlarmEpisode** - the abstract promise: raise, repeat with the next number,
  recover, and forget on a restart. `JudgeEvents` implements it with the step of
  the open event in `last` as the number of alarms.
- **JudgeHistory** - one key of the map with its lists: creation by two senders,
  pushes and trims under the lock, `HistoryData`'s walk without one, `CleanStale`
  in its two steps, the nil dereference that ends the process. `JudgeEvents`
  takes the walk as one step; this module takes it apart.

### Transfer and gateway

- **TransferItem** - which values `RecvMetricValues` and the telnet socket refuse
  and what they make of the rest; `alignTs`; the judge and the graph item.
- **GatewayItem** - the same for a gateway, which also takes tags apart, and what
  `convert` makes of an item for the call to transfer.
- **TransferSend** - one key of the hash rings. `Recv` begins a request, `Push`
  is one push on one bounded queue, `PopBackBy` and `StartCall` are a forward
  task, and `CallOk`, `Retry`, `GiveUp` the goroutine of a call. `Handle` is the
  destination, which may handle a request nobody waits for any more. A judge
  takes a point only when it is newer than all before (`entered`).
- **Gateway** - one queue and one forward task; a goroutine per batch looks for a
  transfer with a free slot (`LookAt`), claims it (`StartCall`), and gives the
  slot back when the call ends. `calling` is the table of counters, `LastRound`
  the end of the tries.
- **DeliveryChannel** - the abstract promise to a destination: an item is dropped
  at once or kept until it is given up or known to be handled, and handled at
  most as often as it is tried. `TransferSend`, `Gateway` and the agent's
  `AgentPush` each implement it under a mapping of their own.

### Graph

- **GraphCache** - one series on a node that takes it over. `First`, `PushFront`
  and `Set` are `handleItems`, split where two goroutines can make a list each.
  `PullByKey`, `CommitByKey`, `SyncFlush` are `syncDisk`; `TakePull` to `Write` a
  net worker's `send_data` and `fetch_rrd`; `Stop`, `StopFlush`, `Exit` the end
  of the process, `Kill` one without a flush. The old node is a set of points and
  answers as the same code would.
- **GraphIndex** - which type and step one series has, in the two caches, in MySQL
  and in the names of its files. `ReceiveItem` and `LookAgain` are the two lookups
  of a point, the second of which may panic; `GetUnIndexed`, `RemoveUnIndexed`
  and a `Writer` the incremental task; `UpdateIndexAll` the full update and the
  index of one item; `DeleteInvalidItems` is `CleanCache`; `DeleteGraphCounter`
  to `DeleteRows` the api's deletion with graph's `RemoveItem` in its two steps.
- **GraphQuery** - `Query` as operators: the timestamps asked for, where the
  file's values end and the cached ones begin, the merge, and `GetLast`.

### Alarm and messages

- **AlarmConsume** - a reader's way with an event: `Pop`, `ReadCase`,
  `WriteCase`, `GetAction`, and then jobs in the order of `consume`: `ParseTeams`,
  `Call`, `Write`, `Split`. A combiner is `PopAllDto` and a `WriteGroup` for each
  key of its map; a consumer `PopAll`, `StartSend`, `EndSend`. Every step that
  calls redis, MySQL, the api or a provider may fail, and then does what the code
  does, which is to log and go on. `Note` is api's `AddNotesToAlarm`. An item of
  `told` and `lost` is one event for one user by one kind of message.
  Queues of messages are sets: their order is lost in Go's maps and goroutines.
- **FalconMessage** - `PostDing` and `PostWechat` are the handler, `DingSend` a
  robot's goroutine, `Card` which parts of a message it needs; `GetAccessToken`
  is the loop that keeps wechat's token, against `Found` in a handler; `Push`,
  `SendQueueMessage` and `BatchEnds` are the DingQueue.

### The portal

- **PortalTables** - the rows that hbs reads and the api's handlers that change
  them. Most handlers are one transaction and one action. A handler that reads
  before its transaction is a request in `flight`, which `Finish` ends later, or
  `Rollback`: `BindHostToHostGroup` and `ReplaceHosts`, `BindTemplateToGroup` and
  `SaveBinding`.
- **HbsCache** - extends it. `Reload` and `ReloadFails` are the steps of
  `LoopInit` in its order; `GetStrategies` is `CalcInheritStrategies`, with
  `UniqueBuckets` and `Winners` for the chains of templates and what the lower
  one overrides; `GetPlugins` and `GetBuiltinMetrics` are the answers to agents.
- **UicAccounts** - users, sessions, teams and members, statement by statement
  where a handler has several, with any two handlers at once. `want`, `crossed`
  and `doubled` are history: what callers were told, and what overlapped.

### Agent

- **AgentPlugins** - `MinePlugins` asks hbs and reads the directories,
  `DelNoUsePlugins` and `AddNewPlugins` change the two tables, a scheduler's
  goroutine selects between its tick and `Quit`. Scripts on disk change beside
  it, and a script that is gone between two looks is the nil panic of
  `plugin.go`.
- **AgentHeartbeat** - the loops that ask hbs for builtin metrics and report the
  agent, the time offline and the reboot callback with the flags android sets,
  and hbs's `Put`, which reads its cache, writes MySQL and writes the cache.
- **AgentPush** - pushers that share one client per address, its map, its lock
  and its connection; a call that timed out goes on in its goroutine.

### Nodata and aggregator

- **NodataConfig** - rows of `mockcfg`, the api's handlers, and `SyncNdConfig`
  with `RowsFor`, which of several rows for a series wins.
- **Nodata** - collection, judgement and sending over time, in units of 20 s, with
  the debug pages that start a second collection or sending beside the cron's,
  and mocks that come back as values (`TakePoint`, `Silent`).
- **Aggregator** - the table of workers against the rows (`UpdateItems`), the
  goroutine of a worker (`Ticks` to `Quits`), and `WorkerRun`, what one run
  computes of the points it can get.

MC modules give constants their values. Components that share no state are
checked in one run: the variable `part`, chosen in `Init`, says which component a
behaviour is about, so that their state spaces add and do not multiply. Each
property of such a run concerns one part and says nothing of the others.
MCFunctions is a specification of its own: its behaviours build one input (a
series, or two accepted values) and its invariants compare the functions of
judge, transfer, gateway and graph on it with what they are meant to compute.

## Runs

Every passing run finishes; state counts are distinct states. Each property has
a mutant in `PROJECT.json`: a change of one mapped definition, as a plausible bug
would make it, under which TLC finds the property violated. The mutated forms
stand before what they change, each under a comment that names the bug.

| Run | Module | States | What it shows |
|---|---|---|---|
| JudgeSerial | MCJudgeEvents | 1,388,510 | One sender, a strategy that may alarm three times beside a muted expression, each kind of metric, rules that come and go, a restart: the list stays in order (`SeriesSound`), redis was told what the judge believes (`PagesAgree`), no alarm past `maxStep` (`StepBound`), repeats only on newer points (`RepeatsOnNewPoints`), and `ImplementsEpisodes`. |
| Functions | MCFunctions | 274,340 | Each function and operator of the judge on each series of up to four points (`FunctionsAgree`); each query over it (`AnswerIsComplete`); each pair of values transfer may accept, also through a gateway (`TimesAgree`); and two senders with `CleanStale` on the lists of a series, where a walk sees a gapless run that covers its own point and meets nil only after more pushes than the list has slack (`WindowSound`). |
| Transfer | MCTransferSend | 177,187 | Single items and batches to a graph address and a judge, with late, lost and doubled calls and a restart: `TypeOK`, each copy in one place and counted once (`Accounted`), what counts as sent to a judge entered its series (`SentEntersSeries`), `ImplementsChannel`, and all that is queued is settled (`Settled`). |
| Graph | MCGraph | 374,892 | *points*: one net worker, failed, late and lost calls, an exit or kill: `NothingVanishes`, `LeavesMemory`. *index*: two types, two writers, two of changes, failures, deletions, updates, restarts: the index is not lost between its caches (`KeepsHold`), and queries come to find the series as it is reported (`IndexFollows`). `CachesSound` is about both. |
| Alarm | MCAlarm | 308,534 | *alarm*: two events, two users, a note, one failure or exit anywhere: `OnePlace`, `CaseIsCurrent`. *ding, wechat, queue*: two messages each; the queue loses nothing and tokens are renewed in time as long as calls succeed (`MessagesSound`). All comes to an end (`Settles`). |
| Portal | MCPortal | 535,080 | *portal*: two requests, overlapping or not, beside the reloads of hbs: no rows left that name nothing (`TablesSound`), answers that make sense at any moment (`AnswersSound`) and agree with the tables in the end (`FollowsTables`). *uic*: three requests, two at once: `TokenIsOwn`, `WritesStay`, `MembersSound`. |
| Edge | MCEdge | 160,681 | *plugins, beat, report*: what the agent runs, watches and asks (`TablesMatch`, `ArmingKept`, `AgentFollows`) and what hbs keeps of its reports (`RowAsCached`). *push, gateway*: `ForwardIsChannel`, `ForwardSettles`. |
| Synthetic | MCSynthetic | 1,300,360 | *rules*: `HostRuleWins`. *pages, faults*: seven steps of a series with debug pages or failures: a mock only for silence (`MockFillsSilence`), and silence is mocked (`SilenceShows`). *workers, run*: `NoWorkerLeaks`, `AggregateSound`. |
| JudgeOverlap, HistoryNil, GraphNewSeries, GraphIndexed | | | Violations, see [Findings](#findings). |

### Bounds, and why they are enough

- *Judge.* Points have timestamps up to 4 and values 0 and 1, the rule compares
  with a threshold between, so every pattern of condition met and not met over a
  window of two appears, with repeats, a recovery and a new episode after it.
  `MaxClock` exceeds `MinInterval` by enough that a repeat is refused and later
  allowed. That redis refuses and that senders race is left to the theorems about
  `SeriesSound` and `StepBound`, which hold for both.
- *History.* A walk of two elements needs one more push per element to slip; four
  timestamps give pushes before, during and after it; two lists give the race of
  two creators and of a creator and `CleanStale`.
- *Functions.* Limits up to 3 over 4 points leave windows smaller than, equal to
  and larger than the series; values are negative, zero and positive; timestamps
  surround 0, multiples of each step and `2 * Now`.
- *Transfer.* Two items fill a queue while a third waits; a batch of two is split
  by a restart; two calls of one item reach the semaphore's limit; two tries are
  the least with a retry. Two of the three items are of a metric that graph is
  not given (`Ignored`).
- *Graph.* Three points and `OldLast = 1` leave two to be sent or flushed, so a
  batch is put back behind one that came since; two pulls fill the channel. Two
  writers and two variants are the least with which an older type may overwrite a
  newer one; with two events a deletion meets an update, a failure or a restart.
- *Alarm.* Two events are the least that combine, that reopen a case, and that
  two readers handle at the same time; two users are the least that could be
  mixed up. The priorities 1 (high), 2 and 4 (low) fall on both sides of the
  limit for sms. Messages before and after a callback are configured off here:
  they use the same `Write` and would only multiply the interleavings.
  In FalconMessage the clock passes the end of a token and the next two calls.
- *Portal.* Two requests are enough for every race of two handlers and for a
  deletion under a request in flight; the start has every kind of row, a chain of
  templates with one key overridden, and a host in two groups. For users three
  requests are needed: a login, a deletion, and a new user of the old name.
  `MaxDepth` is 3 where the code has 10: a chain has at most three templates.
- *Edge.* Two changes let a plugin be unbound and bound again while its scheduler
  still waits; a clock set back makes a script look older than its scheduler;
  three reports of two contents cross in each order. A gateway with one call per
  host and two batches has both hosts busy.
- *Synthetic.* Seven steps (of three units, a minute) are the timeout, the two
  steps after which silence must show, and the same once more after a restart.

Symmetry is used in Functions, which has no temporal property.
`CHECK_DEADLOCK FALSE` is in every configuration because the bounds on arrivals,
requests, clock and events let the system come to rest.

### Fairness

- `TasksFair` (TransferSend): the scheduler runs each task and goroutine and
  `CallTimeout` ends each call. No destination need ever answer.
- `RebalanceFair` (MCGraph): each goroutine goes on, requests on the wire
  are handled in the end. Strong fairness is on two things the code cannot force
  but the documents presuppose: a sweep is not slow every time, and of ever more
  calls of `GetRrd` to a node that has the file some succeed.
- `IndexFair` (MCGraph): points of the series keep coming, and each goroutine and
  task of the index goes on. The full update, which only a page starts, need not
  ever run, and writes may fail as often as `MaxEvents` allows.
- `AlarmFair`, `MessageFair` (MCAlarm): each reader, combiner and consumer goes
  on, and so do the goroutines and the ticker of messages; every call of theirs
  has a timeout. Judge, notes, failures and exits are not fair, and neither are
  the ticks of the loop that keeps the token.
- Portal: `LoopInit` comes round, as its endless loop with a sleep does.
- `PluginsFair`, `HeartbeatFair`, `ReportFair` (MCEdge): the agent's loops go on,
  time passes, and a run of a plugin ends (the code kills it at its timeout).
  Strong fairness of `Quit` says that `select` does not prefer the ticker to the
  quit channel for ever, which Go's random choice provides.
- `ForwardFair` (MCEdge): pushers and forward tasks are scheduled and their
  timeouts fire; the receiving end owes nothing.

## Findings

- **JudgeOverlap** (`judge/store/judge.go:209`): two requests for one series read
  `LastEvents` before either writes it, and alarm on overlapping windows, which
  line 259 rules out.
- **HistoryNil** (`judge/store/linkedlist.go:75`): with `Remain` equal to the
  window, a push during `HistoryData`'s walk removes the element it stands on and
  the walk dereferences nil. `NilOnlyAfterPushes`, a part of `WindowSound`, gives
  the exact slack.
- **GraphNewSeries** (`graph/rrdtool/migrate.go:188`): the error of a remote
  `GetRrd` is never one `os.IsNotExist` recognises, so a series the old node does
  not have is never flushed. The run is Graph with no file on the old node.
- **GraphIndexed** (`graph/index/index.go:52`): line 51 takes a series with an rrd
  file for one that MySQL has. A series' first points may be flushed when graph
  ends before the task has inserted its row, and after the restart the file alone
  makes it indexed; a failed insert, or a deletion that overlaps a writer, leaves
  the same. Only a full update, started by hand, then writes the row.

Two more are stated in the modules but have no run of their own; TLC refutes each
when it replaces the properties of the named run:

- `LimitKept` (FalconMessage, with Alarm): `dinghook/dinghook.go:57` says a limit
  bounds the messages of one sending; the inner loop of lines 143-161 empties the
  channel whatever the limit.
- `NodataBlocks` (Nodata, with Synthetic): line 141 of nodata's README says that
  mocks are blocked when the percentage of failing series exceeds a threshold;
  `nodata/sender/sender.go:82` posts every mock and no code reads `sender.block`.

`LeavesMemory` is also refuted with a second net worker
(`graph/rrdtool/migrate.go:352`: `fetch_rrd` writes back the flag it read before
its calls, so the worker that fails sets MISS again after the other cleared it):
take `Workers = {w1, w2}` in Graph.

Met while modelling, and followed by the modules as the code has it:

- `hbs/rpc/hbs.go:135`: of two equal chains the loop breaks, so a template that
  reaches a host through two groups keeps its parent's chain as well
  (`BoundTwice`); `UpdateTemplate` allows a cycle of parents, which `ParentIds`
  ends after ten.
- api: deleting a host group leaves its rows of `grp_tpl`; an expression that an
  admin deletes leaves its action; deleting a user leaves sessions and
  memberships; a team cannot be emptied; `ChangeRoleOfUser` of an unknown id
  inserts an empty user; one deletion of `hostgroup_controller.go:489` is outside
  the transaction around it.
- agent: a plugin of cycle 0 panics in `NewTicker` (`plugins/scheduler.go:41`); a
  script that goes between two looks is a nil panic; `lastOnlineTime` 0 and
  `currentRebootTimes` 0 shorten the wait for the first reboot; two clients of
  one address may be made at once (`g/transfer.go:36`), the first then leaks.
- hbs: a failed `UpdateAgent` is not tried again until the report changes.
- falcon-message: the token's loop ends for good on its first error; an error
  *answer* is cached as an empty token; a message whose form is not complete is
  still answered ok, since the robots are asked after the answer.
- gateway: telnet lines with a step of 0 or less are queued, sent, and refused by
  transfer, yet count as sent; a NaN ends the json call of a whole batch.
- telnet sockets of transfer (`receiver/socket/socket_telnet.go:92`) and gateway
  (`:90`) call DERIVE the default type of a line that they read as COUNTER.
- nodata: a name of a group with spaces around it is looked up untrimmed; a
  judgement that starts late may pass over one mock (`Delay`).
- aggregator: the key of a worker is the row's id and the *second* of its last
  change; two changes in one second leave the old worker (`unlucky`).
- alarm (`cron/combiner.go:62`): the key of a group is priority, status, address
  and metric run together, so two users' texts may coincide.
- transfer: with `MaxRetry` 0 a batch is taken off the queue and neither sent nor
  counted (`Tries` is at least 1 in TransferSend).
- graph: `CleanCache` drops points not yet flushed of a series whose insert keeps
  failing; two goroutines of one key may leave MySQL with the older type until the
  next change or full update.

## Proofs

Eight modules, one for each specification with theorems, hold the proofs. Every
safety invariant and action property of the passing runs is a theorem for all
values of the constants the modules' assumptions allow. Each theorem has an
inductive invariant of its own, a lemma for each action (or group of actions that
touch the same state) and a lemma for the rest, which says which variables the
invariant reads; the invariants were checked by TLC before they were proved.

Where two variables of state change at once in many ways, the proofs share a
pattern: places are sets, and `Split8` (TransferSend, AlarmConsume) says of eight
sets that they are disjoint. A step moves a set from one place to another, which
is a lemma about sets; each action then only says what it moves.

Induction over the naturals is done with sets in place of operators:
`LeastNumber` (from the library's well-foundedness of `<`) gives `EveryNumber`, a
set with 0 and with each number the next has every number. In this way the two
recursive functions of the models that theorems need are shown to be what they
are meant to be: `BindingsBut` keeps the rows it should in their order (`LeftIs`),
`Kept` prefers a host's row wherever it comes (`HoldingIs`, `HostIsKept`). A fold
of the community modules is a sequence of steps in the same way: `FoldLeftIs`
along a sequence, `FoldIs` over a set in whatever order.

**JudgeEvents** (`JudgeEventsProofs`).

- `TypeCorrect`, `SeriesCorrect`, `StepsBounded`: with any number of senders.
  `TypeOK` is not inductive: what `NewEvent` builds is an event only if the
  sender's item and rule are set. `Typed` adds `Placed(s)`, which says what each
  place in `Judge.Send` has set, and `Len(series) <= Remain`. `StepBound` speaks
  of `last` and `pages`, but what is in a sender's hands gets there: `Bounded`
  adds that `seen` at the decision is something that may be kept and `event`
  before the `LPUSH` something that may be published. That two senders decide on
  the same old event does no harm here, since each step is one more than *some*
  kept one below `maxStep`.
- `RepeatsSpaced`, `JudgeImplementsEpisodes`: with `OneSender`. The invariant is
  `SeenCurrent`: the last event a sender has read is still in the map when it
  decides. That is what JudgeOverlap shows to fail with two. `StepImplements` maps
  the steps to `Raise`, `Repeat`, `Recover`, `Forget` or a stutter.
- `PagesAreBelieved`: `PagesAgree`, with `OneSender` and `~RedisFails`, the values
  JudgeSerial has. `Agreed`: what is in the map is being published or was told
  last. Either assumption dropped, it fails: see the hazards.

**JudgeHistory** (`JudgeHistoryProofs`). `WalksAreRuns`, for any senders, window,
`Remain` and lists. A list and the set of points it ever held are `Kept`: newest
first, and of all it ever held it has the newest. A walk under way is `Walked`: its
points followed each other, and counting the pushes since it began tells where it
is now (`Reached`), on the list or off its end; so it meets nil only when those
exceed the slack. A list that CleanStale has dropped goes on being walked.

The functions of judge, transfer and graph (also `JudgeHistoryProofs`). All three
theorems rest on `InputsTyped`, what MCFunctions may have built: a series of any
length in the order of its timestamps, or values of any numbers and steps. Its
constants are integers, and points are kept at all (`InputAssumption`).

- `JudgeFunctionsAgree`. Fractions with positive divisors are in order
  (`AtMostTotal`), so the greatest and least of a window exist. `ReportedDecides`:
  the number an alarm shows meets its condition. `LookupsAgree`: lookup counts what
  all, max and min quantify over. `RatesDoAddUp`: the rates of a counter add up to
  its rise, by unfolding one difference after the other (`RatesUnfold`).
- `TimestampsAgree`. `AlignedBack`, `AlignedKeepsOrder`: alignment goes back by less
  than a step and keeps order. What is accepted is an integer with a positive step,
  through a gateway or not (`StepIs`).
- `QueryIsEveryStep`, of which `QueriesAreComplete` is the instance the run has:
  for any two times, cached points and file with one value a step, or none, the
  answer has one value for each step, the cached one before the file's. The cached
  values are those of the points that fit (`FormattedIs`, `FormattedFits`);
  `JunctionIs` says where the file's end and they begin, `QueryIs` that nothing is
  missing or doubled there, `LastIs` which value is the newest.

**TransferSend** (`TransferProofs`).

- `TransferTyped`: `TypeOK` with its three bounds (queue, batch, semaphore).
- `TransferAccounts`: `Placed` says that for each destination the eight places a
  copy can be in are disjoint, that calls share no item, and that counters are the
  sizes of the sets.
- `TransferImplementsChannel`: `Tried` bounds by the tries how often an item was
  handled, what of it is still on the wire included, so that a late handling is
  one that the abstract channel allows.
- `TransferFeedsSeries` assumes `Serial`: one receiver, and one call at a time to a
  judge. Both are needed, and the run has both: with two of either, an older
  point comes behind a newer one and the judge takes it for a repetition.
  `Ordered` says that along request, queue, batch and call items rise.
- `AlignKeepsApart` about `alignTs`: points a step apart get different timestamps.

**GraphIndex and GraphCache** (`GraphProofs`).

- `IndexKeepsHold`, an action property, from `IndexInv`: which item the task has.
- `SeriesKnowsPoints`: the state's types, and that every point that arrived is in
  one of the places there are or was thrown away, for any number of workers and
  goroutines.
- `SeriesKeepsPoints` with `MaxGoes = 1`: when two goroutines of `handleItems` make
  a list each, the second replaces the first's, which is what `First`, `PushFront`
  and `Set` are apart for; with one at a time, `Calm` says why no step throws away
  (what left the list is older than what is in it, and so on down to the file).
- `CachesStaySound` with `OneWorker` besides: `Chains` is the order of list and
  batches, `Flags` that MISS is believed of no series with a file. A second worker
  breaks the flag, see [Findings](#findings).

**AlarmConsume and FalconMessage** (`AlarmProofs`).

- `CasesStayCurrent` from `Consistent`: where an event is (`Lined`), what a case
  was at when it was closed, and, until something fails, that a reader's row is
  what it found (`AtLast`, `FoundLast`).
- `ToldOnce` from `Carried`: an item, one event for one user by one kind of
  message, is in one of eight places, by `Unique` in one message of a place, and
  every item of a consumed event that is due is somewhere, told or lost.
- `MessagesStaySound` from `Messaging`: what is posted, what the queue's batches
  hold in order, and until when a token is good against when the loop and each
  post began.

**PortalTables and UicAccounts** (`PortalProofs`).

- `TablesStaySound` from `Portal`: types, rows whose parent is gone are those in
  `late` (`LateRows`), no shared actions (`ActionsApart`), and what a request in
  flight may still do (`FlightTyped`, `OnlyOnce`). `StartAssumption` says what the
  tables are at the start: whole. `UicAssumption` says the same of users.
- `TokensAreOwn`, `WritesAreKept` from `Accounts`; `MembersStaySound` from `Teamed`.
  A step of users leaves teams alone but for the requests under way, and the
  reverse, which `AccountsRest` and `TeamsRest` make precise.
- `AnswersStaySound` from `Portal` and `CachesTyped`, which says what each copy of
  hbs may hold whatever the moments they were taken at. What judge is given follows
  from the copies alone: `BucketsAre` and `WinnersAre` say which chains
  `CalcInheritStrategies` keeps and what the lowest template of one leaves, and
  `ReachIs` that `ParentIds` goes up at most `MaxDepth` parents (`HbsAssumption`
  says only that this is one or more). That it is given
  *enough* is claimed for copies that are as the tables (`Mirrors`).

**The edge** (`EdgeProofs`).

- `ArmingIsKept` from `Armed`; `RowIsAsCached` from `RowSound`, which says what each
  report on its way would make of row and cache.
- `PushImplementsChannel`, `ForwardImplementsChannel`: each step of AgentPush and
  Gateway is one of DeliveryChannel or a stutter. The gateway's needs `Accountable`,
  and `Within`: how often a batch was tried follows from the hosts it has left in
  its round (`Used`), so it is never tried more often than `Retry` rounds.
- `TablesStayMatched` adds the schedulers against the tables (`PluginsSound`).

**Nodata and the aggregator** (`SyntheticProofs`).

- `HostsRuleFirst`, an action property, for any order of rows.
- `MocksFillSilence` from `Mocks`: every mock on its way is of the beginning of a
  period two periods ago, and a source's point is later than any mock.
- `SilentRulesShow`, the only theorem about time going on. `Silence` is relative to
  the unit in which a series was last disturbed (`Since`): its item is of that unit
  or before, or a mock (`Noted`); it was collected in this unit or the one before
  (`Collected`); after the timeout each judgement finds it answered within a step,
  and the mock of the last answer waits, leaves or is in graph (`Answered`). Nothing
  of this is about fairness: a unit passes only when what was due is done.
  `JudgedSoon` and `MockIsRecent` are the arithmetic, which uses that steps are
  whole minutes: at four steps and the delay the bound is exact.
- `RunIsSound`, about any hosts, terms and points of a run; `AggregatesAreSound` is
  the property of the run. A worker adds host after host in the order of a map, the
  property speaks of a sum over a set: by induction over its size, any order gives
  the same (`SumIs`, `SumTakes`, `SumsAgree`), and a host that does not count adds
  nought (`RunAdds`).
- `WorkersNeverLeak` from `Working`: the table has every worker that was not told to
  quit, once and under the key of its row.

## What only TLC checks

- Liveness (`Settled`, `Settles`, `LeavesMemory`, `IndexFollows`, `FollowsTables`,
  `AgentFollows`, `ForwardSettles`): temporal proofs under fairness need ENABLED,
  which the prover does not handle.

That the arithmetic of the judge and the aggregator is that of floats is neither
checked nor proved: model, runs and theorems are about exact fractions.

## What is not modelled

- stddev, the parsing of a function's text, the hash rings and connection pools
  of `common/`, which is not part of the repository.
- Graph: the choice of one of the archives by rrd, consolidation, `Info`,
  `LastRaw`; the three rows of a series in MySQL are one, and the tables' caches
  of 600 s are left out; one removal of a series at a time.
- Texts of messages, templates, links, pages, statistics, logging, configuration,
  the api's queries and dashboards.
- In alarm: events without an action or team; users without a phone, mail or
  account; the deletion of old rows; the key of a group as one text.
- In the portal: a renamed group, what an action says, hours of a strategy
  (`run_begin`, `run_end`), an action that two templates share.
- In the agent: collectors, which read files and commands of a machine; the watch
  on directories, whose goroutines share nothing; what a script prints. The lock
  and the dial of a client are one step in AgentPush, since nothing else runs
  under that lock.
- Batches of nodata's calls are one; a point that graph has is in reach at once.
- The syntax of an aggregator's expression: a side is a sequence of terms.

## Plan

What is modelled is what the code allows, and what is proved is every safety
property of the passing runs. What is left:

1. Weaker assumptions where a theorem has one: how many points `MaxGoes > 1` can
   cost, and what of `CachesSound` two workers leave.
2. Compositions, when the instances allow them: JudgeEvents as the producer of
   AlarmConsume (through the events `Judge` may send, which are those AlarmEpisode
   allows), TransferSend's judge as the sender of JudgeEvents.
