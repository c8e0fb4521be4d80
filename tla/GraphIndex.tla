----------------------------- MODULE GraphIndex -----------------------------
(* The index of graph for one series: which type and step it has, in memory and *)
(* in MySQL (src/graph/index), while points come in, the tasks write to MySQL,  *)
(* the cache is cleaned (src/graph/cron/clean.go) and the api deletes the series *)
(* (src/api/app/controller/graph/graph_controller.go).  The rows of MySQL that  *)
(* make a series known are one row here; a "variant" is a type and a step.      *)
EXTENDS Integers

CONSTANTS
    Variants,      \* the types and steps the series is reported with
    None,
    Permits,       \* of semaUpdateIndexIncr
    MaxEvents      \* bound: changes, failures, deletions, updates and restarts

ASSUME IndexAssumption ==
    Variants # {} /\ None \notin Variants /\ Permits # {} /\ MaxEvents \in Nat

VARIABLES
    reported,      \* the variant the series is reported with now
    looking,       \* a point between the two lookups of ReceiveItem
    IndexedItemCache, unIndexedItemCache, \* variant or None
    incr,          \* the item the incremental task has at hand
    tasks,         \* permit -> variant its goroutine writes to MySQL, or None
    all,           \* what the full update is about to do with an item
    row,           \* variant of the series in MySQL
    memory, files, \* variants with points in GraphItems, and with an rrd file
    removing,      \* RemoveItem, called by the api
    api,           \* the handler that deletes the series
    events
ivars == <<reported, looking, IndexedItemCache, unIndexedItemCache, incr, tasks, all, row,
           memory, files, removing, api, events>>

Maybe == Variants \cup {None}
Steps(at) == [at : at, v : Maybe]
NoItem == [at |-> "idle", v |-> None]

IndexTypeOK ==
    /\ reported \in Variants
    /\ {looking, IndexedItemCache, unIndexedItemCache, row} \subseteq Maybe
    /\ incr \in Steps({"idle", "got", "removed"})
    /\ tasks \in [Permits -> Maybe]
    /\ memory \subseteq Variants /\ files \subseteq Variants
    /\ all \in Steps({"idle", "remove", "write"})
    /\ removing \in Steps({"idle", "indexed", "rest"})
    /\ api \in {"idle", "wait", "rows"}
    /\ events \in 0..MaxEvents

NoTasks == [s \in Permits |-> None]

IndexInit ==
    /\ reported \in Variants
    /\ looking = None /\ IndexedItemCache = None /\ unIndexedItemCache = None /\ row = None
    /\ incr = NoItem /\ tasks = NoTasks /\ all = NoItem
    /\ memory = {} /\ files = {}
    /\ removing = NoItem /\ api = "idle"
    /\ events = 0

Event == events < MaxEvents /\ events' = events + 1

----------------------------------------------------------------------------
(* ReceiveItem *)

\* Mutant: a new type or step of a known series is passed over.
ReceiveKnownOnly(v) == UNCHANGED <<IndexedItemCache, unIndexedItemCache>>

\* The cached item is fetched once more after it was found.
ReceiveKnown(v) ==
    IF v = IndexedItemCache
    THEN UNCHANGED <<IndexedItemCache, unIndexedItemCache>>
    ELSE unIndexedItemCache' = v /\ UNCHANGED IndexedItemCache

\* A series with a file counts as indexed.
ReceiveNew(v) ==
    IF v \in files
    THEN IndexedItemCache' = v /\ UNCHANGED unIndexedItemCache
    ELSE unIndexedItemCache' = v /\ UNCHANGED IndexedItemCache

ReceiveItem ==
    /\ looking = None
    /\ memory' = memory \cup {reported}
    /\ IF IndexedItemCache # None
       THEN looking' = reported /\ UNCHANGED <<IndexedItemCache, unIndexedItemCache>>
       ELSE ReceiveNew(reported) /\ UNCHANGED looking
    /\ UNCHANGED <<reported, incr, tasks, all, row, files, removing, api, events>>

LookAgain ==
    /\ looking # None /\ IndexedItemCache # None
    /\ ReceiveKnown(looking)
    /\ looking' = None
    /\ UNCHANGED <<reported, incr, tasks, all, row, memory, files, removing, api, events>>

\* graph starts anew: its memory is gone, the files and MySQL are not.
Forgotten ==
    /\ looking' = None /\ IndexedItemCache' = None /\ unIndexedItemCache' = None
    /\ incr' = NoItem /\ tasks' = NoTasks /\ all' = NoItem /\ removing' = NoItem /\ memory' = {}
    /\ UNCHANGED <<reported, row, files, api>>

\* The item was removed between the two lookups: the type assertion panics.
LookAgainPanics == looking # None /\ IndexedItemCache = None /\ Forgotten /\ UNCHANGED events
Restart == Event /\ Forgotten

----------------------------------------------------------------------------
(* The incremental task: Get, Remove, and a goroutine for each item. *)

GetUnIndexed ==
    /\ incr = NoItem /\ unIndexedItemCache # None
    /\ incr' = [at |-> "got", v |-> unIndexedItemCache]
    /\ UNCHANGED <<reported, looking, IndexedItemCache, unIndexedItemCache, tasks, all, row,
                   memory, files, removing, api, events>>

\* What was put there since it was read goes as well.
RemoveUnIndexed ==
    /\ incr.at = "got"
    /\ incr' = [incr EXCEPT !.at = "removed"]
    /\ unIndexedItemCache' = None
    /\ UNCHANGED <<reported, looking, IndexedItemCache, tasks, all, row, memory, files, removing, api, events>>

StartUpdate(s) ==
    /\ incr.at = "removed" /\ tasks[s] = None
    /\ tasks' = [tasks EXCEPT ![s] = incr.v]
    /\ incr' = NoItem
    /\ UNCHANGED <<reported, looking, IndexedItemCache, unIndexedItemCache, all, row, memory, files,
                   removing, api, events>>

\* Mutant: the goroutine ends without a word to the cache.
IndexedUnsaid(v) == UNCHANGED IndexedItemCache
Indexed(v) == IndexedItemCache' = v

UpdateIndexFromOneItem(s) ==
    /\ tasks[s] # None
    /\ tasks' = [tasks EXCEPT ![s] = None]
    /\ row' = tasks[s]
    /\ Indexed(tasks[s])
    /\ UNCHANGED <<reported, looking, unIndexedItemCache, incr, all, memory, files, removing, api, events>>

UpdateIndexFails(s) ==
    /\ tasks[s] # None /\ Event
    /\ tasks' = [tasks EXCEPT ![s] = None]
    /\ UNCHANGED <<reported, looking, IndexedItemCache, unIndexedItemCache, incr, all, row,
                   memory, files, removing, api>>

----------------------------------------------------------------------------
(* The full update, and the index of one item, both asked for by hand. *)

\* An item of two days ago is removed, also when a new one has taken its place.
UpdateIndexAll(at) ==
    /\ all = NoItem /\ IndexedItemCache # None /\ Event
    /\ all' = [at |-> at, v |-> IndexedItemCache]
    /\ UNCHANGED <<reported, looking, IndexedItemCache, unIndexedItemCache, incr, tasks, row,
                   memory, files, removing, api>>

UpdateAllRemoves ==
    /\ all.at = "remove"
    /\ all' = NoItem /\ IndexedItemCache' = None
    /\ UNCHANGED <<reported, looking, unIndexedItemCache, incr, tasks, row, memory, files, removing, api, events>>

UpdateAllWrites ==
    /\ all.at = "write"
    /\ all' = NoItem /\ row' \in {row, all.v}
    /\ UNCHANGED <<reported, looking, IndexedItemCache, unIndexedItemCache, incr, tasks,
                   memory, files, removing, api, events>>

----------------------------------------------------------------------------
(* Points go to their files; CleanCache drops those of series without index. *)

Flush(v) ==
    /\ v \in memory
    /\ memory' = memory \ {v} /\ files' = files \cup {v}
    /\ UNCHANGED <<reported, looking, IndexedItemCache, unIndexedItemCache, incr, tasks, all, row,
                   removing, api, events>>

DeleteInvalidItems ==
    /\ IndexedItemCache = None /\ memory # {}
    /\ memory' = {}
    /\ UNCHANGED <<reported, looking, IndexedItemCache, unIndexedItemCache, incr, tasks, all, row,
                   files, removing, api, events>>

----------------------------------------------------------------------------
(* DeleteGraphCounter and DeleteGraphEndpoint: read the rows, have graph remove *)
(* them, and delete them from MySQL, whatever became of the call.               *)

DeleteGraphCounter ==
    /\ api = "idle" /\ removing = NoItem /\ row # None /\ Event
    /\ api' = "wait" /\ removing' = [at |-> "indexed", v |-> row]
    /\ UNCHANGED <<reported, looking, IndexedItemCache, unIndexedItemCache, incr, tasks, all, row,
                   memory, files>>

RemoveItem ==
    /\ removing.at = "indexed"
    /\ removing' = [removing EXCEPT !.at = "rest"]
    /\ IndexedItemCache' = None
    /\ UNCHANGED <<reported, looking, unIndexedItemCache, incr, tasks, all, row, memory, files, api, events>>

RemoveRest ==
    /\ removing.at = "rest"
    /\ removing' = NoItem
    /\ unIndexedItemCache' = None
    /\ memory' = memory \ {removing.v} /\ files' = files \ {removing.v}
    /\ UNCHANGED <<reported, looking, IndexedItemCache, incr, tasks, all, row, api, events>>

\* An answer, or the timeout; the call may also never have arrived.
DeleteAnswered ==
    /\ api = "wait" /\ api' = "rows"
    /\ removing' \in {removing} \cup (IF removing.at = "indexed" THEN {NoItem} ELSE {})
    /\ UNCHANGED <<reported, looking, IndexedItemCache, unIndexedItemCache, incr, tasks, all, row,
                   memory, files, events>>

DeleteRows ==
    /\ api = "rows" /\ api' = "idle"
    /\ row' = None
    /\ UNCHANGED <<reported, looking, IndexedItemCache, unIndexedItemCache, incr, tasks, all,
                   memory, files, removing, events>>

DeleteRollsBack ==
    /\ api = "rows" /\ api' = "idle" /\ Event
    /\ UNCHANGED <<reported, looking, IndexedItemCache, unIndexedItemCache, incr, tasks, all, row,
                   memory, files, removing>>

----------------------------------------------------------------------------
\* The source of the series is given another type or step.
Change ==
    /\ Event /\ \E v \in Variants \ {reported} : reported' = v
    /\ UNCHANGED <<looking, IndexedItemCache, unIndexedItemCache, incr, tasks, all, row,
                   memory, files, removing, api>>

Receive == ReceiveItem \/ LookAgain \/ LookAgainPanics
IncrTask == GetUnIndexed \/ RemoveUnIndexed \/ \E s \in Permits : StartUpdate(s)
Writer(s) == UpdateIndexFromOneItem(s) \/ UpdateIndexFails(s)
AllTask == UpdateAllRemoves \/ UpdateAllWrites
Removal == RemoveItem \/ RemoveRest
Deletion == DeleteAnswered \/ DeleteRows \/ DeleteRollsBack

IndexNext ==
    \/ Receive \/ IncrTask \/ (\E s \in Permits : Writer(s)) \/ AllTask \/ Removal \/ Deletion
    \/ DeleteGraphCounter \/ DeleteInvalidItems \/ Change \/ Restart
    \/ \E at \in {"remove", "write"} : UpdateIndexAll(at)
    \/ \E v \in Variants : Flush(v)

----------------------------------------------------------------------------
\* The series is in the caches, or on its way from one to the other.
Held ==
    \/ IndexedItemCache # None \/ unIndexedItemCache # None
    \/ incr # NoItem \/ tasks # NoTasks

\* Nothing but a failure, a removal, a panic or a restart makes the index forget a series
\* between its caches: an item that is taken out of one cannot be lost before it is
\* put into the other, whatever is put there meanwhile.
KeepsHold ==
    [][Held /\ ~Held' => \/ events' # events \/ LookAgainPanics
                         \/ all' # all \/ removing' # removing]_ivars

\* What a query takes for the type and step of the series.
GetTypeAndStep == IF IndexedItemCache # None THEN IndexedItemCache ELSE row

\* Queries find the series under the type and step of its points.
IndexCurrent == GetTypeAndStep = reported

\* What counts as indexed has its row in MySQL, or the row is on its way there.
IndexedHasRow ==
    IndexedItemCache # None =>
      \/ row # None
      \/ unIndexedItemCache # None \/ incr # NoItem \/ tasks # NoTasks \/ all.at = "write"
=============================================================================
