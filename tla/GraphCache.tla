------------------------------- MODULE GraphCache -------------------------------
(***************************************************************************)
(* One series on a graph node that takes it over from an old node when the *)
(* cluster grows (src/graph/README.md): the goroutines of handleItems fill *)
(* its cache (api/graph.go, store/store.go), syncDisk flushes the cache to *)
(* the rrd file (rrdtool/rrdtool.go, sync_disk.go), and as long as there   *)
(* is no file the net workers fetch the one of the old node, or send the   *)
(* cached points there (rrdtool/migrate.go).                               *)
(*                                                                         *)
(* A point is its timestamp.  The old node runs the same code; here it is  *)
(* the set of points it has, and answers as Graph.Send and Graph.GetRrd    *)
(* do.  The flags SENDING and FETCHING are written and never read, so the  *)
(* flag of a list is MISS or nothing.  The io worker does the tasks of a   *)
(* series one at a time, and whoever asked for one waits for it.           *)
(***************************************************************************)
EXTENDS Integers, SequencesExt

CONSTANTS
  Workers,     \* net workers, Migrate.Concurrency
  Tries,       \* calls of send_data and fetch_rrd, 3
  MaxPulls,    \* tasks Net_task_ch holds, 16
  OldLast,     \* the old node's file holds 1..OldLast; 0: it has no file
  MaxGoes,     \* bound: goroutines of handleItems at a time
  MaxLate,     \* bound: requests nobody waits for that the old node has still to handle
  MaxPoint,    \* bound: the last point that arrives
  MaxRestarts  \* bound: exits of the node

ASSUME CacheAssumption ==
  /\ Tries \in Nat \ {0} /\ MaxPulls \in Nat \ {0} /\ MaxRestarts \in Nat
  /\ MaxGoes \in Nat \ {0} /\ MaxLate \in Nat \ {0}
  /\ OldLast \in Nat /\ MaxPoint \in Nat /\ OldLast <= MaxPoint

Points == 1..MaxPoint

VARIABLES
  arrived,   \* the last point transfer sent
  restarts,
  cache,     \* the SafeLinkedList of the series, newest first
  disk,      \* its rrd file
  goes,      \* goroutines of handleItems
  sync,      \* syncDisk
  stop,      \* start_signal
  pulls,     \* PULL tasks in Net_task_ch
  worker,    \* net worker -> its state
  sends,     \* requests of Graph.Send the old node has not handled
  old,       \* the points of the old node
  gone,      \* history: points thrown away
  astray     \* history: points of requests that failed or came too late

peer    == <<sends, old>>
history == <<gone, astray>>
vars == <<arrived, restarts, cache, disk, goes, sync, stop, pulls, worker, peer, history>>

NoList == [there |-> FALSE, items |-> <<>>, miss |-> FALSE]
Idle   == [at |-> "idle", batch |-> <<>>]
Free   == [at |-> "idle", batch |-> <<>>, try |-> 0, miss |-> FALSE, body |-> {}]

Init ==
  /\ arrived = OldLast /\ restarts = 0
  /\ cache = NoList /\ disk = [there |-> FALSE, points |-> {}]
  /\ goes = {} /\ sync = Idle /\ stop = Idle
  /\ pulls = 0 /\ worker = [w \in Workers |-> Free]
  /\ sends = {} /\ old = 1..OldLast
  /\ gone = {} /\ astray = {}

-----------------------------------------------------------------------------
(* The list and the file *)

\* Mutant: PushAll puts a batch in front of what came since.
PushAllInFront(batch) == [cache EXCEPT !.items = Reverse(batch) \o @]

\* PopAll gives the list oldest first; PushAll puts it back behind newer points.
PopAll         == Reverse(cache.items)
Emptied        == [cache EXCEPT !.items = <<>>]
PushAll(batch) == [cache EXCEPT !.items = @ \o Reverse(batch)]
WithFlag(miss) == IF cache.there THEN [cache EXCEPT !.miss = miss] ELSE cache

\* rrd takes the points of a batch up to the first that is not newer than all
\* it has.
Taken(batch) ==
  {batch[k] : k \in {m \in DOMAIN batch : \A i \in 1..m :
     /\ \A p \in disk.points : p < batch[i]
     /\ \A j \in 1..(i - 1) : batch[j] < batch[i]}}

\* The io worker flushes the batch somebody waits for, in a new file if there
\* is none.
FlushFile(batch) ==
  /\ disk' = [there |-> TRUE, points |-> disk.points \cup Taken(batch)]
  /\ gone' = gone \cup (Range(batch) \ Taken(batch))

-----------------------------------------------------------------------------
(* handleItems *)

\* Transfer sends the points of the series in order.
Send ==
  /\ arrived < MaxPoint /\ Cardinality(goes) < MaxGoes
  /\ arrived' = arrived + 1
  /\ goes' = goes \cup {[point |-> arrived + 1, at |-> "first", miss |-> FALSE]}
  /\ UNCHANGED <<restarts, cache, disk, sync, stop, pulls, worker, peer, history>>

First(g) ==
  /\ g \in goes /\ g.at = "first"
  /\ IF cache.items # <<>> /\ g.point <= Head(cache.items)
     THEN goes' = goes \ {g} /\ gone' = gone \cup {g.point}
     ELSE goes' = (goes \ {g}) \cup {[g EXCEPT !.at = "push"]} /\ UNCHANGED gone
  /\ UNCHANGED <<arrived, restarts, cache, disk, sync, stop, pulls, worker, peer, astray>>

\* Mutant: every point makes a new list.
PushFrontAnew(g) ==
  /\ g \in goes /\ g.at = "push"
  /\ goes' = (goes \ {g}) \cup {[g EXCEPT !.at = "set", !.miss = ~disk.there]}
  /\ UNCHANGED <<arrived, restarts, cache, disk, sync, stop, pulls, worker, peer, history>>

\* PushFront on a list that is there, or the first half of making one: whether
\* there is a file decides the flag.
PushFront(g) ==
  /\ g \in goes /\ g.at = "push"
  /\ IF cache.there
     THEN cache' = [cache EXCEPT !.items = <<g.point>> \o @] /\ goes' = goes \ {g}
     ELSE goes' = (goes \ {g}) \cup {[g EXCEPT !.at = "set", !.miss = ~disk.there]}
          /\ UNCHANGED cache
  /\ UNCHANGED <<arrived, restarts, disk, sync, stop, pulls, worker, peer, history>>

\* The other half puts the list in the map, over one that came meanwhile.
Set(g) ==
  /\ g \in goes /\ g.at = "set"
  /\ cache' = [there |-> TRUE, items |-> <<g.point>>, miss |-> g.miss]
  /\ gone' = gone \cup Range(cache.items)
  /\ goes' = goes \ {g}
  /\ UNCHANGED <<arrived, restarts, disk, sync, stop, pulls, worker, peer, astray>>

-----------------------------------------------------------------------------
(* syncDisk *)

\* FlushRRD looks at the flag and asks a net worker; PullByKey waits while the
\* channel is full.
PullByKey ==
  /\ sync.at = "idle" /\ cache.miss /\ cache.items # <<>>
  /\ pulls < MaxPulls
  /\ pulls' = pulls + 1
  /\ UNCHANGED <<arrived, restarts, cache, disk, goes, sync, stop, worker, peer, history>>

\* A list that is not missing is due after some time.
CommitByKey ==
  /\ sync.at = "idle" /\ ~cache.miss /\ cache.items # <<>>
  /\ cache' = Emptied
  /\ sync' = [at |-> "flush", batch |-> PopAll]
  /\ UNCHANGED <<arrived, restarts, disk, goes, stop, pulls, worker, peer, history>>

SyncFlush ==
  /\ sync.at = "flush"
  /\ FlushFile(sync.batch)
  /\ sync' = Idle
  /\ UNCHANGED <<arrived, restarts, cache, goes, stop, pulls, worker, peer, astray>>

-----------------------------------------------------------------------------
(* net_task_worker *)

\* A worker takes a PULL and reads the flag.  It sends the points when the last
\* sweep was slow, and fetches the file when it was not.
TakePull(w, busy) ==
  /\ worker[w].at = "idle" /\ pulls > 0
  /\ pulls' = pulls - 1
  /\ worker' = [worker EXCEPT ![w] =
       IF cache.there
       THEN [Free EXCEPT !.at = IF busy THEN "send" ELSE "fetch", !.miss = cache.miss]
       ELSE Free]
  /\ UNCHANGED <<arrived, restarts, cache, disk, goes, sync, stop, peer, history>>

\* The flag is written as the worker read it, or without MISS.
SetFlag(w) ==
  /\ worker[w].at = "clear"
  /\ cache' = WithFlag(worker[w].miss)
  /\ worker' = [worker EXCEPT ![w] = Free]
  /\ UNCHANGED <<arrived, restarts, disk, goes, sync, stop, pulls, peer, history>>

(* send_data *)

Request(w, batch) == [w |-> w, items |-> batch, live |-> TRUE]
Live(w)           == {q \in sends : q.w = w /\ q.live}
Late              == {q \in sends : ~q.live}
Unheard(w)        == (sends \ Live(w)) \cup {[q EXCEPT !.live = FALSE] : q \in Live(w)}

SendPop(w) ==
  /\ worker[w].at = "send"
  /\ cache' = [WithFlag(worker[w].miss) EXCEPT !.items = <<>>]
  /\ IF cache.items = <<>>
     THEN worker' = [worker EXCEPT ![w].at = "clear"] /\ UNCHANGED sends
     ELSE /\ worker' = [worker EXCEPT ![w].at = "sending", ![w].batch = PopAll, ![w].try = 1]
          /\ sends' = sends \cup {Request(w, PopAll)}
  /\ UNCHANGED <<arrived, restarts, disk, goes, sync, stop, pulls, old, history>>

\* Graph.Send of the old node starts a goroutine for the items and returns.
SendOk(w) ==
  /\ worker[w].at = "sending" /\ Live(w) # {} /\ Cardinality(Late) < MaxLate
  /\ worker' = [worker EXCEPT ![w].at = "clear", ![w].batch = <<>>]
  /\ sends' = Unheard(w)
  /\ UNCHANGED <<arrived, restarts, cache, disk, goes, sync, stop, pulls, old, history>>

\* A call that fails leaves nothing, or a request that is handled some day.
SendsLeft(w) == {sends \ Live(w)} \cup IF Cardinality(Late) < MaxLate THEN {Unheard(w)} ELSE {}

SendAgain(w) ==
  /\ worker[w].at = "sending" /\ worker[w].try < Tries
  /\ worker' = [worker EXCEPT ![w].try = @ + 1]
  /\ \E left \in SendsLeft(w) : sends' = left \cup {Request(w, worker[w].batch)}
  /\ UNCHANGED <<arrived, restarts, cache, disk, goes, sync, stop, pulls, old, history>>

\* The last call has failed; the batch goes back.
SendFailed(w) ==
  LET batch == Range(worker[w].batch) IN
  /\ worker[w].at = "sending" /\ worker[w].try = Tries
  /\ sends' \in SendsLeft(w)
  /\ IF cache.there
     THEN cache' = PushAll(worker[w].batch) /\ UNCHANGED gone
     ELSE gone' = gone \cup batch /\ UNCHANGED cache
  /\ astray' = astray \cup batch
  /\ worker' = [worker EXCEPT ![w].at = "clear", ![w].batch = <<>>]
  /\ UNCHANGED <<arrived, restarts, disk, goes, sync, stop, pulls, old>>

\* The old node takes what is newer than all it has.
Handle(q) ==
  LET newer == {p \in Range(q.items) : \A r \in old : r < p}
      late  == Range(q.items) \ (newer \cup old) IN
  /\ q \in sends /\ ~q.live
  /\ sends' = sends \ {q}
  /\ old' = old \cup newer
  /\ gone' = gone \cup late /\ astray' = astray \cup late
  /\ UNCHANGED <<arrived, restarts, cache, disk, goes, sync, stop, pulls, worker>>

(* fetch_rrd *)

Fetch(w) ==
  /\ worker[w].at = "fetch"
  /\ cache' = WithFlag(worker[w].miss)
  /\ worker' = [worker EXCEPT ![w].at = "fetching", ![w].try = 1]
  /\ UNCHANGED <<arrived, restarts, disk, goes, sync, stop, pulls, peer, history>>

\* Graph.GetRrd of the old node flushes what it has cached and answers with the
\* file.  Without one it answers with an error, which is a string here and none
\* that os.IsNotExist knows: the call fails as when it times out.
FetchOk(w) ==
  /\ worker[w].at = "fetching" /\ old # {}
  /\ worker' = [worker EXCEPT ![w].at = "write", ![w].body = old]
  /\ UNCHANGED <<arrived, restarts, cache, disk, goes, sync, stop, pulls, peer, history>>

FetchFailed(w) ==
  /\ worker[w].at = "fetching"
  /\ worker' = IF worker[w].try < Tries THEN [worker EXCEPT ![w].try = @ + 1]
                                        ELSE [worker EXCEPT ![w].at = "clear"]
  /\ UNCHANGED <<arrived, restarts, cache, disk, goes, sync, stop, pulls, peer, history>>

\* Mutant: the flag keeps MISS when the file has been written.
WriteKeepsMiss(w) ==
  /\ worker[w].at = "write"
  /\ disk' = IF disk.there THEN disk ELSE [there |-> TRUE, points |-> worker[w].body]
  /\ worker' = [worker EXCEPT ![w].at = "clear", ![w].body = {}]
  /\ UNCHANGED <<arrived, restarts, cache, goes, sync, stop, pulls, peer, history>>

\* The io worker writes the file, unless there is one.
Write(w) ==
  /\ worker[w].at = "write"
  /\ IF disk.there
     THEN worker' = [worker EXCEPT ![w].at = "clear", ![w].body = {}] /\ UNCHANGED disk
     ELSE /\ disk' = [there |-> TRUE, points |-> worker[w].body]
          /\ worker' = [worker EXCEPT ![w].at = "clear", ![w].body = {}, ![w].miss = FALSE]
  /\ UNCHANGED <<arrived, restarts, cache, goes, sync, stop, pulls, peer, history>>

-----------------------------------------------------------------------------
(* start_signal, and a process that is killed *)

\* FlushAll(true) commits the list whatever its flag says.
Stop ==
  /\ stop.at = "idle" /\ restarts < MaxRestarts
  /\ restarts' = restarts + 1
  /\ cache' = Emptied
  /\ stop' = [at |-> IF cache.items = <<>> THEN "exit" ELSE "flush", batch |-> PopAll]
  /\ UNCHANGED <<arrived, disk, goes, sync, pulls, worker, peer, history>>

StopFlush ==
  /\ stop.at = "flush"
  /\ FlushFile(stop.batch)
  /\ stop' = [Idle EXCEPT !.at = "exit"]
  /\ UNCHANGED <<arrived, restarts, cache, goes, sync, pulls, worker, peer, astray>>

Batches  == {sync.batch, stop.batch} \cup {worker[w].batch : w \in Workers}
InMemory == (UNION {Range(b) : b \in Batches}) \cup {g.point : g \in goes} \cup Range(cache.items)

Restarted ==
  /\ gone' = gone \cup InMemory
  /\ cache' = NoList /\ goes' = {} /\ sync' = Idle /\ stop' = Idle
  /\ pulls' = 0 /\ worker' = [w \in Workers |-> Free]
  /\ \E lost \in SUBSET (sends \ Late) :
       sends' = {[q EXCEPT !.live = FALSE] : q \in sends \ lost} /\ Cardinality(sends') <= MaxLate
  /\ UNCHANGED <<arrived, disk, old, astray>>

Exit == stop.at = "exit" /\ UNCHANGED restarts /\ Restarted
Kill == restarts < MaxRestarts /\ restarts' = restarts + 1 /\ Restarted

-----------------------------------------------------------------------------
NetTask(w) ==
  \/ TakePull(w, TRUE) \/ TakePull(w, FALSE) \/ SetFlag(w)
  \/ SendPop(w) \/ SendOk(w) \/ SendAgain(w) \/ SendFailed(w)
  \/ Fetch(w) \/ FetchOk(w) \/ FetchFailed(w) \/ Write(w)
HandleItems == \E g \in goes : First(g) \/ PushFront(g) \/ Set(g)
SyncDisk    == PullByKey \/ CommitByKey \/ SyncFlush
Shutdown    == StopFlush \/ Exit

Next ==
  \/ Send \/ HandleItems \/ SyncDisk
  \/ \E w \in Workers : NetTask(w)
  \/ \E q \in sends : Handle(q)
  \/ Stop \/ Shutdown \/ Kill

Spec == Init /\ [][Next]_vars

-----------------------------------------------------------------------------
(* Properties *)

\* The state has its shape, a worker calls no more often than it may, and no
\* more pulls wait than the channel holds.
TypeOK ==
  /\ arrived \in OldLast..MaxPoint /\ restarts \in 0..MaxRestarts
  /\ cache \in [there : BOOLEAN, items : Seq(Points), miss : BOOLEAN]
  /\ disk \in [there : BOOLEAN, points : SUBSET Points]
  /\ goes \subseteq [point : Points, at : {"first", "push", "set"}, miss : BOOLEAN]
  /\ sync \in [at : {"idle", "flush"}, batch : Seq(Points)]
  /\ stop \in [at : {"idle", "flush", "exit"}, batch : Seq(Points)]
  /\ pulls \in 0..MaxPulls
  /\ worker \in [Workers -> [at : {"idle", "send", "sending", "fetch", "fetching", "write", "clear"},
                             batch : Seq(Points), try : 0..Tries, miss : BOOLEAN, body : SUBSET Points]]
  /\ sends \subseteq [w : Workers, items : Seq(Points), live : BOOLEAN]
  /\ old \subseteq Points /\ gone \subseteq Points /\ astray \subseteq Points

\* Every point that arrived is in the cache, the file or the hands of a
\* goroutine, or with the old node or on its way there, or was thrown away where
\* the code does so: an older point, a list written over, a batch rrd refuses, a
\* process that ends.  That is the lot of none as long as no batch had to be put
\* back, no request came too late and the node did not stop.
NothingVanishes ==
  /\ \A p \in 1..arrived :
       \/ p \in InMemory \cup disk.points \cup old \cup gone
       \/ \E q \in sends : p \in Range(q.items)
  /\ restarts = 0 /\ astray = {} => gone = {}

\* The list is in the order of time, and a batch is handed to the file with the
\* newest point last (the comment at rrdtool.go:135), though batches that could
\* not be sent are put back.  One net worker, one goroutine of handleItems.
NewestLast ==
  /\ \A n \in 1..(Len(cache.items) - 1) : cache.items[n] > cache.items[n + 1]
  /\ \A b \in Batches : \A n \in 1..(Len(b) - 1) : b[n] < b[n + 1]

\* A list is not marked as missing when there is a file, but for the moment
\* before the worker that wrote the file clears the flag: otherwise the file is
\* fetched for ever and the points never reach it.  One net worker.
MissMeansNoFile ==
  cache.miss /\ disk.there =>
    stop.at # "idle" \/ \E w \in Workers : worker[w].at = "clear" /\ ~worker[w].miss

\* What the list, the flag and the batches are like whatever the net worker does.
ListSound == TypeOK /\ NewestLast /\ MissMeansNoFile

\* A cached point does not stay in memory: once no more points come it gets to the
\* file, or to the old node, or is thrown away.  With one net worker, and a file on the
\* old node; the documents promise it with several (README.md:56) and without a file
\* (migrate.go:190) as well.
LeavesMemory == <>[](Range(cache.items) \subseteq disk.points \cup old \cup gone)
=============================================================================
