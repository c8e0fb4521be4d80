----------------------------- MODULE GraphProofs -----------------------------
(* Proofs about GraphIndex and GraphCache. *)
EXTENDS MCGraph, FiniteSetTheorems, TLAPS

-----------------------------------------------------------------------------
(* The index *)

\* The inductive invariant: the incremental task has an item at hand unless it
\* is idle.
IndexInv == IndexTypeOK /\ (incr.at # "idle" => incr.v # None) /\ (incr.at = "idle" => incr = NoItem)

\* The index starts empty.
LEMMA IndexInvInit == IndexInit => IndexInv
BY IndexAssumption DEF IndexInit, IndexInv, IndexTypeOK, Maybe, Steps, NoItem, NoTasks

\* Every action of the index keeps its types.
LEMMA IndexInvStep == IndexInv /\ [IndexNext]_ivars => IndexInv'
<1> SUFFICES ASSUME IndexInv, [IndexNext]_ivars PROVE IndexInv'
  OBVIOUS
<1> USE IndexAssumption DEF IndexInv, IndexTypeOK, Maybe, Steps, NoItem, NoTasks, Event
<1>1. CASE ReceiveItem
  BY <1>1 DEF ReceiveItem, ReceiveNew
<1>2. CASE LookAgain
  BY <1>2 DEF LookAgain, ReceiveKnown
<1>3. CASE LookAgainPanics \/ Restart
  BY <1>3 DEF LookAgainPanics, Restart, Forgotten
<1>4. CASE GetUnIndexed
  BY <1>4 DEF GetUnIndexed
<1>5. CASE RemoveUnIndexed
  BY <1>5 DEF RemoveUnIndexed
<1>6. ASSUME NEW s \in Permits, StartUpdate(s) PROVE IndexInv'
  BY <1>6 DEF StartUpdate
<1>7. ASSUME NEW s \in Permits, UpdateIndexFromOneItem(s) PROVE IndexInv'
  BY <1>7 DEF UpdateIndexFromOneItem, Indexed
<1>8. ASSUME NEW s \in Permits, UpdateIndexFails(s) PROVE IndexInv'
  BY <1>8 DEF UpdateIndexFails
<1>9. ASSUME NEW at \in {"remove", "write"}, UpdateIndexAll(at) PROVE IndexInv'
  BY <1>9 DEF UpdateIndexAll
<1>10. CASE UpdateAllRemoves
  BY <1>10 DEF UpdateAllRemoves
<1>11. CASE UpdateAllWrites
  BY <1>11 DEF UpdateAllWrites
<1>12. ASSUME NEW v \in Variants, Flush(v) PROVE IndexInv'
  BY <1>12 DEF Flush
<1>13. CASE DeleteInvalidItems
  BY <1>13 DEF DeleteInvalidItems
<1>14. CASE DeleteGraphCounter
  BY <1>14 DEF DeleteGraphCounter
<1>15. CASE RemoveItem
  BY <1>15 DEF RemoveItem
<1>16. CASE RemoveRest
  BY <1>16 DEF RemoveRest
<1>17. CASE DeleteAnswered
  BY <1>17 DEF DeleteAnswered
<1>18. CASE DeleteRows \/ DeleteRollsBack
  BY <1>18 DEF DeleteRows, DeleteRollsBack
<1>19. CASE Change
  BY <1>19 DEF Change
<1>20. CASE UNCHANGED ivars
  BY <1>20 DEF ivars
<1> QED
  BY <1>1, <1>2, <1>3, <1>4, <1>5, <1>6, <1>7, <1>8, <1>9, <1>10, <1>11, <1>12, <1>13, <1>14,
     <1>15, <1>16, <1>17, <1>18, <1>19, <1>20
     DEF IndexNext, Receive, IncrTask, Writer, AllTask, Removal, Deletion

\* What a step may do that makes the index forget the series.
Forgets == events' # events \/ LookAgainPanics \/ all' # all \/ removing' # removing

\* No other step takes the series out of the last of its places.
LEMMA HoldKept == IndexInv /\ [IndexNext]_ivars => (Held /\ ~Held' => Forgets)
<1> SUFFICES ASSUME IndexInv, [IndexNext]_ivars, Held, ~Forgets PROVE Held'
  OBVIOUS
<1> USE IndexAssumption DEF IndexInv, IndexTypeOK, Maybe, Steps, NoItem, NoTasks, Held
<1>1. CASE ReceiveItem
  BY <1>1 DEF ReceiveItem, ReceiveNew
<1>2. CASE LookAgain
  BY <1>2 DEF LookAgain, ReceiveKnown
<1>3. CASE GetUnIndexed \/ RemoveUnIndexed
  BY <1>3 DEF GetUnIndexed, RemoveUnIndexed
<1>4. ASSUME NEW s \in Permits, StartUpdate(s) PROVE Held'
  BY <1>4 DEF StartUpdate
<1>5. ASSUME NEW s \in Permits, UpdateIndexFromOneItem(s) PROVE Held'
  BY <1>5 DEF UpdateIndexFromOneItem, Indexed
<1>6. CASE UpdateAllRemoves \/ UpdateAllWrites
  BY <1>6 DEF UpdateAllRemoves, UpdateAllWrites, Forgets
<1>7. CASE RemoveItem \/ RemoveRest
  BY <1>7 DEF RemoveItem, RemoveRest, Forgets
<1>8. CASE DeleteAnswered \/ DeleteRows \/ DeleteInvalidItems \/ \E v \in Variants : Flush(v)
  BY <1>8 DEF DeleteAnswered, DeleteRows, DeleteInvalidItems, Flush
<1>9. ~Event
  BY DEF Forgets, Event
<1>10. CASE \/ Restart \/ Change \/ DeleteGraphCounter \/ DeleteRollsBack
            \/ \E s \in Permits : UpdateIndexFails(s)
            \/ \E at \in {"remove", "write"} : UpdateIndexAll(at)
  BY <1>9, <1>10 DEF Restart, Change, DeleteGraphCounter, DeleteRollsBack, UpdateIndexFails, UpdateIndexAll
<1>11. CASE UNCHANGED ivars
  BY <1>11 DEF ivars
<1>12. ~LookAgainPanics
  BY DEF Forgets
<1> QED
  BY <1>1, <1>2, <1>3, <1>4, <1>5, <1>6, <1>7, <1>8, <1>10, <1>11, <1>12
     DEF IndexNext, Receive, IncrTask, Writer, AllTask, Removal, Deletion

\* A step of the instance that is checked is a step of the index or leaves it alone.
LEMMA IndexPart == [MCNext]_<<vars, ivars, part>> => [IndexNext]_ivars
BY DEF MCNext

\* Nothing but a failure, a removal, a panic or a restart makes the index forget
\* a series between its caches, for any types, steps, permits and events.
THEOREM IndexKeepsHold == MCSpec => KeepsHold
<1>1. MCSpec => IndexInit /\ [][MCNext]_<<vars, ivars, part>>
  BY DEF MCSpec, MCInit
<1>2. IndexInit /\ [][MCNext]_<<vars, ivars, part>> => []IndexInv
  BY IndexInvInit, IndexInvStep, IndexPart, PTL
<1>3. IndexInv /\ [MCNext]_<<vars, ivars, part>> =>
        [Held /\ ~Held' => \/ events' # events \/ LookAgainPanics
                           \/ all' # all \/ removing' # removing]_ivars
  BY IndexPart, HoldKept DEF Forgets
<1> QED
  BY <1>1, <1>2, <1>3, PTL DEF KeepsHold


-----------------------------------------------------------------------------
(* The points of a list *)

\* Turning a list round keeps its points.
LEMMA ReverseProperties ==
  ASSUME NEW s \in Seq(Points)
  PROVE  /\ Reverse(s) \in Seq(Points) /\ Len(Reverse(s)) = Len(s) /\ Range(Reverse(s)) = Range(s)
         /\ \A n \in 1..Len(s) : Reverse(s)[n] = s[Len(s) - n + 1]
<1>1. Len(s) \in Nat /\ DOMAIN s = 1..Len(s) /\ \A n \in 1..Len(s) : s[n] \in Points
  OBVIOUS
<1>2. Reverse(s) = [n \in 1..Len(s) |-> s[(Len(s) - n) + 1]]
  BY DEF Reverse
<1>3. \A n \in 1..Len(s) : (Len(s) - n) + 1 \in 1..Len(s)
  BY <1>1
<1>4. Reverse(s) \in Seq(Points) /\ Len(Reverse(s)) = Len(s) /\ DOMAIN Reverse(s) = 1..Len(s)
      /\ \A n \in 1..Len(s) : Reverse(s)[n] = s[(Len(s) - n) + 1]
  BY <1>1, <1>2, <1>3
<1>5. ASSUME NEW n \in 1..Len(s) PROVE s[n] \in Range(Reverse(s))
  <2>1. (Len(s) - n) + 1 \in 1..Len(s)
    BY <1>3
  <2>2. Reverse(s)[(Len(s) - n) + 1] = s[(Len(s) - ((Len(s) - n) + 1)) + 1]
    BY <1>4, <2>1
  <2>3. (Len(s) - ((Len(s) - n) + 1)) + 1 = n
    BY <1>1
  <2> QED
    BY <1>4, <2>1, <2>2, <2>3 DEF Range
<1>6. Range(s) \subseteq Range(Reverse(s))
  BY <1>1, <1>5 DEF Range
<1>7. Range(Reverse(s)) \subseteq Range(s)
  BY <1>1, <1>3, <1>4 DEF Range
<1> QED
  BY <1>4, <1>6, <1>7

\* The points of two lists, one behind the other.
LEMMA RangeConcat ==
  ASSUME NEW s \in Seq(Points), NEW t \in Seq(Points)
  PROVE  s \o t \in Seq(Points) /\ Range(s \o t) = Range(s) \cup Range(t)
         /\ Len(s \o t) = Len(s) + Len(t)
         /\ (\A n \in 1..Len(s) : (s \o t)[n] = s[n])
         /\ (\A n \in 1..Len(t) : (s \o t)[Len(s) + n] = t[n])
<1>1. s \o t \in Seq(Points) /\ Len(s \o t) = Len(s) + Len(t) /\ Len(s) \in Nat /\ Len(t) \in Nat
  OBVIOUS
<1>2. \A n \in 1..Len(s) : (s \o t)[n] = s[n]
  OBVIOUS
<1>3. ASSUME NEW n \in 1..Len(t) PROVE (s \o t)[Len(s) + n] = t[n]
  OBVIOUS
<1>4. \A n \in 1..(Len(s) + Len(t)) : n \in 1..Len(s) \/ \E m \in 1..Len(t) : n = Len(s) + m
  <2>1. ASSUME NEW n \in 1..(Len(s) + Len(t)), n \notin 1..Len(s) PROVE \E m \in 1..Len(t) : n = Len(s) + m
    <3>1. n - Len(s) \in 1..Len(t) /\ n = Len(s) + (n - Len(s))
      BY <1>1, <2>1
    <3> QED
      BY <3>1
  <2> QED
    BY <2>1
<1>5. Range(s \o t) \subseteq Range(s) \cup Range(t)
  BY <1>1, <1>2, <1>3, <1>4 DEF Range
<1>6. Range(s) \subseteq Range(s \o t)
  BY <1>1, <1>2 DEF Range
<1>7. Range(t) \subseteq Range(s \o t)
  <2>1. ASSUME NEW n \in 1..Len(t) PROVE t[n] \in Range(s \o t)
    <3>1. Len(s) + n \in DOMAIN (s \o t)
      BY <1>1
    <3> QED
      BY <1>3, <3>1 DEF Range
  <2> QED
    BY <2>1, SMTT(30) DEF Range
<1> QED
  BY <1>1, <1>2, <1>3, <1>5, <1>6, <1>7

\* The list with one point, and the empty one.
LEMMA SmallLists ==
  /\ \A p \in Points : <<p>> \in Seq(Points) /\ Len(<<p>>) = 1 /\ <<p>>[1] = p /\ Range(<<p>>) = {p}
  /\ <<>> \in Seq(Points) /\ Range(<<>>) = {} /\ Len(<<>>) = 0
BY DEF Range

\* What a file takes of a batch is points of the batch.
LEMMA TakenPoints == \A batch \in Seq(Points) : Taken(batch) \subseteq Range(batch) /\ Range(batch) \subseteq Points
BY DEF Taken, Range

-----------------------------------------------------------------------------
(* The shape of the state *)

WorkerStates == [at : {"idle", "send", "sending", "fetch", "fetching", "write", "clear"},
                 batch : Seq(Points), try : 0..Tries, miss : BOOLEAN, body : SUBSET Points]

\* What whoever is at work holds: the list of a series is there before anybody
\* works for it, nobody holds a batch he does not flush or send, a call that is
\* waited for is that of the batch in hand, and a list that is not missing, as
\* it is or as somebody has read it, has its file.
Shape ==
  /\ TypeOK
  /\ ~cache.there => /\ cache.items = <<>> /\ pulls = 0 /\ sync = Idle
                     /\ \A w \in Workers : worker[w] = Free
  /\ sync.at = "idle" => sync = Idle
  /\ stop.at # "flush" => stop.batch = <<>>
  /\ \A w \in Workers : /\ worker[w].at # "sending" => worker[w].batch = <<>>
                        /\ worker[w].at # "idle" /\ ~worker[w].miss => disk.there
  /\ \A q \in sends : q.live => worker[q.w].at = "sending" /\ q.items = worker[q.w].batch
  /\ cache.there /\ ~cache.miss => disk.there
  /\ \A g \in goes : g.at = "set" /\ ~g.miss => disk.there
  /\ sync.at = "flush" => disk.there
  /\ stop.at # "idle" => restarts > 0

\* A node starts with nothing in memory.
LEMMA ShapeInit == Init => Shape
<1> SUFFICES ASSUME Init PROVE Shape
  OBVIOUS
<1> USE CacheAssumption DEF Init, NoList, Idle, Free
<1>1. /\ arrived \in OldLast..MaxPoint /\ restarts \in 0..MaxRestarts /\ pulls \in 0..MaxPulls
      /\ old \subseteq Points /\ gone \subseteq Points /\ astray \subseteq Points
  BY DEF Points
<1>2. /\ cache \in [there : BOOLEAN, items : Seq(Points), miss : BOOLEAN]
      /\ disk \in [there : BOOLEAN, points : SUBSET Points]
      /\ sync \in [at : {"idle", "flush"}, batch : Seq(Points)]
      /\ stop \in [at : {"idle", "flush", "exit"}, batch : Seq(Points)]
  BY SmallLists
<1>3. worker \in [Workers -> WorkerStates]
  BY SmallLists DEF WorkerStates
<1> QED
  BY <1>1, <1>2, <1>3 DEF Shape, TypeOK, WorkerStates

\* A worker that takes another state.
LEMMA WorkerSteps ==
  ASSUME Shape, NEW w \in Workers, NEW st \in WorkerStates, worker' = [worker EXCEPT ![w] = st],
         st.at # "sending" => st.batch = <<>>,
         st.at # "idle" /\ ~st.miss => disk'.there, disk.there => disk'.there
  PROVE  /\ worker' \in [Workers -> WorkerStates]
         /\ worker'[w] = st /\ \A u \in Workers : u # w => worker'[u] = worker[u]
         /\ \A u \in Workers : /\ worker'[u].at # "sending" => worker'[u].batch = <<>>
                               /\ worker'[u].at # "idle" /\ ~worker'[u].miss => disk'.there
BY SMTT(30) DEF Shape, TypeOK, WorkerStates

\* What is known of a worker with a task.
LEMMA AtWork ==
  ASSUME Shape, NEW w \in Workers, worker[w].at # "idle"
  PROVE  /\ worker[w] \in WorkerStates /\ worker[w].batch \in Seq(Points)
         /\ cache.there /\ disk.there \in BOOLEAN
         /\ worker[w].miss \in BOOLEAN /\ (~worker[w].miss => disk.there)
<1>1. worker[w] \in WorkerStates /\ disk.there \in BOOLEAN
  BY DEF Shape, TypeOK, WorkerStates
<1>2. cache.there
  BY DEF Shape, Free
<1> QED
  BY <1>1, <1>2 DEF Shape, WorkerStates

\* The calls that are waited for, when a worker with no call takes another state.
LEMMA CallsKept ==
  ASSUME Shape, NEW w \in Workers, worker[w].at # "sending", UNCHANGED sends,
         \A u \in Workers : u # w => worker'[u] = worker[u]
  PROVE  \A q \in sends' : q.live => worker'[q.w].at = "sending" /\ q.items = worker'[q.w].batch
<1>1. \A q \in sends : q.w \in Workers
  BY DEF Shape, TypeOK
<1> QED
  BY <1>1 DEF Shape

GoStates == [point : Points, at : {"first", "push", "set"}, miss : BOOLEAN]

\* A goroutine that goes on, or ends.
LEMMA GoSteps ==
  ASSUME Shape, NEW g \in goes, NEW h \in GoStates, goes' = goes \ {g} \/ goes' = (goes \ {g}) \cup {h},
         h.at = "set" /\ ~h.miss => disk.there, UNCHANGED disk
  PROVE  goes' \subseteq GoStates /\ \A x \in goes' : x.at = "set" /\ ~x.miss => disk'.there
BY DEF Shape, TypeOK, GoStates

SendStates == [w : Workers, items : Seq(Points), live : BOOLEAN]

\* After a call of w has ended, what is on the wire of it is not waited for.
LEMMA CallEnds ==
  ASSUME Shape, NEW w \in Workers, NEW left \in {sends \ Live(w), Unheard(w)}
  PROVE  /\ left \subseteq SendStates
         /\ \A q \in left : q.live => q \in sends /\ q.w # w
         /\ \A q \in left : \E r \in sends : q.items = r.items
<1>1. sends \subseteq SendStates
  BY DEF Shape, TypeOK, SendStates
<1>2. CASE left = sends \ Live(w)
  BY <1>1, <1>2 DEF Live, SendStates
<1>3. CASE left = Unheard(w)
  <2>1. ASSUME NEW q \in left
        PROVE  q \in SendStates /\ (q.live => q \in sends /\ q.w # w) /\ \E r \in sends : q.items = r.items
    <3>1. CASE q \in sends \ Live(w)
      BY <1>1, <3>1 DEF Live, SendStates
    <3>2. CASE q \in {[r EXCEPT !.live = FALSE] : r \in Live(w)}
      <4>1. PICK r \in Live(w) : q = [r EXCEPT !.live = FALSE]
        BY <3>2
      <4>2. r \in sends /\ r \in SendStates
        BY <1>1 DEF Live
      <4> QED
        BY <4>1, <4>2 DEF SendStates
    <3> QED
      BY <1>3, <3>1, <3>2 DEF Unheard
  <2> QED
    BY <2>1
<1> QED
  BY <1>2, <1>3

\* Every action keeps the shape.
LEMMA ShapeStep == Shape /\ [Next]_vars => Shape'
<1> SUFFICES ASSUME Shape, [Next]_vars PROVE Shape'
  OBVIOUS
<1> USE CacheAssumption DEF peer, history
<1>t. TypeOK /\ Shape
  BY DEF Shape
<1>1. CASE Send
  <2> DEFINE h == [point |-> arrived + 1, at |-> "first", miss |-> FALSE]
  <2>1. arrived' \in OldLast..MaxPoint /\ h \in GoStates /\ h.at # "set"
    BY <1>t, <1>1 DEF Send, Points, TypeOK, GoStates
  <2>2. goes' = goes \cup {h} /\ UNCHANGED <<restarts, cache, disk, sync, stop, pulls, worker, peer, history>>
    BY <1>1 DEF Send
  <2> HIDE DEF h
  <2>3. goes' \subseteq GoStates /\ \A x \in goes' : x.at = "set" /\ ~x.miss => disk'.there
    BY <1>t, <2>1, <2>2 DEF Shape, TypeOK, GoStates
  <2> QED
    BY <1>t, <2>1, <2>2, <2>3 DEF Shape, TypeOK, GoStates
<1>2. ASSUME NEW g \in goes, First(g) PROVE Shape'
  <2> DEFINE h == [g EXCEPT !.at = "push"]
  <2>1. g \in GoStates /\ h \in GoStates /\ h.at # "set"
    <3>1. g \in GoStates
      BY <1>t DEF TypeOK, GoStates
    <3> QED
      BY <3>1 DEF GoStates
  <2>2. /\ goes' = goes \ {g} \/ goes' = (goes \ {g}) \cup {h}
        /\ gone' \subseteq gone \cup {g.point}
        /\ UNCHANGED <<arrived, restarts, cache, disk, sync, stop, pulls, worker, peer, astray>>
    BY <1>2 DEF First
  <2> HIDE DEF h
  <2>3. goes' \subseteq GoStates /\ \A x \in goes' : x.at = "set" /\ ~x.miss => disk'.there
    BY <1>t, <2>1, <2>2, GoSteps
  <2> QED
    BY <1>t, <2>1, <2>2, <2>3 DEF Shape, TypeOK, GoStates
<1>3. ASSUME NEW g \in goes, PushFront(g) PROVE Shape'
  <2> DEFINE h == [g EXCEPT !.at = "set", !.miss = ~disk.there]
  <2>1. g \in GoStates /\ h \in GoStates /\ (~h.miss => disk.there)
    <3>1. g \in GoStates /\ disk.there \in BOOLEAN /\ (~disk.there) \in BOOLEAN
      BY <1>t DEF TypeOK, GoStates
    <3>2. h.miss = ~disk.there /\ h \in GoStates
      BY <3>1 DEF GoStates
    <3> QED
      BY <3>1, <3>2
  <2>2. /\ goes' = goes \ {g} \/ goes' = (goes \ {g}) \cup {h}
        /\ cache' = cache \/ (cache.there /\ cache' = [cache EXCEPT !.items = <<g.point>> \o cache.items])
        /\ UNCHANGED <<arrived, restarts, disk, sync, stop, pulls, worker, peer, history>>
    <3>1. CASE cache.there
      BY <1>3, <3>1 DEF PushFront
    <3>2. CASE ~cache.there
      BY <1>3, <3>2 DEF PushFront
    <3> QED
      BY <3>1, <3>2
  <2> HIDE DEF h
  <2>3. goes' \subseteq GoStates /\ \A x \in goes' : x.at = "set" /\ ~x.miss => disk'.there
    BY <1>t, <2>1, <2>2, GoSteps
  <2>4. <<g.point>> \o cache.items \in Seq(Points)
    BY <1>t, <2>1, SmallLists, RangeConcat DEF TypeOK, GoStates
  <2>5. /\ cache' \in [there : BOOLEAN, items : Seq(Points), miss : BOOLEAN]
        /\ cache'.there = cache.there /\ cache'.miss = cache.miss /\ (~cache.there => cache' = cache)
    BY <1>t, <2>2, <2>4 DEF TypeOK
  <2> QED
    BY <1>t, <2>2, <2>3, <2>5 DEF Shape, TypeOK, GoStates
<1>4. ASSUME NEW g \in goes, Set(g) PROVE Shape'
  <2>1. <<g.point>> \in Seq(Points) /\ Range(cache.items) \subseteq Points /\ g \in GoStates
    BY <1>t, SmallLists, TakenPoints DEF TypeOK, GoStates
  <2>2. /\ cache' = [there |-> TRUE, items |-> <<g.point>>, miss |-> g.miss]
        /\ goes' = goes \ {g} /\ g.at = "set" /\ gone' = gone \cup Range(cache.items)
        /\ UNCHANGED <<arrived, restarts, disk, sync, stop, pulls, worker, peer, astray>>
    BY <1>4 DEF Set
  <2>3. cache' \in [there : BOOLEAN, items : Seq(Points), miss : BOOLEAN] /\ cache'.there /\ cache'.miss = g.miss
    BY <2>1, <2>2 DEF GoStates
  <2> QED
    BY <1>t, <2>1, <2>2, <2>3 DEF Shape, TypeOK
<1>5. CASE PullByKey
  <2>1. pulls' \in 0..MaxPulls /\ cache.there
    BY <1>t, <1>5 DEF PullByKey, Shape, TypeOK
  <2> QED
    BY <1>t, <1>5, <2>1 DEF PullByKey, Shape, TypeOK
<1>6. CASE CommitByKey
  <2>1. PopAll \in Seq(Points) /\ <<>> \in Seq(Points)
    BY <1>t, ReverseProperties, SmallLists DEF PopAll, TypeOK
  <2>2. /\ cache' = [cache EXCEPT !.items = <<>>] /\ sync' = [at |-> "flush", batch |-> PopAll]
        /\ ~cache.miss /\ cache.items # <<>>
        /\ UNCHANGED <<arrived, restarts, disk, goes, stop, pulls, worker, peer, history>>
    BY <1>6 DEF CommitByKey, Emptied
  <2>3. /\ cache' \in [there : BOOLEAN, items : Seq(Points), miss : BOOLEAN]
        /\ cache'.there = cache.there /\ cache'.miss = cache.miss /\ cache'.items = <<>>
    BY <1>t, <2>1, <2>2 DEF TypeOK
  <2>4. cache.there /\ disk.there
    BY <1>t, <2>2 DEF Shape
  <2> HIDE DEF PopAll
  <2> QED
    BY <1>t, <2>1, <2>2, <2>3, <2>4 DEF Shape, TypeOK
<1>7. CASE SyncFlush
  <2>1. Taken(sync.batch) \subseteq Points /\ Range(sync.batch) \subseteq Points
    BY <1>t, TakenPoints DEF TypeOK
  <2>2. /\ disk' = [there |-> TRUE, points |-> disk.points \cup Taken(sync.batch)]
        /\ gone' = gone \cup (Range(sync.batch) \ Taken(sync.batch))
        /\ sync' = [at |-> "idle", batch |-> <<>>] /\ sync.at = "flush"
        /\ UNCHANGED <<arrived, restarts, cache, goes, stop, pulls, worker, peer, astray>>
    BY <1>7 DEF SyncFlush, FlushFile, Idle
  <2> QED
    BY <1>t, <2>1, <2>2, SmallLists DEF Shape, TypeOK, Idle
<1>8. ASSUME NEW w \in Workers, NEW busy \in BOOLEAN, TakePull(w, busy) PROVE Shape'
  <2> DEFINE st == IF cache.there
                   THEN [Free EXCEPT !.at = IF busy THEN "send" ELSE "fetch", !.miss = cache.miss]
                   ELSE Free
  <2>1. st \in WorkerStates /\ st.batch = <<>> /\ (st.at # "idle" => cache.there /\ st.miss = cache.miss)
        /\ (~cache.there => st = Free)
    <3>1. /\ Free \in WorkerStates /\ Free.batch = <<>> /\ Free.at = "idle"
          /\ cache.there \in BOOLEAN /\ cache.miss \in BOOLEAN
      BY <1>t, SmallLists DEF TypeOK, WorkerStates, Free
    <3>2. CASE ~cache.there
      BY <3>1, <3>2
    <3>3. CASE cache.there
      BY <3>1, <3>3 DEF WorkerStates
    <3> QED
      BY <3>1, <3>2, <3>3
  <2>2. /\ worker' = [worker EXCEPT ![w] = st] /\ pulls > 0 /\ pulls' = pulls - 1 /\ worker[w].at = "idle"
        /\ UNCHANGED <<arrived, restarts, cache, disk, goes, sync, stop, peer, history>>
    BY <1>8 DEF TakePull
  <2> HIDE DEF st
  <2>3. st.at # "idle" /\ ~st.miss => disk.there
    BY <1>t, <2>1 DEF Shape
  <2>4. /\ worker' \in [Workers -> WorkerStates]
        /\ worker'[w] = st /\ \A u \in Workers : u # w => worker'[u] = worker[u]
        /\ \A u \in Workers : /\ worker'[u].at # "sending" => worker'[u].batch = <<>>
                              /\ worker'[u].at # "idle" /\ ~worker'[u].miss => disk'.there
    BY <1>t, <2>1, <2>2, <2>3, WorkerSteps
  <2>5. pulls' \in 0..MaxPulls /\ cache.there
    BY <1>t, <2>2 DEF Shape, TypeOK
  <2>6. \A q \in sends : q.live => worker'[q.w].at = "sending" /\ q.items = worker'[q.w].batch
    BY <1>t, <2>2, <2>4 DEF Shape, TypeOK
  <2> QED
    BY <1>t, <2>2, <2>4, <2>5, <2>6 DEF Shape, TypeOK, WorkerStates
<1>9. ASSUME NEW w \in Workers, SetFlag(w) PROVE Shape'
  <2>1. Free \in WorkerStates /\ Free.at = "idle" /\ Free.batch = <<>>
    BY SmallLists DEF WorkerStates, Free
  <2>2. /\ worker' = [worker EXCEPT ![w] = Free] /\ worker[w].at = "clear"
        /\ cache' = WithFlag(worker[w].miss)
        /\ UNCHANGED <<arrived, restarts, disk, goes, sync, stop, pulls, peer, history>>
    BY <1>9 DEF SetFlag
  <2>3. /\ worker' \in [Workers -> WorkerStates]
        /\ worker'[w] = Free /\ \A u \in Workers : u # w => worker'[u] = worker[u]
        /\ \A u \in Workers : /\ worker'[u].at # "sending" => worker'[u].batch = <<>>
                              /\ worker'[u].at # "idle" /\ ~worker'[u].miss => disk'.there
    BY <1>t, <2>1, <2>2, WorkerSteps
  <2>4. cache.there /\ worker[w].miss \in BOOLEAN /\ (~worker[w].miss => disk.there)
    <3>1. worker[w] # Free
      BY <2>1, <2>2
    <3> QED
      BY <1>t, <2>2, <3>1 DEF Shape, TypeOK
  <2>5. /\ cache' \in [there : BOOLEAN, items : Seq(Points), miss : BOOLEAN]
        /\ cache'.there /\ cache'.items = cache.items /\ cache'.miss = worker[w].miss
    BY <1>t, <2>2, <2>4 DEF TypeOK, WithFlag
  <2>6. \A q \in sends : q.live => worker'[q.w].at = "sending" /\ q.items = worker'[q.w].batch
    BY <1>t, <2>2, <2>3 DEF Shape, TypeOK
  <2> QED
    BY <1>t, <2>2, <2>3, <2>4, <2>5, <2>6 DEF Shape, TypeOK, WorkerStates
<1>10. ASSUME NEW w \in Workers, SendPop(w) PROVE Shape'
  <2>1. PopAll \in Seq(Points) /\ <<>> \in Seq(Points)
    BY <1>t, ReverseProperties, SmallLists DEF PopAll, TypeOK
  <2>2. worker[w].at = "send" /\ cache' = [WithFlag(worker[w].miss) EXCEPT !.items = <<>>]
        /\ UNCHANGED <<arrived, restarts, disk, goes, sync, stop, pulls, old, history>>
    BY <1>10 DEF SendPop
  <2>3. cache.there /\ worker[w].miss \in BOOLEAN /\ (~worker[w].miss => disk.there) /\ worker[w] \in WorkerStates
        /\ worker[w].batch = <<>>
    BY <1>t, <2>2, SMTT(30) DEF Shape, TypeOK, Free, WorkerStates
  <2>4. /\ cache' \in [there : BOOLEAN, items : Seq(Points), miss : BOOLEAN]
        /\ cache'.there /\ cache'.items = <<>> /\ cache'.miss = worker[w].miss
    BY <1>t, <2>1, <2>2, <2>3 DEF TypeOK, WithFlag
  <2>5. \E st \in WorkerStates :
          /\ worker' = [worker EXCEPT ![w] = st] /\ st.miss = worker[w].miss
          /\ \/ st.at = "clear" /\ st.batch = <<>> /\ sends' = sends
             \/ st.at = "sending" /\ st.batch = PopAll /\ sends' = sends \cup {Request(w, PopAll)}
    <3>1. CASE cache.items = <<>>
      <4>1. worker' = [worker EXCEPT ![w] = [worker[w] EXCEPT !.at = "clear"]] /\ sends' = sends
        BY <1>10, <3>1 DEF SendPop
      <4>2. [worker[w] EXCEPT !.at = "clear"] \in WorkerStates
        BY <2>3 DEF WorkerStates
      <4> QED
        BY <2>3, <4>1, <4>2 DEF WorkerStates
    <3>2. CASE cache.items # <<>>
      <4> DEFINE st == [worker[w] EXCEPT !.at = "sending", !.batch = PopAll, !.try = 1]
      <4>1. sends' = sends \cup {Request(w, PopAll)}
            /\ worker' = [worker EXCEPT ![w].at = "sending", ![w].batch = PopAll, ![w].try = 1]
        BY <1>10, <3>2 DEF SendPop
      <4> HIDE DEF PopAll
      <4>2. st \in WorkerStates /\ st.miss = worker[w].miss /\ st.at = "sending" /\ st.batch = PopAll
        <5>1. 1 \in 0..Tries
          OBVIOUS
        <5> QED
          BY <2>1, <2>3, <5>1 DEF WorkerStates
      <4>3. worker' = [worker EXCEPT ![w] = st]
        BY <1>t, <4>1 DEF TypeOK
      <4> HIDE DEF st
      <4> QED
        BY <4>1, <4>2, <4>3
    <3> QED
      BY <3>1, <3>2
  <2>6. PICK st \in WorkerStates :
          /\ worker' = [worker EXCEPT ![w] = st] /\ st.miss = worker[w].miss
          /\ \/ st.at = "clear" /\ st.batch = <<>> /\ sends' = sends
             \/ st.at = "sending" /\ st.batch = PopAll /\ sends' = sends \cup {Request(w, PopAll)}
    BY <2>5
  <2>7. /\ worker' \in [Workers -> WorkerStates]
        /\ worker'[w] = st /\ \A u \in Workers : u # w => worker'[u] = worker[u]
        /\ \A u \in Workers : /\ worker'[u].at # "sending" => worker'[u].batch = <<>>
                              /\ worker'[u].at # "idle" /\ ~worker'[u].miss => disk'.there
    BY <1>t, <2>2, <2>3, <2>6, WorkerSteps
  <2>8. /\ Request(w, PopAll) \in SendStates /\ Request(w, PopAll).w = w /\ Request(w, PopAll).items = PopAll
        /\ \A q \in sends : q.live => worker[q.w].at = "sending" /\ q.items = worker[q.w].batch /\ q.w \in Workers
        /\ sends \subseteq SendStates
    BY <1>t, <2>1 DEF Shape, TypeOK, Request, SendStates
  <2> HIDE DEF PopAll, Request
  <2>9. /\ sends' \subseteq SendStates
        /\ \A q \in sends' : q.live => worker'[q.w].at = "sending" /\ q.items = worker'[q.w].batch
    BY <2>2, <2>6, <2>7, <2>8
  <2> QED
    BY <1>t, <2>2, <2>3, <2>4, <2>7, <2>9 DEF Shape, TypeOK, WorkerStates, SendStates
<1>11. ASSUME NEW w \in Workers, SendOk(w) PROVE Shape'
  <2> DEFINE st == [worker[w] EXCEPT !.at = "clear", !.batch = <<>>]
  <2>1. /\ worker[w].at = "sending" /\ sends' = Unheard(w)
        /\ worker' = [worker EXCEPT ![w].at = "clear", ![w].batch = <<>>]
        /\ UNCHANGED <<arrived, restarts, cache, disk, goes, sync, stop, pulls, old, history>>
    BY <1>11 DEF SendOk
  <2>2. worker' = [worker EXCEPT ![w] = st] /\ st \in WorkerStates /\ st.batch = <<>> /\ st.at = "clear"
        /\ st.miss = worker[w].miss /\ cache.there
    <3>1. worker[w] \in WorkerStates /\ cache.there
      BY <1>t, <2>1, AtWork
    <3>2. st \in WorkerStates /\ st.batch = <<>> /\ st.at = "clear" /\ st.miss = worker[w].miss
      BY <3>1, SmallLists DEF WorkerStates
    <3>3. worker' = [worker EXCEPT ![w] = st]
      BY <1>t, <2>1 DEF TypeOK
    <3> QED
      BY <3>1, <3>2, <3>3
  <2> HIDE DEF st
  <2>3. /\ worker' \in [Workers -> WorkerStates]
        /\ worker'[w] = st /\ \A u \in Workers : u # w => worker'[u] = worker[u]
        /\ \A u \in Workers : /\ worker'[u].at # "sending" => worker'[u].batch = <<>>
                              /\ worker'[u].at # "idle" /\ ~worker'[u].miss => disk'.there
    BY <1>t, <2>1, <2>2, WorkerSteps, ZenonT(40) DEF Shape
  <2>4. /\ sends' \subseteq SendStates
        /\ \A q \in sends' : q.live => worker'[q.w].at = "sending" /\ q.items = worker'[q.w].batch
    <3>1. sends' \subseteq SendStates /\ \A q \in sends' : q.live => q \in sends /\ q.w # w
      BY <1>t, <2>1, CallEnds
    <3> QED
      BY <1>t, <2>3, <3>1 DEF Shape, SendStates
  <2> QED
    BY <1>t, <2>1, <2>2, <2>3, <2>4 DEF Shape, TypeOK, WorkerStates, SendStates
<1>12. ASSUME NEW w \in Workers, SendAgain(w) PROVE Shape'
  <2> DEFINE st == [worker[w] EXCEPT !.try = @ + 1]
             q == Request(w, worker[w].batch)
  <2>1. /\ worker[w].at = "sending" /\ worker[w].try < Tries /\ \E left \in SendsLeft(w) : sends' = left \cup {q}
        /\ worker' = [worker EXCEPT ![w].try = @ + 1]
        /\ UNCHANGED <<arrived, restarts, cache, disk, goes, sync, stop, pulls, old, history>>
    BY <1>12 DEF SendAgain
  <2>2. worker' = [worker EXCEPT ![w] = st] /\ st \in WorkerStates /\ st.batch = worker[w].batch /\ st.at = "sending"
        /\ st.miss = worker[w].miss /\ cache.there
    <3>1. worker[w] \in WorkerStates /\ cache.there
      BY <1>t, <2>1, AtWork
    <3>2. worker[w].try + 1 \in 0..Tries
      BY <3>1, <2>1 DEF WorkerStates
    <3>3. st \in WorkerStates /\ st.batch = worker[w].batch /\ st.at = "sending" /\ st.miss = worker[w].miss
      BY <2>1, <3>1, <3>2 DEF WorkerStates
    <3>4. worker' = [worker EXCEPT ![w] = st]
      BY <1>t, <2>1 DEF TypeOK
    <3> QED
      BY <3>1, <3>3, <3>4
  <2>3. q \in SendStates /\ q.w = w /\ q.items = worker[w].batch
    BY <1>t DEF TypeOK, Request, SendStates
  <2> HIDE DEF st, q
  <2>4. /\ worker' \in [Workers -> WorkerStates]
        /\ worker'[w] = st /\ \A u \in Workers : u # w => worker'[u] = worker[u]
        /\ \A u \in Workers : /\ worker'[u].at # "sending" => worker'[u].batch = <<>>
                              /\ worker'[u].at # "idle" /\ ~worker'[u].miss => disk'.there
    BY <1>t, <2>1, <2>2, WorkerSteps, ZenonT(40) DEF Shape
  <2>5. PICK left \in {sends \ Live(w), Unheard(w)} : sends' = left \cup {q}
    BY <2>1 DEF SendsLeft
  <2>6. /\ sends' \subseteq SendStates
        /\ \A r \in sends' : r.live => worker'[r.w].at = "sending" /\ r.items = worker'[r.w].batch
    <3>1. left \subseteq SendStates /\ \A r \in left : r.live => r \in sends /\ r.w # w
      BY <1>t, CallEnds
    <3> QED
      BY <1>t, <2>2, <2>3, <2>4, <2>5, <3>1 DEF Shape, SendStates
  <2> QED
    BY <1>t, <2>1, <2>2, <2>4, <2>6 DEF Shape, TypeOK, WorkerStates, SendStates
<1>13. ASSUME NEW w \in Workers, SendFailed(w) PROVE Shape'
  <2> DEFINE st == [worker[w] EXCEPT !.at = "clear", !.batch = <<>>]
  <2>1. /\ worker[w].at = "sending" /\ sends' \in SendsLeft(w) /\ astray' = astray \cup Range(worker[w].batch)
        /\ worker' = [worker EXCEPT ![w].at = "clear", ![w].batch = <<>>]
        /\ UNCHANGED <<arrived, restarts, disk, goes, sync, stop, pulls, old>>
    BY <1>13 DEF SendFailed
  <2>2. worker' = [worker EXCEPT ![w] = st] /\ st \in WorkerStates /\ st.batch = <<>> /\ st.at = "clear"
        /\ st.miss = worker[w].miss /\ cache.there /\ worker[w].batch \in Seq(Points)
    <3>1. worker[w] \in WorkerStates /\ cache.there /\ worker[w].batch \in Seq(Points)
      BY <1>t, <2>1, AtWork
    <3>2. st \in WorkerStates /\ st.batch = <<>> /\ st.at = "clear" /\ st.miss = worker[w].miss
      BY <3>1, SmallLists DEF WorkerStates
    <3>3. worker' = [worker EXCEPT ![w] = st]
      BY <1>t, <2>1 DEF TypeOK
    <3> QED
      BY <3>1, <3>2, <3>3
  <2> HIDE DEF st
  <2>3. cache' = [cache EXCEPT !.items = cache.items \o Reverse(worker[w].batch)] /\ UNCHANGED gone
    BY <1>13, <2>2 DEF SendFailed, PushAll
  <2>4. /\ cache' \in [there : BOOLEAN, items : Seq(Points), miss : BOOLEAN]
        /\ cache'.there /\ cache'.miss = cache.miss
    <3>1. cache.items \o Reverse(worker[w].batch) \in Seq(Points)
      BY <1>t, <2>2, ReverseProperties, RangeConcat DEF TypeOK
    <3> QED
      BY <1>t, <2>2, <2>3, <3>1 DEF TypeOK
  <2>5. /\ worker' \in [Workers -> WorkerStates]
        /\ worker'[w] = st /\ \A u \in Workers : u # w => worker'[u] = worker[u]
        /\ \A u \in Workers : /\ worker'[u].at # "sending" => worker'[u].batch = <<>>
                              /\ worker'[u].at # "idle" /\ ~worker'[u].miss => disk'.there
    BY <1>t, <2>1, <2>2, WorkerSteps, ZenonT(40) DEF Shape
  <2>6. /\ sends' \subseteq SendStates
        /\ \A q \in sends' : q.live => worker'[q.w].at = "sending" /\ q.items = worker'[q.w].batch
    <3>1. sends' \in {sends \ Live(w), Unheard(w)}
      BY <2>1 DEF SendsLeft
    <3>2. sends' \subseteq SendStates /\ \A q \in sends' : q.live => q \in sends /\ q.w # w
      BY <1>t, <3>1, CallEnds
    <3> QED
      BY <1>t, <2>5, <3>2 DEF Shape, SendStates
  <2>7. astray' \subseteq Points
    BY <1>t, <2>1, <2>2, TakenPoints DEF TypeOK
  <2> QED
    BY <1>t, <2>1, <2>2, <2>3, <2>4, <2>5, <2>6, <2>7 DEF Shape, TypeOK, WorkerStates, SendStates
<1>14. ASSUME NEW q \in sends, Handle(q) PROVE Shape'
  <2>1. sends' = sends \ {q} /\ UNCHANGED <<arrived, restarts, cache, disk, goes, sync, stop, pulls, worker>>
    BY <1>14 DEF Handle
  <2>2. old' \subseteq Points /\ gone' \subseteq Points /\ astray' \subseteq Points
    <3>1. Range(q.items) \subseteq Points
      BY <1>t, TakenPoints DEF TypeOK
    <3> QED
      BY <1>t, <1>14, <3>1 DEF Handle, TypeOK
  <2> QED
    BY <1>t, <2>1, <2>2 DEF Shape, TypeOK
<1>15. ASSUME NEW w \in Workers, Fetch(w) PROVE Shape'
  <2> DEFINE st == [worker[w] EXCEPT !.at = "fetching", !.try = 1]
  <2>1. /\ worker[w].at = "fetch" /\ cache' = WithFlag(worker[w].miss)
        /\ worker' = [worker EXCEPT ![w].at = "fetching", ![w].try = 1]
        /\ UNCHANGED <<arrived, restarts, disk, goes, sync, stop, pulls, peer, history>>
    BY <1>15 DEF Fetch
  <2>2. worker[w] \in WorkerStates /\ cache.there /\ worker[w].miss \in BOOLEAN /\ (~worker[w].miss => disk.there)
        /\ worker[w].batch = <<>>
    BY <1>t, <2>1, AtWork DEF Shape
  <2>3. 1 \in 0..Tries
    OBVIOUS
  <2>4. st \in WorkerStates /\ st.batch = <<>> /\ st.at = "fetching" /\ st.miss = worker[w].miss
    BY <2>2, <2>3 DEF WorkerStates
  <2>5. worker' = [worker EXCEPT ![w] = st]
    BY <1>t, <2>1 DEF TypeOK
  <2> HIDE DEF st
  <2>6. /\ worker' \in [Workers -> WorkerStates]
        /\ worker'[w] = st /\ \A u \in Workers : u # w => worker'[u] = worker[u]
        /\ \A u \in Workers : /\ worker'[u].at # "sending" => worker'[u].batch = <<>>
                              /\ worker'[u].at # "idle" /\ ~worker'[u].miss => disk'.there
    BY <1>t, <2>1, <2>2, <2>4, <2>5, WorkerSteps
  <2>7. /\ cache' \in [there : BOOLEAN, items : Seq(Points), miss : BOOLEAN]
        /\ cache'.there /\ cache'.items = cache.items /\ cache'.miss = worker[w].miss
    BY <1>t, <2>1, <2>2 DEF TypeOK, WithFlag
  <2>8. \A q \in sends : q.live => worker'[q.w].at = "sending" /\ q.items = worker'[q.w].batch
    BY <1>t, <2>1, <2>6, SMTT(30) DEF Shape, TypeOK
  <2> QED
    BY <1>t, <2>1, <2>2, <2>6, <2>7, <2>8 DEF Shape, TypeOK, WorkerStates
<1>16. ASSUME NEW w \in Workers, FetchOk(w) \/ FetchFailed(w) PROVE Shape'
  <2>1. /\ worker[w].at = "fetching"
        /\ UNCHANGED <<arrived, restarts, cache, disk, goes, sync, stop, pulls, peer, history>>
    BY <1>16 DEF FetchOk, FetchFailed
  <2>2. worker[w] \in WorkerStates /\ cache.there /\ worker[w].miss \in BOOLEAN /\ (~worker[w].miss => disk.there)
        /\ worker[w].batch = <<>>
    BY <1>t, <2>1, AtWork DEF Shape
  <2>3. \E st \in WorkerStates : /\ worker' = [worker EXCEPT ![w] = st] /\ st.batch = <<>> /\ st.at # "idle"
                                 /\ st.at # "sending" /\ st.miss = worker[w].miss
    <3>1. CASE FetchOk(w)
      <4> DEFINE st == [worker[w] EXCEPT !.at = "write", !.body = old]
      <4>1. worker' = [worker EXCEPT ![w] = st]
        BY <1>t, <3>1 DEF TypeOK, FetchOk
      <4>2. st \in WorkerStates /\ st.batch = <<>> /\ st.at = "write" /\ st.miss = worker[w].miss
        BY <1>t, <2>2 DEF WorkerStates, TypeOK
      <4> QED
        BY <4>1, <4>2
    <3>2. CASE FetchFailed(w) /\ worker[w].try < Tries
      <4> DEFINE st == [worker[w] EXCEPT !.try = @ + 1]
      <4>1. worker' = [worker EXCEPT ![w] = st]
        BY <3>2 DEF FetchFailed
      <4>2. worker[w].try + 1 \in 0..Tries
        BY <2>2, <3>2 DEF WorkerStates
      <4>3. st \in WorkerStates /\ st.batch = <<>> /\ st.at = "fetching" /\ st.miss = worker[w].miss
        BY <2>1, <2>2, <4>2 DEF WorkerStates
      <4> QED
        BY <4>1, <4>3
    <3>3. CASE FetchFailed(w) /\ ~(worker[w].try < Tries)
      <4> DEFINE st == [worker[w] EXCEPT !.at = "clear"]
      <4>1. worker' = [worker EXCEPT ![w] = st]
        BY <1>t, <3>3 DEF TypeOK, FetchFailed
      <4>2. st \in WorkerStates /\ st.batch = <<>> /\ st.at = "clear" /\ st.miss = worker[w].miss
        BY <2>2 DEF WorkerStates
      <4> QED
        BY <4>1, <4>2
    <3> QED
      BY <1>16, <3>1, <3>2, <3>3
  <2>4. PICK st \in WorkerStates : /\ worker' = [worker EXCEPT ![w] = st] /\ st.batch = <<>> /\ st.at # "idle"
                                   /\ st.at # "sending" /\ st.miss = worker[w].miss
    BY <2>3
  <2>5. /\ worker' \in [Workers -> WorkerStates]
        /\ worker'[w] = st /\ \A u \in Workers : u # w => worker'[u] = worker[u]
        /\ \A u \in Workers : /\ worker'[u].at # "sending" => worker'[u].batch = <<>>
                              /\ worker'[u].at # "idle" /\ ~worker'[u].miss => disk'.there
    BY <1>t, <2>1, <2>2, <2>4, WorkerSteps
  <2>6. \A q \in sends' : q.live => worker'[q.w].at = "sending" /\ q.items = worker'[q.w].batch
    <3>1. worker[w].at # "sending" /\ UNCHANGED sends
      BY <2>1
    <3> QED
      BY <1>t, <2>5, <3>1, CallsKept
  <2> QED
    BY <1>t, <2>1, <2>2, <2>5, <2>6 DEF Shape, TypeOK, WorkerStates
<1>17. ASSUME NEW w \in Workers, Write(w) PROVE Shape'
  <2>1. /\ worker[w].at = "write"
        /\ UNCHANGED <<arrived, restarts, cache, goes, sync, stop, pulls, peer, history>>
    BY <1>17 DEF Write
  <2>2. worker[w] \in WorkerStates /\ cache.there /\ worker[w].miss \in BOOLEAN /\ (~worker[w].miss => disk.there)
        /\ worker[w].batch = <<>>
    BY <1>t, <2>1, AtWork DEF Shape
  <2>3. disk' \in [there : BOOLEAN, points : SUBSET Points] /\ disk'.there
    <3>1. disk \in [there : BOOLEAN, points : SUBSET Points] /\ worker[w].body \subseteq Points
      BY <1>t, <2>2 DEF TypeOK, WorkerStates
    <3>2. CASE disk.there
      BY <1>17, <3>1, <3>2 DEF Write
    <3>3. CASE ~disk.there
      <4>1. disk' = [there |-> TRUE, points |-> worker[w].body]
        BY <1>17, <3>3 DEF Write
      <4> QED
        BY <3>1, <4>1
    <3> QED
      BY <3>2, <3>3
  <2>4. \E st \in WorkerStates : worker' = [worker EXCEPT ![w] = st] /\ st.batch = <<>> /\ st.at = "clear"
    <3>1. CASE disk.there
      <4> DEFINE st == [worker[w] EXCEPT !.at = "clear", !.body = {}]
      <4>1. worker' = [worker EXCEPT ![w] = st]
        BY <1>t, <1>17, <3>1 DEF TypeOK, Write
      <4>2. st \in WorkerStates /\ st.batch = <<>> /\ st.at = "clear"
        BY <2>2 DEF WorkerStates
      <4> QED
        BY <4>1, <4>2
    <3>2. CASE ~disk.there
      <4> DEFINE st == [worker[w] EXCEPT !.at = "clear", !.body = {}, !.miss = FALSE]
      <4>1. worker' = [worker EXCEPT ![w] = st]
        BY <1>t, <1>17, <3>2 DEF TypeOK, Write
      <4>2. st \in WorkerStates /\ st.batch = <<>> /\ st.at = "clear"
        BY <2>2 DEF WorkerStates
      <4> QED
        BY <4>1, <4>2
    <3> QED
      BY <3>1, <3>2
  <2>5. PICK st \in WorkerStates : worker' = [worker EXCEPT ![w] = st] /\ st.batch = <<>> /\ st.at = "clear"
    BY <2>4
  <2>6. /\ worker' \in [Workers -> WorkerStates]
        /\ worker'[w] = st /\ \A u \in Workers : u # w => worker'[u] = worker[u]
        /\ \A u \in Workers : /\ worker'[u].at # "sending" => worker'[u].batch = <<>>
                              /\ worker'[u].at # "idle" /\ ~worker'[u].miss => disk'.there
    BY <1>t, <2>3, <2>5, WorkerSteps
  <2>7. \A q \in sends' : q.live => worker'[q.w].at = "sending" /\ q.items = worker'[q.w].batch
    <3>1. worker[w].at # "sending" /\ UNCHANGED sends
      BY <2>1
    <3> QED
      BY <1>t, <2>6, <3>1, CallsKept
  <2> QED
    BY <1>t, <2>1, <2>2, <2>3, <2>6, <2>7 DEF Shape, TypeOK, WorkerStates
<1>18. CASE Stop
  <2>1. PopAll \in Seq(Points) /\ (cache.items = <<>> => PopAll = <<>>)
    BY <1>t, ReverseProperties, SmallLists DEF PopAll, TypeOK
  <2>2. /\ stop.at = "idle" /\ restarts < MaxRestarts /\ restarts' = restarts + 1
        /\ cache' = [cache EXCEPT !.items = <<>>]
        /\ stop' = [at |-> IF cache.items = <<>> THEN "exit" ELSE "flush", batch |-> PopAll]
        /\ UNCHANGED <<arrived, disk, goes, sync, pulls, worker, peer, history>>
    BY <1>18 DEF Stop, Emptied
  <2> HIDE DEF PopAll
  <2>3. /\ cache' \in [there : BOOLEAN, items : Seq(Points), miss : BOOLEAN]
        /\ cache'.there = cache.there /\ cache'.miss = cache.miss /\ cache'.items = <<>>
    BY <1>t, <2>2, SmallLists DEF TypeOK
  <2>4. /\ stop' \in [at : {"idle", "flush", "exit"}, batch : Seq(Points)]
        /\ stop'.at # "flush" => stop'.batch = <<>>
    BY <2>1, <2>2
  <2>5. restarts' \in 0..MaxRestarts /\ restarts' > 0
    BY <1>t, <2>2, SMTT(30) DEF TypeOK
  <2> QED
    BY <1>t, <2>2, <2>3, <2>4, <2>5 DEF Shape, TypeOK
<1>19. CASE StopFlush
  <2>1. Taken(stop.batch) \subseteq Points /\ Range(stop.batch) \subseteq Points
    BY <1>t, TakenPoints DEF TypeOK
  <2>2. /\ disk' = [there |-> TRUE, points |-> disk.points \cup Taken(stop.batch)]
        /\ gone' = gone \cup (Range(stop.batch) \ Taken(stop.batch))
        /\ stop' = [at |-> "exit", batch |-> <<>>] /\ stop.at = "flush"
        /\ UNCHANGED <<arrived, restarts, cache, goes, sync, pulls, worker, peer, astray>>
    BY <1>19 DEF StopFlush, FlushFile, Idle
  <2> QED
    BY <1>t, <2>1, <2>2, SmallLists DEF Shape, TypeOK, Idle
<1>20. CASE Exit \/ Kill
  <2>1. restarts' \in 0..MaxRestarts /\ Restarted
    BY <1>t, <1>20 DEF Exit, Kill, TypeOK
  <2>2. InMemory \subseteq Points
    <3>1. \A b \in Batches : Range(b) \subseteq Points
      BY <1>t, TakenPoints DEF Batches, TypeOK
    <3>2. {g.point : g \in goes} \subseteq Points /\ Range(cache.items) \subseteq Points
      BY <1>t, TakenPoints DEF TypeOK
    <3>3. ASSUME NEW p \in InMemory PROVE p \in Points
      BY <3>1, <3>2, <3>3 DEF InMemory
    <3> QED
      BY <3>3
  <2>3. gone' \subseteq Points
    BY <1>t, <2>1, <2>2 DEF Restarted, TypeOK
  <2>4. sends' \subseteq SendStates /\ \A q \in sends' : ~q.live
    <3>1. PICK lost \in SUBSET (sends \ Late) : sends' = {[q EXCEPT !.live = FALSE] : q \in sends \ lost}
      BY <2>1 DEF Restarted
    <3>2. sends \subseteq SendStates
      BY <1>t DEF TypeOK, SendStates
    <3> QED
      BY <3>1, <3>2 DEF SendStates
  <2>5. /\ cache' = NoList /\ goes' = {} /\ sync' = Idle /\ stop' = Idle
        /\ pulls' = 0 /\ worker' = [w \in Workers |-> Free] /\ UNCHANGED <<arrived, disk, old, astray>>
    BY <2>1 DEF Restarted
  <2>6. Free \in WorkerStates /\ Free.at = "idle" /\ Free.batch = <<>> /\ worker' \in [Workers -> WorkerStates]
        /\ \A w \in Workers : worker'[w] = Free
    BY <2>5, SmallLists DEF WorkerStates, Free
  <2>7. /\ cache' \in [there : BOOLEAN, items : Seq(Points), miss : BOOLEAN]
        /\ cache'.items = <<>> /\ ~cache'.there /\ sync'.at = "idle" /\ stop'.at = "idle" /\ stop'.batch = <<>>
        /\ sync' \in [at : {"idle", "flush"}, batch : Seq(Points)]
        /\ stop' \in [at : {"idle", "flush", "exit"}, batch : Seq(Points)]
        /\ pulls' \in 0..MaxPulls
    BY <2>5, SmallLists DEF NoList, Idle
  <2> QED
    BY <1>t, <2>1, <2>3, <2>4, <2>5, <2>6, <2>7 DEF Shape, TypeOK, WorkerStates, SendStates
<1>21. CASE UNCHANGED vars
  BY <1>t, <1>21 DEF vars, Shape, TypeOK
<1> QED
  BY <1>1, <1>2, <1>3, <1>4, <1>5, <1>6, <1>7, <1>8, <1>9, <1>10, <1>11, <1>12, <1>13, <1>14, <1>15, <1>16,
     <1>17, <1>18, <1>19, <1>20, <1>21
  DEF Next, HandleItems, SyncDisk, NetTask, Shutdown


-----------------------------------------------------------------------------
(* Where the points are *)

\* A point that has come so far: it is cached, in a batch, in a file, or on its
\* way to the old node.
Spot(p) ==
  \/ p \in disk.points \cup old \cup Range(cache.items) \cup Range(sync.batch) \cup Range(stop.batch)
  \/ \E w \in Workers : p \in Range(worker[w].batch)
  \/ \E q \in sends : p \in Range(q.items)

\* A point that a goroutine of handleItems has.
OfGo(p) == \E g \in goes : p = g.point

\* A body that was fetched is of the old node, and no file has no points.
Bodies == /\ \A w \in Workers : worker[w].body \subseteq old
          /\ ~disk.there => disk.points = {}

\* What a step does with the points: none leaves but for those thrown away, and
\* only a goroutine that ends brings one in.
Moved ==
  /\ arrived' = arrived /\ gone \subseteq gone'
  /\ \A h \in goes' : \E g \in goes : h.point = g.point
  /\ \A p : Spot(p) => Spot(p)' \/ p \in gone'
  /\ \A p : OfGo(p) => OfGo(p)' \/ Spot(p)' \/ p \in gone'
  /\ \A p : Spot(p)' => Spot(p) \/ \E g \in goes : p = g.point /\ goes' = goes \ {g}

\* Where a point is that is nowhere in particular.
LEMMA SpotInMemory == Shape => \A p : p \in InMemory => Spot(p) \/ OfGo(p)
<1> SUFFICES ASSUME NEW p \in InMemory PROVE Spot(p) \/ OfGo(p)
  OBVIOUS
<1>1. p \in UNION {Range(b) : b \in Batches} \/ p \in {g.point : g \in goes} \/ p \in Range(cache.items)
  BY DEF InMemory
<1>2. CASE p \in UNION {Range(b) : b \in Batches}
  BY <1>2 DEF Batches, Spot
<1> QED
  BY <1>1, <1>2 DEF Spot, OfGo

\* What a goroutine has, a list or a batch is in memory.
LEMMA MemorySpots ==
  /\ \A p : OfGo(p) \/ p \in Range(cache.items) \/ p \in Range(sync.batch) \/ p \in Range(stop.batch) => p \in InMemory
  /\ \A w \in Workers : \A p \in Range(worker[w].batch) : p \in InMemory
BY DEF InMemory, Batches, OfGo

\* The flag is no matter of the points.
LEMMA FlagOnly == TypeOK => \A m : WithFlag(m).items = cache.items /\ WithFlag(m).there = cache.there
BY DEF WithFlag, TypeOK

\* A worker that keeps its batch.
LEMMA BatchesKept ==
  ASSUME TypeOK, NEW w \in Workers, NEW st, worker' = [worker EXCEPT ![w] = st], st.batch = worker[w].batch
  PROVE  \A u \in Workers : worker'[u].batch = worker[u].batch
BY DEF TypeOK

\* The steps of a worker between its calls leave the batches alone.
LEMMA ControlKeeps ==
  ASSUME Shape, NEW w \in Workers,
         (\E busy \in BOOLEAN : TakePull(w, busy)) \/ SetFlag(w) \/ Fetch(w) \/ FetchOk(w) \/ FetchFailed(w)
  PROVE  \A u \in Workers : worker'[u].batch = worker[u].batch
<1>t. TypeOK
  BY DEF Shape
<1>1. CASE (\E busy \in BOOLEAN : TakePull(w, busy)) \/ SetFlag(w) \/ Fetch(w)
  <2>1. worker[w].batch = <<>>
    BY <1>1 DEF TakePull, SetFlag, Fetch, Shape
  <2>2. \A u \in Workers : u # w => worker'[u] = worker[u]
    BY <1>t, <1>1 DEF TakePull, SetFlag, Fetch, TypeOK
  <2>3. worker'[w].batch = <<>>
    <3>1. CASE \E busy \in BOOLEAN : TakePull(w, busy)
      <4>1. PICK busy \in BOOLEAN : TakePull(w, busy)
        BY <3>1
      <4> DEFINE st == IF cache.there
                       THEN [Free EXCEPT !.at = IF busy THEN "send" ELSE "fetch", !.miss = cache.miss]
                       ELSE Free
      <4>2. worker' = [worker EXCEPT ![w] = st]
        BY <4>1 DEF TakePull
      <4>3. st.batch = <<>>
        BY DEF Free
      <4> HIDE DEF st
      <4> QED
        BY <1>t, <4>2, <4>3 DEF TypeOK
    <3>2. CASE SetFlag(w) \/ Fetch(w)
      BY <1>t, <2>1, <3>2 DEF SetFlag, Fetch, Free, TypeOK
    <3> QED
      BY <1>1, <3>1, <3>2
  <2> QED
    BY <2>1, <2>2, <2>3
<1>2. CASE FetchOk(w) \/ FetchFailed(w)
  <2>1. \E st : worker' = [worker EXCEPT ![w] = st] /\ st.batch = worker[w].batch
    <3>1. CASE FetchOk(w)
      <4>1. worker' = [worker EXCEPT ![w] = [worker[w] EXCEPT !.at = "write", !.body = old]]
        BY <3>1 DEF FetchOk
      <4>2. [worker[w] EXCEPT !.at = "write", !.body = old].batch = worker[w].batch
        BY <1>t DEF TypeOK
      <4> QED
        BY <4>1, <4>2
    <3>2. CASE FetchFailed(w) /\ worker[w].try < Tries
      <4>1. worker' = [worker EXCEPT ![w] = [worker[w] EXCEPT !.try = worker[w].try + 1]]
        BY <3>2 DEF FetchFailed
      <4>2. [worker[w] EXCEPT !.try = worker[w].try + 1].batch = worker[w].batch
        BY <1>t DEF TypeOK
      <4> QED
        BY <4>1, <4>2
    <3>3. CASE FetchFailed(w) /\ ~(worker[w].try < Tries)
      <4>1. worker' = [worker EXCEPT ![w] = [worker[w] EXCEPT !.at = "clear"]]
        BY <3>3 DEF FetchFailed
      <4>2. [worker[w] EXCEPT !.at = "clear"].batch = worker[w].batch
        BY <1>t DEF TypeOK
      <4> QED
        BY <4>1, <4>2
    <3> QED
      BY <1>2, <3>1, <3>2, <3>3
  <2> QED
    BY <1>t, <2>1, BatchesKept
<1> QED
  BY <1>1, <1>2

\* So does the writing of a file.
LEMMA WriteKeeps ==
  ASSUME TypeOK, NEW w \in Workers, Write(w)
  PROVE  \A u \in Workers : worker'[u].batch = worker[u].batch
<1>1. CASE disk.there
  <2>1. worker' = [worker EXCEPT ![w] = [worker[w] EXCEPT !.at = "clear", !.body = {}]]
    BY <1>1 DEF Write
  <2>2. [worker[w] EXCEPT !.at = "clear", !.body = {}].batch = worker[w].batch
    BY DEF TypeOK
  <2> QED
    BY <2>1, <2>2, BatchesKept
<1>2. CASE ~disk.there
  <2>1. worker' = [worker EXCEPT ![w] = [worker[w] EXCEPT !.at = "clear", !.body = {}, !.miss = FALSE]]
    BY <1>2 DEF Write
  <2>2. [worker[w] EXCEPT !.at = "clear", !.body = {}, !.miss = FALSE].batch = worker[w].batch
    BY DEF TypeOK
  <2> QED
    BY <2>1, <2>2, BatchesKept
<1> QED
  BY <1>1, <1>2

\* Every step but the arrival of a point.
LEMMA PointsMove == Shape /\ Bodies /\ [Next]_vars /\ ~Send => Moved
<1> SUFFICES ASSUME Shape, Bodies, [Next]_vars, ~Send PROVE Moved
  OBVIOUS
<1> USE DEF peer, history
<1>t. TypeOK
  BY DEF Shape
<1>e. <<>> \in Seq(Points) /\ Range(<<>>) = {} /\ cache.items \in Seq(Points)
  BY <1>t, SmallLists DEF TypeOK
<1>p. PopAll \in Seq(Points) /\ Range(PopAll) = Range(cache.items)
  BY <1>e, ReverseProperties DEF PopAll
<1> HIDE DEF PopAll
<1>2. ASSUME NEW g \in goes, First(g) PROVE Moved
  <2>1. UNCHANGED <<arrived, restarts, cache, disk, sync, stop, pulls, worker, peer, astray>>
    BY <1>2 DEF First
  <2>2. \A p : Spot(p)' <=> Spot(p)
    BY <2>1 DEF Spot
  <2>3. gone \subseteq gone' /\ \A h \in goes' : \E k \in goes : h.point = k.point
    <3>1. goes' \subseteq goes \/ goes' = (goes \ {g}) \cup {[g EXCEPT !.at = "push"]}
      BY <1>2 DEF First
    <3>2. [g EXCEPT !.at = "push"].point = g.point
      BY <1>t DEF TypeOK
    <3> QED
      BY <1>2, <3>1, <3>2 DEF First
  <2>4. \A p : OfGo(p) => OfGo(p)' \/ p \in gone'
    <3>1. CASE goes' = goes \ {g} /\ gone' = gone \cup {g.point}
      BY <3>1 DEF OfGo
    <3>2. CASE goes' = (goes \ {g}) \cup {[g EXCEPT !.at = "push"]}
      <4>1. [g EXCEPT !.at = "push"].point = g.point
        BY <1>t DEF TypeOK
      <4> QED
        BY <3>2, <4>1 DEF OfGo
    <3> QED
      BY <1>2, <3>1, <3>2 DEF First
  <2> QED
    BY <2>1, <2>2, <2>3, <2>4 DEF Moved
<1>3. ASSUME NEW g \in goes, PushFront(g) PROVE Moved
  <2>1. UNCHANGED <<arrived, restarts, disk, sync, stop, pulls, worker, peer, history>>
    BY <1>3 DEF PushFront
  <2>2. CASE cache.there
    <3>1. cache' = [cache EXCEPT !.items = <<g.point>> \o cache.items] /\ goes' = goes \ {g}
      BY <1>3, <2>2 DEF PushFront
    <3>2. Range(cache'.items) = {g.point} \cup Range(cache.items)
      <4>1. <<g.point>> \in Seq(Points) /\ Range(<<g.point>>) = {g.point}
        BY <1>t, SmallLists DEF TypeOK
      <4>2. cache'.items = <<g.point>> \o cache.items
        BY <1>t, <3>1 DEF TypeOK
      <4> DEFINE s == <<g.point>>
      <4> HIDE DEF s
      <4>3. s \in Seq(Points) /\ Range(s) = {g.point} /\ cache'.items = s \o cache.items
        BY <4>1, <4>2 DEF s
      <4>4. Range(s \o cache.items) = Range(s) \cup Range(cache.items)
        BY <1>e, <4>3, RangeConcat
      <4> QED
        BY <4>3, <4>4
    <3>3. /\ \A p : Spot(p)' <=> Spot(p) \/ p = g.point
          /\ \A p : OfGo(p) => OfGo(p)' \/ p = g.point
      BY <2>1, <3>1, <3>2 DEF Spot, OfGo
    <3> QED
      BY <2>1, <3>1, <3>3 DEF Moved
  <2>3. CASE ~cache.there
    <3> DEFINE h == [g EXCEPT !.at = "set", !.miss = ~disk.there]
    <3>1. goes' = (goes \ {g}) \cup {h} /\ cache' = cache
      BY <1>3, <2>3 DEF PushFront
    <3>2. h.point = g.point
      BY <1>t DEF TypeOK
    <3> HIDE DEF h
    <3>3. /\ \A p : Spot(p)' <=> Spot(p)
          /\ \A p : OfGo(p) => OfGo(p)'
          /\ \A k \in goes' : \E l \in goes : k.point = l.point
      BY <2>1, <3>1, <3>2 DEF Spot, OfGo
    <3> QED
      BY <2>1, <3>1, <3>3 DEF Moved
  <2> QED
    BY <2>2, <2>3
<1>4. ASSUME NEW g \in goes, Set(g) PROVE Moved
  <2>1. /\ cache' = [there |-> TRUE, items |-> <<g.point>>, miss |-> g.miss]
        /\ goes' = goes \ {g} /\ gone' = gone \cup Range(cache.items)
        /\ UNCHANGED <<arrived, restarts, disk, sync, stop, pulls, worker, peer, astray>>
    BY <1>4 DEF Set
  <2>2. Range(cache'.items) = {g.point}
    BY <1>t, <2>1, SmallLists DEF TypeOK
  <2>3. /\ \A p : Spot(p)' => Spot(p) \/ p = g.point
        /\ \A p : Spot(p) => Spot(p)' \/ p \in gone'
        /\ \A p : OfGo(p) => OfGo(p)' \/ Spot(p)'
    BY <2>1, <2>2 DEF Spot, OfGo
  <2> QED
    BY <2>1, <2>3 DEF Moved
<1>5. ASSUME UNCHANGED <<arrived, disk, goes, sync, stop, peer, history>>, cache'.items = cache.items,
             \A w \in Workers : worker'[w].batch = worker[w].batch
      PROVE  Moved
  BY <1>5 DEF Moved, Spot, OfGo
<1>6. CASE CommitByKey
  <2>1. /\ cache' = [cache EXCEPT !.items = <<>>] /\ sync' = [at |-> "flush", batch |-> PopAll] /\ sync.at = "idle"
        /\ UNCHANGED <<arrived, restarts, disk, goes, stop, pulls, worker, peer, history>>
    BY <1>6 DEF CommitByKey, Emptied
  <2>2. cache'.items = <<>> /\ sync'.batch = PopAll /\ sync.batch = <<>>
    BY <1>t, <2>1 DEF TypeOK, Shape, Idle
  <2>3. \A p : Spot(p)' <=> Spot(p)
    BY <1>e, <1>p, <2>1, <2>2 DEF Spot
  <2> QED
    BY <2>1, <2>3 DEF Moved, OfGo
<1>7. CASE SyncFlush
  <2>1. /\ disk' = [there |-> TRUE, points |-> disk.points \cup Taken(sync.batch)]
        /\ gone' = gone \cup (Range(sync.batch) \ Taken(sync.batch))
        /\ sync' = [at |-> "idle", batch |-> <<>>]
        /\ UNCHANGED <<arrived, restarts, cache, goes, stop, pulls, worker, peer, astray>>
    BY <1>7 DEF SyncFlush, FlushFile, Idle
  <2>2. Taken(sync.batch) \subseteq Range(sync.batch)
    BY <1>t, TakenPoints DEF TypeOK
  <2>3. /\ \A p : Spot(p)' => Spot(p)
        /\ \A p : Spot(p) => Spot(p)' \/ p \in gone'
    BY <1>e, <2>1, <2>2 DEF Spot
  <2> QED
    BY <2>1, <2>3 DEF Moved, OfGo
<1>8. ASSUME NEW w \in Workers, SendPop(w) PROVE Moved
  <2>1. /\ worker[w].at = "send" /\ cache' = [WithFlag(worker[w].miss) EXCEPT !.items = <<>>]
        /\ UNCHANGED <<arrived, restarts, disk, goes, sync, stop, pulls, old, history>>
    BY <1>8 DEF SendPop
  <2>2. cache'.items = <<>> /\ worker[w].batch = <<>>
    <3>1. WithFlag(worker[w].miss) \in [there : BOOLEAN, items : Seq(Points), miss : BOOLEAN]
      BY <1>t, <2>1, AtWork DEF WithFlag, TypeOK
    <3> QED
      BY <2>1, <3>1 DEF Shape
  <2>3. CASE cache.items = <<>>
    <3>1. sends' = sends /\ \A u \in Workers : worker'[u].batch = worker[u].batch
      <4>1. sends' = sends /\ worker' = [worker EXCEPT ![w] = [worker[w] EXCEPT !.at = "clear"]]
        BY <1>8, <2>3 DEF SendPop
      <4>2. [worker[w] EXCEPT !.at = "clear"].batch = worker[w].batch
        BY <1>t DEF TypeOK
      <4> QED
        BY <1>t, <4>1, <4>2, BatchesKept
    <3> QED
      BY <2>1, <2>2, <2>3, <3>1, <1>5
  <2>4. CASE cache.items # <<>>
    <3>1. /\ sends' = sends \cup {Request(w, PopAll)} /\ worker'[w].batch = PopAll
          /\ \A u \in Workers : u # w => worker'[u].batch = worker[u].batch
      BY <1>t, <1>8, <2>4 DEF SendPop, TypeOK
    <3>2. Request(w, PopAll).items = PopAll
      BY DEF Request
    <3>3. \A p : Spot(p)' <=> Spot(p)
      BY <1>e, <1>p, <2>1, <2>2, <3>1, <3>2 DEF Spot
    <3> QED
      BY <2>1, <3>3 DEF Moved, OfGo
  <2> QED
    BY <2>3, <2>4
\* The items on the wire once the call of a worker has ended.
<1>9. ASSUME NEW w \in Workers, worker[w].at = "sending", NEW left \in {sends \ Live(w), Unheard(w)}
      PROVE  /\ \A q \in left : \E r \in sends : q.items = r.items
             /\ \A q \in sends : (\E r \in left : r.items = q.items) \/ q.items = worker[w].batch
  <2>1. \A q \in left : \E r \in sends : q.items = r.items
    BY <1>9, CallEnds
  <2>2. ASSUME NEW q \in sends PROVE (\E r \in left : r.items = q.items) \/ q.items = worker[w].batch
    <3>1. CASE q \in Live(w)
      BY <3>1 DEF Live, Shape
    <3>2. CASE q \notin Live(w)
      BY <1>9, <3>2 DEF Unheard
    <3> QED
      BY <3>1, <3>2
  <2> QED
    BY <2>1, <2>2
<1>10. ASSUME NEW w \in Workers, SendOk(w) PROVE Moved
  <2>1. /\ worker[w].at = "sending" /\ sends' = Unheard(w) /\ Live(w) # {}
        /\ worker' = [worker EXCEPT ![w].at = "clear", ![w].batch = <<>>]
        /\ UNCHANGED <<arrived, restarts, cache, disk, goes, sync, stop, pulls, old, history>>
    BY <1>10 DEF SendOk
  <2>2. worker'[w].batch = <<>> /\ \A u \in Workers : u # w => worker'[u].batch = worker[u].batch
    BY <1>t, <2>1 DEF TypeOK
  <2>3. \E r \in Unheard(w) : r.items = worker[w].batch
    <3>1. PICK q \in Live(w) : TRUE
      BY <2>1
    <3>2. q \in sends /\ q.live /\ q.w = w /\ q.items = worker[w].batch
      BY <3>1 DEF Live, Shape
    <3>3. [q EXCEPT !.live = FALSE] \in Unheard(w)
      BY <3>1 DEF Unheard
    <3>4. [q EXCEPT !.live = FALSE].items = q.items
      BY <1>t, <3>2 DEF TypeOK
    <3> QED
      BY <3>2, <3>3, <3>4
  <2>4. /\ \A q \in sends' : \E r \in sends : q.items = r.items
        /\ \A q \in sends : \E r \in sends' : r.items = q.items
    BY <1>9, <2>1, <2>3
  <2>5. /\ \A p : Spot(p)' => Spot(p)
        /\ \A p : Spot(p) => Spot(p)'
    BY <1>e, <2>1, <2>2, <2>3, <2>4, ZenonT(40) DEF Spot
  <2> QED
    BY <2>1, <2>5 DEF Moved, OfGo
<1>11. ASSUME NEW w \in Workers, SendAgain(w) PROVE Moved
  <2>1. /\ worker[w].at = "sending" /\ \E left \in SendsLeft(w) : sends' = left \cup {Request(w, worker[w].batch)}
        /\ worker' = [worker EXCEPT ![w].try = @ + 1]
        /\ UNCHANGED <<arrived, restarts, cache, disk, goes, sync, stop, pulls, old, history>>
    BY <1>11 DEF SendAgain
  <2>2. PICK left \in {sends \ Live(w), Unheard(w)} : sends' = left \cup {Request(w, worker[w].batch)}
    BY <2>1 DEF SendsLeft
  <2>3. \A u \in Workers : worker'[u].batch = worker[u].batch
    BY <1>t, <2>1 DEF TypeOK
  <2>4. Request(w, worker[w].batch).items = worker[w].batch
    BY DEF Request
  <2>5. /\ \A q \in sends' : (\E r \in sends : q.items = r.items) \/ q.items = worker[w].batch
        /\ \A q \in sends : (\E r \in sends' : r.items = q.items) \/ q.items = worker[w].batch
    BY <1>9, <2>1, <2>2, <2>4, ZenonT(40)
  <2>6. /\ \A p : Spot(p)' => Spot(p)
        /\ \A p : Spot(p) => Spot(p)'
    BY <2>1, <2>3, <2>5 DEF Spot
  <2> QED
    BY <2>1, <2>6 DEF Moved, OfGo
<1>12. ASSUME NEW w \in Workers, SendFailed(w) PROVE Moved
  <2>1. /\ worker[w].at = "sending" /\ sends' \in {sends \ Live(w), Unheard(w)}
        /\ worker' = [worker EXCEPT ![w].at = "clear", ![w].batch = <<>>]
        /\ UNCHANGED <<arrived, restarts, disk, goes, sync, stop, pulls, old>>
    BY <1>12 DEF SendFailed, SendsLeft
  <2>2. cache.there /\ worker[w].batch \in Seq(Points)
    BY <2>1, AtWork
  <2>3. cache' = [cache EXCEPT !.items = cache.items \o Reverse(worker[w].batch)] /\ gone' = gone
    BY <1>12, <2>2 DEF SendFailed, PushAll
  <2>4. Range(cache'.items) = Range(cache.items) \cup Range(worker[w].batch)
    <3>1. cache'.items = cache.items \o Reverse(worker[w].batch)
      BY <1>t, <2>3 DEF TypeOK
    <3> QED
      BY <1>e, <2>2, <3>1, ReverseProperties, RangeConcat
  <2>5. worker'[w].batch = <<>> /\ \A u \in Workers : u # w => worker'[u].batch = worker[u].batch
    BY <1>t, <2>1 DEF TypeOK
  <2>6. /\ \A q \in sends' : \E r \in sends : q.items = r.items
        /\ \A q \in sends : (\E r \in sends' : r.items = q.items) \/ q.items = worker[w].batch
    BY <1>9, <2>1
  <2>7. /\ \A p : Spot(p)' => Spot(p)
        /\ \A p : Spot(p) => Spot(p)'
    BY <1>e, <2>1, <2>4, <2>5, <2>6 DEF Spot
  <2> QED
    BY <2>1, <2>3, <2>7 DEF Moved, OfGo
<1>13. ASSUME NEW q \in sends, Handle(q) PROVE Moved
  <2>1. PICK newer \in SUBSET Range(q.items) :
          /\ sends' = sends \ {q} /\ old' = old \cup newer
          /\ gone' = gone \cup (Range(q.items) \ (newer \cup old))
          /\ UNCHANGED <<arrived, restarts, cache, disk, goes, sync, stop, pulls, worker>>
    BY <1>13 DEF Handle
  <2>2. /\ \A p : Spot(p)' => Spot(p)
        /\ \A p : Spot(p) => Spot(p)' \/ p \in gone'
    BY <2>1 DEF Spot
  <2> QED
    BY <2>1, <2>2 DEF Moved, OfGo
<1>14. ASSUME NEW w \in Workers, Write(w) PROVE Moved
  <2>1. /\ disk.points \subseteq disk'.points /\ disk'.points \subseteq disk.points \cup old
        /\ UNCHANGED <<arrived, restarts, cache, goes, sync, stop, pulls, peer, history>>
    <3>1. CASE disk.there
      BY <1>14, <3>1 DEF Write
    <3>2. CASE ~disk.there
      BY <1>14, <3>2 DEF Write, Bodies
    <3> QED
      BY <3>1, <3>2
  <2>2. \A u \in Workers : worker'[u].batch = worker[u].batch
    BY <1>t, <1>14, WriteKeeps
  <2>3. /\ \A p : Spot(p)' => Spot(p)
        /\ \A p : Spot(p) => Spot(p)'
    BY <2>1, <2>2 DEF Spot
  <2> QED
    BY <2>1, <2>3 DEF Moved, OfGo
<1>15. CASE Stop
  <2>1. /\ cache' = [cache EXCEPT !.items = <<>>] /\ stop.at = "idle"
        /\ stop' = [at |-> IF cache.items = <<>> THEN "exit" ELSE "flush", batch |-> PopAll]
        /\ UNCHANGED <<arrived, disk, goes, sync, pulls, worker, peer, history>>
    BY <1>15 DEF Stop, Emptied
  <2>2. cache'.items = <<>> /\ stop'.batch = PopAll /\ stop.batch = <<>>
    BY <1>t, <2>1 DEF TypeOK, Shape
  <2>3. \A p : Spot(p)' <=> Spot(p)
    BY <1>e, <1>p, <2>1, <2>2 DEF Spot
  <2> QED
    BY <2>1, <2>3 DEF Moved, OfGo
<1>16. CASE StopFlush
  <2>1. /\ disk' = [there |-> TRUE, points |-> disk.points \cup Taken(stop.batch)]
        /\ gone' = gone \cup (Range(stop.batch) \ Taken(stop.batch))
        /\ stop' = [at |-> "exit", batch |-> <<>>]
        /\ UNCHANGED <<arrived, restarts, cache, goes, sync, pulls, worker, peer, astray>>
    BY <1>16 DEF StopFlush, FlushFile, Idle
  <2>2. Taken(stop.batch) \subseteq Range(stop.batch)
    BY <1>t, TakenPoints DEF TypeOK
  <2>3. /\ \A p : Spot(p)' => Spot(p)
        /\ \A p : Spot(p) => Spot(p)' \/ p \in gone'
    BY <1>e, <2>1, <2>2 DEF Spot
  <2> QED
    BY <2>1, <2>3 DEF Moved, OfGo
<1>17. CASE Exit \/ Kill
  <2>1. Restarted
    BY <1>17 DEF Exit, Kill
  <2>2. /\ gone' = gone \cup InMemory /\ cache'.items = <<>> /\ goes' = {} /\ sync'.batch = <<>> /\ stop'.batch = <<>>
        /\ \A w \in Workers : worker'[w].batch = <<>>
        /\ UNCHANGED <<arrived, disk, old, astray>>
    BY <2>1 DEF Restarted, NoList, Idle, Free
  <2>3. PICK lost \in SUBSET (sends \ Late) : sends' = {[q EXCEPT !.live = FALSE] : q \in sends \ lost}
    BY <2>1 DEF Restarted
  <2>4. /\ \A q \in sends' : \E r \in sends : q.items = r.items
        /\ \A q \in sends : (\E r \in sends' : r.items = q.items) \/ \E w \in Workers : q.items = worker[w].batch
    <3>1. \A q \in sends : [q EXCEPT !.live = FALSE].items = q.items
      BY <1>t DEF TypeOK
    <3>2. \A q \in sends : q \in sends \ lost \/ \E w \in Workers : q.items = worker[w].batch
      BY <1>t DEF Late, Shape, TypeOK
    <3>3. \A q \in sends' : \E r \in sends : q.items = r.items
      BY <2>3, <3>1
    <3>4. \A q \in sends \ lost : \E r \in sends' : r.items = q.items
      BY <2>3, <3>1
    <3> QED
      BY <3>2, <3>3, <3>4
  <2>5. /\ \A p : Spot(p)' => Spot(p)
        /\ \A p : Spot(p) => Spot(p)' \/ p \in gone'
        /\ \A p : OfGo(p) => p \in gone'
    <3>1. \A p : Spot(p)' => Spot(p)
      BY <1>e, <2>2, <2>4 DEF Spot
    <3>2. ASSUME NEW p, Spot(p) PROVE Spot(p)' \/ p \in gone'
      BY <2>2, <2>4, <3>2, MemorySpots DEF Spot
    <3> QED
      BY <2>2, <3>1, <3>2, MemorySpots
  <2> QED
    BY <2>2, <2>5 DEF Moved
<1>18. CASE PullByKey \/ UNCHANGED vars
  BY <1>18, <1>5 DEF PullByKey, vars
<1>19. ASSUME NEW w \in Workers, (\E busy \in BOOLEAN : TakePull(w, busy)) \/ SetFlag(w) \/ Fetch(w)
                                  \/ FetchOk(w) \/ FetchFailed(w)
       PROVE  Moved
  <2>1. cache'.items = cache.items /\ UNCHANGED <<arrived, disk, goes, sync, stop, peer, history>>
    BY <1>t, <1>19, FlagOnly DEF TakePull, SetFlag, Fetch, FetchOk, FetchFailed
  <2>2. \A u \in Workers : worker'[u].batch = worker[u].batch
    BY <1>19, ControlKeeps
  <2> QED
    BY <2>1, <2>2, <1>5
<1> QED
  BY <1>2, <1>3, <1>4, <1>6, <1>7, <1>8, <1>10, <1>11, <1>12, <1>13, <1>14, <1>15, <1>16, <1>17, <1>18, <1>19
  DEF Next, HandleItems, SyncDisk, NetTask, Shutdown

\* Bodies stay what they are: the old node loses nothing.
LEMMA BodiesStep == Shape /\ Bodies /\ [Next]_vars => Bodies'
<1> SUFFICES ASSUME Shape, Bodies, [Next]_vars PROVE Bodies'
  OBVIOUS
<1> USE DEF peer, history
<1>t. TypeOK
  BY DEF Shape
<1>1. ASSUME UNCHANGED disk, old \subseteq old', NEW w \in Workers, NEW st, worker' = [worker EXCEPT ![w] = st],
             st.body \subseteq old
      PROVE  Bodies'
  BY <1>t, <1>1 DEF Bodies, TypeOK
<1>2. ASSUME UNCHANGED <<disk, worker>>, old \subseteq old' PROVE Bodies'
  BY <1>2 DEF Bodies
<1>3. ASSUME NEW g \in goes, First(g) \/ PushFront(g) \/ Set(g) PROVE Bodies'
  BY <1>2, <1>3 DEF First, PushFront, Set
<1>4. CASE Send \/ PullByKey \/ CommitByKey \/ Stop \/ UNCHANGED vars
  BY <1>2, <1>4 DEF Send, PullByKey, CommitByKey, Stop, vars
<1>5. CASE SyncFlush \/ StopFlush
  BY <1>5 DEF SyncFlush, StopFlush, FlushFile, Bodies
<1>6. ASSUME NEW q \in sends, Handle(q) PROVE Bodies'
  <2>1. UNCHANGED <<disk, worker>> /\ old \subseteq old'
    BY <1>6 DEF Handle
  <2> QED
    BY <2>1, <1>2
<1>7. CASE Exit \/ Kill
  BY <1>7 DEF Exit, Kill, Restarted, Free, Bodies
<1>8. ASSUME NEW w \in Workers, (\E busy \in BOOLEAN : TakePull(w, busy)) \/ SetFlag(w) \/ SendPop(w) \/ SendOk(w)
                                  \/ SendAgain(w) \/ SendFailed(w) \/ Fetch(w) \/ FetchOk(w) \/ FetchFailed(w)
      PROVE  Bodies'
  <2>1. UNCHANGED <<disk, old>>
    BY <1>8 DEF TakePull, SetFlag, SendPop, SendOk, SendAgain, SendFailed, Fetch, FetchOk, FetchFailed
  <2>2. worker[w].body \subseteq old /\ worker[w] \in WorkerStates
    BY <1>t DEF Bodies, WorkerStates, TypeOK
  <2>3. \E st : worker' = [worker EXCEPT ![w] = st] /\ st.body \subseteq old
    <3>1. CASE \E busy \in BOOLEAN : TakePull(w, busy)
      <4>1. PICK busy \in BOOLEAN : TakePull(w, busy)
        BY <3>1
      <4> DEFINE st == IF cache.there
                       THEN [Free EXCEPT !.at = IF busy THEN "send" ELSE "fetch", !.miss = cache.miss]
                       ELSE Free
      <4>2. worker' = [worker EXCEPT ![w] = st]
        BY <4>1 DEF TakePull
      <4>3. st.body = {}
        BY DEF Free
      <4> QED
        BY <4>2, <4>3
    <3>2. CASE SetFlag(w)
      <4>1. Free.body = {}
        BY DEF Free
      <4> QED
        BY <3>2, <4>1 DEF SetFlag
    <3>3. CASE SendPop(w)
      <4>1. CASE cache.items = <<>>
        <5>1. worker' = [worker EXCEPT ![w] = [worker[w] EXCEPT !.at = "clear"]]
          BY <3>3, <4>1 DEF SendPop
        <5>2. [worker[w] EXCEPT !.at = "clear"].body = worker[w].body
          BY <2>2 DEF WorkerStates
        <5> QED
          BY <2>2, <5>1, <5>2
      <4>2. CASE cache.items # <<>>
        <5>1. worker' = [worker EXCEPT ![w] = [worker[w] EXCEPT !.at = "sending", !.batch = PopAll, !.try = 1]]
          BY <1>t, <3>3, <4>2 DEF SendPop, TypeOK
        <5>2. [worker[w] EXCEPT !.at = "sending", !.batch = PopAll, !.try = 1].body = worker[w].body
          BY <2>2 DEF WorkerStates
        <5> QED
          BY <2>2, <5>1, <5>2
      <4> QED
        BY <4>1, <4>2
    <3>4. CASE SendOk(w) \/ SendFailed(w)
      <4>1. worker' = [worker EXCEPT ![w] = [worker[w] EXCEPT !.at = "clear", !.batch = <<>>]]
        BY <1>t, <3>4 DEF SendOk, SendFailed, TypeOK
      <4>2. [worker[w] EXCEPT !.at = "clear", !.batch = <<>>].body = worker[w].body
        BY <2>2 DEF WorkerStates
      <4> QED
        BY <2>2, <4>1, <4>2
    <3>5. CASE SendAgain(w) \/ (FetchFailed(w) /\ worker[w].try < Tries)
      <4>1. worker' = [worker EXCEPT ![w] = [worker[w] EXCEPT !.try = worker[w].try + 1]]
        BY <3>5 DEF SendAgain, FetchFailed
      <4>2. [worker[w] EXCEPT !.try = worker[w].try + 1].body = worker[w].body
        BY <2>2 DEF WorkerStates
      <4> QED
        BY <2>2, <4>1, <4>2
    <3>6. CASE Fetch(w)
      <4>1. worker' = [worker EXCEPT ![w] = [worker[w] EXCEPT !.at = "fetching", !.try = 1]]
        BY <1>t, <3>6 DEF Fetch, TypeOK
      <4>2. [worker[w] EXCEPT !.at = "fetching", !.try = 1].body = worker[w].body
        BY <2>2 DEF WorkerStates
      <4> QED
        BY <2>2, <4>1, <4>2
    <3>7. CASE FetchOk(w)
      <4>1. worker' = [worker EXCEPT ![w] = [worker[w] EXCEPT !.at = "write", !.body = old]]
        BY <1>t, <3>7 DEF FetchOk, TypeOK
      <4>2. [worker[w] EXCEPT !.at = "write", !.body = old].body = old
        BY <2>2 DEF WorkerStates
      <4> QED
        BY <4>1, <4>2
    <3>8. CASE FetchFailed(w) /\ ~(worker[w].try < Tries)
      <4>1. worker' = [worker EXCEPT ![w] = [worker[w] EXCEPT !.at = "clear"]]
        BY <3>8 DEF FetchFailed
      <4>2. [worker[w] EXCEPT !.at = "clear"].body = worker[w].body
        BY <2>2 DEF WorkerStates
      <4> QED
        BY <2>2, <4>1, <4>2
    <3> QED
      BY <1>8, <3>1, <3>2, <3>3, <3>4, <3>5, <3>6, <3>7, <3>8
  <2> QED
    BY <1>1, <2>1, <2>3
<1>9. ASSUME NEW w \in Workers, Write(w) PROVE Bodies'
  <2>1. disk'.there /\ UNCHANGED old
    BY <1>9 DEF Write
  <2>2. \A u \in Workers : worker'[u].body \subseteq worker[u].body
    <3>1. worker'[w].body = {}
      BY <1>t, <1>9 DEF Write, TypeOK
    <3>2. \A u \in Workers : u # w => worker'[u] = worker[u]
      BY <1>t, <1>9 DEF Write, TypeOK
    <3> QED
      BY <3>1, <3>2
  <2> QED
    BY <2>1, <2>2 DEF Bodies
<1> QED
  BY <1>3, <1>4, <1>5, <1>6, <1>7, <1>8, <1>9
  DEF Next, HandleItems, SyncDisk, NetTask, Shutdown

\* A point arrives.
LEMMA SendMoves ==
  ASSUME Shape, Send
  PROVE  /\ arrived' = arrived + 1 /\ arrived \in Nat
         /\ \E h \in GoStates : h.point = arrived + 1 /\ h.at = "first" /\ goes' = goes \cup {h}
         /\ gone' = gone /\ \A p : Spot(p)' <=> Spot(p)
<1>1. /\ arrived' = arrived + 1 /\ gone' = gone
      /\ goes' = goes \cup {[point |-> arrived + 1, at |-> "first", miss |-> FALSE]}
      /\ UNCHANGED <<cache, disk, sync, stop, worker, sends, old>> /\ arrived < MaxPoint
  BY DEF Send, peer, history
<1>2. arrived \in Nat /\ MaxPoint \in Nat
  BY CacheAssumption DEF Shape, TypeOK
<1>3. [point |-> arrived + 1, at |-> "first", miss |-> FALSE] \in GoStates
  BY <1>1, <1>2 DEF GoStates, Points
<1> QED
  BY <1>1, <1>2, <1>3 DEF Spot

\* Every point that arrived is somewhere.
Kept == \A p \in 1..arrived : Spot(p) \/ OfGo(p) \/ p \in gone

\* No step makes a point disappear.
LEMMA KeptStep == Shape /\ Bodies /\ Kept /\ [Next]_vars => Kept'
<1> SUFFICES ASSUME Shape, Bodies, Kept, [Next]_vars PROVE Kept'
  OBVIOUS
<1>1. CASE Send
  <2>1. PICK h \in GoStates : h.point = arrived + 1 /\ goes' = goes \cup {h}
    BY <1>1, SendMoves
  <2>2. \A p \in 1..arrived' : p \in 1..arrived \/ p = h.point
    BY <1>1, <2>1, SendMoves
  <2> QED
    BY <1>1, <2>1, <2>2, SendMoves DEF Kept, OfGo
<1>2. CASE ~Send
  BY <1>2, PointsMove DEF Kept, Moved
<1> QED
  BY <1>1, <1>2

\* What is known of the points of a node at any time.
Points1 == Shape /\ Bodies /\ Kept

\* It holds at the start, and every step keeps it.
LEMMA Points1Init == Init => Points1
<1> SUFFICES ASSUME Init PROVE Bodies /\ Kept
  BY ShapeInit DEF Points1
<1>1. Bodies
  BY DEF Init, Bodies, Free
<1>2. Kept
  BY DEF Init, Kept, Spot
<1> QED
  BY <1>1, <1>2

\* Together: no step disturbs what is known at any time.
LEMMA Points1Step == Points1 /\ [Next]_vars => Points1'
BY ShapeStep, BodiesStep, KeptStep DEF Points1

-----------------------------------------------------------------------------
(* One goroutine of handleItems at a time *)

\* There is one, it makes a list only where there is none, and its point is
\* newer than all that came before.
Single ==
  /\ goes = {} \/ \E g \in goes : goes = {g}
  /\ \A g \in goes : g.point = arrived /\ (g.at = "set" => ~cache.there)
  /\ \A p : Spot(p) => p <= arrived
  /\ \A p : \A g \in goes : Spot(p) => p < g.point

\* With a bound of one there is never a second goroutine, and no step of a worker or
\* of the old node makes a point newer than its own.
LEMMA SingleStep ==
  ASSUME MaxGoes = 1, Shape, Bodies, Single, [Next]_vars, \A p : Spot(p)' => p \in Points
  PROVE  Single'
<1> USE DEF peer, history
<1>n. arrived \in Nat /\ Points \subseteq Nat
  BY CacheAssumption DEF Shape, TypeOK, Points
<1>1. CASE Send
  <2>1. goes = {}
    <3>1. Cardinality(goes) < 1
      BY <1>1 DEF Send
    <3>2. ASSUME NEW g, goes = {g} PROVE FALSE
      BY <3>1, <3>2, FS_Singleton
    <3> QED
      BY <3>2 DEF Single
  <2>2. PICK h \in GoStates : h.point = arrived + 1 /\ h.at = "first" /\ goes' = goes \cup {h}
    BY <1>1, SendMoves
  <2>3. goes' = {h} /\ arrived' = arrived + 1 /\ \A p : Spot(p)' <=> Spot(p)
    BY <1>1, <2>1, <2>2, SendMoves
  <2>4. \A p : Spot(p)' => p \in Nat /\ p <= arrived
    BY <1>n, <2>3 DEF Single
  <2> QED
    BY <1>n, <2>2, <2>3, <2>4 DEF Single
<1>2. CASE ~Send
  <2>1. Moved
    BY <1>2, PointsMove
  <2>2. \A p : Spot(p)' => p <= arrived' /\ \A g \in goes' : p < g.point
    <3> SUFFICES ASSUME NEW p, Spot(p)' PROVE p <= arrived' /\ \A g \in goes' : p < g.point
      OBVIOUS
    <3>1. CASE Spot(p)
      BY <2>1, <3>1 DEF Single, Moved
    <3>2. CASE ~Spot(p)
      <4>1. PICK g \in goes : p = g.point /\ goes' = goes \ {g}
        BY <2>1, <3>2 DEF Moved
      <4>2. goes' = {}
        BY <4>1 DEF Single
      <4>3. p = arrived /\ arrived' = arrived
        BY <2>1, <4>1 DEF Single, Moved
      <4> QED
        BY <1>n, <4>2, <4>3
    <3> QED
      BY <3>1, <3>2
  <2>3. \A g \in goes' : g.point = arrived'
    BY <2>1 DEF Single, Moved
  <2>4. /\ goes' = {} \/ \E g \in goes' : goes' = {g}
        /\ \A g \in goes' : g.at = "set" => ~cache'.there
    <3>1. ASSUME NEW g \in goes, First(g) PROVE <2>4
      <4>1. (goes' = goes \ {g} \/ goes' = (goes \ {g}) \cup {[g EXCEPT !.at = "push"]}) /\ cache' = cache
        BY <3>1 DEF First
      <4>2. [g EXCEPT !.at = "push"].at = "push"
        BY DEF Shape, TypeOK
      <4> HIDE DEF First
      <4>3. goes = {g}
        BY DEF Single
      <4> QED
        BY <4>1, <4>2, <4>3
    <3>2. ASSUME NEW g \in goes, PushFront(g) PROVE <2>4
      <4>1. goes' = goes \ {g} \/ (goes' = (goes \ {g}) \cup {[g EXCEPT !.at = "set", !.miss = ~disk.there]}
                                    /\ cache' = cache /\ ~cache.there)
        BY <3>2 DEF PushFront
      <4>2. goes = {g}
        BY DEF Single
      <4> QED
        BY <4>1, <4>2
    <3>3. ASSUME NEW g \in goes, Set(g) PROVE <2>4
      <4>1. goes' = {}
        BY <3>3 DEF Set, Single
      <4> QED
        BY <4>1
    <3>4. CASE Exit \/ Kill
      BY <3>4 DEF Exit, Kill, Restarted
    <3>5. ASSUME goes' = goes, cache'.there = cache.there PROVE <2>4
      BY <3>5 DEF Single
    <3>6. CASE PullByKey \/ SyncFlush \/ StopFlush \/ UNCHANGED vars
      BY <3>5, <3>6 DEF PullByKey, SyncFlush, StopFlush, vars
    <3>7. CASE CommitByKey \/ Stop
      <4>1. goes' = goes /\ cache' = [cache EXCEPT !.items = <<>>]
        BY <3>7 DEF CommitByKey, Stop, Emptied
      <4>2. cache'.there = cache.there
        BY <4>1 DEF Shape, TypeOK
      <4> QED
        BY <3>5, <4>1, <4>2
    <3>8. ASSUME NEW q \in sends, Handle(q) PROVE <2>4
      BY <3>5, <3>8 DEF Handle
    <3>9. ASSUME NEW w \in Workers, (\E busy \in BOOLEAN : TakePull(w, busy)) \/ SetFlag(w) \/ SendOk(w)
                                     \/ SendAgain(w) \/ Fetch(w) \/ FetchOk(w) \/ FetchFailed(w) \/ Write(w)
          PROVE  <2>4
      <4>1. goes' = goes /\ (cache' = cache \/ cache' = WithFlag(worker[w].miss))
        BY <3>9 DEF TakePull, SetFlag, SendOk, SendAgain, Fetch, FetchOk, FetchFailed, Write
      <4>2. cache'.there = cache.there
        BY <4>1, FlagOnly DEF Shape
      <4> QED
        BY <3>5, <4>1, <4>2
    <3>10. ASSUME NEW w \in Workers, SendPop(w) \/ SendFailed(w) PROVE <2>4
      <4>1. goes' = goes
        BY <3>10 DEF SendPop, SendFailed
      <4>2. cache'.there = cache.there
        <5>1. CASE SendFailed(w)
          BY <5>1 DEF SendFailed, PushAll, Shape, TypeOK
        <5>2. CASE SendPop(w)
          <6>1. WithFlag(worker[w].miss) = cache \/ WithFlag(worker[w].miss) = [cache EXCEPT !.miss = worker[w].miss]
            BY DEF WithFlag
          <6>2. cache' = [WithFlag(worker[w].miss) EXCEPT !.items = <<>>]
            BY <5>2 DEF SendPop
          <6>3. DOMAIN cache = {"there", "items", "miss"} /\ cache = [x \in {"there", "items", "miss"} |-> cache[x]]
            BY DEF Shape, TypeOK
          <6> QED
            BY <6>1, <6>2, <6>3 DEF Shape, TypeOK
        <5> QED
          BY <3>10, <5>1, <5>2
      <4> QED
        BY <3>5, <4>1, <4>2
    <3> QED
      BY <1>2, <3>1, <3>2, <3>3, <3>4, <3>6, <3>7, <3>8, <3>9, <3>10
      DEF Next, HandleItems, SyncDisk, NetTask, Shutdown
  <2> QED
    BY <2>2, <2>3, <2>4 DEF Single
<1> QED
  BY <1>1, <1>2

\* What came is a point.
LEMMA SpotPoints == Shape => \A p : Spot(p) => p \in Points
<1> SUFFICES ASSUME Shape, NEW p, Spot(p) PROVE p \in Points
  OBVIOUS
<1>1. \A s \in Seq(Points) : Range(s) \subseteq Points
  BY TakenPoints
<1> QED
  BY <1>1 DEF Shape, TypeOK, Spot

-----------------------------------------------------------------------------
(* The order of the points *)

Falls(s) == \A i, j \in 1..Len(s) : i < j => s[i] > s[j]
Rises(s) == \A i, j \in 1..Len(s) : i < j => s[i] < s[j]

\* A list grows in front by what is newer, and turned round it rises.
LEMMA FallsFront ==
  ASSUME NEW s \in Seq(Points), NEW p \in Points, Falls(s), \A r \in Range(s) : r < p
  PROVE  Falls(<<p>> \o s)
<1> USE CacheAssumption DEF Points
<1>1. \A n \in 1..Len(s) : s[n] < p
  BY DEF Range
<1>2. Len(<<p>> \o s) = Len(s) + 1 /\ Len(s) \in Nat
  OBVIOUS
<1>3. (<<p>> \o s)[1] = p /\ \A n \in 2..(Len(s) + 1) : (<<p>> \o s)[n] = s[n - 1]
  OBVIOUS
<1> SUFFICES ASSUME NEW i \in 1..(Len(s) + 1), NEW j \in 1..(Len(s) + 1), i < j
             PROVE  (<<p>> \o s)[i] > (<<p>> \o s)[j]
  BY <1>2 DEF Falls
<1>4. j \in 2..(Len(s) + 1) /\ j - 1 \in 1..Len(s) /\ (<<p>> \o s)[j] = s[j - 1]
  BY <1>2, <1>3
<1>5. CASE i = 1
  <2>1. s[j - 1] < p
    BY <1>1, <1>4
  <2>2. s[j - 1] \in Nat /\ p \in Nat
    BY <1>4
  <2> QED
    BY <1>3, <1>4, <1>5, <2>1, <2>2
<1>6. CASE i # 1
  <2>1. i - 1 \in 1..Len(s) /\ (<<p>> \o s)[i] = s[i - 1] /\ i - 1 < j - 1
    BY <1>2, <1>3, <1>6
  <2> QED
    BY <1>4, <2>1 DEF Falls
<1> QED
  BY <1>5, <1>6

\* A list that falls is a batch that rises.
LEMMA ReverseRises == \A s \in Seq(Points) : Falls(s) => Rises(Reverse(s))
<1> SUFFICES ASSUME NEW s \in Seq(Points), Falls(s),
                    NEW i \in 1..Len(Reverse(s)), NEW j \in 1..Len(Reverse(s)), i < j
             PROVE  Reverse(s)[i] < Reverse(s)[j]
  BY DEF Rises
<1>1. /\ Len(Reverse(s)) = Len(s) /\ Len(s) \in Nat
      /\ \A n \in 1..Len(s) : Reverse(s)[n] = s[Len(s) - n + 1]
  BY ReverseProperties
<1>2. /\ Len(s) - i + 1 \in 1..Len(s) /\ Len(s) - j + 1 \in 1..Len(s) /\ Len(s) - j + 1 < Len(s) - i + 1
      /\ Reverse(s)[i] = s[Len(s) - i + 1] /\ Reverse(s)[j] = s[Len(s) - j + 1]
  BY <1>1
<1>3. s[Len(s) - j + 1] > s[Len(s) - i + 1]
  BY <1>2 DEF Falls
<1>4. s[Len(s) - j + 1] \in Nat /\ s[Len(s) - i + 1] \in Nat
  BY <1>2, CacheAssumption, SMTT(30) DEF Points
<1> QED
  BY <1>2, <1>3, <1>4

\* A file takes all of a batch that rises and is newer than what it has.
LEMMA TakenAll ==
  ASSUME NEW b \in Seq(Points), Rises(b), \A p \in disk.points : \A r \in Range(b) : p < r
  PROVE  Taken(b) = Range(b)
<1>1. DOMAIN b = 1..Len(b) /\ Len(b) \in Nat
  OBVIOUS
<1>2. ASSUME NEW k \in 1..Len(b) PROVE b[k] \in Taken(b)
  <2>1. ASSUME NEW i \in 1..k PROVE /\ \A p \in disk.points : p < b[i]
                                    /\ \A j \in 1..(i - 1) : b[j] < b[i]
    <3>1. i \in 1..Len(b) /\ b[i] \in Range(b)
      BY <1>1 DEF Range
    <3>2. \A j \in 1..(i - 1) : j \in 1..Len(b) /\ j < i
      BY <1>1, <3>1
    <3> QED
      BY <3>1, <3>2 DEF Rises
  <2> QED
    BY <1>1, <2>1 DEF Taken
<1>3. Range(b) \subseteq Taken(b)
  BY <1>1, <1>2 DEF Range
<1> QED
  BY <1>3, TakenPoints

\* Short lists are in any order, and a list without points is empty.
LEMMA ShortOrder ==
  /\ Falls(<<>>) /\ Rises(<<>>) /\ \A p \in Points : Falls(<<p>>)
  /\ \A s \in Seq(Points) : Range(s) = {} => s = <<>>
<1>1. Falls(<<>>) /\ Rises(<<>>) /\ \A p \in Points : Falls(<<p>>)
  BY DEF Falls, Rises
<1>2. ASSUME NEW s \in Seq(Points), s # <<>> PROVE Range(s) # {}
  <2>1. 1 \in DOMAIN s
    BY <1>2
  <2> QED
    BY <2>1 DEF Range
<1> QED
  BY <1>1, <1>2

-----------------------------------------------------------------------------
(* While no batch goes astray and the node runs *)

\* What left the list before what is in it now came.
Before(p) ==
  \/ p \in old \cup disk.points \cup Range(sync.batch)
  \/ \E w \in Workers : p \in Range(worker[w].batch)
  \/ \E q \in sends : p \in Range(q.items)

\* Nothing is thrown away then: the list falls, what left it is older than what
\* is in it, and the file is older than the batch that is flushed.
Calm ==
  /\ gone = {} /\ Falls(cache.items) /\ Rises(sync.batch)
  /\ \A p : Before(p) => \A r \in Range(cache.items) : p < r
  /\ \A p \in disk.points : \A r \in Range(sync.batch) : p < r

\* A step after which nothing has gone astray yet and the node runs throws nothing
\* away: First never finds a newer point, Set finds no list, and rrd refuses nothing.
LEMMA CalmStep ==
  ASSUME Points1, Single, restarts = 0 /\ astray = {} => Calm, [Next]_vars, restarts' = 0, astray' = {}
  PROVE  Calm'
<1> USE DEF peer, history
<1>t. TypeOK /\ Shape /\ restarts \in Nat
  BY CacheAssumption DEF Points1, Shape, TypeOK
<1>e. <<>> \in Seq(Points) /\ Range(<<>>) = {} /\ cache.items \in Seq(Points) /\ sync.batch \in Seq(Points)
  BY <1>t, SmallLists DEF TypeOK
<1>p. PopAll \in Seq(Points) /\ Range(PopAll) = Range(cache.items) /\ (Falls(cache.items) => Rises(PopAll))
  BY <1>e, ReverseProperties, ReverseRises DEF PopAll
<1> HIDE DEF PopAll
\* The node has not stopped.
<1>s. ~Stop /\ ~StopFlush /\ ~Exit /\ ~Kill
  BY <1>t DEF Stop, StopFlush, Exit, Kill, Shape
<1>r. restarts = 0
  BY <1>t, <1>s DEF Next, Send, HandleItems, First, PushFront, Set, SyncDisk, PullByKey, CommitByKey, SyncFlush,
     NetTask, TakePull, SetFlag, SendPop, SendOk, SendAgain, SendFailed, Fetch, FetchOk, FetchFailed, Write,
     Handle, Shutdown, vars
<1>a. astray = {}
  BY <1>s DEF Next, Send, HandleItems, First, PushFront, Set, SyncDisk, PullByKey, CommitByKey, SyncFlush,
     NetTask, TakePull, SetFlag, SendPop, SendOk, SendAgain, SendFailed, Fetch, FetchOk, FetchFailed, Write,
     Handle, Shutdown, vars
<1>c. Calm
  BY <1>r, <1>a
\* The list, the flush and what is thrown away are as they were.
<1>0. ASSUME UNCHANGED <<gone, sync>>, cache'.items = cache.items, UNCHANGED disk, \A p : Before(p)' => Before(p)
      PROVE  Calm'
  BY <1>c, <1>0 DEF Calm
<1>1. ASSUME UNCHANGED <<gone, sync, disk, peer>>, cache'.items = cache.items,
             \A w \in Workers : worker'[w].batch = worker[w].batch
      PROVE  Calm'
  BY <1>0, <1>1 DEF Before
<1>2. CASE Send
  BY <1>1, <1>2 DEF Send
<1>3. ASSUME NEW g \in goes, First(g) PROVE Calm'
  <2>1. ~(cache.items # <<>> /\ g.point <= Head(cache.items))
    <3>1. ASSUME cache.items # <<>> PROVE Head(cache.items) < g.point
      <4>1. Head(cache.items) \in Range(cache.items)
        BY <1>e, <3>1 DEF Range
      <4> QED
        BY <4>1 DEF Single, Spot
    <3>2. cache.items # <<>> => Head(cache.items) \in Nat
      BY <1>e, CacheAssumption DEF Points
    <3>3. g.point \in Nat
      BY <1>t, CacheAssumption DEF TypeOK, Points
    <3> QED
      BY <3>1, <3>2, <3>3
  <2> QED
    BY <1>1, <1>3, <2>1 DEF First
<1>4. ASSUME NEW g \in goes, PushFront(g) PROVE Calm'
  <2>1. CASE cache.there
    <3>1. /\ cache' = [cache EXCEPT !.items = <<g.point>> \o cache.items]
          /\ UNCHANGED <<gone, sync, disk, peer, worker>>
      BY <1>4, <2>1 DEF PushFront
    <3> DEFINE s == <<g.point>>
    <3>2. s \in Seq(Points) /\ Range(s) = {g.point} /\ cache'.items = s \o cache.items /\ g.point \in Points
      BY <1>t, <3>1, SmallLists DEF TypeOK
    <3>3. \A p : Before(p) \/ p \in Range(cache.items) => p < g.point
      BY DEF Single, Spot, Before
    <3>4. Falls(s \o cache.items)
      BY <1>c, <1>e, <3>2, <3>3, FallsFront DEF Calm
    <3> HIDE DEF s
    <3>5. Range(cache'.items) = {g.point} \cup Range(cache.items)
      <4>1. Range(s \o cache.items) = Range(s) \cup Range(cache.items)
        BY <1>e, <3>2, RangeConcat
      <4> QED
        BY <3>2, <4>1
    <3>6. \A p : Before(p)' <=> Before(p)
      BY <3>1 DEF Before
    <3> QED
      BY <1>c, <3>1, <3>2, <3>3, <3>4, <3>5, <3>6 DEF Calm
  <2>2. CASE ~cache.there
    BY <1>1, <1>4, <2>2 DEF PushFront
  <2> QED
    BY <2>1, <2>2
<1>5. ASSUME NEW g \in goes, Set(g) PROVE Calm'
  <2>1. /\ cache' = [there |-> TRUE, items |-> <<g.point>>, miss |-> g.miss]
        /\ gone' = gone \cup Range(cache.items) /\ g.at = "set"
        /\ UNCHANGED <<disk, sync, worker, peer>>
    BY <1>5 DEF Set
  <2>2. ~cache.there /\ cache.items = <<>>
    BY <1>t, <2>1 DEF Single, Shape
  <2>3. cache'.items = <<g.point>> /\ Range(cache'.items) = {g.point} /\ Falls(<<g.point>>)
    BY <1>t, <2>1, SmallLists, ShortOrder DEF TypeOK
  <2>4. gone' = {}
    BY <1>c, <1>e, <2>1, <2>2 DEF Calm
  <2>5. \A p : Before(p)' => p < g.point
    BY <2>1 DEF Single, Spot, Before
  <2> QED
    BY <1>c, <2>1, <2>3, <2>4, <2>5 DEF Calm
<1>6. CASE CommitByKey
  <2>1. /\ cache' = [cache EXCEPT !.items = <<>>] /\ sync' = [at |-> "flush", batch |-> PopAll]
        /\ UNCHANGED <<disk, worker, peer, history>>
    BY <1>6 DEF CommitByKey, Emptied
  <2>2. cache'.items = <<>> /\ sync'.batch = PopAll
    BY <1>t, <2>1 DEF TypeOK
  <2>3. \A p \in disk.points : \A r \in Range(PopAll) : p < r
    BY <1>c, <1>p DEF Calm, Before
  <2> QED
    BY <1>c, <1>e, <1>p, <2>1, <2>2, <2>3, ShortOrder DEF Calm
<1>7. CASE SyncFlush
  <2>1. /\ disk' = [there |-> TRUE, points |-> disk.points \cup Taken(sync.batch)]
        /\ gone' = gone \cup (Range(sync.batch) \ Taken(sync.batch))
        /\ sync' = [at |-> "idle", batch |-> <<>>]
        /\ UNCHANGED <<cache, worker, peer>>
    BY <1>7 DEF SyncFlush, FlushFile, Idle
  <2>2. Taken(sync.batch) = Range(sync.batch)
    BY <1>c, <1>e, TakenAll DEF Calm
  <2>3. gone' = {} /\ sync'.batch = <<>> /\ \A p : Before(p)' => Before(p)
    BY <1>c, <1>e, <2>1, <2>2 DEF Calm, Before
  <2> QED
    BY <1>c, <1>e, <2>1, <2>3, ShortOrder DEF Calm
<1>8. ASSUME NEW w \in Workers, SendPop(w) PROVE Calm'
  <2>1. /\ worker[w].at = "send" /\ cache' = [WithFlag(worker[w].miss) EXCEPT !.items = <<>>]
        /\ UNCHANGED <<disk, sync, old, history>>
    BY <1>8 DEF SendPop
  <2>2. cache'.items = <<>>
    <3>1. WithFlag(worker[w].miss) \in [there : BOOLEAN, items : Seq(Points), miss : BOOLEAN]
      BY <1>t, <2>1, AtWork DEF WithFlag, TypeOK
    <3> QED
      BY <2>1, <3>1
  <2> QED
    BY <1>c, <1>e, <2>1, <2>2, ShortOrder DEF Calm
<1>9. ASSUME NEW w \in Workers, SendOk(w) PROVE Calm'
  <2>1. /\ sends' = Unheard(w) /\ worker' = [worker EXCEPT ![w].at = "clear", ![w].batch = <<>>]
        /\ UNCHANGED <<cache, disk, sync, old, history>>
    BY <1>9 DEF SendOk
  <2>2. worker'[w].batch = <<>> /\ \A u \in Workers : u # w => worker'[u].batch = worker[u].batch
    BY <1>t, <2>1 DEF TypeOK
  <2>3. \A q \in sends' : \E r \in sends : q.items = r.items
    BY <1>t, <2>1, CallEnds
  <2>4. \A p : Before(p)' => Before(p)
    BY <1>e, <2>1, <2>2, <2>3 DEF Before
  <2> QED
    BY <1>0, <2>1, <2>4
<1>10. ASSUME NEW w \in Workers, SendAgain(w) PROVE Calm'
  <2>1. /\ worker[w].at = "sending" /\ \E left \in SendsLeft(w) : sends' = left \cup {Request(w, worker[w].batch)}
        /\ worker' = [worker EXCEPT ![w].try = @ + 1]
        /\ UNCHANGED <<cache, disk, sync, old, history>>
    BY <1>10 DEF SendAgain
  <2>2. PICK left \in {sends \ Live(w), Unheard(w)} : sends' = left \cup {Request(w, worker[w].batch)}
    BY <2>1 DEF SendsLeft
  <2>3. \A u \in Workers : worker'[u].batch = worker[u].batch
    BY <1>t, <2>1 DEF TypeOK
  <2>4. Request(w, worker[w].batch).items = worker[w].batch
    BY DEF Request
  <2>5. \A q \in left : \E r \in sends : q.items = r.items
    BY <1>t, CallEnds
  <2>6. \A q \in sends' : (\E r \in sends : q.items = r.items) \/ q.items = worker[w].batch
    BY <2>2, <2>4, <2>5
  <2>7. \A p : Before(p)' => Before(p)
    BY <2>1, <2>3, <2>6 DEF Before
  <2> QED
    BY <1>0, <2>1, <2>7
<1>11. ASSUME NEW w \in Workers, SendFailed(w) PROVE Calm'
  <2>1. /\ worker[w].at = "sending" /\ sends' \in {sends \ Live(w), Unheard(w)}
        /\ worker' = [worker EXCEPT ![w].at = "clear", ![w].batch = <<>>]
        /\ astray' = astray \cup Range(worker[w].batch)
        /\ UNCHANGED <<disk, sync, old>>
    BY <1>11 DEF SendFailed, SendsLeft
  <2>2. cache.there /\ worker[w].batch \in Seq(Points)
    BY <1>t, <2>1, AtWork
  <2>3. cache' = [cache EXCEPT !.items = cache.items \o Reverse(worker[w].batch)] /\ gone' = gone
    BY <1>11, <2>2 DEF SendFailed, PushAll
  <2> DEFINE s == Reverse(worker[w].batch)
  <2>4. s \in Seq(Points) /\ Len(s) = 0 /\ Range(s) = {}
    <3>1. worker[w].batch = <<>>
      BY <2>1, <2>2, ShortOrder
    <3> QED
      BY <2>2, <3>1, <1>e, ReverseProperties, SmallLists
  <2> HIDE DEF s
  <2>5. cache'.items = cache.items \o s
    BY <1>t, <2>3 DEF TypeOK, s
  <2>6. Range(cache'.items) = Range(cache.items) /\ Falls(cache'.items)
    <3>1. /\ Range(cache.items \o s) = Range(cache.items) \cup Range(s)
          /\ Len(cache.items \o s) = Len(cache.items) + Len(s)
          /\ \A n \in 1..Len(cache.items) : (cache.items \o s)[n] = cache.items[n]
      BY <1>e, <2>4, RangeConcat
    <3>2. Len(cache.items) \in Nat /\ Falls(cache.items)
      BY <1>c, <1>e DEF Calm
    <3> QED
      BY <2>4, <2>5, <3>1, <3>2 DEF Falls
  <2>7. worker'[w].batch = <<>> /\ \A u \in Workers : u # w => worker'[u].batch = worker[u].batch
    BY <1>t, <2>1 DEF TypeOK
  <2>8. \A q \in sends' : \E r \in sends : q.items = r.items
    BY <1>t, <2>1, CallEnds
  <2>9. \A p : Before(p)' => Before(p)
    BY <1>e, <2>1, <2>7, <2>8 DEF Before
  <2> QED
    BY <1>c, <2>1, <2>3, <2>6, <2>9 DEF Calm
<1>12. ASSUME NEW q \in sends, Handle(q) PROVE Calm'
  <2>1. PICK newer \in SUBSET Range(q.items) :
          /\ sends' = sends \ {q} /\ old' = old \cup newer
          /\ gone' = gone \cup (Range(q.items) \ (newer \cup old))
          /\ astray' = astray \cup (Range(q.items) \ (newer \cup old))
          /\ UNCHANGED <<cache, disk, sync, worker>>
    BY <1>12 DEF Handle
  <2>2. gone' = gone
    BY <2>1
  <2>3. \A p : Before(p)' => Before(p)
    BY <2>1 DEF Before
  <2> QED
    BY <1>0, <2>1, <2>2, <2>3
<1>13. ASSUME NEW w \in Workers, Write(w) PROVE Calm'
  <2>1. UNCHANGED <<cache, sync, peer, history>>
    BY <1>13 DEF Write
  <2>2. \A u \in Workers : worker'[u].batch = worker[u].batch
    BY <1>t, <1>13, WriteKeeps
  <2>3. CASE disk.there
    <3>1. disk' = disk
      BY <1>13, <2>3 DEF Write
    <3> QED
      BY <1>1, <2>1, <2>2, <3>1
  <2>4. CASE ~disk.there
    <3>1. disk'.points \subseteq old
      BY <1>13, <2>4 DEF Write, Points1, Bodies
    <3>2. sync.batch = <<>>
      BY <1>t, <2>4 DEF Shape, TypeOK, Idle
    <3>3. \A p : Before(p)' => Before(p)
      BY <2>1, <2>2, <3>1 DEF Before
    <3> QED
      BY <1>c, <1>e, <2>1, <3>2, <3>3 DEF Calm
  <2> QED
    BY <2>3, <2>4
<1>14. CASE PullByKey \/ UNCHANGED vars
  BY <1>1, <1>14 DEF PullByKey, vars
<1>15. ASSUME NEW w \in Workers, (\E busy \in BOOLEAN : TakePull(w, busy)) \/ SetFlag(w) \/ Fetch(w)
                                  \/ FetchOk(w) \/ FetchFailed(w)
       PROVE  Calm'
  <2>1. cache'.items = cache.items /\ UNCHANGED <<disk, sync, peer, history>>
    BY <1>t, <1>15, FlagOnly DEF TakePull, SetFlag, Fetch, FetchOk, FetchFailed
  <2>2. \A u \in Workers : worker'[u].batch = worker[u].batch
    BY <1>t, <1>15, ControlKeeps
  <2> QED
    BY <1>1, <2>1, <2>2
<1> QED
  BY <1>s, <1>2, <1>3, <1>4, <1>5, <1>6, <1>7, <1>8, <1>9, <1>10, <1>11, <1>12, <1>13, <1>14, <1>15
  DEF Next, HandleItems, SyncDisk, NetTask, Shutdown

\* The inductive invariant of one goroutine at a time.
Points2 == Points1 /\ Single /\ (restarts = 0 /\ astray = {} => Calm)

\* It holds at the start, and every step keeps it.
LEMMA Points2Init == Init => Points2
<1> SUFFICES ASSUME Init PROVE Single /\ Calm
  BY Points1Init DEF Points2
<1> USE CacheAssumption
<1>1. \A p : Spot(p) => p \in 1..OldLast
  BY SmallLists DEF Init, Spot, NoList, Idle, Free
<1>2. Single
  BY <1>1 DEF Init, Single
<1>3. cache.items = <<>> /\ sync.batch = <<>> /\ gone = {} /\ Range(<<>>) = {}
  BY SmallLists DEF Init, NoList, Idle
<1>4. Calm
  BY <1>3, ShortOrder DEF Calm
<1> QED
  BY <1>2, <1>4

\* Together, with one goroutine at a time.
LEMMA Points2Step == MaxGoes = 1 /\ Points2 /\ [Next]_vars => Points2'
<1> SUFFICES ASSUME MaxGoes = 1, Points2, [Next]_vars PROVE Points2'
  OBVIOUS
<1>1. Points1'
  BY Points1Step DEF Points2
<1>2. (Shape => \A p : Spot(p) => p \in Points)'
  BY SpotPoints, PTL
<1>3. Single'
  BY <1>1, <1>2, SingleStep DEF Points2, Points1
<1>4. restarts' = 0 /\ astray' = {} => Calm'
  BY CalmStep DEF Points2
<1> QED
  BY <1>1, <1>3, <1>4 DEF Points2

\* What the two invariants say of a series.
LEMMA NothingLost ==
  ASSUME Points1
  PROVE  \A p \in 1..arrived : p \in InMemory \cup disk.points \cup old \cup gone
                               \/ \E q \in sends : p \in Range(q.items)
BY MemorySpots DEF Points1, Kept, Spot

\* A step of the instance that is checked is a step of the series or leaves it alone.
LEMMA PointsPart == [MCNext]_<<vars, ivars, part>> => [Next]_vars
BY DEF MCNext

\* Whatever goroutines and workers do, calls that fail and nodes that end
\* included: the state keeps its type, and every point that arrived is cached, in
\* a batch, in a file, with the old node or on the way there, or was thrown away
\* where the code does so.
THEOREM SeriesKnowsPoints ==
  MCSpec => [](/\ TypeOK
               /\ \A p \in 1..arrived : p \in InMemory \cup disk.points \cup old \cup gone
                                        \/ \E q \in sends : p \in Range(q.items))
<1>1. MCSpec => Init /\ [][MCNext]_<<vars, ivars, part>>
  BY DEF MCSpec, MCInit
<1>2. Init /\ [][MCNext]_<<vars, ivars, part>> => []Points1
  BY Points1Init, Points1Step, PointsPart, PTL
<1>3. Points1 => /\ TypeOK
                 /\ \A p \in 1..arrived : p \in InMemory \cup disk.points \cup old \cup gone
                                          \/ \E q \in sends : p \in Range(q.items)
  BY NothingLost DEF Points1, Shape
<1> QED
  BY <1>1, <1>2, <1>3, PTL

\* Every point that arrived is somewhere or was thrown away where the code does
\* so, for any workers, calls, pulls, goroutines, points and restarts; and with
\* one goroutine of handleItems at a time none is thrown away unless a batch
\* had to be put back, a request came too late or the node ended.
THEOREM SeriesKeepsPoints == ASSUME MaxGoes = 1 PROVE MCSpec => []NothingVanishes
<1>1. MCSpec => Init /\ [][MCNext]_<<vars, ivars, part>>
  BY DEF MCSpec, MCInit
<1>2. Init /\ [][MCNext]_<<vars, ivars, part>> => []Points2
  BY Points2Init, Points2Step, PointsPart, PTL
<1>3. Points2 => NothingVanishes
  BY NothingLost DEF Points2, Calm, NothingVanishes
<1> QED
  BY <1>1, <1>2, <1>3, PTL

-----------------------------------------------------------------------------
(* One net worker *)

\* A batch that is put back behind newer points.
LEMMA FallsBack ==
  ASSUME NEW s \in Seq(Points), NEW b \in Seq(Points), Falls(s), Rises(b),
         \A p \in Range(b) : \A r \in Range(s) : p < r
  PROVE  Falls(s \o Reverse(b))
<1> USE CacheAssumption DEF Points
<1>1. /\ Reverse(b) \in Seq(Points) /\ Len(Reverse(b)) = Len(b) /\ Len(b) \in Nat /\ Len(s) \in Nat
      /\ \A n \in 1..Len(b) : Reverse(b)[n] = b[Len(b) - n + 1]
  BY ReverseProperties
<1> DEFINE t == Reverse(b)
<1> HIDE DEF t
<1>3. t \in Seq(Points) /\ Len(t) = Len(b) /\ \A n \in 1..Len(b) : t[n] = b[Len(b) - n + 1]
  BY <1>1 DEF t
<1>2. /\ Len(s \o t) = Len(s) + Len(b)
      /\ \A n \in 1..Len(s) : (s \o t)[n] = s[n]
      /\ \A n \in 1..Len(b) : (s \o t)[Len(s) + n] = t[n]
  <2>1. /\ Len(s \o t) = Len(s) + Len(t)
        /\ \A n \in 1..Len(s) : (s \o t)[n] = s[n]
        /\ \A n \in 1..Len(t) : (s \o t)[Len(s) + n] = t[n]
    BY <1>3, RangeConcat
  <2> QED
    BY <1>3, <2>1
<1> SUFFICES ASSUME NEW i \in 1..(Len(s) + Len(b)), NEW j \in 1..(Len(s) + Len(b)), i < j
             PROVE  (s \o t)[i] > (s \o t)[j]
  BY <1>1, <1>2 DEF Falls, t
<1>4. ASSUME NEW n \in 1..(Len(s) + Len(b)), n > Len(s)
      PROVE  /\ Len(b) - (n - Len(s)) + 1 \in 1..Len(b)
             /\ (s \o t)[n] = b[Len(b) - (n - Len(s)) + 1]
  <2>1. n - Len(s) \in 1..Len(b) /\ Len(s) + (n - Len(s)) = n
    BY <1>1, <1>4
  <2>2. (s \o t)[n] = t[n - Len(s)]
    BY <1>2, <2>1
  <2>3. t[n - Len(s)] = b[Len(b) - (n - Len(s)) + 1]
    BY <1>3, <2>1
  <2>4. Len(b) - (n - Len(s)) + 1 \in 1..Len(b)
    BY <1>1, <2>1
  <2> QED
    BY <2>2, <2>3, <2>4
<1>5. CASE j <= Len(s)
  <2>1. i \in 1..Len(s) /\ j \in 1..Len(s)
    BY <1>1, <1>5
  <2> QED
    BY <1>2, <1>5, <2>1 DEF Falls
<1>6. CASE i <= Len(s) /\ j > Len(s)
  <2>1. i \in 1..Len(s) /\ (s \o t)[i] = s[i] /\ s[i] \in Range(s) /\ s[i] \in Nat
    BY <1>1, <1>2, <1>6 DEF Range
  <2>2. Len(b) - (j - Len(s)) + 1 \in 1..Len(b) /\ (s \o t)[j] = b[Len(b) - (j - Len(s)) + 1]
    BY <1>4, <1>6
  <2>3. b[Len(b) - (j - Len(s)) + 1] \in Range(b) /\ b[Len(b) - (j - Len(s)) + 1] \in Nat
    BY <2>2, SMTT(30) DEF Range
  <2> QED
    BY <2>1, <2>2, <2>3
<1>7. CASE i > Len(s)
  <2>1. Len(b) - (i - Len(s)) + 1 \in 1..Len(b) /\ (s \o t)[i] = b[Len(b) - (i - Len(s)) + 1]
    BY <1>4, <1>7
  <2>2. Len(b) - (j - Len(s)) + 1 \in 1..Len(b) /\ (s \o t)[j] = b[Len(b) - (j - Len(s)) + 1]
    <3>1. j > Len(s)
      BY <1>1, <1>7
    <3> QED
      BY <1>4, <3>1
  <2>3. Len(b) - (j - Len(s)) + 1 < Len(b) - (i - Len(s)) + 1
    BY <1>1
  <2>4. b[Len(b) - (j - Len(s)) + 1] < b[Len(b) - (i - Len(s)) + 1]
    BY <2>1, <2>2, <2>3 DEF Rises
  <2>5. b[Len(b) - (j - Len(s)) + 1] \in Nat /\ b[Len(b) - (i - Len(s)) + 1] \in Nat
    BY <2>1, <2>2, SMTT(30)
  <2> QED
    BY <2>1, <2>2, <2>4, <2>5
<1>8. i \in Nat /\ j \in Nat /\ (j <= Len(s) \/ j > Len(s)) /\ (i <= Len(s) \/ i > Len(s))
  BY <1>1
<1> QED
  BY <1>5, <1>6, <1>7, <1>8

OneWorker == \A u, w \in Workers : u = w

\* The list falls, batches rise, and what the worker sends is older than the list.
Chains ==
  /\ Falls(cache.items) /\ Rises(sync.batch) /\ Rises(stop.batch)
  /\ \A w \in Workers : /\ Rises(worker[w].batch)
                        /\ \A p \in Range(worker[w].batch) : \A r \in Range(cache.items) : p < r

\* Also a batch that is put back keeps the order: it is older than what came since.
LEMMA ChainsStep ==
  ASSUME OneWorker, Points1, Single, Chains, [Next]_vars
  PROVE  Chains'
<1> USE DEF peer, history
<1>t. TypeOK /\ Shape
  BY DEF Points1, Shape
<1>e. <<>> \in Seq(Points) /\ Range(<<>>) = {} /\ cache.items \in Seq(Points) /\ sync.batch \in Seq(Points)
  BY <1>t, SmallLists DEF TypeOK
<1>p. PopAll \in Seq(Points) /\ Range(PopAll) = Range(cache.items) /\ Rises(PopAll)
  BY <1>e, ReverseProperties, ReverseRises DEF PopAll, Chains
<1> HIDE DEF PopAll
<1>1. ASSUME cache'.items = cache.items, \A w \in Workers : worker'[w].batch = worker[w].batch,
             sync'.batch = sync.batch \/ sync'.batch = <<>>, stop'.batch = stop.batch \/ stop'.batch = <<>>
      PROVE  Chains'
  BY <1>1, ShortOrder DEF Chains
<1>2. ASSUME NEW g \in goes, First(g) PROVE Chains'
  BY <1>1, <1>2 DEF First
<1>3. ASSUME NEW g \in goes, PushFront(g) PROVE Chains'
  <2>1. CASE cache.there
    <3>1. cache' = [cache EXCEPT !.items = <<g.point>> \o cache.items] /\ UNCHANGED <<sync, stop, worker>>
      BY <1>3, <2>1 DEF PushFront
    <3> DEFINE s == <<g.point>>
    <3>2. s \in Seq(Points) /\ Range(s) = {g.point} /\ cache'.items = s \o cache.items /\ g.point \in Points
      BY <1>t, <3>1, SmallLists DEF TypeOK
    <3>3. /\ \A p \in Range(cache.items) : p < g.point
          /\ \A w \in Workers : \A p \in Range(worker[w].batch) : p < g.point
      BY DEF Single, Spot
    <3>4. Falls(s \o cache.items)
      BY <1>e, <3>2, <3>3, FallsFront DEF Chains
    <3> HIDE DEF s
    <3>5. Range(cache'.items) = {g.point} \cup Range(cache.items)
      <4>1. Range(s \o cache.items) = Range(s) \cup Range(cache.items)
        BY <1>e, <3>2, RangeConcat
      <4> QED
        BY <3>2, <4>1
    <3> QED
      BY <3>1, <3>2, <3>3, <3>4, <3>5 DEF Chains
  <2>2. CASE ~cache.there
    BY <1>1, <1>3, <2>2 DEF PushFront
  <2> QED
    BY <2>1, <2>2
<1>4. ASSUME NEW g \in goes, Set(g) PROVE Chains'
  <2>1. cache' = [there |-> TRUE, items |-> <<g.point>>, miss |-> g.miss] /\ UNCHANGED <<sync, stop, worker>>
    BY <1>4 DEF Set
  <2>2. cache'.items = <<g.point>> /\ Range(cache'.items) = {g.point} /\ Falls(<<g.point>>)
    BY <1>t, <2>1, SmallLists, ShortOrder DEF TypeOK
  <2>3. \A w \in Workers : \A p \in Range(worker[w].batch) : p < g.point
    BY DEF Single, Spot
  <2> QED
    BY <2>1, <2>2, <2>3 DEF Chains
<1>5. CASE CommitByKey \/ Stop
  <2>1. /\ cache' = [cache EXCEPT !.items = <<>>] /\ UNCHANGED worker
        /\ (sync' = sync /\ stop'.batch = PopAll) \/ (stop' = stop /\ sync'.batch = PopAll)
    BY <1>5 DEF CommitByKey, Stop, Emptied
  <2>2. cache'.items = <<>>
    BY <1>t, <2>1 DEF TypeOK
  <2> QED
    BY <1>e, <1>p, <2>1, <2>2, ShortOrder DEF Chains
<1>6. CASE Send \/ PullByKey \/ SyncFlush \/ StopFlush \/ UNCHANGED vars
  BY <1>1, <1>6 DEF Send, PullByKey, SyncFlush, StopFlush, Idle, vars
<1>7. ASSUME NEW w \in Workers, SendPop(w) PROVE Chains'
  <2>1. /\ worker[w].at = "send" /\ cache' = [WithFlag(worker[w].miss) EXCEPT !.items = <<>>]
        /\ UNCHANGED <<sync, stop>>
    BY <1>7 DEF SendPop
  <2>2. cache'.items = <<>>
    <3>1. WithFlag(worker[w].miss) \in [there : BOOLEAN, items : Seq(Points), miss : BOOLEAN]
      BY <1>t, <2>1, AtWork DEF WithFlag, TypeOK
    <3> QED
      BY <2>1, <3>1
  <2>3. \A u \in Workers : worker'[u].batch = worker[u].batch \/ worker'[u].batch = PopAll
    <3>1. \A u \in Workers : u = w
      BY DEF OneWorker
    <3>2. worker'[w].batch = worker[w].batch \/ worker'[w].batch = PopAll
      <4>1. CASE cache.items = <<>>
        BY <1>t, <1>7, <4>1 DEF SendPop, TypeOK
      <4>2. CASE cache.items # <<>>
        BY <1>t, <1>7, <4>2 DEF SendPop, TypeOK
      <4> QED
        BY <4>1, <4>2
    <3> QED
      BY <3>1, <3>2
  <2> QED
    BY <1>e, <1>p, <2>1, <2>2, <2>3, ShortOrder DEF Chains
<1>8. ASSUME NEW w \in Workers, SendOk(w) PROVE Chains'
  <2>1. worker' = [worker EXCEPT ![w].at = "clear", ![w].batch = <<>>] /\ UNCHANGED <<cache, sync, stop>>
    BY <1>8 DEF SendOk
  <2>2. worker'[w].batch = <<>> /\ \A u \in Workers : u = w
    BY <1>t, <2>1 DEF TypeOK, OneWorker
  <2> QED
    BY <1>e, <2>1, <2>2, ShortOrder DEF Chains
<1>9. ASSUME NEW w \in Workers, SendAgain(w) PROVE Chains'
  <2>1. worker' = [worker EXCEPT ![w].try = @ + 1] /\ UNCHANGED <<cache, sync, stop>>
    BY <1>9 DEF SendAgain
  <2>2. \A u \in Workers : worker'[u].batch = worker[u].batch
    BY <1>t, <2>1 DEF TypeOK
  <2> QED
    BY <1>1, <2>1, <2>2
<1>10. ASSUME NEW w \in Workers, SendFailed(w) PROVE Chains'
  <2>1. /\ worker[w].at = "sending" /\ UNCHANGED <<sync, stop>>
        /\ worker' = [worker EXCEPT ![w].at = "clear", ![w].batch = <<>>]
    BY <1>10 DEF SendFailed
  <2>2. cache.there /\ worker[w].batch \in Seq(Points)
    BY <1>t, <2>1, AtWork
  <2>3. cache'.items = cache.items \o Reverse(worker[w].batch)
    BY <1>t, <1>10, <2>2 DEF SendFailed, PushAll, TypeOK
  <2>4. Falls(cache'.items)
    BY <1>e, <2>2, <2>3, FallsBack DEF Chains
  <2>5. worker'[w].batch = <<>> /\ \A u \in Workers : u = w
    BY <1>t, <2>1 DEF TypeOK, OneWorker
  <2> QED
    BY <1>e, <2>1, <2>4, <2>5, ShortOrder DEF Chains
<1>11. ASSUME NEW q \in sends, Handle(q) PROVE Chains'
  <2>1. UNCHANGED <<cache, sync, stop, worker>>
    BY <1>11 DEF Handle
  <2> QED
    BY <1>1, <2>1
<1>12. ASSUME NEW w \in Workers, Write(w) PROVE Chains'
  <2>1. UNCHANGED <<cache, sync, stop>>
    BY <1>12 DEF Write
  <2> QED
    BY <1>t, <1>1, <1>12, <2>1, WriteKeeps
<1>13. ASSUME NEW w \in Workers, (\E busy \in BOOLEAN : TakePull(w, busy)) \/ SetFlag(w) \/ Fetch(w)
                                  \/ FetchOk(w) \/ FetchFailed(w)
       PROVE  Chains'
  <2>1. cache'.items = cache.items /\ UNCHANGED <<sync, stop>>
    BY <1>t, <1>13, FlagOnly DEF TakePull, SetFlag, Fetch, FetchOk, FetchFailed
  <2>2. \A u \in Workers : worker'[u].batch = worker[u].batch
    BY <1>t, <1>13, ControlKeeps
  <2> QED
    BY <1>1, <2>1, <2>2
<1>14. CASE Exit \/ Kill
  BY <1>e, <1>14, ShortOrder DEF Exit, Kill, Restarted, NoList, Idle, Free, Chains
<1> QED
  BY <1>2, <1>3, <1>4, <1>5, <1>6, <1>7, <1>8, <1>9, <1>10, <1>11, <1>12, <1>13, <1>14
  DEF Next, HandleItems, SyncDisk, NetTask, Shutdown

\* Once there is a file and the node is not stopping, neither the worker nor a
\* list to come takes the series for missing, and the list says so only until
\* the worker that wrote the file has cleared the flag.
Flags ==
  /\ MissMeansNoFile
  /\ disk.there /\ stop.at = "idle" =>
       /\ \A g \in goes : g.at = "set" => ~g.miss
       /\ \A w \in Workers : worker[w].at # "idle" => ~worker[w].miss

\* The file comes while the worker has its task, and it is the worker who clears the
\* flag then.
LEMMA FlagsStep ==
  ASSUME OneWorker, Points1, Single, Flags, [Next]_vars
  PROVE  Flags'
<1> USE DEF peer, history
<1>t. TypeOK /\ Shape
  BY DEF Points1, Shape
<1>0. SUFFICES ASSUME disk'.there, stop'.at = "idle"
               PROVE  /\ cache'.miss => \E w \in Workers : worker'[w].at = "clear" /\ ~worker'[w].miss
                      /\ \A g \in goes' : g.at = "set" => ~g.miss
                      /\ \A w \in Workers : worker'[w].at # "idle" => ~worker'[w].miss
  BY DEF Flags, MissMeansNoFile
<1> DEFINE Goal == /\ cache'.miss => \E w \in Workers : worker'[w].at = "clear" /\ ~worker'[w].miss
                   /\ \A g \in goes' : g.at = "set" => ~g.miss
                   /\ \A w \in Workers : worker'[w].at # "idle" => ~worker'[w].miss
<1>1. ASSUME UNCHANGED <<stop, worker, disk, goes>>, cache'.miss = cache.miss PROVE Goal
  BY <1>0, <1>1 DEF Flags, MissMeansNoFile
<1>2. CASE Exit \/ Kill
  BY <1>2 DEF Exit, Kill, Restarted, NoList, Free
<1>3. CASE Stop \/ StopFlush
  <2>1. stop'.at # "idle"
    BY <1>3 DEF Stop, StopFlush, Idle
  <2> QED
    BY <1>0, <2>1
<1>4. CASE Send
  <2>1. PICK h \in GoStates : h.at = "first" /\ goes' = goes \cup {h}
    BY <1>t, <1>4, SendMoves
  <2>2. UNCHANGED <<stop, worker, disk, cache>>
    BY <1>4 DEF Send
  <2> QED
    BY <1>0, <2>1, <2>2 DEF Flags, MissMeansNoFile
<1>5. ASSUME NEW g \in goes, First(g) PROVE Goal
  <2>1. UNCHANGED <<stop, worker, disk, cache>>
    BY <1>5 DEF First
  <2>2. goes' = goes \ {g} \/ goes' = (goes \ {g}) \cup {[g EXCEPT !.at = "push"]}
    BY <1>5 DEF First
  <2>3. [g EXCEPT !.at = "push"].at = "push"
    BY <1>t DEF TypeOK
  <2> QED
    BY <1>0, <2>1, <2>2, <2>3 DEF Flags, MissMeansNoFile
<1>6. ASSUME NEW g \in goes, PushFront(g) PROVE Goal
  <2>1. UNCHANGED <<stop, worker, disk>>
    BY <1>6 DEF PushFront
  <2>2. cache'.miss = cache.miss
    <3>1. CASE cache.there
      BY <1>t, <1>6, <3>1 DEF PushFront, TypeOK
    <3>2. CASE ~cache.there
      BY <1>6, <3>2 DEF PushFront
    <3> QED
      BY <3>1, <3>2
  <2>3. goes' = goes \ {g} \/ goes' = (goes \ {g}) \cup {[g EXCEPT !.at = "set", !.miss = ~disk.there]}
    BY <1>6 DEF PushFront
  <2>4. ~[g EXCEPT !.at = "set", !.miss = ~disk.there].miss
    <3>1. disk.there
      BY <1>0, <2>1
    <3> QED
      BY <1>t, <3>1 DEF TypeOK
  <2> QED
    BY <1>0, <2>1, <2>2, <2>3, <2>4 DEF Flags, MissMeansNoFile
<1>7. ASSUME NEW g \in goes, Set(g) PROVE Goal
  <2>1. /\ cache' = [there |-> TRUE, items |-> <<g.point>>, miss |-> g.miss]
        /\ goes' = goes \ {g} /\ g.at = "set" /\ UNCHANGED <<stop, worker, disk>>
    BY <1>7 DEF Set
  <2>2. ~g.miss
    BY <1>0, <2>1 DEF Flags
  <2> QED
    BY <1>0, <2>1, <2>2 DEF Flags, MissMeansNoFile
<1>8. CASE CommitByKey
  <2>1. cache' = [cache EXCEPT !.items = <<>>] /\ UNCHANGED <<stop, worker, disk, goes>>
    BY <1>8 DEF CommitByKey, Emptied
  <2>2. cache'.miss = cache.miss
    BY <1>t, <2>1 DEF TypeOK
  <2> QED
    BY <1>1, <2>1, <2>2
<1>9. CASE SyncFlush
  <2>1. UNCHANGED <<stop, worker, goes, cache>> /\ disk.there
    BY <1>t, <1>9 DEF SyncFlush, Shape
  <2> QED
    BY <1>0, <2>1 DEF Flags, MissMeansNoFile
<1>10. CASE PullByKey \/ UNCHANGED vars
  BY <1>1, <1>10 DEF PullByKey, vars
<1>11. ASSUME NEW q \in sends, Handle(q) PROVE Goal
  <2>1. UNCHANGED <<cache, stop, worker, disk, goes>>
    BY <1>11 DEF Handle
  <2> QED
    BY <1>1, <2>1
\* What a step of the worker may do.
<1>12. ASSUME NEW w \in Workers, UNCHANGED <<stop, disk, goes>>,
              cache'.miss => worker'[w].at = "clear" /\ ~worker'[w].miss,
              worker'[w].at # "idle" => ~worker'[w].miss
       PROVE  Goal
  <2>1. \A u \in Workers : u = w
    BY DEF OneWorker
  <2> QED
    BY <1>0, <1>12, <2>1 DEF Flags
<1>13. ASSUME NEW w \in Workers, NEW busy \in BOOLEAN, TakePull(w, busy) PROVE Goal
  <2>1. UNCHANGED <<stop, disk, goes, cache>> /\ worker[w].at = "idle"
    BY <1>13 DEF TakePull
  <2>2. ~cache.miss
    BY <1>0, <2>1 DEF Flags, MissMeansNoFile, OneWorker
  <2> DEFINE st == IF cache.there
                   THEN [Free EXCEPT !.at = IF busy THEN "send" ELSE "fetch", !.miss = cache.miss]
                   ELSE Free
  <2>3. worker' = [worker EXCEPT ![w] = st] /\ ~st.miss
    BY <1>13, <2>2 DEF TakePull, Free
  <2> HIDE DEF st
  <2>4. worker'[w] = st
    BY <1>t, <2>3 DEF TypeOK
  <2> QED
    BY <1>12, <2>1, <2>2, <2>3, <2>4
<1>14. ASSUME NEW w \in Workers, SetFlag(w) PROVE Goal
  <2>1. /\ UNCHANGED <<stop, disk, goes>> /\ worker[w].at = "clear"
        /\ cache' = WithFlag(worker[w].miss) /\ worker'[w] = Free
    BY <1>t, <1>14 DEF SetFlag, TypeOK
  <2>2. ~worker[w].miss /\ cache.there
    BY <1>0, <1>t, <2>1, AtWork DEF Flags
  <2>3. ~cache'.miss
    BY <1>t, <2>1, <2>2 DEF WithFlag, TypeOK
  <2> QED
    BY <1>12, <2>1, <2>3 DEF Free
<1>15. ASSUME NEW w \in Workers, SendPop(w) \/ Fetch(w) PROVE Goal
  <2>1. UNCHANGED <<stop, disk, goes>> /\ worker[w].at # "idle"
    BY <1>15 DEF SendPop, Fetch
  <2>2. ~worker[w].miss /\ cache.there
    BY <1>0, <1>t, <2>1, AtWork DEF Flags
  <2>3. ~cache'.miss
    <3>1. WithFlag(worker[w].miss) = [cache EXCEPT !.miss = worker[w].miss]
      BY <2>2 DEF WithFlag
    <3>2. /\ WithFlag(worker[w].miss) \in [there : BOOLEAN, items : Seq(Points), miss : BOOLEAN]
          /\ WithFlag(worker[w].miss).miss = worker[w].miss
      BY <1>t, <2>1, <3>1, AtWork DEF TypeOK
    <3>3. cache' = WithFlag(worker[w].miss) \/ cache' = [WithFlag(worker[w].miss) EXCEPT !.items = <<>>]
      BY <1>15 DEF SendPop, Fetch
    <3> QED
      BY <2>2, <3>2, <3>3
  <2>4. ~worker'[w].miss
    <3>1. worker'[w].miss = worker[w].miss
      <4>1. CASE Fetch(w)
        BY <1>t, <4>1 DEF Fetch, TypeOK
      <4>2. CASE SendPop(w) /\ cache.items = <<>>
        BY <1>t, <4>2 DEF SendPop, TypeOK
      <4>3. CASE SendPop(w) /\ cache.items # <<>>
        BY <1>t, <4>3 DEF SendPop, TypeOK
      <4> QED
        BY <1>15, <4>1, <4>2, <4>3
    <3> QED
      BY <2>2, <3>1
  <2> QED
    BY <1>12, <2>1, <2>3, <2>4
<1>16. ASSUME NEW w \in Workers, SendOk(w) \/ SendAgain(w) \/ SendFailed(w) \/ FetchOk(w) \/ FetchFailed(w) PROVE Goal
  <2>1. UNCHANGED <<stop, disk, goes>> /\ worker[w].at \in {"sending", "fetching"}
    BY <1>16 DEF SendOk, SendAgain, SendFailed, FetchOk, FetchFailed
  <2>2. ~worker[w].miss /\ ~cache.miss
    BY <1>0, <2>1 DEF Flags, MissMeansNoFile, OneWorker
  <2>3. ~cache'.miss
    BY <1>t, <1>16, <2>2 DEF SendOk, SendAgain, SendFailed, FetchOk, FetchFailed, PushAll, TypeOK
  <2>4. ~worker'[w].miss
    <3>1. worker'[w].miss = worker[w].miss
      <4>1. CASE SendOk(w) \/ SendFailed(w)
        BY <1>t, <4>1 DEF SendOk, SendFailed, TypeOK
      <4>2. CASE SendAgain(w)
        BY <1>t, <4>2 DEF SendAgain, TypeOK
      <4>3. CASE FetchOk(w)
        BY <1>t, <4>3 DEF FetchOk, TypeOK
      <4>4. CASE FetchFailed(w)
        BY <1>t, <4>4 DEF FetchFailed, TypeOK
      <4> QED
        BY <1>16, <4>1, <4>2, <4>3, <4>4
    <3> QED
      BY <2>2, <3>1
  <2> QED
    BY <1>12, <2>1, <2>3, <2>4
<1>17. ASSUME NEW w \in Workers, Write(w) PROVE Goal
  <2>1. UNCHANGED <<stop, goes, cache>> /\ worker[w].at = "write"
    BY <1>17 DEF Write
  <2>2. \A u \in Workers : u = w
    BY DEF OneWorker
  <2>3. CASE disk.there
    <3>1. disk' = disk /\ worker' = [worker EXCEPT ![w] = [worker[w] EXCEPT !.at = "clear", !.body = {}]]
      BY <1>17, <2>3 DEF Write
    <3>2. ~worker[w].miss
      BY <1>0, <2>1, <2>3 DEF Flags
    <3>3. worker'[w].at = "clear" /\ ~worker'[w].miss
      BY <1>t, <3>1, <3>2 DEF TypeOK
    <3> QED
      BY <1>12, <2>1, <3>1, <3>3
  <2>4. CASE ~disk.there
    <3>1. worker' = [worker EXCEPT ![w] = [worker[w] EXCEPT !.at = "clear", !.body = {}, !.miss = FALSE]]
      BY <1>17, <2>4 DEF Write
    <3>2. worker'[w].at = "clear" /\ ~worker'[w].miss
      BY <1>t, <3>1 DEF TypeOK
    <3>3. \A g \in goes : g.at # "set"
      <4>1. cache.there
        BY <1>t, <2>1, AtWork
      <4> QED
        BY <4>1 DEF Single
    <3> QED
      BY <2>1, <2>2, <3>2, <3>3
  <2> QED
    BY <2>3, <2>4
<1> QED
  BY <1>2, <1>3, <1>4, <1>5, <1>6, <1>7, <1>8, <1>9, <1>10, <1>11, <1>13, <1>14, <1>15, <1>16, <1>17
  DEF Next, HandleItems, SyncDisk, NetTask, Shutdown

Points3 == Points2 /\ Chains /\ Flags

\* The list and the batches in order, and the flag true, with one net worker and
\* one goroutine of handleItems at a time, for any calls, pulls, points and
\* restarts; next to it the caches of the index.
THEOREM CachesStaySound == ASSUME MaxGoes = 1, OneWorker PROVE MCSpec => []CachesSound
<1>1. MCSpec => Init /\ IndexInit /\ [][MCNext]_<<vars, ivars, part>>
  BY DEF MCSpec, MCInit
<1>2. Init => Points3
  <2> SUFFICES ASSUME Init PROVE Chains /\ Flags
    BY Points2Init DEF Points3
  <2>1. /\ cache.items = <<>> /\ sync.batch = <<>> /\ stop.batch = <<>> /\ Range(<<>>) = {}
        /\ \A w \in Workers : worker[w].batch = <<>>
        /\ ~disk.there
    BY SmallLists DEF Init, NoList, Idle, Free
  <2> QED
    BY <2>1, ShortOrder DEF Chains, Flags, MissMeansNoFile
<1>3. Points3 /\ [Next]_vars => Points3'
  BY Points2Step, ChainsStep, FlagsStep DEF Points3, Points2
<1>4. Points3 => ListSound
  <2> SUFFICES ASSUME Points3 PROVE NewestLast
    BY DEF Points3, Points2, Points1, Shape, Flags, ListSound
  <2>t. TypeOK /\ Chains
    BY DEF Points3, Points2, Points1, Shape
  <2>1. \A n \in 1..(Len(cache.items) - 1) : cache.items[n] > cache.items[n + 1]
    <3>1. cache.items \in Seq(Points) /\ Falls(cache.items)
      BY <2>t DEF TypeOK, Chains
    <3>2. \A n \in 1..(Len(cache.items) - 1) : n \in 1..Len(cache.items) /\ n + 1 \in 1..Len(cache.items) /\ n < n + 1
      BY <3>1
    <3> QED
      BY <3>1, <3>2 DEF Falls
  <2>2. ASSUME NEW b \in Batches PROVE \A n \in 1..(Len(b) - 1) : b[n] < b[n + 1]
    <3>1. b \in Seq(Points) /\ Rises(b)
      BY <2>t DEF Batches, TypeOK, Chains
    <3>2. \A n \in 1..(Len(b) - 1) : n \in 1..Len(b) /\ n + 1 \in 1..Len(b) /\ n < n + 1
      BY <3>1
    <3> QED
      BY <3>1, <3>2 DEF Rises
  <2> QED
    BY <2>1, <2>2 DEF NewestLast
<1>5. Init /\ [][MCNext]_<<vars, ivars, part>> => []ListSound
  BY <1>2, <1>3, <1>4, PointsPart, PTL
<1>6. IndexInit /\ [][MCNext]_<<vars, ivars, part>> => []IndexTypeOK
  <2>1. IndexInv => IndexTypeOK
    BY DEF IndexInv
  <2> QED
    BY <2>1, IndexInvInit, IndexInvStep, IndexPart, PTL
<1> QED
  BY <1>1, <1>5, <1>6, PTL DEF CachesSound
=============================================================================
