------------------------------ MODULE TransferSend ------------------------------
(***************************************************************************)
(* How transfer brings items to judge, graph and tsdb: the receivers of    *)
(* RecvMetricValues push them on bounded queues                            *)
(* (src/transfer/receiver/rpc/rpc_transfer.go, sender/sender.go), a task   *)
(* per destination takes batches off its queue and hands each to a         *)
(* goroutine that tries to send it a few times (sender/send_tasks.go).     *)
(*                                                                         *)
(* The items are those of one key of the hash rings, numbered in the order *)
(* the agent produced them, so every item goes to the same destinations.   *)
(* A call that fails at the caller may have been handled by the            *)
(* destination, or still be on its way there.                              *)
(***************************************************************************)
EXTENDS Integers, SequencesExt

CONSTANTS
  Receivers,   \* goroutines of RecvMetricValues
  GraphAddrs,  \* the addresses of the key's graph node, {} when graph is disabled
  JudgeNodes,  \* the key's judge, {} when judge is disabled
  Tsdb,        \* tsdb, {} when it is disabled
  Ignored,     \* items whose metric is in IgnoreSelfMetrics
  QueueSize,   \* DefaultSendQueueMaxSize
  Batch,       \* destination -> items of one call
  Concurrent,  \* destination -> calls at the same time
  Tries,       \* destination -> 3, for tsdb MaxRetry
  MaxItems,    \* bound: items that arrive
  MaxRequest,  \* bound: items of one request
  MaxRestarts  \* bound: restarts of transfer

Items == 1..MaxItems
Dests == GraphAddrs \cup JudgeNodes \cup Tsdb

ASSUME TransferAssumption ==
  /\ GraphAddrs \cap JudgeNodes = {} /\ GraphAddrs \cap Tsdb = {} /\ JudgeNodes \cap Tsdb = {}
  /\ QueueSize \in Nat /\ MaxItems \in Nat /\ MaxRequest \in Nat /\ MaxRestarts \in Nat
  /\ \A d \in Dests : Batch[d] \in Nat \ {0} /\ Concurrent[d] \in Nat \ {0} /\ Tries[d] \in Nat \ {0}

VARIABLES
  arrived,   \* items that have arrived
  restarts,
  todo,      \* receiver -> pushes it has still to make, a set of <<destination, item>>
  queue,     \* destination -> its queue, oldest first
  holding,   \* destination -> the batch that waits for the semaphore
  calls,     \* destination -> the calls of its goroutines
  wire,      \* destination -> requests sent and not handled
  copies,    \* destination -> item -> how often it was handled
  entered,   \* destination -> items that were newer than all before when they were handled
  dropped,   \* destination -> items counted in Send..DropCnt
  sent,      \* destination -> items counted in Send..Cnt
  failed,    \* destination -> items counted in Send..FailCnt
  lost       \* history: destination -> items a restart threw away

counters == <<dropped, sent, failed, lost>>
inside   == <<queue, holding, calls>>
outside  == <<wire, copies, entered>>
vars == <<arrived, restarts, todo, inside, outside, counters>>

Call(items, try) == [items |-> items, try |-> try, answered |-> FALSE]
Request(c)       == [items |-> c.items, try |-> c.try]

Init ==
  /\ arrived = 0 /\ restarts = 0
  /\ todo = [r \in Receivers |-> {}]
  /\ queue = [d \in Dests |-> <<>>]
  /\ holding = [d \in Dests |-> <<>>]
  /\ calls = [d \in Dests |-> {}]
  /\ wire = [d \in Dests |-> {}]
  /\ copies = [d \in Dests |-> [i \in Items |-> 0]]
  /\ entered = [d \in Dests |-> {}]
  /\ dropped = [d \in Dests |-> {}] /\ sent = [d \in Dests |-> {}]
  /\ failed = [d \in Dests |-> {}] /\ lost = [d \in Dests |-> {}]

-----------------------------------------------------------------------------
(* RecvMetricValues *)

\* The destinations of an item, and the order of a request's pushes: all items
\* to graph, then all to judge, then all to tsdb.
Wants(d, i) == d \in GraphAddrs => i \notin Ignored
Stage(d)    == IF d \in GraphAddrs THEN 1 ELSE IF d \in JudgeNodes THEN 2 ELSE 3
Before(p, q) == Stage(p[1]) < Stage(q[1]) \/ (Stage(p[1]) = Stage(q[1]) /\ p[2] < q[2])

Recv(r, n) ==
  /\ todo[r] = {}
  /\ arrived + n <= MaxItems
  /\ arrived' = arrived + n
  /\ todo' = [todo EXCEPT ![r] = {p \in Dests \X ((arrived + 1)..(arrived + n)) : Wants(p[1], p[2])}]
  /\ UNCHANGED <<restarts, inside, outside, counters>>

\* Mutant: one item more than the queue has room for.
HasRoomOneMore(d) == Len(queue[d]) <= QueueSize

HasRoom(d) == Len(queue[d]) < QueueSize

Push(r, d, i) ==
  /\ <<d, i>> \in todo[r] /\ \A p \in todo[r] : ~Before(p, <<d, i>>)
  /\ IF HasRoom(d)
     THEN queue' = [queue EXCEPT ![d] = Append(@, i)] /\ UNCHANGED dropped
     ELSE dropped' = [dropped EXCEPT ![d] = @ \cup {i}] /\ UNCHANGED queue
  /\ todo' = [todo EXCEPT ![r] = @ \ {<<d, i>>}]
  /\ UNCHANGED <<arrived, restarts, holding, calls, outside, sent, failed, lost>>

-----------------------------------------------------------------------------
(* forward2JudgeTask, forward2GraphTask, forward2TsdbTask *)

\* Mutant: the last item of a batch stays in the queue.
PopBackByOneLess(d) ==
  LET n == IF Len(queue[d]) < Batch[d] THEN Len(queue[d]) ELSE Batch[d] IN
  /\ holding[d] = <<>> /\ queue[d] # <<>>
  /\ holding' = [holding EXCEPT ![d] = SubSeq(queue[d], 1, n)]
  /\ queue' = [queue EXCEPT ![d] = SubSeq(@, n, Len(@))]
  /\ UNCHANGED <<arrived, restarts, todo, calls, outside, counters>>

PopBackBy(d) ==
  LET n == IF Len(queue[d]) < Batch[d] THEN Len(queue[d]) ELSE Batch[d] IN
  /\ holding[d] = <<>> /\ queue[d] # <<>>
  /\ holding' = [holding EXCEPT ![d] = SubSeq(queue[d], 1, n)]
  /\ queue' = [queue EXCEPT ![d] = SubSeq(@, n + 1, Len(@))]
  /\ UNCHANGED <<arrived, restarts, todo, calls, outside, counters>>

\* Mutant: one call too many at a time.
AcquiredOneMore(d) == Cardinality(calls[d]) <= Concurrent[d]

\* Semaphore.Acquire
Acquired(d) == Cardinality(calls[d]) < Concurrent[d]

StartCall(d) ==
  LET c == Call(holding[d], 1) IN
  /\ holding[d] # <<>> /\ Acquired(d)
  /\ holding' = [holding EXCEPT ![d] = <<>>]
  /\ calls' = [calls EXCEPT ![d] = @ \cup {c}]
  /\ wire' = [wire EXCEPT ![d] = @ \cup {Request(c)}]
  /\ UNCHANGED <<arrived, restarts, todo, queue, copies, entered, counters>>

\* A series takes a point only when it is newer than all it was given before
\* (SafeLinkedList.PushFrontAndMaintain of the judge).
Newer(d, q) == {q.items[n] : n \in {m \in DOMAIN q.items :
                  /\ \A i \in Items : copies[d][i] > 0 => i < q.items[m]
                  /\ \A k \in 1..(m - 1) : q.items[k] < q.items[m]}}

\* The destination handles a request; its caller may have given up on it.
Handle(d, q) ==
  /\ q \in wire[d]
  /\ wire' = [wire EXCEPT ![d] = @ \ {q}]
  /\ copies' = [copies EXCEPT ![d] =
                  [i \in Items |-> IF i \in Range(q.items) THEN @[i] + 1 ELSE @[i]]]
  /\ entered' = [entered EXCEPT ![d] = @ \cup Newer(d, q)]
  /\ calls' = [calls EXCEPT ![d] =
                 {IF Request(c) = q THEN [c EXCEPT !.answered = TRUE] ELSE c : c \in @}]
  /\ UNCHANGED <<arrived, restarts, todo, queue, holding, counters>>

\* Call returns without an error.
CallOk(d, c) ==
  /\ c \in calls[d] /\ c.answered
  /\ calls' = [calls EXCEPT ![d] = @ \ {c}]
  /\ sent' = [sent EXCEPT ![d] = @ \cup Range(c.items)]
  /\ UNCHANGED <<arrived, restarts, todo, queue, holding, outside, dropped, failed, lost>>

\* What an error of Call leaves on the wire: the request, or nothing.
Left(d, c) == {wire[d], wire[d] \ {Request(c)}}

\* Mutant: one try too many.
MayRetryOneMore(d, c) == c.try <= Tries[d]

MayRetry(d, c) == c.try < Tries[d]

Retry(d, c) ==
  LET again == Call(c.items, c.try + 1) IN
  /\ c \in calls[d] /\ MayRetry(d, c)
  /\ calls' = [calls EXCEPT ![d] = (@ \ {c}) \cup {again}]
  /\ \E left \in Left(d, c) : wire' = [wire EXCEPT ![d] = left \cup {Request(again)}]
  /\ UNCHANGED <<arrived, restarts, todo, queue, holding, copies, entered, counters>>

\* Mutant: the semaphore of a batch given up is not released.
GiveUpUnreleased(d, c) ==
  /\ c \in calls[d] /\ ~MayRetry(d, c)
  /\ failed' = [failed EXCEPT ![d] = @ \cup Range(c.items)]
  /\ \E left \in Left(d, c) : wire' = [wire EXCEPT ![d] = left]
  /\ UNCHANGED <<arrived, restarts, todo, inside, copies, entered, dropped, sent, lost>>

GiveUp(d, c) ==
  /\ c \in calls[d] /\ ~MayRetry(d, c)
  /\ calls' = [calls EXCEPT ![d] = @ \ {c}]
  /\ failed' = [failed EXCEPT ![d] = @ \cup Range(c.items)]
  /\ \E left \in Left(d, c) : wire' = [wire EXCEPT ![d] = left]
  /\ UNCHANGED <<arrived, restarts, todo, queue, holding, copies, entered, dropped, sent, lost>>

InCalls(d) == UNION {Range(c.items) : c \in calls[d]}
Inside(d)  == Range(queue[d]) \cup Range(holding[d]) \cup InCalls(d)

\* Nothing transfer keeps survives it; requests on the wire do.
Restart ==
  /\ restarts < MaxRestarts /\ restarts' = restarts + 1
  /\ todo' = [r \in Receivers |-> {}]
  /\ queue' = [d \in Dests |-> <<>>]
  /\ holding' = [d \in Dests |-> <<>>]
  /\ calls' = [d \in Dests |-> {}]
  /\ lost' = [d \in Dests |-> lost[d] \cup Inside(d)]
  /\ UNCHANGED <<arrived, outside, dropped, sent, failed>>

PushSome(r) == \E p \in todo[r] : Push(r, p[1], p[2])

Task(d) ==
  \/ PopBackBy(d) \/ StartCall(d)
  \/ \E c \in calls[d] : CallOk(d, c) \/ Retry(d, c) \/ GiveUp(d, c)

Next ==
  \/ \E r \in Receivers : PushSome(r) \/ \E n \in 1..MaxRequest : Recv(r, n)
  \/ \E d \in Dests : Task(d) \/ \E q \in wire[d] : Handle(d, q)
  \/ Restart

Spec == Init /\ [][Next]_vars

\* The scheduler runs every task and goroutine, and CallTimeout ends every
\* call.  That a destination ever answers is not assumed.
TasksFair == Spec /\ \A d \in Dests : WF_vars(Task(d))

-----------------------------------------------------------------------------
(* Properties *)

\* No queue outgrows its bound, no destination more calls than its semaphore
\* has room for, whatever is on the wire is a batch somebody sent.
TypeOK ==
  /\ arrived \in 0..MaxItems /\ restarts \in 0..MaxRestarts
  /\ todo \in [Receivers -> SUBSET (Dests \X Items)]
  /\ queue \in [Dests -> Seq(Items)] /\ \A d \in Dests : Len(queue[d]) <= QueueSize
  /\ holding \in [Dests -> Seq(Items)] /\ \A d \in Dests : Len(holding[d]) <= Batch[d]
  /\ calls \in [Dests -> SUBSET [items : Seq(Items), try : Nat, answered : BOOLEAN]]
  /\ wire \in [Dests -> SUBSET [items : Seq(Items), try : Nat]]
  /\ \A d \in Dests :
       /\ Cardinality(calls[d]) <= Concurrent[d]
       /\ \A c \in calls[d] : Len(c.items) \in 1..Batch[d] /\ c.try \in 1..Tries[d]
  /\ copies \in [Dests -> [Items -> Nat]]
  /\ entered \in [Dests -> SUBSET Items]
  /\ dropped \in [Dests -> SUBSET Items] /\ sent \in [Dests -> SUBSET Items]
  /\ failed \in [Dests -> SUBSET Items] /\ lost \in [Dests -> SUBSET Items]

Waiting(d)   == {i \in Items : \E r \in Receivers : <<d, i>> \in todo[r]}
Places(d)    == <<Waiting(d), Range(queue[d]), Range(holding[d]), InCalls(d),
                  dropped[d], sent[d], failed[d], lost[d]>>

\* An item is in one place at a time: still to be pushed, queued, waiting for
\* the semaphore, being sent, or counted once, as dropped, sent or failed.
\* None is counted twice, and none is sent in two batches.
OnePlace ==
  \A d \in Dests :
    /\ LET p == Places(d) IN \A m \in 2..8 : \A n \in 1..(m - 1) : p[m] \cap p[n] = {}
    /\ \A c, e \in calls[d] : c # e => Range(c.items) \cap Range(e.items) = {}
    /\ IsInjective(queue[d]) /\ IsInjective(holding[d])

\* With no restart nothing that arrived disappears without being counted.
NothingUncounted ==
  restarts = 0 => \A d \in Dests :
                    {i \in 1..arrived : Wants(d, i)} \subseteq UNION Range(Places(d))

\* Every copy of every item is accounted for, once.
Accounted == OnePlace /\ NothingUncounted

\* With one receiver and one call at a time, every point counted as sent to
\* the judge entered its series, whatever was tried again, answered late or
\* handled after transfer had given it up.
SentEntersSeries ==
  \A d \in JudgeNodes : sent[d] \subseteq entered[d]

Status == [d \in Dests |-> LET kept == Inside(d) IN [i \in Items |->
             CASE i \in kept       -> "kept"
               [] i \in dropped[d] -> "dropped"
               [] i \in sent[d]    -> "sent"
               [] i \in failed[d]  -> "failed"
               [] i \in lost[d]    -> "lost"
               [] OTHER            -> "new"]]

Channel == INSTANCE DeliveryChannel WITH status <- Status, copies <- copies

\* Every destination is served as DeliveryChannel promises.
ImplementsChannel == Channel!Spec

\* Once no more items come, everything that was queued is sent or given up, even if
\* the destinations never answer.
Settled == <>[](\A d \in Dests : Inside(d) = {})
=============================================================================
