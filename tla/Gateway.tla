------------------------------ MODULE Gateway ------------------------------
(* The gateway between agents and transfers: receivers put the valid items on   *)
(* one bounded queue (src/gateway/receiver), a task takes batches off it and    *)
(* hands each to a goroutine that looks for a transfer that takes it            *)
(* (src/gateway/sender).  A transfer with too many calls is passed over.         *)
EXTENDS Integers, SequencesExt

CONSTANTS
    Hosts,         \* TransferHostnames
    MaxConns, Retries, \* of the configuration
    QueueMax,      \* DefaultSendQueueMaxSize
    MaxArrivals    \* bound: items received, each a batch of its own

ASSUME GatewayAssumption ==
    Hosts # {} /\ IsFiniteSet(Hosts) /\ MaxConns \in Nat \ {0} /\ Retries \in Nat /\ QueueMax \in Nat /\ MaxArrivals \in Nat

Arrivals == 1..MaxArrivals
Retry == IF Retries < 1 THEN 1 ELSE Retries
Concurrent == MaxConns * Cardinality(Hosts)

VARIABLES
    received,      \* items received so far
    SenderQueue,   \* oldest first
    popped,        \* the batch that waits for the semaphore
    tasks,         \* the goroutines of batches
    calling,       \* host -> its counter of calls in flight
    handled,       \* item -> how often a transfer handled it
    adrift,        \* item -> requests of failed calls that may still be handled
    dropped, sent, failed   \* items by the meter that counts them
gvars == <<received, SenderQueue, popped, tasks, calling, handled, adrift, dropped, sent, failed>>

Tasks == [item : Arrivals, round : Nat, left : SUBSET Hosts,
          at : {"scan", "free", "call", "answered"}, host : SUBSET Hosts]

GatewayTypeOK ==
    /\ received \in 0..MaxArrivals
    /\ SenderQueue \in Seq(Arrivals) /\ popped \in Seq(Arrivals)
    /\ Len(SenderQueue) <= QueueMax /\ Len(popped) <= 1
    /\ tasks \subseteq Tasks /\ Cardinality(tasks) <= Concurrent
    /\ calling \in [Hosts -> Nat] /\ handled \in [Arrivals -> Nat] /\ adrift \in [Arrivals -> Nat]
    /\ dropped \subseteq Arrivals /\ sent \subseteq Arrivals /\ failed \subseteq Arrivals

GatewayInit ==
    /\ received = 0 /\ SenderQueue = << >> /\ popped = << >> /\ tasks = {}
    /\ calling = [h \in Hosts |-> 0]
    /\ handled = [i \in Arrivals |-> 0]
    /\ adrift = [i \in Arrivals |-> 0]
    /\ dropped = {} /\ sent = {} /\ failed = {}

----------------------------------------------------------------------------
\* RecvMetricValues and the telnet socket: an item that is refused is answered for
\* and forgotten, one that the queue has no room for is dropped.
Push2SendQueue ==
    /\ received < MaxArrivals
    /\ received' = received + 1
    /\ IF Len(SenderQueue) < QueueMax
       THEN SenderQueue' = Append(SenderQueue, received') /\ UNCHANGED dropped
       ELSE dropped' = dropped \cup {received'} /\ UNCHANGED SenderQueue

Receive ==
    /\ Push2SendQueue
    /\ UNCHANGED <<popped, tasks, calling, handled, adrift, sent, failed>>

----------------------------------------------------------------------------
\* forward2TransferTask.
PopBackBy ==
    /\ popped = << >> /\ SenderQueue # << >>
    /\ popped' = <<Head(SenderQueue)>>
    /\ SenderQueue' = Tail(SenderQueue)
    /\ UNCHANGED <<received, tasks, calling, handled, adrift, dropped, sent, failed>>

Task(i) == [item |-> i, round |-> 1, left |-> Hosts, at |-> "scan", host |-> {}]

StartTask ==
    /\ popped # << >> /\ Cardinality(tasks) < Concurrent
    /\ tasks' = tasks \cup {Task(popped[1])}
    /\ popped' = << >>
    /\ UNCHANGED <<received, SenderQueue, calling, handled, adrift, dropped, sent, failed>>

Becomes(t, u) == tasks' = (tasks \ {t}) \cup {u}

\* The counter of a host is read, and raised a step later: others may pass between.
Busy(h) == calling[h] >= MaxConns

LookAt(t, h) ==
    /\ t \in tasks /\ t.at = "scan" /\ h \in t.left
    /\ LET next == [t EXCEPT !.left = @ \ {h}] IN
       Becomes(t, IF Busy(h) THEN next ELSE [next EXCEPT !.at = "free", !.host = {h}])
    /\ UNCHANGED <<received, SenderQueue, popped, calling, handled, adrift, dropped, sent, failed>>

StartCall(t) ==
    /\ t \in tasks /\ t.at = "free"
    /\ Becomes(t, [t EXCEPT !.at = "call"])
    /\ calling' = [h \in Hosts |-> IF h \in t.host THEN calling[h] + 1 ELSE calling[h]]
    /\ UNCHANGED <<received, SenderQueue, popped, handled, adrift, dropped, sent, failed>>

Handle(t) ==
    /\ t \in tasks /\ t.at = "call"
    /\ Becomes(t, [t EXCEPT !.at = "answered"])
    /\ handled' = [handled EXCEPT ![t.item] = @ + 1]
    /\ UNCHANGED <<received, SenderQueue, popped, calling, adrift, dropped, sent, failed>>

HandleAdrift(i) ==
    /\ adrift[i] > 0
    /\ adrift' = [adrift EXCEPT ![i] = @ - 1]
    /\ handled' = [handled EXCEPT ![i] = @ + 1]
    /\ UNCHANGED <<received, SenderQueue, popped, tasks, calling, dropped, sent, failed>>

Released(t) == [h \in Hosts |-> IF h \in t.host THEN calling[h] - 1 ELSE calling[h]]

CallOk(t) ==
    /\ t \in tasks /\ t.at = "answered"
    /\ calling' = Released(t)
    /\ tasks' = tasks \ {t}
    /\ sent' = sent \cup {t.item}
    /\ UNCHANGED <<received, SenderQueue, popped, handled, adrift, dropped, failed>>

\* The pool has no connection to give, the call times out or breaks: the next host.
CallFails(t, arrives) ==
    /\ t \in tasks /\ t.at \in {"call", "answered"}
    /\ arrives => t.at = "call"
    /\ calling' = Released(t)
    /\ Becomes(t, [t EXCEPT !.at = "scan", !.host = {}])
    /\ adrift' = [adrift EXCEPT ![t.item] = IF arrives THEN @ + 1 ELSE @]
    /\ UNCHANGED <<received, SenderQueue, popped, handled, dropped, sent, failed>>

LastRound(t) == t.round >= Retry

NextRound(t) ==
    /\ t \in tasks /\ t.at = "scan" /\ t.left = {} /\ ~LastRound(t)
    /\ Becomes(t, [t EXCEPT !.round = @ + 1, !.left = Hosts])
    /\ UNCHANGED <<received, SenderQueue, popped, calling, handled, adrift, dropped, sent, failed>>

SendFails(t) ==
    /\ t \in tasks /\ t.at = "scan" /\ t.left = {} /\ LastRound(t)
    /\ tasks' = tasks \ {t}
    /\ failed' = failed \cup {t.item}
    /\ UNCHANGED <<received, SenderQueue, popped, calling, handled, adrift, dropped, sent>>

ForwardTask ==
    \/ PopBackBy \/ StartTask
    \/ \E t \in tasks :
         \/ \E h \in Hosts : LookAt(t, h)
         \/ StartCall(t) \/ CallOk(t) \/ NextRound(t) \/ SendFails(t)
         \/ \E arrives \in BOOLEAN : CallFails(t, arrives)

Transfers == (\E t \in tasks : Handle(t)) \/ (\E i \in Arrivals : HandleAdrift(i))

GatewayNext == Receive \/ ForwardTask \/ Transfers

\* Nothing is on its way any more.
GatewayIdle == SenderQueue = << >> /\ popped = << >> /\ tasks = {}

----------------------------------------------------------------------------
InTasks == {t.item : t \in tasks}
GatewayStatus == [i \in Arrivals |->
    CASE i \in Range(SenderQueue) \cup Range(popped) \cup InTasks -> "kept"
      [] i \in dropped -> "dropped"
      [] i \in sent    -> "sent"
      [] i \in failed  -> "failed"
      [] OTHER         -> "new"]
GatewayChannel == INSTANCE DeliveryChannel WITH
    Dests <- {"transfer"}, Items <- Arrivals, Tries <- [d \in {"transfer"} |-> Retry * Cardinality(Hosts)],
    status <- [d \in {"transfer"} |-> GatewayStatus], copies <- [d \in {"transfer"} |-> handled]

\* The gateway makes an agent's items the same promise as transfer does: dropped at
\* once, or kept until a transfer has handled them or every host was passed over or
\* failed in every round.
GatewayIsChannel == GatewayChannel!Spec

\* The counter of a host is the number of calls in flight to it, also after errors,
\* so no host is passed over for calls that are gone; it exceeds MaxConns only by
\* goroutines that looked at it before the others were counted.
SlotsMatch ==
    \A h \in Hosts :
        /\ calling[h] = Cardinality({t \in tasks : t.at \in {"call", "answered"} /\ h \in t.host})
        /\ calling[h] <= Concurrent
=============================================================================
