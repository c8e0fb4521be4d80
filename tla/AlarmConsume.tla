------------------------------ MODULE AlarmConsume ------------------------------
(***************************************************************************)
(* Alarm: the readers that take events off redis, record them in MySQL and *)
(* tell users of them (cron/event_reader.go, event_consumer.go,            *)
(* callback.go, model/event), the combiners that put the low ones of a     *)
(* minute together (cron/combiner.go), the senders (cron/sms_sender.go and *)
(* the like), and the notes by which the api closes a case.                *)
(*                                                                         *)
(* An event is its number.  The queues of messages are sets: groups are    *)
(* written in the order of a Go map, and messages are sent by concurrent   *)
(* goroutines, so their order says nothing.  Every event has an action     *)
(* with a team, and every user of it a phone, a mail address and an IM     *)
(* account.                                                                *)
(***************************************************************************)
EXTENDS Integers, SequencesExt

CONSTANTS
  Cases,        \* ids of events: a rule and a series
  SelfCases,    \* those whose metric the judge ignores, but for DDALERT
  MetricOf,     \* case -> its metric
  Users,        \* of the team of the action
  Kinds,        \* "sms", "im", "mail", in the order they are told
  Prios,        \* priorities; each has its queue
  HighPrios,    \* those of HighQueues
  Callback,     \* whether the action has a callback
  Before, After,\* kinds told before and after the callback
  Workers,      \* kind -> slots of its worker channel
  MaxEvents,    \* bound: events the judge sends
  MaxFailures   \* bound: failures of redis, MySQL, the api and the providers,
                \* and exits of alarm

ASSUME AlarmAssumption ==
  /\ DOMAIN MetricOf = Cases /\ SelfCases \subseteq Cases
  /\ Kinds \in Seq(Range(Kinds)) /\ IsInjective(Kinds)
  /\ HighPrios \subseteq Prios /\ Prios \subseteq Nat
  /\ Callback \in BOOLEAN /\ Before \cup After \subseteq Range(Kinds)
  /\ Workers \in [Range(Kinds) -> Nat \ {0}]
  /\ MaxEvents \in Nat /\ MaxFailures \in Nat

Readers == {"high", "low"}
Channels == Range(Kinds)

VARIABLES
  events,    \* history: every event the judge sent
  queue,     \* priority -> numbers of the events in its queue in redis
  reader,    \* ReadHighEvent and ReadLowEvent
  cases,     \* the table event_cases
  rows,      \* the tables events and alerts
  known,     \* the caches of actions and users that have an entry
  users,     \* kind -> what waits for its combiner
  combiner,  \* kind -> what its combiner has taken
  messages,  \* kind -> messages in /sms, /im and /mail
  sender,    \* kind -> messages its consumer has taken, and those being sent
  told,      \* history: items a provider has taken
  lost,      \* history: items that were given up
  unheard,   \* history: events given up
  consumed,  \* history: events a reader is done with
  failures

redis == <<queue, users, messages>>
mysql == <<cases, rows>>
history == <<told, lost, unheard, consumed>>
vars == <<events, redis, reader, mysql, known, combiner, sender, history, failures>>

\* A case: the event it was last made of, whether a note closed it, and, as
\* history, the event it had by then and those that had read it before.
NoCase == [no |-> 0, closed |-> FALSE, seen |-> 0, before |-> {}]
Free   == [at |-> "idle", no |-> 0, found |-> NoCase, to |-> {}, jobs |-> <<>>]
Event(n) == events[n]

Init ==
  /\ events = <<>> /\ queue = [p \in Prios |-> <<>>]
  /\ reader = [r \in Readers |-> Free]
  /\ cases = [c \in Cases |-> NoCase] /\ rows = {} /\ known = {}
  /\ users = [k \in Channels |-> {}] /\ combiner = [k \in Channels |-> {}]
  /\ messages = [k \in Channels |-> {}]
  /\ sender = [k \in Channels |-> [list |-> {}, sending |-> {}]]
  /\ told = {} /\ lost = {} /\ unheard = {} /\ consumed = {}
  /\ failures = 0

\* What goes wrong is bounded.
Fails == failures < MaxFailures /\ failures' = failures + 1
Works == UNCHANGED failures

\* A message is about some events and goes to some users.  An item is one event
\* of a message for one user.
Message(nos, to, part) == [nos |-> nos, to |-> to, part |-> part]
Items(kind, m) == [no : m.nos, user : m.to, kind : {kind}, part : {m.part}]

-----------------------------------------------------------------------------
(* What alarm is given *)

\* A case starts with a problem, and may be well again after one.
Judge(c, p, status) ==
  /\ Len(events) < MaxEvents
  /\ status = "DDALERT" <=> c \in SelfCases
  /\ status = "OK" =>
       \E m \in DOMAIN events : /\ events[m].case = c /\ events[m].status = "PROBLEM"
                               /\ \A n \in m + 1..Len(events) : events[n].case # c
  /\ events' = Append(events, [case |-> c, prio |-> p, status |-> status])
  /\ queue' = [queue EXCEPT ![p] = Append(@, Len(events) + 1)]
  /\ UNCHANGED <<reader, users, messages, mysql, known, combiner, sender, history, failures>>

\* AddNotesToAlarm with resolved or ignored.
Note(c) ==
  /\ cases[c].no # 0
  /\ cases' = [cases EXCEPT ![c] = [no |-> cases[c].no, closed |-> TRUE, seen |-> cases[c].no,
       before |-> {reader[r].no : r \in {s \in Readers : reader[s].at = "write"}}]]
  /\ UNCHANGED <<events, redis, reader, rows, known, combiner, sender, history, failures>>

-----------------------------------------------------------------------------
(* popEvent *)

Queues(r) == IF r = "high" THEN HighPrios ELSE Prios \ HighPrios

\* BRPOP takes from the first queue that has an event; the answer may not arrive.
Pop(r) ==
  \E p \in Queues(r) :
    LET n == Head(queue[p]) IN
    /\ reader[r].at = "idle" /\ queue[p] # <<>>
    /\ \A q \in Queues(r) : queue[q] # <<>> => p <= q
    /\ queue' = [queue EXCEPT ![p] = Tail(@)]
    /\ \/ /\ Works
          /\ reader' = [reader EXCEPT ![r] = [Free EXCEPT
               !.no = n, !.at = IF Event(n).status = "DDALERT" THEN "write" ELSE "case"]]
          /\ UNCHANGED unheard
       \/ Fails /\ unheard' = unheard \cup {n} /\ UNCHANGED reader
    /\ UNCHANGED <<events, users, messages, mysql, known, combiner, sender, told, lost, consumed>>

\* InsertEvent reads the case; when that fails it goes on as if there was none.
ReadCase(r) ==
  /\ reader[r].at = "case"
  /\ \/ Works /\ reader' = [reader EXCEPT ![r].at = "write", ![r].found = cases[Event(reader[r].no).case]]
     \/ Fails /\ reader' = [reader EXCEPT ![r].at = "write"]
  /\ UNCHANGED <<events, redis, mysql, known, combiner, sender, history>>

\* Mutant: a closed case stays closed.
UpdatedNotReopened(case, found, n) == [case EXCEPT !.no = n]

\* The UPDATE reopens the case that was read.
Updated(case, found, n) ==
  [case EXCEPT !.no = n, !.closed = IF found.closed THEN FALSE ELSE @]

\* Where no case was read one is inserted, and refused if there is one.
\* insertEvent, or InsertAlert, adds its row whatever came of that.
WriteCase(r) ==
  LET n == reader[r].no  c == Event(n).case
      made == IF Event(n).status = "DDALERT" THEN cases[c]
              ELSE IF reader[r].found.no # 0 THEN Updated(cases[c], reader[r].found, n)
              ELSE IF cases[c].no = 0 THEN [NoCase EXCEPT !.no = n] ELSE cases[c] IN
  /\ reader[r].at = "write"
  /\ \/ Works /\ cases' = [cases EXCEPT ![c] = made] /\ rows' = rows \cup {n}
     \/ Fails /\ UNCHANGED cases /\ rows' \in {rows, rows \cup {n}}
     \/ Fails /\ cases' = [cases EXCEPT ![c] = made] /\ UNCHANGED rows
  /\ reader' = [reader EXCEPT ![r].at = "action"]
  /\ UNCHANGED <<events, redis, known, combiner, sender, history>>

-----------------------------------------------------------------------------
(* consume *)

Job(do, kind, part) == [do |-> do, kind |-> kind, part |-> part]

\* Messages go out by sms for the first three priorities only.
MayTell(n, kind) == kind = "sms" => Event(n).prio < 3

\* Those of the kinds, in the order they are told.
Chosen(S) ==
  LET first[n \in 0..Len(Kinds)] ==
        IF n = 0 THEN <<>>
        ELSE IF Kinds[n] \in S THEN Append(first[n - 1], Kinds[n]) ELSE first[n - 1]
  IN  first[Len(Kinds)]
Tell(S, do, part) == [n \in DOMAIN Chosen(S) |-> Job(do, Chosen(S)[n], part)]
GetTeam == <<Job("team", "", "")>>

HandleCallback ==
  IF ~Callback THEN <<>>
  ELSE GetTeam \o Tell(Before, "write", "before")
       \o <<Job("call", "", "")>> \o Tell(After, "write", "after")

\* High events are written as messages at once, low ones for each user by itself.
Consume(r, n) ==
  LET kinds == {k \in Channels : MayTell(n, k)}
  IN  HandleCallback \o IF r = "high" THEN GetTeam \o Tell(kinds, "write", "event")
                        ELSE Tell(kinds, "split", "event")

\* A lookup at the api that fails is answered from the cache, if that has an entry.
Lookup(what) ==
  \/ Works /\ known' = known \cup {what}
  \/ Fails /\ what \in known /\ UNCHANGED known
NoAnswer(what) == Fails /\ what \notin known /\ UNCHANGED known

\* With its last job the reader is done with the event.
Go(r, to, jobs) ==
  /\ reader' = [reader EXCEPT ![r] =
       IF jobs = <<>> THEN Free ELSE [reader[r] EXCEPT !.at = "jobs", !.to = to, !.jobs = jobs]]
  /\ consumed' = IF jobs = <<>> THEN consumed \cup {reader[r].no} ELSE consumed

GetAction(r) ==
  LET n == reader[r].no IN
  /\ reader[r].at = "action"
  /\ \/ Lookup("action") /\ Go(r, {}, Consume(r, n)) /\ UNCHANGED unheard
     \/ /\ NoAnswer("action")
        /\ reader' = [reader EXCEPT ![r] = Free]
        /\ unheard' = unheard \cup {n}
        /\ UNCHANGED consumed
  /\ UNCHANGED <<events, redis, mysql, combiner, sender, told, lost>>

Doing(r, do) == reader[r].at = "jobs" /\ reader[r].jobs[1].do = do
Rest(r)      == Go(r, reader[r].to, Tail(reader[r].jobs))

ParseTeams(r) ==
  /\ Doing(r, "team")
  /\ \/ Lookup("users") /\ Go(r, Users, Tail(reader[r].jobs))
     \/ NoAnswer("users") /\ Go(r, {}, Tail(reader[r].jobs))
  /\ UNCHANGED <<events, redis, mysql, combiner, sender, told, lost, unheard>>

\* Whatever the url answers, the reader has waited for it.
Call(r) ==
  /\ Doing(r, "call") /\ Rest(r)
  /\ UNCHANGED <<events, redis, mysql, known, combiner, sender, told, lost, unheard, failures>>

\* One message for all users, unless there are none.
Write(r) ==
  LET job == reader[r].jobs[1]
      m == Message({reader[r].no}, reader[r].to, job.part)
      missed == Message({reader[r].no}, Users \ reader[r].to, job.part) IN
  /\ Doing(r, "write")
  /\ \/ /\ Works
        /\ messages' = [messages EXCEPT ![job.kind] = IF m.to = {} THEN @ ELSE @ \cup {m}]
        /\ lost' = lost \cup Items(job.kind, missed)
     \/ Fails /\ m.to # {} /\ lost' = lost \cup Items(job.kind, m) /\ UNCHANGED messages
  /\ Rest(r)
  /\ UNCHANGED <<events, queue, users, mysql, known, combiner, sender, told, unheard>>

\* One entry for each user; redis may refuse those of some.
Split(r) ==
  LET n == reader[r].no
      kind == reader[r].jobs[1].kind
      Push(to) == /\ users' = [users EXCEPT ![kind] = @ \cup {[no |-> n, user |-> u] : u \in to}]
                  /\ lost' = lost \cup Items(kind, Message({n}, Users \ to, "event")) IN
  /\ Doing(r, "split")
  /\ \/ Lookup("users") /\ Push(Users)
     \/ NoAnswer("users") /\ Push({})
     \/ Fails /\ known' = known \cup {"users"} /\ \E to \in SUBSET Users : to # Users /\ Push(to)
  /\ Rest(r)
  /\ UNCHANGED <<events, queue, messages, mysql, combiner, sender, told, unheard>>

-----------------------------------------------------------------------------
(* The combiners *)

\* popAllSmsDto goes on to the end of the queue, or until redis fails.
PopAllDto(k) ==
  /\ combiner[k] = {} /\ users[k] # {}
  /\ \/ Works /\ combiner' = [combiner EXCEPT ![k] = users[k]]
     \/ Fails /\ \E part \in SUBSET users[k] : part # users[k] /\ combiner' = [combiner EXCEPT ![k] = part]
  /\ users' = [users EXCEPT ![k] = @ \ combiner'[k]]
  /\ UNCHANGED <<events, queue, messages, reader, mysql, known, sender, history>>

SameKey(e, d) ==
  LET a == Event(e.no)  b == Event(d.no)
  IN  a.prio = b.prio /\ a.status = b.status /\ MetricOf[a.case] = MetricOf[b.case]

\* Mutant: the users are not told apart.
GroupOfAll(k, d) == {e \in combiner[k] : SameKey(e, d)}

\* What becomes one message: the same priority, status, user and metric.
Group(k, d) == {e \in combiner[k] : e.user = d.user /\ SameKey(e, d)}

WriteGroup(k, d) ==
  LET m == Message({e.no : e \in Group(k, d)}, {d.user}, "event") IN
  /\ d \in combiner[k]
  /\ combiner' = [combiner EXCEPT ![k] = @ \ Group(k, d)]
  /\ \/ Works /\ messages' = [messages EXCEPT ![k] = @ \cup {m}] /\ UNCHANGED lost
     \/ Fails /\ lost' = lost \cup Items(k, m) /\ UNCHANGED messages
  /\ UNCHANGED <<events, queue, users, reader, mysql, known, sender, told, unheard, consumed>>

-----------------------------------------------------------------------------
(* The senders *)

PopAll(k) ==
  /\ sender[k].list = {} /\ messages[k] # {}
  /\ \E part \in SUBSET messages[k] :
       /\ IF part = messages[k] THEN Works ELSE Fails
       /\ sender' = [sender EXCEPT ![k].list = part]
       /\ messages' = [messages EXCEPT ![k] = @ \ part]
  /\ UNCHANGED <<events, queue, users, reader, mysql, known, combiner, history>>

\* Mutant: a slot is kept free.
HasSlotOneLess(k) == Cardinality(sender[k].sending) + 1 < Workers[k]

\* The consumer waits for room in the worker channel.
HasSlot(k) == Cardinality(sender[k].sending) < Workers[k]

StartSend(k, m) ==
  /\ m \in sender[k].list /\ HasSlot(k)
  /\ sender' = [sender EXCEPT ![k].list = @ \ {m}, ![k].sending = @ \cup {m}]
  /\ UNCHANGED <<events, redis, reader, mysql, known, combiner, history, failures>>

\* A call that fails is not made again; the provider may have taken it.
EndSend(k, m) ==
  /\ m \in sender[k].sending
  /\ \/ Works /\ told' = told \cup Items(k, m) /\ UNCHANGED lost
     \/ Fails /\ lost' = lost \cup Items(k, m) /\ UNCHANGED told
  /\ sender' = [sender EXCEPT ![k].sending = @ \ {m}]
  /\ UNCHANGED <<events, redis, reader, mysql, known, combiner, unheard, consumed>>

-----------------------------------------------------------------------------
\* What the process has taken off redis, as items.
InMemory(k) ==
  (UNION {Items(k, Message({d.no}, {d.user}, "event")) : d \in combiner[k]})
    \cup (UNION {Items(k, m) : m \in sender[k].list \cup sender[k].sending})

\* A signal or a kill: redis and MySQL keep what they have.
Restart ==
  /\ Fails
  /\ unheard' = unheard \cup {reader[r].no : r \in {s \in Readers : reader[s].at # "idle"}}
  /\ lost' = lost \cup UNION {InMemory(k) : k \in Channels}
  /\ reader' = [r \in Readers |-> Free] /\ known' = {}
  /\ combiner' = [k \in Channels |-> {}]
  /\ sender' = [k \in Channels |-> [list |-> {}, sending |-> {}]]
  /\ UNCHANGED <<events, redis, mysql, told, consumed>>

Read(r) ==
  \/ Pop(r) \/ ReadCase(r) \/ WriteCase(r) \/ GetAction(r)
  \/ ParseTeams(r) \/ Call(r) \/ Write(r) \/ Split(r)
Combine(k) == PopAllDto(k) \/ \E d \in combiner[k] : WriteGroup(k, d)
Send(k) ==
  \/ PopAll(k)
  \/ \E m \in sender[k].list : StartSend(k, m)
  \/ \E m \in sender[k].sending : EndSend(k, m)

Next ==
  \/ \E c \in Cases, p \in Prios, s \in {"PROBLEM", "OK", "DDALERT"} : Judge(c, p, s)
  \/ \E c \in Cases : Note(c)
  \/ \E r \in Readers : Read(r)
  \/ \E k \in Channels : Combine(k) \/ Send(k)
  \/ Restart

Spec == Init /\ [][Next]_vars

-----------------------------------------------------------------------------
(* Properties *)

Numbers == 1..Len(events)
AllItems == [no : Numbers, user : Users, kind : Channels, part : {"event", "before", "after"}]

\* The state has its shape, and no more messages are sent at a time than there
\* are slots.
TypeOK ==
  /\ events \in Seq([case : Cases, prio : Prios, status : {"PROBLEM", "OK", "DDALERT"}])
  /\ queue \in [Prios -> Seq(Numbers)]
  /\ \A r \in Readers : /\ reader[r].at \in {"idle", "case", "write", "action", "jobs"}
                        /\ reader[r].no \in Numbers \cup {0} /\ reader[r].to \subseteq Users
  /\ \A c \in Cases : cases[c].no \in Numbers \cup {0} /\ cases[c].closed \in BOOLEAN
  /\ rows \subseteq Numbers /\ known \subseteq {"action", "users"}
  /\ \A k \in Channels : /\ users[k] \cup combiner[k] \subseteq [no : Numbers, user : Users]
                         /\ Cardinality(sender[k].sending) <= Workers[k]
  /\ told \cup lost \subseteq AllItems /\ unheard \cup consumed \subseteq Numbers
  /\ failures \in 0..MaxFailures

\* Where an item is, on its way to a provider or at the end of it.
Waiting(i) ==
  {<<"alone", d>> : d \in {e \in users[i.kind] \cup combiner[i.kind] :
                             e.no = i.no /\ e.user = i.user /\ i.part = "event"}}
  \cup {<<"message", m>> : m \in {n \in messages[i.kind] \cup sender[i.kind].list \cup sender[i.kind].sending :
                             i.no \in n.nos /\ i.user \in n.to /\ i.part = n.part}}
Ended(i) == {s \in {"told", "lost"} : i \in IF s = "told" THEN told ELSE lost}

\* Nobody is told of an event twice, however messages are combined, and of an
\* event a reader is done with every user is told by every channel that is for
\* it, or will be, or the message was lost to a failure or a restart.
OnePlace ==
  /\ TypeOK
  /\ \A i \in AllItems :
       LET places == Cardinality(Waiting(i)) + Cardinality(Ended(i)) IN
       /\ places <= 1
       /\ i.no \in consumed /\ i.part = "event" /\ MayTell(i.no, i.kind) => places = 1
  /\ failures = 0 => lost = {} /\ unheard = {}

\* The case shows what came last.  One that a note closed has had no event since
\* ("reopen case", event_operation.go:131), but one that had read it before; and
\* when all events of a case have one priority, nothing fails and alarm does not
\* stop, it is at the last one that was recorded.
CaseIsCurrent ==
  \A c \in Cases :
    LET its == {n \in Numbers : Event(n).case = c /\ Event(n).status # "DDALERT"}
        recorded == {n \in its : /\ n \notin Range(queue[Event(n).prio])
                                 /\ \A r \in Readers : reader[r].no = n => reader[r].at \notin {"case", "write"}}
    IN /\ cases[c].closed => cases[c].no \in {cases[c].seen} \cup cases[c].before
       /\ (failures = 0 /\ \A m, n \in its : Event(m).prio = Event(n).prio)
            => \A n \in recorded : n <= cases[c].no

\* Each event that reached redis is dealt with: a reader is done with it or lost it,
\* and nothing of it waits any more.
Settled ==
  /\ Numbers \subseteq consumed \cup unheard
  /\ \A i \in AllItems : Waiting(i) = {}
=============================================================================
