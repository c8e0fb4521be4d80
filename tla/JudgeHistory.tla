------------------------------ MODULE JudgeHistory ------------------------------
(***************************************************************************)
(* The entry of one series in the judge's JudgeItemMap and the lists it    *)
(* points to (src/judge/store/history.go, linkedlist.go), while several    *)
(* Senders push on it and walk it and CleanStale removes it.               *)
(*                                                                         *)
(* Push, Len and Front take the list's lock, Get, Set and BatchDelete the  *)
(* map's; HistoryData walks from element to element with no lock at all.   *)
(* A point is its timestamp, which no two points of a list share, so it    *)
(* also names the element of container/list that holds it.  The next of an *)
(* element Remove took off the list is nil.                                *)
(***************************************************************************)
EXTENDS JudgeFunc

CONSTANTS
  Senders,   \* goroutines of Judge.Send
  Remain,    \* config: points kept per list
  Window,    \* limit of the rule each point is judged by
  Type,      \* "GAUGE" or "COUNTER"
  MaxTs,     \* bound: timestamps
  MaxLists   \* bound: lists ever created

ASSUME HistoryAssumption ==
  /\ Remain \in Nat \ {0} /\ Window \in Nat \ {0}
  /\ Type \in {"GAUGE", "COUNTER"}
  /\ MaxTs \in Nat /\ MaxLists \in Nat

VARIABLES
  lists,     \* the lists ever created, each newest point first
  entry,     \* M[key]: a list, or 0
  pc,        \* where a sender is
  item,      \* the point it pushes
  list,      \* the list it works on
  size,      \* Len() as it read it
  window,    \* the elements it has walked over, newest first
  stale,     \* CleanStale collected the key
  down,      \* a nil element was dereferenced: the process is gone
  accepted,  \* history: the points each list ever held
  pushes     \* history: pushes on the list since the sender read its front

mapVars    == <<lists, entry, stale, down, accepted>>
senderVars == <<pc, item, list, size, window, pushes>>
vars       == <<mapVars, senderVars>>

Ts    == 1..MaxTs
Nil   == 0

Init ==
  /\ lists = <<>> /\ entry = 0 /\ stale = FALSE /\ down = FALSE /\ accepted = <<>>
  /\ pc = [s \in Senders |-> "idle"]
  /\ item = [s \in Senders |-> 0]
  /\ list = [s \in Senders |-> 0]
  /\ size = [s \in Senders |-> 0]
  /\ window = [s \in Senders |-> <<>>]
  /\ pushes = [s \in Senders |-> 0]

\* element.Next()
NextElement(l, e) ==
  LET at == {i \in 1..(Len(lists[l]) - 1) : lists[l][i] = e}
  IN  IF at = {} THEN Nil ELSE lists[l][Min(at) + 1]

Goto(s, from, to) == ~down /\ pc[s] = from /\ pc' = [pc EXCEPT ![s] = to]

\* The locals of a finished request are gone.
Finish(s) ==
  /\ pc' = [pc EXCEPT ![s] = "idle"]
  /\ item' = [item EXCEPT ![s] = 0]
  /\ list' = [list EXCEPT ![s] = 0]
  /\ size' = [size EXCEPT ![s] = 0]
  /\ window' = [window EXCEPT ![s] = <<>>]
  /\ pushes' = [pushes EXCEPT ![s] = 0]

-----------------------------------------------------------------------------
(* JudgeItemMap.PushFrontAndMaintain *)

\* Get: no list yet.
GetNone(s, t) ==
  /\ entry = 0 /\ Len(lists) + Cardinality({u \in Senders : pc[u] = "create"}) < MaxLists
  /\ Goto(s, "idle", "create")
  /\ item' = [item EXCEPT ![s] = t]
  /\ UNCHANGED <<mapVars, list, size, window, pushes>>

GetList(s, t) ==
  /\ entry # 0
  /\ Goto(s, "idle", "push")
  /\ item' = [item EXCEPT ![s] = t]
  /\ list' = [list EXCEPT ![s] = entry]
  /\ UNCHANGED <<mapVars, size, window, pushes>>

\* A list with the point, put over whatever the map holds by now.
Create(s) ==
  /\ Goto(s, "create", "len")
  /\ lists' = Append(lists, <<item[s]>>)
  /\ accepted' = Append(accepted, {item[s]})
  /\ entry' = Len(lists) + 1
  /\ list' = [list EXCEPT ![s] = Len(lists) + 1]
  /\ UNCHANGED <<stale, down, item, size, window, pushes>>

\* Mutant: the newest point is cut off.
PushedKeepingOld(l, t) == LET all == <<t>> \o lists[l]
                          IN  IF Len(all) <= Remain THEN all ELSE SubSeq(all, 2, Len(all))

IsNewer(l, t) == t > lists[l][1]
Pushed(l, t)  == LET all == <<t>> \o lists[l]
                 IN  IF Len(all) <= Remain THEN all ELSE SubSeq(all, 1, Remain)

\* SafeLinkedList.PushFrontAndMaintain
Push(s) ==
  /\ Goto(s, "push", "len")
  /\ IsNewer(list[s], item[s])
  /\ lists' = [lists EXCEPT ![list[s]] = Pushed(list[s], item[s])]
  /\ accepted' = [accepted EXCEPT ![list[s]] = @ \cup {item[s]}]
  /\ pushes' = [t \in Senders |-> IF pc[t] = "walk" /\ list[t] = list[s]
                                  THEN pushes[t] + 1 ELSE pushes[t]]
  /\ UNCHANGED <<entry, stale, down, item, list, size, window>>

PushRejected(s) ==
  /\ ~down /\ pc[s] = "push" /\ ~IsNewer(list[s], item[s])
  /\ Finish(s)
  /\ UNCHANGED mapVars

-----------------------------------------------------------------------------
(* SafeLinkedList.HistoryData *)

ReadLen(s) ==
  /\ Goto(s, "len", "front")
  /\ size' = [size EXCEPT ![s] = Len(lists[list[s]])]
  /\ UNCHANGED <<mapVars, item, list, window, pushes>>

ReadFront(s) ==
  /\ Goto(s, "front", "walk")
  /\ window' = [window EXCEPT ![s] = <<lists[list[s]][1]>>]
  /\ UNCHANGED <<mapVars, item, list, size, pushes>>

\* The elements the loop visits: as many as there were when it read the length.
Elements(s) ==
  LET needed == PointsNeeded(Type, Window)
  IN  IF size[s] < needed THEN size[s] ELSE needed

NextOf(s) == NextElement(list[s], window[s][Len(window[s])])

NextPoint(s) ==
  /\ ~down /\ pc[s] = "walk" /\ Len(window[s]) < Elements(s)
  /\ IF NextOf(s) = Nil
     THEN down' = TRUE /\ UNCHANGED window
     ELSE window' = [window EXCEPT ![s] = Append(@, NextOf(s))] /\ UNCHANGED down
  /\ UNCHANGED <<lists, entry, stale, accepted, pc, item, list, size, pushes>>

\* The window goes to the function of the rule.
Evaluate(s) ==
  /\ ~down /\ pc[s] = "walk" /\ Len(window[s]) >= Elements(s)
  /\ Finish(s)
  /\ UNCHANGED mapVars

-----------------------------------------------------------------------------
(* JudgeItemMap.CleanStale: keys are collected under the read lock and     *)
(* deleted later, under the write lock.                                    *)

Collect(before) ==
  /\ ~down /\ ~stale /\ entry # 0
  /\ lists[entry][1] < before
  /\ stale' = TRUE
  /\ UNCHANGED <<lists, entry, down, accepted, senderVars>>

BatchDelete ==
  /\ ~down /\ stale
  /\ entry' = 0 /\ stale' = FALSE
  /\ UNCHANGED <<lists, down, accepted, senderVars>>

\* The process starts again with an empty map.
Restart ==
  /\ down
  /\ lists' = <<>> /\ accepted' = <<>> /\ entry' = 0 /\ stale' = FALSE /\ down' = FALSE
  /\ pc' = [s \in Senders |-> "idle"]
  /\ item' = [s \in Senders |-> 0]
  /\ list' = [s \in Senders |-> 0]
  /\ size' = [s \in Senders |-> 0]
  /\ window' = [s \in Senders |-> <<>>]
  /\ pushes' = [s \in Senders |-> 0]

Step(s) ==
  \/ Create(s) \/ Push(s) \/ PushRejected(s)
  \/ ReadLen(s) \/ ReadFront(s) \/ NextPoint(s) \/ Evaluate(s)

Next ==
  \/ \E s \in Senders : Step(s) \/ \E t \in Ts : GetNone(s, t) \/ GetList(s, t)
  \/ \E before \in Ts : Collect(before)
  \/ BatchDelete \/ Restart

Spec == Init /\ [][Next]_vars

-----------------------------------------------------------------------------
(* Properties *)

\* The entry and every sender's list exist, and no list outgrows Remain by the
\* length a walk counts on.
TypeOK ==
  /\ lists \in Seq(Seq(Ts)) /\ entry \in 0..Len(lists)
  /\ stale \in BOOLEAN /\ down \in BOOLEAN
  /\ accepted \in Seq(SUBSET Ts) /\ Len(accepted) = Len(lists)
  /\ pc \in [Senders -> {"idle", "create", "push", "len", "front", "walk"}]
  /\ item \in [Senders -> 0..MaxTs]
  /\ list \in [Senders -> 0..Len(lists)]
  /\ size \in [Senders -> 0..Remain]
  /\ window \in [Senders -> Seq(Ts)]
  /\ pushes \in [Senders -> Nat]

\* What a walk without a lock has gathered is a run of points that followed
\* each other in its list, however many pushes and trims went on meanwhile:
\* no point twice, none skipped, so a counter never divides by zero or
\* measures a rate over a gap.
WindowIsRun ==
  \A s \in Senders : \A i \in 1..(Len(window[s]) - 1) :
    LET newer == window[s][i]  older == window[s][i + 1] IN
    /\ older < newer
    /\ \A t \in accepted[list[s]] : ~(older < t /\ t < newer)

\* A point is judged on a window that begins with it or with a newer one.
WindowCoversItem ==
  \A s \in Senders : pc[s] = "walk" => window[s][1] >= item[s]

AtNil(s) ==
  pc[s] = "walk" /\ Len(window[s]) < Elements(s) /\ NextOf(s) = Nil

\* The walk runs into nil only when more points were pushed during it than
\* the list keeps beyond the window.
NilOnlyAfterPushes ==
  \A s \in Senders : AtNil(s) => pushes[s] > Remain - Elements(s)

\* What a walk gathers is a window on the series that a rule may judge its point by,
\* and the walk gets to its end unless the list is pushed out under it.
WindowSound == TypeOK /\ WindowIsRun /\ WindowCoversItem /\ NilOnlyAfterPushes

\* linkedlist.go:43: HistoryData returns limit entries or as many as there are.
WalkNeverAtNil == \A s \in Senders : ~AtNil(s)
=============================================================================
