---------------------------- MODULE DeliveryChannel ----------------------------
(***************************************************************************)
(* What a sender of falcon promises about an item it has to bring to a     *)
(* destination: it drops it at once, or keeps it until it has given it up  *)
(* or knows that the destination handled it.  The destination may handle   *)
(* an item several times, never more often than the sender tries, and also *)
(* after the sender has given it up or died.                               *)
(***************************************************************************)
EXTENDS Integers

CONSTANTS
  Dests,   \* the destinations
  Items,   \* the items
  Tries    \* destination -> how often an item is tried

VARIABLES
  status,  \* [Dests -> [Items -> what the sender has done with the item]]
  copies   \* [Dests -> [Items -> how often the destination handled it]]

Init ==
  /\ status = [d \in Dests |-> [i \in Items |-> "new"]]
  /\ copies = [d \in Dests |-> [i \in Items |-> 0]]

In(d, st) == LET now == status[d] IN {i \in Items : now[i] = st}

\* Items move from one status to another.
Move(d, S, to) ==
  /\ S # {}
  /\ status' = [status EXCEPT ![d] = [i \in Items |-> IF i \in S THEN to ELSE @[i]]]

\* An item is kept or dropped when it comes; some of the kept ones are given up,
\* or known to have been handled.
Keep(d)    == \E i \in In(d, "new") : Move(d, {i}, "kept")
Drop(d)    == \E i \in In(d, "new") : Move(d, {i}, "dropped")
GiveUp(d)  == \E S \in SUBSET In(d, "kept") : Move(d, S, "failed")
Confirm(d) == \E S \in SUBSET {i \in In(d, "kept") : copies[d][i] > 0} : Move(d, S, "sent")

\* The sender's process dies with everything it kept.
Crash == status' = [d \in Dests |-> [i \in Items |->
                      IF status[d][i] = "kept" THEN "lost" ELSE status[d][i]]]

MayReach(d) == {i \in Items \ (In(d, "new") \cup In(d, "dropped")) : copies[d][i] < Tries[d]}
Handle(d) ==
  \E S \in SUBSET MayReach(d) :
    copies' = [copies EXCEPT ![d] = [i \in Items |-> IF i \in S THEN @[i] + 1 ELSE @[i]]]

Next ==
  \/ /\ UNCHANGED copies
     /\ Crash \/ \E d \in Dests : Keep(d) \/ Drop(d) \/ GiveUp(d) \/ Confirm(d)
  \/ copies # copies' /\ (\E d \in Dests : Handle(d)) /\ UNCHANGED status

Spec == Init /\ [][Next]_<<status, copies>>
=============================================================================
