------------------------------ MODULE AlarmEpisode ------------------------------
(***************************************************************************)
(* What the judge promises about the alarms of a rule: they come in        *)
(* episodes.  An episode starts with alarm 1, its alarms are numbered      *)
(* without a gap up to the rule's MaxStep, and it ends with one recovery.  *)
(* A restart of the judge forgets the open episodes.                       *)
(***************************************************************************)
EXTENDS Integers

CONSTANTS Rules, MaxStep

VARIABLE open   \* rule -> alarms of its open episode, 0 when there is none

Init == open = [r \in Rules |-> 0]

Raise(r) ==
  /\ open[r] = 0 /\ MaxStep[r] > 0
  /\ open' = [open EXCEPT ![r] = 1]

Repeat(r) ==
  /\ open[r] \in 1..(MaxStep[r] - 1)
  /\ open' = [open EXCEPT ![r] = @ + 1]

Recover(r) ==
  /\ open[r] > 0
  /\ open' = [open EXCEPT ![r] = 0]

Forget == open' = [r \in Rules |-> 0]

Next == Forget \/ \E r \in Rules : Raise(r) \/ Repeat(r) \/ Recover(r)

Spec == Init /\ [][Next]_open
=============================================================================
