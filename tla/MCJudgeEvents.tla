----------------------------- MODULE MCJudgeEvents -----------------------------
(* Small instances of JudgeEvents. *)
EXTENDS JudgeEvents

CONSTANTS strat, expr, s1, s2

Over(v) == Frac(v, 1)

\* A strategy whose windows may overlap and that may alarm three times, next
\* to a muted expression.
MCLookup ==
  [r \in {strat, expr} |->
     [fn |-> "lookup", limit |-> 2, num |-> 1, op |-> "==", right |-> Over(1),
      maxStep |-> IF r = strat THEN 3 ELSE 0]]
=============================================================================
