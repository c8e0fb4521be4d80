----------------------------- MODULE MCJudgeHistory -----------------------------
(* Small instances of JudgeHistory. *)
EXTENDS JudgeHistory

CONSTANTS s1, s2

Symmetry == Permutations(Senders)
=============================================================================
