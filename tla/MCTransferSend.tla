---------------------------- MODULE MCTransferSend ----------------------------
(* A small instance of TransferSend: the judge is sent batches, one at a time   *)
(* and twice, the graph addresses single items, two at a time and once.        *)
EXTENDS TransferSend

CONSTANTS r1, r2, g1, g2, j, t

AllDests == {g1, g2, j, t}
MCBatch      == [d \in AllDests |-> IF d = j THEN 2 ELSE 1]
MCConcurrent == [d \in AllDests |-> IF d = j THEN 1 ELSE 2]
=============================================================================
