------------------------------ MODULE MCTxPath ------------------------------
(* Values of the constants of TxPath for TLC.                              *)
EXTENDS TxPath, TLC

CONSTANTS m1, m2, m3

SizeTwo == [m \in Msgs |-> 2]

SizeOne == [m \in Msgs |-> 1]

(* One message of two bytes among single bytes.                            *)
SizeTwoOne == [m \in Msgs |-> IF m = m1 THEN 2 ELSE 1]

(* The threads that write are alike, and so are messages of one size.      *)
Alike == Permutations(Writers) \cup Permutations(Msgs)
=============================================================================
