---------------------------- MODULE MCFixReceive ----------------------------
(* Messages of different lengths for the runs of FixReceive *)
EXTENDS FixReceive

(* Messages of five, four, seven and four bytes *)
MCEndOf == [k \in 0 .. 4 |-> IF k = 0 THEN 0 ELSE <<5, 9, 16, 20>>[k]]
=============================================================================
