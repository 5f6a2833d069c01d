------------------------- MODULE MCOperationStream -------------------------
(* Constants of OperationStream for TLC: three buttons of a browser, which   *)
(* are single commands, and another client's diffs, which are two.           *)
EXTENDS OperationStream, TLC

Commands == [o \in Ops |-> IF o \in Sequence THEN 2 ELSE 1]
=============================================================================
