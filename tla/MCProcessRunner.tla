--------------------------- MODULE MCProcessRunner ---------------------------
(* Constants of ProcessRunner for TLC: a command, a chain that aborts on error, *)
(* and a chain that does not.                                                   *)
EXTENDS ProcessRunner

CONSTANTS single, abort, legacy

Lengths == [o \in {single, abort, legacy} |-> IF o = single THEN 1 ELSE 3]
ChainLengths == [o \in {abort, legacy} |-> IF o = abort THEN 3 ELSE 2]
=============================================================================
