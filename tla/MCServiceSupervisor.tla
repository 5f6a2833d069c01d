------------------------- MODULE MCServiceSupervisor -------------------------
(* Constants of ServiceSupervisor for TLC: examples, which are installed first, *)
(* and docs, without a port.                                                    *)
EXTENDS ServiceSupervisor

CONSTANTS examples, docs

StartsOf  == [s \in 1..3 |-> IF s = 3 THEN docs ELSE examples]
Installs  == [k \in {examples, docs} |-> IF k = examples THEN 1 ELSE 0]
TwoSteps  == [k \in {examples, docs} |-> IF k = examples THEN 2 ELSE 0]
PortOf    == [k \in {examples, docs} |-> IF k = examples THEN 8080 ELSE NoPort]
=============================================================================
