---------------------------- MODULE MCBulkEngine ----------------------------
(* Constants of BulkEngine for TLC. *)
EXTENDS BulkEngine

CONSTANTS r1, r2

\* A ripple of three modules: prepare, then publish.
RippleOps == [s \in 1..3 |-> <<"task", "publish">>]
\* A flat sweep over three modules; one op is not registered.
FlatOps == <<<<"task", "task">>, <<"task", "unknown">>, <<"task", "publish">>>>
\* A flat plan with two confirm gates, as the run API accepts it.
GatedOps == <<<<"publish">>, <<"publish">>, <<"task">>>>
\* Two steps without a gate, for runs beside each other.
TaskOps == <<<<"task">>, <<"task">>>>
\* Two short steps, one gated.
ShortOps == <<<<"publish">>, <<"task">>>>
=============================================================================
