---------------------------- MODULE MCRippleRun ----------------------------
(* Constants of RippleRun for TLC: 2 uses 1, 3 uses both, 1 for its tests.  *)
EXTENDS RippleRun, TLC

Uses(section, dep, range) == [Section |-> section, Dep |-> dep, Range |-> range]
One == <<1, 0, 0>>

Diamond ==
    1 :> {} @@
    2 :> {Uses("dependencies", 1, Caret(One))} @@
    3 :> {Uses("dependencies", 2, RangeOf("~", One)), Uses("devDependencies", 1, Caret(One))}

AllOne == [m \in Modules |-> One]
AllReleased == {[Package |-> m, Version |-> One, Deps |-> Diamond[m]] : m \in Modules}

\* The small instance: 2 uses 1 twice.
Pair ==
    1 :> {} @@
    2 :> {Uses("dependencies", 1, RangeOf("~", One)), Uses("devDependencies", 1, Caret(One))}
PairReleased == {[Package |-> m, Version |-> One, Deps |-> Pair[m]] : m \in Modules}
PairOrder == <<1, 2>>
ProducersFirst == <<1, 2, 3>>
Settings == [RunTest |-> TRUE, WaitForIndex |-> TRUE, RunPush |-> TRUE]

ASSUME ResolvedAtFirst == StartsResolved

(* The version arithmetic the run rests on, against its reference definitions, *)
(* for every version and range of the instance.                                *)
ASSUME VersionArithmetic == RangeIsInterval /\ SequentialIsOneBump
=============================================================================
