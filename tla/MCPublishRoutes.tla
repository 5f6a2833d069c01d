-------------------------- MODULE MCPublishRoutes --------------------------
(* Constants of PublishRoutes for TLC: 2 uses 1.                            *)
EXTENDS PublishRoutes, TLC

One == <<1, 0, 0>>
Uses(dep, range) == [Section |-> "dependencies", Dep |-> dep, Range |-> range]
Pair == 1 :> {} @@ 2 :> {Uses(1, RangeOf("", One))}

\* 1 has been bumped and is not published yet.
Ahead == 1 :> <<1, 0, 1>> @@ 2 :> One
AllReleased == {[Package |-> m, Version |-> One, Deps |-> Pair[m]] : m \in Modules}

\* What others pushed: a release, and a later one with a wider range.
Pushed == {[Package |-> 2, Version |-> <<1, 0, 1>>, Deps |-> Pair[2]],
           [Package |-> 2, Version |-> <<1, 1, 0>>, Deps |-> {Uses(1, RangeOf("^", One))}]}

\* A link while developing.
HandEdits == {<<2, Uses(1, RangeOf("file", One))>>}
=============================================================================
