--------------------------- MODULE MCManifestEdit ---------------------------
(* Constants of ManifestEdit for TLC: two groups, a module directory below   *)
(* another one, a skipped one, and an entry of the second group whose Path   *)
(* lies in the folder of the first.                                          *)
EXTENDS ManifestEdit

TwoTree == {<<1>>, <<1, 1>>, <<1, 2>>, <<1, 3>>, <<1, 1, 1>>, <<2>>}
TwoDiscover ==
  <<{<<[Kind |-> "*"]>>, <<[Kind |-> "name", Name |-> 1], [Kind |-> "**"]>>},
    {<<[Kind |-> "*"]>>}>>
TwoStart ==
  <<[Modules |-> <<[Name |-> 2, Path |-> <<>>]>>, Description |-> "a"],
    [Modules |-> <<[Name |-> 3, Path |-> <<1, 1>>]>>, Description |-> "a"]>>
TwoMarked == {<<1, 2>>, <<1, 3>>, <<1, 1, 1>>}
TwoCloned == {<<1, 1>>}
TwoGiven == {<<1, 1>>}
=============================================================================
