---------------------------- MODULE MCRipplePlan ----------------------------
(* Constants of RipplePlan for TLC. *)
EXTENDS RipplePlan

\* One root, two roots, the targets when there are no roots, an unknown
\* name, nothing.
RippleRequests ==
    [Roots : {{1}, {1, 3}, {9}}, Targets : {{}}] \cup [Roots : {{}}, Targets : {{}, {2}}]

\* No target, one, one twice, an unknown one.
FlatTargets == {<<>>, <<2, 1>>, <<2, 2>>, <<1, 9>>}
=============================================================================
