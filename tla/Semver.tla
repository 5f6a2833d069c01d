------------------------------- MODULE Semver -------------------------------
(***************************************************************************)
(* Version arithmetic: compareSemver (DepAligner.js), rangeCoversVersion   *)
(* and pickHighestSatisfyingVersion (ModuleIntrospector.js), and the       *)
(* validator's check that a release follows the published one              *)
(* (PrePublishValidator.js).  Versions are x.y.z without a prerelease tag: *)
(* the validator leaves tagged ones to the user.                           *)
(***************************************************************************)
EXTENDS Integers

CONSTANT Parts \* bound: the numbers a part of a version takes

ASSUME PartsAssumption == Parts \subseteq Nat

Version == Parts \X Parts \X Parts

(* A range: ^base, ~base, an exact base, or a file:/link: reference.        *)
RangeOps == {"^", "~", "", "file", "link"}
RangeOf(op, v) == [Op |-> op, Base |-> v]

None == <<>> \* JavaScript null where a version is expected

compareSemver(a, b) ==
    LET differ == {i \in 1..3 : a[i] # b[i]}
        i == CHOOSE j \in differ : \A k \in differ : j <= k
    IN  IF differ = {} THEN 0 ELSE IF a[i] > b[i] THEN 1 ELSE -1

Highest(S) == CHOOSE v \in S : \A w \in S : compareSemver(v, w) >= 0

(* Does the range admit v?  ^ locks everything left of and including the    *)
(* first non-zero part, ~ the minor; a link covers everything if it is      *)
(* spelled file:, nothing if it is spelled link:.                           *)
rangeCoversVersion(range, v) ==
    LET b == range.Base IN
    \/ range.Op = "file"
    \/ range.Op \in {"^", "~", ""} /\ b = v
    \/ /\ range.Op = "^"
       /\ \/ b[1] > 0 /\ v[1] = b[1] /\ (v[2] > b[2] \/ (v[2] = b[2] /\ v[3] >= b[3]))
          \/ b[1] = 0 /\ b[2] > 0 /\ v[1] = 0 /\ v[2] = b[2] /\ v[3] >= b[3]
          \/ b[1] = 0 /\ b[2] = 0 /\ v[1] = 0 /\ v[2] = 0 /\ v[3] = b[3]
    \/ range.Op = "~" /\ v[1] = b[1] /\ v[2] = b[2] /\ v[3] >= b[3]

pickHighestSatisfyingVersion(range, versions) ==
    LET fit == {v \in versions : rangeCoversVersion(range, v)} IN
    [Matched        |-> IF fit = {} THEN None ELSE Highest(fit),
     HighestOverall |-> IF versions = {} THEN None ELSE Highest(versions)]

(* _checkVersionSequence: the code of the warning about local, if any.      *)
SequenceProblem(local, published) ==
    IF published = None THEN "ok"
    ELSE LET expected == IF local[1] > published[1] THEN <<published[1] + 1, 0, 0>>
                         ELSE IF local[2] > published[2]
                              THEN <<published[1], published[2] + 1, 0>>
                              ELSE <<published[1], published[2], published[3] + 1>>
         IN  CASE compareSemver(local, published) < 0 -> "version-downgrade"
               [] compareSemver(local, published) = 0 -> "ok"
               [] OTHER -> IF local = expected THEN "ok" ELSE "version-non-sequential"

(* npm version <kind>                                                       *)
Bumped(v, kind) ==
    CASE kind = "major" -> <<v[1] + 1, 0, 0>>
      [] kind = "minor" -> <<v[1], v[2] + 1, 0>>
      [] kind = "patch" -> <<v[1], v[2], v[3] + 1>>

-----------------------------------------------------------------------------
(* Properties of the arithmetic over all versions of Parts *)

(* The hand-written range check is npm's definition of ^ and ~: the         *)
(* versions from the base up to, not including, a next one.                 *)
NextAfter(range) ==
    LET b == range.Base IN
    CASE range.Op = "^" -> IF b[1] > 0 THEN <<b[1] + 1, 0, 0>>
                           ELSE IF b[2] > 0 THEN <<0, b[2] + 1, 0>> ELSE <<0, 0, b[3] + 1>>
      [] range.Op = "~" -> <<b[1], b[2] + 1, 0>>

RangeIsInterval ==
    \A op \in {"^", "~"}, b, v \in Version :
        rangeCoversVersion(RangeOf(op, b), v) <=>
            /\ compareSemver(v, b) >= 0
            /\ compareSemver(v, NextAfter(RangeOf(op, b))) < 0

(* A version passes the sequence check without a warning exactly when npm   *)
(* version could have produced it from the published one.                   *)
SequentialIsOneBump ==
    \A local, published \in Version :
        local # published =>
            (SequenceProblem(local, published) = "ok" <=>
                \E kind \in {"patch", "minor", "major"} : local = Bumped(published, kind))
=============================================================================
