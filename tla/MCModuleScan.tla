---------------------------- MODULE MCModuleScan ----------------------------
EXTENDS ModuleScan, TLC

ScanOrder == <<"a", "b">>
ScanDirs == [f \in {"code", "notes"} |-> IF f = "code" THEN "source" ELSE "docs"]
ScanLines == [f \in {"code", "notes"} |-> IF f = "code" THEN 2 ELSE 1]
ScanTree ==
  "a" :> [Ahead |-> 0, Behind |-> 1,
          File |-> [f \in {"code", "notes"} |-> IF f = "code" THEN "unstaged" ELSE "untracked"]]
  @@ "b" :> [Ahead |-> 1, Behind |-> 0,
             File |-> [f \in {"code", "notes"} |-> IF f = "code" THEN "clean" ELSE "absent"]]
PoolOrder == <<"a", "b", "c">>
PoolTree ==
  "c" :> [Ahead |-> 0, Behind |-> 0,
          File |-> [f \in {"code", "notes"} |-> IF f = "code" THEN "staged" ELSE "absent"]]
  @@ ScanTree
RaceTree ==
  [m \in {"a", "b", "c"} |->
     [Ahead |-> 0, Behind |-> 0, File |-> [f \in {"code", "notes"} |-> "untracked"]]]
=============================================================================
