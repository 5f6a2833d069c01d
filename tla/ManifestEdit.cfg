\* Two groups, a nested module directory and a skipped one, an entry whose Path
\* lies in the other group's folder; four requests or outside writes.
CONSTANTS
  Groups = {1, 2}
  Names = {1, 2, 3}
  Tree <- TwoTree
  Skipped = {3}
  Discover <- TwoDiscover
  Descriptions = {"a", "b"}
  Start <- TwoStart
  Marked <- TwoMarked
  Cloned <- TwoCloned
  Given <- TwoGiven
  Outcomes = {"ok", "failed", "died"}
  Outside = {"hand", "cli"}
  MaxSteps = 4
  MaxTrouble = 1
SPECIFICATION Spec
CHECK_DEADLOCK FALSE
INVARIANTS
  PromisesKept
PROPERTIES
  AnswersLand
  BackfillCovers
