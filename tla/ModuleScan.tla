----------------------------- MODULE ModuleScan -----------------------------
(***************************************************************************)
(* The status scan: scanAllModulesAsync runs four git and wc commands per  *)
(* module in a pool of workers while the working trees change under it,    *)
(* and the web client shows the responses of the scans it has asked for,   *)
(* in the order they arrive.                                               *)
(*                                                                         *)
(* Each command looks at the tree at one instant between its spawn and its *)
(* end; a command may fail or run into its timeout.  Files have a number   *)
(* of changed lines; a file removes one line where it adds some.           *)
(***************************************************************************)
EXTENDS Integers, SequencesExt

CONSTANTS
  Modules,       \* module names
  Order,         \* the modules in the order of ecosystemNames
  Files,         \* the paths of a module
  TopDir,        \* the first element of each path
  Lines,         \* the lines a changed file adds
  InitialTree,   \* the working trees at the start
  Concurrency,   \* workers of a scan
  MaxScans,      \* bound: scans asked for
  MaxEdits,      \* bound: changes of trees and manifest
  MaxFaults      \* bound: failed commands and requests

\* A file is as in HEAD ("clean"), not there ("absent"), not known to git
\* ("untracked") or changed in the index, in the tree, or in both.
Changed == {"staged", "unstaged", "both"}
FileStates == Changed \cup {"clean", "absent", "untracked"}
Tree == [Ahead : Nat, Behind : {0, 1}, File : [Files -> FileStates]]

ASSUME ScanAssumption ==
  /\ IsFiniteSet(Modules) /\ IsFiniteSet(Files)
  /\ Lines \in [Files -> Nat]
  /\ Order \in Seq(Modules) /\ Range(Order) = Modules /\ Len(Order) = Cardinality(Modules)
  /\ InitialTree \in [Modules -> Tree]
  /\ Concurrency \in Nat \ {0}
  /\ MaxScans \in Nat /\ MaxEdits \in Nat /\ MaxFaults \in Nat

Scans == 1 .. MaxScans

VARIABLES
  declared,      \* the modules in the manifest
  tree,          \* per module: Ahead, Behind and the state of each file
  scan,          \* the scans of the server
  shown,         \* the client's Scan.Results, and the scan they are of
  Running,       \* the client's Scan.Running
  decorations,   \* published-versions requests without a response
  edits, faults, \* what the bounds still allow
  truth          \* the states each tree has had since each scan began

vars == <<declared, tree, scan, shown, Running, decorations, edits, faults, truth>>

-----------------------------------------------------------------------------
(* git *)

Code(state) ==
  CASE state = "staged"    -> <<"M", " ">>
    [] state = "unstaged"  -> <<" ", "M">>
    [] state = "both"      -> <<"M", "M">>
    [] state = "untracked" -> <<"?", "?">>

Porcelain(t) ==
  [Ahead |-> t.Ahead, Behind |-> t.Behind,
   Rows |-> {<<Code(t.File[f]), f>> : f \in {g \in Files : t.File[g] \in Changed \cup {"untracked"}}}]

Numstat(t) == {f \in Files : t.File[f] \in Changed}
Untracked(t) == {f \in Files : t.File[f] = "untracked"}

\* wc exits with an error when one of its files is not there.
WcFails(t, paths) == \E f \in paths : t.File[f] = "absent"

-----------------------------------------------------------------------------
(* The introspector's helpers. *)

parsePorcelain(porcelain) ==
  LET rows == porcelain.Rows IN
  [Ahead |-> porcelain.Ahead, Behind |-> porcelain.Behind,
   Dirty |-> rows # {},
   HasStaged |-> \E row \in rows : row[1][1] \notin {" ", "?"},
   HasUnstaged |-> \E row \in rows : row[1] = <<"?", "?">> \/ row[1][2] \notin {" ", "?"}]

\* Mutant: the edge to origin before the working tree.
deriveNextActionPullFirst(s) ==
  CASE s.Behind > 0 -> "pull"
    [] s.Behind = 0 /\ s.Dirty -> "commit"
    [] s.Behind = 0 /\ ~s.Dirty /\ s.Ahead > 0 -> "push"
    [] OTHER -> "in-sync"

deriveNextAction(s) ==
  CASE s.Dirty -> "commit"
    [] ~s.Dirty /\ s.Behind > 0 -> "pull"
    [] ~s.Dirty /\ s.Behind = 0 /\ s.Ahead > 0 -> "push"
    [] OTHER -> "in-sync"

getGitStatus(t) ==
  LET parsed == parsePorcelain(Porcelain(t)) IN
  [Ahead |-> parsed.Ahead, Behind |-> parsed.Behind, Dirty |-> parsed.Dirty,
   HasStaged |-> parsed.HasStaged, HasUnstaged |-> parsed.HasUnstaged,
   NextAction |-> deriveNextAction(parsed)]

_scanCategoryForPath(f) ==
  CASE TopDir[f] = "source" -> "Source"
    [] TopDir[f] = "test"   -> "Tests"
    [] TopDir[f] = "docs"   -> "Documentation"
    [] OTHER                -> "Tooling"

Categories == {"Source", "Tests", "Documentation", "Tooling", "Total"}
_emptyChangeBucket == [Files |-> 0, Added |-> 0, Removed |-> 0]
_emptyChangeReport == [c \in Categories |-> _emptyChangeBucket]

_addToBucket(report, category, added, removed) ==
  [c \in Categories |->
     IF c \in {category, "Total"}
     THEN [Files |-> report[c].Files + 1, Added |-> report[c].Added + added,
           Removed |-> report[c].Removed + removed]
     ELSE report[c]]

AddFiles(report, files, Added(_), removed) ==
  FoldSet(LAMBDA f, r : _addToBucket(r, _scanCategoryForPath(f), Added(f), removed),
          report, files)

AddTracked(report, t) == AddFiles(report, Numstat(t), LAMBDA f : Lines[f], 1)
AddUntracked(report, paths, none) ==
  AddFiles(report, paths, LAMBDA f : IF none THEN 0 ELSE Lines[f], 0)

-----------------------------------------------------------------------------
(* One module of a scan: at says which command comes next. *)

NotScanned == [At |-> "queued", Entry |-> [Error |-> "none"], Paths |-> {}]
Failed(error) == [Error |-> error]
Begun(status) == [Status |-> status, Changes |-> _emptyChangeReport, Whole |-> TRUE]
Grown(entry, whole, changes) == [Status |-> entry.Status, Changes |-> changes, Whole |-> whole]
IsEntry(entry) == "Status" \in DOMAIN entry

InWork(s) == {m \in Modules : scan[s].Module[m].At \in {"status", "numstat", "untracked", "wc"}}

May(fails) ==
  IF fails THEN faults > 0 /\ faults' = faults - 1 ELSE UNCHANGED faults

OneModule(s, m, next) ==
  /\ scan' = [scan EXCEPT ![s].Module[m] = next]
  /\ UNCHANGED <<declared, tree, shown, Running, decorations, edits, truth>>

NoLater(m, n) == \E i, j \in DOMAIN Order : i <= j /\ Order[i] = m /\ Order[j] = n

LookedUp(m) ==
  IF m \in declared THEN [At |-> "status", Entry |-> NotScanned.Entry, Paths |-> {}]
  ELSE [At |-> "done", Entry |-> Failed("not-in-manifest"), Paths |-> {}]

\* pumpWorker: a worker without work takes the next name; runOne looks it up
\* in the manifest as it is now.
pumpWorker(s) ==
  /\ Cardinality(InWork(s)) < Concurrency
  /\ \E m \in scan[s].Queue :
     /\ \A n \in scan[s].Queue : NoLater(m, n)
     /\ scan' = [scan EXCEPT ![s] =
                  [State |-> @.State, Queue |-> @.Queue \ {m}, Taken |-> Append(@.Taken, m),
                   Module |-> [@.Module EXCEPT ![m] = LookedUp(m)]]]
  /\ UNCHANGED <<declared, tree, shown, Running, decorations, edits, truth, faults>>

\* Mutant: the module's path is that of whichever module is in work.
gitStatusAnyPath(s, m, fails) ==
  /\ scan[s].Module[m].At = "status"
  /\ May(fails)
  /\ \E other \in InWork(s) :
       OneModule(s, m,
         IF fails THEN [At |-> "done", Entry |-> Failed("git failed"), Paths |-> {}]
         ELSE [At |-> "numstat", Paths |-> {},
               Entry |-> Begun(getGitStatus(tree[other]))])

\* Mutant: a failed status is not resolved.
gitStatusUnresolved(s, m, fails) ==
  /\ scan[s].Module[m].At = "status"
  /\ May(fails)
  /\ OneModule(s, m,
       IF fails THEN [At |-> "lost", Entry |-> Failed("git failed"), Paths |-> {}]
       ELSE [At |-> "numstat", Paths |-> {},
             Entry |-> Begun(getGitStatus(tree[m]))])

\* runOne: git status, and the entry of a module whose git fails.
gitStatus(s, m, fails) ==
  /\ scan[s].Module[m].At = "status"
  /\ May(fails)
  /\ OneModule(s, m,
       IF fails THEN [At |-> "done", Entry |-> Failed("git failed"), Paths |-> {}]
       ELSE [At |-> "numstat", Paths |-> {},
             Entry |-> Begun(getGitStatus(tree[m]))])

\* gatherChanges: git diff --numstat HEAD; a failure counts no file.
gitNumstat(s, m, fails) ==
  LET entry == scan[s].Module[m].Entry IN
  /\ scan[s].Module[m].At = "numstat"
  /\ May(fails)
  /\ OneModule(s, m,
       [At |-> "untracked", Paths |-> {},
        Entry |-> Grown(entry, ~fails,
                        IF fails THEN entry.Changes ELSE AddTracked(entry.Changes, tree[m]))])

\* gatherChanges: git ls-files --others.
gitUntracked(s, m, fails) ==
  LET entry == scan[s].Module[m].Entry
      paths == IF fails THEN {} ELSE Untracked(tree[m])
  IN
  /\ scan[s].Module[m].At = "untracked"
  /\ May(fails)
  /\ OneModule(s, m,
       [At |-> IF paths = {} THEN "done" ELSE "wc", Paths |-> paths,
        Entry |-> Grown(entry, entry.Whole /\ ~fails, entry.Changes)])

\* gatherChanges: wc -l over the untracked files.  One that has gone fails
\* the whole command, and then every file counts for no lines.
wc(s, m, fails) ==
  LET entry == scan[s].Module[m].Entry
      paths == scan[s].Module[m].Paths
      none == fails \/ WcFails(tree[m], paths)
  IN
  /\ scan[s].Module[m].At = "wc"
  /\ May(fails)
  /\ OneModule(s, m,
       [At |-> "done", Paths |-> paths,
        Entry |-> Grown(entry, entry.Whole /\ ~fails, AddUntracked(entry.Changes, paths, none))])

Command(s, m, fails) ==
  \/ gitStatus(s, m, fails)
  \/ gitNumstat(s, m, fails)
  \/ gitUntracked(s, m, fails)
  \/ wc(s, m, fails)

\* Promise.all of the workers: the response of GET modules/scan.
Respond(s) ==
  /\ scan[s].State = "running"
  /\ scan[s].Queue = {}
  /\ \A m \in Range(scan[s].Taken) : scan[s].Module[m].At = "done"
  /\ scan' = [scan EXCEPT ![s].State = "answered"]
  /\ UNCHANGED <<declared, tree, shown, Running, decorations, edits, faults, truth>>

-----------------------------------------------------------------------------
(* The client. *)

NothingShown == [Scan |-> 0, Entries |-> [m \in {} |-> NotScanned]]

\* scanAllModules: on load, on the scan buttons, and after every operation.
RequestScan(s) ==
  /\ scan[s].State = "none"
  /\ s > 1 => scan[s - 1].State # "none"
  /\ Running' = TRUE
  /\ scan' = [scan EXCEPT ![s] = [State |-> "running", Queue |-> declared,
                                  Taken |-> @.Taken, Module |-> @.Module]]
  /\ truth' = [truth EXCEPT ![s] = [m \in Modules |-> {tree[m]}]]
  /\ UNCHANGED <<declared, tree, shown, decorations, edits, faults>>

\* The response is lost on its way.
ScanFailed(s) ==
  /\ scan[s].State = "answered"
  /\ May(TRUE)
  /\ scan' = [scan EXCEPT ![s].State = "failed"]
  /\ Running' = FALSE
  /\ UNCHANGED <<declared, tree, shown, decorations, edits, truth>>

\* A response replaces what is shown, and asks for the published versions.
ScanArrives(s) ==
  /\ scan[s].State = "answered"
  /\ scan' = [scan EXCEPT ![s].State = "delivered"]
  /\ shown' = [Scan |-> s,
               Entries |-> [m \in Range(scan[s].Taken) |->
                              [Entry |-> scan[s].Module[m].Entry,
                               Published |-> FALSE, VersionState |-> "unknown"]]]
  /\ Running' = FALSE
  /\ decorations' = decorations + 1
  /\ UNCHANGED <<declared, tree, edits, faults, truth>>

\* loadPublishedVersions: the entries shown when the answer comes are
\* decorated; a failure is swallowed.  The route sends no VersionState.
DecorationArrives(fails) ==
  /\ decorations > 0
  /\ decorations' = decorations - 1
  /\ May(fails)
  /\ shown' = IF fails THEN shown
              ELSE [shown EXCEPT !.Entries =
                      [m \in DOMAIN @ |-> [@[m] EXCEPT !.Published = m \in declared]]]
  /\ UNCHANGED <<declared, tree, scan, Running, edits, truth>>

-----------------------------------------------------------------------------
(* What happens to the working trees and the manifest meanwhile. *)

Edits(m, t) ==
  /\ edits > 0 /\ edits' = edits - 1
  /\ tree' = [tree EXCEPT ![m] = t]
  /\ truth' = [s \in Scans |->
                 IF scan[s].State = "running" THEN [truth[s] EXCEPT ![m] = @ \cup {t}] ELSE truth[s]]
  /\ UNCHANGED <<declared, scan, shown, Running, decorations, faults>>

FileSteps ==
  {<<"clean", "unstaged">>, <<"unstaged", "staged">>, <<"staged", "both">>,
   <<"absent", "untracked">>, <<"untracked", "absent">>, <<"untracked", "staged">>}

ChangeFile(m, f, to) ==
  /\ <<tree[m].File[f], to>> \in FileSteps
  /\ Edits(m, [tree[m] EXCEPT !.File = [@ EXCEPT ![f] = to]])

Commit(m) ==
  /\ \E f \in Files : tree[m].File[f] \in {"staged", "both"}
  /\ Edits(m, [Ahead |-> tree[m].Ahead + 1, Behind |-> tree[m].Behind,
               File |-> [f \in Files |-> CASE tree[m].File[f] = "staged" -> "clean"
                                           [] tree[m].File[f] = "both"   -> "unstaged"
                                           [] OTHER                      -> tree[m].File[f]]])

Push(m) == tree[m].Ahead > 0 /\ Edits(m, [tree[m] EXCEPT !.Ahead = 0])
Fetch(m) == tree[m].Behind = 0 /\ Edits(m, [tree[m] EXCEPT !.Behind = 1])

\* The manifest loses a module.
Undeclare(m) ==
  /\ m \in declared
  /\ edits > 0 /\ edits' = edits - 1
  /\ declared' = declared \ {m}
  /\ UNCHANGED <<tree, scan, shown, Running, decorations, faults, truth>>

Init ==
  /\ declared = Modules
  /\ tree = InitialTree
  /\ scan = [s \in Scans |->
               [State |-> "none", Queue |-> {}, Taken |-> <<>>,
                Module |-> [m \in Modules |-> NotScanned]]]
  /\ shown = NothingShown
  /\ Running = FALSE
  /\ decorations = 0
  /\ edits = MaxEdits /\ faults = MaxFaults
  /\ truth = [s \in Scans |-> [m \in Modules |-> {}]]

ScanStep(s) ==
  \/ pumpWorker(s)
  \/ \E m \in Modules, fails \in BOOLEAN : Command(s, m, fails)
  \/ Respond(s)

Next ==
  \/ \E s \in Scans : RequestScan(s) \/ ScanFailed(s) \/ ScanArrives(s) \/ ScanStep(s)
  \/ \E fails \in BOOLEAN : DecorationArrives(fails)
  \/ \E m \in Modules :
       \/ \E f \in Files, to \in Changed \cup {"absent", "untracked"} : ChangeFile(m, f, to)
       \/ Commit(m) \/ Push(m) \/ Fetch(m) \/ Undeclare(m)

\* Every command ends, by its timeout if not before, and every response
\* arrives or fails.
Fairness ==
  /\ \A s \in Scans : WF_vars(ScanStep(s)) /\ WF_vars(ScanArrives(s) \/ ScanFailed(s))
  /\ WF_vars(\E fails \in BOOLEAN : DecorationArrives(fails))

Spec == Init /\ [][Next]_vars /\ Fairness

-----------------------------------------------------------------------------
(* Properties. *)

States == {"none", "running", "answered", "delivered", "failed"}
Stages == {"queued", "status", "numstat", "untracked", "wc", "done"}

IsModule(one) ==
  /\ one = [At |-> one.At, Entry |-> one.Entry, Paths |-> one.Paths]
  /\ one.At \in Stages
  /\ one.Paths \subseteq Files
  /\ IF IsEntry(one.Entry)
     THEN one.Entry = [Status |-> one.Entry.Status, Changes |-> one.Entry.Changes,
                       Whole |-> one.Entry.Whole]
     ELSE one.Entry = Failed(one.Entry.Error)

IsScan(one) ==
  /\ one = [State |-> one.State, Queue |-> one.Queue, Taken |-> one.Taken, Module |-> one.Module]
  /\ one.State \in States
  /\ one.Queue \subseteq Modules
  /\ one.Taken \in Seq(Modules)
  /\ one.Module = [m \in Modules |-> one.Module[m]]
  /\ \A m \in Modules : IsModule(one.Module[m])

\* Every variable has its type.
TypeOK ==
  /\ declared \subseteq Modules
  /\ tree \in [Modules -> Tree]
  /\ scan = [s \in Scans |-> scan[s]] /\ \A s \in Scans : IsScan(scan[s])
  /\ truth \in [Scans -> [Modules -> SUBSET Tree]]
  /\ shown = [Scan |-> shown.Scan, Entries |-> shown.Entries] /\ shown.Scan \in 0 .. MaxScans
  /\ Running \in BOOLEAN
  /\ decorations \in Nat
  /\ edits \in 0 .. MaxEdits /\ faults \in 0 .. MaxFaults

\* The pool scans every module that was declared when the scan began once,
\* and never more than Concurrency at a time.
PoolScansEachOnce ==
  \A s \in Scans :
    /\ Cardinality(InWork(s)) <= Concurrency
    /\ \A i, j \in DOMAIN scan[s].Taken : i # j => scan[s].Taken[i] # scan[s].Taken[j]
    /\ scan[s].State \in {"answered", "delivered"} => declared \subseteq Range(scan[s].Taken)

\* The status shown for a module is one its tree has had since the scan was
\* asked for, however the commands of the modules and of other scans
\* interleave.
StatusWasTrue ==
  \A s \in Scans, m \in Modules :
    LET entry == scan[s].Module[m].Entry IN
    IsEntry(entry) => entry.Status \in {getGitStatus(t) : t \in truth[s][m]}

\* What a tree has changed against HEAD, category by category.
ChangesOf(t) ==
  LET Of(c) == {f \in Numstat(t) \cup Untracked(t) : c \in {_scanCategoryForPath(f), "Total"}}
      Sum(files) == FoldSet(LAMBDA f, n : n + Lines[f], 0, files)
  IN [c \in Categories |->
        [Files |-> Cardinality(Of(c)), Added |-> Sum(Of(c)),
         Removed |-> Cardinality(Of(c) \cap Numstat(t))]]

\* Of a tree left alone while it was scanned, with no failed command, the
\* rollup counts every changed and every untracked file once, in its
\* category and in the total, and the recommended step is the tree's.
QuietScanExact ==
  \A s \in Scans, m \in Modules :
    LET one == scan[s].Module[m] IN
    one.At = "done" /\ IsEntry(one.Entry) /\ one.Entry.Whole /\ Cardinality(truth[s][m]) = 1 =>
      \A t \in truth[s][m] :
        /\ one.Entry.Changes = ChangesOf(t)
        /\ one.Entry.Status.NextAction =
             (IF one.Entry.Changes["Total"].Files > 0 THEN "commit"
              ELSE IF t.Behind > 0 THEN "pull" ELSE IF t.Ahead > 0 THEN "push" ELSE "in-sync")

\* While the client says a scan is running, one is.
RunningHonest == Running => \E s \in Scans : scan[s].State \in {"running", "answered"}

\* A scan is answered or fails as a whole: a module whose commands fail or
\* that has left the manifest holds no scan up.
ScansEnd ==
  \A s \in Scans : scan[s].State = "running" ~> scan[s].State \in {"delivered", "failed"}

\* An untracked file's lines count as added, as gatherChanges says of them.
\* (The code does not keep it: one file that goes between ls-files and wc
\* takes the lines of all the others with it.)
UntrackedCounted ==
  \A s \in Scans, m \in Modules, f \in Files :
    LET one == scan[s].Module[m] IN
    /\ one.At = "done" /\ IsEntry(one.Entry) /\ one.Entry.Whole
    /\ \A t \in truth[s][m] : t.File[f] = "untracked"
    => one.Entry.Changes[_scanCategoryForPath(f)].Added >= Lines[f]

\* An operation's end makes the scan stale and asks for another: what is
\* shown never goes back to an older one.  (The code does not keep it.)
NewestStays == [][shown'.Scan >= shown.Scan]_vars

\* PublishedVersion and VersionState are filled in by the decoration pass.
\* (The code does not keep it: the route sends no VersionState.)
DecorationFills ==
  \A m \in DOMAIN shown.Entries :
    shown.Entries[m].Published => shown.Entries[m].VersionState # "unknown"

=============================================================================
