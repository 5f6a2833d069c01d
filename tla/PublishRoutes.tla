---------------------------- MODULE PublishRoutes ----------------------------
(***************************************************************************)
(* The routes of single operations (web_server/routes/Api-Operations.js):  *)
(* version, git, ncu and publish on one module through the one process     *)
(* runner, the publish preview that guards the last, and the repo-wide     *)
(* alignment, which does not go through the runner.                        *)
(*                                                                         *)
(* The runner is ProcessRunner; here it is the operation it runs, with the *)
(* effect of the command when it ends.  A bulk run uses runners of its own.*)
(***************************************************************************)
EXTENDS Packages

CONSTANTS
    Clients,    \* browsers; each has at most one preview request in flight
    Packages0,  \* the dependencies declared at first
    Versions0,  \* the versions on disk at first
    Released0,  \* npm at first
    Opened,     \* bound: the modules whose workspaces the browsers open
    Edits,      \* <<module, dependency>>: what someone may write by hand
    BumpKinds,  \* bound: the kinds of npm version asked for
    Pulls,      \* what a command of the run route may bring, as git pull does
    MaxCommits, \* bound: commits on a branch
    MaxRequests \* bound: requests of all kinds, and edits by hand

ASSUME RoutesAssumption ==
    /\ Checks = Clients
    /\ Opened \subseteq Modules
    /\ Packages0 \in [Modules -> SUBSET Dependency]
    /\ Versions0 \in [Modules -> Version]
    /\ Edits \subseteq Modules \X Dependency
    /\ Pulls \subseteq [Package : Modules, Version : Version, Deps : SUBSET Dependency]

VARIABLES
    preview, \* _previews: the report stored for a module; history: was it overtaken
    seen,    \* the last report each client was sent
    op,      \* what the runner runs
    spent,   \* history: a publish was started since the last preview was sent
    late,    \* history: the clients whose preview under way a version has overtaken
    asked    \* the number of requests, to bound it

routeVars == <<preview, seen, op, spent, late, asked>>
vars == <<packageVars, routeVars>>

NoPreview == [Stored |-> FALSE]
NoReport == [Module |-> 0]
NoOp == [Kind |-> "none", Module |-> 0]

\* A "command" changes nothing the model keeps; a "run" is any command at all.
Kinds == {"command", "run", "version", "commit", "ncu -u", "publish"}

Init ==
    /\ packages = Packages0
    /\ version = Versions0
    /\ released = Released0
    /\ InitPackages
    /\ preview = [m \in Modules |-> NoPreview]
    /\ seen = [c \in Clients |-> NoReport]
    /\ op = NoOp
    /\ spent = [m \in Modules |-> FALSE]
    /\ late = {}
    /\ asked = 0

-----------------------------------------------------------------------------
Ask == asked < MaxRequests /\ asked' = asked + 1

(* GET publish/preview: needs no free runner, and takes as long as npm does.  *)
Checking(m) == {c \in Checks : check[c] # Idle /\ check[c].report.Module = m}

GetPreview(c, m, ok) ==
    /\ StartCheck(c, m, ok)
    /\ Ask
    /\ late' = IF op.Kind = "version" /\ op.Module = m THEN late \cup {c} ELSE late \ {c}
    /\ UNCHANGED <<preview, seen, op, spent>>

AnswerPreview(c, n, ok) == AnswerCheck(c, n, ok) /\ UNCHANGED routeVars

Stored(report, read, passed) ==
    [Stored |-> TRUE, Report |-> report, Read |-> read, Passed |-> passed]

SendPreview(c) ==
    /\ Answered(c)
    /\ LET m == check[c].report.Module IN
       /\ preview' = [preview EXCEPT ![m] = Stored(Report(c), check[c].read, c \in late)]
       /\ seen' = [seen EXCEPT ![c] = Report(c)]
       /\ spent' = [spent EXCEPT ![m] = FALSE]
    /\ check' = [check EXCEPT ![c] = Idle]
    /\ UNCHANGED <<fileVars, npmVars, cacheVars, op, late, asked>>

\* Five minutes pass.
ExpirePreview(m) ==
    /\ preview[m] # NoPreview
    /\ preview' = [preview EXCEPT ![m] = NoPreview]
    /\ UNCHANGED <<packageVars, seen, op, spent, late, asked>>

-----------------------------------------------------------------------------
(* The kick-off of an operation: 409 when the runner runs one.                *)
busy == op # NoOp
Drop(m) == [preview EXCEPT ![m] = NoPreview]

Kick(kind, m) ==
    /\ ~busy
    /\ op' = [Kind |-> kind, Module |-> m]
    /\ Ask
    /\ UNCHANGED <<packageVars, preview, seen, spent, late>>

PostRun(m) == Kick("run", m)
PostDiff(m) == Kick("command", m)
PostGitAdd(m) == Kick("command", m)
PostNpmCache == Kick("command", 0)
PostCommit(m) == Kick("commit", m)
PostNcu(m, apply) == Kick(IF apply THEN "ncu -u" ELSE "command", m)

\* Mutant: the stored preview outlives a new version.
PostVersionKeeps(m) ==
    /\ ~busy
    /\ op' = [Kind |-> "version", Module |-> m]
    /\ late' = late \cup Checking(m)
    /\ Ask
    /\ UNCHANGED <<packageVars, preview, seen, spent>>

PostVersion(m) ==
    /\ ~busy
    /\ op' = [Kind |-> "version", Module |-> m]
    /\ preview' = Drop(m)
    /\ late' = late \cup Checking(m)
    /\ Ask
    /\ UNCHANGED <<packageVars, seen, spent>>

\* Mutant: the preview may be used again.
PostPublishAgain(c) ==
    LET m == seen[c].Module IN
    /\ seen[c] # NoReport
    /\ preview[m] # NoPreview
    /\ PreviewHash(preview[m].Report) = PreviewHash(seen[c])
    /\ preview[m].Report.OkToPublish
    /\ ~busy
    /\ op' = [Kind |-> "publish", Module |-> m,
              Report |-> preview[m].Report, Read |-> preview[m].Read, Passed |-> preview[m].Passed]
    /\ spent' = [spent EXCEPT ![m] = TRUE]
    /\ Ask
    /\ UNCHANGED <<packageVars, preview, seen, late>>

\* The hash is the one of the report the client shows; the stored report must
\* have it and be OK.
PostPublish(c) ==
    LET m == seen[c].Module IN
    /\ seen[c] # NoReport
    /\ preview[m] # NoPreview
    /\ PreviewHash(preview[m].Report) = PreviewHash(seen[c])
    /\ preview[m].Report.OkToPublish
    /\ ~busy
    /\ preview' = Drop(m)
    /\ op' = [Kind |-> "publish", Module |-> m,
              Report |-> preview[m].Report, Read |-> preview[m].Read, Passed |-> preview[m].Passed]
    /\ spent' = [spent EXCEPT ![m] = TRUE]
    /\ Ask
    /\ UNCHANGED <<packageVars, seen, late>>

\* POST deps/sync asks nobody.
DepsSync(write) ==
    /\ align(write)
    /\ Ask
    /\ UNCHANGED <<npmVars, cacheVars, check, preview, seen, op, spent, late>>

-----------------------------------------------------------------------------
(* The command ends.  One that fails, or is cancelled in time, changes        *)
(* nothing; npm publish is refused when the version exists.                   *)
Finishes == busy /\ op' = NoOp /\ UNCHANGED <<seen, spent, asked>>
Ends == Finishes /\ UNCHANGED <<preview, late>>

EndWithoutEffect == Ends /\ UNCHANGED packageVars

EndVersion ==
    /\ Ends
    /\ op.Kind = "version"
    /\ \E kind \in BumpKinds :
          /\ Bumped(version[op.Module], kind) \in Version
          /\ version' = [version EXCEPT ![op.Module] = Bumped(@, kind)]
    /\ UNCHANGED <<packages, commits, npmVars, cacheVars, check>>

\* The run route takes any command; git pull --rebase, which the workspace
\* offers, brings a package.json and commits, and drops no preview.
EndRun ==
    /\ Finishes
    /\ op.Kind = "run"
    /\ commits[op.Module] < MaxCommits
    /\ commits' = [commits EXCEPT ![op.Module] = @ + 1]
    /\ \E p \in {q \in Pulls : q.Package = op.Module} :
          /\ packages' = [packages EXCEPT ![op.Module] = p.Deps]
          /\ version' = [version EXCEPT ![op.Module] = p.Version]
    /\ IF version' = version
       THEN UNCHANGED <<preview, late>>
       ELSE /\ preview' = [preview EXCEPT ![op.Module] =
                   IF @ = NoPreview THEN @ ELSE Stored(@.Report, @.Read, TRUE)]
            /\ late' = late \cup Checking(op.Module)
    /\ UNCHANGED <<npmVars, cacheVars, check>>

EndCommit ==
    /\ Ends
    /\ op.Kind = "commit"
    /\ commits[op.Module] < MaxCommits
    /\ commits' = [commits EXCEPT ![op.Module] = @ + 1]
    /\ UNCHANGED <<packages, version, npmVars, cacheVars, check>>

\* npm-check-updates raises the ranges to what npm has.
EndNcu ==
    /\ Ends
    /\ op.Kind = "ncu -u"
    /\ packages' = [packages EXCEPT ![op.Module] =
           {IF d.Range.Op \in {"^", "~", ""} THEN [d EXCEPT !.Range.Base = Highest(index[d.Dep])] ELSE d
                : d \in @}]
    /\ UNCHANGED <<version, commits, npmVars, cacheVars, check>>

EndPublish ==
    /\ Ends
    /\ op.Kind = "publish"
    /\ CanRelease(op.Module)
    /\ released' = released \cup {Release(op.Module)}
    /\ UNCHANGED <<fileVars, index, cacheVars, check>>

-----------------------------------------------------------------------------
Previews ==
    \/ \E c \in Clients, m \in Opened, ok \in BOOLEAN : GetPreview(c, m, ok)
    \/ \E m \in Opened : ExpirePreview(m)

Validating ==
    \/ \E c \in Clients, n \in Names, ok \in BOOLEAN : AnswerPreview(c, n, ok)
    \/ \E c \in Clients : SendPreview(c)

Posts ==
    \/ \E m \in Opened : PostRun(m) \/ PostDiff(m) \/ PostGitAdd(m) \/ PostCommit(m)
    \/ \E m \in Opened, apply \in BOOLEAN : PostNcu(m, apply)
    \/ PostNpmCache
    \/ \E m \in Opened : PostVersion(m)
    \/ \E c \in Clients : PostPublish(c)
    \/ \E write \in BOOLEAN : DepsSync(write)

Ending == EndWithoutEffect \/ EndVersion \/ EndRun \/ EndCommit \/ EndNcu \/ EndPublish

Others ==
    /\ \/ (\E n \in Names : Serve(n) \/ Expire(n)) /\ UNCHANGED asked
       \/ (\E e \in Edits : EditByHand(e[1], e[2])) /\ Ask
    /\ UNCHANGED <<preview, seen, op, spent, late>>

Next == Previews \/ Validating \/ Posts \/ Ending \/ Others

Spec == Init /\ [][Next]_vars

-----------------------------------------------------------------------------
(* Properties *)

(* The routes' variables keep their types.                                   *)
TypeOK ==
    /\ PackagesTypeOK
    /\ \A m \in Modules : preview[m] = NoPreview \/ preview[m].Report \in ReportSet
    /\ \A c \in Clients : seen[c] = NoReport \/ seen[c] \in ReportSet
    /\ op.Kind \in Kinds \cup {"none"}
    /\ op.Module \in Modules \cup {0}

Fetched(report) == \A p \in report.Problems : p.Code # "npm-view-failed"

(* A publish that ships what was previewed ships no local link and no range  *)
(* on an ecosystem package that npm cannot resolve, whatever the caches held *)
(* and in whatever order npm answered.                                       *)
PublishResolves ==
    op.Kind = "publish" /\ packages[op.Module] = op.Read =>
        \A d \in op.Read :
            /\ d.Range.Op \notin {"file", "link"}
            /\ isEcosystemDependency(d.Dep) /\ d \in collectDeps(op.Read) /\ Fetched(op.Report)
                   => Resolves(d)

(* Two clients who look at the same preview start one publish: the next one  *)
(* needs a preview sent since.                                               *)
EachPublishPreviewed ==
    [][op'.Kind = "publish" /\ op.Kind # "publish" => ~spent[op'.Module]]_vars

(* The version a client was shown is the one that is published: the version   *)
(* route drops the preview stored before.  Not so when the version changed    *)
(* while the preview was being made, or when a command of the run route       *)
(* changed it since (Passed); NoSurprisePublish is about those.               *)
PreviewedVersionShips ==
    op.Kind = "publish" /\ ~op.Passed => op.Report.LocalVersion = version[op.Module]

(* Aligning leaves no range on a module of the manifest that its version on  *)
(* disk is not in.                                                           *)
AlignCovers ==
    [][DepsSync(TRUE) => \A m \in Modules : \A d \in collectDeps(packages'[m]) :
           isEcosystemDependency(d.Dep) /\ d.Dep \in Modules /\ d.Range.Op # "link"
               => rangeCoversVersion(d.Range, version[d.Dep])]_vars

-----------------------------------------------------------------------------
(* What the documentation says and the code does not do.                     *)

(* PrePublishValidator.js: the publish request must echo the hash "so a      *)
(* stale preview can't trigger a surprise publish".                          *)
NoSurprisePublish ==
    [][op'.Kind = "publish" /\ op.Kind # "publish" =>
           /\ op'.Report.LocalVersion = version[op'.Module]
           /\ op'.Read = packages[op'.Module]]_vars
=============================================================================
