------------------------------ MODULE RippleRun ------------------------------
(***************************************************************************)
(* A ripple publish carried out: the built-in tasks                        *)
(* (source/bulk/tasks/BuiltInTasks.js) as the engine executes them, one    *)
(* after the other, on the package.json files, the caches and the registry *)
(* of Packages, along the steps RipplePlan computes.                       *)
(*                                                                         *)
(* What BulkEngine says of a serial run is not repeated: cancelling and    *)
(* crashing are left to it.  Shells are external: a command has its effect *)
(* and reports success, or fails without one; npm publish may also land    *)
(* and report a failure.                                                   *)
(***************************************************************************)
EXTENDS Packages, Sequences

CONSTANTS
    Packages0,  \* the dependencies declared when the plan is made
    Versions0,  \* the versions on disk when the plan is made
    Released0,  \* what npm has by then
    Roots,      \* the roots of the ripple
    Order,      \* topoOrder's answer for their cone
    Config,     \* the manifest's Ripple settings: RunTest, WaitForIndex, RunPush
    ByHand      \* are the gates left to the operator?

Graph == INSTANCE RipplePlan WITH
    Ranges <- RangeSet, LocalRanges <- {}, Requests <- {}, FlatRequests <- {}, MaxDeclared <- 0,
    packages <- Packages0, phase <- "planned", edges <- {}, roots <- Roots, visited <- {},
    queue <- {}, degree <- <<>>, ready <- {}, emitted <- {}, order <- Order

Edges == Graph!BuildGraph(Packages0)

Plan == INSTANCE RipplePlan WITH
    Ranges <- RangeSet, LocalRanges <- {}, Requests <- {}, FlatRequests <- {}, MaxDeclared <- 0,
    packages <- Packages0, phase <- "planned", edges <- Edges, roots <- Roots, visited <- {},
    queue <- {}, degree <- <<>>, ready <- {}, emitted <- {}, order <- Order

Steps == Plan!RippleSteps(Config)

(* The planner's answer for at least one root: modules of the manifest, each *)
(* once (RipplePlan.OneStepEach).                                            *)
ASSUME RippleAssumption ==
    /\ Checks = {1}
    /\ Modules \subseteq Nat
    /\ IsFiniteSet(Modules)
    /\ Modules \cap Outside = {}
    /\ Order \in Seq(Modules)
    /\ Order # <<>>
    /\ \A i, j \in DOMAIN Order : Order[i] = Order[j] => i = j
    /\ Packages0 \in [Modules -> SUBSET Dependency]
    /\ Versions0 \in [Modules -> Version]
    /\ Config \in Plan!Configs

VARIABLES
    at,       \* the step that runs
    act,      \* the status of each of its actions
    gate,     \* where a publish is: "none", "checking", "paused" or "exec"
    status,   \* the run's status
    yes,      \* AutoConfirm
    dirty,    \* modules whose working tree has changes
    declined, \* history: modules whose publish the operator skipped
    timedOut, \* history: modules npm was not seen to serve in time
    foreign   \* how many releases were made from elsewhere

runVars == <<at, act, gate, status, yes, dirty, declined, timedOut>>
vars == <<packageVars, runVars, foreign>>

Target == Steps[at].Target
Actions == Steps[at].Actions
Pendings == {k \in DOMAIN act : act[k] = "Pending"}
Now == CHOOSE k \in Pendings : \A j \in Pendings : k <= j

Fresh(i) == [k \in DOMAIN Steps[i].Actions |-> "Pending"]

Init ==
    /\ packages = Packages0
    /\ version = Versions0
    /\ released = Released0
    /\ InitPackages
    /\ at = 1
    /\ act = Fresh(1)
    /\ gate = "none"
    /\ status = "Running"
    /\ yes = ~ByHand
    /\ dirty = {}
    /\ declined = {}
    /\ timedOut = {}
    /\ foreign = 0

-----------------------------------------------------------------------------
(* The engine around a task.                                                 *)
Turn(op) ==
    /\ status = "Running"
    /\ gate = "none"
    /\ Pendings # {}
    /\ Actions[Now].Op = op

Settle(result) ==
    /\ act' = [act EXCEPT ![Now] = result]
    /\ gate' = "none"
    /\ status' = IF result = "Error" THEN "Error" ELSE status
    /\ UNCHANGED <<at, yes>>

\* A command that reports failure makes its task throw.
Throws == Settle("Error") /\ UNCHANGED <<packageVars, dirty, declined, timedOut>>

EndStep ==
    /\ status = "Running"
    /\ Pendings = {}
    /\ IF at < Len(Steps)
       THEN at' = at + 1 /\ act' = Fresh(at + 1) /\ status' = status
       ELSE status' = "Complete" /\ UNCHANGED <<at, act>>
    /\ UNCHANGED <<packageVars, gate, yes, dirty, declined, timedOut>>

\* Mutant: of the actions that are complete, all but the first run again.
RetriedRest(a) == [k \in DOMAIN a |-> IF k = 1 THEN a[k] ELSE "Pending"]

\* Mutant: the action that failed is passed over.
RetriedPast(a) == [k \in DOMAIN a |-> IF a[k] \in {"Complete", "Error"} THEN "Complete" ELSE "Pending"]

\* retry(): the actions of the failed step that are not complete run again,
\* with every gate confirmed.
Retried(a) == [k \in DOMAIN a |-> IF a[k] = "Complete" THEN "Complete" ELSE "Pending"]

Retry ==
    /\ status = "Error"
    /\ status' = "Running"
    /\ act' = Retried(act)
    /\ yes' = TRUE
    /\ UNCHANGED <<packageVars, at, gate, dirty, declined, timedOut>>

-----------------------------------------------------------------------------
(* The tasks.                                                                *)
PreflightCleanTree ==
    /\ Turn("preflight-clean-tree")
    /\ Settle(IF Target \in dirty THEN "Error" ELSE "Complete")
    /\ UNCHANGED <<packageVars, dirty, declined, timedOut>>

\* Mutant: the range names the version npm serves, not the one on disk.
UpdateDepFromNpm ==
    /\ Turn("update-dep")
    /\ LET dep == Actions[Now].Dep
           desired == [Section |-> "dependencies", Dep |-> dep, Range |-> Caret(Latest(dep, TRUE))]
       IN  IF desired \in packages[Target]
           THEN Settle("Skipped") /\ UNCHANGED <<packages, dirty>>
           ELSE /\ packages' = [packages EXCEPT ![Target] =
                      {d \in @ : d.Dep # dep \/ d.Section # "dependencies"} \cup {desired}]
                /\ dirty' = dirty \cup {Target}
                /\ Settle("Complete")
    /\ UNCHANGED <<version, commits, npmVars, cacheVars, check, declined, timedOut>>

\* The range is written under dependencies, whatever section asked for it.
UpdateDep ==
    /\ Turn("update-dep")
    /\ LET dep == Actions[Now].Dep
           desired == [Section |-> "dependencies", Dep |-> dep, Range |-> Caret(version[dep])]
       IN  IF desired \in packages[Target]
           THEN Settle("Skipped") /\ UNCHANGED <<packages, dirty>>
           ELSE /\ packages' = [packages EXCEPT ![Target] =
                      {d \in @ : d.Dep # dep \/ d.Section # "dependencies"} \cup {desired}]
                /\ dirty' = dirty \cup {Target}
                /\ Settle("Complete")
    /\ UNCHANGED <<version, commits, npmVars, cacheVars, check, declined, timedOut>>

\* npm install finds a served version for every range, or fails.
Installable(m) ==
    \A d \in packages[m] :
        d.Range.Op \in {"file", "link"} \/ \E v \in index[d.Dep] : rangeCoversVersion(d.Range, v)

Install ==
    /\ Turn("install")
    /\ \/ Installable(Target) /\ Settle("Complete")
                              /\ UNCHANGED <<packageVars, dirty, declined, timedOut>>
       \/ Throws

Test ==
    /\ Turn("test")
    /\ \/ Settle("Complete") /\ UNCHANGED <<packageVars, dirty, declined, timedOut>>
       \/ Throws

\* A commit that fails, or has nothing to do, is let pass.
Commit ==
    /\ \E op \in {"commit", "commit-final"} : Turn(op)
    /\ \/ /\ Target \in dirty
          /\ dirty' = dirty \ {Target}
          /\ commits' = [commits EXCEPT ![Target] = @ + 1]
       \/ UNCHANGED <<dirty, commits>>
    /\ Settle("Complete")
    /\ UNCHANGED <<packages, version, npmVars, cacheVars, check, declined, timedOut>>

Push ==
    /\ Turn("push")
    /\ Settle("Complete")
    /\ UNCHANGED <<packageVars, dirty, declined, timedOut>>

VersionPatch ==
    /\ version' = [version EXCEPT ![Target] = Bumped(@, "patch")]
    /\ dirty' = dirty \cup {Target}
    /\ Settle("Complete")
    /\ UNCHANGED <<packages, commits, npmVars, check, declined, timedOut>>

Bump ==
    /\ Turn("bump")
    /\ \/ VersionPatch /\ UNCHANGED cacheVars
       \/ Throws

\* Unpublished, or ahead of npm: the version stays.  Equal: a patch.  Behind:
\* the operator has to see to it.
BumpIfNeeded(ok) ==
    /\ Turn("bump-if-needed")
    /\ LET npm == fetchPublishedVersion(Target, ok)
           compare == IF npm = None THEN 1 ELSE compareSemver(version[Target], npm)
       IN  /\ versionCache' = Remember(versionCache, Target, npm)
           /\ versionsCache' = versionsCache
           /\ IF compare = 0
              THEN \/ VersionPatch
                   \/ Settle("Error") /\ UNCHANGED <<fileVars, npmVars, check, dirty, declined, timedOut>>
              ELSE /\ Settle(IF compare > 0 THEN "Complete" ELSE "Error")
                   /\ UNCHANGED <<fileVars, npmVars, check, dirty, declined, timedOut>>

\* publish: the validator's report, the gate, then npm publish.
StartValidator(ok) ==
    /\ Turn("publish")
    /\ StartCheck(1, Target, ok)
    /\ gate' = "checking"
    /\ UNCHANGED <<at, act, status, yes, dirty, declined, timedOut>>

AnswerValidator(n, ok) == AnswerCheck(1, n, ok) /\ UNCHANGED runVars

EndValidator ==
    /\ gate = "checking"
    /\ Answered(1)
    /\ IF ~yes
       THEN gate' = "paused" /\ UNCHANGED <<act, status, at, yes, check>>
       ELSE /\ check' = [check EXCEPT ![1] = Idle]
            /\ IF Report(1).OkToPublish
               THEN gate' = "exec" /\ UNCHANGED <<act, status, at, yes>>
               ELSE Settle("Error")
    /\ UNCHANGED <<fileVars, npmVars, cacheVars, dirty, declined, timedOut>>

\* The operator may confirm what the validator advises against.
Confirm ==
    /\ gate = "paused"
    /\ gate' = "exec"
    /\ check' = [check EXCEPT ![1] = Idle]
    /\ UNCHANGED <<fileVars, npmVars, cacheVars, at, act, status, yes, dirty, declined, timedOut>>

Skip ==
    /\ gate = "paused"
    /\ Settle("Skipped")
    /\ check' = [check EXCEPT ![1] = Idle]
    /\ declined' = declined \cup {Target}
    /\ UNCHANGED <<fileVars, npmVars, cacheVars, dirty, timedOut>>

Publish ==
    /\ gate = "exec"
    /\ \/ /\ CanRelease(Target)
          /\ released' = released \cup {Release(Target)}
          /\ Settle("Complete") \/ Settle("Error")
       \/ released' = released /\ Settle("Error")
    /\ UNCHANGED <<fileVars, index, cacheVars, check, dirty, declined, timedOut>>

\* One turn of the polling loop: the caches are dropped and npm is asked.
WaitForIndex(ok) ==
    /\ Turn("wait-for-index")
    /\ versionCache' = Remember(ClearedVersions, Target, Latest(Target, ok))
    /\ versionsCache' = ClearedLists
    /\ IF Latest(Target, ok) = version[Target]
       THEN Settle("Complete")
       ELSE UNCHANGED <<at, act, gate, status, yes>>
    /\ UNCHANGED <<fileVars, npmVars, check, dirty, declined, timedOut>>

\* Mutant: there is no deadline.
GiveUpNever ==
    /\ Turn("wait-for-index")
    /\ version[Target] \in index[Target]
    /\ Settle("Complete")
    /\ UNCHANGED <<packageVars, dirty, declined, timedOut>>

GiveUpWaiting ==
    /\ Turn("wait-for-index")
    /\ Settle("Complete")
    /\ timedOut' = timedOut \cup {Target}
    /\ UNCHANGED <<packageVars, dirty, declined>>

-----------------------------------------------------------------------------
(* Everyone else: npm view catches up, cache entries age, and another clone  *)
(* of a module publishes its next version.                                   *)
CONSTANTS
    Elsewhere, \* modules that are also published from another clone
    MaxForeign \* bound: releases made from there

ASSUME ElsewhereAssumption == Elsewhere \subseteq Modules

Foreign(m) == [Package |-> m, Version |-> Bumped(Highest(Published(m)), "patch"), Deps |-> Packages0[m]]

PublishElsewhere(m) ==
    /\ foreign < MaxForeign
    /\ foreign' = foreign + 1
    /\ Foreign(m).Version \in Version
    /\ released' = released \cup {Foreign(m)}
    /\ UNCHANGED <<fileVars, index, cacheVars, check, runVars>>

Others ==
    \/ \E n \in Names : (Serve(n) \/ Expire(n)) /\ UNCHANGED <<runVars, foreign>>
    \/ \E m \in Elsewhere : PublishElsewhere(m)

Engine ==
    \/ EndStep
    \/ PreflightCleanTree \/ UpdateDep \/ Install \/ Test \/ Commit \/ Push \/ Bump
    \/ EndValidator \/ Publish \/ GiveUpWaiting
    \/ \E ok \in BOOLEAN : BumpIfNeeded(ok) \/ StartValidator(ok) \/ WaitForIndex(ok)
    \/ \E n \in Names, ok \in BOOLEAN : AnswerValidator(n, ok)

Answer == Confirm \/ Skip

Run == Engine \/ Answer \/ Retry

Next == (Run /\ UNCHANGED foreign) \/ Others

\* Shells end, npm answers and the polling loop meets its deadline; the
\* operator answers a gate.  Nothing makes npm view catch up.
Spec == Init /\ [][Next]_vars /\ WF_vars(Engine /\ UNCHANGED foreign)
             /\ WF_vars(Answer /\ UNCHANGED foreign) /\ WF_vars(GiveUpWaiting /\ UNCHANGED foreign)

-----------------------------------------------------------------------------
(* Properties *)

(* The run's variables keep their types.                                     *)
TypeOK ==
    /\ PackagesTypeOK
    /\ at \in DOMAIN Steps
    /\ DOMAIN act = DOMAIN Actions
    /\ \A k \in DOMAIN act : act[k] \in {"Pending", "Complete", "Skipped", "Error"}
    /\ gate \in {"none", "checking", "paused", "exec"}
    /\ gate \in {"checking", "paused"} <=> check[1] # Idle
    /\ status \in {"Running", "Error", "Complete"}
    /\ dirty \cup declined \cup timedOut \subseteq Modules

(* A cascade that ends published what it says: npm has each module of the    *)
(* cone at the version on its disk, with the content on its disk, and with   *)
(* each producer's new version under its dependencies, through any failures  *)
(* and retries.                                                              *)
ReleasedAsIs(m) == Release(m) \in released

CascadeCoherent ==
    status = "Complete" /\ declined = {} =>
        \A i \in DOMAIN Steps : LET m == Steps[i].Target IN
            /\ ReleasedAsIs(m)
            /\ \A j \in 1..(i - 1) :
                   (\E e \in Edges : e.From = m /\ e.To = Steps[j].Target) =>
                       [Section |-> "dependencies", Dep |-> Steps[j].Target,
                        Range |-> Caret(version[Steps[j].Target])] \in packages[m]

(* However often a run is retried, a module's version is bumped once.        *)
BumpedOnce ==
    \A m \in Modules : version[m] \in {Versions0[m], Bumped(Versions0[m], "patch")}

(* Nothing is ever released whose ranges npm could not resolve, even when a  *)
(* producer's publish was skipped, failed, or is not served yet.             *)
ResolvesIn(rel, deps) ==
    \A d \in deps : d.Range.Op \notin {"file", "link"} =>
        \E r \in rel : r.Package = d.Dep /\ rangeCoversVersion(d.Range, r.Version)

ReleasesResolve == \A r \in released : ResolvesIn(released, r.Deps)

(* What it starts from: no range of a release or of a package.json is one    *)
(* that npm cannot resolve by then.                                          *)
StartsResolved ==
    /\ \A r \in Released0 : ResolvesIn(Released0, r.Deps)
    /\ \A m \in Modules : ResolvesIn(Released0, Packages0[m])

(* Unless the polling gave up, npm serves every producer of the cascade by   *)
(* the time a consumer is installed.                                         *)
IndexBeforeInstall ==
    Config.WaitForIndex /\ status = "Running" /\ Pendings # {} /\ Actions[Now].Op = "install" =>
        \A j \in 1..(at - 1) : LET m == Steps[j].Target IN
            m \in timedOut \/ version[m] \in index[m]

(* A run does not hang: each stretch of it ends, complete or in error.       *)
RunSettles == status = "Running" ~> status # "Running"

-----------------------------------------------------------------------------
(* Planner-Ripple.js: the plan updates "in-cone dependency ranges to versions *)
(* resolved AT RUN TIME".  A devDependency is in the graph like any other,    *)
(* and its range stays what it was: the new one is written under              *)
(* dependencies.                                                              *)
EveryRangeFollows ==
    status = "Complete" /\ declined = {} =>
        \A e \in Edges :
            (\E i, j \in DOMAIN Steps : i > j /\ Steps[i].Target = e.From /\ Steps[j].Target = e.To)
                => \A d \in packages[e.From] :
                       d.Section = e.Section /\ d.Dep = e.To => d.Range = Caret(version[e.To])
=============================================================================
