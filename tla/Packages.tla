------------------------------ MODULE Packages ------------------------------
(***************************************************************************)
(* The package.json files of the manifest's modules, the npm registry they *)
(* are published to, the introspector's two caches of what `npm view`      *)
(* answers (ModuleIntrospector.js), the pre-publish validator that reads   *)
(* all of them (PrePublishValidator.js), and the dependency aligner        *)
(* (DepAligner.js).  RippleRun and PublishRoutes extend this module: the   *)
(* bulk tasks and the routes are what changes these variables.             *)
(*                                                                         *)
(* The registry is external.  npm publish adds a version and never removes *)
(* one; npm view serves a version some time after it was published.        *)
(***************************************************************************)
EXTENDS Semver, FiniteSets

CONSTANTS
    Modules,   \* names in the manifest
    Outside,   \* names of packages that are not in the manifest
    Ecosystem, \* names for which isEcosystemDependency answers true
    Checks     \* calls of validate() that may be in flight

Names == Modules \cup Outside
Sections == {"dependencies", "devDependencies", "peerDependencies"}
RangeSet == [Op : RangeOps, Base : Version]
Dependency == [Section : Sections, Dep : Names, Range : RangeSet]

VARIABLES
    packages,      \* the dependencies each module's package.json declares
    version,       \* its version
    commits,       \* how many commits the module's branch has
    released,      \* npm: every release, with the dependencies it declares
    index,         \* npm: the versions npm view serves of each name
    versionCache,  \* _npmVersionCache: the latest version last seen
    versionsCache, \* _npmVersionsCache: the list of versions last seen
    check          \* each call of validate(): what it has gathered so far

fileVars  == <<packages, version, commits>>
npmVars   == <<released, index>>
cacheVars == <<versionCache, versionsCache>>
packageVars == <<fileVars, npmVars, cacheVars, check>>

Published(n) == {r.Version : r \in {q \in released : q.Package = n}}

-----------------------------------------------------------------------------
(* The introspector's view of npm.  A cache entry is what npm view answered; *)
(* a call that failed leaves null, or the empty list, for the whole TTL.     *)
NotCached == <<0>>
NotListed == {NotCached}

Served(n, ok) == IF ok THEN index[n] ELSE {}
Latest(n, ok) == IF Served(n, ok) = {} THEN None ELSE Highest(index[n])

fetchPublishedVersion(n, ok) ==
    IF versionCache[n] # NotCached THEN versionCache[n] ELSE Latest(n, ok)

Remember(cache, n, answer) == [cache EXCEPT ![n] = answer]

\* What clearNpmVersionCache leaves of both.
ClearedVersions == [n \in Names |-> NotCached]
ClearedLists == [n \in Names |-> NotListed]

-----------------------------------------------------------------------------
(* Reading package.json.  The dependencies the introspector looks at: of two *)
(* entries for a name, the one in devDependencies.                           *)
collectDeps(pkg) ==
    {d \in pkg :
        /\ d.Section \in {"dependencies", "devDependencies"}
        /\ d.Section = "dependencies" =>
               ~ \E e \in pkg : e.Section = "devDependencies" /\ e.Dep = d.Dep}

isEcosystemDependency(n) == n \in Ecosystem

EcosystemDeps(m) == {d \in collectDeps(packages[m]) : isEcosystemDependency(d.Dep)}

LocalLink(d) == d.Range.Op = "file"

(* The names npm view is asked for.                                          *)
ToFetch(deps) == {d.Dep : d \in {e \in deps : ~LocalLink(e)}}

(* What getEcosystemDeps says of a dependency, given the versions npm lists. *)
Covered(d, versions) ==
    LocalLink(d) \/ pickHighestSatisfyingVersion(d.Range, versions).Matched # None

-----------------------------------------------------------------------------
(* The validator.                                                            *)
Problem(code, dep) == [Code |-> code, Dep |-> dep]
NoDep == 0

\* An error makes the report not OK; a warning does not.
Errors == {"version-already-published", "local-file-reference", "ecosystem-dep-stale"}

_checkForFileReferences(m) ==
    {Problem("local-file-reference", d.Dep) : d \in {e \in packages[m] : e.Range.Op \in {"file", "link"}}}

_buildInitialReport(m, published) ==
    LET taken == published # None /\ published = version[m]
        sequence == SequenceProblem(version[m], published)
        problems ==
            (IF taken THEN {Problem("version-already-published", NoDep)} ELSE {}) \cup
            (IF sequence = "ok" THEN {} ELSE {Problem(sequence, NoDep)}) \cup
            _checkForFileReferences(m)
    IN  [Module |-> m, LocalVersion |-> version[m], PublishedVersion |-> published,
         Problems |-> problems, Commits |-> 0, Aborted |-> taken,
         OkToPublish |-> \A p \in problems : p.Code \notin Errors]

\* Mutant: a range npm cannot resolve is only warned about.
StaleIsWarning(report, deps, lists) ==
    [report EXCEPT !.Problems = @ \cup
        {Problem("ecosystem-dep-stale", d.Dep) :
            d \in {e \in deps : ~LocalLink(e) /\ ~Covered(e, lists[e.Dep])}}]

_applyEcosystemProblems(report, deps, lists) ==
    LET asked == {d \in deps : ~LocalLink(d)}
        failed == {Problem("npm-view-failed", d.Dep) : d \in {e \in asked : lists[e.Dep] = {}}}
        stale == {Problem("ecosystem-dep-stale", d.Dep) :
                     d \in {e \in asked : lists[e.Dep] # {} /\ ~Covered(e, lists[e.Dep])}}
    IN  [report EXCEPT !.Problems = @ \cup failed \cup stale,
                       !.OkToPublish = @ /\ stale = {}]

(* The commits since the published tag; only counted for a report that is OK. *)
WithCommits(report) ==
    [report EXCEPT !.Commits = IF report.OkToPublish THEN commits[report.Module] ELSE 0]

(* The PreviewHash covers these fields; two reports have the same hash when   *)
(* they agree on them.                                                        *)
PreviewHash(report) ==
    <<report.Module, report.LocalVersion, report.PublishedVersion,
      report.Problems, report.OkToPublish, report.Commits>>

(* validate(): package.json and the published version are read in one turn,   *)
(* which also asks npm for the lists that are not cached ...                  *)
Idle == [pc |-> "idle"]
Unanswered(c) == {n \in DOMAIN check[c].lists : check[c].lists[n] = NotListed}

StartCheck(c, m, ok) ==
    LET published == fetchPublishedVersion(m, ok)
        report == _buildInitialReport(m, published)
        deps == IF report.Aborted THEN {} ELSE EcosystemDeps(m)
    IN  /\ check[c] = Idle
        /\ versionCache' = Remember(versionCache, m, published)
        /\ check' = [check EXCEPT ![c] =
               [pc |-> "fetch", report |-> report, deps |-> deps,
                lists |-> [n \in ToFetch(deps) |-> versionsCache[n]], read |-> packages[m]]]
        /\ UNCHANGED <<fileVars, npmVars, versionsCache>>

(* ... the answers arrive one at a time ...                                   *)
AnswerCheck(c, n, ok) ==
    /\ check[c].pc = "fetch"
    /\ n \in Unanswered(c)
    /\ check' = [check EXCEPT ![c].lists[n] = Served(n, ok)]
    /\ versionsCache' = Remember(versionsCache, n, Served(n, ok))
    /\ UNCHANGED <<fileVars, npmVars, versionCache>>

(* ... and with the last one the report is made.                              *)
Report(c) ==
    WithCommits(_applyEcosystemProblems(check[c].report, check[c].deps, check[c].lists))

Answered(c) == check[c].pc = "fetch" /\ Unanswered(c) = {}

-----------------------------------------------------------------------------
(* The aligner: every range on an ecosystem package of known version becomes  *)
(* ^version, its own on disk by default; links are left alone.                *)
buildVersionMap == version

Caret(v) == RangeOf("^", v)

Aligned(d) ==
    IF /\ d.Section \in {"dependencies", "devDependencies"}
       /\ isEcosystemDependency(d.Dep)
       /\ d.Dep \in DOMAIN buildVersionMap
       /\ d.Range.Op \notin {"file", "link"}
    THEN [d EXCEPT !.Range = Caret(buildVersionMap[d.Dep])]
    ELSE d

align(write) ==
    /\ packages' = IF write
                   THEN [m \in Modules |-> {Aligned(d) : d \in packages[m]}]
                   ELSE packages
    /\ UNCHANGED <<version, commits>>

-----------------------------------------------------------------------------
(* npm.  A publish is refused when the version exists.                        *)
Release(m) == [Package |-> m, Version |-> version[m], Deps |-> packages[m]]

CanRelease(m) == version[m] \notin Published(m)

(* npm view catches up with the registry.                                     *)
Serve(n) ==
    /\ index[n] # Published(n)
    /\ index' = [index EXCEPT ![n] = Published(n)]
    /\ UNCHANGED <<fileVars, released, cacheVars, check>>

(* Sixty seconds pass: the entries of a package are no longer used.           *)
Expire(n) ==
    /\ versionCache[n] # NotCached \/ versionsCache[n] # NotListed
    /\ versionCache' = [versionCache EXCEPT ![n] = NotCached]
    /\ versionsCache' = [versionsCache EXCEPT ![n] = NotListed]
    /\ UNCHANGED <<fileVars, npmVars, check>>

(* Someone edits a package.json by hand.                                      *)
EditByHand(m, d) ==
    /\ packages' = [packages EXCEPT ![m] =
           {e \in @ : <<e.Section, e.Dep>> # <<d.Section, d.Dep>>} \cup {d}]
    /\ packages' # packages
    /\ UNCHANGED <<version, commits, npmVars, cacheVars, check>>

-----------------------------------------------------------------------------
ReportSet ==
    [Module : Modules, LocalVersion : Version, PublishedVersion : Version \cup {None},
     Problems : SUBSET [Code : Errors \cup {"version-downgrade", "version-non-sequential",
                                            "npm-view-failed"},
                        Dep : Names \cup {NoDep}],
     Commits : Nat, Aborted : BOOLEAN, OkToPublish : BOOLEAN]

PackagesTypeOK ==
    /\ packages \in [Modules -> SUBSET Dependency]
    /\ version \in [Modules -> Version]
    /\ commits \in [Modules -> Nat]
    /\ \A r \in released : r.Package \in Names /\ r.Version \in Version /\ r.Deps \subseteq Dependency
    /\ \A n \in Names : index[n] \subseteq Published(n)
    /\ versionCache \in [Names -> Version \cup {None, NotCached}]
    /\ \A n \in Names : versionsCache[n] = NotListed \/ versionsCache[n] \subseteq Version
    /\ \A c \in Checks : check[c] = Idle \/ check[c].report \in ReportSet

(* A range that npm can resolve: some published version is in it.             *)
Resolves(d) == \E v \in Published(d.Dep) : rangeCoversVersion(d.Range, v)

InitPackages ==
    /\ commits = [m \in Modules |-> 1]
    /\ index = [n \in Names |-> Published(n)]
    /\ versionCache = ClearedVersions
    /\ versionsCache = ClearedLists
    /\ check = [c \in Checks |-> Idle]
=============================================================================
