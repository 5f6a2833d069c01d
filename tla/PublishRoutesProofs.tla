------------------------- MODULE PublishRoutesProofs -------------------------
(* What the preview of a publish vouches for: that it is used once, that it   *)
(* shows the version on disk unless that overtook it, and that what it lets   *)
(* through npm can resolve.                                                   *)
EXTENDS PublishRoutes, TLAPS

(* The records the routes pass around; nothing is said of their fields but    *)
(* the names of modules and of dependencies.                                  *)
IsReport(r) ==
    /\ r = [Module |-> r.Module, LocalVersion |-> r.LocalVersion,
            PublishedVersion |-> r.PublishedVersion, Problems |-> r.Problems,
            Commits |-> r.Commits, Aborted |-> r.Aborted, OkToPublish |-> r.OkToPublish]
    /\ r.Module \in Modules

IsCheck(k) ==
    /\ k = [pc |-> "fetch", report |-> k.report, deps |-> k.deps, lists |-> k.lists,
            read |-> k.read]
    /\ k.lists = [n \in DOMAIN k.lists |-> k.lists[n]]
    /\ DOMAIN k.lists \subseteq Names
    /\ IsReport(k.report)

IsDependency(d) ==
    /\ d = [Section |-> d.Section, Dep |-> d.Dep, Range |-> d.Range]
    /\ d.Dep \in Names

FilesShape ==
    /\ packages = [m \in Modules |-> packages[m]]
    /\ version = [m \in Modules |-> version[m]]
    /\ \A m \in Modules : \A d \in packages[m] : IsDependency(d)

CheckShape ==
    /\ check = [c \in Checks |-> check[c]]
    /\ \A c \in Checks : check[c] = Idle \/ IsCheck(check[c])

PreviewShape ==
    /\ preview = [m \in Modules |-> preview[m]]
    /\ \A m \in Modules : preview[m] # NoPreview =>
          /\ preview[m] = Stored(preview[m].Report, preview[m].Read, preview[m].Passed)
          /\ IsReport(preview[m].Report)
          /\ preview[m].Report.Module = m
    /\ seen = [c \in Clients |-> seen[c]]
    /\ \A c \in Clients : seen[c] = NoReport \/ IsReport(seen[c])
    /\ spent \in [Modules -> BOOLEAN]
    /\ op.Kind = "publish" => op.Module \in Modules

NpmShape ==
    /\ index = [n \in Names |-> index[n]]
    /\ versionsCache = [n \in Names |-> versionsCache[n]]

Shape == FilesShape /\ CheckShape /\ PreviewShape /\ NpmShape

(* A preview that is stored was sent since the last publish.                  *)
FreshInv == \A m \in Modules : preview[m] # NoPreview => ~spent[m]

(* Whatever has a version of m has the one on disk, unless it was overtaken;  *)
(* the version route, which overtakes, runs alone and stores nothing itself.  *)
VersionOf(m) ==
    /\ \A c \in Checking(m) \ late : check[c].report.LocalVersion = version[m]
    /\ preview[m] # NoPreview /\ ~preview[m].Passed => preview[m].Report.LocalVersion = version[m]
    /\ op.Kind = "publish" /\ op.Module = m /\ ~op.Passed => op.Report.LocalVersion = version[m]
    /\ op.Kind = "version" /\ op.Module = m =>
          /\ preview[m] # NoPreview => preview[m].Passed
          /\ Checking(m) \subseteq late

VersionInv == \A m \in Modules : VersionOf(m)

(* What npm view served was published, among the releases rel; of what was    *)
(* read, an answer is awaited or known.                                       *)
VersionsIn(rel, n) == {r.Version : r \in {q \in rel : q.Package = n}}
Known(rel, list, n) == list = NotListed \/ list \subseteq VersionsIn(rel, n)

NpmInv ==
    /\ \A n \in Names : index[n] \subseteq VersionsIn(released, n)
    /\ \A n \in Names : Known(released, versionsCache[n], n)

NoLinks(read) == \A d \in read : d.Range.Op \notin {"file", "link"}

Ecosystems(read) == {d \in collectDeps(read) : isEcosystemDependency(d.Dep)}

GatheredInv(rel, k) ==
    /\ \A n \in DOMAIN k.lists : Known(rel, k.lists[n], n)
    /\ k.report.OkToPublish =>
          /\ NoLinks(k.read)
          /\ k.deps = Ecosystems(k.read)
          /\ DOMAIN k.lists = ToFetch(k.deps)

(* What an OK report vouches for.                                             *)
Vouches(rel, report, read) ==
    report.OkToPublish =>
        /\ NoLinks(read)
        /\ Fetched(report) => \A d \in Ecosystems(read) :
              \E v \in VersionsIn(rel, d.Dep) : rangeCoversVersion(d.Range, v)

ResolveInv ==
    /\ NpmInv
    /\ \A c \in Checks : check[c] # Idle => GatheredInv(released, check[c])
    /\ \A m \in Modules : preview[m] # NoPreview => Vouches(released, preview[m].Report, preview[m].Read)
    /\ op.Kind = "publish" => op.Report.OkToPublish /\ Vouches(released, op.Report, op.Read)

RoutesInv == Shape /\ FreshInv /\ VersionInv /\ ResolveInv

-----------------------------------------------------------------------------
(* The validator's reports. *)

LEMMA InitialReport ==
    ASSUME NEW m \in Modules, NEW p, NEW r, r = _buildInitialReport(m, p)
    PROVE  /\ IsReport(r) /\ r.Module = m /\ r.LocalVersion = version[m]
           /\ r.OkToPublish => ~r.Aborted /\ NoLinks(packages[m])
  <1> DEFINE taken == p # None /\ p = version[m]
             sequence == SequenceProblem(version[m], p)
             links == _checkForFileReferences(m)
             problems ==
                (IF taken THEN {Problem("version-already-published", NoDep)} ELSE {}) \cup
                (IF sequence = "ok" THEN {} ELSE {Problem(sequence, NoDep)}) \cup links
  <1>1. r = [Module |-> m, LocalVersion |-> version[m], PublishedVersion |-> p,
             Problems |-> problems, Commits |-> 0, Aborted |-> taken,
             OkToPublish |-> \A q \in problems : q.Code \notin Errors]
    BY DEF _buildInitialReport
  <1> HIDE DEF problems
  <1>2. IsReport(r) /\ r.Module = m /\ r.LocalVersion = version[m]
    BY <1>1 DEF IsReport
  <1>3. r.OkToPublish => \A q \in problems : q.Code \notin Errors
    BY <1>1
  <1> USE DEF problems
  <1>4. taken => Problem("version-already-published", NoDep) \in problems
    OBVIOUS
  <1>5. \A d \in packages[m] : d.Range.Op \in {"file", "link"} =>
            Problem("local-file-reference", d.Dep) \in problems
    BY DEF _checkForFileReferences
  <1> HIDE DEF problems
  <1>6. r.OkToPublish => ~taken
    BY <1>3, <1>4 DEF Problem, Errors
  <1>7. r.OkToPublish => NoLinks(packages[m])
    BY <1>3, <1>5 DEF Problem, Errors, NoLinks
  <1>8. r.Aborted = taken
    <2> HIDE DEF taken
    <2>1. QED
      BY <1>1
  <1>9. QED
    BY <1>2, <1>6, <1>7, <1>8

LEMMA ReportSent ==
    ASSUME NEW c \in Checks, IsCheck(check[c])
    PROVE  /\ IsReport(Report(c))
           /\ Report(c).Module = check[c].report.Module
           /\ Report(c).LocalVersion = check[c].report.LocalVersion
  <1> DEFINE first == _applyEcosystemProblems(check[c].report, check[c].deps, check[c].lists)
  <1>1. IsReport(check[c].report)
    BY DEF IsCheck
  <1>2. \E problems, fine : first = [check[c].report EXCEPT !.Problems = problems, !.OkToPublish = fine]
    BY DEF _applyEcosystemProblems
  <1> HIDE DEF first
  <1>3. /\ IsReport(first)
        /\ first.Module = check[c].report.Module
        /\ first.LocalVersion = check[c].report.LocalVersion
    BY <1>1, <1>2 DEF IsReport
  <1>4. \E count : Report(c) = [first EXCEPT !.Commits = count]
    BY DEF Report, WithCommits, first
  <1>5. QED
    BY <1>3, <1>4 DEF IsReport

\* Every list an answered check has was served, so what it does not complain of
\* npm can resolve.
LEMMA ReportVouches ==
    ASSUME NEW c \in Checks, IsCheck(check[c]), GatheredInv(released, check[c]), Answered(c)
    PROVE  Vouches(released, Report(c), check[c].read)
  <1> DEFINE k == check[c]
             dated == {d \in k.deps : ~LocalLink(d)}
             failed == {Problem("npm-view-failed", d.Dep) : d \in {e \in dated : k.lists[e.Dep] = {}}}
             stale == {Problem("ecosystem-dep-stale", d.Dep) :
                         d \in {e \in dated : k.lists[e.Dep] # {} /\ ~Covered(e, k.lists[e.Dep])}}
             first == _applyEcosystemProblems(k.report, k.deps, k.lists)
  <1>1. IsReport(k.report)
    BY DEF IsCheck
  <1>2. first = [k.report EXCEPT !.Problems = @ \cup failed \cup stale,
                                 !.OkToPublish = @ /\ stale = {}]
    BY DEF _applyEcosystemProblems
  <1> HIDE DEF first, failed, stale
  <1>3. /\ first.Problems = k.report.Problems \cup failed \cup stale
        /\ first.OkToPublish <=> k.report.OkToPublish /\ stale = {}
        /\ IsReport(first)
    BY <1>1, <1>2 DEF IsReport
  <1>4. Report(c).Problems = first.Problems /\ Report(c).OkToPublish = first.OkToPublish
    BY <1>3 DEF Report, WithCommits, IsReport, first
  <1>5. SUFFICES ASSUME Report(c).OkToPublish
                 PROVE  NoLinks(k.read) /\ (Fetched(Report(c)) => \A d \in Ecosystems(k.read) :
                              \E v \in VersionsIn(released, d.Dep) : rangeCoversVersion(d.Range, v))
    BY DEF Vouches
  <1>6. /\ NoLinks(k.read) /\ k.deps = Ecosystems(k.read) /\ DOMAIN k.lists = ToFetch(k.deps)
        /\ stale = {}
    BY <1>3, <1>4, <1>5 DEF GatheredInv
  <1>7. ASSUME Fetched(Report(c)), NEW d \in Ecosystems(k.read)
        PROVE  \E v \in VersionsIn(released, d.Dep) : rangeCoversVersion(d.Range, v)
    <2>1. ~LocalLink(d)
      BY <1>6 DEF NoLinks, LocalLink, Ecosystems, collectDeps
    <2>2. d \in dated /\ d.Dep \in DOMAIN k.lists
      BY <1>6, <2>1 DEF ToFetch
    <2>3. Problem("npm-view-failed", d.Dep).Code = "npm-view-failed"
      BY DEF Problem
    <2>4. Problem("npm-view-failed", d.Dep) \notin failed
      BY <1>3, <1>4, <1>7, <2>3 DEF Fetched
    <2>5. k.lists[d.Dep] # {}
      BY <2>2, <2>4 DEF failed
    <2>6. Covered(d, k.lists[d.Dep])
      BY <1>6, <2>2, <2>5 DEF stale
    <2>7. \E v \in k.lists[d.Dep] : rangeCoversVersion(d.Range, v)
      BY <2>1, <2>6 DEF Covered, pickHighestSatisfyingVersion
    <2>8. k.lists[d.Dep] \subseteq VersionsIn(released, d.Dep)
      BY <2>2 DEF GatheredInv, Known, Answered, Unanswered
    <2>9. QED
      BY <2>7, <2>8
  <1>8. QED
    BY <1>6, <1>7

-----------------------------------------------------------------------------
(* The steps. *)

(* A step that changes at most dependencies and starts neither a bump nor a   *)
(* publish.                                                                   *)
Harmless ==
    /\ UNCHANGED <<version, npmVars, cacheVars, check, preview, seen, spent, late>>
    /\ FilesShape'
    /\ op' = op \/ op'.Kind \notin {"publish", "version"}

LEMMA HarmlessSteps ==
    ASSUME FilesShape, RoutesAssumption
    PROVE  /\ \A kind \in {"command", "run", "commit", "ncu -u"} : \A m \in Modules \cup {0} :
                  Kick(kind, m) => Harmless
           /\ \A write \in BOOLEAN : DepsSync(write) => Harmless
           /\ EndWithoutEffect \/ EndCommit \/ EndNcu => Harmless
           /\ \A e \in Edits :
                  EditByHand(e[1], e[2]) /\ UNCHANGED <<preview, seen, op, spent, late>> => Harmless
           /\ UNCHANGED vars => Harmless
  <1> USE DEF Harmless, FilesShape, packageVars, fileVars, npmVars, cacheVars
  <1>1. ASSUME NEW kind \in {"command", "run", "commit", "ncu -u"}, NEW m \in Modules \cup {0}, Kick(kind, m)
        PROVE  Harmless
    BY <1>1 DEF Kick
  <1>2. ASSUME NEW write \in BOOLEAN, DepsSync(write) PROVE Harmless
    <2>1. ASSUME NEW d, IsDependency(d) PROVE IsDependency(Aligned(d))
      BY <2>1 DEF IsDependency, Aligned
    <2>2. \A m \in Modules : \A d \in packages'[m] : IsDependency(d)
      BY <1>2, <2>1 DEF DepsSync, align
    <2>3. packages' = [m \in Modules |-> packages'[m]]
      BY <1>2 DEF DepsSync, align
    <2>4. QED
      BY <1>2, <2>2, <2>3 DEF DepsSync, align
  <1>3. EndWithoutEffect => Harmless
    BY DEF EndWithoutEffect, Ends, Finishes, NoOp
  <1>4. EndCommit => Harmless
    BY DEF EndCommit, Ends, Finishes, NoOp
  <1>5. ASSUME EndNcu PROVE Harmless
    <2> DEFINE raised(d) ==
          IF d.Range.Op \in {"^", "~", ""} THEN [d EXCEPT !.Range.Base = Highest(index[d.Dep])] ELSE d
    <2>1. ASSUME NEW d, IsDependency(d) PROVE IsDependency(raised(d))
      BY <2>1 DEF IsDependency
    <2>2. packages' = [packages EXCEPT ![op.Module] = {raised(d) : d \in @}]
      BY <1>5 DEF EndNcu
    <2> HIDE DEF raised
    <2>3. \A m \in Modules : \A d \in packages'[m] : IsDependency(d)
      BY <2>1, <2>2
    <2>4. packages' = [m \in Modules |-> packages'[m]]
      BY <2>2
    <2>5. QED
      BY <1>5, <2>3, <2>4 DEF EndNcu, Ends, Finishes, NoOp
  <1>6. ASSUME NEW e \in Edits, EditByHand(e[1], e[2]),
               UNCHANGED <<preview, seen, op, spent, late>>
        PROVE  Harmless
    <2>1. e[2] \in Dependency
      BY DEF RoutesAssumption
    <2>2. IsDependency(e[2])
      BY <2>1 DEF Dependency, IsDependency
    <2>3. \A m \in Modules : \A d \in packages'[m] : IsDependency(d)
      BY <1>6, <2>2 DEF EditByHand
    <2>4. packages' = [m \in Modules |-> packages'[m]]
      BY <1>6 DEF EditByHand
    <2>5. QED
      BY <1>6, <2>3, <2>4 DEF EditByHand
  <1>7. UNCHANGED vars => Harmless
    BY DEF vars, routeVars
  <1>8. QED
    BY <1>1, <1>2, <1>3, <1>4, <1>5, <1>6, <1>7

LEMMA StepCases ==
    ASSUME FilesShape, RoutesAssumption, [Next]_vars
    PROVE  \/ Harmless
           \/ \E c \in Clients, m \in Opened, ok \in BOOLEAN : GetPreview(c, m, ok)
           \/ \E c \in Clients, n \in Names, ok \in BOOLEAN : AnswerPreview(c, n, ok)
           \/ \E c \in Clients : SendPreview(c)
           \/ \E m \in Opened : ExpirePreview(m)
           \/ \E m \in Opened : PostVersion(m)
           \/ \E c \in Clients : PostPublish(c)
           \/ EndVersion
           \/ EndRun
           \/ EndPublish
           \/ \E n \in Names : (Serve(n) \/ Expire(n)) /\ UNCHANGED <<preview, seen, op, spent, late>>
  <1>1. CASE Previews
    BY <1>1 DEF Previews
  <1>2. CASE Validating
    BY <1>2 DEF Validating
  <1>3. CASE Posts
    <2>1. Opened \subseteq Modules
      BY DEF RoutesAssumption
    <2>2. QED
      BY <1>3, <2>1, HarmlessSteps
         DEF Posts, PostRun, PostDiff, PostGitAdd, PostCommit, PostNcu, PostNpmCache
  <1>4. CASE Ending
    BY <1>4, HarmlessSteps DEF Ending
  <1>5. CASE Others
    <2>1. CASE \E e \in Edits : EditByHand(e[1], e[2])
      <3>1. PICK e \in Edits : EditByHand(e[1], e[2])
        BY <2>1
      <3>2. QED
        BY <1>5, <3>1, HarmlessSteps DEF Others
    <2>2. QED
      BY <1>5, <2>1 DEF Others
  <1>6. CASE UNCHANGED vars
    BY <1>6, HarmlessSteps
  <1>7. QED
    BY <1>1, <1>2, <1>3, <1>4, <1>5, <1>6 DEF Next

-----------------------------------------------------------------------------
(* What the steps keep. *)

LEMMA Started ==
    ASSUME FilesShape, CheckShape, RoutesAssumption,
           NEW c \in Clients, NEW m \in Modules, NEW ok, StartCheck(c, m, ok)
    PROVE  /\ c \in Checks
           /\ \A b \in Checks \ {c} : check'[b] = check[b]
           /\ IsCheck(check'[c])
           /\ check'[c].report.Module = m
           /\ check'[c].report.LocalVersion = version[m]
           /\ check' = [b \in Checks |-> check'[b]]
           /\ UNCHANGED <<fileVars, npmVars, versionsCache>>
           /\ NpmInv => GatheredInv(released, check'[c])
  <1> DEFINE published == fetchPublishedVersion(m, ok)
             report == _buildInitialReport(m, published)
             deps == IF report.Aborted THEN {} ELSE EcosystemDeps(m)
             lists == [n \in ToFetch(deps) |-> versionsCache[n]]
             k == [pc |-> "fetch", report |-> report, deps |-> deps, lists |-> lists,
                   read |-> packages[m]]
  <1>1. /\ check' = [check EXCEPT ![c] = k]
        /\ UNCHANGED <<fileVars, npmVars, versionsCache>>
    BY DEF StartCheck
  <1>2. IsReport(report) /\ report.Module = m /\ report.LocalVersion = version[m]
    BY InitialReport
  <1>3. report.OkToPublish => ~report.Aborted /\ NoLinks(packages[m])
    BY InitialReport
  <1>4. c \in Checks
    BY DEF RoutesAssumption
  <1> HIDE DEF report, published
  <1>5. ToFetch(deps) \subseteq Names
    BY DEF ToFetch, EcosystemDeps, collectDeps, FilesShape, IsDependency
  <1>6. report.OkToPublish => deps = Ecosystems(packages[m])
    BY <1>3 DEF EcosystemDeps, Ecosystems
  <1> HIDE DEF deps
  <1>7. IsCheck(k)
    BY <1>2, <1>5 DEF IsCheck
  <1>8. NpmInv => GatheredInv(released, k)
    BY <1>3, <1>5, <1>6 DEF NpmInv, GatheredInv
  <1>9. check'[c] = k /\ \A b \in Checks \ {c} : check'[b] = check[b]
    <2> HIDE DEF k
    <2>1. QED
      BY <1>1, <1>4 DEF CheckShape
  <1>10. check' = [b \in Checks |-> check'[b]]
    BY <1>1, <1>4 DEF CheckShape
  <1>11. QED
    BY <1>1, <1>2, <1>4, <1>7, <1>8, <1>9, <1>10

LEMMA GotAnswer ==
    ASSUME CheckShape, NpmShape, RoutesAssumption, NEW c \in Clients, NEW n \in Names, NEW ok,
           AnswerCheck(c, n, ok)
    PROVE  /\ c \in Checks
           /\ \A b \in Checks \ {c} : check'[b] = check[b]
           /\ check[c] # Idle /\ IsCheck(check[c])
           /\ IsCheck(check'[c])
           /\ check'[c].report = check[c].report
           /\ check' = [b \in Checks |-> check'[b]]
           /\ versionsCache' = [versionsCache EXCEPT ![n] = Served(n, ok)]
           /\ UNCHANGED <<fileVars, npmVars, versionCache>>
           /\ NpmInv /\ GatheredInv(released, check[c]) => GatheredInv(released, check'[c])
  <1> DEFINE answer == Served(n, ok)
             k == [check[c] EXCEPT !.lists = [check[c].lists EXCEPT ![n] = answer]]
  <1>1. c \in Checks
    BY DEF RoutesAssumption
  <1>2. check[c] # Idle /\ IsCheck(check[c])
    BY <1>1 DEF AnswerCheck, CheckShape, Idle
  <1>3. check' = [check EXCEPT ![c] = k]
    BY DEF AnswerCheck
  <1>4. NpmInv => Known(released, answer, n)
    BY DEF Served, NpmInv, Known
  <1> HIDE DEF answer
  <1>5. /\ IsCheck(k) /\ k.report = check[c].report /\ k.deps = check[c].deps
        /\ k.read = check[c].read
        /\ k.lists = [check[c].lists EXCEPT ![n] = answer]
    BY <1>2 DEF IsCheck
  <1> HIDE DEF k
  <1>6. check'[c] = k /\ \A b \in Checks \ {c} : check'[b] = check[b]
    BY <1>1, <1>3 DEF CheckShape
  <1>7. check' = [b \in Checks |-> check'[b]]
    BY <1>1, <1>3 DEF CheckShape
  <1>8. ASSUME NpmInv, GatheredInv(released, check[c]) PROVE GatheredInv(released, k)
    <2>1. DOMAIN k.lists = DOMAIN check[c].lists
      BY <1>2, <1>5 DEF IsCheck
    <2>2. \A o \in DOMAIN k.lists : k.lists[o] = IF o = n THEN answer ELSE check[c].lists[o]
      BY <1>2, <1>5 DEF IsCheck
    <2>3. QED
      BY <1>4, <1>5, <1>8, <2>1, <2>2 DEF GatheredInv
  <1>9. QED
    BY <1>1, <1>2, <1>3, <1>5, <1>6, <1>7, <1>8 DEF AnswerCheck, Remember, answer, k

LEMMA Sent ==
    ASSUME CheckShape, PreviewShape, RoutesAssumption, NEW c \in Clients, SendPreview(c),
           NEW m, m = check[c].report.Module
    PROVE  /\ c \in Checks
           /\ m \in Modules
           /\ check[c] # Idle /\ IsCheck(check[c])
           /\ IsReport(Report(c)) /\ Report(c).Module = m
           /\ Report(c).LocalVersion = check[c].report.LocalVersion
           /\ check' = [check EXCEPT ![c] = Idle]
           /\ preview' = [preview EXCEPT ![m] = Stored(Report(c), check[c].read, c \in late)]
           /\ seen' = [seen EXCEPT ![c] = Report(c)]
           /\ spent' = [spent EXCEPT ![m] = FALSE]
           /\ UNCHANGED <<fileVars, npmVars, cacheVars, op, late>>
           /\ GatheredInv(released, check[c]) => Vouches(released, Report(c), check[c].read)
  <1>1. c \in Checks
    BY DEF RoutesAssumption
  <1>2. check[c] # Idle /\ IsCheck(check[c])
    BY <1>1 DEF SendPreview, Answered, CheckShape, Idle
  <1>3. IsReport(check[c].report)
    BY <1>2 DEF IsCheck
  <1>4. m \in Modules
    BY <1>3 DEF IsReport
  <1>5. Answered(c)
    BY DEF SendPreview
  <1>6. IsReport(Report(c)) /\ Report(c).Module = m /\ Report(c).LocalVersion = check[c].report.LocalVersion
    BY <1>1, <1>2, ReportSent
  <1>7. GatheredInv(released, check[c]) => Vouches(released, Report(c), check[c].read)
    BY <1>1, <1>2, <1>5, ReportVouches
  <1>8. QED
    BY <1>1, <1>2, <1>4, <1>6, <1>7 DEF SendPreview

LEMMA PublishPosted ==
    ASSUME PreviewShape, NEW c \in Clients, PostPublish(c), NEW m, m = seen[c].Module
    PROVE  /\ m \in Modules
           /\ preview[m] # NoPreview /\ preview[m].Report.OkToPublish
           /\ preview' = [preview EXCEPT ![m] = NoPreview]
           /\ op' = [Kind |-> "publish", Module |-> m,
                     Report |-> preview[m].Report, Read |-> preview[m].Read, Passed |-> preview[m].Passed]
           /\ spent' = [spent EXCEPT ![m] = TRUE]
           /\ UNCHANGED <<packageVars, seen, late>>
  <1>1. IsReport(seen[c])
    BY DEF PostPublish, PreviewShape
  <1>2. m \in Modules
    BY <1>1 DEF IsReport
  <1>3. QED
    BY <1>2 DEF PostPublish, Drop

\* A pull keeps what a preview shows, and says of the one stored that a version
\* has overtaken it.
LEMMA Pulled ==
    ASSUME FilesShape, PreviewShape, RoutesAssumption, EndRun, NEW m, m = op.Module
    PROVE  /\ op' = NoOp
           /\ UNCHANGED <<npmVars, cacheVars, check, seen, spent>>
           /\ FilesShape'
           /\ PreviewShape'
           /\ late \subseteq late'
           /\ \A x \in Modules :
                 /\ preview[x] = NoPreview <=> preview'[x] = NoPreview
                 /\ preview[x] # NoPreview =>
                       /\ preview'[x].Report = preview[x].Report
                       /\ preview'[x].Read = preview[x].Read
                 /\ x = m /\ version'[x] # version[x] =>
                       /\ Checking(x) \subseteq late'
                       /\ preview'[x] # NoPreview => preview'[x].Passed
                 /\ x # m \/ version'[x] = version[x] =>
                       preview'[x] = preview[x] /\ version'[x] = version[x]
  <1>1. /\ op' = NoOp
        /\ UNCHANGED <<npmVars, cacheVars, check, seen, spent>>
    BY DEF EndRun, Finishes
  <1>2. PICK p \in Pulls : /\ p.Package = m
                           /\ packages' = [packages EXCEPT ![m] = p.Deps]
                           /\ version' = [version EXCEPT ![m] = p.Version]
    BY DEF EndRun
  <1>3. p \in [Package : Modules, Version : Version, Deps : SUBSET Dependency]
    BY DEF RoutesAssumption
  <1>4. m \in Modules /\ p.Deps \subseteq Dependency
    BY <1>2, <1>3
  <1>5. \A d \in p.Deps : IsDependency(d)
    BY <1>4 DEF Dependency, IsDependency
  <1>6. FilesShape'
    BY <1>2, <1>4, <1>5 DEF FilesShape
  <1>7. \A x \in Modules \ {m} : version'[x] = version[x]
    BY <1>2 DEF FilesShape
  <1>8. CASE version' = version
    <2>1. UNCHANGED <<preview, late>>
      BY <1>8 DEF EndRun
    <2>2. QED
      BY <1>1, <1>6, <1>8, <2>1 DEF PreviewShape, NoOp
  <1>9. CASE version' # version
    <2> DEFINE now == IF preview[m] = NoPreview THEN NoPreview
                      ELSE Stored(preview[m].Report, preview[m].Read, TRUE)
    <2>1. /\ preview' = [preview EXCEPT ![m] = now]
          /\ late' = late \cup Checking(m)
      BY <1>9 DEF EndRun
    <2>2. preview[m] # NoPreview =>
            /\ now.Report = preview[m].Report /\ now.Read = preview[m].Read /\ now.Passed
            /\ now = Stored(now.Report, now.Read, now.Passed)
            /\ now # NoPreview
      BY DEF Stored, NoPreview
    <2>3. preview[m] = NoPreview => now = NoPreview
      OBVIOUS
    <2> HIDE DEF now
    <2>4. \A x \in Modules : preview'[x] = IF x = m THEN now ELSE preview[x]
      BY <1>4, <2>1 DEF PreviewShape
    <2>5. PreviewShape'
      <3>1. \A x \in Modules : preview'[x] # NoPreview =>
              /\ preview'[x] = Stored(preview'[x].Report, preview'[x].Read, preview'[x].Passed)
              /\ IsReport(preview'[x].Report)
              /\ preview'[x].Report.Module = x
        BY <1>4, <2>2, <2>3, <2>4 DEF PreviewShape
      <3>2. preview' = [x \in Modules |-> preview'[x]]
        BY <2>1 DEF PreviewShape
      <3>3. QED
        BY <1>1, <3>1, <3>2 DEF PreviewShape, NoOp
    <2>6. version[m] # version'[m]
      <3>1. version = [x \in Modules |-> version[x]] /\ version' = [x \in Modules |-> version'[x]]
        BY <1>6 DEF FilesShape
      <3>2. QED
        BY <1>7, <1>9, <3>1
    <2>7. QED
      BY <1>1, <1>6, <1>7, <2>1, <2>2, <2>3, <2>4, <2>5, <2>6
  <1>10. QED
    BY <1>8, <1>9

LEMMA ShapeStep ==
    ASSUME Shape, RoutesAssumption, [Next]_vars
    PROVE  Shape'
  <1> USE DEF Shape, packageVars, fileVars, npmVars, cacheVars
  <1>1. CASE Harmless
    BY <1>1 DEF Harmless, CheckShape, PreviewShape, NpmShape
  <1>2. ASSUME NEW c \in Clients, NEW m \in Opened, NEW ok \in BOOLEAN, GetPreview(c, m, ok)
        PROVE  Shape'
    <2>1. m \in Modules
      BY DEF RoutesAssumption
    <2>2. StartCheck(c, m, ok) /\ UNCHANGED <<preview, seen, op, spent>>
      BY <1>2 DEF GetPreview
    <2>3. CheckShape' /\ UNCHANGED <<fileVars, npmVars, versionsCache>>
      BY <2>1, <2>2, Started DEF CheckShape
    <2>4. QED
      BY <2>2, <2>3 DEF FilesShape, PreviewShape, NpmShape
  <1>3. ASSUME NEW c \in Clients, NEW n \in Names, NEW ok \in BOOLEAN, AnswerPreview(c, n, ok)
        PROVE  Shape'
    <2>1. AnswerCheck(c, n, ok) /\ UNCHANGED <<preview, seen, op, spent>>
      BY <1>3 DEF AnswerPreview, routeVars
    <2>2. /\ \A b \in Checks \ {c} : check'[b] = check[b]
          /\ IsCheck(check'[c])
          /\ check' = [b \in Checks |-> check'[b]]
          /\ versionsCache' = [versionsCache EXCEPT ![n] = Served(n, ok)]
          /\ UNCHANGED <<fileVars, npmVars>>
      BY <2>1, GotAnswer
    <2>3. NpmShape'
      BY <2>2 DEF NpmShape
    <2>4. CheckShape'
      BY <2>2 DEF CheckShape
    <2>5. QED
      BY <2>1, <2>2, <2>3, <2>4 DEF FilesShape, PreviewShape
  <1>4. ASSUME NEW c \in Clients, SendPreview(c) PROVE Shape'
    <2> DEFINE m == check[c].report.Module
               report == Report(c)
               read == check[c].read
               stored == Stored(report, read, c \in late)
    <2>1. /\ c \in Checks /\ m \in Modules /\ IsReport(report) /\ report.Module = m
          /\ check' = [check EXCEPT ![c] = Idle]
          /\ preview' = [preview EXCEPT ![m] = stored]
          /\ seen' = [seen EXCEPT ![c] = report]
          /\ spent' = [spent EXCEPT ![m] = FALSE]
          /\ UNCHANGED <<fileVars, npmVars, cacheVars, op>>
      BY <1>4, Sent
    <2>2. stored = Stored(stored.Report, stored.Read, stored.Passed) /\ stored.Report = report
      BY DEF Stored
    <2> HIDE DEF report, read, stored, m
    <2>3. CheckShape'
      BY <2>1 DEF CheckShape
    <2>4. PreviewShape'
      BY <2>1, <2>2 DEF PreviewShape
    <2>5. QED
      BY <2>1, <2>3, <2>4 DEF FilesShape, NpmShape
  <1>5. ASSUME NEW m \in Opened, ExpirePreview(m) \/ PostVersion(m) PROVE Shape'
    BY <1>5 DEF ExpirePreview, PostVersion, Drop, FilesShape, CheckShape, PreviewShape, NpmShape
  <1>6. ASSUME NEW c \in Clients, PostPublish(c) PROVE Shape'
    <2>1. /\ seen[c].Module \in Modules
          /\ preview' = [preview EXCEPT ![seen[c].Module] = NoPreview]
          /\ spent' = [spent EXCEPT ![seen[c].Module] = TRUE]
          /\ op'.Module = seen[c].Module
          /\ UNCHANGED <<packageVars, seen>>
      BY <1>6, PublishPosted
    <2>2. QED
      BY <2>1 DEF FilesShape, CheckShape, PreviewShape, NpmShape
  <1>7. CASE EndVersion
    BY <1>7 DEF EndVersion, Ends, Finishes, NoOp, FilesShape, CheckShape, PreviewShape, NpmShape
  <1>8. CASE EndPublish
    BY <1>8 DEF EndPublish, Ends, Finishes, NoOp, FilesShape, CheckShape, PreviewShape, NpmShape
  <1>9. ASSUME NEW n \in Names, Serve(n) \/ Expire(n), UNCHANGED <<preview, seen, op, spent, late>>
        PROVE  Shape'
    BY <1>9 DEF Serve, Expire, FilesShape, CheckShape, PreviewShape, NpmShape
  <1>10. CASE EndRun
    BY <1>10, Pulled DEF CheckShape, NpmShape
  <1>11. QED
    BY <1>1, <1>2, <1>3, <1>4, <1>5, <1>6, <1>7, <1>8, <1>9, <1>10, StepCases

LEMMA FreshStep ==
    ASSUME Shape, FreshInv, RoutesAssumption, [Next]_vars
    PROVE  FreshInv'
  <1> USE DEF Shape, FreshInv
  <1>1. CASE UNCHANGED <<preview, spent>>
    BY <1>1
  <1>2. ASSUME NEW c \in Clients, SendPreview(c) PROVE FreshInv'
    <2>1. /\ check[c].report.Module \in Modules
          /\ preview' = [preview EXCEPT ![check[c].report.Module] =
                             Stored(Report(c), check[c].read, c \in late)]
          /\ spent' = [spent EXCEPT ![check[c].report.Module] = FALSE]
      BY <1>2, Sent
    <2>2. QED
      BY <2>1 DEF PreviewShape
  <1>3. ASSUME NEW m \in Opened, ExpirePreview(m) \/ PostVersion(m) PROVE FreshInv'
    BY <1>3 DEF ExpirePreview, PostVersion, Drop, PreviewShape
  <1>4. ASSUME NEW c \in Clients, PostPublish(c) PROVE FreshInv'
    <2>1. /\ seen[c].Module \in Modules
          /\ preview' = [preview EXCEPT ![seen[c].Module] = NoPreview]
          /\ spent' = [spent EXCEPT ![seen[c].Module] = TRUE]
      BY <1>4, PublishPosted
    <2>2. QED
      BY <2>1 DEF PreviewShape
  <1>5. CASE EndRun
    BY <1>5, Pulled
  <1>6. QED
    BY <1>1, <1>2, <1>3, <1>4, <1>5, StepCases
       DEF Harmless, GetPreview, AnswerPreview, routeVars, EndVersion, EndPublish, Ends, Finishes

LEMMA VersionStep ==
    ASSUME Shape, VersionInv, RoutesAssumption, [Next]_vars
    PROVE  VersionInv'
  <1> USE DEF Shape, VersionInv, packageVars, fileVars, npmVars, cacheVars
  <1>1. ASSUME UNCHANGED <<version, check, preview, late>>,
               op' = op \/ op'.Kind \notin {"publish", "version"}
        PROVE  VersionInv'
    BY <1>1 DEF VersionOf, Checking
  <1>2. ASSUME NEW c \in Clients, NEW m \in Opened, NEW ok \in BOOLEAN, GetPreview(c, m, ok)
        PROVE  VersionInv'
    <2>1. m \in Modules
      BY DEF RoutesAssumption
    <2>2. StartCheck(c, m, ok)
      BY <1>2 DEF GetPreview
    <2>3. /\ \A b \in Checks \ {c} : check'[b] = check[b]
          /\ check'[c].report.Module = m
          /\ check'[c].report.LocalVersion = version[m]
          /\ UNCHANGED version
      BY <2>1, <2>2, Started
    <2>4. /\ UNCHANGED <<preview, op>>
          /\ late \ {c} \subseteq late' /\ late' \subseteq late \cup {c}
          /\ op.Kind = "version" /\ op.Module = m => c \in late'
      BY <1>2 DEF GetPreview
    <2>5. QED
      BY <2>3, <2>4 DEF VersionOf, Checking
  <1>3. ASSUME NEW c \in Clients, NEW n \in Names, NEW ok \in BOOLEAN, AnswerPreview(c, n, ok)
        PROVE  VersionInv'
    <2>1. AnswerCheck(c, n, ok) /\ UNCHANGED <<preview, op, late>>
      BY <1>3 DEF AnswerPreview, routeVars
    <2>2. /\ \A b \in Checks \ {c} : check'[b] = check[b]
          /\ c \in Checks /\ check[c] # Idle
          /\ check'[c].report = check[c].report
          /\ UNCHANGED version
      BY <2>1, GotAnswer
    <2>3. QED
      BY <2>1, <2>2 DEF VersionOf, Checking
  <1>4. ASSUME NEW c \in Clients, SendPreview(c) PROVE VersionInv'
    <2> DEFINE m == check[c].report.Module
               report == Report(c)
               stored == Stored(report, check[c].read, c \in late)
    <2>1. /\ c \in Checks /\ m \in Modules /\ check[c] # Idle
          /\ report.LocalVersion = check[c].report.LocalVersion
          /\ check' = [check EXCEPT ![c] = Idle]
          /\ preview' = [preview EXCEPT ![m] = stored]
          /\ UNCHANGED <<version, op, late>>
      BY <1>4, Sent
    <2>2. stored.Report = report /\ (stored.Passed <=> c \in late)
      BY DEF Stored
    <2> HIDE DEF report, stored
    <2>3. \A b \in Checks : check'[b] = Idle \/ check'[b] = check[b]
      BY <2>1 DEF CheckShape
    <2>4. \A x \in Modules : preview'[x] = IF x = m THEN stored ELSE preview[x]
      BY <2>1 DEF PreviewShape
    <2>5. \A x \in Modules : Checking(x)' \subseteq Checking(x)
      BY <2>3 DEF Checking
    <2>6. c \in Checking(m) /\ VersionOf(m)
      BY <2>1 DEF Checking
    <2>7. ~stored.Passed => report.LocalVersion = version[m]
      BY <2>1, <2>2, <2>6 DEF VersionOf
    <2>8. op.Kind = "version" /\ op.Module = m => stored.Passed
      BY <2>2, <2>6 DEF VersionOf
    <2>9. SUFFICES ASSUME NEW x \in Modules PROVE VersionOf(x)'
      OBVIOUS
    <2>10. VersionOf(x) /\ UNCHANGED <<version, op, late>>
      BY <2>1
    <2>11. \A b \in Checking(x)' : check'[b] = check[b]
      BY <2>3 DEF Checking
    <2>12. QED
      BY <2>2, <2>4, <2>5, <2>7, <2>8, <2>10, <2>11 DEF VersionOf
  <1>5. ASSUME NEW m \in Opened, ExpirePreview(m) PROVE VersionInv'
    <2>1. UNCHANGED <<version, check, op, late>>
      BY <1>5 DEF ExpirePreview
    <2>2. \A x \in Modules : preview'[x] = IF x = m THEN NoPreview ELSE preview[x]
      BY <1>5 DEF ExpirePreview, PreviewShape
    <2>3. QED
      BY <2>1, <2>2 DEF VersionOf, Checking
  <1>6. ASSUME NEW m \in Opened, PostVersion(m) PROVE VersionInv'
    <2>1. /\ UNCHANGED <<version, check>>
          /\ op'.Kind = "version" /\ op'.Module = m
          /\ late' = late \cup Checking(m)
      BY <1>6 DEF PostVersion
    <2>2. \A x \in Modules : preview'[x] = IF x = m THEN NoPreview ELSE preview[x]
      BY <1>6 DEF PostVersion, Drop, PreviewShape
    <2>3. QED
      BY <2>1, <2>2 DEF VersionOf, Checking
  <1>7. ASSUME NEW c \in Clients, PostPublish(c) PROVE VersionInv'
    <2> DEFINE m == seen[c].Module
    <2>1. /\ m \in Modules /\ preview[m] # NoPreview
          /\ preview' = [preview EXCEPT ![m] = NoPreview]
          /\ op' = [Kind |-> "publish", Module |-> m,
                    Report |-> preview[m].Report, Read |-> preview[m].Read, Passed |-> preview[m].Passed]
          /\ UNCHANGED <<version, check, late>>
      BY <1>7, PublishPosted
    <2>2. /\ op'.Kind = "publish" /\ op'.Module = m /\ op'.Report = preview[m].Report
          /\ \A x \in Modules : preview'[x] = IF x = m THEN NoPreview ELSE preview[x]
      BY <2>1 DEF PreviewShape
    <2>3. QED
      BY <2>1, <2>2 DEF VersionOf, Checking
  <1>8. CASE EndVersion
    <2>1. /\ UNCHANGED <<check, preview, late>>
          /\ op.Kind = "version" /\ op'.Kind = "none"
          /\ \A x \in Modules \ {op.Module} : version'[x] = version[x]
      BY <1>8 DEF EndVersion, Ends, Finishes, NoOp, FilesShape
    <2>2. QED
      BY <2>1 DEF VersionOf, Checking
  <1>9. EndPublish => VersionInv'
    BY <1>1 DEF EndPublish, Ends, Finishes, NoOp
  <1>10. ASSUME NEW n \in Names, Serve(n) \/ Expire(n), UNCHANGED <<preview, seen, op, spent, late>>
         PROVE  VersionInv'
    BY <1>1, <1>10 DEF Serve, Expire
  <1>11. CASE EndRun
    <2>1. SUFFICES ASSUME NEW x \in Modules PROVE VersionOf(x)'
      OBVIOUS
    <2>2. VersionOf(x)
      OBVIOUS
    <2>3. /\ op'.Kind = "none" /\ check' = check /\ late \subseteq late'
          /\ Checking(x)' = Checking(x)
      BY <1>11, Pulled DEF NoOp, Checking
    <2>4. CASE version'[x] = version[x]
      <3>1. preview'[x] = preview[x]
        BY <1>11, <2>4, Pulled
      <3>2. QED
        BY <2>2, <2>3, <2>4, <3>1 DEF VersionOf
    <2>5. CASE version'[x] # version[x]
      <3>1. Checking(x) \subseteq late' /\ (preview'[x] # NoPreview => preview'[x].Passed)
        BY <1>11, <2>5, Pulled
      <3>2. QED
        BY <2>3, <3>1 DEF VersionOf
    <2>6. QED
      BY <2>4, <2>5
  <1>12. QED
    BY <1>1, <1>2, <1>3, <1>4, <1>5, <1>6, <1>7, <1>8, <1>9, <1>10, <1>11, StepCases DEF Harmless

\* npm keeps what it has.
LEMMA StillVouched ==
    ASSUME NEW old, NEW new, old \subseteq new
    PROVE  /\ \A n : VersionsIn(old, n) \subseteq VersionsIn(new, n)
           /\ \A report, read : Vouches(old, report, read) => Vouches(new, report, read)
           /\ \A k : GatheredInv(old, k) => GatheredInv(new, k)
           /\ \A list, n : Known(old, list, n) => Known(new, list, n)
  <1>1. \A n : VersionsIn(old, n) \subseteq VersionsIn(new, n)
    BY DEF VersionsIn
  <1>2. \A report, read : Vouches(old, report, read) => Vouches(new, report, read)
    BY <1>1 DEF Vouches
  <1>3. \A list, n : Known(old, list, n) => Known(new, list, n)
    BY <1>1 DEF Known
  <1>4. \A k : GatheredInv(old, k) => GatheredInv(new, k)
    BY <1>3 DEF GatheredInv
  <1>5. QED
    BY <1>1, <1>2, <1>3, <1>4

\* Nothing of a step changes a list, a check, a preview or the publish that runs.
LEMMA OnlyReleases ==
    ASSUME ResolveInv, released \subseteq released',
           UNCHANGED <<index, versionsCache, check, preview>>,
           op' = op \/ op'.Kind # "publish"
    PROVE  ResolveInv'
  <1>1. NpmInv'
    BY StillVouched DEF ResolveInv, NpmInv, Known
  <1>2. \A c \in Checks : check'[c] # Idle => GatheredInv(released', check'[c])
    BY StillVouched DEF ResolveInv
  <1>3. \A m \in Modules : preview'[m] # NoPreview => Vouches(released', preview'[m].Report, preview'[m].Read)
    BY StillVouched DEF ResolveInv
  <1>4. op'.Kind = "publish" => op'.Report.OkToPublish /\ Vouches(released', op'.Report, op'.Read)
    BY StillVouched DEF ResolveInv
  <1>5. QED
    BY <1>1, <1>2, <1>3, <1>4 DEF ResolveInv

LEMMA ResolveStep ==
    ASSUME Shape, ResolveInv, RoutesAssumption, [Next]_vars
    PROVE  ResolveInv'
  <1> USE DEF Shape, packageVars, fileVars, npmVars, cacheVars
  <1>1. CASE Harmless
    BY <1>1, OnlyReleases DEF Harmless
  <1>2. ASSUME NEW c \in Clients, NEW m \in Opened, NEW ok \in BOOLEAN, GetPreview(c, m, ok)
        PROVE  ResolveInv'
    <2>1. m \in Modules
      BY DEF RoutesAssumption
    <2>2. StartCheck(c, m, ok) /\ UNCHANGED <<preview, op>>
      BY <1>2 DEF GetPreview
    <2>3. /\ \A b \in Checks \ {c} : check'[b] = check[b]
          /\ UNCHANGED <<released, index, versionsCache>>
          /\ GatheredInv(released, check'[c])
      BY <2>1, <2>2, Started DEF ResolveInv
    <2>4. NpmInv' /\ \A k : GatheredInv(released, k) => GatheredInv(released', k)
      BY <2>3, StillVouched DEF ResolveInv, NpmInv, Known
    <2>5. \A b \in Checks : check'[b] # Idle => GatheredInv(released', check'[b])
      BY <2>3, <2>4 DEF ResolveInv
    <2>6. /\ \A x \in Modules : preview'[x] # NoPreview => Vouches(released', preview'[x].Report, preview'[x].Read)
          /\ op'.Kind = "publish" => op'.Report.OkToPublish /\ Vouches(released', op'.Report, op'.Read)
      BY <2>2, <2>3, StillVouched DEF ResolveInv
    <2>7. QED
      BY <2>4, <2>5, <2>6 DEF ResolveInv
  <1>3. ASSUME NEW c \in Clients, NEW n \in Names, NEW ok \in BOOLEAN, AnswerPreview(c, n, ok)
        PROVE  ResolveInv'
    <2> DEFINE answer == Served(n, ok)
    <2>1. AnswerCheck(c, n, ok) /\ UNCHANGED <<preview, op>>
      BY <1>3 DEF AnswerPreview, routeVars
    <2>2. /\ \A b \in Checks \ {c} : check'[b] = check[b]
          /\ c \in Checks /\ check[c] # Idle
          /\ UNCHANGED <<released, index>>
          /\ versionsCache' = [versionsCache EXCEPT ![n] = answer]
      BY <2>1, GotAnswer
    <2>3. GatheredInv(released, check'[c])
      BY <2>1, <2>2, GotAnswer DEF ResolveInv
    <2>4. Known(released, answer, n) /\ \A o \in Names : Known(released, versionsCache[o], o)
      BY DEF Served, ResolveInv, NpmInv, Known
    <2> HIDE DEF answer
    <2>5. \A o \in Names : versionsCache'[o] = IF o = n THEN answer ELSE versionsCache[o]
      BY <2>2 DEF NpmShape
    <2>6. \A o \in Names : VersionsIn(released', o) = VersionsIn(released, o)
      BY <2>2 DEF VersionsIn
    <2>7. NpmInv'
      BY <2>2, <2>4, <2>5, <2>6 DEF ResolveInv, NpmInv, Known
    <2>8. \A b \in Checks : check'[b] # Idle => GatheredInv(released', check'[b])
      BY <2>2, <2>3, StillVouched DEF ResolveInv
    <2>9. /\ \A x \in Modules : preview'[x] # NoPreview => Vouches(released', preview'[x].Report, preview'[x].Read)
          /\ op'.Kind = "publish" => op'.Report.OkToPublish /\ Vouches(released', op'.Report, op'.Read)
      BY <2>1, <2>2, StillVouched DEF ResolveInv
    <2>10. QED
      BY <2>7, <2>8, <2>9 DEF ResolveInv
  <1>4. ASSUME NEW c \in Clients, SendPreview(c) PROVE ResolveInv'
    <2> DEFINE m == check[c].report.Module
               report == Report(c)
               read == check[c].read
               stored == Stored(report, read, c \in late)
    <2>1. /\ c \in Checks /\ m \in Modules /\ check[c] # Idle
          /\ check' = [check EXCEPT ![c] = Idle]
          /\ preview' = [preview EXCEPT ![m] = stored]
          /\ UNCHANGED <<released, index, versionsCache, op>>
      BY <1>4, Sent
    <2>2. Vouches(released, report, read)
      BY <1>4, <2>1, Sent DEF ResolveInv
    <2>3. stored.Report = report /\ stored.Read = read
      BY DEF Stored
    <2> HIDE DEF report, read, stored, m
    <2>4. \A b \in Checks : check'[b] = Idle \/ check'[b] = check[b]
      BY <2>1 DEF CheckShape
    <2>5. \A x \in Modules : preview'[x] = IF x = m THEN stored ELSE preview[x]
      BY <2>1 DEF PreviewShape
    <2>6. NpmInv'
      BY <2>1, StillVouched DEF ResolveInv, NpmInv, Known
    <2>7. \A b \in Checks : check'[b] # Idle => GatheredInv(released', check'[b])
      BY <2>1, <2>4, StillVouched DEF ResolveInv
    <2>8. \A x \in Modules : preview'[x] # NoPreview => Vouches(released', preview'[x].Report, preview'[x].Read)
      BY <2>1, <2>2, <2>3, <2>5, StillVouched DEF ResolveInv
    <2>9. op'.Kind = "publish" => op'.Report.OkToPublish /\ Vouches(released', op'.Report, op'.Read)
      BY <2>1, StillVouched DEF ResolveInv
    <2>10. QED
      BY <2>6, <2>7, <2>8, <2>9 DEF ResolveInv
  <1>5. ASSUME NEW m \in Opened, ExpirePreview(m) \/ PostVersion(m) PROVE ResolveInv'
    <2>1. /\ UNCHANGED <<released, index, versionsCache, check>>
          /\ op' = op \/ op'.Kind # "publish"
      BY <1>5 DEF ExpirePreview, PostVersion
    <2>2. \A x \in Modules : preview'[x] = NoPreview \/ preview'[x] = preview[x]
      BY <1>5 DEF ExpirePreview, PostVersion, Drop, PreviewShape
    <2>3. NpmInv'
      BY <2>1, StillVouched DEF ResolveInv, NpmInv, Known
    <2>4. \A b \in Checks : check'[b] # Idle => GatheredInv(released', check'[b])
      BY <2>1, StillVouched DEF ResolveInv
    <2>5. \A x \in Modules : preview'[x] # NoPreview => Vouches(released', preview'[x].Report, preview'[x].Read)
      BY <2>1, <2>2, StillVouched DEF ResolveInv
    <2>6. op'.Kind = "publish" => op'.Report.OkToPublish /\ Vouches(released', op'.Report, op'.Read)
      BY <2>1, StillVouched DEF ResolveInv
    <2>7. QED
      BY <2>3, <2>4, <2>5, <2>6 DEF ResolveInv
  <1>6. ASSUME NEW c \in Clients, PostPublish(c) PROVE ResolveInv'
    <2> DEFINE m == seen[c].Module
    <2>1. /\ m \in Modules /\ preview[m] # NoPreview /\ preview[m].Report.OkToPublish
          /\ preview' = [preview EXCEPT ![m] = NoPreview]
          /\ op' = [Kind |-> "publish", Module |-> m,
                    Report |-> preview[m].Report, Read |-> preview[m].Read, Passed |-> preview[m].Passed]
          /\ UNCHANGED <<released, index, versionsCache, check>>
      BY <1>6, PublishPosted
    <2>2. \A x \in Modules : preview'[x] = NoPreview \/ preview'[x] = preview[x]
      BY <2>1 DEF PreviewShape
    <2>3. NpmInv'
      BY <2>1, StillVouched DEF ResolveInv, NpmInv, Known
    <2>4. \A b \in Checks : check'[b] # Idle => GatheredInv(released', check'[b])
      BY <2>1, StillVouched DEF ResolveInv
    <2>5. \A x \in Modules : preview'[x] # NoPreview => Vouches(released', preview'[x].Report, preview'[x].Read)
      BY <2>1, <2>2, StillVouched DEF ResolveInv
    <2>6. op'.Report.OkToPublish /\ Vouches(released', op'.Report, op'.Read)
      BY <2>1, StillVouched DEF ResolveInv
    <2>7. QED
      BY <2>3, <2>4, <2>5, <2>6 DEF ResolveInv
  <1>7. CASE EndVersion
    BY <1>7, OnlyReleases DEF EndVersion, Ends, Finishes, NoOp
  <1>8. CASE EndPublish
    BY <1>8, OnlyReleases DEF EndPublish, Ends, Finishes, NoOp
  <1>9. ASSUME NEW n \in Names, Serve(n) \/ Expire(n), UNCHANGED <<preview, seen, op, spent, late>>
        PROVE  ResolveInv'
    <2>1. UNCHANGED <<released, check, preview, op>>
      BY <1>9 DEF Serve, Expire
    <2>2. \A o \in Names : /\ index'[o] = index[o] \/ index'[o] = VersionsIn(released, o)
                           /\ versionsCache'[o] = versionsCache[o] \/ versionsCache'[o] = NotListed
      BY <1>9 DEF Serve, Expire, NpmShape, Published, VersionsIn
    <2>3. \A o \in Names : VersionsIn(released', o) = VersionsIn(released, o)
      BY <2>1 DEF VersionsIn
    <2>4. NpmInv'
      BY <2>2, <2>3 DEF ResolveInv, NpmInv, Known
    <2>5. \A b \in Checks : check'[b] # Idle => GatheredInv(released', check'[b])
      BY <2>1, StillVouched DEF ResolveInv
    <2>6. /\ \A x \in Modules : preview'[x] # NoPreview => Vouches(released', preview'[x].Report, preview'[x].Read)
          /\ op'.Kind = "publish" => op'.Report.OkToPublish /\ Vouches(released', op'.Report, op'.Read)
      BY <2>1, StillVouched DEF ResolveInv
    <2>7. QED
      BY <2>4, <2>5, <2>6 DEF ResolveInv
  <1>10. CASE EndRun
    <2>1. /\ UNCHANGED <<released, index, versionsCache, check>>
          /\ op'.Kind # "publish"
      BY <1>10, Pulled DEF NoOp
    <2>2. NpmInv'
      BY <2>1, StillVouched DEF ResolveInv, NpmInv, Known
    <2>3. \A b \in Checks : check'[b] # Idle => GatheredInv(released', check'[b])
      BY <2>1, StillVouched DEF ResolveInv
    <2>4. \A x \in Modules : preview'[x] # NoPreview => Vouches(released', preview'[x].Report, preview'[x].Read)
      <3>1. \A x \in Modules : preview'[x] # NoPreview =>
              /\ preview[x] # NoPreview
              /\ preview'[x].Report = preview[x].Report /\ preview'[x].Read = preview[x].Read
        BY <1>10, Pulled
      <3>2. QED
        BY <2>1, <3>1, StillVouched DEF ResolveInv
    <2>5. QED
      BY <2>1, <2>2, <2>3, <2>4 DEF ResolveInv
  <1>11. QED
    BY <1>1, <1>2, <1>3, <1>4, <1>5, <1>6, <1>7, <1>8, <1>9, <1>10, StepCases

-----------------------------------------------------------------------------
(* The theorems. *)

LEMMA RoutesInit ==
    ASSUME Init, RoutesAssumption
    PROVE  RoutesInv
  <1> USE DEF Init, InitPackages
  <1>1. FilesShape
    BY DEF RoutesAssumption, FilesShape, Dependency, IsDependency
  <1>2. CheckShape /\ PreviewShape /\ NpmShape
    BY DEF CheckShape, PreviewShape, NpmShape, ClearedLists, NoOp
  <1>3. FreshInv /\ VersionInv
    BY DEF FreshInv, VersionInv, VersionOf, Checking, NoOp
  <1>4. NpmInv
    BY DEF NpmInv, Known, Published, VersionsIn, ClearedLists
  <1>5. ResolveInv
    BY <1>4 DEF ResolveInv, NoOp
  <1>6. QED
    BY <1>1, <1>2, <1>3, <1>5 DEF RoutesInv, Shape

LEMMA RoutesStep ==
    ASSUME RoutesInv, RoutesAssumption, [Next]_vars
    PROVE  RoutesInv'
  BY ShapeStep, FreshStep, VersionStep, ResolveStep DEF RoutesInv

(* A stored preview was not used since it was sent; every preview under way,  *)
(* stored or being published that no version has overtaken shows the version  *)
(* on disk; and an OK report vouches for each range.                          *)
THEOREM RoutesInvariant == Spec => []RoutesInv
  <1>1. Init => RoutesInv
    BY RoutesInit, RoutesAssumption
  <1>2. RoutesInv /\ [Next]_vars => RoutesInv'
    BY RoutesStep, RoutesAssumption
  <1>3. QED
    BY <1>1, <1>2, PTL DEF Spec

(* Whatever npm answers, in whatever order, and whatever the caches hold, a   *)
(* publish that ships what was previewed ships ranges that npm resolves.      *)
THEOREM PublishResolvesHolds == Spec => []PublishResolves
  <1>1. ASSUME RoutesInv PROVE PublishResolves
    <2>1. SUFFICES ASSUME op.Kind = "publish", NEW d \in op.Read
                   PROVE  /\ d.Range.Op \notin {"file", "link"}
                          /\ isEcosystemDependency(d.Dep) /\ d \in collectDeps(op.Read) /\ Fetched(op.Report)
                                 => Resolves(d)
      BY DEF PublishResolves
    <2>2. op.Report.OkToPublish /\ Vouches(released, op.Report, op.Read)
      BY <1>1, <2>1 DEF RoutesInv, ResolveInv
    <2>3. d.Range.Op \notin {"file", "link"}
      BY <2>1, <2>2 DEF Vouches, NoLinks
    <2>4. ASSUME isEcosystemDependency(d.Dep), d \in collectDeps(op.Read), Fetched(op.Report)
          PROVE  Resolves(d)
      <3>1. d \in Ecosystems(op.Read)
        BY <2>4 DEF Ecosystems
      <3>2. \E v \in VersionsIn(released, d.Dep) : rangeCoversVersion(d.Range, v)
        BY <2>2, <2>4, <3>1 DEF Vouches
      <3>3. QED
        BY <3>2 DEF Resolves, Published, VersionsIn
    <2>5. QED
      BY <2>3, <2>4
  <1>2. QED
    BY <1>1, RoutesInvariant, PTL

(* The version a client was shown is the one that is published, unless the    *)
(* version changed while the preview was made, or a command of the run route  *)
(* changed it since.                                                          *)
THEOREM PreviewedVersionShipsHolds == Spec => []PreviewedVersionShips
  <1>1. ASSUME RoutesInv PROVE PreviewedVersionShips
    BY <1>1 DEF RoutesInv, Shape, PreviewShape, VersionInv, VersionOf, PreviewedVersionShips
  <1>2. QED
    BY <1>1, RoutesInvariant, PTL

(* One preview starts at most one publish, however many clients look at it.   *)
THEOREM EachPublishPreviewedHolds == Spec => EachPublishPreviewed
  <1>1. ASSUME RoutesInv, [Next]_vars
        PROVE  [op'.Kind = "publish" /\ op.Kind # "publish" => ~spent[op'.Module]]_vars
    <2>1. SUFFICES ASSUME op'.Kind = "publish", op.Kind # "publish" PROVE ~spent[op'.Module]
      OBVIOUS
    <2>2. PICK c \in Clients : PostPublish(c)
      <3>1. op' # NoOp
        BY <2>1 DEF NoOp
      <3>2. ~EndVersion /\ ~EndRun /\ ~EndPublish
        BY <3>1 DEF EndVersion, EndRun, EndPublish, Ends, Finishes
      <3>3. QED
        BY <1>1, <2>1, <3>2, StepCases, RoutesAssumption
           DEF RoutesInv, Shape, Harmless, GetPreview, AnswerPreview, routeVars, SendPreview, ExpirePreview,
               PostVersion
    <2>3. seen[c].Module \in Modules /\ preview[seen[c].Module] # NoPreview /\ op'.Module = seen[c].Module
      BY <1>1, <2>2, PublishPosted, RoutesAssumption DEF RoutesInv, Shape
    <2>4. QED
      BY <1>1, <2>3 DEF RoutesInv, FreshInv
  <1>2. QED
    BY <1>1, RoutesInvariant, PTL DEF Spec, EachPublishPreviewed
=============================================================================
