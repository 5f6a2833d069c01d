---------------------------- MODULE ManifestEdit ----------------------------
(***************************************************************************)
(* The manifest on disk and the copies of it that edit it: the web         *)
(* server's ManifestLoader (raw and its moduleByName index), the edit      *)
(* routes of Api-ManifestEdit, a `mm manifest backfill` in a process of    *)
(* its own, a person's editor, and the web client's edit form.             *)
(*                                                                         *)
(* A directory is the sequence of its path elements: <<g>> is the folder   *)
(* of group g and <<g, n>> the directory n in it; <<>> is the empty Path   *)
(* of an entry.  Groups are numbers, ordered as raw.Groups lists them, and *)
(* module names are numbers, ordered as localeCompare orders them.  Of an  *)
(* entry's fields Name and Path are kept, of a group's its Modules and its *)
(* Description.                                                            *)
(*                                                                         *)
(* A request's handler is synchronous, so it is one step of the server;    *)
(* the write in it may fail, and the process may die before the rename.    *)
(***************************************************************************)
EXTENDS Integers, SequencesExt

CONSTANTS
  Groups,        \* the groups, in the order of raw.Groups
  Names,         \* module names, those of all directories with a marker too
  Tree,          \* the directories of the repository
  Skipped,       \* the names of SKIP_DIRECTORY_NAMES
  Discover,      \* the Discover patterns of each group
  Descriptions,  \* the descriptions a group may be given
  Start,         \* the groups of the manifest at the start
  Marked,        \* the directories that hold the marker at the start
  Cloned,        \* the directories that may come and go meanwhile
  Given,         \* the Paths clients send
  Outcomes,      \* what may become of a write: "ok", "failed", "died"
  Outside,       \* the writers beside the server: "hand", "cli"
  MaxSteps,      \* bound: requests, outside writes and restarts of a behaviour
  MaxTrouble     \* bound: writes that do not succeed and writers from outside

NoDir == <<>>
Folder(g) == <<g>>
Paths == Tree \cup {Append(Folder(g), n) : g \in Groups, n \in Names} \cup {NoDir}
Entry == [Name : Names, Path : Paths]
Group == [Modules : Seq(Entry), Description : Descriptions]

ASSUME ManifestAssumption ==
  /\ Groups \subseteq Nat /\ IsFiniteSet(Groups)
  /\ Names \subseteq Nat
  /\ IsFiniteSet(Tree) /\ Tree \subseteq Seq(Nat) \ {NoDir}
  /\ Marked \subseteq Tree /\ Cloned \subseteq Tree /\ Given \subseteq Tree
  /\ \A d \in Marked \cup Cloned : d[Len(d)] \in Names
  /\ Start \in [Groups -> Group]
  /\ "ok" \in Outcomes /\ Outcomes \subseteq {"ok", "failed", "died"}
  /\ Outside \subseteq {"hand", "cli"}
  /\ MaxSteps \in Nat /\ MaxTrouble \in Nat

VARIABLES
  file,          \* Modules-Manifest.json
  up,            \* the server runs
  raw,           \* loader.raw
  moduleByName,  \* loader.moduleByName: the AbsolutePath of each name
  marked,        \* the directories that hold their marker file
  cli,           \* the manifest a `mm manifest backfill` has read
  form,          \* the entry an open edit form was filled with
  answer,        \* the request the last step answered and its status code
  promised,      \* names whose entry the server has confirmed and not been
                 \* asked to take away, since the last write from outside
  astray,        \* names of whose entries memory and file may disagree
  left,          \* steps the bound still allows
  trouble        \* failed writes and outside writers it still allows

vars == <<file, up, raw, moduleByName, marked, cli, form, answer, promised,
          astray, left, trouble>>

NoForm == [Name |-> -1, Path |-> NoDir]
NoAnswer == [Op |-> "none", Name |-> 0, Status |-> 0]
Nothing == [Status |-> "none", Groups |-> <<>>]
Parsed(groups) == [Status |-> "ok", Groups |-> groups]

-----------------------------------------------------------------------------
(* The loader. *)

\* getGroupFolder, and the AbsolutePath load() gives an entry: its own Path
\* wins over the folder of its group.
getGroupFolder(g) == Folder(g)
AbsolutePath(g, entry) ==
  IF entry.Path # NoDir THEN entry.Path ELSE Append(getGroupFolder(g), entry.Name)

\* The places of the entries called n, in the order load() meets them.
EntryAt(groups, p) == groups[p.Group].Modules[p.At]
Called(groups, n) ==
  UNION {{[Group |-> g, At |-> j] :
            j \in {i \in DOMAIN groups[g].Modules : groups[g].Modules[i].Name = n}} : g \in Groups}
Before(p, q) == p.Group < q.Group \/ (p.Group = q.Group /\ p.At < q.At)

FirstOf(places) == CHOOSE p \in places : \A q \in places \ {p} : Before(p, q)
LastOf(places) == CHOOSE p \in places : \A q \in places \ {p} : Before(q, p)

\* moduleByName: a Map, so of two entries with one name the later one stays.
IndexOf(groups) ==
  [n \in Names |->
     IF Called(groups, n) = {} THEN NoDir
     ELSE LET last == LastOf(Called(groups, n))
          IN  AbsolutePath(last.Group, EntryAt(groups, last))]

\* load: JSON.parse throws before raw is assigned, the Groups check after it
\* and before the indexes are rebuilt.
load ==
  /\ raw' = IF file.Status = "broken" THEN raw ELSE file
  /\ moduleByName' = IF file.Status = "ok" THEN IndexOf(file.Groups) ELSE moduleByName
  /\ astray' = IF file.Status = "ok" THEN {} ELSE astray

-----------------------------------------------------------------------------
(* Discovery. *)

listSubdirectories(dir) ==
  {d \in Tree : d # <<>> /\ Front(d) = dir /\ d[Len(d)] \notin Skipped}

\* dir and everything below it that the walk descends into.
walkAllDirectories(dir) ==
  {d \in Tree : IsPrefix(dir, d) /\ \A i \in Len(dir) + 1 .. Len(d) : d[i] \notin Skipped}

\* One segment of a pattern: "*", "**" or the name of a directory, which may
\* be a skipped one.
Matching(dir, segment) ==
  CASE segment.Kind = "*"  -> listSubdirectories(dir)
    [] segment.Kind = "**" -> walkAllDirectories(dir)
    [] OTHER               -> {Append(dir, segment.Name)} \cap Tree

expandPattern(base, pattern) ==
  FoldLeft(LAMBDA dirs, segment : UNION {Matching(d, segment) : d \in dirs},
           {base}, pattern)

discoverGroupModules(g) ==
  (UNION {expandPattern(getGroupFolder(g), p) : p \in Discover[g]}) \cap marked

-----------------------------------------------------------------------------
(* ManifestTools. *)

\* The directories a group's entries account for: each entry is looked up in
\* the index by its name.
DeclaredAbsolute(groups, index, g) ==
  {index[e.Name] : e \in Range(groups[g].Modules)} \ {NoDir}

audit(groups, index) ==
  [OnlyInDisk |-> UNION {discoverGroupModules(g) \ DeclaredAbsolute(groups, index, g) : g \in Groups},
   OnlyInManifest |-> UNION {DeclaredAbsolute(groups, index, g) \ marked : g \in Groups}]

synthesizeEntry(dir) == [Name |-> dir[Len(dir)], Path |-> dir]

\* Mutant: a directory whose name is declared is not new.
NewModulesByName(groups, index, g) ==
  {d \in discoverGroupModules(g) : \A e \in Range(groups[g].Modules) : e.Name # d[Len(d)]}

NewModules(groups, index, g) ==
  discoverGroupModules(g) \ DeclaredAbsolute(groups, index, g)

\* Array.prototype.sort by name: as many elements as come before the i-th, or
\* are it, is where it goes.
NotAfter(modules, j, i) ==
  \/ modules[j].Name < modules[i].Name
  \/ modules[j].Name = modules[i].Name /\ j <= i
RankOf(modules, i) == Cardinality({j \in DOMAIN modules : NotAfter(modules, j, i)})
SortedByName(modules) ==
  [k \in DOMAIN modules |-> modules[CHOOSE i \in DOMAIN modules : RankOf(modules, i) = k]]

SetModules(groups, g, modules) ==
  [groups EXCEPT ![g] = [Modules |-> modules, Description |-> groups[g].Description]]

\* backfill: every group gets an entry for each new directory, and is sorted.
NewEntries(groups, index, g) ==
  SetToSeq({synthesizeEntry(d) : d \in NewModules(groups, index, g)})
Backfilled(groups, index) ==
  [g \in Groups |->
     [Modules |-> SortedByName(groups[g].Modules \o NewEntries(groups, index, g)),
      Description |-> groups[g].Description]]

HasNew(groups, index) == \E g \in Groups : NewModules(groups, index, g) # {}

\* The names a backfill gives entries to.
NewNames(groups, index) == {d[Len(d)] : d \in UNION {NewModules(groups, index, g) : g \in Groups}}

\* atomicWrite: a temporary file, then a rename; what fails or dies before
\* the rename leaves the manifest as it was.
atomicWrite(groups, outcome) ==
  IF outcome = "ok" THEN Parsed(groups) ELSE file

-----------------------------------------------------------------------------
(* Lookups in raw, which is what the edit routes read. *)

RawHasGroups == raw.Status = "ok"
findGroup(g) == RawHasGroups /\ g \in DOMAIN raw.Groups
Known(n) == RawHasGroups /\ Called(raw.Groups, n) # {}
findModule(n) == FirstOf(Called(raw.Groups, n))

Spend == left > 0 /\ left' = left - 1

\* The outcomes of a write the bound still allows.
MayBecome(outcome) ==
  IF outcome = "ok" THEN UNCHANGED trouble ELSE trouble > 0 /\ trouble' = trouble - 1

Refuse(op, n, status) ==
  /\ answer' = [Op |-> op, Name |-> n, Status |-> status]
  /\ UNCHANGED <<file, up, raw, moduleByName, marked, cli, promised, astray, trouble>>

\* saveAndReload of an edited raw, and the answer of the route around it.  A
\* write that fails leaves the edit in memory, of the edited names; a process
\* that dies takes its memory along.
saveAndReload(groups, op, n, edited, status, outcome) ==
  /\ MayBecome(outcome)
  /\ file' = atomicWrite(groups, outcome)
  /\ CASE outcome = "ok" ->
            /\ raw' = Parsed(groups)
            /\ moduleByName' = IndexOf(groups)
            /\ astray' = {}
            /\ answer' = [Op |-> op, Name |-> n, Status |-> status]
            /\ UNCHANGED up
       [] outcome = "failed" ->
            /\ raw' = Parsed(groups)
            /\ astray' = astray \cup edited
            /\ answer' = [Op |-> op, Name |-> n, Status |-> 500]
            /\ UNCHANGED <<moduleByName, up>>
       [] outcome = "died" ->
            /\ up' = FALSE
            /\ raw' = Nothing
            /\ moduleByName' = [m \in Names |-> NoDir]
            /\ answer' = [Op |-> op, Name |-> n, Status |-> 0]
            /\ UNCHANGED astray
  /\ UNCHANGED <<marked, cli>>

-----------------------------------------------------------------------------
(* The routes. *)

\* A field the body of a request leaves out.
Missing == -1

\* The Path of a new entry: the one given, or the module's place in the folder
\* of the group.
NewPath(g, n, path) == IF path # NoDir THEN path ELSE Append(getGroupFolder(g), n)

\* Mutant: the new entry is written and loaded, not pushed into raw first.
PostModuleUnpushed(g, n, path) ==
  /\ up /\ Spend
  /\ Missing \notin {g, n} /\ findGroup(g) /\ ~Known(n)
  /\ \E outcome \in Outcomes :
       /\ saveAndReload(raw.Groups, "add", n, {n}, 201, outcome)
       /\ promised' = IF outcome = "ok" THEN promised \cup {n} ELSE promised
  /\ UNCHANGED form

\* POST manifest/modules
PostModule(g, n, path) ==
  /\ up /\ Spend
  /\ \/ /\ Missing \in {g, n}
        /\ Refuse("add", 0, 400)
     \/ /\ Missing \notin {g, n} /\ ~findGroup(g)
        /\ Refuse("add", n, 404)
     \/ /\ Missing \notin {g, n} /\ findGroup(g) /\ Known(n)
        /\ Refuse("add", n, 409)
     \/ /\ Missing \notin {g, n} /\ findGroup(g) /\ ~Known(n)
        /\ \E outcome \in Outcomes :
             /\ saveAndReload(
                  SetModules(raw.Groups, g,
                    Append(raw.Groups[g].Modules, [Name |-> n, Path |-> NewPath(g, n, path)])),
                  "add", n, {n}, 201, outcome)
             /\ promised' = IF outcome = "ok" THEN promised \cup {n} ELSE promised
  /\ UNCHANGED form

Field(body, field, old) == IF field \in DOMAIN body THEN body[field] ELSE old
Patched(entry, body) ==
  [Name |-> Field(body, "Name", entry.Name), Path |-> Field(body, "Path", entry.Path)]

\* PATCH manifest/modules/:name with the fields of the body; a Name may not
\* be one that is taken.
PatchModule(n, body) ==
  LET newName == Field(body, "Name", n) IN
  /\ up /\ Spend
  /\ \/ /\ ~Known(n)
        /\ Refuse("edit", n, 404)
     \/ /\ Known(n) /\ newName # n /\ Known(newName)
        /\ Refuse("edit", n, 409)
     \/ /\ Known(n) /\ (newName = n \/ ~Known(newName))
        /\ LET found == findModule(n)
               modules == raw.Groups[found.Group].Modules
           IN
           \E outcome \in Outcomes :
             /\ saveAndReload(
                  SetModules(raw.Groups, found.Group,
                    [modules EXCEPT ![found.At] = Patched(modules[found.At], body)]),
                  "edit", newName, {n, newName}, 200, outcome)
             /\ promised' = IF newName = n THEN promised
                            ELSE (promised \ {n}) \cup (IF outcome = "ok" THEN {newName} ELSE {})

\* Mutant: the entry after the one found is taken out.
DeleteModuleNext(n) ==
  /\ up /\ Spend
  /\ Known(n)
  /\ LET found == findModule(n)
         modules == raw.Groups[found.Group].Modules
     IN
     \E outcome \in Outcomes :
       saveAndReload(
         SetModules(raw.Groups, found.Group,
           IF found.At < Len(modules) THEN RemoveAt(modules, found.At + 1) ELSE modules),
         "delete", n, {n}, 200, outcome)
  /\ promised' = promised \ {n}
  /\ UNCHANGED form

\* DELETE manifest/modules/:name
DeleteModule(n) ==
  /\ up /\ Spend
  /\ \/ /\ ~Known(n)
        /\ Refuse("delete", n, 404)
     \/ /\ Known(n)
        /\ LET found == findModule(n) IN
           \E outcome \in Outcomes :
             saveAndReload(
               SetModules(raw.Groups, found.Group,
                 RemoveAt(raw.Groups[found.Group].Modules, found.At)),
               "delete", n, {n}, 200, outcome)
        /\ promised' = promised \ {n}
  /\ UNCHANGED form

\* PUT manifest/groups/:name
PutGroup(g, description) ==
  /\ up /\ Spend
  /\ \/ /\ ~findGroup(g)
        /\ Refuse("group", 0, 404)
     \/ /\ findGroup(g)
        /\ \E outcome \in Outcomes :
             saveAndReload(
               [raw.Groups EXCEPT ![g] = [Modules |-> raw.Groups[g].Modules, Description |-> description]],
               "group", 0, {}, 200, outcome)
        /\ UNCHANGED promised
  /\ UNCHANGED form

\* POST manifest/reload.  A file that cannot be loaded is an exception in the
\* handler.
PostReload ==
  /\ up /\ Spend
  /\ load
  /\ answer' = [Op |-> "reload", Name |-> 0, Status |-> IF file.Status = "ok" THEN 200 ELSE 500]
  /\ UNCHANGED <<file, up, marked, cli, promised, form, trouble>>

\* POST manifest/backfill.  The new entries go into raw whether or not they
\* are to be written.
PostBackfill(write) ==
  /\ up /\ Spend
  /\ \/ /\ ~RawHasGroups
        /\ Refuse("backfill", 0, 200)
     \/ /\ RawHasGroups
        /\ LET groups == Backfilled(raw.Groups, moduleByName)
               names == NewNames(raw.Groups, moduleByName)
           IN
           \/ /\ write /\ HasNew(raw.Groups, moduleByName)
              /\ \E outcome \in Outcomes :
                   saveAndReload(groups, "backfill", 0, names, 200, outcome)
           \/ /\ ~(write /\ HasNew(raw.Groups, moduleByName))
              /\ raw' = Parsed(groups)
              /\ astray' = astray \cup names
              /\ answer' = [Op |-> "backfill", Name |-> 0, Status |-> 200]
              /\ UNCHANGED <<file, up, moduleByName, marked, cli, trouble>>
        /\ UNCHANGED promised
  /\ UNCHANGED form

\* The server starts only on a manifest that loads.
Restart ==
  /\ ~up /\ Spend
  /\ file.Status = "ok"
  /\ up' = TRUE
  /\ load
  /\ answer' = NoAnswer
  /\ UNCHANGED <<file, marked, cli, form, promised, trouble>>

-----------------------------------------------------------------------------
(* The client's edit form and the other writers. *)

NoFields == [field \in {} |-> NoDir]

\* editModule of the ManifestEditor: the form is filled from the manifest the
\* view last loaded.
OpenForm(n) ==
  /\ up /\ Known(n)
  /\ form = NoForm
  /\ form' = [Name |-> n, Path |-> EntryAt(raw.Groups, findModule(n)).Path]
  /\ answer' = NoAnswer
  /\ UNCHANGED <<file, up, raw, moduleByName, marked, cli, promised, astray, left, trouble>>

\* _readForm: a field left empty is not in the body, and Name is locked.
SubmitForm(path) ==
  /\ form # NoForm
  /\ PatchModule(form.Name, IF path = NoDir THEN NoFields ELSE [Path |-> path])
  /\ form' = NoForm

\* PATCH from another client; the form never sends a Name.
Rename(n, name) == PatchModule(n, [Name |-> name]) /\ UNCHANGED form

\* The file in an editor: an entry more, one less, or a text that does not
\* load.
HandEdit ==
  /\ "hand" \in Outside /\ Spend
  /\ trouble > 0 /\ trouble' = trouble - 1
  /\ \/ /\ file.Status = "ok"
        /\ \E g \in Groups :
             \/ \E n \in Names :
                  file' = Parsed(SetModules(file.Groups, g,
                                   Append(file.Groups[g].Modules, [Name |-> n, Path |-> NoDir])))
             \/ /\ file.Groups[g].Modules # <<>>
                /\ file' = Parsed(SetModules(file.Groups, g, Tail(file.Groups[g].Modules)))
     \/ \E status \in {"broken", "noGroups"} : file' = [Status |-> status, Groups |-> <<>>]
  /\ promised' = {} /\ astray' = Names
  /\ answer' = NoAnswer
  /\ UNCHANGED <<up, raw, moduleByName, marked, cli, form>>

\* `mm manifest backfill`: a process with a loader of its own.
CliRead ==
  /\ "cli" \in Outside /\ cli = Nothing
  /\ file.Status = "ok"
  /\ trouble > 0 /\ trouble' = trouble - 1
  /\ cli' = file
  /\ answer' = NoAnswer
  /\ UNCHANGED <<file, up, raw, moduleByName, marked, form, promised, astray, left>>

CliBackfill(write) ==
  /\ cli # Nothing /\ Spend
  /\ IF write /\ HasNew(cli.Groups, IndexOf(cli.Groups))
     THEN \E outcome \in Outcomes :
            /\ file' = atomicWrite(Backfilled(cli.Groups, IndexOf(cli.Groups)), outcome)
            /\ promised' = IF outcome = "ok" THEN {} ELSE promised
            /\ astray' = IF outcome = "ok" THEN Names ELSE astray
     ELSE UNCHANGED <<file, promised, astray>>
  /\ cli' = Nothing
  /\ answer' = NoAnswer
  /\ UNCHANGED <<up, raw, moduleByName, marked, form, trouble>>

\* A module is cloned, or its directory goes.
Clone(dir) ==
  /\ Spend
  /\ marked' = IF dir \in marked THEN marked \ {dir} ELSE marked \cup {dir}
  /\ answer' = NoAnswer
  /\ UNCHANGED <<file, up, raw, moduleByName, cli, form, promised, astray, trouble>>

Init ==
  /\ file = Parsed(Start)
  /\ up = TRUE
  /\ raw = file
  /\ moduleByName = IndexOf(Start)
  /\ marked = Marked
  /\ cli = Nothing
  /\ form = NoForm
  /\ answer = NoAnswer
  /\ promised = {} /\ astray = {}
  /\ left = MaxSteps
  /\ trouble = MaxTrouble

Request ==
  \/ \E g \in Groups \cup {Missing}, n \in Names \cup {Missing}, path \in Given \cup {NoDir} :
       PostModule(g, n, path)
  \/ \E n, m \in Names : n # m /\ Rename(n, m)
  \/ \E n \in Names : DeleteModule(n)
  \/ \E g \in Groups, d \in Descriptions : PutGroup(g, d)
  \/ PostReload
  \/ \E write \in BOOLEAN : PostBackfill(write)
  \/ \E path \in Given \cup {form.Path, NoDir} : SubmitForm(path)

Next ==
  \/ Request
  \/ \E n \in Names : OpenForm(n)
  \/ Restart
  \/ HandEdit
  \/ CliRead
  \/ \E write \in BOOLEAN : CliBackfill(write)
  \/ \E dir \in Cloned : Clone(dir)

Spec == Init /\ [][Next]_vars

-----------------------------------------------------------------------------
(* Properties. *)

Manifest ==
  [Status : {"ok"}, Groups : [Groups -> Group]]
    \cup {[Status |-> status, Groups |-> <<>>] : status \in {"broken", "noGroups", "none"}}

Forms == [Name : Names, Path : Paths] \cup {NoForm}
Answers ==
  [Op : {"add", "edit", "delete", "group", "reload", "backfill", "none"},
   Name : Names \cup {0}, Status : {0, 200, 201, 400, 404, 409, 500}]

\* Every variable has its type, and a server that is down holds no manifest.
TypeOK ==
  /\ file \in Manifest /\ file.Status # "none"
  /\ raw \in Manifest /\ raw.Status # "broken"
  /\ cli \in Manifest /\ cli.Status \in {"ok", "none"}
  /\ up \in BOOLEAN
  /\ raw.Status = "none" <=> ~up
  /\ moduleByName \in [Names -> Paths]
  /\ marked \subseteq Marked \cup Cloned
  /\ form \in Forms
  /\ answer \in Answers
  /\ promised \subseteq Names /\ astray \subseteq Names
  /\ left \in 0 .. MaxSteps /\ trouble \in 0 .. MaxTrouble

NamesOf(groups) == {n \in Names : Called(groups, n) # {}}

\* A module the server has confirmed stays in the manifest on disk until it
\* is asked to take it out or rename it, or somebody else writes the file:
\* through failed writes, reloads, dry runs and restarts in any order.
PromisesKept == promised \subseteq (IF file.Status = "ok" THEN NamesOf(file.Groups) ELSE {})

Answered(op) == answer'.Op = op /\ answer'.Status \in {200, 201}
Times(groups, n) == Cardinality(Called(groups, n))

\* The entries of a name in the file are more or fewer by this many, unless
\* memory and file disagreed about them before.
FileGains(n, count) ==
  n \notin astray => Times(file'.Groups, n) = Times(file.Groups, n) + count

\* A confirmed edit is in the file and in the index other requests resolve
\* names with: an add has put one entry of its name there, a delete has taken
\* one away, an edit has touched the name it gives and the one it found, and
\* none has changed how many entries another name has.  Excepted are the names
\* of which memory and file disagreed, which the write brings along: those of
\* an edit or backfill answered 500 or of a dry run, and any after a write
\* from outside, each until a load or a confirmed write.
AnswersLand ==
  [][/\ (\E op \in {"add", "edit", "delete", "group"} : Answered(op)) =>
          raw' = file' /\ moduleByName' = IndexOf(file'.Groups)
     /\ (\E op \in {"add", "edit"} : Answered(op)) =>
          moduleByName'[answer'.Name] # NoDir
     /\ Answered("add") =>
          \A n \in Names : FileGains(n, IF n = answer'.Name THEN 1 ELSE 0)
     /\ Answered("delete") =>
          \A n \in Names : FileGains(n, IF n = answer'.Name THEN -1 ELSE 0)
     /\ Answered("edit") =>
          \E old \in Names : \A n \in Names \ {old, answer'.Name} : FileGains(n, 0)
     /\ Answered("group") => \A n \in Names : FileGains(n, 0)]_vars

Backfills == Answered("backfill") /\ RawHasGroups /\ raw' # raw
Count(seq, e) == Cardinality({i \in DOMAIN seq : seq[i] = e})

\* A backfill takes no entry away, a duplicate or an orphan's neither: the
\* orphans are for a person to remove.
BackfillOnlyAdds ==
  [][Backfills =>
       \A g \in Groups : \A e \in Range(raw.Groups[g].Modules) :
         Count(raw'.Groups[g].Modules, e) >= Count(raw.Groups[g].Modules, e)]_vars

Covered(groups) ==
  \A g \in Groups : \A d \in discoverGroupModules(g) :
    \E h \in Groups : \E e \in Range(groups[h].Modules) : AbsolutePath(h, e) = d

InStep == RawHasGroups /\ raw = file /\ moduleByName = IndexOf(raw.Groups)

\* What a written backfill leaves behind accounts for every module directory
\* on disk, whatever entries of these names it found: always in the command,
\* in the server when its memory is in step with the file.
BackfillCovers ==
  [][/\ Answered("backfill") /\ InStep /\ file' # file => Covered(file'.Groups)
     /\ cli # Nothing /\ cli' = Nothing /\ file' # file => Covered(file'.Groups)]_vars

Unique(groups) == \A n \in Names : Times(groups, n) <= 1

\* The edit routes give no two entries one name.
EditsKeepNamesUnique ==
  [][(\E op \in {"add", "edit", "delete", "group"} : Answered(op))
       /\ Unique(raw.Groups) => Unique(raw'.Groups)]_vars

\* ManifestTools and the command call a backfill without Write a dry run: an
\* edit then writes no entry but the one it names.  (The code does not keep
\* it: the dry run's entries stay in raw.)
DryRunStaysDry ==
  [][(\E op \in {"add", "edit", "delete", "group"} : Answered(op)) =>
       NamesOf(file'.Groups) \subseteq NamesOf(file.Groups) \cup {answer'.Name}]_vars

\* The editor calls Name the key of an entry: no two entries have one.  (The
\* code does not keep it: a backfill adds a directory of that name elsewhere,
\* and what it added a second time after a dry run.)
NamesAreKeys == file.Status = "ok" => Unique(file.Groups)

\* An audit points at `manifest backfill --write` for modules only on disk:
\* after it, none is.  (The code does not keep it: of two directories with
\* one name the index holds the later, and the other is added every time.)
BackfillSettles ==
  [][Answered("backfill") /\ InStep /\ file' # file =>
       audit(file'.Groups, moduleByName').OnlyInDisk = {}]_vars

=============================================================================
