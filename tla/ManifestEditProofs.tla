-------------------------- MODULE ManifestEditProofs --------------------------
(* What the server has confirmed stays in the manifest, its edits land in the  *)
(* file and the index as they were asked for, and a backfill covers the disk.  *)
EXTENDS ManifestEdit, FiniteSetTheorems, SequenceTheorems, FunctionTheorems,
        WellFoundedInduction, TLAPS

(* What the server was promised to keep is in its memory too, which is what    *)
(* the next save writes.                                                       *)
RawKeeps == raw.Status = "ok" => promised \subseteq NamesOf(raw.Groups)

(* Memory and file hold as many entries of every name not known to be astray.  *)
Agree ==
    /\ file.Status # "ok" => astray = Names
    /\ raw.Status = "ok" /\ file.Status = "ok" =>
         \A n \in Names \ astray : Times(raw.Groups, n) = Times(file.Groups, n)

EditInv == TypeOK /\ PromisesKept /\ RawKeeps /\ Agree

Typed(groups) == groups \in [Groups -> Group]

-----------------------------------------------------------------------------
(* Manifests, and the places of their entries. *)

\* A manifest that loads has groups, and is what parsing them gives.
LEMMA ManifestIs ==
    /\ \A m \in Manifest : m.Status = "ok" => Typed(m.Groups) /\ m = Parsed(m.Groups)
    /\ \A m \in Manifest :
          m.Status # "ok" => m \in {[Status |-> s, Groups |-> <<>>] : s \in {"broken", "noGroups", "none"}}
    /\ \A groups : Typed(groups) => Parsed(groups) \in Manifest
    /\ Nothing \in Manifest
    /\ \A s \in {"broken", "noGroups"} : [Status |-> s, Groups |-> <<>>] \in Manifest
  BY DEF Manifest, Typed, Parsed, Nothing

LEMMA GroupIs ==
    ASSUME NEW groups, Typed(groups), NEW g \in Groups
    PROVE  /\ groups[g].Modules \in Seq(Entry)
           /\ groups[g].Description \in Descriptions
           /\ groups[g] = [Modules |-> groups[g].Modules, Description |-> groups[g].Description]
           /\ DOMAIN groups[g].Modules = 1..Len(groups[g].Modules)
           /\ Len(groups[g].Modules) \in Nat
           /\ \A i \in DOMAIN groups[g].Modules : groups[g].Modules[i] \in Entry
  <1>1. groups[g] \in Group
    BY DEF Typed
  <1>2. /\ groups[g].Modules \in Seq(Entry)
        /\ groups[g].Description \in Descriptions
        /\ groups[g] = [Modules |-> groups[g].Modules, Description |-> groups[g].Description]
    BY <1>1 DEF Group
  <1>3. QED
    BY <1>2, LenProperties, ElementOfSeq

LEMMA EntryIs ==
    ASSUME NEW e \in Entry
    PROVE  e.Name \in Names /\ e.Path \in Paths /\ e = [Name |-> e.Name, Path |-> e.Path] /\ e.Name \in Nat
  BY ManifestAssumption DEF Entry

LEMMA SetModulesIs ==
    ASSUME NEW groups, Typed(groups), NEW g \in Groups, NEW modules \in Seq(Entry)
    PROVE  /\ Typed(SetModules(groups, g, modules))
           /\ SetModules(groups, g, modules)[g].Modules = modules
           /\ \A h \in Groups \ {g} : SetModules(groups, g, modules)[h] = groups[h]
  <1>1. [Modules |-> modules, Description |-> groups[g].Description] \in Group
    BY GroupIs DEF Group
  <1>2. QED
    BY <1>1 DEF SetModules, Typed

LEMMA CalledIs ==
    ASSUME NEW groups, Typed(groups), NEW n
    PROVE  /\ \A p \in Called(groups, n) :
                /\ p = [Group |-> p.Group, At |-> p.At]
                /\ p.Group \in Groups /\ p.Group \in Nat /\ p.At \in Nat
                /\ p.At \in DOMAIN groups[p.Group].Modules
                /\ EntryAt(groups, p) \in Entry /\ EntryAt(groups, p).Name = n
           /\ \A g \in Groups : \A j \in DOMAIN groups[g].Modules :
                groups[g].Modules[j].Name = n => [Group |-> g, At |-> j] \in Called(groups, n)
  <1>1. ASSUME NEW p \in Called(groups, n)
        PROVE  /\ p = [Group |-> p.Group, At |-> p.At]
               /\ p.Group \in Groups /\ p.Group \in Nat /\ p.At \in Nat
               /\ p.At \in DOMAIN groups[p.Group].Modules
               /\ EntryAt(groups, p) \in Entry /\ EntryAt(groups, p).Name = n
    <2>1. PICK g \in Groups : \E j \in DOMAIN groups[g].Modules :
            groups[g].Modules[j].Name = n /\ p = [Group |-> g, At |-> j]
      BY DEF Called
    <2>2. PICK j \in DOMAIN groups[g].Modules :
            groups[g].Modules[j].Name = n /\ p = [Group |-> g, At |-> j]
      BY <2>1
    <2>3. j \in Nat /\ groups[g].Modules[j] \in Entry
      <3>1. /\ DOMAIN groups[g].Modules = 1..Len(groups[g].Modules)
            /\ Len(groups[g].Modules) \in Nat
            /\ \A i \in DOMAIN groups[g].Modules : groups[g].Modules[i] \in Entry
        BY Zenon, GroupIs
      <3>2. QED
        BY <3>1
    <2>4. QED
      BY <2>2, <2>3, ManifestAssumption DEF EntryAt
  <1>2. ASSUME NEW g \in Groups, NEW j \in DOMAIN groups[g].Modules, groups[g].Modules[j].Name = n
        PROVE  [Group |-> g, At |-> j] \in Called(groups, n)
    BY <1>2 DEF Called
  <1>3. QED
    BY <1>1, <1>2

\* Called(groups, n) has finitely many places.
LEMMA CalledFinite ==
    ASSUME NEW groups, Typed(groups), NEW n
    PROVE  IsFiniteSet(Called(groups, n))
  <1> DEFINE In(g) == {[Group |-> g, At |-> j] :
                         j \in {i \in DOMAIN groups[g].Modules : groups[g].Modules[i].Name = n}}
             All == {In(g) : g \in Groups}
  <1>1. ASSUME NEW g \in Groups PROVE IsFiniteSet(In(g))
    <2> DEFINE D == {i \in DOMAIN groups[g].Modules : groups[g].Modules[i].Name = n}
               f == [j \in D |-> [Group |-> g, At |-> j]]
    <2>1. D \subseteq 1..Len(groups[g].Modules) /\ Len(groups[g].Modules) \in Nat
      BY GroupIs
    <2>2. IsFiniteSet(D)
      BY <2>1, FS_Interval, FS_Subset
    <2>3. f \in Surjection(D, In(g))
      BY DEF Surjection
    <2>4. QED
      BY <2>2, <2>3, FS_Surjection
  <1>2. IsFiniteSet(All)
    <2> DEFINE f == [g \in Groups |-> In(g)]
    <2>1. f \in Surjection(Groups, All)
      BY DEF Surjection
    <2> HIDE DEF f, All
    <2>2. QED
      BY <2>1, FS_Surjection, ManifestAssumption
  <1>3. \A T \in All : IsFiniteSet(T)
    BY <1>1
  <1>4. Called(groups, n) = UNION All
    BY DEF Called
  <1> HIDE DEF All
  <1>5. QED
    BY <1>2, <1>3, <1>4, FS_UNION

\* Of two different places of a manifest one is before the other.
LEMMA PlacesOrdered ==
    ASSUME NEW groups, Typed(groups), NEW n,
           NEW p \in Called(groups, n), NEW q \in Called(groups, n), p # q
    PROVE  Before(p, q) \/ Before(q, p)
  <1>1. p.Group \in Nat /\ p.At \in Nat /\ q.Group \in Nat /\ q.At \in Nat
    BY CalledIs
  <1>2. p.Group # q.Group \/ p.At # q.At
    <2>1. p = [Group |-> p.Group, At |-> p.At] /\ q = [Group |-> q.Group, At |-> q.At]
      BY CalledIs
    <2>2. QED
      BY <2>1
  <1>3. QED
    BY <1>1, <1>2 DEF Before

\* The entry load() meets last is one of them: with the fewest after it.
LEMMA LastExists ==
    ASSUME NEW groups, Typed(groups), NEW n, Called(groups, n) # {}
    PROVE  LastOf(Called(groups, n)) \in Called(groups, n)
  <1> DEFINE S == Called(groups, n)
             after(p) == {q \in S : Before(p, q)}
             T == {after(p) : p \in S}
  <1>1. \A U \in SUBSET S : IsFiniteSet(U)
    BY CalledFinite, FS_Subset
  <1>2. T \subseteq FiniteSubsetsOf(S) /\ T # {} /\ IsFiniteSet(S)
    BY <1>1, CalledFinite DEF FiniteSubsetsOf
  <1> HIDE DEF T
  <1>3. PICK U \in T : \A V \in T : ~ (<<V, U>> \in StrictSubsetOrdering(S))
    BY <1>2, FS_StrictSubsetOrderingWellFounded, WFMin
  <1> USE DEF T
  <1>4. PICK p \in S : U = after(p)
    OBVIOUS
  <1>5. ASSUME NEW q \in S, Before(p, q) PROVE FALSE
    <2>1. p.Group \in Nat /\ p.At \in Nat /\ q.Group \in Nat /\ q.At \in Nat
      BY CalledIs
    <2>2. q \in after(p) /\ q \notin after(q)
      BY <1>5, <2>1 DEF Before
    <2>3. after(q) \subseteq after(p)
      <3>1. ASSUME NEW o \in after(q) PROVE o \in after(p)
        <4>1. o.Group \in Nat /\ o.At \in Nat
          BY CalledIs
        <4>2. QED
          BY <1>5, <2>1, <4>1 DEF Before
      <3>2. QED
        BY <3>1
    <2>4. after(q) \in T /\ after(q) \in SUBSET S /\ U \in SUBSET S
      BY <1>4
    <2>5. QED
      BY <1>3, <1>4, <2>2, <2>3, <2>4 DEF StrictSubsetOrdering
  <1>6. \A q \in S \ {p} : Before(q, p)
    BY <1>5, PlacesOrdered
  <1>7. QED
    BY <1>6 DEF LastOf

\* And so is the one findModule stops at: with the fewest before it.
LEMMA FirstExists ==
    ASSUME NEW groups, Typed(groups), NEW n, Called(groups, n) # {}
    PROVE  FirstOf(Called(groups, n)) \in Called(groups, n)
  <1> DEFINE S == Called(groups, n)
             upTo(p) == {q \in S : Before(q, p)}
             T == {upTo(p) : p \in S}
  <1>1. \A U \in SUBSET S : IsFiniteSet(U)
    BY CalledFinite, FS_Subset
  <1>2. T \subseteq FiniteSubsetsOf(S) /\ T # {} /\ IsFiniteSet(S)
    BY <1>1, CalledFinite DEF FiniteSubsetsOf
  <1> HIDE DEF T
  <1>3. PICK U \in T : \A V \in T : ~ (<<V, U>> \in StrictSubsetOrdering(S))
    BY <1>2, FS_StrictSubsetOrderingWellFounded, WFMin
  <1> USE DEF T
  <1>4. PICK p \in S : U = upTo(p)
    OBVIOUS
  <1>5. ASSUME NEW q \in S, Before(q, p) PROVE FALSE
    <2>1. p.Group \in Nat /\ p.At \in Nat /\ q.Group \in Nat /\ q.At \in Nat
      BY CalledIs
    <2>2. q \in upTo(p) /\ q \notin upTo(q)
      BY <1>5, <2>1 DEF Before
    <2>3. upTo(q) \subseteq upTo(p)
      <3>1. ASSUME NEW o \in upTo(q) PROVE o \in upTo(p)
        <4>1. o.Group \in Nat /\ o.At \in Nat
          BY CalledIs
        <4>2. QED
          BY <1>5, <2>1, <4>1 DEF Before
      <3>2. QED
        BY <3>1
    <2>4. upTo(q) \in T /\ upTo(q) \in SUBSET S /\ U \in SUBSET S
      BY <1>4
    <2>5. QED
      BY <1>3, <1>4, <2>2, <2>3, <2>4 DEF StrictSubsetOrdering
  <1>6. \A q \in S \ {p} : Before(p, q)
    BY <1>5, PlacesOrdered
  <1>7. QED
    BY <1>6 DEF FirstOf

LEMMA AbsolutePathIs ==
    ASSUME NEW g \in Groups, NEW e \in Entry
    PROVE  AbsolutePath(g, e) \in Paths /\ AbsolutePath(g, e) # NoDir
  <1>1. e.Path \in Paths /\ e.Name \in Names
    BY EntryIs
  <1>2. Append(getGroupFolder(g), e.Name) \in Paths
    BY <1>1 DEF Paths, getGroupFolder
  <1>3. Append(getGroupFolder(g), e.Name) # NoDir
    <2> DEFINE S == {g, e.Name}
    <2>1. Folder(g) \in Seq(S) /\ Len(Folder(g)) = 1 /\ e.Name \in S
      BY DEF Folder
    <2> HIDE DEF S
    <2>2. Append(Folder(g), e.Name) \in Seq(S) /\ Append(Folder(g), e.Name) # <<>>
      BY <2>1, AppendProperties
    <2>3. QED
      BY <2>2 DEF getGroupFolder, NoDir
  <1>4. QED
    BY <1>1, <1>2, <1>3 DEF AbsolutePath

\* The index gives every name of an entry the path of one, and no other name any.
LEMMA IndexIs ==
    ASSUME NEW groups, Typed(groups)
    PROVE  /\ IndexOf(groups) \in [Names -> Paths]
           /\ \A n \in Names : Called(groups, n) = {} => IndexOf(groups)[n] = NoDir
           /\ \A n \in Names : Called(groups, n) # {} =>
                \E p \in Called(groups, n) :
                  /\ IndexOf(groups)[n] = AbsolutePath(p.Group, EntryAt(groups, p))
                  /\ IndexOf(groups)[n] # NoDir
  <1>1. ASSUME NEW n \in Names, Called(groups, n) # {}
        PROVE  \E p \in Called(groups, n) :
                 /\ IndexOf(groups)[n] = AbsolutePath(p.Group, EntryAt(groups, p))
                 /\ IndexOf(groups)[n] # NoDir
                 /\ IndexOf(groups)[n] \in Paths
    <2> DEFINE p == LastOf(Called(groups, n))
    <2>1. p \in Called(groups, n)
      BY <1>1, LastExists
    <2>2. IndexOf(groups)[n] = AbsolutePath(p.Group, EntryAt(groups, p))
      BY <1>1 DEF IndexOf
    <2>3. p.Group \in Groups /\ EntryAt(groups, p) \in Entry
      BY <2>1, CalledIs
    <2> HIDE DEF p
    <2>4. QED
      BY <2>1, <2>2, <2>3, AbsolutePathIs
  <1>2. ASSUME NEW n \in Names, Called(groups, n) = {}
        PROVE  IndexOf(groups)[n] = NoDir /\ NoDir \in Paths
    BY <1>2 DEF IndexOf, Paths
  <1>3. \A n \in Names : IndexOf(groups)[n] \in Paths
    BY <1>1, <1>2
  <1>4. IndexOf(groups) \in [Names -> Paths]
    BY <1>3 DEF IndexOf
  <1>5. QED
    BY <1>1, <1>2, <1>4

-----------------------------------------------------------------------------
(* What the edits of a manifest do to its names. *)

LEMMA NameAt ==
    ASSUME NEW groups, Typed(groups), NEW g \in Groups, NEW j \in DOMAIN groups[g].Modules
    PROVE  groups[g].Modules[j].Name \in NamesOf(groups)
  <1>1. groups[g].Modules[j].Name \in Names
    BY GroupIs, EntryIs
  <1>2. [Group |-> g, At |-> j] \in Called(groups, groups[g].Modules[j].Name)
    BY CalledIs
  <1>3. QED
    BY <1>1, <1>2 DEF NamesOf

\* An entry more: its name is there, and all that were.
LEMMA AppendNames ==
    ASSUME NEW groups, Typed(groups), NEW g \in Groups, NEW e \in Entry
    PROVE  LET new == SetModules(groups, g, Append(groups[g].Modules, e))
           IN  Typed(new) /\ NamesOf(groups) \cup {e.Name} \subseteq NamesOf(new)
  <1> DEFINE old == groups[g].Modules
             new == SetModules(groups, g, Append(old, e))
  <1>1. /\ old \in Seq(Entry) /\ DOMAIN old = 1..Len(old) /\ Len(old) \in Nat
        /\ Append(old, e) \in Seq(Entry)
        /\ DOMAIN Append(old, e) = 1..(Len(old) + 1)
        /\ \A i \in 1..Len(old) : Append(old, e)[i] = old[i]
        /\ Append(old, e)[Len(old) + 1] = e
    <2>1. old \in Seq(Entry) /\ DOMAIN old = 1..Len(old) /\ Len(old) \in Nat
      BY GroupIs
    <2>2. /\ Append(old, e) \in Seq(Entry)
          /\ Len(Append(old, e)) = Len(old) + 1
          /\ \A i \in 1..Len(old) : Append(old, e)[i] = old[i]
          /\ Append(old, e)[Len(old) + 1] = e
      BY <2>1, AppendProperties
    <2>3. QED
      BY <2>1, <2>2, LenProperties
  <1>2. Typed(new) /\ new[g].Modules = Append(old, e) /\ \A h \in Groups \ {g} : new[h] = groups[h]
    <2> DEFINE more == Append(old, e)
    <2>1. more \in Seq(Entry) /\ new = SetModules(groups, g, more)
      BY <1>1
    <2> HIDE DEF more, new
    <2>2. /\ Typed(SetModules(groups, g, more))
          /\ SetModules(groups, g, more)[g].Modules = more
          /\ \A h \in Groups \ {g} : SetModules(groups, g, more)[h] = groups[h]
      BY <2>1, SetModulesIs
    <2>3. Typed(new) /\ new[g].Modules = more /\ \A h \in Groups \ {g} : new[h] = groups[h]
      BY <2>1, <2>2
    <2>4. QED
      BY <2>3 DEF more
  <1> HIDE DEF new
  <1>3. e.Name \in NamesOf(new)
    <2>1. Len(old) + 1 \in DOMAIN new[g].Modules /\ new[g].Modules[Len(old) + 1] = e
      BY <1>1, <1>2
    <2>2. QED
      BY <2>1, <1>2, NameAt
  <1>4. ASSUME NEW n \in NamesOf(groups) PROVE n \in NamesOf(new)
    <2>1. PICK p \in Called(groups, n) : TRUE
      BY DEF NamesOf
    <2>2. p.Group \in Groups /\ p.At \in DOMAIN groups[p.Group].Modules
          /\ groups[p.Group].Modules[p.At].Name = n
      BY CalledIs DEF EntryAt
    <2>3. p.At \in DOMAIN new[p.Group].Modules /\ new[p.Group].Modules[p.At] = groups[p.Group].Modules[p.At]
      BY <2>2, <1>1, <1>2
    <2>4. QED
      BY <2>2, <2>3, <1>2, NameAt
  <1>5. QED
    BY <1>2, <1>3, <1>4 DEF new

\* An entry called n rewritten: its new name is there, and all but n are.
LEMMA ReplaceNames ==
    ASSUME NEW groups, Typed(groups), NEW n, NEW p \in Called(groups, n), NEW e \in Entry
    PROVE  LET new == SetModules(groups, p.Group, [groups[p.Group].Modules EXCEPT ![p.At] = e])
           IN  Typed(new) /\ (NamesOf(groups) \ {n}) \cup {e.Name} \subseteq NamesOf(new)
  <1> DEFINE g == p.Group
             old == groups[g].Modules
             rewritten == [old EXCEPT ![p.At] = e]
             new == SetModules(groups, g, rewritten)
  <1>1. g \in Groups /\ p.At \in DOMAIN old /\ old[p.At].Name = n /\ p = [Group |-> g, At |-> p.At]
    BY CalledIs DEF EntryAt
  <1>2. old \in Seq(Entry) /\ DOMAIN old = 1..Len(old)
    BY <1>1, GroupIs
  <1>3. /\ rewritten \in Seq(Entry) /\ DOMAIN rewritten = DOMAIN old
        /\ \A j \in DOMAIN old : rewritten[j] = IF j = p.At THEN e ELSE old[j]
    <2>1. rewritten \in Seq(Entry)
      BY <1>1, <1>2, ExceptSeq
    <2>2. QED
      BY <2>1, <1>1
  <1>4. Typed(new) /\ new[g].Modules = rewritten /\ \A h \in Groups \ {g} : new[h] = groups[h]
    BY <1>1, <1>3, SetModulesIs
  <1> HIDE DEF new, rewritten
  <1>5. e.Name \in NamesOf(new)
    <2>1. p.At \in DOMAIN new[g].Modules /\ new[g].Modules[p.At] = e
      BY <1>1, <1>3, <1>4
    <2>2. QED
      BY <2>1, <1>1, <1>4, NameAt
  <1>6. ASSUME NEW m \in NamesOf(groups) \ {n} PROVE m \in NamesOf(new)
    <2>1. PICK q \in Called(groups, m) : TRUE
      BY DEF NamesOf
    <2>2. q.Group \in Groups /\ q.At \in DOMAIN groups[q.Group].Modules
          /\ groups[q.Group].Modules[q.At].Name = m
      BY CalledIs DEF EntryAt
    <2>3. q.At \in DOMAIN new[q.Group].Modules /\ new[q.Group].Modules[q.At] = groups[q.Group].Modules[q.At]
      <3>1. CASE q.Group # g
        BY <3>1, <2>2, <1>4
      <3>2. CASE q.Group = g
        <4>1. q.At # p.At
          BY <3>2, <2>2, <1>1
        <4>2. QED
          BY <4>1, <3>2, <2>2, <1>3, <1>4
      <3>3. QED
        BY <3>1, <3>2
    <2>4. QED
      BY <2>2, <2>3, <1>4, NameAt
  <1>7. QED
    BY <1>4, <1>5, <1>6 DEF new, rewritten

LEMMA RemoveAtIs ==
    ASSUME NEW S, NEW s \in Seq(S), NEW i \in 1..Len(s)
    PROVE  /\ RemoveAt(s, i) \in Seq(S)
           /\ DOMAIN RemoveAt(s, i) = 1..(Len(s) - 1)
           /\ \A j \in 1..(Len(s) - 1) : RemoveAt(s, i)[j] = s[IF j < i THEN j ELSE j + 1]
  <1> DEFINE a == SubSeq(s, 1, i - 1)
             b == SubSeq(s, i + 1, Len(s))
  <1>1. Len(s) \in Nat /\ i \in Nat
    BY LenProperties
  <1>2. a \in Seq(S) /\ Len(a) = i - 1 /\ \A j \in 1..(i - 1) : a[j] = s[j]
    BY <1>1, SubSeqProperties
  <1>3. b \in Seq(S) /\ Len(b) = Len(s) - i /\ \A j \in 1..(Len(s) - i) : b[j] = s[i + j]
    BY <1>1, SubSeqProperties
  <1> HIDE DEF a, b
  <1>4. /\ a \o b \in Seq(S)
        /\ Len(a \o b) = Len(s) - 1
        /\ \A j \in 1..(Len(s) - 1) : (a \o b)[j] = IF j <= i - 1 THEN a[j] ELSE b[j - (i - 1)]
    BY <1>1, <1>2, <1>3, ConcatProperties
  <1>5. \A j \in 1..(Len(s) - 1) : (a \o b)[j] = s[IF j < i THEN j ELSE j + 1]
    BY <1>1, <1>2, <1>3, <1>4
  <1>6. QED
    BY <1>4, <1>5, LenProperties DEF RemoveAt, a, b

\* Where what stands at place q after the removal of p stood before it.
Shift(p, q) ==
    IF q.Group = p.Group /\ q.At >= p.At THEN [Group |-> q.Group, At |-> q.At + 1] ELSE q

\* The places left are those there were but p, the later ones of its group moved up.
LEMMA RemovePlaces ==
    ASSUME NEW groups, Typed(groups), NEW n, NEW p \in Called(groups, n), NEW m
    PROVE  LET new == SetModules(groups, p.Group, RemoveAt(groups[p.Group].Modules, p.At))
           IN  /\ Typed(new)
               /\ \A q \in Called(new, m) : Shift(p, q) \in Called(groups, m) \ {p}
               /\ \A q, r \in Called(new, m) : Shift(p, q) = Shift(p, r) => q = r
               /\ \A r \in Called(groups, m) \ {p} : \E q \in Called(new, m) : Shift(p, q) = r
  <1> DEFINE g == p.Group
             i == p.At
             old == groups[g].Modules
             less == RemoveAt(old, i)
             new == SetModules(groups, g, less)
  <1>1. g \in Groups /\ i \in DOMAIN old /\ p = [Group |-> g, At |-> i] /\ g \in Nat
    BY CalledIs
  <1>2. old \in Seq(Entry) /\ DOMAIN old = 1..Len(old) /\ Len(old) \in Nat
    BY <1>1, GroupIs
  <1>3. /\ less \in Seq(Entry) /\ DOMAIN less = 1..(Len(old) - 1)
        /\ \A j \in 1..(Len(old) - 1) : less[j] = old[IF j < i THEN j ELSE j + 1]
    BY <1>1, <1>2, RemoveAtIs
  <1>4. Typed(new) /\ new[g].Modules = less /\ \A h \in Groups \ {g} : new[h] = groups[h]
    <2>1. less \in Seq(Entry)
      BY <1>3
    <2> HIDE DEF less
    <2>2. QED
      BY Zenon, <2>1, <1>1, SetModulesIs
  <1> HIDE DEF new, less
  <1>5. ASSUME NEW q \in Called(new, m) PROVE Shift(p, q) \in Called(groups, m) \ {p}
    <2>1. /\ q = [Group |-> q.Group, At |-> q.At] /\ q.Group \in Groups /\ q.At \in Nat
          /\ q.At \in DOMAIN new[q.Group].Modules /\ new[q.Group].Modules[q.At].Name = m
      BY <1>4, CalledIs DEF EntryAt
    <2>2. CASE q.Group # g
      <3>1. Shift(p, q) = q /\ q # p
        BY <2>2 DEF Shift
      <3>2. q.At \in DOMAIN groups[q.Group].Modules /\ groups[q.Group].Modules[q.At].Name = m
        BY <2>1, <2>2, <1>4
      <3>3. [Group |-> q.Group, At |-> q.At] \in Called(groups, m)
        BY <2>1, <3>2, CalledIs
      <3>4. QED
        BY <3>1, <3>3, <2>1
    <2>3. CASE q.Group = g /\ q.At < i
      <3>1. Shift(p, q) = q /\ q # p
        BY <2>1, <2>3, <1>1, <1>2 DEF Shift
      <3>2. q.At \in DOMAIN old /\ old[q.At].Name = m
        BY <2>1, <2>3, <1>2, <1>3, <1>4
      <3>3. [Group |-> g, At |-> q.At] \in Called(groups, m)
        BY <1>1, <3>2, CalledIs
      <3>4. QED
        BY <3>1, <3>3, <2>1, <2>3
    <2>4. CASE q.Group = g /\ q.At >= i
      <3>1. Shift(p, q) = [Group |-> g, At |-> q.At + 1]
        BY <2>4 DEF Shift
      <3>2. q.At + 1 \in DOMAIN old /\ old[q.At + 1].Name = m /\ q.At + 1 # i
        BY <2>1, <2>4, <1>1, <1>2, <1>3, <1>4
      <3>3. [Group |-> g, At |-> q.At + 1] \in Called(groups, m)
        BY <1>1, <3>2, CalledIs
      <3>4. [Group |-> g, At |-> q.At + 1] # p
        BY <1>1, <3>2
      <3>5. QED
        BY <3>1, <3>3, <3>4
    <2>5. QED
      BY <2>1, <2>2, <2>3, <2>4, <1>1, <1>2
  <1>6. ASSUME NEW q \in Called(new, m), NEW r \in Called(new, m), Shift(p, q) = Shift(p, r)
        PROVE  q = r
    <2>1. /\ q = [Group |-> q.Group, At |-> q.At] /\ q.At \in Nat
          /\ r = [Group |-> r.Group, At |-> r.At] /\ r.At \in Nat
      BY <1>4, CalledIs
    <2>2. i \in Nat
      BY <1>1, <1>2
    <2>3. CASE q.Group = g /\ q.At >= i
      <3>1. Shift(p, q).Group = q.Group /\ Shift(p, q).At = q.At + 1
        BY <2>3 DEF Shift
      <3>2. CASE r.Group = g /\ r.At >= i
        <4>1. Shift(p, r).Group = r.Group /\ Shift(p, r).At = r.At + 1
          BY <3>2 DEF Shift
        <4>2. q.At + 1 = r.At + 1 /\ q.Group = r.Group
          BY <1>6, <3>1, <4>1
        <4>3. q.At = r.At
          BY <4>2, <2>1
        <4>4. QED
          BY <2>1, <4>2, <4>3
      <3>3. CASE ~(r.Group = g /\ r.At >= i)
        <4>1. Shift(p, r) = r
          BY <3>3 DEF Shift
        <4>2. r.Group = g /\ r.At = q.At + 1
          BY <1>6, <3>1, <4>1, <2>3
        <4>3. QED
          BY <4>2, <3>3, <2>1, <2>2, <2>3
      <3>4. QED
        BY <3>2, <3>3
    <2>4. CASE ~(q.Group = g /\ q.At >= i)
      <3>1. Shift(p, q) = q
        BY <2>4 DEF Shift
      <3>2. CASE r.Group = g /\ r.At >= i
        <4>1. Shift(p, r).Group = r.Group /\ Shift(p, r).At = r.At + 1
          BY <3>2 DEF Shift
        <4>2. q.Group = g /\ q.At = r.At + 1
          BY <1>6, <3>1, <4>1, <3>2
        <4>3. QED
          BY <4>2, <2>4, <2>1, <2>2, <3>2
      <3>3. CASE ~(r.Group = g /\ r.At >= i)
        BY <3>1, <3>3, <1>6 DEF Shift
      <3>4. QED
        BY <3>2, <3>3
    <2>5. QED
      BY <2>3, <2>4
  <1>7. ASSUME NEW r \in Called(groups, m) \ {p}
        PROVE  \E q \in Called(new, m) : Shift(p, q) = r
    <2>1. /\ r = [Group |-> r.Group, At |-> r.At] /\ r.Group \in Groups /\ r.At \in Nat
          /\ r.At \in DOMAIN groups[r.Group].Modules /\ groups[r.Group].Modules[r.At].Name = m
      BY CalledIs DEF EntryAt
    <2>2. CASE r.Group # g
      <3>1. r.At \in DOMAIN new[r.Group].Modules /\ new[r.Group].Modules[r.At].Name = m
        BY <2>1, <2>2, <1>4
      <3>2. [Group |-> r.Group, At |-> r.At] \in Called(new, m)
        BY <2>1, <3>1, <1>4, CalledIs
      <3>3. QED
        BY <2>1, <2>2, <3>2 DEF Shift
    <2>3. CASE r.Group = g /\ r.At < i
      <3>1. r.At \in DOMAIN less /\ less[r.At].Name = m
        BY <2>1, <2>3, <1>1, <1>2, <1>3
      <3>2. [Group |-> g, At |-> r.At] \in Called(new, m)
        BY <1>1, <3>1, <1>4, CalledIs
      <3>3. Shift(p, r) = r
        BY <2>1, <2>3, <1>1, <1>2 DEF Shift
      <3>4. QED
        BY <2>1, <2>3, <3>2, <3>3
    <2>4. CASE r.Group = g /\ r.At > i
      <3> DEFINE j == r.At - 1
      <3>1. j \in DOMAIN less /\ less[j] = old[r.At] /\ j \in Nat /\ j >= i /\ j + 1 = r.At
        BY <2>1, <2>4, <1>1, <1>2, <1>3
      <3>2. [Group |-> g, At |-> j] \in Called(new, m)
        BY <1>1, <2>1, <2>4, <3>1, <1>4, CalledIs
      <3> HIDE DEF j
      <3>3. Shift(p, [Group |-> g, At |-> j]) = [Group |-> g, At |-> j + 1]
        BY <3>1 DEF Shift
      <3>4. QED
        BY <2>1, <2>4, <3>1, <3>2, <3>3
    <2>5. r.Group = g => r.At # i
      BY <2>1, <1>1
    <2>6. QED
      BY <2>1, <2>2, <2>3, <2>4, <2>5, <1>1, <1>2
  <1>8. QED
    BY <1>4, <1>5, <1>6, <1>7 DEF new, less

\* The entry at p taken out: one of its name less, and all others as often as before.
LEMMA RemoveTimes ==
    ASSUME NEW groups, Typed(groups), NEW n \in Names, NEW p \in Called(groups, n)
    PROVE  LET new == SetModules(groups, p.Group, RemoveAt(groups[p.Group].Modules, p.At))
           IN  /\ Typed(new)
               /\ NamesOf(groups) \ {n} \subseteq NamesOf(new)
               /\ \A m \in Names : Times(new, m) = Times(groups, m) - (IF m = n THEN 1 ELSE 0)
  <1> DEFINE new == SetModules(groups, p.Group, RemoveAt(groups[p.Group].Modules, p.At))
  <1>1. Typed(new)
    BY Zenon, RemovePlaces
  <1>2. ASSUME NEW m PROVE /\ \A q \in Called(new, m) : Shift(p, q) \in Called(groups, m) \ {p}
                           /\ \A q, r \in Called(new, m) : Shift(p, q) = Shift(p, r) => q = r
                           /\ \A r \in Called(groups, m) \ {p} : \E q \in Called(new, m) : Shift(p, q) = r
    BY RemovePlaces
  <1>3. p \in Called(groups, n) /\ \A m : m # n => p \notin Called(groups, m)
    BY CalledIs
  <1> HIDE DEF new
  <1>4. ASSUME NEW m \in Names
        PROVE  Times(new, m) = Times(groups, m) - (IF m = n THEN 1 ELSE 0)
    <2> DEFINE S == Called(new, m)
               T == Called(groups, m) \ {p}
               f == [q \in S |-> Shift(p, q)]
    <2>1. f \in Bijection(S, T)
      BY <1>2 DEF Bijection, Injection, Surjection, IsInjective
    <2>2. IsFiniteSet(S) /\ IsFiniteSet(Called(groups, m))
      BY <1>1, CalledFinite
    <2>3. Cardinality(T) = Cardinality(S)
      <3> HIDE DEF f, S, T
      <3>1. ExistsBijection(S, T)
        BY <2>1 DEF ExistsBijection
      <3>2. QED
        BY <3>1, <2>2, FS_Bijection
    <2>4. Cardinality(T) = IF p \in Called(groups, m) THEN Cardinality(Called(groups, m)) - 1
                                                       ELSE Cardinality(Called(groups, m))
      BY <2>2, FS_RemoveElement
    <2>5. Cardinality(Called(groups, m)) \in Nat
      BY <2>2, FS_CardinalityType
    <2>6. QED
      BY <2>3, <2>4, <2>5, <1>3 DEF Times
  <1>5. ASSUME NEW m \in NamesOf(groups) \ {n} PROVE m \in NamesOf(new)
    <2>1. m \in Names /\ Called(groups, m) # {}
      BY DEF NamesOf
    <2>2. PICK r \in Called(groups, m) \ {p} : TRUE
      BY <2>1, <1>3
    <2>3. Called(new, m) # {}
      BY <2>2, <1>2
    <2>4. QED
      BY <2>1, <2>3 DEF NamesOf
  <1>6. QED
    BY <1>1, <1>4, <1>5 DEF new

\* An entry appended: one of its name more, and all others as often as before.
LEMMA AppendTimes ==
    ASSUME NEW groups, Typed(groups), NEW g \in Groups, NEW e \in Entry
    PROVE  \A m \in Names :
             Times(SetModules(groups, g, Append(groups[g].Modules, e)), m)
               = Times(groups, m) + (IF m = e.Name THEN 1 ELSE 0)
  <1> DEFINE old == groups[g].Modules
             more == Append(old, e)
             new == SetModules(groups, g, more)
             p == [Group |-> g, At |-> Len(old) + 1]
  <1>1. old \in Seq(Entry) /\ DOMAIN old = 1..Len(old) /\ Len(old) \in Nat
    BY GroupIs
  <1>2. /\ more \in Seq(Entry) /\ DOMAIN more = 1..(Len(old) + 1)
        /\ \A i \in 1..Len(old) : more[i] = old[i]
        /\ more[Len(old) + 1] = e
    BY <1>1, AppendProperties, LenProperties
  <1>3. Typed(new) /\ new[g].Modules = more /\ \A h \in Groups \ {g} : new[h] = groups[h]
    <2>1. more \in Seq(Entry)
      BY <1>2
    <2> HIDE DEF more
    <2>2. QED
      BY Zenon, <2>1, SetModulesIs
  <1> HIDE DEF new, more
  <1> SUFFICES ASSUME NEW m \in Names
               PROVE  Times(new, m) = Times(groups, m) + (IF m = e.Name THEN 1 ELSE 0)
    BY DEF new, more
  <1>4. ASSUME NEW q \in Called(new, m) PROVE q \in Called(groups, m) \/ (q = p /\ m = e.Name)
    <2>1. /\ q = [Group |-> q.Group, At |-> q.At] /\ q.Group \in Groups
          /\ q.At \in DOMAIN new[q.Group].Modules /\ new[q.Group].Modules[q.At].Name = m
      BY <1>3, CalledIs DEF EntryAt
    <2>2. CASE q.Group # g \/ q.At \in 1..Len(old)
      <3>1. q.At \in DOMAIN groups[q.Group].Modules /\ groups[q.Group].Modules[q.At].Name = m
        BY <1>1, <1>2, <1>3, <2>1, <2>2
      <3>2. [Group |-> q.Group, At |-> q.At] \in Called(groups, m)
        BY <2>1, <3>1, CalledIs
      <3>3. QED
        BY <2>1, <3>2
    <2>3. CASE q.Group = g /\ q.At \notin 1..Len(old)
      <3>1. q.At = Len(old) + 1
        BY <1>1, <1>2, <1>3, <2>1, <2>3
      <3>2. QED
        BY <1>2, <1>3, <2>1, <2>3, <3>1
    <2>4. QED
      BY <2>2, <2>3
  <1>5. ASSUME NEW q \in Called(groups, m) PROVE q \in Called(new, m) /\ q # p
    <2>1. /\ q = [Group |-> q.Group, At |-> q.At] /\ q.Group \in Groups
          /\ q.At \in DOMAIN groups[q.Group].Modules /\ groups[q.Group].Modules[q.At].Name = m
      BY CalledIs DEF EntryAt
    <2>2. q.At \in DOMAIN new[q.Group].Modules /\ new[q.Group].Modules[q.At].Name = m
      BY <1>1, <1>2, <1>3, <2>1
    <2>3. [Group |-> q.Group, At |-> q.At] \in Called(new, m)
      BY <1>3, <2>1, <2>2, CalledIs
    <2>4. ~(q.Group = g /\ q.At = Len(old) + 1)
      BY <1>1, <2>1
    <2>5. QED
      BY <2>1, <2>3, <2>4
  <1>6. m = e.Name => p \in Called(new, m)
    BY <1>1, <1>2, <1>3, CalledIs
  <1> HIDE DEF p
  <1>7. IsFiniteSet(Called(groups, m)) /\ Cardinality(Called(groups, m)) \in Nat
    BY CalledFinite, FS_CardinalityType
  <1>8. CASE m = e.Name
    <2>1. Called(new, m) = Called(groups, m) \cup {p} /\ p \notin Called(groups, m)
      BY <1>4, <1>5, <1>6, <1>8
    <2>2. QED
      BY <1>7, <1>8, <2>1, FS_AddElement DEF Times
  <1>9. CASE m # e.Name
    <2>1. Called(new, m) = Called(groups, m)
      BY <1>4, <1>5, <1>9
    <2>2. QED
      BY <1>7, <1>9, <2>1 DEF Times
  <1>10. QED
    BY <1>8, <1>9

\* An entry rewritten: the names it neither had nor has are as often there.
LEMMA ReplaceTimes ==
    ASSUME NEW groups, Typed(groups), NEW n, NEW p \in Called(groups, n), NEW e \in Entry
    PROVE  \A m \in Names \ {n, e.Name} :
             Times(SetModules(groups, p.Group, [groups[p.Group].Modules EXCEPT ![p.At] = e]), m)
               = Times(groups, m)
  <1> DEFINE old == groups[p.Group].Modules
             rewritten == [old EXCEPT ![p.At] = e]
             new == SetModules(groups, p.Group, rewritten)
  <1>1. p.Group \in Groups /\ p.At \in DOMAIN old /\ old[p.At].Name = n
    BY CalledIs DEF EntryAt
  <1>2. /\ rewritten \in Seq(Entry) /\ DOMAIN rewritten = DOMAIN old
        /\ \A j \in DOMAIN old : rewritten[j] = IF j = p.At THEN e ELSE old[j]
    <2>1. old \in Seq(Entry) /\ DOMAIN old = 1..Len(old)
      BY <1>1, GroupIs
    <2>2. rewritten \in Seq(Entry)
      BY <1>1, <2>1, ExceptSeq
    <2>3. QED
      BY <2>2, <1>1
  <1>3. Typed(new) /\ new[p.Group].Modules = rewritten /\ \A h \in Groups \ {p.Group} : new[h] = groups[h]
    <2>1. rewritten \in Seq(Entry)
      BY <1>2
    <2> HIDE DEF rewritten
    <2>2. QED
      BY Zenon, <1>1, <2>1, SetModulesIs
  <1> HIDE DEF new, rewritten
  <1>4. ASSUME NEW m \in Names \ {n, e.Name} PROVE Called(new, m) = Called(groups, m)
    <2>1. ASSUME NEW q \in Called(new, m) PROVE q \in Called(groups, m)
      <3>1. /\ q = [Group |-> q.Group, At |-> q.At] /\ q.Group \in Groups
            /\ q.At \in DOMAIN new[q.Group].Modules /\ new[q.Group].Modules[q.At].Name = m
        BY <1>3, CalledIs DEF EntryAt
      <3>2. q.At \in DOMAIN groups[q.Group].Modules /\ groups[q.Group].Modules[q.At].Name = m
        BY <1>2, <1>3, <1>4, <3>1
      <3>3. [Group |-> q.Group, At |-> q.At] \in Called(groups, m)
        BY <3>1, <3>2, CalledIs
      <3>4. QED
        BY <3>1, <3>3
    <2>2. ASSUME NEW q \in Called(groups, m) PROVE q \in Called(new, m)
      <3>1. /\ q = [Group |-> q.Group, At |-> q.At] /\ q.Group \in Groups
            /\ q.At \in DOMAIN groups[q.Group].Modules /\ groups[q.Group].Modules[q.At].Name = m
        BY CalledIs DEF EntryAt
      <3>2. q.At \in DOMAIN new[q.Group].Modules /\ new[q.Group].Modules[q.At].Name = m
        BY <1>1, <1>2, <1>3, <1>4, <3>1
      <3>3. [Group |-> q.Group, At |-> q.At] \in Called(new, m)
        BY <1>3, <3>1, <3>2, CalledIs
      <3>4. QED
        BY <3>1, <3>3
    <2>3. QED
      BY <2>1, <2>2
  <1>5. QED
    BY <1>4 DEF Times, new, rewritten

\* The modules alone decide how often a name is there.
LEMMA SameModulesTimes ==
    ASSUME NEW old, NEW new, \A g \in Groups : new[g].Modules = old[g].Modules
    PROVE  \A n \in Names : Times(new, n) = Times(old, n)
  <1>1. \A n \in Names : Called(new, n) = Called(old, n)
    BY DEF Called
  <1>2. QED
    BY <1>1 DEF Times

-----------------------------------------------------------------------------
(* The sort of a backfill, and what it leaves in each group. *)

UpTo(modules, i) == {j \in DOMAIN modules : NotAfter(modules, j, i)}

\* The elements up to one, by name and then by place, grow from each to the next.
LEMMA NotAfterOrders ==
    ASSUME NEW s \in Seq(Entry), NEW i \in DOMAIN s, NEW k \in DOMAIN s
    PROVE  /\ i \in UpTo(s, i)
           /\ NotAfter(s, i, k) => UpTo(s, i) \subseteq UpTo(s, k)
           /\ NotAfter(s, i, k) \/ NotAfter(s, k, i)
           /\ i # k => ~(NotAfter(s, i, k) /\ NotAfter(s, k, i))
  <1>1. DOMAIN s = 1..Len(s) /\ Len(s) \in Nat
    BY LenProperties
  <1>2. \A j \in DOMAIN s : s[j].Name \in Nat /\ j \in Nat
    BY <1>1, ElementOfSeq, EntryIs
  <1>3. ASSUME NotAfter(s, i, k), NEW j \in UpTo(s, i) PROVE j \in UpTo(s, k)
    <2>1. j \in DOMAIN s /\ NotAfter(s, j, i)
      BY DEF UpTo
    <2>2. NotAfter(s, j, k)
      BY <1>2, <1>3, <2>1 DEF NotAfter
    <2>3. QED
      BY <2>1, <2>2 DEF UpTo
  <1>4. NotAfter(s, i, i) /\ (NotAfter(s, i, k) \/ NotAfter(s, k, i))
    BY <1>2 DEF NotAfter
  <1>5. i # k => ~(NotAfter(s, i, k) /\ NotAfter(s, k, i))
    BY <1>2 DEF NotAfter
  <1>6. QED
    BY <1>3, <1>4, <1>5 DEF UpTo

\* An element's rank is a place of the sequence, and comes in its order.
LEMMA RankIs ==
    ASSUME NEW s \in Seq(Entry)
    PROVE  /\ \A i \in DOMAIN s : RankOf(s, i) \in DOMAIN s /\ RankOf(s, i) \in Nat
           /\ \A i, k \in DOMAIN s : i # k /\ NotAfter(s, i, k) => RankOf(s, i) < RankOf(s, k)
  <1>1. DOMAIN s = 1..Len(s) /\ Len(s) \in Nat
    BY LenProperties
  <1>2. IsFiniteSet(DOMAIN s) /\ Cardinality(DOMAIN s) = Len(s)
    BY <1>1, FS_Interval
  <1>3. ASSUME NEW i \in DOMAIN s
        PROVE  /\ UpTo(s, i) \subseteq DOMAIN s /\ IsFiniteSet(UpTo(s, i))
               /\ RankOf(s, i) = Cardinality(UpTo(s, i))
               /\ RankOf(s, i) \in Nat /\ RankOf(s, i) <= Len(s) /\ RankOf(s, i) >= 1
    <2>1. UpTo(s, i) \subseteq DOMAIN s /\ RankOf(s, i) = Cardinality(UpTo(s, i))
      BY DEF UpTo, RankOf
    <2>2. IsFiniteSet(UpTo(s, i)) /\ Cardinality(UpTo(s, i)) <= Cardinality(DOMAIN s)
      BY <1>2, <2>1, FS_Subset
    <2>3. Cardinality(UpTo(s, i)) \in Nat /\ Cardinality(UpTo(s, i)) # 0
      BY <2>2, NotAfterOrders, FS_CardinalityType, FS_EmptySet
    <2>4. QED
      BY <1>2, <2>1, <2>2, <2>3
  <1>4. ASSUME NEW i \in DOMAIN s, NEW k \in DOMAIN s, i # k, NotAfter(s, i, k)
        PROVE  RankOf(s, i) < RankOf(s, k)
    <2>1. UpTo(s, i) \subseteq UpTo(s, k)
      BY <1>4, NotAfterOrders
    <2>2. k \in UpTo(s, k) /\ k \notin UpTo(s, i)
      BY <1>4, NotAfterOrders DEF UpTo
    <2>3. UpTo(s, i) # UpTo(s, k)
      BY <2>2
    <2>4. /\ Cardinality(UpTo(s, i)) <= Cardinality(UpTo(s, k))
          /\ Cardinality(UpTo(s, i)) # Cardinality(UpTo(s, k))
      BY <1>3, <2>1, <2>3, FS_Subset
    <2>5. QED
      BY <1>3, <2>4
  <1>5. QED
    BY <1>1, <1>3, <1>4

\* The sorted sequence holds what the other did, each element as often, in the
\* order of the names.
LEMMA SortedIs ==
    ASSUME NEW s \in Seq(Entry)
    PROVE  /\ SortedByName(s) \in Seq(Entry)
           /\ DOMAIN SortedByName(s) = DOMAIN s
           /\ \E f \in Bijection(DOMAIN s, DOMAIN s) :
                \A i \in DOMAIN s : SortedByName(s)[f[i]] = s[i]
           /\ \A k, l \in DOMAIN s :
                k < l => SortedByName(s)[k].Name <= SortedByName(s)[l].Name
  <1> DEFINE f == [i \in DOMAIN s |-> RankOf(s, i)]
             at(k) == CHOOSE i \in DOMAIN s : RankOf(s, i) = k
  <1>1. DOMAIN s = 1..Len(s) /\ Len(s) \in Nat /\ IsFiniteSet(DOMAIN s)
    BY LenProperties, FS_Interval
  <1>2. ASSUME NEW i \in DOMAIN s, NEW k \in DOMAIN s, RankOf(s, i) = RankOf(s, k)
        PROVE  i = k
    BY <1>2, RankIs, NotAfterOrders
  <1>3. f \in Injection(DOMAIN s, DOMAIN s)
    BY <1>2, RankIs DEF Injection, IsInjective
  <1>4. f \in Surjection(DOMAIN s, DOMAIN s)
    <2> HIDE DEF f
    <2>1. QED
      BY <1>1, <1>3, FS_Injection
  <1>5. \A k \in DOMAIN s : \E i \in DOMAIN s : RankOf(s, i) = k
    BY <1>4 DEF Surjection
  <1>6. \A k \in DOMAIN s : at(k) \in DOMAIN s /\ RankOf(s, at(k)) = k
    BY <1>5
  <1>7. \A i \in DOMAIN s : at(RankOf(s, i)) = i
    <2>1. TAKE i \in DOMAIN s
    <2>2. RankOf(s, i) \in DOMAIN s
      BY RankIs
    <2>3. at(RankOf(s, i)) \in DOMAIN s /\ RankOf(s, at(RankOf(s, i))) = RankOf(s, i)
      BY <1>6, <2>2
    <2>4. QED
      BY <1>2, <2>3
  <1> HIDE DEF at
  <1>8. SortedByName(s) = [k \in DOMAIN s |-> s[at(k)]]
    BY DEF SortedByName, at
  <1>9. SortedByName(s) \in Seq(Entry)
    <2>1. \A k \in 1..Len(s) : s[at(k)] \in Entry
      BY <1>1, <1>6, ElementOfSeq
    <2>2. QED
      BY <1>1, <1>8, <2>1, IsASeq
  <1>10. \A i \in DOMAIN s : SortedByName(s)[f[i]] = s[i]
    BY <1>7, <1>8, RankIs
  <1>11. ASSUME NEW k \in DOMAIN s, NEW l \in DOMAIN s, k < l
         PROVE  SortedByName(s)[k].Name <= SortedByName(s)[l].Name
    <2>1. at(k) \in DOMAIN s /\ at(l) \in DOMAIN s /\ RankOf(s, at(k)) = k /\ RankOf(s, at(l)) = l
      BY <1>6
    <2>2. at(k) # at(l) /\ k \in Nat /\ l \in Nat
      BY <1>1, <1>11, <2>1
    <2>3. ~NotAfter(s, at(l), at(k))
      <3>1. NotAfter(s, at(l), at(k)) => l < k
        BY <2>1, <2>2, RankIs
      <3>2. QED
        BY <1>11, <2>2, <3>1
    <2>4. s[at(k)].Name \in Nat /\ s[at(l)].Name \in Nat
      BY <1>1, <2>1, ElementOfSeq, EntryIs
    <2>5. s[at(k)].Name <= s[at(l)].Name
      BY <2>3, <2>4 DEF NotAfter
    <2>6. QED
      BY <1>8, <2>5
  <1>12. f \in Bijection(DOMAIN s, DOMAIN s)
    BY <1>3, <1>4 DEF Bijection
  <1>13. DOMAIN SortedByName(s) = DOMAIN s
    BY <1>8
  <1> HIDE DEF f
  <1>14. QED
    BY <1>9, <1>10, <1>11, <1>12, <1>13

LEMMA SetToSeqIs ==
    ASSUME NEW S, IsFiniteSet(S)
    PROVE  SetToSeq(S) \in Seq(S) /\ \A x \in S : \E i \in DOMAIN SetToSeq(S) : SetToSeq(S)[i] = x
  <1> DEFINE n == Cardinality(S)
  <1>1. n \in Nat /\ ExistsBijection(1..n, S)
    BY FS_CardinalityType
  <1>2. PICK f : f \in Bijection(1..n, S)
    BY <1>1 DEF ExistsBijection
  <1>3. f \in [1..n -> S] /\ IsInjective(f)
    BY <1>2 DEF Bijection, Injection
  <1>4. SetToSeq(S) \in [1..n -> S] /\ IsInjective(SetToSeq(S))
    BY <1>3 DEF SetToSeq
  <1>5. SetToSeq(S) \in Surjection(1..n, S)
    <2>1. SetToSeq(S) \in Injection(1..n, S)
      BY <1>4 DEF Injection
    <2>2. Cardinality(1..n) = n
      BY <1>1, FS_Interval
    <2>3. QED
      BY <2>1, <2>2, FS_Injection
  <1>6. SetToSeq(S) \in Seq(S)
    BY <1>1, <1>4
  <1>7. QED
    BY <1>4, <1>5, <1>6 DEF Surjection

\* The directories discovery finds carry a marker, so they can be entries.
LEMMA NewModulesAre ==
    ASSUME marked \subseteq Marked \cup Cloned, NEW groups, NEW index, NEW g \in Groups
    PROVE  /\ IsFiniteSet({synthesizeEntry(d) : d \in NewModules(groups, index, g)})
           /\ {synthesizeEntry(d) : d \in NewModules(groups, index, g)} \subseteq Entry
           /\ \A d \in discoverGroupModules(g) : d \in Paths /\ d # NoDir
  <1> DEFINE S == NewModules(groups, index, g)
             T == {synthesizeEntry(d) : d \in S}
             f == [d \in S |-> synthesizeEntry(d)]
  <1>1. discoverGroupModules(g) \subseteq marked
    BY DEF discoverGroupModules
  <1>2. \A d \in discoverGroupModules(g) : d \in Tree /\ d[Len(d)] \in Names /\ d \in Paths /\ d # NoDir
    BY <1>1, ManifestAssumption DEF Paths
  <1>3. S \subseteq discoverGroupModules(g)
    BY DEF NewModules
  <1>4. T \subseteq Entry
    BY <1>2, <1>3 DEF synthesizeEntry, Entry
  <1>5. IsFiniteSet(S)
    BY <1>2, <1>3, ManifestAssumption, FS_Subset
  <1>6. f \in Surjection(S, T)
    BY DEF Surjection
  <1>7. IsFiniteSet(T)
    <2> HIDE DEF S, T, f
    <2>1. QED
      BY <1>5, <1>6, FS_Surjection
  <1>8. QED
    BY <1>2, <1>4, <1>7

\* The entries of one sequence are in another, each at a place of its own, and
\* what is at other places has one of these names.
Moved(from, to, names) ==
    \E f \in Injection(DOMAIN from, DOMAIN to) :
      /\ \A i \in DOMAIN from : to[f[i]] = from[i]
      /\ \A k \in DOMAIN to : to[k].Name \notin names => \E i \in DOMAIN from : f[i] = k

\* A backfilled group has the entries it had, each as often at least, and one
\* for each new directory.
LEMMA BackfilledIs ==
    ASSUME marked \subseteq Marked \cup Cloned, NEW groups, Typed(groups), NEW index
    PROVE  LET new == Backfilled(groups, index)
           IN  /\ Typed(new)
               /\ \A g \in Groups : \A e :
                    Count(new[g].Modules, e) >= Count(groups[g].Modules, e)
               /\ \A g \in Groups : \A e \in Range(groups[g].Modules) : e \in Range(new[g].Modules)
               /\ \A g \in Groups : \A d \in NewModules(groups, index, g) :
                    synthesizeEntry(d) \in Range(new[g].Modules)
               /\ \A g \in Groups : Moved(groups[g].Modules, new[g].Modules, NewNames(groups, index))
  <1> DEFINE new == Backfilled(groups, index)
  <1>1. ASSUME NEW g \in Groups
        PROVE  /\ new[g] \in Group
               /\ \A e : Count(new[g].Modules, e) >= Count(groups[g].Modules, e)
               /\ \A e \in Range(groups[g].Modules) : e \in Range(new[g].Modules)
               /\ \A d \in NewModules(groups, index, g) : synthesizeEntry(d) \in Range(new[g].Modules)
               /\ Moved(groups[g].Modules, new[g].Modules, NewNames(groups, index))
    <2> DEFINE S == {synthesizeEntry(d) : d \in NewModules(groups, index, g)}
               old == groups[g].Modules
               added == NewEntries(groups, index, g)
               all == old \o added
               sorted == SortedByName(all)
    <2>1. /\ old \in Seq(Entry) /\ Len(old) \in Nat /\ DOMAIN old = 1..Len(old)
          /\ groups[g].Description \in Descriptions
      BY GroupIs
    <2>2. /\ added \in Seq(Entry) /\ Len(added) \in Nat /\ DOMAIN added = 1..Len(added)
          /\ \A x \in S : \E i \in DOMAIN added : added[i] = x
          /\ \A i \in DOMAIN added : added[i].Name \in NewNames(groups, index)
      <3>1. added \in Seq(S) /\ \A x \in S : \E i \in DOMAIN added : added[i] = x
        BY NewModulesAre, SetToSeqIs DEF NewEntries
      <3>2. S \subseteq Entry
        BY NewModulesAre
      <3>3. \A x \in S : x.Name \in NewNames(groups, index)
        BY DEF synthesizeEntry, NewNames
      <3> HIDE DEF S, added
      <3>4. added \in Seq(Entry)
        BY <3>1, <3>2, SeqMonotonic
      <3>5. DOMAIN added = 1..Len(added) /\ Len(added) \in Nat /\ \A i \in DOMAIN added : added[i] \in S
        BY <3>1, LenProperties, ElementOfSeq
      <3>6. QED
        BY <3>1, <3>3, <3>4, <3>5
    <2> HIDE DEF added
    <2>3. /\ all \in Seq(Entry) /\ DOMAIN all = 1..(Len(old) + Len(added))
          /\ \A i \in DOMAIN old : i \in DOMAIN all /\ all[i] = old[i]
          /\ \A i \in DOMAIN added : Len(old) + i \in DOMAIN all /\ all[Len(old) + i] = added[i]
      <3> HIDE DEF old
      <3>1. /\ all \in Seq(Entry) /\ Len(all) = Len(old) + Len(added)
            /\ \A i \in 1..(Len(old) + Len(added)) :
                 all[i] = IF i <= Len(old) THEN old[i] ELSE added[i - Len(old)]
        BY <2>1, <2>2, ConcatProperties
      <3>2. DOMAIN all = 1..(Len(old) + Len(added))
        BY <3>1, LenProperties
      <3>3. \A i \in DOMAIN old : i \in DOMAIN all /\ all[i] = old[i]
        BY <2>1, <2>2, <3>1, <3>2
      <3>4. \A i \in DOMAIN added : Len(old) + i \in DOMAIN all /\ all[Len(old) + i] = added[i]
        <4>1. TAKE i \in DOMAIN added
        <4>2. /\ Len(old) + i \in 1..(Len(old) + Len(added))
              /\ ~(Len(old) + i <= Len(old)) /\ (Len(old) + i) - Len(old) = i
          BY <2>1, <2>2
        <4>3. QED
          BY <3>1, <3>2, <4>2
      <3>5. QED
        BY <3>1, <3>2, <3>3, <3>4
    <2> HIDE DEF all
    <2>4. /\ sorted \in Seq(Entry) /\ DOMAIN sorted = DOMAIN all
          /\ \E f \in Bijection(DOMAIN all, DOMAIN all) : \A i \in DOMAIN all : sorted[f[i]] = all[i]
      BY <2>3, SortedIs
    <2>5. PICK f \in Bijection(DOMAIN all, DOMAIN all) : \A i \in DOMAIN all : sorted[f[i]] = all[i]
      BY <2>4
    <2>6. new[g] = [Modules |-> sorted, Description |-> groups[g].Description]
      BY DEF Backfilled, all, added
    <2> HIDE DEF new, sorted
    <2>7. f \in [DOMAIN all -> DOMAIN sorted] /\ \A i, j \in DOMAIN all : f[i] = f[j] => i = j
      BY <2>4, <2>5 DEF Bijection, Injection, IsInjective
    <2>8. ASSUME NEW e PROVE Count(sorted, e) >= Count(old, e)
      <3> DEFINE A == {i \in DOMAIN old : old[i] = e}
                 B == {k \in DOMAIN sorted : sorted[k] = e}
                 h == [i \in A |-> f[i]]
      <3>1. IsFiniteSet(B)
        <4>1. B \subseteq 1..(Len(old) + Len(added))
          BY <2>3, <2>4
        <4>2. Len(old) + Len(added) \in Int
          BY <2>1, <2>2
        <4> HIDE DEF B, old
        <4>. IsFiniteSet(1..(Len(old) + Len(added)))
          BY <4>2, FS_Interval
        <4>3. QED
          BY <4>1, FS_Subset
      <3>2. \A i \in A : i \in DOMAIN all /\ f[i] \in B
        BY <2>3, <2>5, <2>7
      <3>3. h \in Injection(A, B)
        BY <3>2, <2>7 DEF Injection, IsInjective
      <3>4. IsFiniteSet(A) /\ Cardinality(A) <= Cardinality(B)
        <4> HIDE DEF A, B, h
        <4>1. QED
          BY <3>1, <3>3, FS_Injection
      <3>5. Cardinality(A) \in Nat /\ Cardinality(B) \in Nat
        BY <3>1, <3>4, FS_CardinalityType
      <3>6. QED
        BY <3>4, <3>5 DEF Count
    <2>9. \A e \in Range(old) : e \in Range(sorted)
      BY <2>3, <2>5, <2>7 DEF Range
    <2>10. ASSUME NEW d \in NewModules(groups, index, g) PROVE synthesizeEntry(d) \in Range(sorted)
      <3>1. PICK i \in DOMAIN added : added[i] = synthesizeEntry(d)
        BY <2>2
      <3>2. Len(old) + i \in DOMAIN all /\ all[Len(old) + i] = synthesizeEntry(d)
        BY <2>3, <3>1
      <3>3. QED
        BY <3>2, <2>5, <2>7 DEF Range
    <2>11. new[g] \in Group
      BY <2>1, <2>4, <2>6 DEF Group
    <2>12. Moved(old, sorted, NewNames(groups, index))
      <3> DEFINE h == [i \in DOMAIN old |-> f[i]]
      <3>1. h \in Injection(DOMAIN old, DOMAIN sorted) /\ \A i \in DOMAIN old : sorted[h[i]] = old[i]
        BY <2>3, <2>5, <2>7 DEF Injection, IsInjective
      <3>2. ASSUME NEW k \in DOMAIN sorted, sorted[k].Name \notin NewNames(groups, index)
            PROVE  \E i \in DOMAIN old : h[i] = k
        <4>1. PICK i \in DOMAIN all : f[i] = k
          BY <2>4, <2>5 DEF Bijection, Surjection
        <4>2. all[i].Name \notin NewNames(groups, index)
          BY <2>5, <3>2, <4>1
        <4>3. i \in DOMAIN old
          <5>1. SUFFICES ASSUME i \notin DOMAIN old PROVE FALSE
            OBVIOUS
          <5>2. i \in Int /\ 1 <= i /\ i <= Len(old) + Len(added) /\ ~(i <= Len(old))
            BY <2>1, <2>2, <2>3, <5>1
          <5>3. i - Len(old) \in DOMAIN added /\ Len(old) + (i - Len(old)) = i
            BY <2>1, <2>2, <5>2
          <5>4. all[i] = added[i - Len(old)]
            BY <2>3, <5>3
          <5>5. QED
            BY <2>2, <4>2, <5>3, <5>4
        <4>4. QED
          BY <4>1, <4>3
      <3> HIDE DEF h
      <3>3. QED
        BY <3>1, <3>2 DEF Moved
    <2>13. QED
      BY <2>6, <2>8, <2>9, <2>10, <2>11, <2>12
  <1>2. Typed(new)
    <2>1. \A g \in Groups : new[g] \in Group
      BY <1>1
    <2>2. new = [g \in Groups |-> new[g]]
      BY DEF Backfilled
    <2> HIDE DEF new
    <2>3. QED
      BY <2>1, <2>2 DEF Typed
  <1> HIDE DEF new
  <1>3. QED
    BY <1>1, <1>2 DEF new

LEMMA BackfilledNames ==
    ASSUME marked \subseteq Marked \cup Cloned, NEW groups, Typed(groups), NEW index
    PROVE  NamesOf(groups) \subseteq NamesOf(Backfilled(groups, index))
  <1> DEFINE new == Backfilled(groups, index)
  <1>1. Typed(new) /\ \A g \in Groups : \A e \in Range(groups[g].Modules) : e \in Range(new[g].Modules)
    BY BackfilledIs
  <1> HIDE DEF new
  <1>2. ASSUME NEW n \in NamesOf(groups) PROVE n \in NamesOf(new)
    <2>1. PICK p \in Called(groups, n) : TRUE
      BY DEF NamesOf
    <2>2. p.Group \in Groups /\ p.At \in DOMAIN groups[p.Group].Modules
          /\ groups[p.Group].Modules[p.At].Name = n
      BY CalledIs DEF EntryAt
    <2>3. groups[p.Group].Modules[p.At] \in Range(groups[p.Group].Modules)
      BY <2>2 DEF Range
    <2>4. PICK k \in DOMAIN new[p.Group].Modules : new[p.Group].Modules[k] = groups[p.Group].Modules[p.At]
      BY <1>1, <2>2, <2>3 DEF Range
    <2>5. QED
      BY <1>1, <2>2, <2>4, NameAt
  <1>3. QED
    BY <1>2 DEF new

\* A backfill names entries after directories that carry a marker.
LEMMA NewNamesAre ==
    ASSUME marked \subseteq Marked \cup Cloned, NEW groups, NEW index
    PROVE  NewNames(groups, index) \subseteq Names
  <1>1. \A g \in Groups : NewModules(groups, index, g) \subseteq marked
    BY DEF NewModules, discoverGroupModules
  <1>2. \A d \in marked : d[Len(d)] \in Names
    BY ManifestAssumption
  <1>3. QED
    BY <1>1, <1>2 DEF NewNames

\* A name the backfill adds no entry of is there as often as before, though the
\* entries are sorted.
LEMMA BackfilledTimes ==
    ASSUME marked \subseteq Marked \cup Cloned, NEW groups, Typed(groups), NEW index,
           NEW m \in Names \ NewNames(groups, index)
    PROVE  Times(Backfilled(groups, index), m) = Times(groups, m)
  <1> DEFINE new == Backfilled(groups, index)
             names == NewNames(groups, index)
             S == Called(groups, m)
             T == Called(new, m)
             Moves(g, f) ==
               /\ f \in Injection(DOMAIN groups[g].Modules, DOMAIN new[g].Modules)
               /\ \A i \in DOMAIN groups[g].Modules : new[g].Modules[f[i]] = groups[g].Modules[i]
               /\ \A k \in DOMAIN new[g].Modules :
                    new[g].Modules[k].Name \notin names => \E i \in DOMAIN groups[g].Modules : f[i] = k
             move == [g \in Groups |-> CHOOSE f : Moves(g, f)]
             h == [p \in S |-> [Group |-> p.Group, At |-> move[p.Group][p.At]]]
  <1>1. Typed(new) /\ \A g \in Groups : Moved(groups[g].Modules, new[g].Modules, names)
    BY BackfilledIs
  <1> HIDE DEF new, names
  <1>2. \A g \in Groups : Moves(g, move[g])
    <2>1. TAKE g \in Groups
    <2>2. \E f : Moves(g, f)
      BY <1>1 DEF Moved
    <2> HIDE DEF Moves
    <2>3. Moves(g, CHOOSE f : Moves(g, f))
      BY <2>2
    <2>4. QED
      BY <2>3
  <1> HIDE DEF move
  <1>3. ASSUME NEW p \in S
        PROVE  /\ p.Group \in Groups /\ p.At \in DOMAIN groups[p.Group].Modules
               /\ p = [Group |-> p.Group, At |-> p.At] /\ groups[p.Group].Modules[p.At].Name = m
               /\ h[p] = [Group |-> p.Group, At |-> move[p.Group][p.At]] /\ h[p] \in T
    <2>1. /\ p.Group \in Groups /\ p.At \in DOMAIN groups[p.Group].Modules
          /\ p = [Group |-> p.Group, At |-> p.At] /\ groups[p.Group].Modules[p.At].Name = m
      BY CalledIs DEF EntryAt
    <2>2. /\ move[p.Group][p.At] \in DOMAIN new[p.Group].Modules
          /\ new[p.Group].Modules[move[p.Group][p.At]].Name = m
      BY <1>2, <2>1 DEF Injection
    <2>3. [Group |-> p.Group, At |-> move[p.Group][p.At]] \in T
      BY <1>1, <2>1, <2>2, CalledIs
    <2>4. QED
      BY <2>1, <2>3
  <1>4. ASSUME NEW p \in S, NEW q \in S, h[p] = h[q] PROVE p = q
    <2>1. p.Group = q.Group /\ move[p.Group][p.At] = move[p.Group][q.At]
      BY <1>3, <1>4
    <2>2. /\ IsInjective(move[p.Group]) /\ DOMAIN move[p.Group] = DOMAIN groups[p.Group].Modules
          /\ p.At \in DOMAIN groups[p.Group].Modules /\ q.At \in DOMAIN groups[p.Group].Modules
      BY <1>2, <1>3, <2>1 DEF Injection
    <2>3. p.At = q.At
      BY <2>1, <2>2 DEF IsInjective
    <2>4. QED
      BY <1>3, <2>1, <2>3
  <1>5. ASSUME NEW q \in T PROVE \E p \in S : h[p] = q
    <2>1. /\ q.Group \in Groups /\ q.At \in DOMAIN new[q.Group].Modules
          /\ q = [Group |-> q.Group, At |-> q.At] /\ new[q.Group].Modules[q.At].Name = m
      BY <1>1, CalledIs DEF EntryAt
    <2>2. PICK i \in DOMAIN groups[q.Group].Modules : move[q.Group][i] = q.At
      BY <1>2, <2>1 DEF names
    <2>3. groups[q.Group].Modules[i].Name = m
      BY <1>2, <2>1, <2>2
    <2>4. [Group |-> q.Group, At |-> i] \in S
      BY <2>1, <2>2, <2>3, CalledIs
    <2>5. h[[Group |-> q.Group, At |-> i]] = [Group |-> q.Group, At |-> move[q.Group][i]]
      BY <1>3, <2>4
    <2>6. QED
      BY <2>1, <2>2, <2>4, <2>5
  <1>6. h \in Bijection(S, T)
    <2>1. h \in [S -> T]
      BY <1>3
    <2> HIDE DEF h, S, T
    <2>2. QED
      BY <1>4, <1>5, <2>1 DEF Bijection, Injection, Surjection, IsInjective
  <1>7. IsFiniteSet(S) /\ IsFiniteSet(T)
    BY <1>1, CalledFinite
  <1>8. Cardinality(S) = Cardinality(T)
    <2> HIDE DEF S, T, h
    <2>1. ExistsBijection(S, T)
      BY <1>6 DEF ExistsBijection
    <2>2. QED
      BY <1>7, <2>1, FS_Bijection
  <1>9. QED
    BY <1>8 DEF Times, new

-----------------------------------------------------------------------------
(* What the server was promised to keep stays in the file and in its memory. *)

LEMMA StepCases ==
    ASSUME EditInv, [Next]_vars
    PROVE  \/ \E g \in Groups \cup {Missing}, n \in Names \cup {Missing}, path \in Paths : PostModule(g, n, path)
           \/ \E n, m \in Names : Rename(n, m)
           \/ \E n \in Names : DeleteModule(n)
           \/ \E g \in Groups, d \in Descriptions : PutGroup(g, d)
           \/ PostReload
           \/ \E write \in BOOLEAN : PostBackfill(write)
           \/ \E path \in Paths : SubmitForm(path)
           \/ \E n \in Names : OpenForm(n)
           \/ Restart
           \/ HandEdit
           \/ CliRead
           \/ \E write \in BOOLEAN : CliBackfill(write)
           \/ \E dir \in Cloned : Clone(dir)
           \/ UNCHANGED vars
  <1>1. form.Path \in Paths
    BY DEF EditInv, TypeOK, Forms, NoForm, Paths
  <1>2. Given \cup {form.Path, NoDir} \subseteq Paths /\ Given \cup {NoDir} \subseteq Paths
    BY <1>1, ManifestAssumption DEF Paths
  <1>3. QED
    BY <1>2 DEF Next, Request

LEMMA InitInv == Init => EditInv
  <1> SUFFICES ASSUME Init PROVE EditInv
    OBVIOUS
  <1>1. Typed(Start) /\ "ok" = Parsed(Start).Status /\ Parsed(Start).Groups = Start
    BY ManifestAssumption DEF Typed, Parsed
  <1>2. file \in Manifest /\ raw \in Manifest /\ cli \in Manifest
    BY <1>1, ManifestIs DEF Init
  <1>3. moduleByName \in [Names -> Paths]
    BY <1>1, IndexIs DEF Init
  <1>4. form \in Forms /\ answer \in Answers
    BY DEF Init, Forms, Answers, NoAnswer
  <1>5. left \in 0..MaxSteps /\ trouble \in 0..MaxTrouble
    BY ManifestAssumption DEF Init
  <1>6. TypeOK
    BY <1>1, <1>2, <1>3, <1>4, <1>5 DEF TypeOK, Init, Nothing
  <1>7. PromisesKept /\ RawKeeps /\ Agree
    BY <1>1 DEF PromisesKept, RawKeeps, Agree, Init
  <1>8. QED
    BY <1>6, <1>7 DEF EditInv

LEMMA SpendIs ==
    ASSUME EditInv, Spend
    PROVE  left' \in 0..MaxSteps /\ left' < left
  BY ManifestAssumption DEF EditInv, TypeOK, Spend

LEMMA RefuseInv ==
    ASSUME EditInv, NEW op \in {"add", "edit", "delete", "group", "reload", "backfill"},
           NEW n \in Names \cup {0}, NEW status \in {0, 200, 201, 400, 404, 409, 500},
           Refuse(op, n, status), Spend, form' \in Forms
    PROVE  EditInv'
  <1>1. answer' \in Answers /\ left' \in 0..MaxSteps
    BY SpendIs DEF Refuse, Answers
  <1>2. TypeOK'
    BY <1>1 DEF EditInv, TypeOK, Refuse
  <1>3. PromisesKept' /\ RawKeeps' /\ Agree'
    BY DEF EditInv, PromisesKept, RawKeeps, Agree, Refuse
  <1>4. QED
    BY <1>2, <1>3 DEF EditInv

\* Groups that differ from those in memory in the names edited.
Edits(groups, edited) ==
    /\ Typed(groups) /\ edited \subseteq Names
    /\ \A m \in Names \ edited : Times(groups, m) = Times(raw.Groups, m)

\* A save whose groups hold what is promised from now on and are an edit, and which promises nothing new when it does not
\* come to its end.
LEMMA SaveInv ==
    ASSUME EditInv, up, RawHasGroups, NEW groups, NEW edited, Edits(groups, edited),
           NEW op \in {"add", "edit", "delete", "group", "reload", "backfill"},
           NEW n \in Names \cup {0}, NEW status \in {0, 200, 201, 404, 409, 500},
           NEW outcome \in Outcomes, saveAndReload(groups, op, n, edited, status, outcome),
           Spend, form' \in Forms, promised' \subseteq NamesOf(groups),
           outcome # "ok" => promised' \subseteq promised
    PROVE  EditInv'
  <1>. /\ Typed(groups) /\ edited \subseteq Names
       /\ \A m \in Names \ edited : Times(groups, m) = Times(raw.Groups, m)
    BY DEF Edits
  <1>1. outcome \in {"ok", "failed", "died"}
    BY ManifestAssumption
  <1>2. /\ Parsed(groups) \in Manifest /\ Parsed(groups).Status = "ok" /\ Parsed(groups).Groups = groups
        /\ Nothing \in Manifest /\ Nothing.Status = "none"
    BY ManifestIs DEF Parsed, Nothing
  <1>3. left' \in 0..MaxSteps
    BY SpendIs
  <1>4. trouble' \in 0..MaxTrouble
    BY ManifestAssumption DEF EditInv, TypeOK, saveAndReload, MayBecome
  <1>5. marked' = marked /\ cli' = cli /\ file' = atomicWrite(groups, outcome)
    BY DEF saveAndReload
  <1>6. promised' \subseteq Names
    BY DEF NamesOf
  <1>7. CASE outcome = "ok"
    <2>1. /\ raw' = Parsed(groups) /\ file' = Parsed(groups) /\ moduleByName' = IndexOf(groups)
          /\ answer' = [Op |-> op, Name |-> n, Status |-> status] /\ up' = up
          /\ astray' = {}
      BY <1>5, <1>7 DEF saveAndReload, atomicWrite
    <2>2. answer' \in Answers /\ moduleByName' \in [Names -> Paths]
      BY <2>1, IndexIs DEF Answers
    <2>3. TypeOK'
      BY <1>2, <1>3, <1>4, <1>5, <1>6, <2>1, <2>2 DEF EditInv, TypeOK
    <2>4. PromisesKept' /\ RawKeeps' /\ Agree'
      BY <1>2, <2>1 DEF PromisesKept, RawKeeps, Agree
    <2>5. QED
      BY <2>3, <2>4 DEF EditInv
  <1>8. CASE outcome = "failed"
    <2>1. /\ raw' = Parsed(groups) /\ file' = file /\ moduleByName' = moduleByName
          /\ answer' = [Op |-> op, Name |-> n, Status |-> 500] /\ up' = up
          /\ astray' = astray \cup edited
      BY <1>5, <1>8 DEF saveAndReload, atomicWrite
    <2>2. answer' \in Answers
      BY <2>1 DEF Answers
    <2>3. TypeOK'
      BY <1>2, <1>3, <1>4, <1>5, <1>6, <2>1, <2>2 DEF EditInv, TypeOK
    <2>4. PromisesKept' /\ RawKeeps'
      BY <1>2, <1>8, <2>1 DEF EditInv, PromisesKept, RawKeeps
    <2>5. Agree'
      BY <1>2, <2>1 DEF EditInv, Agree, RawHasGroups
    <2>6. QED
      BY <2>3, <2>4, <2>5 DEF EditInv
  <1>9. CASE outcome = "died"
    <2>1. /\ raw' = Nothing /\ file' = file /\ moduleByName' = [m \in Names |-> NoDir]
          /\ answer' = [Op |-> op, Name |-> n, Status |-> 0] /\ up' = FALSE
          /\ astray' = astray
      BY <1>5, <1>9 DEF saveAndReload, atomicWrite
    <2>2. answer' \in Answers /\ moduleByName' \in [Names -> Paths]
      BY <2>1 DEF Answers, Paths
    <2>3. TypeOK'
      BY <1>2, <1>3, <1>4, <1>5, <1>6, <2>1, <2>2 DEF EditInv, TypeOK
    <2>4. PromisesKept' /\ RawKeeps' /\ Agree'
      BY <1>2, <1>9, <2>1 DEF EditInv, PromisesKept, RawKeeps, Agree
    <2>5. QED
      BY <2>3, <2>4 DEF EditInv
  <1>10. QED
    BY <1>1, <1>7, <1>8, <1>9

\* In memory are the groups of a manifest, or none.
LEMMA RawIs ==
    ASSUME EditInv
    PROVE  /\ raw.Status = "ok" => Typed(raw.Groups) /\ promised \subseteq NamesOf(raw.Groups)
           /\ file.Status = "ok" => Typed(file.Groups) /\ promised \subseteq NamesOf(file.Groups)
           /\ cli.Status = "ok" => Typed(cli.Groups)
           /\ marked \subseteq Marked \cup Cloned
  BY ManifestIs DEF EditInv, TypeOK, PromisesKept, RawKeeps

\* A request that names a group and a module names one of each.
LEMMA NamedIs ==
    ASSUME NEW g \in Groups \cup {Missing}, NEW n \in Names \cup {Missing}, Missing \notin {g, n}
    PROVE  g \in Groups /\ n \in Names
  OBVIOUS

LEMMA NewEntryIs ==
    ASSUME NEW g \in Groups, NEW n \in Names, NEW path \in Paths
    PROVE  [Name |-> n, Path |-> NewPath(g, n, path)] \in Entry
  BY DEF NewPath, Entry, Paths, getGroupFolder

LEMMA PostModuleInv ==
    ASSUME EditInv, NEW g \in Groups \cup {Missing}, NEW n \in Names \cup {Missing}, NEW path \in Paths,
           PostModule(g, n, path)
    PROVE  EditInv'
  <1>1. up /\ Spend /\ form' \in Forms
    BY DEF PostModule, EditInv, TypeOK
  <1>2. CASE Missing \in {g, n} /\ Refuse("add", 0, 400)
    BY <1>1, <1>2, RefuseInv
  <1>3. CASE Missing \notin {g, n} /\ \E status \in {404, 409} : Refuse("add", n, status)
    BY <1>1, <1>3, NamedIs, RefuseInv
  <1>4. CASE Missing \notin {g, n} /\ findGroup(g) /\ ~Known(n)
    <2> DEFINE e == [Name |-> n, Path |-> NewPath(g, n, path)]
               new == SetModules(raw.Groups, g, Append(raw.Groups[g].Modules, e))
    <2>1. /\ Typed(raw.Groups) /\ promised \subseteq NamesOf(raw.Groups) /\ RawHasGroups
          /\ g \in Groups /\ n \in Names
      BY <1>4, NamedIs, RawIs DEF findGroup, RawHasGroups
    <2>2. e \in Entry /\ e.Name = n
      BY <2>1, NewEntryIs
    <2> HIDE DEF e
    <2>3. Typed(new) /\ NamesOf(raw.Groups) \cup {n} \subseteq NamesOf(new)
      BY <2>1, <2>2, AppendNames
    <2>4. \A m \in Names : Times(new, m) = Times(raw.Groups, m) + (IF m = n THEN 1 ELSE 0)
      BY <2>1, <2>2, AppendTimes
    <2>5. PICK outcome \in Outcomes :
            /\ saveAndReload(new, "add", n, {n}, 201, outcome)
            /\ promised' = IF outcome = "ok" THEN promised \cup {n} ELSE promised
      BY <1>4 DEF PostModule, Refuse, e
    <2>6. promised' \subseteq NamesOf(new) /\ (outcome # "ok" => promised' \subseteq promised)
      BY <2>1, <2>3, <2>5
    <2> HIDE DEF new
    <2>7. \A m \in Names \ {n} : Times(new, m) = Times(raw.Groups, m)
      BY <2>1, <2>4, CalledFinite, FS_CardinalityType DEF Times
    <2>8. Edits(new, {n})
      BY <2>1, <2>3, <2>7 DEF Edits
    <2>9. QED
      BY <1>1, <2>1, <2>5, <2>6, <2>8, SaveInv
  <1>5. QED
    BY <1>2, <1>3, <1>4 DEF PostModule

\* A PATCH whose fields are those of an entry.
LEMMA PatchModuleInv ==
    ASSUME EditInv, NEW n \in Names, NEW body, PatchModule(n, body), form' \in Forms,
           Field(body, "Name", n) \in Names,
           \A e \in Entry : Patched(e, body) \in Entry
    PROVE  EditInv'
  <1> DEFINE newName == Field(body, "Name", n)
  <1>1. up /\ Spend
    BY DEF PatchModule
  <1>2. CASE \E status \in {404, 409} : Refuse("edit", n, status)
    BY <1>1, <1>2, RefuseInv
  <1>3. CASE Known(n) /\ (newName = n \/ ~Known(newName))
    <2> DEFINE p == findModule(n)
               modules == raw.Groups[p.Group].Modules
               e == Patched(modules[p.At], body)
               new == SetModules(raw.Groups, p.Group, [modules EXCEPT ![p.At] = e])
    <2>1. /\ Typed(raw.Groups) /\ promised \subseteq NamesOf(raw.Groups) /\ RawHasGroups
          /\ Called(raw.Groups, n) # {}
      BY <1>3, RawIs DEF Known, RawHasGroups
    <2>2. p \in Called(raw.Groups, n)
      BY <2>1, FirstExists DEF findModule
    <2>3. PICK outcome \in Outcomes :
            /\ saveAndReload(new, "edit", newName, {n, newName}, 200, outcome)
            /\ promised' = IF newName = n THEN promised
                            ELSE (promised \ {n}) \cup (IF outcome = "ok" THEN {newName} ELSE {})
      BY <1>3 DEF PatchModule
    <2> HIDE DEF p
    <2>4. modules[p.At] \in Entry /\ modules[p.At].Name = n
      BY <2>1, <2>2, CalledIs DEF EntryAt
    <2>5. e \in Entry /\ e.Name = newName
      BY <2>4 DEF Patched
    <2> HIDE DEF e, newName
    <2>6. /\ Typed(new) /\ (NamesOf(raw.Groups) \ {n}) \cup {e.Name} \subseteq NamesOf(new)
          /\ \A m \in Names \ {n, e.Name} : Times(new, m) = Times(raw.Groups, m)
      BY <2>1, <2>2, <2>5, ReplaceNames, ReplaceTimes
    <2>7. promised' \subseteq NamesOf(new) /\ (outcome # "ok" => promised' \subseteq promised)
      BY <2>1, <2>3, <2>5, <2>6
    <2> HIDE DEF new
    <2>8. newName \in Names
      BY DEF newName
    <2>9. Edits(new, {n, newName})
      BY <2>5, <2>6, <2>8 DEF Edits
    <2>10. saveAndReload(new, "edit", newName, {n, newName}, 200, outcome)
      BY <2>3
    <2>11. QED
      BY <1>1, <2>1, <2>7, <2>8, <2>9, <2>10, SaveInv
  <1>4. QED
    BY <1>2, <1>3 DEF PatchModule

LEMMA DeleteModuleInv ==
    ASSUME EditInv, NEW n \in Names, DeleteModule(n)
    PROVE  EditInv'
  <1>1. up /\ Spend /\ form' \in Forms
    BY DEF DeleteModule, EditInv, TypeOK
  <1>2. CASE Refuse("delete", n, 404)
    BY <1>1, <1>2, RefuseInv
  <1>3. CASE Known(n)
    <2> DEFINE p == findModule(n)
               new == SetModules(raw.Groups, p.Group, RemoveAt(raw.Groups[p.Group].Modules, p.At))
    <2>1. /\ Typed(raw.Groups) /\ promised \subseteq NamesOf(raw.Groups) /\ RawHasGroups
          /\ Called(raw.Groups, n) # {}
      BY <1>3, RawIs DEF Known, RawHasGroups
    <2>2. p \in Called(raw.Groups, n)
      BY <2>1, FirstExists DEF findModule
    <2>3. PICK outcome \in Outcomes : saveAndReload(new, "delete", n, {n}, 200, outcome)
      BY <1>3 DEF DeleteModule
    <2>4. promised' = promised \ {n}
      BY <1>3 DEF DeleteModule
    <2> HIDE DEF p
    <2>5. /\ Typed(new) /\ NamesOf(raw.Groups) \ {n} \subseteq NamesOf(new)
          /\ \A m \in Names : Times(new, m) = Times(raw.Groups, m) - (IF m = n THEN 1 ELSE 0)
      BY <2>1, <2>2, RemoveTimes
    <2> HIDE DEF new
    <2>6. promised' \subseteq NamesOf(new) /\ promised' \subseteq promised
      BY <2>1, <2>4, <2>5
    <2>7. \A m \in Names \ {n} : Times(new, m) = Times(raw.Groups, m)
      BY <2>1, <2>5, CalledFinite, FS_CardinalityType DEF Times
    <2>8. Edits(new, {n})
      BY <2>5, <2>7 DEF Edits
    <2>9. QED
      BY <1>1, <2>1, <2>3, <2>6, <2>8, SaveInv
  <1>4. QED
    BY <1>2, <1>3 DEF DeleteModule

\* The names are those of the modules, whatever else a group has.
LEMMA SameModulesSameNames ==
    ASSUME NEW old, Typed(old), NEW new, Typed(new),
           \A g \in Groups : new[g].Modules = old[g].Modules
    PROVE  NamesOf(old) \subseteq NamesOf(new)
  <1>1. ASSUME NEW n \in NamesOf(old) PROVE n \in NamesOf(new)
    <2>1. PICK p \in Called(old, n) : TRUE
      BY DEF NamesOf
    <2>2. p.Group \in Groups /\ p.At \in DOMAIN old[p.Group].Modules /\ old[p.Group].Modules[p.At].Name = n
      BY CalledIs DEF EntryAt
    <2>3. QED
      BY <2>2, NameAt
  <1>2. QED
    BY <1>1

LEMMA PutGroupInv ==
    ASSUME EditInv, NEW g \in Groups, NEW d \in Descriptions, PutGroup(g, d)
    PROVE  EditInv'
  <1>1. up /\ Spend /\ form' \in Forms
    BY DEF PutGroup, EditInv, TypeOK
  <1>2. CASE Refuse("group", 0, 404)
    BY <1>1, <1>2, RefuseInv
  <1>3. CASE findGroup(g)
    <2> DEFINE new == [raw.Groups EXCEPT ![g] = [Modules |-> raw.Groups[g].Modules, Description |-> d]]
    <2>1. Typed(raw.Groups) /\ promised \subseteq NamesOf(raw.Groups) /\ RawHasGroups
      BY <1>3, RawIs DEF findGroup, RawHasGroups
    <2>2. /\ \E outcome \in Outcomes : saveAndReload(new, "group", 0, {}, 200, outcome)
          /\ promised' = promised
      BY <1>3 DEF PutGroup
    <2>3. [Modules |-> raw.Groups[g].Modules, Description |-> d] \in Group
      BY <2>1, GroupIs DEF Group
    <2>4. Typed(new) /\ \A h \in Groups : new[h].Modules = raw.Groups[h].Modules
      BY <2>1, <2>3 DEF Typed
    <2> HIDE DEF new
    <2>5. promised' \subseteq NamesOf(new) /\ \A m \in Names : Times(new, m) = Times(raw.Groups, m)
      BY <2>1, <2>2, <2>4, SameModulesSameNames, SameModulesTimes
    <2>6. Edits(new, {})
      BY <2>4, <2>5 DEF Edits
    <2>7. QED
      BY <1>1, <2>1, <2>2, <2>5, <2>6, SaveInv
  <1>4. QED
    BY <1>2, <1>3 DEF PutGroup

LEMMA SubmitFormInv ==
    ASSUME EditInv, NEW path \in Paths, SubmitForm(path)
    PROVE  EditInv'
  <1> DEFINE body == IF path = NoDir THEN NoFields ELSE [Path |-> path]
  <1>1. form.Name \in Names /\ form' \in Forms
    BY DEF EditInv, TypeOK, Forms, SubmitForm
  <1>2. PatchModule(form.Name, body)
    BY DEF SubmitForm
  <1>3. /\ Field(body, "Name", form.Name) = form.Name
        /\ \A e \in Entry : Field(body, "Name", e.Name) = e.Name /\ Field(body, "Path", e.Path) \in Paths
    BY EntryIs DEF Field, NoFields
  <1>4. \A e \in Entry : Patched(e, body) \in Entry
    BY <1>3, EntryIs DEF Patched, Entry
  <1> HIDE DEF body
  <1>5. QED
    BY <1>1, <1>2, <1>3, <1>4, PatchModuleInv

LEMMA RenameInv ==
    ASSUME EditInv, NEW n \in Names, NEW m \in Names, Rename(n, m)
    PROVE  EditInv'
  <1> DEFINE body == [Name |-> m]
  <1>1. PatchModule(n, body) /\ form' \in Forms
    BY DEF Rename, EditInv, TypeOK
  <1>2. /\ Field(body, "Name", n) = m
        /\ \A e \in Entry : Field(body, "Name", e.Name) = m /\ Field(body, "Path", e.Path) = e.Path
    BY DEF Field
  <1>3. \A e \in Entry : Patched(e, body) \in Entry
    BY <1>2, EntryIs DEF Patched, Entry
  <1> HIDE DEF body
  <1>4. QED
    BY <1>1, <1>2, <1>3, PatchModuleInv

\* What load() leaves in memory is the file, or what was there.
LEMMA LoadIs ==
    ASSUME EditInv, load
    PROVE  /\ raw' \in Manifest /\ raw'.Status # "broken"
           /\ moduleByName' \in [Names -> Paths]
           /\ file' = file /\ promised' = promised => RawKeeps' /\ Agree' /\ astray' \subseteq Names
  <1>1. moduleByName' \in [Names -> Paths]
    <2>1. CASE file.Status = "ok"
      BY <2>1, RawIs, IndexIs DEF load
    <2>2. CASE file.Status # "ok"
      BY <2>2 DEF load, EditInv, TypeOK
    <2>3. QED
      BY <2>1, <2>2
  <1>2. raw' \in Manifest /\ raw'.Status # "broken"
    BY DEF load, EditInv, TypeOK
  <1>3. ASSUME file' = file, promised' = promised PROVE RawKeeps' /\ Agree' /\ astray' \subseteq Names
    <2>1. RawKeeps'
      BY <1>3, RawIs DEF load, RawKeeps
    <2>2. Agree' /\ astray' \subseteq Names
      BY <1>3 DEF load, EditInv, TypeOK, Agree
    <2>3. QED
      BY <2>1, <2>2
  <1>4. QED
    BY <1>1, <1>2, <1>3

LEMMA PostReloadInv ==
    ASSUME EditInv, PostReload
    PROVE  EditInv'
  <1>1. left' \in 0..MaxSteps
    BY SpendIs DEF PostReload
  <1>2. answer' \in Answers
    BY DEF PostReload, Answers
  <1>3. /\ raw' \in Manifest /\ raw'.Status # "broken" /\ moduleByName' \in [Names -> Paths]
        /\ RawKeeps' /\ Agree' /\ astray' \subseteq Names
    BY LoadIs DEF PostReload
  <1>4. raw'.Status # "none"
    BY DEF PostReload, load, EditInv, TypeOK
  <1>5. TypeOK'
    BY <1>1, <1>2, <1>3, <1>4 DEF PostReload, EditInv, TypeOK
  <1>6. PromisesKept'
    BY DEF PostReload, EditInv, PromisesKept
  <1>7. QED
    BY <1>3, <1>5, <1>6 DEF EditInv

LEMMA RestartInv ==
    ASSUME EditInv, Restart
    PROVE  EditInv'
  <1>1. left' \in 0..MaxSteps
    BY SpendIs DEF Restart
  <1>2. /\ raw' \in Manifest /\ raw'.Status = "ok" /\ moduleByName' \in [Names -> Paths]
        /\ RawKeeps' /\ Agree' /\ astray' \subseteq Names
    BY LoadIs DEF Restart, load
  <1>3. TypeOK'
    BY <1>1, <1>2 DEF Restart, EditInv, TypeOK, Answers, NoAnswer
  <1>4. PromisesKept'
    BY DEF Restart, EditInv, PromisesKept
  <1>5. QED
    BY <1>2, <1>3, <1>4 DEF EditInv

LEMMA PostBackfillInv ==
    ASSUME EditInv, NEW write \in BOOLEAN, PostBackfill(write)
    PROVE  EditInv'
  <1> DEFINE new == Backfilled(raw.Groups, moduleByName)
             names == NewNames(raw.Groups, moduleByName)
  <1>1. up /\ Spend /\ form' \in Forms
    BY DEF PostBackfill, EditInv, TypeOK
  <1>2. CASE Refuse("backfill", 0, 200)
    BY <1>1, <1>2, RefuseInv
  <1>3. CASE RawHasGroups
    <2>1. /\ Typed(raw.Groups) /\ promised \subseteq NamesOf(raw.Groups) /\ marked \subseteq Marked \cup Cloned
          /\ promised' = promised
      BY <1>3, RawIs DEF RawHasGroups, PostBackfill, Refuse
    <2>2. Typed(new) /\ names \subseteq Names
      BY <2>1, BackfilledIs, NewNamesAre
    <2>3. promised' \subseteq NamesOf(new) /\ \A m \in Names \ names : Times(new, m) = Times(raw.Groups, m)
      BY <2>1, BackfilledNames, BackfilledTimes
    <2>4. CASE \E outcome \in Outcomes : saveAndReload(new, "backfill", 0, names, 200, outcome)
      <3> HIDE DEF new, names
      <3>1. Edits(new, names)
        BY <2>2, <2>3 DEF Edits
      <3>2. QED
        BY <1>1, <1>3, <2>3, <2>4, <2>1, <3>1, SaveInv
    <2>5. CASE /\ raw' = Parsed(new) /\ astray' = astray \cup names
               /\ answer' = [Op |-> "backfill", Name |-> 0, Status |-> 200]
               /\ UNCHANGED <<file, up, moduleByName, marked, cli, trouble>>
      <3> HIDE DEF new, names
      <3>1. raw' \in Manifest /\ raw'.Status = "ok" /\ raw'.Groups = new
        BY <2>2, <2>5, ManifestIs DEF Parsed
      <3>2. answer' \in Answers /\ left' \in 0..MaxSteps
        BY <1>1, <2>5, SpendIs DEF Answers
      <3>3. TypeOK'
        BY <1>1, <2>1, <2>2, <2>5, <3>1, <3>2 DEF EditInv, TypeOK
      <3>4. PromisesKept' /\ RawKeeps'
        BY <2>1, <2>3, <2>5, <3>1 DEF EditInv, PromisesKept, RawKeeps
      <3>5. Agree'
        <4>1. file.Status # "ok" => astray' = Names
          BY <2>2, <2>5 DEF EditInv, Agree, TypeOK
        <4>2. QED
          BY <1>3, <2>3, <2>5, <3>1, <4>1 DEF EditInv, Agree, RawHasGroups
      <3>6. QED
        BY <3>3, <3>4, <3>5 DEF EditInv
    <2>6. QED
      BY <1>2, <1>3, <2>4, <2>5 DEF PostBackfill
  <1>4. QED
    BY <1>2, <1>3 DEF PostBackfill

LEMMA OpenFormInv ==
    ASSUME EditInv, NEW n \in Names, OpenForm(n)
    PROVE  EditInv'
  <1>1. Typed(raw.Groups) /\ Called(raw.Groups, n) # {}
    BY RawIs DEF OpenForm, Known, RawHasGroups
  <1>2. EntryAt(raw.Groups, findModule(n)) \in Entry
    BY <1>1, FirstExists, CalledIs DEF findModule
  <1>3. form' \in Forms
    BY <1>2, EntryIs DEF OpenForm, Forms
  <1>4. QED
    BY <1>3 DEF OpenForm, EditInv, TypeOK, PromisesKept, RawKeeps, Agree, Answers, NoAnswer

\* A person may take any entry out: nothing is promised any longer.
LEMMA HandEditInv ==
    ASSUME EditInv, HandEdit
    PROVE  EditInv'
  <1>1. file' \in Manifest /\ file'.Status # "none"
    <2>1. ASSUME file.Status = "ok", NEW g \in Groups, NEW n \in Names,
                 file' = Parsed(SetModules(file.Groups, g,
                                  Append(file.Groups[g].Modules, [Name |-> n, Path |-> NoDir])))
          PROVE  file' \in Manifest /\ file'.Status = "ok"
      <3> DEFINE e == [Name |-> n, Path |-> NoDir]
      <3>1. e \in Entry /\ Typed(file.Groups)
        BY <2>1, RawIs DEF Entry, Paths
      <3> HIDE DEF e
      <3>2. Typed(SetModules(file.Groups, g, Append(file.Groups[g].Modules, e)))
        BY <3>1, AppendNames
      <3>3. QED
        BY <2>1, <3>2, ManifestIs DEF Parsed, e
    <2>2. ASSUME file.Status = "ok", NEW g \in Groups, file.Groups[g].Modules # <<>>,
                 file' = Parsed(SetModules(file.Groups, g, Tail(file.Groups[g].Modules)))
          PROVE  file' \in Manifest /\ file'.Status = "ok"
      <3>1. Typed(file.Groups) /\ file.Groups[g].Modules \in Seq(Entry)
        BY <2>2, RawIs, GroupIs
      <3>2. Tail(file.Groups[g].Modules) \in Seq(Entry)
        BY <2>2, <3>1, HeadTailProperties
      <3>3. Typed(SetModules(file.Groups, g, Tail(file.Groups[g].Modules)))
        BY Zenon, <3>1, <3>2, SetModulesIs
      <3>4. QED
        BY <2>2, <3>3, ManifestIs DEF Parsed
    <2>3. ASSUME NEW status \in {"broken", "noGroups"}, file' = [Status |-> status, Groups |-> <<>>]
          PROVE  file' \in Manifest /\ file'.Status # "none"
      BY <2>3, ManifestIs
    <2>4. QED
      BY <2>1, <2>2, <2>3 DEF HandEdit
  <1>2. left' \in 0..MaxSteps /\ trouble' \in 0..MaxTrouble
    BY SpendIs, ManifestAssumption DEF HandEdit, EditInv, TypeOK, Answers, NoAnswer
  <1>3. TypeOK'
    BY <1>1, <1>2 DEF HandEdit, EditInv, TypeOK, Answers, NoAnswer
  <1>4. PromisesKept' /\ RawKeeps' /\ Agree'
    BY DEF HandEdit, PromisesKept, RawKeeps, Agree
  <1>5. QED
    BY <1>3, <1>4 DEF EditInv

LEMMA CliReadInv ==
    ASSUME EditInv, CliRead
    PROVE  EditInv'
  <1>1. trouble' \in 0..MaxTrouble
    BY ManifestAssumption DEF CliRead, EditInv, TypeOK, Answers, NoAnswer
  <1>2. TypeOK'
    BY <1>1 DEF CliRead, EditInv, TypeOK, Answers, NoAnswer
  <1>3. QED
    BY <1>2 DEF CliRead, EditInv, PromisesKept, RawKeeps, Agree

\* A manifest the command has read is one that loads.
LEMMA CliIs ==
    ASSUME EditInv, cli # Nothing
    PROVE  cli.Status = "ok" /\ Typed(cli.Groups)
  <1>1. cli \in Manifest /\ cli.Status \in {"ok", "none"}
    BY DEF EditInv, TypeOK
  <1>2. cli.Status # "ok" => cli = Nothing
    BY <1>1, ManifestIs DEF Nothing
  <1>3. QED
    BY <1>2, RawIs

LEMMA CliBackfillInv ==
    ASSUME EditInv, NEW write \in BOOLEAN, CliBackfill(write)
    PROVE  EditInv'
  <1> DEFINE new == Backfilled(cli.Groups, IndexOf(cli.Groups))
  <1>1. Typed(new) /\ Parsed(new) \in Manifest /\ Parsed(new).Status = "ok"
    <2>1. Typed(new)
      BY RawIs, CliIs, BackfilledIs DEF CliBackfill
    <2> HIDE DEF new
    <2>2. QED
      BY <2>1, ManifestIs DEF Parsed
  <1> HIDE DEF new
  <1>2. \/ file' = file /\ promised' \subseteq promised /\ astray' \in {astray, Names}
        \/ file' = Parsed(new) /\ promised' = {} /\ astray' = Names
    BY DEF CliBackfill, atomicWrite, new
  <1>3. /\ file' \in Manifest /\ file'.Status # "none" /\ promised' \subseteq promised
        /\ astray' \subseteq Names
    BY <1>1, <1>2 DEF EditInv, TypeOK
  <1>4. left' \in 0..MaxSteps /\ cli' \in Manifest /\ cli'.Status = "none"
    BY SpendIs, ManifestIs DEF CliBackfill, Nothing
  <1>5. TypeOK'
    BY <1>3, <1>4 DEF CliBackfill, EditInv, TypeOK, Answers, NoAnswer
  <1>6. PromisesKept' /\ RawKeeps' /\ Agree'
    BY <1>2, <1>3 DEF CliBackfill, EditInv, PromisesKept, RawKeeps, Agree
  <1>7. QED
    BY <1>5, <1>6 DEF EditInv

LEMMA CloneInv ==
    ASSUME EditInv, NEW dir \in Cloned, Clone(dir)
    PROVE  EditInv'
  <1>1. left' \in 0..MaxSteps /\ marked' \subseteq Marked \cup Cloned
    BY SpendIs DEF Clone, EditInv, TypeOK, Answers, NoAnswer
  <1>2. TypeOK'
    BY <1>1 DEF Clone, EditInv, TypeOK, Answers, NoAnswer
  <1>3. QED
    BY <1>2 DEF Clone, EditInv, PromisesKept, RawKeeps, Agree

LEMMA StepInv == EditInv /\ [Next]_vars => EditInv'
  <1> SUFFICES ASSUME EditInv, [Next]_vars PROVE EditInv'
    OBVIOUS
  <1>1. CASE UNCHANGED vars
    BY <1>1 DEF vars, EditInv, TypeOK, PromisesKept, RawKeeps, Agree
  <1>2. QED
    BY <1>1, StepCases, PostModuleInv, RenameInv, DeleteModuleInv, PutGroupInv, PostReloadInv,
       PostBackfillInv, SubmitFormInv, OpenFormInv, RestartInv, HandEditInv, CliReadInv,
       CliBackfillInv, CloneInv

\* EditInv is an invariant: what a save writes, and what is on disk, holds what
\* was promised.
THEOREM EditInvariant == Spec => []EditInv
  <1>1. QED
    BY InitInv, StepInv, PTL DEF Spec

\* Every variable has its type; in particular a server holds a manifest exactly
\* while it runs, and the index has no name but those of the manifest's modules.
THEOREM EditTypeCorrect == Spec => []TypeOK
  <1>1. EditInv => TypeOK
    BY DEF EditInv
  <1>2. QED
    BY <1>1, EditInvariant, PTL

\* A module the server has confirmed is in the manifest on disk until it is asked
\* to take it out or rename it, or somebody else writes the file: whatever writes
\* fail, reloads, dry runs, backfills and deaths of the process come between.
THEOREM PromisesKeptHolds == Spec => []PromisesKept
  <1>1. EditInv => PromisesKept
    BY DEF EditInv
  <1>2. QED
    BY <1>1, EditInvariant, PTL


-----------------------------------------------------------------------------
(* What the edits of a manifest do to the uniqueness of its names. *)

LEMMA UniqueIs ==
    ASSUME NEW groups, Typed(groups)
    PROVE  Unique(groups) <=> \A n \in Names : \A p, q \in Called(groups, n) : p = q
  <1>1. ASSUME NEW n \in Names
        PROVE  Times(groups, n) <= 1 <=> \A p, q \in Called(groups, n) : p = q
    <2> DEFINE S == Called(groups, n)
    <2>1. IsFiniteSet(S) /\ Cardinality(S) \in Nat
      BY CalledFinite, FS_CardinalityType
    <2>2. ASSUME Cardinality(S) <= 1, NEW p \in S, NEW q \in S PROVE p = q
      <3> HIDE DEF S
      <3>1. Cardinality(S) = 1
        BY <2>1, <2>2, FS_EmptySet
      <3>2. PICK x : S = {x}
        BY <3>1, <2>1, FS_Singleton
      <3>3. QED
        BY <3>2
    <2>3. ASSUME \A p, q \in S : p = q PROVE Cardinality(S) <= 1
      <3> HIDE DEF S
      <3>1. CASE S = {}
        BY <3>1, FS_EmptySet
      <3>2. CASE S # {}
        <4>1. PICK x \in S : S = {x}
          BY <3>2, <2>3
        <4>2. Cardinality(S) = 1
          BY <4>1, <2>1, FS_Singleton
        <4>3. QED
          BY <4>2
      <3>3. QED
        BY <3>1, <3>2
    <2>4. QED
      BY <2>2, <2>3 DEF Times
  <1>2. QED
    BY <1>1 DEF Unique

\* One entry put at a place, under a name no other place has.
LEMMA OnePlaceTaken ==
    ASSUME NEW old, Typed(old), NEW new, Typed(new), Unique(old), NEW e, NEW p,
           \A m \in Names : \A q \in Called(new, m) : (q \in Called(old, m) /\ q # p) \/ (q = p /\ m = e.Name),
           Called(old, e.Name) \subseteq {p}
    PROVE  Unique(new)
  <1>1. ASSUME NEW m \in Names, NEW q \in Called(new, m), NEW r \in Called(new, m) PROVE q = r
    <2>1. \A x, y \in Called(old, m) : x = y
      BY UniqueIs
    <2>2. QED
      BY <2>1
  <1>2. QED
    BY <1>1, UniqueIs

LEMMA AppendUnique ==
    ASSUME NEW groups, Typed(groups), Unique(groups), NEW g \in Groups,
           NEW e \in Entry, Called(groups, e.Name) = {}
    PROVE  Unique(SetModules(groups, g, Append(groups[g].Modules, e)))
  <1> DEFINE old == groups[g].Modules
             more == Append(old, e)
             new == SetModules(groups, g, more)
             p == [Group |-> g, At |-> Len(old) + 1]
  <1>1. old \in Seq(Entry) /\ DOMAIN old = 1..Len(old) /\ Len(old) \in Nat
    BY GroupIs
  <1>2. /\ more \in Seq(Entry) /\ DOMAIN more = 1..(Len(old) + 1)
        /\ \A i \in 1..Len(old) : more[i] = old[i]
        /\ more[Len(old) + 1] = e
    BY <1>1, AppendProperties, LenProperties
  <1>3. Typed(new) /\ new[g].Modules = more /\ \A h \in Groups \ {g} : new[h] = groups[h]
    <2>1. more \in Seq(Entry)
      BY <1>2
    <2> HIDE DEF more
    <2>2. QED
      BY Zenon, <2>1, SetModulesIs
  <1> HIDE DEF new, more
  <1>4. ASSUME NEW m \in Names, NEW q \in Called(new, m)
        PROVE  (q \in Called(groups, m) /\ q # p) \/ (q = p /\ m = e.Name)
    <2>1. /\ q = [Group |-> q.Group, At |-> q.At] /\ q.Group \in Groups
          /\ q.At \in DOMAIN new[q.Group].Modules /\ new[q.Group].Modules[q.At].Name = m
      BY <1>3, CalledIs DEF EntryAt
    <2>2. CASE q.Group # g
      <3>1. q.At \in DOMAIN groups[q.Group].Modules /\ groups[q.Group].Modules[q.At].Name = m
        BY <1>3, <2>1, <2>2
      <3>2. [Group |-> q.Group, At |-> q.At] \in Called(groups, m)
        BY <2>1, <3>1, CalledIs
      <3>3. QED
        BY <2>1, <2>2, <3>2
    <2>3. CASE q.Group = g /\ q.At \in 1..Len(old)
      <3>1. q.At \in DOMAIN groups[q.Group].Modules /\ groups[q.Group].Modules[q.At].Name = m
        BY <1>1, <1>2, <1>3, <2>1, <2>3
      <3>2. [Group |-> q.Group, At |-> q.At] \in Called(groups, m)
        BY <2>1, <3>1, CalledIs
      <3>3. q.At # p.At
        BY <1>1, <2>3
      <3>4. QED
        BY <2>1, <3>2, <3>3
    <2>4. CASE q.Group = g /\ q.At \notin 1..Len(old)
      <3>1. q.At = Len(old) + 1
        BY <1>1, <1>2, <1>3, <2>1, <2>4
      <3>2. QED
        BY <1>2, <1>3, <2>1, <2>4, <3>1
    <2>5. QED
      BY <2>2, <2>3, <2>4
  <1> HIDE DEF p
  <1>5. \A m \in Names : \A q \in Called(new, m) : (q \in Called(groups, m) /\ q # p) \/ (q = p /\ m = e.Name)
    BY <1>4
  <1>6. Called(groups, e.Name) \subseteq {p} /\ Typed(new)
    BY <1>3
  <1>7. Unique(new)
    BY Zenon, <1>5, <1>6, OnePlaceTaken
  <1>8. QED
    BY <1>7 DEF new, more

LEMMA ReplaceUnique ==
    ASSUME NEW groups, Typed(groups), Unique(groups), NEW n \in Names, NEW p \in Called(groups, n),
           NEW e \in Entry, e.Name = n \/ Called(groups, e.Name) = {}
    PROVE  Unique(SetModules(groups, p.Group, [groups[p.Group].Modules EXCEPT ![p.At] = e]))
  <1> DEFINE old == groups[p.Group].Modules
             rewritten == [old EXCEPT ![p.At] = e]
             new == SetModules(groups, p.Group, rewritten)
  <1>1. p.Group \in Groups /\ p.At \in DOMAIN old /\ p = [Group |-> p.Group, At |-> p.At]
    BY CalledIs
  <1>2. /\ rewritten \in Seq(Entry) /\ DOMAIN rewritten = DOMAIN old
        /\ \A j \in DOMAIN old : rewritten[j] = IF j = p.At THEN e ELSE old[j]
    <2>1. old \in Seq(Entry) /\ DOMAIN old = 1..Len(old)
      BY <1>1, GroupIs
    <2>2. rewritten \in Seq(Entry)
      BY <1>1, <2>1, ExceptSeq
    <2>3. QED
      BY <2>2, <1>1
  <1>3. Typed(new) /\ new[p.Group].Modules = rewritten /\ \A h \in Groups \ {p.Group} : new[h] = groups[h]
    BY <1>1, <1>2, SetModulesIs
  <1> HIDE DEF new, rewritten
  <1>4. ASSUME NEW m \in Names, NEW q \in Called(new, m)
        PROVE  (q \in Called(groups, m) /\ q # p) \/ (q = p /\ m = e.Name)
    <2>1. /\ q = [Group |-> q.Group, At |-> q.At] /\ q.Group \in Groups
          /\ q.At \in DOMAIN new[q.Group].Modules /\ new[q.Group].Modules[q.At].Name = m
      BY <1>3, CalledIs DEF EntryAt
    <2>2. CASE q.Group = p.Group /\ q.At = p.At
      BY <1>1, <1>2, <1>3, <2>1, <2>2
    <2>3. CASE ~(q.Group = p.Group /\ q.At = p.At)
      <3>1. q.At \in DOMAIN groups[q.Group].Modules /\ groups[q.Group].Modules[q.At].Name = m
        BY <1>2, <1>3, <2>1, <2>3
      <3>2. [Group |-> q.Group, At |-> q.At] \in Called(groups, m)
        BY <2>1, <3>1, CalledIs
      <3>3. QED
        BY <2>1, <2>3, <3>2
    <2>4. QED
      BY <2>2, <2>3
  <1>5. \A m \in Names : \A q \in Called(new, m) : (q \in Called(groups, m) /\ q # p) \/ (q = p /\ m = e.Name)
    BY <1>4
  <1>6. Called(groups, e.Name) \subseteq {p} /\ Typed(new)
    BY <1>3, UniqueIs
  <1>7. Unique(new)
    <2> HIDE DEF old
    <2>1. QED
      BY <1>5, <1>6, OnePlaceTaken
  <1>8. QED
    BY <1>7 DEF new, rewritten

LEMMA RemoveUnique ==
    ASSUME NEW groups, Typed(groups), Unique(groups), NEW new, Typed(new), NEW n,
           \A m \in Names : Times(new, m) = Times(groups, m) - (IF m = n THEN 1 ELSE 0)
    PROVE  Unique(new)
  <1>1. ASSUME NEW m \in Names PROVE Times(new, m) <= 1
    <2>1. Times(groups, m) \in Nat /\ Times(groups, m) <= 1
      BY CalledFinite, FS_CardinalityType DEF Times, Unique
    <2>2. QED
      BY <2>1
  <1>2. QED
    BY <1>1 DEF Unique

LEMMA SameModulesUnique ==
    ASSUME NEW old, Typed(old), Unique(old), NEW new, Typed(new),
           \A g \in Groups : new[g].Modules = old[g].Modules
    PROVE  Unique(new)
  <1>1. \A n \in Names : Called(new, n) = Called(old, n)
    BY DEF Called
  <1>2. QED
    BY <1>1 DEF Unique, Times

-----------------------------------------------------------------------------
(* A confirmed edit is in the file and in the index. *)

\* Groups a route was asked to make of those in memory: they have the name it
\* added or edited, one entry more of the name it added, one less of the name it
\* deleted, and of names it does not touch as many as before.
Asked(groups) ==
    /\ answer'.Op \in {"add", "edit"} => answer'.Name \in NamesOf(groups)
    /\ answer'.Op = "add" =>
         \A n \in Names : Times(groups, n) = Times(raw.Groups, n) + (IF n = answer'.Name THEN 1 ELSE 0)
    /\ answer'.Op = "delete" =>
         \A n \in Names : Times(groups, n) = Times(raw.Groups, n) - (IF n = answer'.Name THEN 1 ELSE 0)
    /\ answer'.Op = "edit" =>
         \E old \in Names : \A n \in Names \ {old, answer'.Name} : Times(groups, n) = Times(raw.Groups, n)
    /\ answer'.Op = "group" => \A n \in Names : Times(groups, n) = Times(raw.Groups, n)

\* The step has written groups and loaded them, and they are what was asked, with
\* no name twice that was not.
Landed(groups) ==
    /\ RawHasGroups /\ Typed(groups)
    /\ raw' = Parsed(groups) /\ file' = Parsed(groups) /\ moduleByName' = IndexOf(groups)
    /\ Asked(groups)
    /\ Unique(raw.Groups) => Unique(groups)

\* A save that is confirmed has come to its end.
LEMMA SaveLands ==
    ASSUME NEW groups, NEW op, NEW n, NEW edited, NEW status, NEW outcome \in Outcomes,
           saveAndReload(groups, op, n, edited, status, outcome), answer'.Status \in {200, 201}
    PROVE  /\ raw' = Parsed(groups) /\ file' = Parsed(groups) /\ moduleByName' = IndexOf(groups)
           /\ answer' = [Op |-> op, Name |-> n, Status |-> status]
  <1>1. outcome \in {"ok", "failed", "died"}
    BY ManifestAssumption
  <1>2. CASE outcome = "ok"
    BY <1>2 DEF saveAndReload, atomicWrite
  <1>3. CASE outcome = "failed"
    BY <1>3 DEF saveAndReload
  <1>4. CASE outcome = "died"
    BY <1>4 DEF saveAndReload
  <1>5. QED
    BY <1>1, <1>2, <1>3, <1>4

\* A refusal is no success.
LEMMA RefusalIs ==
    ASSUME answer'.Status \in {200, 201}, NEW op, NEW n, NEW status \in {400, 404, 409}
    PROVE  ~Refuse(op, n, status)
  BY DEF Refuse

LEMMA PostModuleLands ==
    ASSUME EditInv, NEW g \in Groups \cup {Missing}, NEW n \in Names \cup {Missing}, NEW path \in Paths,
           PostModule(g, n, path), answer'.Status \in {200, 201}
    PROVE  \E groups : Landed(groups)
  <1> DEFINE e == [Name |-> n, Path |-> NewPath(g, n, path)]
             new == SetModules(raw.Groups, g, Append(raw.Groups[g].Modules, e))
  <1>1. /\ Missing \notin {g, n} /\ findGroup(g) /\ ~Known(n)
        /\ \E outcome \in Outcomes : saveAndReload(new, "add", n, {n}, 201, outcome)
    BY RefusalIs DEF PostModule
  <1>2. g \in Groups /\ n \in Names
    BY <1>1, NamedIs
  <1>3. Typed(raw.Groups) /\ RawHasGroups /\ e \in Entry /\ e.Name = n
    BY <1>1, <1>2, RawIs, NewEntryIs DEF findGroup, RawHasGroups
  <1> HIDE DEF e
  <1>4. /\ Typed(new) /\ n \in NamesOf(new)
        /\ \A m \in Names : Times(new, m) = Times(raw.Groups, m) + (IF m = n THEN 1 ELSE 0)
    BY <1>2, <1>3, AppendNames, AppendTimes
  <1>5. Unique(raw.Groups) => Unique(new)
    <2>1. Called(raw.Groups, e.Name) = {}
      BY <1>1, <1>3 DEF Known, findGroup
    <2>2. QED
      BY <1>2, <1>3, <2>1, AppendUnique
  <1> HIDE DEF new
  <1>6. /\ raw' = Parsed(new) /\ file' = Parsed(new) /\ moduleByName' = IndexOf(new)
        /\ answer' = [Op |-> "add", Name |-> n, Status |-> 201]
    BY <1>1, SaveLands
  <1>7. Asked(new)
    BY <1>4, <1>6 DEF Asked
  <1>8. Landed(new)
    BY <1>3, <1>4, <1>5, <1>6, <1>7 DEF Landed
  <1>9. QED
    BY <1>8

LEMMA PatchModuleLands ==
    ASSUME EditInv, NEW n \in Names, NEW body, PatchModule(n, body), answer'.Status \in {200, 201},
           \A e \in Entry : Patched(e, body) \in Entry
    PROVE  \E groups : Landed(groups)
  <1> DEFINE newName == Field(body, "Name", n)
             p == findModule(n)
             modules == raw.Groups[p.Group].Modules
             e == Patched(modules[p.At], body)
             new == SetModules(raw.Groups, p.Group, [modules EXCEPT ![p.At] = e])
  <1>1. /\ Known(n) /\ (newName = n \/ ~Known(newName))
        /\ \E outcome \in Outcomes : saveAndReload(new, "edit", newName, {n, newName}, 200, outcome)
    BY RefusalIs DEF PatchModule
  <1>2. RawHasGroups /\ Typed(raw.Groups) /\ p \in Called(raw.Groups, n)
    BY <1>1, RawIs, FirstExists DEF Known, RawHasGroups, findModule
  <1> HIDE DEF p
  <1>3. modules[p.At] \in Entry /\ modules[p.At].Name = n
    BY <1>2, CalledIs DEF EntryAt
  <1>4. e \in Entry /\ e.Name = newName
    BY <1>3 DEF Patched
  <1> HIDE DEF e, newName
  <1>5. Typed(new) /\ newName \in NamesOf(new) /\ (Unique(raw.Groups) => Unique(new))
    <2>1. e.Name = n \/ Called(raw.Groups, e.Name) = {}
      BY <1>1, <1>4 DEF Known
    <2>2. QED
      BY <1>2, <1>4, <2>1, ReplaceNames, ReplaceUnique
  <1>. \A m \in Names \ {n, newName} : Times(new, m) = Times(raw.Groups, m)
    BY <1>2, <1>4, ReplaceTimes
  <1> HIDE DEF new
  <1>6. /\ raw' = Parsed(new) /\ file' = Parsed(new) /\ moduleByName' = IndexOf(new)
        /\ answer' = [Op |-> "edit", Name |-> newName, Status |-> 200]
    BY <1>1, SaveLands
  <1>7. Asked(new)
    BY <1>5, <1>6 DEF Asked
  <1>8. Landed(new)
    BY <1>2, <1>5, <1>6, <1>7 DEF Landed
  <1>9. QED
    BY <1>8

LEMMA DeleteModuleLands ==
    ASSUME EditInv, NEW n \in Names, DeleteModule(n), answer'.Status \in {200, 201}
    PROVE  \E groups : Landed(groups)
  <1> DEFINE p == findModule(n)
             new == SetModules(raw.Groups, p.Group, RemoveAt(raw.Groups[p.Group].Modules, p.At))
  <1>1. Known(n) /\ \E outcome \in Outcomes : saveAndReload(new, "delete", n, {n}, 200, outcome)
    BY RefusalIs DEF DeleteModule
  <1>2. RawHasGroups /\ Typed(raw.Groups) /\ p \in Called(raw.Groups, n)
    BY <1>1, RawIs, FirstExists DEF Known, RawHasGroups, findModule
  <1> HIDE DEF p
  <1>3. Typed(new) /\ \A m \in Names : Times(new, m) = Times(raw.Groups, m) - (IF m = n THEN 1 ELSE 0)
    BY <1>2, RemoveTimes
  <1> HIDE DEF new
  <1>. Unique(raw.Groups) => Unique(new)
    BY <1>2, <1>3, RemoveUnique
  <1>4. /\ raw' = Parsed(new) /\ file' = Parsed(new) /\ moduleByName' = IndexOf(new)
        /\ answer' = [Op |-> "delete", Name |-> n, Status |-> 200]
    BY <1>1, SaveLands
  <1>5. Asked(new)
    BY <1>3, <1>4 DEF Asked
  <1>6. Landed(new)
    BY <1>2, <1>3, <1>4, <1>5 DEF Landed
  <1>7. QED
    BY <1>6

LEMMA PutGroupLands ==
    ASSUME EditInv, NEW g \in Groups, NEW d \in Descriptions, PutGroup(g, d), answer'.Status \in {200, 201}
    PROVE  \E groups : Landed(groups)
  <1> DEFINE new == [raw.Groups EXCEPT ![g] = [Modules |-> raw.Groups[g].Modules, Description |-> d]]
  <1>1. findGroup(g) /\ \E outcome \in Outcomes : saveAndReload(new, "group", 0, {}, 200, outcome)
    BY RefusalIs DEF PutGroup
  <1>2. RawHasGroups /\ Typed(raw.Groups)
    BY <1>1, RawIs DEF findGroup, RawHasGroups
  <1>3. [Modules |-> raw.Groups[g].Modules, Description |-> d] \in Group
    BY <1>2, GroupIs DEF Group
  <1>4. Typed(new) /\ \A h \in Groups : new[h].Modules = raw.Groups[h].Modules
    BY <1>2, <1>3 DEF Typed
  <1> HIDE DEF new
  <1>. Unique(raw.Groups) => Unique(new)
    BY <1>2, <1>4, SameModulesUnique
  <1>. \A m \in Names : Times(new, m) = Times(raw.Groups, m)
    BY <1>4, SameModulesTimes
  <1>5. /\ raw' = Parsed(new) /\ file' = Parsed(new) /\ moduleByName' = IndexOf(new)
        /\ answer' = [Op |-> "group", Name |-> 0, Status |-> 200]
    BY <1>1, SaveLands
  <1>6. Asked(new)
    BY <1>5 DEF Asked
  <1>7. Landed(new)
    BY <1>2, <1>4, <1>5, <1>6 DEF Landed
  <1>8. QED
    BY <1>7

\* Whatever step answers an edit with a success has written it and loaded it.
LEMMA EditsLand ==
    ASSUME EditInv, [Next]_vars, vars' # vars, answer'.Status \in {200, 201},
           answer'.Op \in {"add", "edit", "delete", "group"}
    PROVE  \E groups : Landed(groups)
  <1>1. ASSUME NEW path \in Paths, SubmitForm(path) PROVE \E groups : Landed(groups)
    <2> DEFINE body == IF path = NoDir THEN NoFields ELSE [Path |-> path]
    <2>1. PatchModule(form.Name, body) /\ form.Name \in Names
      BY <1>1 DEF SubmitForm, EditInv, TypeOK, Forms
    <2>2. \A e \in Entry : Field(body, "Name", e.Name) = e.Name /\ Field(body, "Path", e.Path) \in Paths
      BY EntryIs DEF Field, NoFields
    <2>3. \A e \in Entry : Patched(e, body) \in Entry
      BY <2>2, EntryIs DEF Patched, Entry
    <2> HIDE DEF body
    <2>4. QED
      BY <2>1, <2>3, PatchModuleLands
  <1>2. ASSUME NEW n \in Names, NEW m \in Names, Rename(n, m) PROVE \E groups : Landed(groups)
    <2> DEFINE body == [Name |-> m]
    <2>1. PatchModule(n, body)
      BY <1>2 DEF Rename
    <2>2. \A e \in Entry : Field(body, "Name", e.Name) = m /\ Field(body, "Path", e.Path) = e.Path
      BY DEF Field
    <2>3. \A e \in Entry : Patched(e, body) \in Entry
      BY <2>2, EntryIs DEF Patched, Entry
    <2> HIDE DEF body
    <2>4. QED
      BY <2>1, <2>3, PatchModuleLands
  <1>3. ASSUME NEW write \in BOOLEAN, PostBackfill(write) PROVE FALSE
    <2>1. CASE Refuse("backfill", 0, 200)
      BY <2>1 DEF Refuse
    <2>2. CASE \E outcome \in Outcomes :
                 saveAndReload(Backfilled(raw.Groups, moduleByName), "backfill", 0,
                               NewNames(raw.Groups, moduleByName), 200, outcome)
      BY <2>2, SaveLands
    <2>3. CASE answer' = [Op |-> "backfill", Name |-> 0, Status |-> 200]
      BY <2>3
    <2>4. QED
      BY <1>3, <2>1, <2>2, <2>3 DEF PostBackfill
  <1>4. ~PostReload
    BY DEF PostReload
  <1>5. \A n \in Names : ~OpenForm(n)
    BY DEF OpenForm, NoAnswer
  <1>6. ~Restart /\ ~HandEdit /\ ~CliRead
    BY DEF Restart, HandEdit, CliRead, NoAnswer
  <1>7. \A write \in BOOLEAN : ~CliBackfill(write)
    BY DEF CliBackfill, NoAnswer
  <1>8. (\A dir \in Cloned : ~Clone(dir)) /\ ~UNCHANGED vars
    BY DEF Clone, NoAnswer
  <1>9. QED
    BY <1>1, <1>2, <1>3, <1>4, <1>5, <1>6, <1>7, <1>8, StepCases, PostModuleLands,
       DeleteModuleLands, PutGroupLands

\* A confirmed edit is in the file and in the index the other requests resolve
\* names with: an add has put one entry of its name in the file, a delete has taken
\* one away, and no other name has more or fewer, save those of which memory and
\* file were left to disagree by an unconfirmed edit, a dry run or another writer.
THEOREM AnswersLandHolds == Spec => AnswersLand
  <1> DEFINE Lands ==
        /\ (\E op \in {"add", "edit", "delete", "group"} : Answered(op)) =>
              raw' = file' /\ moduleByName' = IndexOf(file'.Groups)
        /\ (\E op \in {"add", "edit"} : Answered(op)) =>
              moduleByName'[answer'.Name] # NoDir
        /\ Answered("add") =>
              \A n \in Names : FileGains(n, IF n = answer'.Name THEN 1 ELSE 0)
        /\ Answered("delete") =>
              \A n \in Names : FileGains(n, IF n = answer'.Name THEN -1 ELSE 0)
        /\ Answered("edit") =>
              \E old \in Names : \A n \in Names \ {old, answer'.Name} : FileGains(n, 0)
        /\ Answered("group") => \A n \in Names : FileGains(n, 0)
  <1>1. ASSUME EditInv, [Next]_vars, vars' # vars,
               NEW op \in {"add", "edit", "delete", "group"}, Answered(op)
        PROVE  /\ raw' = file' /\ moduleByName' = IndexOf(file'.Groups)
               /\ op \in {"add", "edit"} => moduleByName'[answer'.Name] # NoDir
               /\ op = "add" => \A n \in Names : FileGains(n, IF n = answer'.Name THEN 1 ELSE 0)
               /\ op = "delete" => \A n \in Names : FileGains(n, IF n = answer'.Name THEN -1 ELSE 0)
               /\ op = "edit" => \E old \in Names : \A n \in Names \ {old, answer'.Name} : FileGains(n, 0)
               /\ op = "group" => \A n \in Names : FileGains(n, 0)
    <2>1. answer'.Op = op /\ answer'.Status \in {200, 201}
      BY <1>1 DEF Answered
    <2>2. PICK groups : Landed(groups)
      BY <1>1, <2>1, EditsLand
    <2>3. raw' = file' /\ file'.Groups = groups /\ moduleByName' = IndexOf(groups)
      BY <2>2 DEF Landed, Parsed
    <2>4. Asked(groups)
      BY <2>2 DEF Landed
    <2>5. ASSUME op \in {"add", "edit"} PROVE moduleByName'[answer'.Name] # NoDir
      <3>1. Typed(groups) /\ answer'.Name \in Names /\ Called(groups, answer'.Name) # {}
        BY <2>1, <2>2, <2>4, <2>5 DEF Landed, Asked, NamesOf
      <3>2. QED
        BY <2>3, <3>1, IndexIs
    <2>6. ASSUME NEW n \in Names, NEW count \in Int, Times(groups, n) = Times(raw.Groups, n) + count
          PROVE  FileGains(n, count)
      <3>1. CASE n \in astray
        BY <3>1 DEF FileGains
      <3>2. CASE n \notin astray
        <4>1. raw.Status = "ok" /\ file.Status = "ok"
          BY <1>1, <2>2, <3>2 DEF EditInv, Agree, Landed, RawHasGroups
        <4>2. Times(raw.Groups, n) = Times(file.Groups, n)
          BY <1>1, <3>2, <4>1 DEF EditInv, Agree
        <4>3. QED
          BY <2>3, <2>6, <4>2 DEF FileGains
      <3>3. QED
        BY <3>1, <3>2
    <2>7. \A n \in Names : Times(raw.Groups, n) \in Int
      <3>1. Typed(raw.Groups)
        BY <1>1, <2>2, RawIs DEF Landed, RawHasGroups
      <3>2. QED
        BY <3>1, CalledFinite, FS_CardinalityType DEF Times
    <2>8. ASSUME op = "add", NEW n \in Names PROVE FileGains(n, IF n = answer'.Name THEN 1 ELSE 0)
      <3>1. Times(groups, n) = Times(raw.Groups, n) + (IF n = answer'.Name THEN 1 ELSE 0)
        BY <2>1, <2>4, <2>8 DEF Asked
      <3>2. QED
        BY <2>6, <3>1
    <2>9. ASSUME op = "delete", NEW n \in Names PROVE FileGains(n, IF n = answer'.Name THEN -1 ELSE 0)
      <3>1. Times(groups, n) = Times(raw.Groups, n) - (IF n = answer'.Name THEN 1 ELSE 0)
        BY <2>1, <2>4, <2>9 DEF Asked
      <3>2. Times(groups, n) = Times(raw.Groups, n) + (IF n = answer'.Name THEN -1 ELSE 0)
        BY <2>7, <3>1
      <3>3. QED
        BY <2>6, <3>2
    <2>10. ASSUME NEW n \in Names, Times(groups, n) = Times(raw.Groups, n) PROVE FileGains(n, 0)
      <3>1. Times(groups, n) = Times(raw.Groups, n) + 0
        BY <2>7, <2>10
      <3>2. QED
        BY <2>6, <3>1
    <2>11. ASSUME op = "edit"
           PROVE  \E old \in Names : \A n \in Names \ {old, answer'.Name} : FileGains(n, 0)
      BY <2>1, <2>4, <2>10, <2>11 DEF Asked
    <2>12. ASSUME op = "group" PROVE \A n \in Names : FileGains(n, 0)
      BY <2>1, <2>4, <2>10, <2>12 DEF Asked
    <2>13. QED
      BY <2>3, <2>5, <2>8, <2>9, <2>11, <2>12
  <1>2. EditInv /\ [Next]_vars => [Lands]_vars
    <2> SUFFICES ASSUME EditInv, [Next]_vars, vars' # vars PROVE Lands
      OBVIOUS
    <2>1. QED
      BY <1>1
  <1>3. QED
    BY <1>2, EditInvariant, PTL DEF Spec, AnswersLand

\* No edit gives two entries one name: a module added, renamed or edited has a name
\* of its own, and taking one out makes no other one twice.
THEOREM EditsKeepNamesUniqueHolds == Spec => EditsKeepNamesUnique
  <1> DEFINE Keeps ==
        (\E op \in {"add", "edit", "delete", "group"} : Answered(op))
          /\ Unique(raw.Groups) => Unique(raw'.Groups)
  <1>1. ASSUME EditInv, [Next]_vars, vars' # vars, Unique(raw.Groups),
               NEW op \in {"add", "edit", "delete", "group"}, Answered(op)
        PROVE  Unique(raw'.Groups)
    <2>1. answer'.Op = op /\ answer'.Status \in {200, 201}
      BY <1>1 DEF Answered
    <2>2. PICK groups : Landed(groups)
      BY <1>1, <2>1, EditsLand
    <2>3. raw'.Groups = groups
      BY <2>2 DEF Landed, Parsed
    <2>4. QED
      BY <1>1, <2>2, <2>3 DEF Landed
  <1>2. EditInv /\ [Next]_vars => [Keeps]_vars
    BY <1>1
  <1>3. QED
    BY <1>2, EditInvariant, PTL DEF Spec, EditsKeepNamesUnique

-----------------------------------------------------------------------------
(* What a backfill leaves behind. *)

\* Every directory discovery finds is the path of an entry afterwards: one that
\* was not is new, and the entry the index had for one that was is still there.
LEMMA BackfilledCovers ==
    ASSUME marked \subseteq Marked \cup Cloned, NEW groups, Typed(groups)
    PROVE  Covered(Backfilled(groups, IndexOf(groups)))
  <1> DEFINE index == IndexOf(groups)
             new == Backfilled(groups, index)
  <1> SUFFICES ASSUME NEW g \in Groups, NEW d \in discoverGroupModules(g)
               PROVE  \E h \in Groups : \E e \in Range(new[h].Modules) : AbsolutePath(h, e) = d
    BY DEF Covered
  <1>1. /\ \A h \in Groups : \A e \in Range(groups[h].Modules) : e \in Range(new[h].Modules)
        /\ \A c \in NewModules(groups, index, g) : synthesizeEntry(c) \in Range(new[g].Modules)
    BY BackfilledIs
  <1>2. d # NoDir
    BY NewModulesAre
  <1> HIDE DEF new
  <1>3. CASE d \in NewModules(groups, index, g)
    <2>1. AbsolutePath(g, synthesizeEntry(d)) = d
      BY <1>2 DEF AbsolutePath, synthesizeEntry
    <2>2. QED
      BY <1>1, <1>3, <2>1
  <1>4. CASE d \notin NewModules(groups, index, g)
    <2>1. PICK e \in Range(groups[g].Modules) : index[e.Name] = d
      BY <1>4 DEF NewModules, DeclaredAbsolute
    <2>2. e.Name \in Names
      <3>1. PICK i \in DOMAIN groups[g].Modules : e = groups[g].Modules[i]
        BY DEF Range
      <3>2. e \in Entry
        BY <3>1, GroupIs
      <3>3. QED
        BY <3>2, EntryIs
    <2>3. PICK p \in Called(groups, e.Name) : d = AbsolutePath(p.Group, EntryAt(groups, p))
      BY <1>2, <2>1, <2>2, IndexIs
    <2>4. p.Group \in Groups /\ EntryAt(groups, p) \in Range(groups[p.Group].Modules)
      BY CalledIs DEF EntryAt, Range
    <2>5. QED
      BY <1>1, <2>3, <2>4
  <1>5. QED
    BY <1>3, <1>4

\* Requests other than a backfill answer for themselves, and the rest not at all.
LEMMA BackfillAnswers ==
    ASSUME EditInv, [Next]_vars, vars' # vars, answer'.Op = "backfill"
    PROVE  \E write \in BOOLEAN : PostBackfill(write)
  <1>1. ASSUME NEW op \in {"add", "edit", "delete", "group"}, NEW n, NEW status, Refuse(op, n, status)
        PROVE  FALSE
    BY <1>1 DEF Refuse
  <1>2. ASSUME NEW groups, NEW op \in {"add", "edit", "delete", "group"}, NEW n, NEW edited,
               NEW status, NEW outcome \in Outcomes, saveAndReload(groups, op, n, edited, status, outcome)
        PROVE  FALSE
    <2>1. outcome \in {"ok", "failed", "died"}
      BY ManifestAssumption
    <2>2. CASE outcome = "ok"
      BY <1>2, <2>2 DEF saveAndReload
    <2>3. CASE outcome = "failed"
      BY <1>2, <2>3 DEF saveAndReload
    <2>4. CASE outcome = "died"
      BY <1>2, <2>4 DEF saveAndReload
    <2>5. QED
      BY <2>1, <2>2, <2>3, <2>4
  <1>3. \A g, n, path : ~PostModule(g, n, path)
    BY <1>1, <1>2 DEF PostModule
  <1>4. ASSUME NEW n, NEW body, PatchModule(n, body) PROVE FALSE
    BY <1>1, <1>2, <1>4 DEF PatchModule
  <1>5. \A n \in Names : ~DeleteModule(n)
    BY <1>1, <1>2 DEF DeleteModule
  <1>6. \A g \in Groups, d \in Descriptions : ~PutGroup(g, d)
    BY <1>1, <1>2 DEF PutGroup
  <1>7. (\A path \in Paths : ~SubmitForm(path)) /\ (\A n, m \in Names : ~Rename(n, m))
    BY <1>4 DEF SubmitForm, Rename
  <1>8. ~PostReload
    BY DEF PostReload
  <1>9. \A n \in Names : ~OpenForm(n)
    BY DEF OpenForm, NoAnswer
  <1>10. ~Restart /\ ~HandEdit /\ ~CliRead
    BY DEF Restart, HandEdit, CliRead, NoAnswer
  <1>11. \A write \in BOOLEAN : ~CliBackfill(write)
    BY DEF CliBackfill, NoAnswer
  <1>12. (\A dir \in Cloned : ~Clone(dir)) /\ ~UNCHANGED vars
    BY DEF Clone, NoAnswer
  <1>13. QED
    BY <1>3, <1>5, <1>6, <1>7, <1>8, <1>9, <1>10, <1>11, <1>12, StepCases

\* A confirmed backfill has put what it adds in memory, and in the file if at all.
LEMMA BackfillLands ==
    ASSUME EditInv, [Next]_vars, vars' # vars, Answered("backfill")
    PROVE  LET new == Backfilled(raw.Groups, moduleByName)
           IN  /\ RawHasGroups /\ raw' # raw => raw' = Parsed(new)
               /\ RawHasGroups /\ file' # file => file' = Parsed(new)
  <1> DEFINE new == Backfilled(raw.Groups, moduleByName)
             names == NewNames(raw.Groups, moduleByName)
  <1>1. answer'.Op = "backfill" /\ answer'.Status \in {200, 201}
    BY DEF Answered
  <1>2. PICK write \in BOOLEAN : PostBackfill(write)
    BY <1>1, BackfillAnswers
  <1>3. \/ Refuse("backfill", 0, 200)
        \/ \E outcome \in Outcomes : saveAndReload(new, "backfill", 0, names, 200, outcome)
        \/ raw' = Parsed(new) /\ file' = file
    BY <1>2 DEF PostBackfill
  <1> HIDE DEF new, names
  <1>4. CASE Refuse("backfill", 0, 200)
    BY <1>4 DEF Refuse, new
  <1>5. CASE \E outcome \in Outcomes : saveAndReload(new, "backfill", 0, names, 200, outcome)
    BY <1>1, <1>5, SaveLands DEF new
  <1>6. CASE raw' = Parsed(new) /\ file' = file
    BY <1>6 DEF new
  <1>7. QED
    BY <1>3, <1>4, <1>5, <1>6

\* Only the command lays down the manifest it has read.
LEMMA CliEnds ==
    ASSUME EditInv, [Next]_vars, cli # Nothing, cli' = Nothing
    PROVE  \E write \in BOOLEAN : CliBackfill(write)
  <1>. \A groups, op, n, edited, status, outcome : ~saveAndReload(groups, op, n, edited, status, outcome)
    BY DEF saveAndReload
  <1>. \A op, n, status : ~Refuse(op, n, status)
    BY DEF Refuse
  <1>1. \A g, n, path : ~PostModule(g, n, path)
    BY DEF PostModule
  <1>2. ASSUME NEW n, NEW body, PatchModule(n, body) PROVE FALSE
    BY <1>2 DEF PatchModule
  <1>3. \A n \in Names : ~DeleteModule(n)
    BY DEF DeleteModule
  <1>4. \A g \in Groups, d \in Descriptions : ~PutGroup(g, d)
    BY DEF PutGroup
  <1>5. (\A path \in Paths : ~SubmitForm(path)) /\ (\A n, m \in Names : ~Rename(n, m))
    BY <1>2 DEF SubmitForm, Rename
  <1>6. \A write \in BOOLEAN : ~PostBackfill(write)
    BY DEF PostBackfill
  <1>7. ~PostReload /\ ~Restart /\ ~HandEdit /\ ~CliRead
    BY DEF PostReload, Restart, HandEdit, CliRead
  <1>8. (\A n \in Names : ~OpenForm(n)) /\ (\A dir \in Cloned : ~Clone(dir)) /\ ~UNCHANGED vars
    BY DEF OpenForm, Clone, vars
  <1>9. QED
    BY <1>1, <1>3, <1>4, <1>5, <1>6, <1>7, <1>8, StepCases

\* What a written backfill leaves behind accounts for every module directory on
\* disk, whatever orphans, duplicates and moved entries it found: the command's
\* always, the server's when its memory is in step with the file.
THEOREM BackfillCoversHolds == Spec => BackfillCovers
  <1> DEFINE Covers ==
        /\ Answered("backfill") /\ InStep /\ file' # file => Covered(file'.Groups)
        /\ cli # Nothing /\ cli' = Nothing /\ file' # file => Covered(file'.Groups)
  <1>1. ASSUME EditInv, [Next]_vars, vars' # vars, Answered("backfill"), InStep, file' # file
        PROVE  Covered(file'.Groups)
    <2>1. RawHasGroups /\ moduleByName = IndexOf(raw.Groups)
      BY <1>1 DEF InStep
    <2>2. file'.Groups = Backfilled(raw.Groups, IndexOf(raw.Groups))
      BY <1>1, <2>1, BackfillLands DEF Parsed
    <2>3. Typed(raw.Groups) /\ marked \subseteq Marked \cup Cloned
      BY <1>1, <2>1, RawIs DEF RawHasGroups
    <2>4. QED
      BY <2>2, <2>3, BackfilledCovers
  <1>2. ASSUME EditInv, [Next]_vars, cli # Nothing, cli' = Nothing, file' # file
        PROVE  Covered(file'.Groups)
    <2>1. \E write \in BOOLEAN : CliBackfill(write)
      BY <1>2, CliEnds
    <2>2. file'.Groups = Backfilled(cli.Groups, IndexOf(cli.Groups))
      BY <1>2, <2>1 DEF CliBackfill, atomicWrite, Parsed
    <2>3. Typed(cli.Groups) /\ marked \subseteq Marked \cup Cloned
      BY <1>2, CliIs, RawIs
    <2>4. QED
      BY <2>2, <2>3, BackfilledCovers
  <1>3. EditInv /\ [Next]_vars => [Covers]_vars
    BY <1>1, <1>2
  <1>4. QED
    BY <1>3, EditInvariant, PTL DEF Spec, BackfillCovers

\* A backfill takes no entry away: each is there as often as before at least, a
\* duplicate and an orphan too.
THEOREM BackfillOnlyAddsHolds == Spec => BackfillOnlyAdds
  <1> DEFINE Adds ==
        Backfills =>
          \A g \in Groups : \A e \in Range(raw.Groups[g].Modules) :
            Count(raw'.Groups[g].Modules, e) >= Count(raw.Groups[g].Modules, e)
  <1>1. ASSUME EditInv, [Next]_vars, vars' # vars, Backfills, NEW g \in Groups, NEW e
        PROVE  Count(raw'.Groups[g].Modules, e) >= Count(raw.Groups[g].Modules, e)
    <2>1. raw'.Groups = Backfilled(raw.Groups, moduleByName)
      BY <1>1, BackfillLands DEF Backfills, Parsed
    <2>2. Typed(raw.Groups) /\ marked \subseteq Marked \cup Cloned
      BY <1>1, RawIs DEF Backfills, RawHasGroups
    <2>3. QED
      BY <2>1, <2>2, BackfilledIs
  <1>2. EditInv /\ [Next]_vars => [Adds]_vars
    BY <1>1
  <1>3. QED
    BY <1>2, EditInvariant, PTL DEF Spec, BackfillOnlyAdds

=============================================================================
