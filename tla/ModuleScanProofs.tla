--------------------------- MODULE ModuleScanProofs ---------------------------
(* Theorems about ModuleScan, for every manifest, pool size, set of files and *)
(* number of scans: type correctness, what the pool and the trees changed     *)
(* under it keep of each scan, and that a quiet tree is counted exactly.      *)
EXTENDS ModuleScan, FiniteSetTheorems, SequenceTheorems, TLAPS

Working == {"status", "numstat", "untracked", "wc"}
WorkOf(one) == {m \in Modules : one.Module[m].At \in Working}

(* A name is waiting or was taken, once; a module in work was taken by a scan *)
(* that runs, and past its status it has an entry.                            *)
PoolInv(one) ==
  /\ one.State = "none" => \A m \in Modules : one.Module[m] = NotScanned
  /\ one.State # "running" => one.Queue = {} /\ WorkOf(one) = {}
  /\ \A m \in Modules :
       /\ one.Module[m].At = "queued" <=> m \notin Range(one.Taken)
       /\ m \in one.Queue => one.Module[m].At = "queued"
       /\ one.Module[m].At \in Working \ {"status"} => IsEntry(one.Module[m].Entry)
  /\ \A i, j \in DOMAIN one.Taken : i # j => one.Taken[i] # one.Taken[j]
  /\ Cardinality(WorkOf(one)) <= Concurrency

(* What is in the manifest waits for a worker or was taken by one.            *)
CoverInv(one, names) ==
  one.State \in {"running", "answered", "delivered"} => names \subseteq one.Queue \cup Range(one.Taken)

(* A tree is in one of the states it has had, and a status is of one of them. *)
SeenInv(one, trees, had) ==
  /\ one.State = "running" => \A m \in Modules : trees[m] \in had[m]
  /\ \A m \in Modules : LET entry == one.Module[m].Entry IN
       IsEntry(entry) => entry.Status \in {getGitStatus(t) : t \in had[m]}

ScanInv ==
  /\ TypeOK
  /\ \A s \in Scans :
       /\ PoolInv(scan[s])
       /\ CoverInv(scan[s], declared)
       /\ SeenInv(scan[s], tree, truth[s])
  /\ RunningHonest

-----------------------------------------------------------------------------
\* Which entries are of a module whose status was read.
LEMMA EntryKinds ==
    /\ \A e : ~IsEntry(Failed(e)) /\ Failed(e) = Failed(Failed(e).Error)
    /\ \A x, c, w : IsEntry([Status |-> x, Changes |-> c, Whole |-> w])
    /\ ~IsEntry(NotScanned.Entry)
  BY DEF IsEntry, Failed, NotScanned

\* Once more taken.
LEMMA TakenOnceMore ==
    ASSUME NEW q \in Seq(Modules), NEW m \in Modules, m \notin Range(q),
           \A i, j \in DOMAIN q : i # j => q[i] # q[j]
    PROVE  /\ Append(q, m) \in Seq(Modules)
           /\ Range(Append(q, m)) = Range(q) \cup {m}
           /\ \A i, j \in DOMAIN Append(q, m) : i # j => Append(q, m)[i] # Append(q, m)[j]
  <1> DEFINE p == Append(q, m)
  <1>1. /\ p \in Seq(Modules) /\ Len(p) = Len(q) + 1 /\ p[Len(q) + 1] = m
        /\ \A i \in 1..Len(q) : p[i] = q[i]
        /\ Len(q) \in Nat
    BY AppendProperties, LenProperties
  <1>2. DOMAIN p = 1..(Len(q) + 1) /\ DOMAIN q = 1..Len(q)
    BY <1>1, LenProperties
  <1> HIDE DEF p
  <1>3. Range(p) = Range(q) \cup {m}
    BY <1>1, <1>2 DEF Range
  <1>4. \A i \in DOMAIN q : q[i] # m
    BY DEF Range
  <1>5. \A i \in DOMAIN p : i = Len(q) + 1 \/ i \in DOMAIN q
    BY <1>1, <1>2
  <1>6. \A i, j \in DOMAIN p : i # j => p[i] # p[j]
    BY <1>1, <1>2, <1>4, <1>5
  <1>7. QED
    BY <1>1, <1>3, <1>6 DEF p

\* The record of a scan in which one module has changed.
LEMMA OneChanged ==
    ASSUME TypeOK, NEW s \in Scans, NEW m \in Modules, NEW next, OneModule(s, m, next), IsModule(next)
    PROVE  /\ scan'[s] = [State |-> scan[s].State, Queue |-> scan[s].Queue, Taken |-> scan[s].Taken,
                          Module |-> [n \in Modules |-> IF n = m THEN next ELSE scan[s].Module[n]]]
           /\ IsScan(scan'[s])
           /\ scan' = [u \in Scans |-> scan'[u]]
           /\ \A u \in Scans : u # s => scan'[u] = scan[u]
  <1>1. /\ scan = [u \in Scans |-> scan[u]] /\ IsScan(scan[s])
    BY DEF TypeOK
  <1>2. scan[s].Module = [n \in Modules |-> scan[s].Module[n]]
    BY <1>1 DEF IsScan
  <1>3. scan[s] = [State |-> scan[s].State, Queue |-> scan[s].Queue, Taken |-> scan[s].Taken,
                   Module |-> scan[s].Module]
    BY <1>1 DEF IsScan
  <1>4. scan' = [scan EXCEPT ![s].Module[m] = next]
    BY DEF OneModule
  <1>5. scan' = [u \in Scans |-> IF u = s THEN [scan[s] EXCEPT !.Module[m] = next] ELSE scan[u]]
    BY <1>1, <1>4
  <1>6. scan'[s] = [scan[s] EXCEPT !.Module = [scan[s].Module EXCEPT ![m] = next]]
    BY <1>5
  <1>7. [scan[s].Module EXCEPT ![m] = next] = [n \in Modules |-> IF n = m THEN next ELSE scan[s].Module[n]]
    BY <1>2
  <1>8. scan'[s] = [State |-> scan[s].State, Queue |-> scan[s].Queue, Taken |-> scan[s].Taken,
                    Module |-> [n \in Modules |-> IF n = m THEN next ELSE scan[s].Module[n]]]
    BY <1>3, <1>6, <1>7
  <1>9. IsScan(scan'[s])
    BY <1>1, <1>8 DEF IsScan
  <1>10. QED
    BY <1>5, <1>8, <1>9

(* What a command leaves of a module's record.                                *)
AfterCommand(s, m, next) ==
  /\ IsModule(next)
  /\ next.At \in {"numstat", "untracked", "wc", "done"}
  /\ next.At # "done" => IsEntry(next.Entry)
  /\ IsEntry(next.Entry) => next.Entry.Status \in {getGitStatus(t) : t \in truth[s][m]}

\* The entry of a module grows, its status stays.
LEMMA EntryGrows ==
    ASSUME NEW s \in Scans, NEW m \in Modules, IsModule(scan[s].Module[m]), IsEntry(scan[s].Module[m].Entry),
           SeenInv(scan[s], tree, truth[s]),
           NEW at \in {"untracked", "wc", "done"}, NEW paths \in SUBSET Files, NEW changes, NEW whole
    PROVE  AfterCommand(s, m, [At |-> at, Paths |-> paths,
               Entry |-> Grown(scan[s].Module[m].Entry, whole, changes)])
  <1> DEFINE one == scan[s].Module[m]
             entry == Grown(one.Entry, whole, changes)
             next == [At |-> at, Paths |-> paths, Entry |-> entry]
  <1>1. IsEntry(entry)
    BY EntryKinds DEF Grown
  <1>2. one.Entry.Status \in {getGitStatus(t) : t \in truth[s][m]}
    BY DEF SeenInv
  <1>3. entry.Status = one.Entry.Status /\ entry.Changes = changes /\ entry.Whole = whole
    BY DEF Grown
  <1>4. next.At = at /\ next.Paths = paths /\ next.Entry = entry
    OBVIOUS
  <1>5. IsModule(next)
    <2>1. next = [At |-> next.At, Entry |-> next.Entry, Paths |-> next.Paths]
      OBVIOUS
    <2>2. entry = [Status |-> entry.Status, Changes |-> entry.Changes, Whole |-> entry.Whole]
      BY DEF Grown
    <2> HIDE DEF next, entry
    <2>3. QED
      BY <1>1, <1>4, <2>1, <2>2 DEF IsModule, Stages
  <1> HIDE DEF next, entry
  <1>6. AfterCommand(s, m, next)
    BY <1>1, <1>2, <1>3, <1>4, <1>5 DEF AfterCommand
  <1>7. QED
    BY <1>6 DEF next, entry

\* What the bound on faults still allows.
LEMMA FaultsLeft ==
    ASSUME faults \in 0 .. MaxFaults, NEW fails \in BOOLEAN, May(fails)
    PROVE  faults' \in 0 .. MaxFaults
  BY ScanAssumption DEF May

\* Each command takes one module one stage further.
LEMMA CommandStep ==
    ASSUME ScanInv, NEW s \in Scans, NEW m \in Modules, NEW fails \in BOOLEAN, Command(s, m, fails)
    PROVE  /\ scan[s].Module[m].At \in Working
           /\ May(fails)
           /\ \E next : OneModule(s, m, next) /\ AfterCommand(s, m, next)
  <1> DEFINE one == scan[s].Module[m]
  <1>1. /\ IsModule(one) /\ IsScan(scan[s])
        /\ SeenInv(scan[s], tree, truth[s]) /\ PoolInv(scan[s])
    BY DEF ScanInv, TypeOK, IsScan
  <1>2. one = [At |-> one.At, Entry |-> one.Entry, Paths |-> one.Paths] /\ one.Paths \subseteq Files
    BY <1>1 DEF IsModule
  <1>3. /\ one.At \in Working => tree[m] \in truth[s][m]
        /\ one.At \in Working \ {"status"} => IsEntry(one.Entry)
    <2>1. one.At \in Working => scan[s].State = "running"
      BY <1>1 DEF PoolInv, WorkOf
    <2>2. QED
      BY <1>1, <2>1 DEF SeenInv, PoolInv
  <1>4. May(fails)
    BY DEF Command, gitStatus, gitNumstat, gitUntracked, wc
  <1>5. CASE gitStatus(s, m, fails)
    <2> DEFINE lost == [At |-> "done", Entry |-> Failed("git failed"), Paths |-> {}]
               read == [At |-> "numstat", Paths |-> {}, Entry |-> Begun(getGitStatus(tree[m]))]
    <2>1. one.At = "status" /\ OneModule(s, m, IF fails THEN lost ELSE read)
      BY <1>5 DEF gitStatus
    <2>2. AfterCommand(s, m, lost)
      BY EntryKinds DEF AfterCommand, IsModule, Stages
    <2>3. AfterCommand(s, m, read)
      <3>1. IsEntry(Begun(getGitStatus(tree[m]))) /\ Begun(getGitStatus(tree[m])).Status = getGitStatus(tree[m])
        BY EntryKinds DEF Begun
      <3>2. IsModule(read)
        BY <3>1 DEF IsModule, Stages, Begun
      <3>3. getGitStatus(tree[m]) \in {getGitStatus(t) : t \in truth[s][m]}
        BY <1>3, <2>1 DEF Working
      <3>4. read.Entry = Begun(getGitStatus(tree[m])) /\ read.At = "numstat"
        OBVIOUS
      <3> HIDE DEF read
      <3>5. QED
        BY <3>1, <3>2, <3>3, <3>4 DEF AfterCommand
    <2> HIDE DEF lost, read
    <2>4. QED
      BY <1>4, <2>1, <2>2, <2>3 DEF Working
  <1>6. CASE gitNumstat(s, m, fails)
    <2>1. PICK whole, changes : OneModule(s, m,
            [At |-> "untracked", Paths |-> {}, Entry |-> Grown(one.Entry, whole, changes)])
      BY <1>6 DEF gitNumstat
    <2>2. one.At = "numstat"
      BY <1>6 DEF gitNumstat
    <2>3. QED
      BY <1>1, <1>3, <1>4, <2>1, <2>2, EntryGrows DEF Working
  <1>7. CASE gitUntracked(s, m, fails)
    <2>1. PICK at \in {"done", "wc"}, paths \in SUBSET Files : \E whole, changes : OneModule(s, m,
            [At |-> at, Paths |-> paths, Entry |-> Grown(one.Entry, whole, changes)])
      BY <1>7 DEF gitUntracked, Untracked
    <2>2. one.At = "untracked"
      BY <1>7 DEF gitUntracked
    <2>3. QED
      BY <1>1, <1>3, <1>4, <2>1, <2>2, EntryGrows DEF Working
  <1>8. CASE wc(s, m, fails)
    <2>1. PICK whole, changes : OneModule(s, m,
            [At |-> "done", Paths |-> one.Paths, Entry |-> Grown(one.Entry, whole, changes)])
      BY <1>8 DEF wc
    <2>2. one.At = "wc"
      BY <1>8 DEF wc
    <2>3. QED
      BY <1>1, <1>2, <1>3, <1>4, <2>1, <2>2, EntryGrows DEF Working
  <1>9. QED
    BY <1>5, <1>6, <1>7, <1>8 DEF Command

-----------------------------------------------------------------------------
\* The modules in work are finitely many, and fewer are no more.
LEMMA FewerInWork ==
    ASSUME NEW one, NEW S, S \subseteq WorkOf(one), Cardinality(WorkOf(one)) <= Concurrency
    PROVE  Cardinality(S) <= Concurrency
  <1>1. IsFiniteSet(Modules) /\ Concurrency \in Nat
    BY ScanAssumption
  <1>2. WorkOf(one) \subseteq Modules
    BY DEF WorkOf
  <1>3. IsFiniteSet(WorkOf(one))
    BY <1>1, <1>2, FS_Subset
  <1>4. IsFiniteSet(S) /\ Cardinality(S) <= Cardinality(WorkOf(one))
    BY <1>3, FS_Subset
  <1>5. Cardinality(S) \in Nat /\ Cardinality(WorkOf(one)) \in Nat
    BY <1>3, <1>4, FS_CardinalityType
  <1>6. QED
    BY <1>1, <1>4, <1>5

\* A command of a scan.
LEMMA CommandKeeps ==
    ASSUME ScanInv, NEW s \in Scans, NEW m \in Modules, NEW fails \in BOOLEAN, Command(s, m, fails)
    PROVE  ScanInv'
  <1>1. scan[s].Module[m].At \in Working
    BY CommandStep
  <1>2. PICK next : OneModule(s, m, next) /\ AfterCommand(s, m, next)
    BY CommandStep
  <1> DEFINE old == scan[s]
             new == scan'[s]
  <1>3. TypeOK /\ IsModule(next)
    BY <1>2 DEF ScanInv, AfterCommand
  <1>4. /\ new = [State |-> old.State, Queue |-> old.Queue, Taken |-> old.Taken,
                  Module |-> [n \in Modules |-> IF n = m THEN next ELSE old.Module[n]]]
        /\ IsScan(new)
        /\ scan' = [u \in Scans |-> scan'[u]]
        /\ \A u \in Scans : u # s => scan'[u] = scan[u]
    BY <1>2, <1>3, OneChanged
  <1>5. UNCHANGED <<declared, tree, shown, Running, decorations, edits, truth>>
    BY <1>2 DEF OneModule
  <1>6. /\ new.State = old.State /\ new.Queue = old.Queue /\ new.Taken = old.Taken
        /\ new.Module[m] = next /\ \A n \in Modules : n # m => new.Module[n] = old.Module[n]
    BY <1>4
  <1>7. PoolInv(old) /\ CoverInv(old, declared) /\ SeenInv(old, tree, truth[s])
    BY DEF ScanInv
  <1> HIDE DEF old, new
  <1>8. TypeOK'
    <2>1. \A u \in Scans : IsScan(scan'[u])
      BY <1>3, <1>4 DEF TypeOK, new
    <2>2. /\ declared' \subseteq Modules /\ tree' \in [Modules -> Tree]
          /\ truth' \in [Scans -> [Modules -> SUBSET Tree]]
          /\ shown' = [Scan |-> shown'.Scan, Entries |-> shown'.Entries] /\ shown'.Scan \in 0 .. MaxScans
          /\ Running' \in BOOLEAN /\ decorations' \in Nat /\ edits' \in 0 .. MaxEdits
      BY <1>3, <1>5, Zenon DEF TypeOK
    <2>3. faults' \in 0 .. MaxFaults
      BY <1>3, CommandStep, FaultsLeft DEF TypeOK
    <2>4. QED
      BY <1>4, <2>1, <2>2, <2>3, Zenon DEF TypeOK
  <1>9. PoolInv(new)
    <2>1. old.State = "running"
      BY <1>1, <1>7 DEF PoolInv, WorkOf, old
    <2>2. WorkOf(new) \subseteq WorkOf(old)
      BY <1>1, <1>6 DEF WorkOf, old
    <2>3. Cardinality(WorkOf(new)) <= Concurrency
      BY <1>7, <2>2, FewerInWork DEF PoolInv
    <2>4. next.At # "queued" /\ old.Module[m].At # "queued"
      BY <1>1, <1>2 DEF AfterCommand, Working, old
    <2>5. next.At \in Working \ {"status"} => IsEntry(next.Entry)
      BY <1>2 DEF AfterCommand, Working
    <2>6. \A n \in Modules :
            /\ new.Module[n].At = "queued" <=> n \notin Range(new.Taken)
            /\ n \in new.Queue => new.Module[n].At = "queued"
            /\ new.Module[n].At \in Working \ {"status"} => IsEntry(new.Module[n].Entry)
      BY <1>6, <1>7, <2>4, <2>5 DEF PoolInv
    <2>7. QED
      BY <1>6, <1>7, <2>1, <2>3, <2>6 DEF PoolInv
  <1>10. CoverInv(new, declared')
    BY <1>5, <1>6, <1>7 DEF CoverInv
  <1>11. SeenInv(new, tree', truth'[s])
    BY <1>2, <1>5, <1>6, <1>7 DEF SeenInv, AfterCommand
  <1>12. \A u \in Scans : PoolInv(scan'[u]) /\ CoverInv(scan'[u], declared') /\ SeenInv(scan'[u], tree', truth'[u])
    BY <1>4, <1>5, <1>9, <1>10, <1>11 DEF ScanInv, new
  <1>13. RunningHonest'
    BY <1>4, <1>5, <1>6 DEF ScanInv, RunningHonest, old, new
  <1>14. QED
    BY <1>8, <1>12, <1>13 DEF ScanInv

\* A step of one scan that leaves the trees and the manifest alone.
LEMMA OneScanKeeps ==
    ASSUME ScanInv, NEW s \in Scans, NEW new,
           scan' = [u \in Scans |-> IF u = s THEN new ELSE scan[u]],
           IsScan(new), PoolInv(new), CoverInv(new, declared), SeenInv(new, tree, truth'[s]),
           UNCHANGED <<declared, tree, edits>>,
           truth' \in [Scans -> [Modules -> SUBSET Tree]], \A u \in Scans : u # s => truth'[u] = truth[u],
           shown' = [Scan |-> shown'.Scan, Entries |-> shown'.Entries], shown'.Scan \in 0 .. MaxScans,
           Running' \in BOOLEAN, decorations' \in Nat, faults' \in 0 .. MaxFaults,
           RunningHonest'
    PROVE  ScanInv'
  <1>1. /\ scan' = [u \in Scans |-> scan'[u]]
        /\ scan'[s] = new /\ \A u \in Scans : u # s => scan'[u] = scan[u]
    OBVIOUS
  <1>2. TypeOK
    BY DEF ScanInv
  <1>3. \A u \in Scans : IsScan(scan'[u])
    BY <1>1, <1>2 DEF TypeOK
  <1>4. declared' \subseteq Modules /\ tree' \in [Modules -> Tree] /\ edits' \in 0 .. MaxEdits
    BY <1>2, Zenon DEF TypeOK
  <1>5. TypeOK'
    BY <1>1, <1>3, <1>4, Zenon DEF TypeOK
  <1>6. \A u \in Scans : PoolInv(scan'[u]) /\ CoverInv(scan'[u], declared') /\ SeenInv(scan'[u], tree', truth'[u])
    BY <1>1 DEF ScanInv
  <1>7. QED
    BY <1>5, <1>6 DEF ScanInv

\* A record of a scan, its state and its queue replaced.
LEMMA ScanReplaced ==
    ASSUME TypeOK, NEW s \in Scans, NEW new, scan' = [scan EXCEPT ![s] = new]
    PROVE  scan' = [u \in Scans |-> IF u = s THEN new ELSE scan[u]]
  BY DEF TypeOK

\* A worker takes a name.
LEMMA PumpKeeps ==
    ASSUME ScanInv, NEW s \in Scans, pumpWorker(s)
    PROVE  ScanInv'
  <1> DEFINE old == scan[s]
  <1>1. TypeOK /\ IsScan(old) /\ PoolInv(old) /\ CoverInv(old, declared) /\ SeenInv(old, tree, truth[s])
    BY DEF ScanInv, TypeOK
  <1>2. PICK m \in old.Queue : scan' = [scan EXCEPT ![s] =
                  [State |-> old.State, Queue |-> old.Queue \ {m}, Taken |-> Append(old.Taken, m),
                   Module |-> [old.Module EXCEPT ![m] = LookedUp(m)]]]
    BY DEF pumpWorker
  <1>3. m \in Modules /\ old.Taken \in Seq(Modules) /\ old.Module = [n \in Modules |-> old.Module[n]]
    BY <1>1 DEF IsScan
  <1> DEFINE new == [State |-> old.State, Queue |-> old.Queue \ {m}, Taken |-> Append(old.Taken, m),
                     Module |-> [n \in Modules |-> IF n = m THEN LookedUp(m) ELSE old.Module[n]]]
  <1>4. scan' = [scan EXCEPT ![s] = new]
    BY <1>2, <1>3
  <1>5. scan' = [u \in Scans |-> IF u = s THEN new ELSE scan[u]]
    BY <1>1, <1>4, ScanReplaced
  <1>6. /\ new.State = old.State /\ new.Queue = old.Queue \ {m} /\ new.Taken = Append(old.Taken, m)
        /\ new = [State |-> new.State, Queue |-> new.Queue, Taken |-> new.Taken, Module |-> new.Module]
        /\ new.Module = [n \in Modules |-> new.Module[n]]
        /\ new.Module[m] = LookedUp(m) /\ \A n \in Modules : n # m => new.Module[n] = old.Module[n]
    BY <1>3
  <1>7. /\ IsModule(LookedUp(m)) /\ ~IsEntry(LookedUp(m).Entry)
        /\ LookedUp(m).At \in {"status", "done"}
    BY EntryKinds DEF LookedUp, IsModule, Stages, NotScanned, Failed
  <1>8. UNCHANGED <<declared, tree, shown, Running, decorations, edits, truth, faults>>
    BY DEF pumpWorker
  <1>9. Cardinality(WorkOf(old)) < Concurrency
    BY DEF pumpWorker, InWork, WorkOf, Working
  <1> HIDE DEF old, new
  <1>10. m \notin Range(old.Taken) /\ old.Module[m].At = "queued" /\ old.State = "running"
    BY <1>1, <1>3 DEF PoolInv
  <1>11. /\ new.Taken \in Seq(Modules) /\ Range(new.Taken) = Range(old.Taken) \cup {m}
         /\ \A i, j \in DOMAIN new.Taken : i # j => new.Taken[i] # new.Taken[j]
    <2>1. \A i, j \in DOMAIN old.Taken : i # j => old.Taken[i] # old.Taken[j]
      BY <1>1 DEF PoolInv
    <2>2. QED
      BY <1>3, <1>6, <1>10, <2>1, TakenOnceMore
  <1>12. IsScan(new)
    BY <1>1, <1>3, <1>6, <1>7, <1>11 DEF IsScan
  <1>13. PoolInv(new)
    <2>1. Cardinality(WorkOf(new)) <= Concurrency
      <3>1. WorkOf(new) \subseteq WorkOf(old) \cup {m}
        BY <1>6 DEF WorkOf
      <3>2. IsFiniteSet(WorkOf(old)) /\ IsFiniteSet(WorkOf(old) \cup {m})
        BY ScanAssumption, FS_Subset, FS_AddElement DEF WorkOf
      <3>3. Cardinality(WorkOf(old) \cup {m}) <= Cardinality(WorkOf(old)) + 1
        BY <3>2, FS_AddElement, FS_CardinalityType
      <3>4. Cardinality(WorkOf(new)) <= Cardinality(WorkOf(old) \cup {m})
        BY <3>1, <3>2, FS_Subset
      <3>5. /\ Cardinality(WorkOf(old)) \in Nat /\ Cardinality(WorkOf(old) \cup {m}) \in Nat
            /\ Cardinality(WorkOf(new)) \in Nat /\ Concurrency \in Nat
        BY <3>1, <3>2, FS_Subset, FS_CardinalityType, ScanAssumption
      <3>6. QED
        BY <1>9, <3>3, <3>4, <3>5
    <2>2. LookedUp(m).At # "queued" /\ LookedUp(m).At \notin Working \ {"status"}
      BY <1>7 DEF Working
    <2>3. \A n \in Modules :
            /\ new.Module[n].At = "queued" <=> n \notin Range(new.Taken)
            /\ n \in new.Queue => new.Module[n].At = "queued"
            /\ new.Module[n].At \in Working \ {"status"} => IsEntry(new.Module[n].Entry)
      BY <1>1, <1>6, <1>11, <2>2 DEF PoolInv
    <2>4. QED
      BY <1>6, <1>10, <1>11, <2>1, <2>3 DEF PoolInv
  <1>14. CoverInv(new, declared)
    BY <1>1, <1>6, <1>11 DEF CoverInv
  <1>15. SeenInv(new, tree, truth'[s])
    BY <1>1, <1>6, <1>7, <1>8 DEF SeenInv
  <1>16. RunningHonest'
    <2>1. \A u \in Scans : scan'[u].State = scan[u].State
      BY <1>5, <1>6 DEF old
    <2>2. QED
      BY <1>8, <2>1 DEF ScanInv, RunningHonest
  <1>17. /\ truth' \in [Scans -> [Modules -> SUBSET Tree]]
         /\ shown' = [Scan |-> shown'.Scan, Entries |-> shown'.Entries] /\ shown'.Scan \in 0 .. MaxScans
         /\ Running' \in BOOLEAN /\ decorations' \in Nat /\ faults' \in 0 .. MaxFaults
    BY <1>1, <1>8, Zenon DEF TypeOK
  <1>18. QED
    BY <1>5, <1>8, <1>12, <1>13, <1>14, <1>15, <1>16, <1>17, OneScanKeeps

\* A scan none of whose modules waits or is in work changes its state.
LEMMA StateKeeps ==
    ASSUME ScanInv, NEW s \in Scans, NEW state \in {"answered", "delivered", "failed"},
           scan[s].State \in {"running", "answered"}, scan[s].Queue = {}, WorkOf(scan[s]) = {},
           scan' = [scan EXCEPT ![s].State = state],
           UNCHANGED <<declared, tree, edits, truth>>,
           shown' = [Scan |-> shown'.Scan, Entries |-> shown'.Entries], shown'.Scan \in 0 .. MaxScans,
           Running' \in BOOLEAN, decorations' \in Nat, faults' \in 0 .. MaxFaults,
           Running' => Running /\ state = "answered"
    PROVE  ScanInv'
  <1> DEFINE old == scan[s]
             new == [State |-> state, Queue |-> old.Queue, Taken |-> old.Taken, Module |-> old.Module]
  <1>1. TypeOK /\ IsScan(old) /\ PoolInv(old) /\ CoverInv(old, declared) /\ SeenInv(old, tree, truth[s])
    BY DEF ScanInv, TypeOK
  <1>2. [old EXCEPT !.State = state] = new
    <2>1. old = [State |-> old.State, Queue |-> old.Queue, Taken |-> old.Taken, Module |-> old.Module]
      BY <1>1 DEF IsScan
    <2>2. QED
      BY <2>1
  <1>3. scan' = [u \in Scans |-> IF u = s THEN new ELSE scan[u]]
    <2>1. scan' = [scan EXCEPT ![s] = new]
      BY <1>2
    <2>2. QED
      BY <1>1, <2>1, ScanReplaced
  <1>4. /\ new.State = state /\ new.Queue = old.Queue /\ new.Taken = old.Taken /\ new.Module = old.Module
        /\ new = [State |-> new.State, Queue |-> new.Queue, Taken |-> new.Taken, Module |-> new.Module]
    OBVIOUS
  <1>5. old.State \in {"running", "answered"} /\ old.Queue = {} /\ WorkOf(old) = {}
    OBVIOUS
  <1> HIDE DEF old, new
  <1>6. IsScan(new)
    BY <1>1, <1>4 DEF IsScan, States
  <1>7. PoolInv(new)
    <2>1. WorkOf(new) = {}
      BY <1>4, <1>5 DEF WorkOf
    <2>2. \A m \in Modules :
            /\ new.Module[m].At = "queued" <=> m \notin Range(new.Taken)
            /\ m \in new.Queue => new.Module[m].At = "queued"
            /\ new.Module[m].At \in Working \ {"status"} => IsEntry(new.Module[m].Entry)
      BY <1>1, <1>4 DEF PoolInv
    <2>3. Cardinality(WorkOf(new)) <= Concurrency
      BY <2>1, <1>1, <1>5 DEF PoolInv
    <2>4. QED
      BY <1>1, <1>4, <1>5, <2>1, <2>2, <2>3 DEF PoolInv
  <1>8. CoverInv(new, declared)
    BY <1>1, <1>4, <1>5 DEF CoverInv
  <1>9. SeenInv(new, tree, truth'[s])
    BY <1>1, <1>4 DEF SeenInv
  <1>10. RunningHonest'
    <2>1. ASSUME Running' PROVE \E u \in Scans : scan'[u].State \in {"running", "answered"}
      <3>1. scan'[s].State = "answered"
        BY <1>3, <1>4, <2>1
      <3>2. QED
        BY <3>1
    <2>2. QED
      BY <2>1 DEF RunningHonest
  <1>11. truth' \in [Scans -> [Modules -> SUBSET Tree]]
    BY <1>1 DEF TypeOK
  <1>12. QED
    BY <1>3, <1>6, <1>7, <1>8, <1>9, <1>10, <1>11, OneScanKeeps

LEMMA RespondKeeps ==
    ASSUME ScanInv, NEW s \in Scans, Respond(s)
    PROVE  ScanInv'
  <1>1. TypeOK /\ PoolInv(scan[s])
    BY DEF ScanInv
  <1>2. /\ scan[s].State = "running" /\ scan[s].Queue = {}
        /\ \A m \in Range(scan[s].Taken) : scan[s].Module[m].At = "done"
        /\ scan' = [scan EXCEPT ![s].State = "answered"]
        /\ UNCHANGED <<declared, tree, shown, Running, decorations, edits, faults, truth>>
    BY DEF Respond
  <1>3. WorkOf(scan[s]) = {}
    BY <1>1, <1>2 DEF PoolInv, WorkOf, Working
  <1>4. /\ shown' = [Scan |-> shown'.Scan, Entries |-> shown'.Entries] /\ shown'.Scan \in 0 .. MaxScans
        /\ Running' \in BOOLEAN /\ decorations' \in Nat /\ faults' \in 0 .. MaxFaults
    BY <1>1, <1>2, Zenon DEF TypeOK
  <1>5. QED
    BY <1>2, <1>3, <1>4, StateKeeps

LEMMA ResponseKeeps ==
    ASSUME ScanInv, NEW s \in Scans, ScanArrives(s) \/ ScanFailed(s)
    PROVE  ScanInv'
  <1>1. TypeOK /\ PoolInv(scan[s])
    BY DEF ScanInv
  <1>2. /\ scan[s].State = "answered" /\ Running' = FALSE
        /\ UNCHANGED <<declared, tree, edits, truth>>
    BY DEF ScanArrives, ScanFailed
  <1>3. scan[s].Queue = {} /\ WorkOf(scan[s]) = {}
    BY <1>1, <1>2 DEF PoolInv
  <1>4. CASE ScanArrives(s)
    <2>1. scan' = [scan EXCEPT ![s].State = "delivered"] /\ decorations' = decorations + 1 /\ faults' = faults
      BY <1>4 DEF ScanArrives
    <2>2. PICK entries : shown' = [Scan |-> s, Entries |-> entries]
      BY <1>4 DEF ScanArrives
    <2>3. shown' = [Scan |-> shown'.Scan, Entries |-> shown'.Entries] /\ shown'.Scan \in 0 .. MaxScans
      BY <2>2, ScanAssumption DEF Scans
    <2>4. decorations' \in Nat /\ faults' \in 0 .. MaxFaults
      BY <1>1, <2>1 DEF TypeOK
    <2>5. QED
      BY <1>2, <1>3, <2>1, <2>3, <2>4, StateKeeps
  <1>5. CASE ScanFailed(s)
    <2>1. scan' = [scan EXCEPT ![s].State = "failed"] /\ decorations' = decorations /\ shown' = shown /\ May(TRUE)
      BY <1>5 DEF ScanFailed
    <2>2. /\ shown' = [Scan |-> shown'.Scan, Entries |-> shown'.Entries] /\ shown'.Scan \in 0 .. MaxScans
          /\ decorations' \in Nat
      BY <1>1, <2>1, Zenon DEF TypeOK
    <2>3. faults' \in 0 .. MaxFaults
      BY <1>1, <2>1, FaultsLeft DEF TypeOK
    <2>4. QED
      BY <1>2, <1>3, <2>1, <2>2, <2>3, StateKeeps
  <1>6. QED
    BY <1>4, <1>5

\* A scan begins with what is in the manifest and the trees as they are.
LEMMA RequestKeeps ==
    ASSUME ScanInv, NEW s \in Scans, RequestScan(s)
    PROVE  ScanInv'
  <1> DEFINE old == scan[s]
             new == [State |-> "running", Queue |-> declared, Taken |-> old.Taken, Module |-> old.Module]
  <1>1. TypeOK /\ IsScan(old) /\ PoolInv(old)
    BY DEF ScanInv, TypeOK
  <1>2. /\ old.State = "none" /\ Running' = TRUE /\ scan' = [scan EXCEPT ![s] = new]
        /\ truth' = [truth EXCEPT ![s] = [m \in Modules |-> {tree[m]}]]
        /\ UNCHANGED <<declared, tree, shown, decorations, edits, faults>>
    BY DEF RequestScan
  <1>3. scan' = [u \in Scans |-> IF u = s THEN new ELSE scan[u]]
    BY <1>1, <1>2, ScanReplaced
  <1>4. /\ new.State = "running" /\ new.Queue = declared /\ new.Taken = old.Taken /\ new.Module = old.Module
        /\ new = [State |-> new.State, Queue |-> new.Queue, Taken |-> new.Taken, Module |-> new.Module]
    OBVIOUS
  <1> HIDE DEF old, new
  <1>5. \A m \in Modules : old.Module[m] = NotScanned
    BY <1>1, <1>2 DEF PoolInv
  <1>6. declared \subseteq Modules /\ tree \in [Modules -> Tree]
    BY <1>1 DEF TypeOK
  <1>7. IsScan(new)
    BY <1>1, <1>4, <1>6 DEF IsScan, States
  <1>8. PoolInv(new)
    <2>1. WorkOf(new) = WorkOf(old)
      BY <1>4 DEF WorkOf
    <2>2. \A m \in Modules :
            /\ new.Module[m].At = "queued" <=> m \notin Range(new.Taken)
            /\ m \in new.Queue => new.Module[m].At = "queued"
            /\ new.Module[m].At \in Working \ {"status"} => IsEntry(new.Module[m].Entry)
      BY <1>1, <1>4, <1>5 DEF PoolInv, NotScanned
    <2>3. QED
      BY <1>1, <1>4, <2>1, <2>2 DEF PoolInv
  <1>9. CoverInv(new, declared)
    BY <1>4 DEF CoverInv
  <1>10. truth'[s] = [m \in Modules |-> {tree[m]}] /\ truth' \in [Scans -> [Modules -> SUBSET Tree]]
    BY <1>1, <1>2, <1>6 DEF TypeOK
  <1>11. SeenInv(new, tree, truth'[s])
    <2>1. \A m \in Modules : ~IsEntry(new.Module[m].Entry)
      BY <1>4, <1>5, EntryKinds
    <2>2. QED
      BY <1>10, <2>1 DEF SeenInv
  <1>12. RunningHonest'
    <2>1. scan'[s].State = "running"
      BY <1>3, <1>4
    <2>2. QED
      BY <2>1 DEF RunningHonest
  <1>13. \A u \in Scans : u # s => truth'[u] = truth[u]
    BY <1>1, <1>2 DEF TypeOK
  <1>14. /\ shown' = [Scan |-> shown'.Scan, Entries |-> shown'.Entries] /\ shown'.Scan \in 0 .. MaxScans
         /\ decorations' \in Nat /\ faults' \in 0 .. MaxFaults
    BY <1>1, <1>2, Zenon DEF TypeOK
  <1>15. QED
    BY <1>2, <1>3, <1>7, <1>8, <1>9, <1>10, <1>11, <1>12, <1>13, <1>14, OneScanKeeps

\* A decoration changes what is shown, and nothing the invariant speaks of.
LEMMA DecorationKeeps ==
    ASSUME ScanInv, NEW fails \in BOOLEAN, DecorationArrives(fails)
    PROVE  ScanInv'
  <1>1. TypeOK /\ May(fails)
    BY DEF ScanInv, DecorationArrives
  <1>2. PICK entries : /\ decorations > 0 /\ decorations' = decorations - 1
                       /\ shown' = IF fails THEN shown ELSE [shown EXCEPT !.Entries = entries]
                       /\ UNCHANGED <<declared, tree, scan, Running, edits, truth>>
    BY DEF DecorationArrives
  <1>3. shown' = [Scan |-> shown'.Scan, Entries |-> shown'.Entries] /\ shown'.Scan \in 0 .. MaxScans
    <2>1. shown = [Scan |-> shown.Scan, Entries |-> shown.Entries] /\ shown.Scan \in 0 .. MaxScans
      BY <1>1 DEF TypeOK
    <2>2. [shown EXCEPT !.Entries = entries] = [Scan |-> shown.Scan, Entries |-> entries]
      BY <2>1
    <2>3. CASE fails
      BY <1>2, <2>1, <2>3
    <2>4. CASE ~fails
      BY <1>2, <2>1, <2>2, <2>4
    <2>5. QED
      BY <2>3, <2>4
  <1>4. decorations' \in Nat /\ faults' \in 0 .. MaxFaults
    BY <1>1, <1>2, FaultsLeft DEF TypeOK
  <1>5. TypeOK'
    BY <1>1, <1>2, <1>3, <1>4, Zenon DEF TypeOK
  <1>6. QED
    BY <1>2, <1>5 DEF ScanInv, RunningHonest

\* A tree changes: what it becomes is among the states every running scan may
\* have seen.
LEMMA EditKeeps ==
    ASSUME ScanInv, NEW m \in Modules, NEW t \in Tree, Edits(m, t)
    PROVE  ScanInv'
  <1>1. TypeOK
    BY DEF ScanInv
  <1>2. /\ edits > 0 /\ edits' = edits - 1
        /\ tree' = [tree EXCEPT ![m] = t]
        /\ truth' = [s \in Scans |->
              IF scan[s].State = "running" THEN [truth[s] EXCEPT ![m] = @ \cup {t}] ELSE truth[s]]
        /\ UNCHANGED <<declared, scan, shown, Running, decorations, faults>>
    BY DEF Edits
  <1>3. /\ truth' \in [Scans -> [Modules -> SUBSET Tree]]
        /\ tree' \in [Modules -> Tree] /\ edits' \in 0 .. MaxEdits
    BY <1>1, <1>2, ScanAssumption DEF TypeOK
  <1>4. TypeOK'
    BY <1>1, <1>2, <1>3, Zenon DEF TypeOK
  <1>5. ASSUME NEW s \in Scans PROVE SeenInv(scan'[s], tree', truth'[s])
    <2>1. SeenInv(scan[s], tree, truth[s])
      BY DEF ScanInv
    <2>2. \A n \in Modules : truth[s][n] \subseteq truth'[s][n]
      BY <1>1, <1>2 DEF TypeOK
    <2>3. scan[s].State = "running" => \A n \in Modules : tree'[n] \in truth'[s][n]
      BY <1>1, <1>2, <2>1 DEF TypeOK, SeenInv
    <2>4. ASSUME NEW n \in Modules, IsEntry(scan[s].Module[n].Entry)
          PROVE  scan[s].Module[n].Entry.Status \in {getGitStatus(x) : x \in truth'[s][n]}
      <3>1. scan[s].Module[n].Entry.Status \in {getGitStatus(x) : x \in truth[s][n]}
        BY <2>1, <2>4 DEF SeenInv
      <3>2. QED
        BY <2>2, <3>1
    <2>5. QED
      BY <1>2, <2>3, <2>4 DEF SeenInv
  <1>6. QED
    BY <1>2, <1>4, <1>5 DEF ScanInv, RunningHonest

\* Every change of a tree makes a tree.
LEMMA ChangesAreEdits ==
    ASSUME TypeOK, NEW m \in Modules,
           \/ \E f \in Files, to \in Changed \cup {"absent", "untracked"} : ChangeFile(m, f, to)
           \/ Commit(m) \/ Push(m) \/ Fetch(m)
    PROVE  \E t \in Tree : Edits(m, t)
  <1>1. tree[m] \in Tree
    BY DEF TypeOK
  <1>2. ASSUME NEW f \in Files, NEW to \in Changed \cup {"absent", "untracked"}, ChangeFile(m, f, to)
        PROVE  \E t \in Tree : Edits(m, t)
    <2>1. [tree[m] EXCEPT !.File = [tree[m].File EXCEPT ![f] = to]] \in Tree
      BY <1>1 DEF Tree, FileStates
    <2>2. QED
      BY <1>2, <2>1 DEF ChangeFile
  <1>3. CASE Commit(m)
    <2> DEFINE files == [f \in Files |-> CASE tree[m].File[f] = "staged" -> "clean"
                                           [] tree[m].File[f] = "both"   -> "unstaged"
                                           [] OTHER                      -> tree[m].File[f]]
               t == [Ahead |-> tree[m].Ahead + 1, Behind |-> tree[m].Behind, File |-> files]
    <2>1. files \in [Files -> FileStates]
      BY <1>1 DEF Tree, FileStates, Changed
    <2>2. Edits(m, t)
      BY <1>3 DEF Commit
    <2> HIDE DEF files
    <2>3. t \in Tree
      BY <1>1, <2>1 DEF Tree
    <2>4. QED
      BY <2>2, <2>3
  <1>4. CASE Push(m)
    <2>1. [tree[m] EXCEPT !.Ahead = 0] \in Tree
      BY <1>1 DEF Tree
    <2>2. QED
      BY <1>4, <2>1 DEF Push
  <1>5. CASE Fetch(m)
    <2>1. [tree[m] EXCEPT !.Behind = 1] \in Tree
      BY <1>1 DEF Tree
    <2>2. QED
      BY <1>5, <2>1 DEF Fetch
  <1>6. QED
    BY <1>2, <1>3, <1>4, <1>5

\* The manifest loses a module.
LEMMA UndeclareKeeps ==
    ASSUME ScanInv, NEW m \in Modules, Undeclare(m)
    PROVE  ScanInv'
  <1>1. TypeOK
    BY DEF ScanInv
  <1>2. /\ edits > 0 /\ edits' = edits - 1 /\ declared' = declared \ {m}
        /\ UNCHANGED <<tree, scan, shown, Running, decorations, faults, truth>>
    BY DEF Undeclare
  <1>3. declared' \subseteq Modules /\ edits' \in 0 .. MaxEdits
    BY <1>1, <1>2, ScanAssumption DEF TypeOK
  <1>4. TypeOK'
    BY <1>1, <1>2, <1>3, Zenon DEF TypeOK
  <1>5. \A s \in Scans : CoverInv(scan'[s], declared')
    BY <1>2 DEF ScanInv, CoverInv
  <1>6. QED
    BY <1>2, <1>4, <1>5 DEF ScanInv, RunningHonest

-----------------------------------------------------------------------------
LEMMA InitScanInv == ASSUME Init PROVE ScanInv
  <1> DEFINE first == [State |-> "none", Queue |-> {}, Taken |-> <<>>,
                       Module |-> [m \in Modules |-> NotScanned]]
  <1>1. scan = [s \in Scans |-> first]
    BY DEF Init
  <1>2. /\ first.State = "none" /\ first.Queue = {} /\ first.Taken = <<>>
        /\ \A m \in Modules : first.Module[m] = NotScanned
        /\ first = [State |-> first.State, Queue |-> first.Queue, Taken |-> first.Taken, Module |-> first.Module]
        /\ first.Module = [m \in Modules |-> first.Module[m]]
    OBVIOUS
  <1> HIDE DEF first
  <1>3. IsModule(NotScanned) /\ ~IsEntry(NotScanned.Entry) /\ NotScanned.At = "queued"
    BY EntryKinds DEF IsModule, NotScanned, Stages, Failed
  <1>4. <<>> \in Seq(Modules) /\ Range(<<>>) = {} /\ DOMAIN <<>> = {}
    <2>1. <<>> \in Seq(Modules) /\ Len(<<>>) = 0 /\ DOMAIN <<>> = 1..Len(<<>>)
      BY EmptySeq, LenProperties
    <2>2. DOMAIN <<>> = {}
      BY <2>1
    <2>3. QED
      BY <2>1, <2>2 DEF Range
  <1>5. IsScan(first)
    BY <1>2, <1>3, <1>4 DEF IsScan, States
  <1>6. TypeOK
    <2>1. declared \subseteq Modules /\ tree \in [Modules -> Tree]
      BY ScanAssumption DEF Init
    <2>2. scan = [s \in Scans |-> scan[s]] /\ \A s \in Scans : IsScan(scan[s])
      BY <1>1, <1>5
    <2>3. truth \in [Scans -> [Modules -> SUBSET Tree]]
      BY DEF Init
    <2>4. shown = [Scan |-> shown.Scan, Entries |-> shown.Entries] /\ shown.Scan \in 0 .. MaxScans
      BY ScanAssumption DEF Init, NothingShown
    <2>5. Running \in BOOLEAN /\ decorations \in Nat /\ edits \in 0 .. MaxEdits /\ faults \in 0 .. MaxFaults
      <3>1. Running = FALSE /\ decorations = 0 /\ edits = MaxEdits /\ faults = MaxFaults
        BY DEF Init
      <3>2. Running \in BOOLEAN
        BY <3>1, Zenon
      <3>3. decorations \in Nat /\ edits \in 0 .. MaxEdits /\ faults \in 0 .. MaxFaults
        BY <3>1, ScanAssumption
      <3>4. QED
        BY <3>2, <3>3, Zenon
    <2>6. QED
      BY <2>1, <2>2, <2>3, <2>4, <2>5, Zenon DEF TypeOK
  <1>7. PoolInv(first)
    <2>1. WorkOf(first) = {}
      BY <1>2, <1>3 DEF WorkOf, Working
    <2>2. Cardinality(WorkOf(first)) <= Concurrency
      BY <2>1, FS_EmptySet, ScanAssumption
    <2>3. QED
      BY <1>2, <1>3, <1>4, <2>1, <2>2 DEF PoolInv, Working
  <1>8. CoverInv(first, declared) /\ \A s \in Scans : SeenInv(first, tree, truth[s])
    BY <1>2, <1>3 DEF CoverInv, SeenInv
  <1>9. RunningHonest
    BY DEF Init, RunningHonest
  <1>10. QED
    BY <1>1, <1>6, <1>7, <1>8, <1>9 DEF ScanInv

LEMMA NextScanInv == ASSUME ScanInv, [Next]_vars PROVE ScanInv'
  <1>1. CASE \E s \in Scans : RequestScan(s) \/ ScanFailed(s) \/ ScanArrives(s) \/ ScanStep(s)
    <2>1. PICK s \in Scans : RequestScan(s) \/ ScanFailed(s) \/ ScanArrives(s) \/ ScanStep(s)
      BY <1>1
    <2>2. CASE ScanStep(s)
      <3>1. CASE pumpWorker(s)
        BY <3>1, PumpKeeps
      <3>2. CASE \E m \in Modules, fails \in BOOLEAN : Command(s, m, fails)
        BY <3>2, CommandKeeps
      <3>3. CASE Respond(s)
        BY <3>3, RespondKeeps
      <3>4. QED
        BY <2>2, <3>1, <3>2, <3>3 DEF ScanStep
    <2>3. QED
      BY <2>1, <2>2, RequestKeeps, ResponseKeeps
  <1>2. CASE \E fails \in BOOLEAN : DecorationArrives(fails)
    BY <1>2, DecorationKeeps
  <1>3. CASE \E m \in Modules :
               \/ \E f \in Files, to \in Changed \cup {"absent", "untracked"} : ChangeFile(m, f, to)
               \/ Commit(m) \/ Push(m) \/ Fetch(m) \/ Undeclare(m)
    <2>1. PICK m \in Modules :
               \/ \E f \in Files, to \in Changed \cup {"absent", "untracked"} : ChangeFile(m, f, to)
               \/ Commit(m) \/ Push(m) \/ Fetch(m) \/ Undeclare(m)
      BY <1>3
    <2>2. CASE Undeclare(m)
      BY <2>2, UndeclareKeeps
    <2>3. CASE ~Undeclare(m)
      <3>1. TypeOK
        BY DEF ScanInv
      <3>2. \E t \in Tree : Edits(m, t)
        BY <2>1, <2>3, <3>1, ChangesAreEdits
      <3>3. QED
        BY <3>2, EditKeeps
    <2>4. QED
      BY <2>2, <2>3
  <1>4. CASE UNCHANGED vars
    <2>1. UNCHANGED <<declared, tree, scan, shown, Running, decorations, edits, faults, truth>>
      BY <1>4 DEF vars
    <2>2. TypeOK'
      BY <2>1, Zenon DEF ScanInv, TypeOK
    <2>3. QED
      BY <2>1, <2>2 DEF ScanInv, RunningHonest
  <1>5. QED
    BY <1>1, <1>2, <1>3, <1>4 DEF Next

-----------------------------------------------------------------------------
\* Every variable keeps its type and every scan its invariant: the pool takes
\* each name once (pumpWorker of scanAllModulesAsync), a module in work is of a
\* scan that runs, and each status is of a state its tree had in that time.
THEOREM ScanInvariant == Spec => []ScanInv
  <1>1. Init => ScanInv
    BY InitScanInv
  <1>2. ScanInv /\ [Next]_vars => ScanInv'
    BY NextScanInv
  <1>3. QED
    BY <1>1, <1>2, PTL DEF Spec

\* The status a scan reports of a module is one its working tree had since the
\* scan was asked for, however the commands of its workers, of other scans and
\* the operator's edits interleave.
THEOREM StatusWasTrueHolds == Spec => []StatusWasTrue
  <1>1. ScanInv => StatusWasTrue
    BY DEF ScanInv, SeenInv, StatusWasTrue
  <1>2. QED
    BY <1>1, ScanInvariant, PTL

\* scanAllModulesAsync has never more than Concurrency modules in work, takes
\* no module twice, and answers only when it took every module that still is
\* in the manifest.
THEOREM PoolScansEachOnceHolds == Spec => []PoolScansEachOnce
  <1>1. ASSUME ScanInv, NEW s \in Scans
        PROVE  /\ Cardinality(InWork(s)) <= Concurrency
               /\ \A i, j \in DOMAIN scan[s].Taken : i # j => scan[s].Taken[i] # scan[s].Taken[j]
               /\ scan[s].State \in {"answered", "delivered"} => declared \subseteq Range(scan[s].Taken)
    <2>1. PoolInv(scan[s]) /\ CoverInv(scan[s], declared)
      BY <1>1 DEF ScanInv
    <2>2. InWork(s) = WorkOf(scan[s])
      BY DEF InWork, WorkOf, Working
    <2>3. QED
      BY <2>1, <2>2 DEF PoolInv, CoverInv
  <1>2. ScanInv => PoolScansEachOnce
    BY <1>1 DEF PoolScansEachOnce
  <1>3. QED
    BY <1>2, ScanInvariant, PTL

\* While the client's Scan.Running is set, a scan it asked for is unanswered or
\* on its way, though scans overlap and the first response clears the flag.
THEOREM RunningHonestHolds == Spec => []RunningHonest
  <1>1. ScanInv => RunningHonest
    BY DEF ScanInv
  <1>2. QED
    BY <1>1, ScanInvariant, PTL

-----------------------------------------------------------------------------
(* What a report counts.  The folds of gatherChanges are recursive functions   *)
(* on the subsets of the files; the closed form is shown to be the only one    *)
(* that does as they do.                                                       *)

Report == [Categories -> [Files : Nat, Added : Nat, Removed : Nat]]

InCategory(files, c) == {f \in files : c \in {_scanCategoryForPath(f), "Total"}}
LinesOf(files) == UNION {{f} \X (1 .. Lines[f]) : f \in files}

(* A report to which some files were added, in whatever order.               *)
Counted(report, files, removed) ==
  [c \in Categories |->
     [Files   |-> report[c].Files + Cardinality(InCategory(files, c)),
      Added   |-> report[c].Added + Cardinality(LinesOf(InCategory(files, c))),
      Removed |-> report[c].Removed + removed * Cardinality(InCategory(files, c))]]

\* A file has as many pairs of itself and a line as it has lines.
LEMMA LinesOfOne ==
    ASSUME NEW f \in Files
    PROVE  IsFiniteSet({f} \X (1 .. Lines[f])) /\ Cardinality({f} \X (1 .. Lines[f])) = Lines[f]
  <1>1. Lines[f] \in Nat
    BY ScanAssumption
  <1>2. IsFiniteSet(1 .. Lines[f]) /\ Cardinality(1 .. Lines[f]) = Lines[f]
    BY <1>1, FS_Interval
  <1>3. IsFiniteSet({f}) /\ Cardinality({f}) = 1
    BY FS_Singleton
  <1>4. /\ IsFiniteSet({f} \X (1 .. Lines[f]))
        /\ Cardinality({f} \X (1 .. Lines[f])) = 1 * Lines[f]
    BY <1>2, <1>3, FS_Product
  <1>5. QED
    BY <1>1, <1>4

LEMMA FewFiles ==
    ASSUME NEW files \in SUBSET Files
    PROVE  /\ IsFiniteSet(files) /\ Cardinality(files) \in Nat
           /\ IsFiniteSet(LinesOf(files)) /\ Cardinality(LinesOf(files)) \in Nat
  <1>1. IsFiniteSet(files)
    BY ScanAssumption, FS_Subset
  <1> DEFINE pairs == [f \in files |-> {f} \X (1 .. Lines[f])]
             all == {{f} \X (1 .. Lines[f]) : f \in files}
  <1>2. pairs \in Surjection(files, all)
    BY DEF Surjection
  <1>3. IsFiniteSet(all)
    BY <1>1, <1>2, FS_Surjection
  <1>4. \A T \in all : IsFiniteSet(T)
    BY LinesOfOne
  <1>5. IsFiniteSet(UNION all)
    BY <1>3, <1>4, FS_UNION
  <1>6. QED
    BY <1>1, <1>5, FS_CardinalityType DEF LinesOf

\* Files apart from each other have lines apart from each other.
LEMMA LinesApart ==
    ASSUME NEW S \in SUBSET Files, NEW T \in SUBSET Files, S \cap T = {}
    PROVE  /\ Cardinality(S \cup T) = Cardinality(S) + Cardinality(T)
           /\ Cardinality(LinesOf(S \cup T)) = Cardinality(LinesOf(S)) + Cardinality(LinesOf(T))
  <1>1. /\ IsFiniteSet(S) /\ IsFiniteSet(T) /\ IsFiniteSet(LinesOf(S)) /\ IsFiniteSet(LinesOf(T))
        /\ Cardinality(S) \in Nat /\ Cardinality(T) \in Nat
        /\ Cardinality(LinesOf(S)) \in Nat /\ Cardinality(LinesOf(T)) \in Nat
    BY FewFiles
  <1>2. LinesOf(S \cup T) = LinesOf(S) \cup LinesOf(T) /\ LinesOf(S) \cap LinesOf(T) = {}
    BY DEF LinesOf
  <1>3. Cardinality({}) = 0
    BY FS_EmptySet
  <1>4. Cardinality(S \cup T) = Cardinality(S) + Cardinality(T) - Cardinality(S \cap T)
    BY <1>1, FS_Union
  <1>5. Cardinality(LinesOf(S) \cup LinesOf(T)) =
          Cardinality(LinesOf(S)) + Cardinality(LinesOf(T)) - Cardinality(LinesOf(S) \cap LinesOf(T))
    BY <1>1, FS_Union
  <1>6. Cardinality(S \cap T) = 0 /\ Cardinality(LinesOf(S) \cap LinesOf(T)) = 0
    BY <1>2, <1>3, Zenon
  <1>7. Cardinality(S \cup T) = Cardinality(S) + Cardinality(T)
    BY <1>1, <1>4, <1>6
  <1>8. Cardinality(LinesOf(S) \cup LinesOf(T)) = Cardinality(LinesOf(S)) + Cardinality(LinesOf(T))
    BY <1>1, <1>5, <1>6
  <1>9. QED
    BY <1>2, <1>7, <1>8, Zenon

\* One file more.
LEMMA OneFile ==
    ASSUME NEW files \in SUBSET Files, NEW f \in files
    PROVE  /\ Cardinality(files) = Cardinality(files \ {f}) + 1
           /\ Cardinality(LinesOf(files)) = Cardinality(LinesOf(files \ {f})) + Lines[f]
  <1>1. f \in Files /\ (files \ {f}) \cup {f} = files
    OBVIOUS
  <1>2. Cardinality({f}) = 1
    BY FS_Singleton
  <1>3. LinesOf({f}) = {f} \X (1 .. Lines[f])
    BY DEF LinesOf
  <1>4. QED
    BY <1>1, <1>2, <1>3, LinesApart, LinesOfOne

LEMMA NoFile == Cardinality({}) = 0 /\ LinesOf({}) = {}
  BY FS_EmptySet DEF LinesOf

\* A function on the subsets of a finite set is told by what it is for {} and by
\* how it follows, for each other set, from a smaller one.
LEMMA ToldBySmaller ==
    ASSUME NEW S, IsFiniteSet(S), NEW f, NEW g, f[{}] = g[{}],
           \A s \in SUBSET S : s # {} => \E x \in s : f[s \ {x}] = g[s \ {x}] => f[s] = g[s]
    PROVE  f[S] = g[S]
  <1> DEFINE T == {s \in SUBSET S : f[s] # g[s]}
  <1>1. SUFFICES ASSUME f[S] # g[S] PROVE FALSE
    OBVIOUS
  <1>2. T # {} /\ T \subseteq FiniteSubsetsOf(S)
    BY <1>1, FS_Subset DEF FiniteSubsetsOf
  <1> HIDE DEF T
  <1>3. PICK s \in T : \A u \in T : ~ (<<u, s>> \in StrictSubsetOrdering(S))
    BY <1>2, FS_StrictSubsetOrderingWellFounded, WFMin
  <1> USE DEF T
  <1>4. s # {}
    OBVIOUS
  <1>5. PICK x \in s : f[s \ {x}] = g[s \ {x}] => f[s] = g[s]
    BY <1>4
  <1>6. s \ {x} \in T
    BY <1>5
  <1>7. QED
    BY <1>3, <1>6 DEF StrictSubsetOrdering

-----------------------------------------------------------------------------
\* One file more in a report.
LEMMA BucketAdded ==
    ASSUME NEW report \in Report, NEW removed \in {0, 1}, NEW files \in SUBSET Files, NEW f \in files
    PROVE  Counted(report, files, removed) =
             _addToBucket(Counted(report, files \ {f}, removed), _scanCategoryForPath(f), Lines[f], removed)
  <1> DEFINE cat == _scanCategoryForPath(f)
             rest == Counted(report, files \ {f}, removed)
             full == Counted(report, files, removed)
             more == _addToBucket(rest, cat, Lines[f], removed)
  <1>1. full = [c \in Categories |-> full[c]] /\ more = [c \in Categories |-> more[c]]
    BY DEF Counted, _addToBucket
  <1>2. ASSUME NEW c \in Categories PROVE full[c] = more[c]
    <2> DEFINE A == InCategory(files, c)
               B == InCategory(files \ {f}, c)
    <2>1. A \in SUBSET Files /\ B \in SUBSET Files
      BY DEF InCategory
    <2>2. /\ report[c].Files \in Nat /\ report[c].Added \in Nat /\ report[c].Removed \in Nat
          /\ Lines[f] \in Nat
      BY ScanAssumption DEF Report
    <2>3. /\ Cardinality(A) \in Nat /\ Cardinality(LinesOf(A)) \in Nat
          /\ Cardinality(B) \in Nat /\ Cardinality(LinesOf(B)) \in Nat
      BY <2>1, FewFiles
    <2>4. /\ full[c].Files = report[c].Files + Cardinality(A)
          /\ full[c].Added = report[c].Added + Cardinality(LinesOf(A))
          /\ full[c].Removed = report[c].Removed + removed * Cardinality(A)
          /\ full[c] = [Files |-> full[c].Files, Added |-> full[c].Added, Removed |-> full[c].Removed]
      BY DEF Counted
    <2>5. /\ rest[c].Files = report[c].Files + Cardinality(B)
          /\ rest[c].Added = report[c].Added + Cardinality(LinesOf(B))
          /\ rest[c].Removed = report[c].Removed + removed * Cardinality(B)
          /\ rest[c] = [Files |-> rest[c].Files, Added |-> rest[c].Added, Removed |-> rest[c].Removed]
      BY DEF Counted
    <2>6. more[c] = IF c \in {cat, "Total"}
                    THEN [Files |-> rest[c].Files + 1, Added |-> rest[c].Added + Lines[f],
                          Removed |-> rest[c].Removed + removed]
                    ELSE rest[c]
      BY DEF _addToBucket
    <2>7. CASE c \in {cat, "Total"}
      <3>1. f \in A /\ B = A \ {f}
        BY <2>7 DEF InCategory
      <3>2. /\ Cardinality(A) = Cardinality(B) + 1
            /\ Cardinality(LinesOf(A)) = Cardinality(LinesOf(B)) + Lines[f]
        BY <2>1, <3>1, OneFile
      <3> HIDE DEF A, B, cat, rest, full, more
      <3>3. removed * Cardinality(A) = removed * Cardinality(B) + removed
        BY <2>3, <3>2
      <3>4. /\ full[c].Files = rest[c].Files + 1 /\ full[c].Added = rest[c].Added + Lines[f]
            /\ full[c].Removed = rest[c].Removed + removed
        <4>1. removed \in Nat /\ removed * Cardinality(B) \in Nat
          BY <2>3
        <4>2. full[c].Files = rest[c].Files + 1 /\ full[c].Added = rest[c].Added + Lines[f]
          <5>1. /\ full[c].Files = report[c].Files + (Cardinality(B) + 1)
                /\ full[c].Added = report[c].Added + (Cardinality(LinesOf(B)) + Lines[f])
            BY <2>4, <3>2, Zenon
          <5>2. /\ rest[c].Files = report[c].Files + Cardinality(B)
                /\ rest[c].Added = report[c].Added + Cardinality(LinesOf(B))
            BY <2>5
          <5>3. QED
            BY <2>2, <2>3, <5>1, <5>2
        <4>3. full[c].Removed = report[c].Removed + (removed * Cardinality(B) + removed)
          BY <2>4, <3>3, Zenon
        <4>4. rest[c].Removed = report[c].Removed + removed * Cardinality(B)
          BY <2>5
        <4>5. full[c].Removed = rest[c].Removed + removed
          <5> DEFINE p == removed * Cardinality(B)
          <5>1. /\ p \in Nat /\ full[c].Removed = report[c].Removed + (p + removed)
                /\ rest[c].Removed = report[c].Removed + p
            BY <4>1, <4>3, <4>4
          <5> HIDE DEF p
          <5>2. QED
            BY <2>2, <4>1, <5>1
        <4>6. QED
          BY <4>2, <4>5
      <3>5. QED
        BY <2>4, <2>6, <2>7, <3>4
    <2>8. CASE c \notin {cat, "Total"}
      <3>1. A = B
        BY <2>8 DEF InCategory
      <3> HIDE DEF A, B, cat, rest, full, more
      <3>2. QED
        BY <2>4, <2>5, <2>6, <2>8, <3>1
    <2>9. QED
      BY <2>7, <2>8
  <1> HIDE DEF full, more
  <1>3. full = more
    BY <1>1, <1>2
  <1>4. QED
    BY <1>3 DEF full, more, rest, cat

LEMMA NothingAdded ==
    ASSUME NEW report \in Report, NEW removed \in {0, 1}
    PROVE  Counted(report, {}, removed) = report
  <1> DEFINE full == Counted(report, {}, removed)
  <1>1. report = [c \in Categories |-> report[c]] /\ full = [c \in Categories |-> full[c]]
    BY DEF Report, Counted
  <1>2. ASSUME NEW c \in Categories PROVE full[c] = report[c]
    <2>1. /\ report[c] = [Files |-> report[c].Files, Added |-> report[c].Added, Removed |-> report[c].Removed]
          /\ report[c].Files \in Nat /\ report[c].Added \in Nat /\ report[c].Removed \in Nat
      BY DEF Report
    <2>2. InCategory({}, c) = {}
      BY DEF InCategory
    <2>3. full[c] = [Files |-> report[c].Files + Cardinality({}), Added |-> report[c].Added + Cardinality({}),
                     Removed |-> report[c].Removed + removed * Cardinality({})]
      BY <2>2, NoFile DEF Counted
    <2>4. QED
      BY <2>1, <2>3, NoFile
  <1> HIDE DEF full
  <1>3. QED
    BY <1>1, <1>2 DEF full

\* gatherChanges adds one file after the other; what it comes to is the count.
LEMMA AddedIsCounted ==
    ASSUME NEW report \in Report, NEW removed \in {0, 1}, NEW files \in SUBSET Files
    PROVE  (CHOOSE iter : iter = [s \in SUBSET files |->
              IF s = {} THEN report
              ELSE _addToBucket(iter[s \ {CHOOSE x \in s : TRUE}],
                                _scanCategoryForPath(CHOOSE x \in s : TRUE),
                                Lines[CHOOSE x \in s : TRUE], removed)])[files]
             = Counted(report, files, removed)
  <1> DEFINE first(s) == CHOOSE x \in s : TRUE
             count == [s \in SUBSET files |-> Counted(report, s, removed)]
             step(iter) == [s \in SUBSET files |->
                              IF s = {} THEN report
                              ELSE _addToBucket(iter[s \ {first(s)}], _scanCategoryForPath(first(s)),
                                                Lines[first(s)], removed)]
             iter0 == CHOOSE iter : iter = step(iter)
  <1>1. ASSUME NEW s \in SUBSET files, s # {}
        PROVE  /\ first(s) \in s /\ s \ {first(s)} \in SUBSET files
               /\ count[s] = _addToBucket(count[s \ {first(s)}], _scanCategoryForPath(first(s)),
                                          Lines[first(s)], removed)
    <2>1. first(s) \in s
      BY <1>1
    <2> HIDE DEF first
    <2>2. s \in SUBSET Files /\ s \ {first(s)} \in SUBSET files
      BY <2>1
    <2>3. QED
      BY <2>1, <2>2, BucketAdded
  <1>2. count[{}] = report
    BY NothingAdded
  <1>3. count = step(count)
    <2> DEFINE next == step(count)
    <2>1. count = [s \in SUBSET files |-> count[s]] /\ next = [s \in SUBSET files |-> next[s]]
      OBVIOUS
    <2>2. \A s \in SUBSET files : next[s] = IF s = {} THEN report
             ELSE _addToBucket(count[s \ {first(s)}], _scanCategoryForPath(first(s)), Lines[first(s)], removed)
      OBVIOUS
    <2> HIDE DEF next, count, first
    <2>3. \A s \in SUBSET files : next[s] = count[s]
      BY <1>1, <1>2, <2>2
    <2>4. count = next
      BY <2>1, <2>3
    <2>5. QED
      BY <2>4 DEF next
  <1>4. iter0 = step(iter0)
    BY <1>3, Zenon
  <1>5. /\ iter0[{}] = report
        /\ \A s \in SUBSET files : s # {} =>
              iter0[s] = _addToBucket(iter0[s \ {first(s)}], _scanCategoryForPath(first(s)),
                                      Lines[first(s)], removed)
    <2> HIDE DEF iter0, first
    <2>1. iter0 = step(iter0)
      BY <1>4
    <2>2. QED
      BY <2>1
  <1> HIDE DEF iter0, count, first, step
  <1>6. iter0[{}] = count[{}]
    BY <1>2, <1>5
  <1>7. \A s \in SUBSET files : s # {} =>
           \E x \in s : iter0[s \ {x}] = count[s \ {x}] => iter0[s] = count[s]
    BY <1>1, <1>5
  <1>8. iter0[files] = count[files]
    BY <1>6, <1>7, FewFiles, ToldBySmaller
  <1>9. count[files] = Counted(report, files, removed)
    BY DEF count
  <1>10. QED
    BY <1>8, <1>9, Zenon DEF iter0, step, first

\* The lines of some files, summed one file after the other.
LEMMA SumIsCounted ==
    ASSUME NEW files \in SUBSET Files
    PROVE  FoldSet(LAMBDA f, n : n + Lines[f], 0, files) = Cardinality(LinesOf(files))
  <1> DEFINE first(s) == CHOOSE x \in s : TRUE
             count == [s \in SUBSET files |-> Cardinality(LinesOf(s))]
             step(iter) == [s \in SUBSET files |->
                              IF s = {} THEN 0 ELSE iter[s \ {first(s)}] + Lines[first(s)]]
             iter0 == CHOOSE iter : iter = step(iter)
  <1>1. ASSUME NEW s \in SUBSET files, s # {}
        PROVE  first(s) \in s /\ count[s] = count[s \ {first(s)}] + Lines[first(s)]
    <2>1. first(s) \in s
      BY <1>1
    <2> HIDE DEF first
    <2>2. s \in SUBSET Files /\ s \ {first(s)} \in SUBSET files
      BY <2>1
    <2>3. QED
      BY <2>1, <2>2, OneFile
  <1>2. count[{}] = 0
    BY NoFile
  <1>3. count = step(count)
    <2> DEFINE next == step(count)
    <2>1. count = [s \in SUBSET files |-> count[s]] /\ next = [s \in SUBSET files |-> next[s]]
      OBVIOUS
    <2>2. \A s \in SUBSET files :
             next[s] = IF s = {} THEN 0 ELSE count[s \ {first(s)}] + Lines[first(s)]
      OBVIOUS
    <2> HIDE DEF next, count, first
    <2>3. \A s \in SUBSET files : next[s] = count[s]
      BY <1>1, <1>2, <2>2
    <2>4. count = next
      BY <2>1, <2>3
    <2>5. QED
      BY <2>4 DEF next
  <1>4. iter0 = step(iter0)
    BY <1>3, Zenon
  <1>5. /\ iter0[{}] = 0
        /\ \A s \in SUBSET files : s # {} => iter0[s] = iter0[s \ {first(s)}] + Lines[first(s)]
    <2> HIDE DEF iter0, first
    <2>1. iter0 = step(iter0)
      BY <1>4
    <2>2. QED
      BY <2>1
  <1>6. FoldSet(LAMBDA f, n : n + Lines[f], 0, files) = iter0[files]
    BY Zenon DEF FoldSet, MapThenFoldSet
  <1>7. count[files] = Cardinality(LinesOf(files))
    OBVIOUS
  <1> HIDE DEF iter0, count, first, step
  <1>8. iter0[{}] = count[{}]
    BY <1>2, <1>5
  <1>9. \A s \in SUBSET files : s # {} =>
           \E x \in s : iter0[s \ {x}] = count[s \ {x}] => iter0[s] = count[s]
    BY <1>1, <1>5
  <1>10. iter0[files] = count[files]
    BY <1>8, <1>9, FewFiles, ToldBySmaller
  <1>11. QED
    BY <1>6, <1>7, <1>10, Zenon

\* What the commands add to a report.
LEMMA TrackedAre ==
    ASSUME NEW report \in Report, NEW t
    PROVE  AddTracked(report, t) = Counted(report, Numstat(t), 1)
  <1>1. Numstat(t) \in SUBSET Files
    BY DEF Numstat
  <1>2. AddTracked(report, t) =
           (CHOOSE iter : iter = [s \in SUBSET Numstat(t) |->
              IF s = {} THEN report
              ELSE _addToBucket(iter[s \ {CHOOSE x \in s : TRUE}],
                                _scanCategoryForPath(CHOOSE x \in s : TRUE),
                                Lines[CHOOSE x \in s : TRUE], 1)])[Numstat(t)]
    BY Zenon DEF AddTracked, AddFiles, FoldSet, MapThenFoldSet
  <1>3. QED
    BY <1>1, <1>2, AddedIsCounted

LEMMA UntrackedAre ==
    ASSUME NEW report \in Report, NEW paths \in SUBSET Files
    PROVE  AddUntracked(report, paths, FALSE) = Counted(report, paths, 0)
  <1>1. AddUntracked(report, paths, FALSE) =
           (CHOOSE iter : iter = [s \in SUBSET paths |->
              IF s = {} THEN report
              ELSE _addToBucket(iter[s \ {CHOOSE x \in s : TRUE}],
                                _scanCategoryForPath(CHOOSE x \in s : TRUE),
                                Lines[CHOOSE x \in s : TRUE], 0)])[paths]
    BY DEF AddUntracked, AddFiles, FoldSet, MapThenFoldSet
  <1>2. QED
    BY <1>1, AddedIsCounted

LEMMA CountedIsReport ==
    ASSUME NEW report \in Report, NEW removed \in {0, 1}, NEW files \in SUBSET Files
    PROVE  Counted(report, files, removed) \in Report
  <1> SUFFICES ASSUME NEW c \in Categories
               PROVE  /\ report[c].Files + Cardinality(InCategory(files, c)) \in Nat
                      /\ report[c].Added + Cardinality(LinesOf(InCategory(files, c))) \in Nat
                      /\ report[c].Removed + removed * Cardinality(InCategory(files, c)) \in Nat
    BY DEF Counted, Report
  <1>1. InCategory(files, c) \in SUBSET Files
    BY DEF InCategory
  <1>2. /\ Cardinality(InCategory(files, c)) \in Nat
        /\ Cardinality(LinesOf(InCategory(files, c))) \in Nat
    BY <1>1, FewFiles
  <1>3. /\ report[c].Files \in Nat /\ report[c].Added \in Nat /\ report[c].Removed \in Nat
    BY DEF Report
  <1>4. removed * Cardinality(InCategory(files, c)) \in Nat
    BY <1>2
  <1>5. QED
    BY <1>2, <1>3, <1>4

\* What a tree has changed is what the two commands count of it, each file by
\* one of them.
LEMMA ChangesAreCounted ==
    ASSUME NEW t
    PROVE  ChangesOf(t) = Counted(Counted(_emptyChangeReport, Numstat(t), 1), Untracked(t), 0)
  <1> DEFINE N == Numstat(t)
             U == Untracked(t)
             half == Counted(_emptyChangeReport, N, 1)
             whole == Counted(half, U, 0)
             told == ChangesOf(t)
  <1>1. N \in SUBSET Files /\ U \in SUBSET Files /\ N \cap U = {}
    BY DEF Numstat, Untracked, Changed
  <1>2. /\ whole = [c \in Categories |-> whole[c]] /\ told = [c \in Categories |-> told[c]]
    BY DEF Counted, ChangesOf
  <1>3. ASSUME NEW c \in Categories PROVE told[c] = whole[c]
    <2> DEFINE A == InCategory(N, c)
               B == InCategory(U, c)
    <2>1. /\ A \in SUBSET Files /\ B \in SUBSET Files /\ A \cap B = {}
          /\ A \cup B = {f \in N \cup U : c \in {_scanCategoryForPath(f), "Total"}}
          /\ (A \cup B) \cap N = A
      BY <1>1 DEF InCategory
    <2>2. /\ Cardinality(A \cup B) = Cardinality(A) + Cardinality(B)
          /\ Cardinality(LinesOf(A \cup B)) = Cardinality(LinesOf(A)) + Cardinality(LinesOf(B))
      BY <2>1, LinesApart
    <2>3. /\ Cardinality(A) \in Nat /\ Cardinality(LinesOf(A)) \in Nat
          /\ Cardinality(B) \in Nat /\ Cardinality(LinesOf(B)) \in Nat
      BY <2>1, FewFiles
    <2>4. told[c] = [Files |-> Cardinality(A \cup B), Added |-> Cardinality(LinesOf(A \cup B)),
                     Removed |-> Cardinality(A)]
      <3> DEFINE Of == {f \in N \cup U : c \in {_scanCategoryForPath(f), "Total"}}
      <3>1. told[c] = [Files |-> Cardinality(Of), Added |-> FoldSet(LAMBDA f, n : n + Lines[f], 0, Of),
                       Removed |-> Cardinality(Of \cap N)]
        BY DEF ChangesOf
      <3>2. Of = A \cup B /\ Of \cap N = A /\ Of \in SUBSET Files
        BY <2>1
      <3>3. FoldSet(LAMBDA f, n : n + Lines[f], 0, Of) = Cardinality(LinesOf(Of))
        BY <3>2, SumIsCounted
      <3> HIDE DEF Of, A, B, told
      <3>4. QED
        BY <3>1, <3>2, <3>3, Zenon
    <2>5. half[c] = [Files |-> Cardinality(A), Added |-> Cardinality(LinesOf(A)), Removed |-> Cardinality(A)]
      <3>1. half[c] = [Files |-> 0 + Cardinality(A), Added |-> 0 + Cardinality(LinesOf(A)),
                       Removed |-> 0 + 1 * Cardinality(A)]
        BY DEF Counted, _emptyChangeReport, _emptyChangeBucket
      <3> HIDE DEF A, half
      <3>2. QED
        BY <2>3, <3>1
    <2>6. whole[c] = [Files |-> half[c].Files + Cardinality(B), Added |-> half[c].Added + Cardinality(LinesOf(B)),
                      Removed |-> half[c].Removed + 0 * Cardinality(B)]
      BY DEF Counted
    <2> HIDE DEF A, B, half, whole, told
    <2>7. QED
      BY <2>2, <2>3, <2>4, <2>5, <2>6
  <1> HIDE DEF told, whole
  <1>4. told = whole
    BY <1>2, <1>3
  <1>5. QED
    BY <1>4 DEF told, whole, half, N, U

LEMMA EmptyIsReport == _emptyChangeReport \in Report
  BY DEF _emptyChangeReport, _emptyChangeBucket, Report

\* Of one tree the commands together count what it has changed.
LEMMA OneTreeCounted ==
    ASSUME NEW t
    PROVE  /\ AddUntracked(AddTracked(_emptyChangeReport, t), Untracked(t), FALSE) = ChangesOf(t)
           /\ Untracked(t) = {} => AddTracked(_emptyChangeReport, t) = ChangesOf(t)
  <1>1. Numstat(t) \in SUBSET Files /\ Untracked(t) \in SUBSET Files
    BY DEF Numstat, Untracked
  <1>2. AddTracked(_emptyChangeReport, t) = Counted(_emptyChangeReport, Numstat(t), 1)
    BY EmptyIsReport, TrackedAre
  <1>3. AddTracked(_emptyChangeReport, t) \in Report
    BY <1>1, <1>2, EmptyIsReport, CountedIsReport
  <1>4. AddUntracked(AddTracked(_emptyChangeReport, t), Untracked(t), FALSE)
          = Counted(AddTracked(_emptyChangeReport, t), Untracked(t), 0)
    BY <1>1, <1>3, UntrackedAre
  <1>5. Untracked(t) = {} =>
          Counted(AddTracked(_emptyChangeReport, t), Untracked(t), 0) = AddTracked(_emptyChangeReport, t)
    BY <1>3, NothingAdded
  <1>6. QED
    BY <1>2, <1>4, <1>5, ChangesAreCounted

\* The recommended step follows from what the tree has changed.
LEMMA NextActionIs ==
    ASSUME NEW t \in Tree
    PROVE  getGitStatus(t).NextAction =
             (IF ChangesOf(t)["Total"].Files > 0 THEN "commit"
              ELSE IF t.Behind > 0 THEN "pull" ELSE IF t.Ahead > 0 THEN "push" ELSE "in-sync")
  <1> DEFINE G == Numstat(t) \cup Untracked(t)
  <1>1. ChangesOf(t)["Total"].Files = Cardinality(G)
    <2>1. "Total" \in Categories
      BY DEF Categories
    <2>2. ChangesOf(t)["Total"].Files =
            Cardinality({f \in G : "Total" \in {_scanCategoryForPath(f), "Total"}})
      BY <2>1 DEF ChangesOf
    <2>3. {f \in G : "Total" \in {_scanCategoryForPath(f), "Total"}} = G
      BY Zenon
    <2>4. QED
      BY <2>2, <2>3, Zenon
  <1>2. G \in SUBSET Files
    BY DEF Numstat, Untracked
  <1>3. Cardinality(G) > 0 <=> G # {}
    <2>1. IsFiniteSet(G) /\ Cardinality(G) \in Nat
      BY <1>2, FewFiles
    <2>2. QED
      BY <2>1, FS_EmptySet
  <1> DEFINE p == parsePorcelain(Porcelain(t))
  <1>4. p.Dirty <=> G # {}
    BY DEF parsePorcelain, Porcelain, Numstat, Untracked
  <1>5. /\ p.Ahead = t.Ahead /\ p.Behind = t.Behind
        /\ getGitStatus(t).NextAction = deriveNextAction(p)
    BY DEF parsePorcelain, Porcelain, getGitStatus
  <1>6. t.Ahead \in Nat /\ t.Behind \in {0, 1}
    BY DEF Tree
  <1> HIDE DEF G, p
  <1>7. CASE p.Dirty
    <2>1. deriveNextAction(p) = "commit"
      BY <1>7 DEF deriveNextAction
    <2>2. QED
      BY <1>1, <1>3, <1>4, <1>5, <1>7, <2>1
  <1>8. CASE ~p.Dirty
    <2>1. deriveNextAction(p) =
            (IF t.Behind > 0 THEN "pull" ELSE IF t.Ahead > 0 THEN "push" ELSE "in-sync")
      BY <1>5, <1>6, <1>8 DEF deriveNextAction
    <2>2. QED
      BY <1>1, <1>3, <1>4, <1>5, <1>8, <2>1
  <1>9. QED
    BY <1>7, <1>8

-----------------------------------------------------------------------------
(* What a module's changes are counted from: each command's part, of a tree  *)
(* the module has had since the scan was asked for.                          *)
TrackedOf(t) == AddTracked(_emptyChangeReport, t)

CountedAt(one, had) ==
  IsEntry(one.Entry) =>
    /\ one.At = "numstat" => one.Entry.Changes = _emptyChangeReport
    /\ one.At \in {"untracked", "wc"} /\ one.Entry.Whole => \E t \in had : one.Entry.Changes = TrackedOf(t)
    /\ one.At = "wc" => \E t \in had : one.Paths = Untracked(t)
    /\ one.At = "done" /\ one.Entry.Whole => \E t, u, v \in had :
         \/ Untracked(u) = {} /\ one.Entry.Changes = TrackedOf(t)
         \/ one.Entry.Changes = AddUntracked(TrackedOf(t), Untracked(u), WcFails(v, Untracked(u)))

CountInv ==
  \A s \in Scans, m \in Modules :
    IsFiniteSet(truth[s][m]) /\ CountedAt(scan[s].Module[m], truth[s][m])

\* Of a module a step runs a command of, has nothing to tell of, or leaves as it
\* is while its tree may have changed.
LEMMA ModuleMoves ==
    ASSUME ScanInv, [Next]_vars, NEW s \in Scans, NEW m \in Modules
    PROVE  \/ \E fails \in BOOLEAN : Command(s, m, fails)
           \/ ~IsEntry(scan'[s].Module[m].Entry)
           \/ scan'[s].Module[m] = scan[s].Module[m] /\ truth[s][m] \subseteq truth'[s][m]
  <1>1. TypeOK /\ \A u \in Scans : PoolInv(scan[u]) /\ IsScan(scan[u])
    BY DEF ScanInv, TypeOK
  <1> DEFINE Same == scan'[s].Module[m] = scan[s].Module[m] /\ truth[s][m] \subseteq truth'[s][m]
  <1>2. ASSUME NEW u \in Scans, NEW n \in Modules, NEW fails \in BOOLEAN, Command(u, n, fails)
        PROVE  Same \/ Command(s, m, fails)
    <2>1. PICK next : OneModule(u, n, next) /\ AfterCommand(u, n, next)
      BY <1>2, CommandStep
    <2>2. IsModule(next) /\ truth' = truth
      BY <2>1 DEF AfterCommand, OneModule
    <2>3. /\ scan'[u] = [State |-> scan[u].State, Queue |-> scan[u].Queue, Taken |-> scan[u].Taken,
                         Module |-> [k \in Modules |-> IF k = n THEN next ELSE scan[u].Module[k]]]
          /\ \A w \in Scans : w # u => scan'[w] = scan[w]
      BY <1>1, <2>1, <2>2, OneChanged
    <2>4. CASE s # u
      BY <2>2, <2>3, <2>4
    <2>5. CASE s = u /\ m # n
      BY <2>2, <2>3, <2>5
    <2>6. CASE s = u /\ m = n
      BY <1>2, <2>6
    <2>7. QED
      BY <2>4, <2>5, <2>6
  <1>3. ASSUME NEW u \in Scans, pumpWorker(u)
        PROVE  Same \/ ~IsEntry(scan'[s].Module[m].Entry)
    <2>1. truth' = truth
      BY <1>3 DEF pumpWorker
    <2>2. PICK n \in scan[u].Queue : \E q, taken : scan' = [scan EXCEPT ![u] =
             [State |-> scan[u].State, Queue |-> q, Taken |-> taken,
              Module |-> [scan[u].Module EXCEPT ![n] = LookedUp(n)]]]
      BY <1>3 DEF pumpWorker
    <2>3. PICK q, taken : scan' = [scan EXCEPT ![u] =
             [State |-> scan[u].State, Queue |-> q, Taken |-> taken,
              Module |-> [scan[u].Module EXCEPT ![n] = LookedUp(n)]]]
      BY <2>2
    <2>4. scan' = [w \in Scans |-> IF w = u
             THEN [State |-> scan[u].State, Queue |-> q, Taken |-> taken,
                   Module |-> [scan[u].Module EXCEPT ![n] = LookedUp(n)]]
             ELSE scan[w]]
      BY <1>1, <2>3, ScanReplaced
    <2>5. scan[u].Module = [k \in Modules |-> scan[u].Module[k]]
      BY <1>1 DEF IsScan
    <2>6. ~IsEntry(LookedUp(n).Entry)
      BY EntryKinds DEF LookedUp, NotScanned, Failed
    <2>7. CASE s # u
      BY <2>1, <2>4, <2>7
    <2>8. CASE s = u
      <3>1. scan'[s].Module = [scan[u].Module EXCEPT ![n] = LookedUp(n)]
        BY <2>4, <2>8
      <3>2. scan'[s].Module[m] = IF m = n THEN LookedUp(n) ELSE scan[s].Module[m]
        BY <2>5, <2>8, <3>1
      <3>3. QED
        BY <2>1, <2>6, <3>2
    <2>9. QED
      BY <2>7, <2>8
  <1>4. ASSUME NEW u \in Scans, RequestScan(u)
        PROVE  Same \/ ~IsEntry(scan'[s].Module[m].Entry)
    <2>1. /\ scan[u].State = "none"
          /\ scan' = [scan EXCEPT ![u] = [State |-> "running", Queue |-> declared,
                                         Taken |-> scan[u].Taken, Module |-> scan[u].Module]]
          /\ truth' = [truth EXCEPT ![u] = [k \in Modules |-> {tree[k]}]]
      BY <1>4 DEF RequestScan
    <2>2. scan' = [w \in Scans |-> IF w = u
             THEN [State |-> "running", Queue |-> declared, Taken |-> scan[u].Taken, Module |-> scan[u].Module]
             ELSE scan[w]]
      BY <1>1, <2>1, ScanReplaced
    <2>3. scan'[s].Module = scan[s].Module
      BY <2>2
    <2>4. CASE s = u
      <3>1. scan[s].Module[m] = NotScanned
        BY <1>1, <2>1, <2>4 DEF PoolInv
      <3>2. QED
        BY <2>3, <3>1, EntryKinds
    <2>5. CASE s # u
      BY <1>1, <2>1, <2>3, <2>5 DEF TypeOK
    <2>6. QED
      BY <2>4, <2>5
  <1>5. ASSUME NEW u \in Scans, Respond(u) \/ ScanFailed(u) \/ ScanArrives(u) PROVE Same
    <2>1. PICK state : scan' = [scan EXCEPT ![u].State = state]
      BY <1>5 DEF Respond, ScanFailed, ScanArrives
    <2>2. truth' = truth
      BY <1>5 DEF Respond, ScanFailed, ScanArrives
    <2>3. scan = [w \in Scans |-> scan[w]]
      BY <1>1 DEF TypeOK
    <2>4. scan[s] = [State |-> scan[s].State, Queue |-> scan[s].Queue, Taken |-> scan[s].Taken,
                     Module |-> scan[s].Module]
      BY <1>1 DEF IsScan
    <2>5. scan'[s] = IF s = u THEN [scan[s] EXCEPT !.State = state] ELSE scan[s]
      BY <2>1, <2>3
    <2>6. [scan[s] EXCEPT !.State = state].Module = scan[s].Module
      BY <2>4
    <2>7. QED
      BY <2>2, <2>5, <2>6
  <1>6. ASSUME scan' = scan, truth' = truth PROVE Same
    BY <1>6
  <1>7. ASSUME NEW n \in Modules, NEW t, Edits(n, t) PROVE Same
    <2>1. /\ scan' = scan
          /\ truth' = [u \in Scans |->
                IF scan[u].State = "running" THEN [truth[u] EXCEPT ![n] = @ \cup {t}] ELSE truth[u]]
      BY <1>7 DEF Edits
    <2>2. truth[s] \in [Modules -> SUBSET Tree]
      BY <1>1 DEF TypeOK
    <2>3. QED
      BY <2>1, <2>2
  <1> HIDE DEF Same
  <1>8. CASE \E u \in Scans : RequestScan(u) \/ ScanFailed(u) \/ ScanArrives(u) \/ ScanStep(u)
    BY <1>2, <1>3, <1>4, <1>5, <1>8 DEF ScanStep, Same
  <1>9. CASE \E fails \in BOOLEAN : DecorationArrives(fails)
    BY <1>6, <1>9 DEF DecorationArrives, Same
  <1>10. CASE \E n \in Modules :
               \/ \E f \in Files, to \in Changed \cup {"absent", "untracked"} : ChangeFile(n, f, to)
               \/ Commit(n) \/ Push(n) \/ Fetch(n) \/ Undeclare(n)
    <2>1. PICK n \in Modules :
               \/ \E f \in Files, to \in Changed \cup {"absent", "untracked"} : ChangeFile(n, f, to)
               \/ Commit(n) \/ Push(n) \/ Fetch(n) \/ Undeclare(n)
      BY <1>10
    <2>2. CASE Undeclare(n)
      BY <1>6, <2>2 DEF Undeclare, Same
    <2>3. CASE ~Undeclare(n)
      BY <1>1, <1>7, <2>1, <2>3, ChangesAreEdits DEF Same
    <2>4. QED
      BY <2>2, <2>3
  <1>11. CASE UNCHANGED vars
    BY <1>6, <1>11 DEF vars, Same
  <1>12. QED
    BY <1>8, <1>9, <1>10, <1>11 DEF Next

\* Each command counts its part.
LEMMA CommandCounts ==
    ASSUME ScanInv, NEW s \in Scans, NEW m \in Modules, NEW fails \in BOOLEAN, Command(s, m, fails),
           CountedAt(scan[s].Module[m], truth[s][m])
    PROVE  CountedAt(scan'[s].Module[m], truth'[s][m])
  <1> DEFINE one == scan[s].Module[m]
             had == truth[s][m]
             now == scan'[s].Module[m]
             entry == one.Entry
  <1>1. TypeOK /\ IsModule(one) /\ SeenInv(scan[s], tree, truth[s]) /\ PoolInv(scan[s])
    BY DEF ScanInv, TypeOK, IsScan
  <1>2. one.At \in Working /\ tree[m] \in had /\ (one.At # "status" => IsEntry(entry))
    <2>1. one.At \in Working
      BY CommandStep
    <2>2. scan[s].State = "running"
      BY <1>1, <2>1 DEF PoolInv, WorkOf
    <2>3. QED
      BY <1>1, <2>1, <2>2 DEF SeenInv, PoolInv
  <1>3. PICK step : OneModule(s, m, step) /\ AfterCommand(s, m, step)
    BY CommandStep
  <1>4. ASSUME NEW next, OneModule(s, m, next) PROVE now = next /\ truth' = truth
    <2>1. scan = [u \in Scans |-> scan[u]] /\ scan[s].Module = [n \in Modules |-> scan[s].Module[n]]
      BY <1>1 DEF TypeOK, IsScan
    <2>2. scan[s] = [State |-> scan[s].State, Queue |-> scan[s].Queue, Taken |-> scan[s].Taken,
                     Module |-> scan[s].Module]
      BY <1>1 DEF TypeOK, IsScan
    <2>3. scan' = [scan EXCEPT ![s].Module[m] = next] /\ truth' = truth
      BY <1>4 DEF OneModule
    <2>4. scan'[s] = [scan[s] EXCEPT !.Module = [scan[s].Module EXCEPT ![m] = next]]
      BY <2>1, <2>3
    <2>5. scan'[s].Module = [scan[s].Module EXCEPT ![m] = next]
      BY <2>2, <2>4
    <2>6. QED
      BY <2>1, <2>3, <2>5
  <1> HIDE DEF one, had, now
  <1>5. CASE gitStatus(s, m, fails)
    <2>1. now = IF fails THEN [At |-> "done", Entry |-> Failed("git failed"), Paths |-> {}]
                ELSE [At |-> "numstat", Paths |-> {}, Entry |-> Begun(getGitStatus(tree[m]))]
      BY <1>4, <1>5 DEF gitStatus
    <2>2. CASE fails
      <3>1. ~IsEntry(now.Entry)
        BY <2>1, <2>2, EntryKinds
      <3>2. QED
        BY <3>1 DEF CountedAt, now
    <2>3. CASE ~fails
      <3>1. now.At = "numstat" /\ now.Entry.Changes = _emptyChangeReport
        BY <2>1, <2>3 DEF Begun
      <3>2. CountedAt(now, had)
        BY <3>1 DEF CountedAt
      <3>3. QED
        BY <1>3, <1>4, <3>2 DEF now, had
    <2>4. QED
      BY <2>2, <2>3
  <1>6. CASE gitNumstat(s, m, fails)
    <2>1. /\ now = [At |-> "untracked", Paths |-> {},
                    Entry |-> Grown(entry, ~fails,
                                    IF fails THEN entry.Changes ELSE AddTracked(entry.Changes, tree[m]))]
          /\ one.At = "numstat"
      BY <1>4, <1>6 DEF gitNumstat, one
    <2>2. entry.Changes = _emptyChangeReport
      BY <1>2, <2>1 DEF CountedAt, one
    <2>3. now.At = "untracked" /\ now.Entry.Whole = ~fails
          /\ now.Entry.Changes = IF fails THEN entry.Changes ELSE AddTracked(entry.Changes, tree[m])
      BY <2>1 DEF Grown
    <2>4. ~fails => now.Entry.Changes = TrackedOf(tree[m])
      BY <2>2, <2>3 DEF TrackedOf
    <2>5. CountedAt(now, had)
      BY <1>2, <2>3, <2>4 DEF CountedAt
    <2>6. QED
      BY <1>3, <1>4, <2>5 DEF now, had
  <1>7. CASE gitUntracked(s, m, fails)
    <2> DEFINE paths == IF fails THEN {} ELSE Untracked(tree[m])
    <2>1. /\ now = [At |-> IF paths = {} THEN "done" ELSE "wc", Paths |-> paths,
                    Entry |-> Grown(entry, entry.Whole /\ ~fails, entry.Changes)]
          /\ one.At = "untracked"
      BY <1>4, <1>7 DEF gitUntracked, one
    <2>2. /\ now.At = (IF paths = {} THEN "done" ELSE "wc") /\ now.Paths = paths
          /\ now.Entry.Whole = (entry.Whole /\ ~fails) /\ now.Entry.Changes = entry.Changes
      BY <2>1 DEF Grown
    <2>3. entry.Whole => \E t \in had : entry.Changes = TrackedOf(t)
      BY <1>2, <2>1 DEF CountedAt, one, had
    <2>4. paths # {} => paths = Untracked(tree[m])
      OBVIOUS
    <2>5. ~fails => paths = Untracked(tree[m])
      OBVIOUS
    <2> HIDE DEF paths
    <2>6. ASSUME paths = {} PROVE CountedAt(now, had)
      <3>1. now.At = "done"
        BY <2>2, <2>6
      <3>2. now.Entry.Whole => \E t, u, v \in had : Untracked(u) = {} /\ now.Entry.Changes = TrackedOf(t)
        BY <1>2, <2>2, <2>3, <2>5, <2>6
      <3>3. /\ now.At # "numstat" /\ now.At \notin {"untracked", "wc"} /\ now.At # "wc"
        BY <3>1
      <3>4. QED
        BY <3>2, <3>3, Zenon DEF CountedAt
    <2>7. ASSUME paths # {} PROVE CountedAt(now, had)
      <3>1. now.At = "wc"
        BY <2>2, <2>7
      <3>2. now.Entry.Whole => \E t \in had : now.Entry.Changes = TrackedOf(t)
        BY <2>2, <2>3
      <3>3. \E t \in had : now.Paths = Untracked(t)
        BY <1>2, <2>2, <2>4, <2>7
      <3>4. /\ now.At # "numstat" /\ now.At # "done"
        BY <3>1
      <3>5. QED
        BY <3>2, <3>3, <3>4, Zenon DEF CountedAt
    <2>8. CountedAt(now, had)
      BY <2>6, <2>7
    <2>9. QED
      BY <1>3, <1>4, <2>8 DEF now, had
  <1>8. CASE wc(s, m, fails)
    <2> DEFINE none == fails \/ WcFails(tree[m], one.Paths)
    <2>1. /\ now = [At |-> "done", Paths |-> one.Paths,
                    Entry |-> Grown(entry, entry.Whole /\ ~fails, AddUntracked(entry.Changes, one.Paths, none))]
          /\ one.At = "wc"
      BY <1>4, <1>8 DEF wc, one
    <2>2. /\ now.At = "done" /\ now.Entry.Whole = (entry.Whole /\ ~fails)
          /\ now.Entry.Changes = AddUntracked(entry.Changes, one.Paths, none)
      BY <2>1 DEF Grown
    <2>3. /\ entry.Whole => \E t \in had : entry.Changes = TrackedOf(t)
          /\ \E u \in had : one.Paths = Untracked(u)
      BY <1>2, <2>1 DEF CountedAt, one, had
    <2>4. ~fails => none = WcFails(tree[m], one.Paths)
      BY DEF WcFails
    <2> HIDE DEF none
    <2>5. CountedAt(now, had)
      <3>1. CASE now.Entry.Whole
        <4>1. ~fails /\ entry.Whole
          BY <2>2, <3>1
        <4>2. PICK t \in had, u \in had : entry.Changes = TrackedOf(t) /\ one.Paths = Untracked(u)
          BY <2>3, <4>1
        <4>3. now.Entry.Changes = AddUntracked(TrackedOf(t), Untracked(u), WcFails(tree[m], Untracked(u)))
          BY <2>2, <2>4, <4>1, <4>2
        <4>4. QED
          BY <1>2, <2>2, <4>3 DEF CountedAt
      <3>2. CASE ~now.Entry.Whole
        BY <2>2, <3>2 DEF CountedAt
      <3>3. QED
        BY <3>1, <3>2
    <2>6. QED
      BY <1>3, <1>4, <2>5 DEF now, had
  <1>9. QED
    BY <1>5, <1>6, <1>7, <1>8 DEF Command

\* A tree may have had more states than were seen before.
LEMMA CountedOfMore ==
    ASSUME NEW one, NEW had, NEW more, had \subseteq more, CountedAt(one, had)
    PROVE  CountedAt(one, more)
  BY DEF CountedAt

\* Each change adds one state to those a tree has had.
LEMMA HadFew ==
    ASSUME ScanInv, [Next]_vars, NEW s \in Scans, NEW m \in Modules, IsFiniteSet(truth[s][m])
    PROVE  IsFiniteSet(truth'[s][m])
  <1>1. TypeOK /\ truth \in [Scans -> [Modules -> SUBSET Tree]]
    BY DEF ScanInv, TypeOK
  <1>2. ASSUME NEW u \in Scans, RequestScan(u) PROVE IsFiniteSet(truth'[s][m])
    <2>1. truth' = [truth EXCEPT ![u] = [k \in Modules |-> {tree[k]}]]
      BY <1>2 DEF RequestScan
    <2>2. truth'[s][m] = truth[s][m] \/ truth'[s][m] = {tree[m]}
      BY <1>1, <2>1
    <2>3. QED
      BY <2>2, FS_Singleton
  <1>3. ASSUME NEW n \in Modules, NEW t, Edits(n, t) PROVE IsFiniteSet(truth'[s][m])
    <2>1. truth' = [u \in Scans |->
            IF scan[u].State = "running" THEN [truth[u] EXCEPT ![n] = @ \cup {t}] ELSE truth[u]]
      BY <1>3 DEF Edits
    <2>2. truth'[s][m] = truth[s][m] \/ truth'[s][m] = truth[s][m] \cup {t}
      BY <1>1, <2>1
    <2>3. QED
      BY <2>2, FS_AddElement
  <1>4. CASE \E u \in Scans : RequestScan(u) \/ ScanFailed(u) \/ ScanArrives(u) \/ ScanStep(u)
    <2>1. PICK u \in Scans : RequestScan(u) \/ ScanFailed(u) \/ ScanArrives(u) \/ ScanStep(u)
      BY <1>4
    <2>2. ScanStep(u) => truth' = truth
      BY DEF ScanStep, pumpWorker, Respond, Command, gitStatus, gitNumstat, gitUntracked, wc, OneModule
    <2>3. ScanFailed(u) \/ ScanArrives(u) => truth' = truth
      BY DEF ScanFailed, ScanArrives
    <2>4. QED
      BY <1>2, <2>1, <2>2, <2>3
  <1>5. CASE \E fails \in BOOLEAN : DecorationArrives(fails)
    BY <1>5 DEF DecorationArrives
  <1>6. CASE \E n \in Modules :
               \/ \E f \in Files, to \in Changed \cup {"absent", "untracked"} : ChangeFile(n, f, to)
               \/ Commit(n) \/ Push(n) \/ Fetch(n) \/ Undeclare(n)
    <2>1. PICK n \in Modules :
               \/ \E f \in Files, to \in Changed \cup {"absent", "untracked"} : ChangeFile(n, f, to)
               \/ Commit(n) \/ Push(n) \/ Fetch(n) \/ Undeclare(n)
      BY <1>6
    <2>2. Undeclare(n) => truth' = truth
      BY DEF Undeclare
    <2>3. QED
      BY <1>1, <1>3, <2>1, <2>2, ChangesAreEdits
  <1>7. CASE UNCHANGED vars
    BY <1>7 DEF vars
  <1>8. QED
    BY <1>4, <1>5, <1>6, <1>7 DEF Next

LEMMA CountStep == ScanInv /\ CountInv /\ [Next]_vars => CountInv'
  <1> SUFFICES ASSUME ScanInv, CountInv, [Next]_vars, NEW s \in Scans, NEW m \in Modules
               PROVE  IsFiniteSet(truth'[s][m]) /\ CountedAt(scan'[s].Module[m], truth'[s][m])
    BY DEF CountInv
  <1>1. IsFiniteSet(truth[s][m]) /\ CountedAt(scan[s].Module[m], truth[s][m])
    BY DEF CountInv
  <1>2. IsFiniteSet(truth'[s][m])
    BY <1>1, HadFew
  <1>3. CASE \E fails \in BOOLEAN : Command(s, m, fails)
    BY <1>2, <1>1, <1>3, CommandCounts
  <1>4. CASE ~IsEntry(scan'[s].Module[m].Entry)
    BY <1>2, <1>4 DEF CountedAt
  <1>5. CASE scan'[s].Module[m] = scan[s].Module[m] /\ truth[s][m] \subseteq truth'[s][m]
    <2>1. CountedAt(scan[s].Module[m], truth'[s][m])
      BY <1>1, <1>5, CountedOfMore
    <2>2. QED
      BY <1>2, <1>5, <2>1
  <1>6. QED
    BY <1>3, <1>4, <1>5, ModuleMoves

\* Whatever the trees do while a module is scanned, each of its commands counts
\* what one state of its tree, since the scan was asked for, has changed.
THEOREM CountInvariant == Spec => []CountInv
  <1>1. Init => CountInv
    <2> SUFFICES ASSUME Init, NEW s \in Scans, NEW m \in Modules
                 PROVE  IsFiniteSet(truth[s][m]) /\ CountedAt(scan[s].Module[m], truth[s][m])
      BY DEF CountInv
    <2>1. scan[s].Module[m] = NotScanned /\ truth[s][m] = {}
      BY DEF Init
    <2>2. QED
      BY <2>1, EntryKinds, FS_EmptySet DEF CountedAt
  <1>2. QED
    BY <1>1, CountStep, ScanInvariant, PTL DEF Spec

\* Of a tree left alone while gatherChanges ran, with no failed command, the
\* rollup counts every changed and every untracked file once, and the next
\* action is the tree's, for every number and size of files.
THEOREM QuietScanExactHolds == Spec => []QuietScanExact
  <1>1. ASSUME ScanInv, CountInv, NEW s \in Scans, NEW m \in Modules,
               scan[s].Module[m].At = "done", IsEntry(scan[s].Module[m].Entry), scan[s].Module[m].Entry.Whole,
               Cardinality(truth[s][m]) = 1, NEW t \in truth[s][m]
        PROVE  LET one == scan[s].Module[m] IN
               /\ one.Entry.Changes = ChangesOf(t)
               /\ one.Entry.Status.NextAction =
                    (IF one.Entry.Changes["Total"].Files > 0 THEN "commit"
                     ELSE IF t.Behind > 0 THEN "pull" ELSE IF t.Ahead > 0 THEN "push" ELSE "in-sync")
    <2> DEFINE one == scan[s].Module[m]
    <2>1. \A u \in truth[s][m] : u = t
      <3>1. IsFiniteSet(truth[s][m])
        BY <1>1 DEF CountInv
      <3>2. QED
        BY <1>1, <3>1, FS_Singleton
    <2>2. t \in Tree
      BY <1>1 DEF ScanInv, TypeOK
    <2>3. \/ Untracked(t) = {} /\ one.Entry.Changes = TrackedOf(t)
          \/ one.Entry.Changes = AddUntracked(TrackedOf(t), Untracked(t), WcFails(t, Untracked(t)))
      <3>1. CountedAt(one, truth[s][m])
        BY <1>1 DEF CountInv
      <3>2. \E x, u, v \in truth[s][m] :
              \/ Untracked(u) = {} /\ one.Entry.Changes = TrackedOf(x)
              \/ one.Entry.Changes = AddUntracked(TrackedOf(x), Untracked(u), WcFails(v, Untracked(u)))
        BY <1>1, <3>1 DEF CountedAt
      <3>3. QED
        BY <2>1, <3>2
    <2>4. WcFails(t, Untracked(t)) = FALSE
      BY DEF WcFails, Untracked
    <2>5. one.Entry.Changes = ChangesOf(t)
      BY <2>3, <2>4, OneTreeCounted DEF TrackedOf
    <2>6. one.Entry.Status = getGitStatus(t)
      <3>1. one.Entry.Status \in {getGitStatus(u) : u \in truth[s][m]}
        BY <1>1 DEF ScanInv, SeenInv
      <3>2. QED
        BY <2>1, <3>1
    <2> HIDE DEF one
    <2>7. QED
      BY <2>2, <2>5, <2>6, NextActionIs DEF one
  <1>2. ScanInv /\ CountInv => QuietScanExact
    BY <1>1 DEF QuietScanExact
  <1>3. QED
    BY <1>2, ScanInvariant, CountInvariant, PTL

=============================================================================
