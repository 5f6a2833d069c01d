-------------------------- MODULE RippleRunProofs --------------------------
(* A cascade publishes what it says: the safety properties of RippleRun, for *)
(* every graph, order, history of npm and choice of settings.                *)
EXTENDS RippleRun, FiniteSetTheorems, SequenceTheorems, TLAPS

PF == INSTANCE RipplePlanProofs WITH
    Ranges <- RangeSet, LocalRanges <- {}, Requests <- {}, FlatRequests <- {}, MaxDeclared <- 0,
    packages <- Packages0, phase <- "planned", edges <- Edges, roots <- Roots, visited <- {},
    queue <- {}, degree <- <<>>, ready <- {}, emitted <- {}, order <- Order

-----------------------------------------------------------------------------
(* The steps of the plan. *)

Bumps == {"bump", "bump-if-needed"}
Chain(i) == Steps[i].Actions

(* What the run needs of the actions of a step: which there are ...          *)
ChainHas(i) ==
    /\ \E k \in DOMAIN Chain(i) : Chain(i)[k].Op = "publish"
    /\ (\E k \in DOMAIN Chain(i) : Chain(i)[k].Op = "update-dep") =>
           \E k \in DOMAIN Chain(i) : Chain(i)[k].Op = "install"
    /\ \A k \in DOMAIN Chain(i) : Chain(i)[k].Op = "update-dep" =>
           \E j \in 1..(i - 1) : Order[j] = Chain(i)[k].Dep
    /\ \A e \in Edges, j \in 1..(i - 1) : e.From = Order[i] /\ e.To = Order[j] =>
           \E k \in DOMAIN Chain(i) : Chain(i)[k] = Graph!Act("update-dep", Order[j])

(* ... and their order.                                                      *)
ChainOrder(i) ==
    \A j, k \in DOMAIN Chain(i) : LET a == Chain(i)[j].Op
                                      b == Chain(i)[k].Op IN
        /\ a = "update-dep" /\ b \in {"install", "publish"} => j < k
        /\ a = "install" /\ b = "publish" => j < k
        /\ a \in Bumps /\ b = "publish" => j < k
        /\ a \in Bumps /\ b \in Bumps => j = k

LEMMA OrderIndices ==
    /\ Len(Order) \in Nat \ {0}
    /\ DOMAIN Order = 1..Len(Order)
    /\ \A i \in DOMAIN Order : Order[i] \in Modules
    /\ \A i, j \in DOMAIN Order : Order[i] = Order[j] => i = j
  BY RippleAssumption, LenProperties, EmptySeq, ElementOfSeq

LEMMA StepsAre ==
    /\ Steps = [i \in DOMAIN Order |-> Steps[i]]
    /\ DOMAIN Steps = DOMAIN Order
    /\ Len(Steps) = Len(Order)
    /\ \A i \in DOMAIN Order : Steps[i].Target = Order[i] /\ Chain(i) = Plan!StepActions(i, Config)
  <1>1. Steps = [i \in DOMAIN Order |->
           [Target |-> Order[i],
            Kind |-> IF Order[i] \in Roots THEN "producer" ELSE "consumer",
            Actions |-> Plan!StepActions(i, Config)]]
    BY DEF Steps, Plan!RippleSteps
  <1>2. DOMAIN Steps = 1..Len(Order) /\ Len(Order) \in Nat
    BY <1>1, OrderIndices
  <1>3. Len(Steps) = Len(Order)
    BY <1>1, <1>2
  <1>4. QED
    BY <1>1, <1>2, <1>3, OrderIndices DEF Chain

\* The actions of a step, as RipplePlanProofs has them.
LEMMA ChainStaged ==
    ASSUME NEW i \in DOMAIN Order
    PROVE  /\ PF!Staged(Chain(i), 0, 9)
           /\ PF!Elems(Chain(i)) =
                      {PF!Act("preflight-clean-tree", PF!NoDep)} \cup
                      {PF!Act("update-dep", PF!UpdateDeps(i)[k]) : k \in 1..Len(PF!UpdateDeps(i))} \cup
                      (IF PF!UpdateDeps(i) = <<>> THEN {}
                       ELSE {PF!Act("install", PF!NoDep), PF!Act("commit", PF!NoDep)} \cup
                            (IF Config.RunTest THEN {PF!Act("test", PF!NoDep)} ELSE {})) \cup
                      {PF!Act(IF Order[i] \in Roots THEN "bump-if-needed" ELSE "bump", PF!NoDep),
                       PF!Act("publish", PF!NoDep), PF!Act("commit-final", PF!NoDep)} \cup
                      (IF Config.WaitForIndex THEN {PF!Act("wait-for-index", PF!NoDep)} ELSE {}) \cup
                      (IF Config.RunPush THEN {PF!Act("push", PF!NoDep)} ELSE {})
  <1>1. PF!PlanAssumption
    BY RippleAssumption, Zenon DEF PF!PlanAssumption, PF!IsFiniteSet, IsFiniteSet
  <1>2. Config \in PF!Configs
    BY RippleAssumption DEF PF!Configs, Plan!Configs
  <1>3. Edges \subseteq PF!Edge
    BY DEF Edges, Graph!BuildGraph, Graph!Edge, PF!Edge, Graph!Sections, PF!Sections
  <1>4. Plan!StepActions(i, Config) = PF!StepActions(i, Config)
    BY Zenon DEF Plan!StepActions, PF!StepActions, Plan!UpdateDeps, PF!UpdateDeps, Plan!Sorted, PF!Sorted,
       Plan!Act, PF!Act, Plan!NoDep, PF!NoDep, Plan!Cardinality, PF!Cardinality
  <1>5. Chain(i) = PF!StepActions(i, Config)
    BY <1>4, StepsAre
  <1>6. QED
    BY <1>1, <1>2, <1>3, <1>5, PF!ChainStaged

LEMMA ChainIndices ==
    ASSUME NEW i \in DOMAIN Order
    PROVE  Len(Chain(i)) \in Nat /\ DOMAIN Chain(i) = 1..Len(Chain(i))
  <1>1. Chain(i) \in Seq(PF!Steplet)
    BY ChainStaged DEF PF!Staged
  <1>2. QED
    BY <1>1, LenProperties

LEMMA ChainIsOrdered ==
    ASSUME NEW i \in DOMAIN Order
    PROVE  ChainOrder(i)
  <1> DEFINE p == Chain(i)
  <1>1. PF!Staged(p, 0, 9)
    BY ChainStaged
  <1>2. Len(p) \in Nat /\ DOMAIN p = 1..Len(p)
    BY ChainIndices
  <1> HIDE DEF p
  <1>3. /\ \A j \in DOMAIN p : PF!Stage(p[j].Op) \in 0..9
        /\ \A j, k \in DOMAIN p : j < k =>
               \/ PF!Stage(p[j].Op) < PF!Stage(p[k].Op)
               \/ p[j].Op = "update-dep" /\ p[k].Op = "update-dep"
    BY <1>1, <1>2 DEF PF!Staged
  <1>4. /\ PF!Stage("update-dep") = 1 /\ PF!Stage("install") = 2 /\ PF!Stage("publish") = 6
        /\ PF!Stage("bump") = 5 /\ PF!Stage("bump-if-needed") = 5
    BY DEF PF!Stage
  <1>5. ASSUME NEW j \in DOMAIN p, NEW k \in DOMAIN p,
               PF!Stage(p[j].Op) < PF!Stage(p[k].Op)
        PROVE  j < k
    <2>1. ~(k < j)
      BY <1>2, <1>3, <1>4, <1>5
    <2>2. j # k
      BY <1>3, <1>5
    <2>3. QED
      BY <1>2, <2>1, <2>2
  <1>6. ASSUME NEW j \in DOMAIN p, NEW k \in DOMAIN p,
               p[j].Op \in Bumps, p[k].Op \in Bumps
        PROVE  j = k
    <2>1. PF!Stage(p[j].Op) = 5 /\ PF!Stage(p[k].Op) = 5
      BY <1>4, <1>6 DEF Bumps
    <2>2. ~(j < k) /\ ~(k < j)
      BY <1>3, <1>6, <2>1 DEF Bumps
    <2>3. QED
      BY <1>2, <2>2
  <1>7. QED
    BY <1>4, <1>5, <1>6 DEF ChainOrder, Bumps, p

LEMMA ChainIsComplete ==
    ASSUME NEW i \in DOMAIN Order
    PROVE  ChainHas(i)
  <1> DEFINE p == Chain(i)
             deps == PF!UpdateDeps(i)
  <1>1. Len(p) \in Nat /\ DOMAIN p = 1..Len(p)
    BY ChainIndices
  <1>2. Edges \subseteq PF!Edge
    BY DEF Edges, Graph!BuildGraph, Graph!Edge, PF!Edge, Graph!Sections, PF!Sections
  <1>3. PF!PlanAssumption
    BY RippleAssumption, Zenon DEF PF!PlanAssumption, PF!IsFiniteSet, IsFiniteSet
  <1>4. /\ deps \in Seq(Modules)
        /\ \A k \in 1..Len(deps) : \E j \in 1..(i - 1) : Order[j] = deps[k]
        /\ \A e \in Edges : e.From = Order[i] /\ (\E j \in 1..(i - 1) : Order[j] = e.To) =>
               \E k \in 1..Len(deps) : deps[k] = e.To
    BY <1>2, <1>3, PF!UpdatesListed
  <1>5. PF!Elems(p) = {p[k] : k \in DOMAIN p}
    BY <1>1 DEF PF!Elems
  <1> DEFINE must == {PF!Act("preflight-clean-tree", PF!NoDep)}
             updates == {PF!Act("update-dep", deps[k]) : k \in 1..Len(deps)}
             settle == IF deps = <<>> THEN {}
                       ELSE {PF!Act("install", PF!NoDep), PF!Act("commit", PF!NoDep)} \cup
                            (IF Config.RunTest THEN {PF!Act("test", PF!NoDep)} ELSE {})
             release == {PF!Act(IF Order[i] \in Roots THEN "bump-if-needed" ELSE "bump", PF!NoDep),
                         PF!Act("publish", PF!NoDep), PF!Act("commit-final", PF!NoDep)}
             wait == IF Config.WaitForIndex THEN {PF!Act("wait-for-index", PF!NoDep)} ELSE {}
             push == IF Config.RunPush THEN {PF!Act("push", PF!NoDep)} ELSE {}
  <1>6. PF!Elems(p) = must \cup updates \cup settle \cup release \cup wait \cup push
    BY ChainStaged
  <1>7. \A a \in must \cup settle \cup release \cup wait \cup push : a.Op # "update-dep"
    BY DEF PF!Act
  <1>8. updates \subseteq PF!Elems(p) /\ settle \subseteq PF!Elems(p) /\ release \subseteq PF!Elems(p)
    BY <1>6
  <1>9. \E k \in DOMAIN p : p[k].Op = "publish"
    <2>1. PF!Act("publish", PF!NoDep) \in PF!Elems(p)
      BY <1>8
    <2>2. QED
      BY <1>5, <2>1 DEF PF!Act
  <1>10. ASSUME NEW k \in DOMAIN p, p[k].Op = "update-dep"
         PROVE  \E l \in 1..Len(deps) : p[k] = PF!Act("update-dep", deps[l])
    <2>1. p[k] \in PF!Elems(p)
      BY <1>5
    <2> HIDE DEF p, must, settle, release, wait, push
    <2>2. p[k] \in updates
      BY <1>6, <1>7, <1>10, <2>1
    <2>3. QED
      BY <2>2
  <1>11. ASSUME NEW k \in DOMAIN p, p[k].Op = "update-dep"
         PROVE  \E l \in DOMAIN p : p[l].Op = "install"
    <2>1. deps # <<>>
      BY <1>10, <1>11
    <2>2. PF!Act("install", PF!NoDep) \in settle
      BY <2>1
    <2>3. QED
      BY <1>5, <1>8, <2>2 DEF PF!Act
  <1>12. ASSUME NEW k \in DOMAIN p, p[k].Op = "update-dep"
         PROVE  \E j \in 1..(i - 1) : Order[j] = p[k].Dep
    BY <1>4, <1>10, <1>12 DEF PF!Act
  <1>13. ASSUME NEW e \in Edges, NEW j \in 1..(i - 1), e.From = Order[i], e.To = Order[j]
         PROVE  \E k \in DOMAIN p : p[k] = Graph!Act("update-dep", Order[j])
    <2>1. PICK k \in 1..Len(deps) : deps[k] = Order[j]
      BY <1>4, <1>13
    <2>2. PF!Act("update-dep", Order[j]) \in PF!Elems(p)
      BY <1>8, <2>1
    <2>3. QED
      BY <1>5, <2>2 DEF PF!Act, Graph!Act
  <1> HIDE DEF deps, must, updates, settle, release, wait, push
  <1>14. QED
    BY <1>9, <1>11, <1>12, <1>13 DEF ChainHas, p

-----------------------------------------------------------------------------
(* The invariant. *)

Statuses == {"Pending", "Complete", "Skipped", "Error"}

(* While the run waits for a publish, the publish is what it waits for; only *)
(* a step that failed has an action that did.                                *)
RunShape ==
    /\ at \in DOMAIN Order
    /\ act \in [DOMAIN Chain(at) -> Statuses]
    /\ status \in {"Running", "Error", "Complete"}
    /\ status # "Error" => \A k \in DOMAIN act : act[k] # "Error"
    /\ gate # "none" => status = "Running" /\ Pendings # {} /\ Chain(at)[Now].Op = "publish"
    /\ status = "Complete" => at = Len(Order) /\ Pendings = {}
    /\ \A k \in DOMAIN act : act[k] = "Skipped" => Chain(at)[k].Op \in {"update-dep", "publish"}

FilesShape ==
    /\ packages = [m \in Modules |-> packages[m]]
    /\ version = [m \in Modules |-> version[m]]
    /\ \A m \in Modules : \A d \in packages[m] : d.Dep \in Names

(* Everything npm view serves was released, and nothing is ever withdrawn.   *)
NpmInv ==
    /\ index = [n \in Names |-> index[n]]
    /\ \A n \in Names : \A v \in index[n] : \E r \in released : r.Package = n /\ r.Version = v
    /\ Released0 \subseteq released

(* A retry passes over updates that had nothing to do, never over a bump.    *)
BumpInv ==
    /\ \A j, k \in DOMAIN act :
           k < j /\ act[j] # "Pending" /\ Chain(at)[k].Op \in Bumps => act[k] = "Complete"
    /\ \A k \in DOMAIN act :
           Chain(at)[k].Op \in Bumps /\ act[k] # "Complete" => version[Order[at]] = Versions0[Order[at]]

(* What the run has not come to is as it was.                                *)
UntouchedInv ==
    /\ \A m \in Modules : (\A i \in 1..at : Order[i] # m) =>
           packages[m] = Packages0[m] /\ version[m] = Versions0[m]
    /\ (\A k \in DOMAIN act : Chain(at)[k].Op # "update-dep") =>
           packages[Order[at]] = Packages0[Order[at]]

(* What an update wrote stays written, so a retry finds nothing to write; and *)
(* npm has a version for each range that was installed.                       *)
Written(m, dep) ==
    [Section |-> "dependencies", Dep |-> dep, Range |-> Caret(version[dep])] \in packages[m]

UpdatedInv ==
    \A j, k \in DOMAIN act :
        k <= j /\ act[j] # "Pending" /\ Chain(at)[k].Op = "update-dep" =>
            Written(Order[at], Chain(at)[k].Dep)

InstalledInv ==
    \A k \in DOMAIN act :
        Chain(at)[k].Op = "install" /\ act[k] = "Complete" => ResolvesIn(released, packages[Order[at]])

(* Of the steps behind it, and of a publish that is done, npm has what is on  *)
(* disk.                                                                      *)
StepCoherent(i) ==
    /\ ReleasedAsIs(Order[i])
    /\ \A k \in DOMAIN Chain(i) : Chain(i)[k].Op = "update-dep" => Written(Order[i], Chain(i)[k].Dep)

CoherenceInv ==
    /\ \A k \in DOMAIN act : Chain(at)[k].Op = "publish" =>
           /\ act[k] = "Complete" => ReleasedAsIs(Order[at])
           /\ act[k] = "Skipped" => declined # {}
    /\ declined = {} => \A i \in 1..(at - 1) : StepCoherent(i)

RunInv ==
    /\ RunShape /\ FilesShape /\ NpmInv
    /\ BumpInv /\ BumpedOnce /\ UntouchedInv
    /\ UpdatedInv /\ InstalledInv /\ CoherenceInv

-----------------------------------------------------------------------------
(* The first action that is pending. *)

LEMMA NowIsFirst ==
    ASSUME RunShape, Pendings # {}
    PROVE  Now \in Pendings /\ \A k \in Pendings : Now <= k
  <1> DEFINE upTo(m) == {n \in Pendings : n <= m}
             T == {upTo(m) : m \in Pendings}
  <1>1. Pendings \subseteq 1..Len(Chain(at)) /\ Len(Chain(at)) \in Nat
    BY ChainIndices DEF RunShape, Pendings
  <1>2. IsFiniteSet(Pendings)
    <2>1. IsFiniteSet(1..Len(Chain(at)))
      BY <1>1, FS_Interval
    <2>2. QED
      BY <1>1, <2>1, FS_Subset
  <1>3. \A U \in SUBSET Pendings : IsFiniteSet(U)
    BY <1>2, FS_Subset
  <1>4. T \subseteq FiniteSubsetsOf(Pendings) /\ T # {}
    BY <1>3 DEF FiniteSubsetsOf
  <1> HIDE DEF T
  <1>5. PICK U \in T : \A V \in T : ~ (<<V, U>> \in StrictSubsetOrdering(Pendings))
    BY <1>2, <1>4, FS_StrictSubsetOrderingWellFounded, WFMin
  <1> USE DEF T
  <1>6. PICK m \in Pendings : U = upTo(m)
    OBVIOUS
  <1>7. ASSUME NEW n \in Pendings, n < m PROVE FALSE
    <2>1. upTo(n) \in T /\ upTo(n) \in SUBSET Pendings /\ U \in SUBSET Pendings
      OBVIOUS
    <2>2. upTo(n) \subseteq U /\ m \in U /\ m \notin upTo(n)
      BY <1>1, <1>6, <1>7
    <2>3. QED
      BY <1>5, <2>1, <2>2 DEF StrictSubsetOrdering
  <1>8. \A n \in Pendings : m <= n
    BY <1>1, <1>7
  <1>9. QED
    BY <1>8 DEF Now

Ready == status = "Running" /\ Pendings # {}

\* What comes before it is complete, or was an update or a publish and is settled.
LEMMA BeforeNow ==
    ASSUME RunShape, Ready
    PROVE  /\ Now \in DOMAIN act /\ act[Now] = "Pending" /\ Now \in Nat
           /\ DOMAIN act = DOMAIN Chain(at) /\ DOMAIN act \subseteq Nat
           /\ \A k \in DOMAIN act : k < Now =>
                 \/ act[k] = "Complete"
                 \/ act[k] = "Skipped" /\ Chain(at)[k].Op \in {"update-dep", "publish"}
           /\ \A k \in DOMAIN act : act[k] = "Pending" => Now <= k
  <1>1. Now \in Pendings /\ \A k \in Pendings : Now <= k
    BY NowIsFirst DEF Ready
  <1>2. DOMAIN act = DOMAIN Chain(at) /\ DOMAIN act \subseteq Nat
    BY ChainIndices DEF RunShape
  <1>3. \A k \in DOMAIN act : act[k] \in Statuses /\ act[k] # "Error"
    BY DEF RunShape, Ready
  <1>4. ASSUME NEW k \in DOMAIN act, k < Now PROVE act[k] # "Pending"
    BY <1>1, <1>2, <1>4 DEF Pendings
  <1>5. QED
    BY <1>1, <1>2, <1>3, <1>4 DEF Pendings, Statuses, RunShape

-----------------------------------------------------------------------------
(* The steps. *)

Op(k) == Chain(at)[k].Op

(* Settle, whatever the task did.                                            *)
Settles(result) ==
    /\ Ready
    /\ act' = [act EXCEPT ![Now] = result]
    /\ gate' = "none"
    /\ status' = IF result = "Error" THEN "Error" ELSE status
    /\ at' = at

(* No status changes: the gate of a publish opens or closes, npm view        *)
(* catches up, a cache entry ages, an answer arrives.                        *)
Waits ==
    /\ UNCHANGED <<packages, version, released, at, act, status, declined>>
    /\ gate' = gate \/ (Ready /\ Op(Now) = "publish")
    /\ \/ index' = index
       \/ \E n \in Names : index' = [index EXCEPT ![n] = Published(n)]

(* An action is settled and no file or release changes.                      *)
SettlesOnly(result) ==
    /\ Settles(result)
    /\ UNCHANGED <<packages, version, released, index>>
    /\ Op(Now) # "update-dep"
    /\ \/ /\ result = "Complete"
          /\ Op(Now) # "publish"
          /\ Op(Now) = "install" => Installable(Order[at])
          /\ declined' = declined
       \/ result = "Error" /\ declined' = declined
       \/ result = "Skipped" /\ Op(Now) = "publish" /\ declined' # {}

Updates ==
    /\ Op(Now) = "update-dep"
    /\ LET dep == Chain(at)[Now].Dep
           desired == [Section |-> "dependencies", Dep |-> dep, Range |-> Caret(version[dep])]
       IN  IF desired \in packages[Order[at]]
           THEN Settles("Skipped") /\ packages' = packages
           ELSE /\ packages' = [packages EXCEPT ![Order[at]] =
                      {d \in @ : d.Dep # dep \/ d.Section # "dependencies"} \cup {desired}]
                /\ Settles("Complete")
    /\ UNCHANGED <<version, released, index, declined>>

Patches ==
    /\ Op(Now) \in Bumps
    /\ Settles("Complete")
    /\ version' = [version EXCEPT ![Order[at]] = Bumped(@, "patch")]
    /\ UNCHANGED <<packages, released, index, declined>>

Releases ==
    /\ Op(Now) = "publish"
    /\ Settles("Complete") \/ Settles("Error")
    /\ released' = released \cup {Release(Order[at])}
    /\ UNCHANGED <<packages, version, index, declined>>

ForeignReleases ==
    /\ \E m \in Elsewhere : released' = released \cup {Foreign(m)}
    /\ UNCHANGED <<packages, version, index, at, act, gate, status, declined>>

LEMMA StepCases ==
    ASSUME RunShape, [Next]_vars
    PROVE  \/ Waits
           \/ \E result \in Statuses : SettlesOnly(result)
           \/ Updates \/ Patches \/ Releases \/ ForeignReleases
           \/ EndStep \/ Retry
  <1> USE DEF packageVars, fileVars, npmVars, cacheVars, runVars
  <1>1. at \in DOMAIN Order /\ Target = Order[at] /\ Actions = Chain(at)
    BY StepsAre DEF RunShape, Target, Actions, Chain
  <1>2. ASSUME NEW op, Turn(op) PROVE Ready /\ Op(Now) = op
    BY <1>1, <1>2 DEF Turn, Ready, Op
  <1>3. ASSUME NEW op, Turn(op), NEW result, Settle(result) PROVE Settles(result)
    BY <1>2, <1>3 DEF Settle, Settles
  <1>4. gate # "none" => Ready /\ Op(Now) = "publish"
    BY DEF RunShape, Ready, Op
  <1>5. ASSUME gate # "none", NEW result, Settle(result) PROVE Settles(result)
    BY <1>4, <1>5 DEF Settle, Settles
  <1>6. ASSUME PreflightCleanTree PROVE \E result \in Statuses : SettlesOnly(result)
    <2> DEFINE result == IF Target \in dirty THEN "Error" ELSE "Complete"
    <2>1. Turn("preflight-clean-tree") /\ Settle(result)
      BY <1>6 DEF PreflightCleanTree
    <2>2. Op(Now) = "preflight-clean-tree" /\ Settles(result)
      BY <1>2, <1>3, <2>1
    <2>3. SettlesOnly(result)
      BY <1>6, <2>2 DEF PreflightCleanTree, SettlesOnly
    <2>4. QED
      BY <2>3 DEF Statuses
  <1>7. ASSUME NEW op, op \notin {"update-dep"}, Turn(op), Throws
        PROVE  \E result \in Statuses : SettlesOnly(result)
    <2>1. SettlesOnly("Error")
      BY <1>2, <1>3, <1>7 DEF Throws, SettlesOnly
    <2>2. QED
      BY <2>1 DEF Statuses
  <1>8. ASSUME NEW op, op \notin {"update-dep", "publish"}, Turn(op), Settle("Complete"),
               op = "install" => Installable(Target),
               UNCHANGED <<packages, version, released, index, declined>>
        PROVE  \E result \in Statuses : SettlesOnly(result)
    <2>1. SettlesOnly("Complete")
      BY <1>1, <1>2, <1>3, <1>8 DEF SettlesOnly
    <2>2. QED
      BY <2>1 DEF Statuses
  <1>9. ASSUME UpdateDep PROVE Updates
    <2>1. Op(Now) = "update-dep"
      BY <1>2, <1>9 DEF UpdateDep
    <2>2. \A result : Settle(result) => Settles(result)
      BY <1>3, <1>9 DEF UpdateDep
    <2>3. QED
      BY <1>1, <1>9, <2>1, <2>2 DEF UpdateDep, Updates
  <1>10. ASSUME Install \/ Test \/ Push \/ Commit
         PROVE  \E result \in Statuses : SettlesOnly(result)
    <2>1. CASE Install
      BY <1>7, <1>8, <2>1 DEF Install
    <2>2. CASE Test
      BY <1>7, <1>8, <2>2 DEF Test
    <2>3. CASE Push
      BY <1>8, <2>3 DEF Push
    <2>4. CASE Commit
      BY <1>8, <2>4 DEF Commit
    <2>5. QED
      BY <1>10, <2>1, <2>2, <2>3, <2>4
  <1>11. ASSUME NEW op \in Bumps, Turn(op), VersionPatch PROVE Patches
    BY <1>1, <1>2, <1>3, <1>11 DEF VersionPatch, Patches
  <1>12. ASSUME Bump PROVE Patches \/ \E result \in Statuses : SettlesOnly(result)
    BY <1>7, <1>11, <1>12 DEF Bump, Bumps
  <1>13. ASSUME NEW ok \in BOOLEAN, BumpIfNeeded(ok)
         PROVE  Patches \/ \E result \in Statuses : SettlesOnly(result)
    <2> DEFINE settled(result) == Settle(result) /\ UNCHANGED <<fileVars, npmVars, check, dirty, declined, timedOut>>
    <2>1. Turn("bump-if-needed")
      BY <1>13 DEF BumpIfNeeded
    <2>2. VersionPatch \/ settled("Error") \/ settled("Complete")
      BY <1>13 DEF BumpIfNeeded
    <2>3. ASSUME settled("Error") PROVE SettlesOnly("Error")
      BY <1>2, <1>3, <2>1, <2>3 DEF SettlesOnly
    <2>4. ASSUME settled("Complete") PROVE SettlesOnly("Complete")
      BY <1>2, <1>3, <2>1, <2>4 DEF SettlesOnly
    <2>5. QED
      BY <1>11, <2>1, <2>2, <2>3, <2>4 DEF Bumps, Statuses
  <1>14. ASSUME NEW ok \in BOOLEAN, StartValidator(ok) PROVE Waits
    BY <1>2, <1>14 DEF StartValidator, StartCheck, Waits
  <1>15. ASSUME NEW n \in Names, NEW ok \in BOOLEAN, AnswerValidator(n, ok) PROVE Waits
    BY <1>15 DEF AnswerValidator, AnswerCheck, Waits
  <1>16. ASSUME EndValidator PROVE Waits \/ \E result \in Statuses : SettlesOnly(result)
    <2>1. gate # "none"
      BY <1>16 DEF EndValidator
    <2>2. UNCHANGED <<packages, version, released, index, declined>>
      BY <1>16 DEF EndValidator
    <2>3. \/ UNCHANGED <<at, act, status>>
          \/ Settle("Error")
      BY <1>16 DEF EndValidator
    <2>4. CASE UNCHANGED <<at, act, status>>
      BY <1>4, <2>1, <2>2, <2>4 DEF Waits
    <2>5. CASE Settle("Error")
      <3>1. SettlesOnly("Error")
        BY <1>4, <1>5, <2>1, <2>2, <2>5 DEF SettlesOnly
      <3>2. QED
        BY <3>1 DEF Statuses
    <2>6. QED
      BY <2>3, <2>4, <2>5
  <1>17. ASSUME Confirm PROVE Waits
    BY <1>4, <1>17 DEF Confirm, Waits
  <1>18. ASSUME Skip PROVE \E result \in Statuses : SettlesOnly(result)
    <2>1. SettlesOnly("Skipped")
      BY <1>4, <1>5, <1>18 DEF Skip, SettlesOnly
    <2>2. QED
      BY <2>1 DEF Statuses
  <1>19. ASSUME Publish PROVE Releases \/ \E result \in Statuses : SettlesOnly(result)
    <2>1. gate # "none" /\ UNCHANGED <<packages, version, index, declined>>
      BY <1>19 DEF Publish
    <2>2. CASE released' = released \cup {Release(Target)} /\ (Settle("Complete") \/ Settle("Error"))
      BY <1>1, <1>4, <1>5, <2>1, <2>2 DEF Releases
    <2>3. CASE released' = released /\ Settle("Error")
      <3>1. SettlesOnly("Error")
        BY <1>4, <1>5, <2>1, <2>3 DEF SettlesOnly
      <3>2. QED
        BY <3>1 DEF Statuses
    <2>4. QED
      BY <1>19, <2>2, <2>3 DEF Publish
  <1>20. ASSUME NEW ok \in BOOLEAN, WaitForIndex(ok)
         PROVE  Waits \/ \E result \in Statuses : SettlesOnly(result)
    <2>1. /\ Turn("wait-for-index")
          /\ UNCHANGED <<packages, version, released, index, declined>>
          /\ Settle("Complete") \/ UNCHANGED <<at, act, gate, status, yes>>
      BY <1>20 DEF WaitForIndex
    <2>2. QED
      BY <1>8, <2>1 DEF Waits
  <1>21. ASSUME GiveUpWaiting PROVE \E result \in Statuses : SettlesOnly(result)
    BY <1>8, <1>21 DEF GiveUpWaiting
  <1>22. ASSUME Others PROVE Waits \/ ForeignReleases
    <2>1. ASSUME NEW n \in Names, Serve(n), UNCHANGED runVars PROVE Waits
      BY <2>1 DEF Serve, Waits
    <2>2. ASSUME NEW n \in Names, Expire(n), UNCHANGED runVars PROVE Waits
      BY <2>2 DEF Expire, Waits
    <2>3. ASSUME NEW m \in Elsewhere, PublishElsewhere(m) PROVE ForeignReleases
      BY <2>3 DEF PublishElsewhere, ForeignReleases
    <2>4. QED
      BY <1>22, <2>1, <2>2, <2>3 DEF Others
  <1>23. UNCHANGED vars => Waits
    BY DEF vars, Waits
  <1>24. CASE Engine
    BY <1>6, <1>9, <1>10, <1>12, <1>13, <1>14, <1>15, <1>16, <1>19, <1>20, <1>21, <1>24 DEF Engine
  <1>25. CASE Answer
    BY <1>17, <1>18, <1>25 DEF Answer
  <1>26. QED
    BY <1>22, <1>23, <1>24, <1>25 DEF Next, Run

-----------------------------------------------------------------------------
(* What the steps keep. *)

LEMMA InitRun == Init => RunInv
  <1> SUFFICES ASSUME Init PROVE RunInv
    OBVIOUS
  <1>1. 1 \in DOMAIN Order /\ DOMAIN Chain(1) = DOMAIN Steps[1].Actions
    BY OrderIndices DEF Chain
  <1>2. act = [k \in DOMAIN Chain(1) |-> "Pending"] /\ at = 1
    BY <1>1 DEF Init, Fresh
  <1>3. \A k \in DOMAIN act : act[k] = "Pending"
    BY <1>2
  <1>4. RunShape
    BY <1>1, <1>2 DEF RunShape, Statuses, Init
  <1>5. FilesShape
    BY RippleAssumption DEF FilesShape, Init, Dependency
  <1>6. NpmInv
    BY DEF NpmInv, Init, InitPackages, Published
  <1>7. version = Versions0 /\ packages = Packages0
    BY DEF Init
  <1>8. BumpInv /\ BumpedOnce /\ UntouchedInv
    BY <1>3, <1>7 DEF BumpInv, BumpedOnce, UntouchedInv
  <1>9. UpdatedInv /\ InstalledInv /\ CoherenceInv
    BY <1>2, <1>3 DEF UpdatedInv, InstalledInv, CoherenceInv
  <1>10. QED
    BY <1>4, <1>5, <1>6, <1>8, <1>9 DEF RunInv

LEMMA WaitsKeep == RunInv /\ Waits => RunInv'
  <1> SUFFICES ASSUME RunInv, Waits PROVE RunInv'
    OBVIOUS
  <1> USE DEF RunInv, Waits
  <1>1. Pendings' = Pendings /\ Now' = Now
    BY DEF Pendings, Now
  <1>2. RunShape'
    BY <1>1 DEF RunShape, Ready, Op
  <1>3. NpmInv'
    <2>1. CASE index' = index
      BY <2>1 DEF NpmInv
    <2>2. ASSUME NEW n \in Names, index' = [index EXCEPT ![n] = Published(n)] PROVE NpmInv'
      BY <2>2 DEF NpmInv, Published
    <2>3. QED
      BY <2>1, <2>2
  <1>4. FilesShape' /\ BumpInv' /\ BumpedOnce' /\ UntouchedInv'
    BY DEF FilesShape, BumpInv, BumpedOnce, UntouchedInv
  <1>5. UpdatedInv' /\ InstalledInv'
    BY DEF UpdatedInv, Written, InstalledInv
  <1>6. CoherenceInv'
    BY DEF CoherenceInv, StepCoherent, ReleasedAsIs, Release, Written
  <1>7. QED
    BY <1>2, <1>3, <1>4, <1>5, <1>6

\* An action is settled: the shape of the run, and the bumps before it.
LEMMA SettlesShape ==
    ASSUME RunShape, NEW result \in {"Complete", "Skipped", "Error"}, Settles(result),
           result = "Skipped" => Op(Now) \in {"update-dep", "publish"}
    PROVE  /\ RunShape'
           /\ DOMAIN act' = DOMAIN act
           /\ act'[Now] = result
           /\ \A k \in DOMAIN act : k # Now => act'[k] = act[k]
  <1>1. /\ Now \in DOMAIN act
        /\ at' = at
        /\ act' = [act EXCEPT ![Now] = result]
        /\ status' = IF result = "Error" THEN "Error" ELSE "Running"
        /\ gate' = "none"
    BY BeforeNow DEF Settles, Ready
  <1>2. /\ DOMAIN act' = DOMAIN act
        /\ act'[Now] = result
        /\ \A k \in DOMAIN act : k # Now => act'[k] = act[k]
    BY <1>1 DEF RunShape
  <1>3. act' \in [DOMAIN Chain(at) -> Statuses]
    BY <1>1, <1>2 DEF RunShape, Statuses
  <1>4. \A k \in DOMAIN act : act[k] # "Error"
    BY DEF RunShape, Settles, Ready
  <1>5. RunShape'
    BY <1>1, <1>2, <1>3, <1>4 DEF RunShape, Op
  <1>6. QED
    BY <1>2, <1>5

\* A bump that is behind stays complete.
LEMMA SettlesBumps ==
    ASSUME RunShape, BumpInv, NEW result \in {"Complete", "Skipped", "Error"}, Settles(result),
           result = "Skipped" => Op(Now) \in {"update-dep", "publish"}
    PROVE  \A j, k \in DOMAIN act :
               k < j /\ act'[j] # "Pending" /\ Chain(at)[k].Op \in Bumps => act'[k] = "Complete"
  <1> TAKE j, k \in DOMAIN act
  <1> HAVE k < j /\ act'[j] # "Pending" /\ Chain(at)[k].Op \in Bumps
  <1>1. /\ act'[Now] = result /\ act[Now] = "Pending"
        /\ \A l \in DOMAIN act : l # Now => act'[l] = act[l]
        /\ \A l \in DOMAIN act : l < Now =>
              \/ act[l] = "Complete"
              \/ act[l] = "Skipped" /\ Chain(at)[l].Op \in {"update-dep", "publish"}
    BY SettlesShape, BeforeNow DEF Settles
  <1>2. Now \in Nat /\ j \in Nat /\ k \in Nat /\ Now \in DOMAIN act
    BY BeforeNow DEF Settles
  <1>3. CASE j = Now
    BY <1>1, <1>2, <1>3 DEF Bumps
  <1>4. CASE j # Now
    <2>1. act[k] = "Complete"
      BY <1>1, <1>4 DEF BumpInv
    <2>2. QED
      BY <1>1, <2>1
  <1>5. QED
    BY <1>3, <1>4

LEMMA SettlesOnlyKeeps ==
    ASSUME RunInv, NEW result \in Statuses, SettlesOnly(result)
    PROVE  RunInv'
  <1> USE DEF RunInv
  <1>1. /\ result \in {"Complete", "Skipped", "Error"} /\ Settles(result)
        /\ result = "Skipped" => Op(Now) \in {"update-dep", "publish"}
        /\ UNCHANGED <<packages, version, released, index>>
        /\ at' = at
        /\ Op(Now) # "update-dep"
    BY DEF SettlesOnly, Settles
  <1>2. /\ RunShape' /\ DOMAIN act' = DOMAIN act
        /\ act'[Now] = result
        /\ \A k \in DOMAIN act : k # Now => act'[k] = act[k]
    BY <1>1, SettlesShape
  <1>3. /\ Now \in DOMAIN act /\ act[Now] = "Pending" /\ Now \in Nat /\ DOMAIN act \subseteq Nat
        /\ \A k \in DOMAIN act : k < Now => act[k] # "Pending"
    BY <1>1, BeforeNow DEF Settles
  <1>4. FilesShape' /\ NpmInv' /\ BumpedOnce' /\ UntouchedInv'
    BY <1>1, <1>2 DEF FilesShape, NpmInv, BumpedOnce, UntouchedInv
  <1>5. BumpInv'
    <2>1. \A j, k \in DOMAIN act :
              k < j /\ act'[j] # "Pending" /\ Chain(at)[k].Op \in Bumps => act'[k] = "Complete"
      BY <1>1, SettlesBumps
    <2>2. \A k \in DOMAIN act :
              Chain(at)[k].Op \in Bumps /\ act'[k] # "Complete" => version[Order[at]] = Versions0[Order[at]]
      BY <1>2, <1>3 DEF BumpInv
    <2>3. QED
      BY <1>1, <1>2, <2>1, <2>2 DEF BumpInv
  <1>6. UpdatedInv'
    <2> SUFFICES ASSUME NEW j \in DOMAIN act, NEW k \in DOMAIN act,
                        k <= j, act'[j] # "Pending", Chain(at)[k].Op = "update-dep"
                 PROVE  Written(Order[at], Chain(at)[k].Dep)
      BY <1>1, <1>2 DEF UpdatedInv, Written
    <2>1. CASE j = Now
      <3>1. k # Now
        BY <1>1 DEF Op
      <3>2. k < Now
        BY <1>3, <2>1, <3>1
      <3>3. QED
        BY <1>3, <3>2 DEF UpdatedInv
    <2>2. CASE j # Now
      BY <1>2, <2>2 DEF UpdatedInv
    <2>3. QED
      BY <2>1, <2>2
  <1>7. InstalledInv'
    <2> SUFFICES ASSUME NEW k \in DOMAIN act, Chain(at)[k].Op = "install", act'[k] = "Complete"
                 PROVE  ResolvesIn(released, packages[Order[at]])
      BY <1>1, <1>2 DEF InstalledInv
    <2>1. CASE k # Now
      BY <1>2, <2>1 DEF InstalledInv
    <2>2. CASE k = Now
      <3>1. Installable(Order[at])
        BY <1>2, <2>2 DEF SettlesOnly, Op
      <3>2. Order[at] \in Modules
        BY OrderIndices DEF RunShape
      <3>3. QED
        BY <3>1, <3>2 DEF Installable, ResolvesIn, NpmInv, FilesShape
    <2>3. QED
      BY <2>1, <2>2
  <1>8. CoherenceInv'
    <2>1. ASSUME NEW k \in DOMAIN act, Chain(at)[k].Op = "publish"
          PROVE  /\ act'[k] = "Complete" => ReleasedAsIs(Order[at])
                 /\ act'[k] = "Skipped" => declined' # {}
      BY <1>2, <2>1 DEF CoherenceInv, SettlesOnly, Op
    <2>2. declined' = {} => declined = {}
      BY DEF SettlesOnly
    <2>3. QED
      BY <1>1, <1>2, <2>1, <2>2 DEF CoherenceInv, StepCoherent, ReleasedAsIs, Release, Written
  <1>9. QED
    BY <1>2, <1>4, <1>5, <1>6, <1>7, <1>8

\* An update writes what it finds missing; then nothing behind it in the step
\* has run, and what was written for another producer stays.
LEMMA UpdatesKeep == RunInv /\ Updates => RunInv'
  <1> SUFFICES ASSUME RunInv, Updates PROVE RunInv'
    OBVIOUS
  <1> USE DEF RunInv
  <1> DEFINE dep == Chain(at)[Now].Dep
             desired == [Section |-> "dependencies", Dep |-> dep, Range |-> Caret(version[dep])]
  <1>1. PICK result \in {"Complete", "Skipped"} :
            /\ Settles(result)
            /\ result = "Skipped" => packages' = packages /\ desired \in packages[Order[at]]
            /\ result = "Complete" =>
                  /\ desired \notin packages[Order[at]]
                  /\ packages' = [packages EXCEPT ![Order[at]] =
                        {d \in @ : d.Dep # dep \/ d.Section # "dependencies"} \cup {desired}]
    BY DEF Updates
  <1>2. /\ Op(Now) = "update-dep" /\ at' = at
        /\ UNCHANGED <<version, released, index, declined>>
    BY <1>1 DEF Updates, Settles
  <1>3. /\ RunShape' /\ DOMAIN act' = DOMAIN act
        /\ act'[Now] = result
        /\ \A k \in DOMAIN act : k # Now => act'[k] = act[k]
    BY <1>1, <1>2, SettlesShape
  <1>4. /\ Now \in DOMAIN act /\ act[Now] = "Pending" /\ Now \in Nat /\ DOMAIN act \subseteq Nat
        /\ DOMAIN act = DOMAIN Chain(at)
        /\ \A k \in DOMAIN act : k < Now => act[k] # "Pending"
    BY <1>1, BeforeNow DEF Settles
  <1>5. /\ at \in DOMAIN Order /\ at \in Nat /\ at \in 1..at /\ Order[at] \in Modules
        /\ \A i \in 1..(at - 1) : Order[i] \in Modules /\ Order[i] # Order[at]
    BY OrderIndices DEF RunShape
  <1>6. dep \in Modules /\ dep # Order[at]
    <2>1. \E j \in 1..(at - 1) : Order[j] = dep
      BY <1>2, <1>4, <1>5, ChainIsComplete DEF ChainHas, Op
    <2>2. QED
      BY <1>5, <2>1
  <1> HIDE DEF dep
  <1>7. \A m \in Modules : m # Order[at] => packages'[m] = packages[m]
    BY <1>1, <1>5 DEF FilesShape
  <1>8. desired \in packages'[Order[at]]
    BY <1>1, <1>5 DEF FilesShape
  <1>9. \A d \in packages[Order[at]] : d.Dep # dep => d \in packages'[Order[at]]
    BY <1>1, <1>5 DEF FilesShape
  <1>10. result = "Complete" => \A j \in DOMAIN act : j >= Now => act[j] = "Pending"
    BY <1>1, <1>2, <1>4 DEF UpdatedInv, Written, Op, dep
  <1>11. NpmInv' /\ BumpedOnce'
    BY <1>2 DEF NpmInv, BumpedOnce
  <1>12. FilesShape'
    <2>1. \A d \in packages'[Order[at]] : d \in packages[Order[at]] \/ d = desired
      BY <1>1, <1>5 DEF FilesShape
    <2>2. desired.Dep \in Names
      BY <1>6 DEF Names
    <2>3. packages' = [m \in Modules |-> packages'[m]]
      BY <1>1, <1>5 DEF FilesShape
    <2> HIDE DEF desired
    <2>4. \A m \in Modules : \A d \in packages'[m] : d.Dep \in Names
      BY <1>7, <2>1, <2>2, <1>5 DEF FilesShape
    <2>5. QED
      BY <1>2, <2>3, <2>4 DEF FilesShape
  <1>13. BumpInv'
    <2>1. \A j, k \in DOMAIN act :
              k < j /\ act'[j] # "Pending" /\ Chain(at)[k].Op \in Bumps => act'[k] = "Complete"
      BY <1>1, <1>2, SettlesBumps
    <2>2. \A k \in DOMAIN act :
              Chain(at)[k].Op \in Bumps /\ act'[k] # "Complete" => version[Order[at]] = Versions0[Order[at]]
      BY <1>3, <1>4 DEF BumpInv
    <2>3. QED
      BY <1>2, <1>3, <2>1, <2>2 DEF BumpInv
  <1>14. UntouchedInv'
    <2>1. \A m \in Modules : (\A i \in 1..at : Order[i] # m) => m # Order[at]
      BY <1>5
    <2>2. QED
      BY <1>2, <1>3, <1>4, <1>7, <2>1 DEF UntouchedInv, Op
  <1>15. UpdatedInv'
    <2> SUFFICES ASSUME NEW j \in DOMAIN act, NEW k \in DOMAIN act,
                        k <= j, act'[j] # "Pending", Chain(at)[k].Op = "update-dep"
                 PROVE  Written(Order[at], Chain(at)[k].Dep)'
      BY <1>2, <1>3 DEF UpdatedInv
    <2>1. CASE Chain(at)[k].Dep = dep
      BY <1>2, <1>8, <2>1 DEF Written
    <2>2. CASE Chain(at)[k].Dep # dep
      <3>1. k # Now
        BY <2>2 DEF dep
      <3>2. Written(Order[at], Chain(at)[k].Dep)
        <4>1. CASE j = Now
          <5>1. act[k] # "Pending"
            BY <1>4, <3>1, <4>1
          <5>2. QED
            BY <1>4, <5>1 DEF UpdatedInv
        <4>2. CASE j # Now
          BY <1>3, <4>2 DEF UpdatedInv
        <4>3. QED
          BY <4>1, <4>2
      <3>3. QED
        BY <1>2, <1>9, <2>2, <3>2 DEF Written
    <2>3. QED
      BY <2>1, <2>2
  <1>16. ASSUME NEW k \in DOMAIN act, Chain(at)[k].Op \in {"install", "publish"}, act'[k] # "Pending"
         PROVE  packages' = packages /\ act'[k] = act[k]
    <2>1. k # Now /\ Now < k
      BY <1>2, <1>4, <1>5, <1>16, ChainIsOrdered DEF ChainOrder, Op
    <2>2. act'[k] = act[k]
      BY <1>3, <2>1
    <2>3. result # "Complete"
      BY <1>4, <1>10, <1>16, <2>1, <2>2
    <2>4. QED
      BY <1>1, <2>2, <2>3
  <1>17. InstalledInv'
    <2> SUFFICES ASSUME NEW k \in DOMAIN act, Chain(at)[k].Op = "install", act'[k] = "Complete"
                 PROVE  ResolvesIn(released, packages'[Order[at]])
      BY <1>2, <1>3 DEF InstalledInv
    <2>1. packages' = packages /\ act[k] = "Complete"
      BY <1>16
    <2>2. QED
      BY <2>1 DEF InstalledInv
  <1>18. CoherenceInv'
    <2>1. ASSUME NEW k \in DOMAIN act, Chain(at)[k].Op = "publish"
          PROVE  /\ act'[k] = "Complete" => ReleasedAsIs(Order[at])'
                 /\ act'[k] = "Skipped" => declined' # {}
      <3>1. CASE act'[k] = "Pending"
        BY <3>1
      <3>2. CASE act'[k] # "Pending"
        <4>1. packages' = packages /\ act'[k] = act[k]
          BY <1>16, <2>1, <3>2
        <4>2. QED
          BY <1>2, <2>1, <4>1 DEF CoherenceInv, ReleasedAsIs, Release
      <3>3. QED
        BY <3>1, <3>2
    <2>2. ASSUME NEW i \in 1..(at - 1), StepCoherent(i) PROVE StepCoherent(i)'
      <3>1. packages'[Order[i]] = packages[Order[i]]
        BY <1>5, <1>7
      <3>2. QED
        BY <1>2, <2>2, <3>1 DEF StepCoherent, ReleasedAsIs, Release, Written
    <2>3. QED
      BY <1>2, <1>3, <2>1, <2>2 DEF CoherenceInv
  <1>19. QED
    BY <1>3, <1>11, <1>12, <1>13, <1>14, <1>15, <1>17, <1>18

\* A bump is the first of its module.
LEMMA PatchesKeep == RunInv /\ Patches => RunInv'
  <1> SUFFICES ASSUME RunInv, Patches PROVE RunInv'
    OBVIOUS
  <1> USE DEF RunInv
  <1>1. /\ Settles("Complete") /\ Op(Now) \in Bumps /\ at' = at
        /\ version' = [version EXCEPT ![Order[at]] = Bumped(@, "patch")]
        /\ UNCHANGED <<packages, released, index, declined>>
    BY DEF Patches, Settles
  <1>2. /\ RunShape' /\ DOMAIN act' = DOMAIN act
        /\ act'[Now] = "Complete"
        /\ \A k \in DOMAIN act : k # Now => act'[k] = act[k]
    BY <1>1, SettlesShape
  <1>3. /\ Now \in DOMAIN act /\ act[Now] = "Pending" /\ Now \in Nat /\ DOMAIN act \subseteq Nat
        /\ DOMAIN act = DOMAIN Chain(at)
        /\ \A k \in DOMAIN act : k < Now => act[k] # "Pending"
    BY <1>1, BeforeNow DEF Settles
  <1>4. /\ at \in DOMAIN Order /\ at \in Nat /\ at \in 1..at /\ Order[at] \in Modules
        /\ \A i \in 1..(at - 1) : Order[i] \in Modules /\ Order[i] # Order[at]
    BY OrderIndices DEF RunShape
  <1>5. \A m \in Modules : m # Order[at] => version'[m] = version[m]
    BY <1>1, <1>4 DEF FilesShape
  <1>6. version[Order[at]] = Versions0[Order[at]] /\ version'[Order[at]] = Bumped(version[Order[at]], "patch")
    BY <1>1, <1>3, <1>4 DEF BumpInv, FilesShape, Op
  <1>7. FilesShape' /\ NpmInv'
    BY <1>1 DEF FilesShape, NpmInv
  <1>8. BumpedOnce'
    BY <1>5, <1>6 DEF BumpedOnce
  <1>9. BumpInv'
    <2>1. \A j, k \in DOMAIN act :
              k < j /\ act'[j] # "Pending" /\ Chain(at)[k].Op \in Bumps => act'[k] = "Complete"
      BY <1>1, SettlesBumps
    <2>2. \A k \in DOMAIN act : Chain(at)[k].Op \in Bumps => k = Now
      BY <1>1, <1>3, <1>4, ChainIsOrdered DEF ChainOrder, Op
    <2>3. QED
      BY <1>1, <1>2, <2>1, <2>2 DEF BumpInv
  <1>10. UntouchedInv'
    <2>1. \A m \in Modules : (\A i \in 1..at : Order[i] # m) => m # Order[at]
      BY <1>4
    <2>2. QED
      BY <1>1, <1>2, <1>5, <2>1 DEF UntouchedInv
  <1>11. \A m \in Modules, n \in Modules \ {Order[at]} : Written(m, n) => Written(m, n)'
    BY <1>1, <1>5 DEF Written
  <1>12. \A k \in DOMAIN Chain(at) : Chain(at)[k].Op = "update-dep" =>
             Chain(at)[k].Dep \in Modules \ {Order[at]}
    <2> TAKE k \in DOMAIN Chain(at)
    <2> HAVE Chain(at)[k].Op = "update-dep"
    <2>1. PICK j \in 1..(at - 1) : Order[j] = Chain(at)[k].Dep
      BY <1>4, ChainIsComplete DEF ChainHas
    <2>2. QED
      BY <1>4, <2>1
  <1>13. UpdatedInv'
    <2> SUFFICES ASSUME NEW j \in DOMAIN act, NEW k \in DOMAIN act,
                        k <= j, act'[j] # "Pending", Chain(at)[k].Op = "update-dep"
                 PROVE  Written(Order[at], Chain(at)[k].Dep)'
      BY <1>1, <1>2 DEF UpdatedInv
    <2>1. k # Now
      BY <1>1 DEF Op, Bumps
    <2>2. Written(Order[at], Chain(at)[k].Dep)
      <3>1. CASE j = Now
        <4>1. act[k] # "Pending"
          BY <1>3, <2>1, <3>1
        <4>2. QED
          BY <1>3, <4>1 DEF UpdatedInv
      <3>2. CASE j # Now
        BY <1>2, <3>2 DEF UpdatedInv
      <3>3. QED
        BY <3>1, <3>2
    <2>3. QED
      BY <1>1, <1>3, <1>4, <1>11, <1>12, <2>2
  <1>14. InstalledInv'
    BY <1>1, <1>2 DEF InstalledInv, Op, Bumps
  <1>15. CoherenceInv'
    <2>1. ASSUME NEW k \in DOMAIN act, Chain(at)[k].Op = "publish"
          PROVE  act'[k] = "Pending" \/ act'[k] = "Error"
      <3>1. Now < k /\ k # Now
        BY <1>1, <1>3, <1>4, <2>1, ChainIsOrdered DEF ChainOrder, Op
      <3>2. act[k] = "Pending"
        BY <1>1, <1>3, <2>1, <3>1 DEF BumpInv, Op
      <3>3. QED
        BY <1>2, <3>1, <3>2
    <2>2. ASSUME NEW i \in 1..(at - 1), StepCoherent(i) PROVE StepCoherent(i)'
      <3>1. i \in DOMAIN Order /\ version'[Order[i]] = version[Order[i]]
        BY <1>4, <1>5, OrderIndices
      <3>2. ReleasedAsIs(Order[i])'
        BY <1>1, <2>2, <3>1 DEF StepCoherent, ReleasedAsIs, Release
      <3>3. ASSUME NEW k \in DOMAIN Chain(i), Chain(i)[k].Op = "update-dep"
            PROVE  Written(Order[i], Chain(i)[k].Dep)'
        <4>1. PICK j \in 1..(i - 1) : Order[j] = Chain(i)[k].Dep
          BY <3>1, <3>3, ChainIsComplete DEF ChainHas
        <4>2. j \in 1..(at - 1)
          BY <1>4, <3>1, <4>1
        <4>3. QED
          BY <1>4, <1>11, <2>2, <3>3, <4>1, <4>2 DEF StepCoherent
      <3>4. QED
        BY <3>2, <3>3 DEF StepCoherent
    <2>3. QED
      BY <1>1, <1>2, <2>1, <2>2 DEF CoherenceInv
  <1>16. QED
    BY <1>2, <1>7, <1>8, <1>9, <1>10, <1>13, <1>14, <1>15

\* A publish releases what is on disk.
LEMMA ReleasesKeep == RunInv /\ Releases => RunInv'
  <1> SUFFICES ASSUME RunInv, Releases PROVE RunInv'
    OBVIOUS
  <1> USE DEF RunInv
  <1>1. PICK result \in {"Complete", "Error"} : Settles(result)
    BY DEF Releases
  <1>2. /\ Op(Now) = "publish" /\ at' = at
        /\ released' = released \cup {Release(Order[at])}
        /\ UNCHANGED <<packages, version, index, declined>>
    BY <1>1 DEF Releases, Settles
  <1>3. /\ RunShape' /\ DOMAIN act' = DOMAIN act
        /\ act'[Now] = result
        /\ \A k \in DOMAIN act : k # Now => act'[k] = act[k]
    BY <1>1, SettlesShape
  <1>4. /\ Now \in DOMAIN act /\ act[Now] = "Pending" /\ Now \in Nat /\ DOMAIN act \subseteq Nat
        /\ \A k \in DOMAIN act : k < Now => act[k] # "Pending"
    BY <1>1, BeforeNow DEF Settles
  <1>5. FilesShape' /\ BumpedOnce' /\ UntouchedInv'
    BY <1>2, <1>3 DEF FilesShape, BumpedOnce, UntouchedInv
  <1>6. NpmInv'
    BY <1>2 DEF NpmInv
  <1>7. BumpInv'
    <2>1. \A j, k \in DOMAIN act :
              k < j /\ act'[j] # "Pending" /\ Chain(at)[k].Op \in Bumps => act'[k] = "Complete"
      BY <1>1, SettlesBumps
    <2>2. \A k \in DOMAIN act :
              Chain(at)[k].Op \in Bumps /\ act'[k] # "Complete" => version[Order[at]] = Versions0[Order[at]]
      BY <1>3, <1>4 DEF BumpInv
    <2>3. QED
      BY <1>2, <1>3, <2>1, <2>2 DEF BumpInv
  <1>8. UpdatedInv'
    <2> SUFFICES ASSUME NEW j \in DOMAIN act, NEW k \in DOMAIN act,
                        k <= j, act'[j] # "Pending", Chain(at)[k].Op = "update-dep"
                 PROVE  Written(Order[at], Chain(at)[k].Dep)
      BY <1>2, <1>3 DEF UpdatedInv, Written
    <2>1. CASE j = Now
      <3>1. k # Now
        BY <1>2 DEF Op
      <3>2. act[k] # "Pending"
        BY <1>4, <2>1, <3>1
      <3>3. QED
        BY <1>4, <3>2 DEF UpdatedInv
    <2>2. CASE j # Now
      BY <1>3, <2>2 DEF UpdatedInv
    <2>3. QED
      BY <2>1, <2>2
  <1>9. InstalledInv'
    BY <1>2, <1>3 DEF InstalledInv, ResolvesIn, Op
  <1>10. CoherenceInv'
    <2>1. ReleasedAsIs(Order[at])'
      BY <1>2 DEF ReleasedAsIs, Release
    <2>2. ASSUME NEW k \in DOMAIN act, Chain(at)[k].Op = "publish", act'[k] = "Skipped"
          PROVE  declined' # {}
      BY <1>2, <1>3, <2>2 DEF CoherenceInv
    <2>3. ASSUME NEW i \in 1..(at - 1), StepCoherent(i) PROVE StepCoherent(i)'
      BY <1>2, <2>3 DEF StepCoherent, ReleasedAsIs, Release, Written
    <2>4. QED
      BY <1>2, <1>3, <2>1, <2>2, <2>3 DEF CoherenceInv
  <1>11. QED
    BY <1>3, <1>5, <1>6, <1>7, <1>8, <1>9, <1>10

LEMMA ForeignKeep == RunInv /\ ForeignReleases => RunInv'
  <1> SUFFICES ASSUME RunInv, ForeignReleases PROVE RunInv'
    OBVIOUS
  <1> USE DEF RunInv, ForeignReleases
  <1>1. released \subseteq released'
    OBVIOUS
  <1>2. Pendings' = Pendings /\ Now' = Now
    BY DEF Pendings, Now
  <1>3. RunShape'
    BY <1>2 DEF RunShape
  <1>4. FilesShape' /\ BumpInv' /\ BumpedOnce' /\ UntouchedInv' /\ UpdatedInv'
    BY DEF FilesShape, BumpInv, BumpedOnce, UntouchedInv, UpdatedInv, Written
  <1>5. NpmInv' /\ InstalledInv'
    BY <1>1 DEF NpmInv, InstalledInv, ResolvesIn
  <1>6. CoherenceInv'
    BY <1>1 DEF CoherenceInv, StepCoherent, ReleasedAsIs, Release, Written
  <1>7. QED
    BY <1>3, <1>4, <1>5, <1>6

\* With nothing pending and nothing failed, a step that no one declined is coherent.
LEMMA StepDone ==
    ASSUME RunInv, Pendings = {}, status # "Error", declined = {}
    PROVE  StepCoherent(at)
  <1> USE DEF RunInv
  <1>1. at \in DOMAIN Order /\ DOMAIN act = DOMAIN Chain(at) /\ DOMAIN act \subseteq Nat
    BY ChainIndices DEF RunShape
  <1>2. \A k \in DOMAIN act : act[k] \in {"Complete", "Skipped"}
    BY DEF RunShape, Pendings, Statuses
  <1>3. PICK k \in DOMAIN act : Chain(at)[k].Op = "publish"
    BY <1>1, ChainIsComplete DEF ChainHas
  <1>4. act[k] # "Skipped"
    BY <1>3 DEF CoherenceInv
  <1>5. ReleasedAsIs(Order[at])
    BY <1>2, <1>3, <1>4 DEF CoherenceInv
  <1>6. \A j \in DOMAIN Chain(at) : Chain(at)[j].Op = "update-dep" => Written(Order[at], Chain(at)[j].Dep)
    BY <1>1, <1>2 DEF UpdatedInv
  <1>7. QED
    BY <1>5, <1>6 DEF StepCoherent

LEMMA EndStepKeeps == RunInv /\ EndStep => RunInv'
  <1> SUFFICES ASSUME RunInv, EndStep PROVE RunInv'
    OBVIOUS
  <1> USE DEF RunInv
  <1>1. /\ status = "Running" /\ Pendings = {} /\ gate' = gate
        /\ UNCHANGED <<packages, version, released, index, declined>>
    BY DEF EndStep, packageVars, fileVars, npmVars
  <1>2. /\ at \in DOMAIN Order /\ at \in Nat /\ at \in 1..Len(Order) /\ Len(Order) \in Nat
        /\ DOMAIN Order = 1..Len(Order) /\ Len(Steps) = Len(Order)
    BY OrderIndices, StepsAre DEF RunShape
  <1>3. gate = "none"
    BY <1>1 DEF RunShape
  <1>4. FilesShape' /\ NpmInv' /\ BumpedOnce'
    BY <1>1 DEF FilesShape, NpmInv, BumpedOnce
  <1>5. CASE at < Len(Order)
    <2>1. /\ at' = at + 1 /\ status' = "Running" /\ act' = Fresh(at + 1)
      BY <1>1, <1>2, <1>5 DEF EndStep
    <2>2. at' \in DOMAIN Order /\ at + 1 \in DOMAIN Order
      BY <1>2, <1>5, <2>1
    <2>3. act' = [k \in DOMAIN Chain(at + 1) |-> "Pending"]
      BY <2>1 DEF Fresh, Chain
    <2>4. \A k \in DOMAIN act' : act'[k] = "Pending"
      BY <2>3
    <2>5. RunShape'
      BY <1>1, <1>3, <2>1, <2>2, <2>3 DEF RunShape, Statuses
    <2>6. version[Order[at + 1]] = Versions0[Order[at + 1]] /\ packages[Order[at + 1]] = Packages0[Order[at + 1]]
      <3>1. \A i \in 1..at : i \in DOMAIN Order /\ i # at + 1
        BY <1>2
      <3>2. \A i \in 1..at : Order[i] # Order[at + 1]
        BY <2>2, <3>1, OrderIndices
      <3>3. QED
        BY <2>2, <3>2, OrderIndices DEF UntouchedInv
    <2>7. BumpInv'
      BY <1>1, <2>1, <2>4, <2>6 DEF BumpInv
    <2>8. UntouchedInv'
      <3>1. \A m \in Modules : (\A i \in 1..(at + 1) : Order[i] # m) => \A i \in 1..at : Order[i] # m
        BY <1>2
      <3>2. QED
        BY <1>1, <2>1, <2>6, <3>1 DEF UntouchedInv
    <2>9. UpdatedInv' /\ InstalledInv'
      BY <2>4 DEF UpdatedInv, InstalledInv
    <2>10. CoherenceInv'
      <3>1. declined = {} => \A i \in 1..at : StepCoherent(i)
        <4>1. declined = {} => StepCoherent(at)
          BY <1>1, StepDone
        <4>2. QED
          BY <1>2, <4>1 DEF CoherenceInv
      <3>2. \A i \in 1..at : StepCoherent(i) => StepCoherent(i)'
        BY <1>1 DEF StepCoherent, ReleasedAsIs, Release, Written
      <3>3. (at + 1) - 1 = at
        BY <1>2
      <3>4. QED
        BY <1>1, <2>1, <2>4, <3>1, <3>2, <3>3 DEF CoherenceInv
    <2>11. QED
      BY <1>4, <2>5, <2>7, <2>8, <2>9, <2>10
  <1>6. CASE ~(at < Len(Order))
    <2>1. status' = "Complete" /\ at' = at /\ act' = act /\ at = Len(Order)
      BY <1>1, <1>2, <1>6 DEF EndStep
    <2>2. Pendings' = {}
      BY <1>1, <2>1 DEF Pendings
    <2>3. RunShape'
      BY <1>1, <1>3, <2>1, <2>2 DEF RunShape
    <2>4. BumpInv' /\ UntouchedInv' /\ UpdatedInv' /\ InstalledInv'
      BY <1>1, <2>1 DEF BumpInv, UntouchedInv, UpdatedInv, Written, InstalledInv
    <2>5. CoherenceInv'
      BY <1>1, <2>1 DEF CoherenceInv, StepCoherent, ReleasedAsIs, Release, Written
    <2>6. QED
      BY <1>4, <2>3, <2>4, <2>5
  <1>7. QED
    BY <1>5, <1>6

LEMMA RetryKeeps == RunInv /\ Retry => RunInv'
  <1> SUFFICES ASSUME RunInv, Retry PROVE RunInv'
    OBVIOUS
  <1> USE DEF RunInv
  <1>1. /\ status = "Error" /\ status' = "Running" /\ UNCHANGED <<at, gate, declined>>
        /\ UNCHANGED <<packages, version, released, index>>
        /\ act' = [k \in DOMAIN act |-> IF act[k] = "Complete" THEN "Complete" ELSE "Pending"]
    BY DEF Retry, Retried, packageVars, fileVars, npmVars
  <1>2. /\ DOMAIN act' = DOMAIN act
        /\ \A k \in DOMAIN act : act'[k] \in {"Complete", "Pending"} /\ (act'[k] = "Complete" <=> act[k] = "Complete")
    BY <1>1
  <1>3. act' \in [DOMAIN Chain(at) -> Statuses]
    BY <1>1 DEF RunShape, Statuses
  <1>4. RunShape'
    BY <1>1, <1>2, <1>3 DEF RunShape
  <1>5. FilesShape' /\ NpmInv' /\ BumpedOnce' /\ UntouchedInv'
    BY <1>1, <1>2 DEF FilesShape, NpmInv, BumpedOnce, UntouchedInv
  <1>6. BumpInv'
    BY <1>1, <1>2 DEF BumpInv
  <1>7. UpdatedInv' /\ InstalledInv'
    BY <1>1, <1>2 DEF UpdatedInv, Written, InstalledInv
  <1>8. CoherenceInv'
    BY <1>1, <1>2 DEF CoherenceInv, StepCoherent, ReleasedAsIs, Release, Written
  <1>9. QED
    BY <1>4, <1>5, <1>6, <1>7, <1>8

LEMMA RunStep == RunInv /\ [Next]_vars => RunInv'
  <1> SUFFICES ASSUME RunInv, [Next]_vars PROVE RunInv'
    OBVIOUS
  <1>1. RunShape
    BY DEF RunInv
  <1>2. QED
    BY <1>1, StepCases, WaitsKeep, SettlesOnlyKeeps, UpdatesKeep, PatchesKeep, ReleasesKeep,
       ForeignKeep, EndStepKeeps, RetryKeeps

-----------------------------------------------------------------------------
(* The theorems. *)

\* What holds between the steps of a run, for every plan and every npm.
THEOREM RunInvariant == Spec => []RunInv
  BY InitRun, RunStep, PTL DEF Spec

\* However often a run fails and is retried, no module of it is bumped twice
\* (VersionPatch: npm version patch, then the retry of the publish).
THEOREM BumpedOnceHolds == Spec => []BumpedOnce
  <1>1. RunInv => BumpedOnce
    BY DEF RunInv
  <1>2. QED
    BY <1>1, RunInvariant, PTL

\* A run that ends complete, with no publish declined, released each module of
\* the plan as it is on disk, and each names its producers' new versions.
THEOREM CascadeCoherentHolds == Spec => []CascadeCoherent
  <1>1. RunInv => CascadeCoherent
    <2> SUFFICES ASSUME RunInv, status = "Complete", declined = {}, NEW i \in DOMAIN Steps
                 PROVE  /\ ReleasedAsIs(Order[i])
                        /\ \A j \in 1..(i - 1) :
                              (\E e \in Edges : e.From = Order[i] /\ e.To = Order[j]) =>
                                  Written(Order[i], Order[j])
      <3>1. \A i \in DOMAIN Steps : Steps[i].Target = Order[i]
        BY StepsAre
      <3>2. \A i \in DOMAIN Steps : \A j \in 1..(i - 1) : Steps[j].Target = Order[j]
        BY StepsAre, OrderIndices
      <3>3. QED
        BY <3>1, <3>2 DEF CascadeCoherent, Written
    <2>1. i \in DOMAIN Order /\ i \in 1..at /\ at \in Nat /\ Pendings = {}
      BY OrderIndices, StepsAre DEF RunInv, RunShape
    <2>2. StepCoherent(i)
      <3>1. CASE i = at
        BY <2>1, <3>1, StepDone
      <3>2. CASE i # at
        BY <2>1, <3>2 DEF RunInv, CoherenceInv
      <3>3. QED
        BY <3>1, <3>2
    <2>3. ASSUME NEW j \in 1..(i - 1), NEW e \in Edges, e.From = Order[i], e.To = Order[j]
          PROVE  Written(Order[i], Order[j])
      <3>1. PICK k \in DOMAIN Chain(i) : Chain(i)[k] = Graph!Act("update-dep", Order[j])
        BY <2>1, <2>3, ChainIsComplete DEF ChainHas
      <3>2. Chain(i)[k].Op = "update-dep" /\ Chain(i)[k].Dep = Order[j]
        BY <3>1 DEF Graph!Act
      <3>3. QED
        BY <2>2, <3>2 DEF StepCoherent
    <2>4. QED
      BY <2>2, <2>3 DEF StepCoherent
  <1>2. QED
    BY <1>1, RunInvariant, PTL

\* What a publish releases was installed since its ranges were written, or is
\* what the module declared at first.
LEMMA ReleaseResolves ==
    ASSUME RunInv, StartsResolved, Ready, Op(Now) = "publish"
    PROVE  ResolvesIn(released, packages[Order[at]])
  <1> USE DEF RunInv
  <1>1. at \in DOMAIN Order /\ Order[at] \in Modules
    BY OrderIndices DEF RunShape
  <1>2. /\ Now \in DOMAIN act /\ DOMAIN act = DOMAIN Chain(at)
        /\ \A k \in DOMAIN act : k < Now =>
              \/ act[k] = "Complete"
              \/ act[k] = "Skipped" /\ Chain(at)[k].Op \in {"update-dep", "publish"}
    BY BeforeNow
  <1>3. CASE \A k \in DOMAIN act : Chain(at)[k].Op # "update-dep"
    <2>1. packages[Order[at]] = Packages0[Order[at]]
      BY <1>3 DEF UntouchedInv
    <2>2. QED
      BY <1>1, <2>1 DEF StartsResolved, NpmInv, ResolvesIn
  <1>4. CASE \E k \in DOMAIN act : Chain(at)[k].Op = "update-dep"
    <2>1. PICK k \in DOMAIN act : Chain(at)[k].Op = "install"
      BY <1>1, <1>2, <1>4, ChainIsComplete DEF ChainHas
    <2>2. k < Now
      BY <1>1, <1>2, <2>1, ChainIsOrdered DEF ChainOrder, Op
    <2>3. act[k] = "Complete"
      BY <1>2, <2>1, <2>2
    <2>4. QED
      BY <2>1, <2>3 DEF InstalledInv
  <1>5. QED
    BY <1>3, <1>4

\* If npm could resolve every range when the run began, it can resolve those of
\* every release, whatever was declined, failed or not served yet meanwhile.
THEOREM ReleasesResolveHolds ==
    ASSUME StartsResolved
    PROVE  Spec => []ReleasesResolve
  <1>1. Init => ReleasesResolve
    BY DEF Init, ReleasesResolve, StartsResolved
  <1>2. RunInv /\ ReleasesResolve /\ [Next]_vars => ReleasesResolve'
    <2> SUFFICES ASSUME RunInv, ReleasesResolve, [Next]_vars PROVE ReleasesResolve'
      OBVIOUS
    <2>1. \/ released' = released
          \/ Releases
          \/ ForeignReleases
      BY StepCases DEF RunInv, Waits, SettlesOnly, Updates, Patches, EndStep, Retry, packageVars, npmVars
    <2>2. CASE released' = released
      BY <2>2 DEF ReleasesResolve
    <2>3. ASSUME NEW r, released' = released \cup {r}, ResolvesIn(released, r.Deps)
          PROVE  ReleasesResolve'
      BY <2>3 DEF ReleasesResolve, ResolvesIn
    <2>4. CASE Releases
      <3>1. Ready /\ Op(Now) = "publish" /\ released' = released \cup {Release(Order[at])}
        BY <2>4 DEF Releases, Settles
      <3>2. Release(Order[at]).Deps = packages[Order[at]]
        BY DEF Release
      <3>3. QED
        BY <2>3, <3>1, <3>2, ReleaseResolves
    <2>5. CASE ForeignReleases
      <3>1. PICK m \in Elsewhere : released' = released \cup {Foreign(m)}
        BY <2>5 DEF ForeignReleases
      <3>2. Foreign(m).Deps = Packages0[m] /\ m \in Modules
        BY ElsewhereAssumption DEF Foreign
      <3>3. ResolvesIn(released, Packages0[m])
        BY <3>2 DEF StartsResolved, ResolvesIn, RunInv, NpmInv
      <3>4. QED
        BY <2>3, <3>1, <3>2, <3>3
    <2>6. QED
      BY <2>1, <2>2, <2>4, <2>5
  <1>3. QED
    BY <1>1, <1>2, RunInvariant, PTL DEF Spec
=============================================================================
