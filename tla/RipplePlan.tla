----------------------------- MODULE RipplePlan -----------------------------
(***************************************************************************)
(* Planning a bulk operation: source/bulk/Planners.js (buildPlan) with the *)
(* graph it reads (GraphSource.js, DependencyGraph.js) and the two         *)
(* planners (Planner-Ripple.js, Planner-Bulk.js).                          *)
(*                                                                         *)
(* A ripple plan is computed in two loops: impactOf walks the dependents   *)
(* of the roots, topoOrder emits the cone producers first and appends what *)
(* a cycle holds back.  Each turn of a loop is an action, so that what the *)
(* loops maintain can be stated; nothing else runs between two turns.      *)
(*                                                                         *)
(* Module names are natural numbers in the order localeCompare gives them. *)
(***************************************************************************)
EXTENDS Integers, Sequences, FiniteSets

CONSTANTS
    Modules,   \* names in the manifest
    Outside,   \* names of packages that are not in the manifest
    Ecosystem, \* names for which isEcosystemDependency answers true
    Ranges,    \* dependency ranges
    LocalRanges \* the ranges that start with file: or link:

Names == Modules \cup Outside
Sections == {"dependencies", "devDependencies"}
Declared == [Section : Sections, Dep : Names, Range : Ranges]
Edge == [From : Modules, To : Modules, Section : Sections, LocalLink : BOOLEAN]

ASSUME PlanAssumption ==
    /\ Modules \subseteq Nat
    /\ IsFiniteSet(Modules)
    /\ Modules \cap Outside = {}

VARIABLES
    packages, \* the dependencies each module's package.json declares
    phase,    \* "idle", then where the planner is
    edges,    \* DependencyGraph.edges
    roots,    \* pRoots
    visited,  \* impactOf: tmpVisited, in the end the cone
    queue,    \* impactOf: tmpQueue
    degree,   \* topoOrder: tmpInDegree
    ready,    \* topoOrder: tmpReady
    emitted,  \* topoOrder: tmpEmitted
    order     \* topoOrder: tmpOrder; of a flat plan, its targets

graphVars == <<edges, roots, visited, queue>>
orderVars == <<degree, ready, emitted, order>>
planVars  == <<phase, edges, roots, visited, queue, degree, ready, emitted, order>>

-----------------------------------------------------------------------------
(* GraphSource.build: an edge for each declared dependency on another       *)
(* manifest module that counts as in-ecosystem, one per section.            *)
BuildGraph(pkgs) ==
    {e \in Edge :
        /\ e.To \in Ecosystem
        /\ \E d \in pkgs[e.From] : /\ d.Dep = e.To
                                   /\ d.Section = e.Section
                                   /\ e.LocalLink = (d.Range \in LocalRanges)}

dependenciesOf(E, m) == {e.To : e \in {f \in E : f.From = m}}
dependentsOf(E, m)   == {e.From : e \in {f \in E : f.To = m}}

(* defaultEdgeFilter: workspace links do not propagate published versions.  *)
Live(E) == {e \in E : ~e.LocalLink}

(* The edges through which m still waits for a member of S.                 *)
Waits(m, S) == {e \in Live(edges) : e.From = m /\ e.To \in S}

First(S) == CHOOSE m \in S : \A n \in S : m <= n

-----------------------------------------------------------------------------
Init ==
    /\ packages = [m \in Modules |-> {}]
    /\ phase = "idle"
    /\ edges = {}
    /\ roots = {}
    /\ visited = {}
    /\ queue = {}
    /\ degree = [m \in {} |-> 0]
    /\ ready = {}
    /\ emitted = {}
    /\ order = <<>>

(* Someone edits a package.json; planning itself is one synchronous call.   *)
Declare(m, d) ==
    /\ phase = "idle"
    /\ \A c \in packages[m] : <<c.Section, c.Dep>> # <<d.Section, d.Dep>>
    /\ packages' = [packages EXCEPT ![m] = @ \cup {d}]
    /\ UNCHANGED planVars

(* buildPlan for a ripple: roots, or else targets; unknown names and an     *)
(* empty request throw.                                                     *)
RippleRoots(req) == IF req.Roots # {} THEN req.Roots ELSE req.Targets

StartRipple(req) ==
    /\ phase = "idle"
    /\ RippleRoots(req) # {}
    /\ RippleRoots(req) \subseteq Modules
    /\ phase' = "impact"
    /\ edges' = BuildGraph(packages)
    /\ roots' = RippleRoots(req)
    /\ visited' = RippleRoots(req)
    /\ queue' = RippleRoots(req)
    /\ UNCHANGED <<packages, orderVars>>

RefuseRipple(req) ==
    /\ phase = "idle"
    /\ RippleRoots(req) = {} \/ ~(RippleRoots(req) \subseteq Modules)
    /\ phase' = "refused"
    /\ UNCHANGED <<packages, graphVars, orderVars>>

\* Mutant: workspace links are followed too.
VisitLinks ==
    /\ phase = "impact"
    /\ \E m \in queue :
         LET fresh == dependentsOf(edges, m) \ visited IN
         /\ visited' = visited \cup fresh
         /\ queue' = (queue \ {m}) \cup fresh
    /\ UNCHANGED <<packages, phase, edges, roots, orderVars>>

(* One turn of impactOf: shift a name, visit the dependents not yet seen.   *)
(* The set it computes does not depend on the order of the queue.           *)
Visit ==
    /\ phase = "impact"
    /\ \E m \in queue :
         LET fresh == dependentsOf(Live(edges), m) \ visited IN
         /\ visited' = visited \cup fresh
         /\ queue' = (queue \ {m}) \cup fresh
    /\ UNCHANGED <<packages, phase, edges, roots, orderVars>>

\* Mutant: dependencies outside the cone are counted.
StartOrderAll ==
    /\ phase = "impact"
    /\ queue = {}
    /\ phase' = "order"
    /\ degree' = [m \in visited |-> Cardinality(Waits(m, Modules))]
    /\ ready' = {m \in visited : Cardinality(Waits(m, Modules)) = 0}
    /\ UNCHANGED <<packages, graphVars, emitted, order>>

(* topoOrder: count each member's dependencies inside the cone.             *)
StartOrder ==
    /\ phase = "impact"
    /\ queue = {}
    /\ phase' = "order"
    /\ degree' = [m \in visited |-> Cardinality(Waits(m, visited))]
    /\ ready' = {m \in visited : Cardinality(Waits(m, visited)) = 0}
    /\ UNCHANGED <<packages, graphVars, emitted, order>>

\* Mutant: one producer is enough to release a dependent.
EmitEager ==
    /\ phase = "order"
    /\ ready # {}
    /\ LET m == First(ready) IN
       /\ order' = Append(order, m)
       /\ emitted' = emitted \cup {m}
       /\ degree' = [n \in visited |-> degree[n] - Cardinality(Waits(n, {m}))]
       /\ ready' = (ready \ {m}) \cup {n \in visited : Waits(n, {m}) # {}}
    /\ UNCHANGED <<packages, phase, graphVars>>

(* One turn of its loop: emit the first ready name, relax its dependents.   *)
Emit ==
    /\ phase = "order"
    /\ ready # {}
    /\ LET m == First(ready) IN
       /\ order' = Append(order, m)
       /\ emitted' = emitted \cup {m}
       /\ degree' = [n \in visited |-> degree[n] - Cardinality(Waits(n, {m}))]
       /\ ready' = (ready \ {m}) \cup
                     {n \in visited : Waits(n, {m}) # {} /\ degree'[n] = 0}
    /\ UNCHANGED <<packages, phase, graphVars>>

(* The cycle fallback: what was never emitted is appended in name order.    *)
Leftover == {m \in visited : \A i \in DOMAIN order : order[i] # m}

AppendLeftover ==
    /\ phase = "order"
    /\ ready = {}
    /\ Leftover # {}
    /\ order' = Append(order, First(Leftover))
    /\ UNCHANGED <<packages, phase, graphVars, degree, ready, emitted>>

FinishOrder ==
    /\ phase = "order"
    /\ ready = {}
    /\ Leftover = {}
    /\ phase' = "planned"
    /\ UNCHANGED <<packages, graphVars, orderVars>>

(* buildPlan for a flat operation: one step per target, in request order.   *)
(* The first request field that is not empty names the targets.             *)
FlatPlan(req) ==
    /\ phase = "idle"
    /\ IF req # <<>> /\ \A i \in DOMAIN req : req[i] \in Modules
       THEN phase' = "flat" /\ order' = req
       ELSE phase' = "refused" /\ order' = order
    /\ UNCHANGED <<packages, graphVars, degree, ready, emitted>>

Planning == Visit \/ StartOrder \/ Emit \/ AppendLeftover \/ FinishOrder

-----------------------------------------------------------------------------
(* planRipple: the action chain of the i-th step.                           *)
Act(op, dep) == [Op |-> op, Dep |-> dep]
NoDep == 0

(* The members of S in name order: the i-th has i - 1 members before it.    *)
Sorted(S) ==
    [i \in 1..Cardinality(S) |-> CHOOSE m \in S : Cardinality({n \in S : n < m}) = i - 1]

\* Mutant: devDependencies are not rewritten.
UpdateDepsOnly(i) ==
    Sorted({e.To : e \in {f \in edges : f.From = order[i] /\ f.Section = "dependencies"}}
               \cap {order[j] : j \in 1..(i - 1)})

(* dependenciesOf(name) that come earlier in the order, one per section;    *)
(* workspace links are not filtered here.                                   *)
UpdateDeps(i) ==
    LET earlier == {order[j] : j \in 1..(i - 1)}
        in(s) == {e.To : e \in {f \in edges : f.From = order[i] /\ f.Section = s}}
    IN  Sorted(in("dependencies") \cap earlier) \o
        Sorted(in("devDependencies") \cap earlier)

StepActions(i, config) ==
    LET deps == UpdateDeps(i)
        update == [k \in DOMAIN deps |-> Act("update-dep", deps[k])]
        settle == <<Act("install", NoDep)>> \o
                  (IF config.RunTest THEN <<Act("test", NoDep)>> ELSE <<>>) \o
                  <<Act("commit", NoDep)>>
    IN  <<Act("preflight-clean-tree", NoDep)>> \o update \o
        (IF deps = <<>> THEN <<>> ELSE settle) \o
        <<Act(IF order[i] \in roots THEN "bump-if-needed" ELSE "bump", NoDep),
          Act("publish", NoDep)>> \o
        (IF config.WaitForIndex THEN <<Act("wait-for-index", NoDep)>> ELSE <<>>) \o
        <<Act("commit-final", NoDep)>> \o
        (IF config.RunPush THEN <<Act("push", NoDep)>> ELSE <<>>)

RippleSteps(config) ==
    [i \in DOMAIN order |->
        [Target |-> order[i],
         Kind |-> IF order[i] \in roots THEN "producer" ELSE "consumer",
         Actions |-> StepActions(i, config)]]

-----------------------------------------------------------------------------
(* findCycles: Tarjan's depth-first search.  Search[<<m, todo, s>>] is the  *)
(* state after strongConnect(m) has handled the dependencies in todo and,   *)
(* when m is the root of its component, popped it.  An index of 0 stands    *)
(* for a name the search has not reached.                                   *)
SearchState == [index : Nat, indices : [Modules -> Nat], low : [Modules -> Nat],
                stack : Seq(Modules), cyclic : SUBSET Modules]

Push(m, s) ==
    [s EXCEPT !.index = @ + 1, !.indices[m] = s.index + 1, !.low[m] = s.index + 1,
              !.stack = Append(@, m)]

OnStack(m, s) == \E i \in DOMAIN s.stack : s.stack[i] = m
Least(a, b) == IF a <= b THEN a ELSE b

\* Mutant: a module that depends on itself is no cycle.
PopComponentNoLoop(m, s) ==
    LET at == CHOOSE i \in DOMAIN s.stack : s.stack[i] = m
        component == {s.stack[i] : i \in at..Len(s.stack)}
    IN  [s EXCEPT !.stack = SubSeq(@, 1, at - 1),
                  !.cyclic = IF Cardinality(component) > 1 THEN @ \cup component ELSE @]

(* Pop the component of its root m: more than one member, or a dependency   *)
(* of the only member on itself, makes it a cycle.                          *)
PopComponent(m, s) ==
    LET at == CHOOSE i \in DOMAIN s.stack : s.stack[i] = m
        component == {s.stack[i] : i \in at..Len(s.stack)}
    IN  [s EXCEPT !.stack = SubSeq(@, 1, at - 1),
                  !.cyclic = IF Cardinality(component) > 1 \/ m \in dependenciesOf(edges, m)
                             THEN @ \cup component ELSE @]

Search[v \in Modules \X (SUBSET Modules) \X SearchState] ==
    LET m == v[1]
        todo == v[2]
        s == v[3]
    IN  IF todo = {}
        THEN IF s.low[m] = s.indices[m] THEN PopComponent(m, s) ELSE s
        ELSE LET n == First(todo)
                 below == IF s.indices[n] = 0
                          THEN Search[<<n, dependenciesOf(Live(edges), n), Push(n, s)>>]
                          ELSE s
                 low == IF s.indices[n] = 0 THEN Least(below.low[m], below.low[n])
                        ELSE IF OnStack(n, s) THEN Least(s.low[m], s.indices[n])
                        ELSE s.low[m]
             IN  Search[<<m, todo \ {n}, [below EXCEPT !.low[m] = low]>>]

SearchAll[v \in (SUBSET Modules) \X SearchState] ==
    IF v[1] = {} THEN v[2]
    ELSE LET m == First(v[1])
             s == v[2]
         IN  SearchAll[<<v[1] \ {m},
                         IF s.indices[m] # 0 THEN s
                         ELSE Search[<<m, dependenciesOf(Live(edges), m), Push(m, s)>>]>>]

findCycles ==
    SearchAll[<<Modules,
                [index |-> 0, indices |-> [m \in Modules |-> 0], low |-> [m \in Modules |-> 0],
                 stack |-> <<>>, cyclic |-> {}]>>].cyclic

-----------------------------------------------------------------------------
CONSTANTS
    Requests,     \* bodies of a ripple request: [Roots, Targets], sets of names
    FlatRequests, \* target lists of flat requests
    MaxDeclared   \* bound: dependencies declared in all package.json files

ASSUME FlatAssumption == FlatRequests \subseteq Seq(Names)

NumDeclared == Cardinality({p \in Modules \X Declared : p[2] \in packages[p[1]]})

Edit ==
    /\ NumDeclared < MaxDeclared
    /\ \E m \in Modules, d \in Declared : Declare(m, d)

vars == <<packages, planVars>>

Next ==
    \/ Edit
    \/ \E req \in Requests : StartRipple(req) \/ RefuseRipple(req)
    \/ \E req \in FlatRequests : FlatPlan(req)
    \/ Planning

Spec == Init /\ [][Next]_vars /\ WF_vars(Planning)

-----------------------------------------------------------------------------
(* Properties *)

(* The planner's variables hold what DependencyGraph keeps in them.         *)
TypeOK ==
    /\ packages \in [Modules -> SUBSET Declared]
    /\ phase \in {"idle", "impact", "order", "planned", "flat", "refused"}
    /\ edges \subseteq Edge
    /\ roots \subseteq Modules
    /\ visited \subseteq Modules
    /\ queue \subseteq Modules
    /\ emitted \subseteq Modules
    /\ ready \subseteq Modules
    /\ DOMAIN degree \subseteq Modules
    /\ \A m \in DOMAIN degree : degree[m] \in Nat
    /\ order \in Seq(Modules)

(* The cone a ripple publishes is the least set that holds the roots and    *)
(* every dependent of a member through a published (not workspace) range:   *)
(* no consumer is left behind, none is published for nothing.               *)
ClosedUnderDependents(S) == \A e \in Live(edges) : e.To \in S => e.From \in S

ConeExact ==
    phase \in {"order", "planned"} =>
        /\ roots \subseteq visited
        /\ ClosedUnderDependents(visited)
        /\ \A S \in SUBSET Modules :
              roots \subseteq S /\ ClosedUnderDependents(S) => visited \subseteq S

(* Producers first: a module the loop emitted comes after every member of   *)
(* the cone it depends on.                                                  *)
ProducersFirst ==
    \A i \in DOMAIN order :
        phase # "flat" /\ order[i] \in emitted =>
            \A e \in Live(edges) :
                e.From = order[i] /\ e.To \in visited => \E j \in 1..(i - 1) : order[j] = e.To

(* The plan has one step for each module of the cone: a cycle loses none    *)
(* and parallel edges repeat none.                                          *)
OneStepEach ==
    /\ phase \in {"order", "planned"} =>
           \A i, j \in DOMAIN order : order[i] = order[j] => i = j
    /\ phase = "planned" => {order[i] : i \in DOMAIN order} = visited

(* What the loop could not emit is what a cycle holds back: the largest     *)
(* part of the cone each of whose members depends on another of them.       *)
HeldBack(S) ==
    UNION {T \in SUBSET S : \A m \in T : Waits(m, T) # {}}

LeftoverExact == phase = "planned" => visited \ emitted = HeldBack(visited)

(* The cycles the command line warns of are the modules that reach          *)
(* themselves, and those that link to themselves.                           *)
Dependencies(S) == UNION {dependenciesOf(Live(edges), m) : m \in S}

Reaches(m, n) ==
    \A S \in SUBSET Modules : Dependencies({m} \cup S) \subseteq S => n \in S

CyclesExact ==
    phase = "impact" /\ queue = roots =>
        findCycles = {m \in Modules : Reaches(m, m) \/ m \in dependenciesOf(edges, m)}

(* A plan never publishes a module before its ranges on the producers of    *)
(* the cone have been rewritten, installed and committed; only a module     *)
(* that a cycle holds back keeps a range the plan does not refresh.         *)
Configs == [RunTest : BOOLEAN, WaitForIndex : BOOLEAN, RunPush : BOOLEAN]

Before(actions, op1, op2) ==
    \A j \in DOMAIN actions : actions[j].Op = op2 =>
        \E i \in 1..(j - 1) : actions[i].Op = op1

RefreshedFirst(step, m) ==
    \A e \in Live(edges) : e.From = m /\ e.To \in visited =>
        \E i \in DOMAIN step.Actions :
            /\ step.Actions[i] = Act("update-dep", e.To)
            /\ \A j \in 1..i : step.Actions[j].Op \notin {"install", "commit", "publish"}
            /\ Before(step.Actions, "install", "publish")
            /\ Before(step.Actions, "commit", "publish")

PublishRefreshed ==
    phase = "planned" =>
        \A config \in Configs, i \in DOMAIN order :
            LET step == RippleSteps(config)[i] IN
            /\ order[i] \in emitted => RefreshedFirst(step, order[i])
            /\ \E op \in {"bump", "bump-if-needed"} : Before(step.Actions, op, "publish")

(* What the two loops maintain.  Walking: the roots are visited, everything  *)
(* visited must be, and only the dependents of queued names are missing.     *)
WalkInv ==
    phase = "impact" =>
        /\ roots \subseteq visited
        /\ queue \subseteq visited
        /\ \A e \in Live(edges) : e.To \in visited \ queue => e.From \in visited
        /\ \A S \in SUBSET Modules :
              roots \subseteq S /\ ClosedUnderDependents(S) => visited \subseteq S

(* Ordering: a counter is the number of edges into what is not emitted yet,  *)
(* ready is where it is 0, and no part of the cone that only waits for       *)
(* itself is ever touched.                                                   *)
CountInv ==
    phase = "order" =>
        /\ DOMAIN degree = visited
        /\ \A m \in visited : degree[m] = Cardinality(Waits(m, visited \ emitted))
        /\ \A m \in emitted : degree[m] = 0
        /\ ready = {m \in visited \ emitted : degree[m] = 0}

EmitInv ==
    /\ emitted \subseteq visited
    /\ phase \in {"idle", "impact", "refused"} => emitted = {} /\ order = <<>>
    /\ phase = "flat" => emitted = {}
    /\ phase # "flat" => \A i \in DOMAIN order : order[i] \in visited
    /\ phase = "order" /\ ready # {} => \A i \in DOMAIN order : order[i] \in emitted
    /\ \A m \in emitted : \E i \in DOMAIN order : order[i] = m
    /\ phase = "planned" => ready = {}
    /\ phase = "planned" => \A m \in visited \ emitted : Waits(m, visited \ emitted) # {}
    /\ \A T \in SUBSET visited : (\A m \in T : Waits(m, T) # {}) => T \cap emitted = {}

PlanInv == TypeOK /\ WalkInv /\ CountInv /\ ConeExact /\ EmitInv /\ ProducersFirst /\ OneStepEach

(* The comment on the fallback: any module the loop never emitted is in a   *)
(* cycle (of the cone).                                                     *)
LeftoverIsCyclic == phase = "planned" => visited \ emitted \subseteq findCycles

(* Planning ends: neither loop waits for something that never comes.        *)
PlanEnds == phase = "impact" ~> phase = "planned"
=============================================================================
