-------------------------- MODULE RipplePlanProofs --------------------------
(* PlanInv is inductive, and the safety properties of RipplePlan follow.    *)
EXTENDS RipplePlan, FiniteSetTheorems, SequenceTheorems, TLAPS

LEMMA FirstIsMember ==
    ASSUME NEW S, S \subseteq Modules, S # {}
    PROVE  First(S) \in S
  <1> DEFINE upTo(m) == {n \in S : n <= m}
             T == {upTo(m) : m \in S}
  <1>1. S \subseteq Nat /\ IsFiniteSet(S)
    BY PlanAssumption, FS_Subset
  <1>2. \A U \in SUBSET S : IsFiniteSet(U)
    BY <1>1, FS_Subset
  <1>3. T \subseteq FiniteSubsetsOf(S) /\ T # {}
    BY <1>2 DEF FiniteSubsetsOf
  <1> HIDE DEF T
  <1>4. PICK U \in T : \A V \in T : ~ (<<V, U>> \in StrictSubsetOrdering(S))
    BY <1>3, FS_StrictSubsetOrderingWellFounded, WFMin
  <1> USE DEF T
  <1>5. PICK m \in S : U = upTo(m)
    OBVIOUS
  <1>6. ASSUME NEW n \in S, n < m
        PROVE  FALSE
    <2>1. upTo(n) \in T /\ upTo(n) \in SUBSET S /\ U \in SUBSET S
      OBVIOUS
    <2>2. upTo(n) \subseteq U /\ m \in U /\ m \notin upTo(n)
      BY <1>1, <1>5, <1>6
    <2>3. QED
      BY <1>4, <2>1, <2>2 DEF StrictSubsetOrdering
  <1>7. \A n \in S : m <= n
    BY <1>1, <1>6
  <1>8. QED
    BY <1>7 DEF First

LEMMA EdgesFinite == IsFiniteSet(Edge)
  <1> DEFINE Tuples == (Modules \X Modules) \X (Sections \X BOOLEAN)
             f == [e \in Edge |-> <<<<e.From, e.To>>, <<e.Section, e.LocalLink>>>>]
  <1>1. IsFiniteSet(Sections) /\ IsFiniteSet(BOOLEAN)
    <2>1. Sections = {"dependencies"} \cup {"devDependencies"} /\ BOOLEAN = {TRUE} \cup {FALSE}
      BY DEF Sections
    <2>2. \A x : IsFiniteSet({x})
      BY FS_Singleton
    <2>3. IsFiniteSet({"dependencies"} \cup {"devDependencies"})
      BY <2>2, FS_Union
    <2>4. IsFiniteSet({TRUE} \cup {FALSE})
      BY <2>2, FS_Union
    <2>5. QED
      BY <2>1, <2>3, <2>4
  <1>2. IsFiniteSet(Modules \X Modules) /\ IsFiniteSet(Sections \X BOOLEAN)
    BY <1>1, FS_Product, PlanAssumption
  <1>3. IsFiniteSet(Tuples)
    BY <1>2, FS_Product
  <1>4. f \in [Edge -> Tuples]
    BY DEF Edge
  <1>5. ASSUME NEW a \in Edge, NEW b \in Edge, f[a] = f[b]
        PROVE  a = b
    <2>1. /\ a.From = b.From /\ a.To = b.To
          /\ a.Section = b.Section /\ a.LocalLink = b.LocalLink
      BY <1>5
    <2>2. /\ a = [From |-> a.From, To |-> a.To, Section |-> a.Section, LocalLink |-> a.LocalLink]
          /\ b = [From |-> b.From, To |-> b.To, Section |-> b.Section, LocalLink |-> b.LocalLink]
      BY DEF Edge
    <2>3. QED
      BY <2>1, <2>2
  <1> HIDE DEF f
  <1>6. f \in Injection(Edge, Tuples)
    BY <1>4, <1>5 DEF Injection, IsInjective
  <1>7. QED
    BY <1>3, <1>6, FS_Injection

\* What a module waits for is finite, and what it waits for in two disjoint
\* sets adds up: the arithmetic of topoOrder's counters.
LEMMA WaitsCount ==
    ASSUME edges \subseteq Edge, NEW m, NEW S, NEW x \in S
    PROVE  /\ Cardinality(Waits(m, S)) \in Nat
           /\ Cardinality(Waits(m, {x})) \in Nat
           /\ Cardinality(Waits(m, S \ {x})) = Cardinality(Waits(m, S)) - Cardinality(Waits(m, {x}))
  <1>1. /\ IsFiniteSet(Waits(m, S))
        /\ IsFiniteSet(Waits(m, {x}))
        /\ IsFiniteSet(Waits(m, S \ {x}))
    <2>1. \A T : Waits(m, T) \in SUBSET Edge
      BY DEF Waits, Live
    <2>2. QED
      BY <2>1, EdgesFinite, FS_Subset
  <1>2. Waits(m, S \ {x}) = Waits(m, S) \ Waits(m, {x})
    BY DEF Waits
  <1>3. Waits(m, S) \cap Waits(m, {x}) = Waits(m, {x})
    BY DEF Waits
  <1>4. Cardinality(Waits(m, S \ {x})) = Cardinality(Waits(m, S)) - Cardinality(Waits(m, {x}))
    BY <1>1, <1>2, <1>3, FS_Difference
  <1>5. QED
    BY <1>1, <1>4, FS_CardinalityType

LEMMA WaitsNone ==
    ASSUME edges \subseteq Edge, NEW m, NEW S
    PROVE  Cardinality(Waits(m, S)) \in Nat /\ (Cardinality(Waits(m, S)) = 0 <=> Waits(m, S) = {})
  <1>1. Waits(m, S) \in SUBSET Edge
    BY DEF Waits, Live
  <1>2. QED
    BY <1>1, EdgesFinite, FS_Subset, FS_CardinalityType, FS_EmptySet


LEMMA StepCases ==
    ASSUME Next
    PROVE  \/ \E m \in Modules, d \in Declared : Declare(m, d)
           \/ \E req \in Requests : StartRipple(req)
           \/ \E req \in Requests : RefuseRipple(req)
           \/ \E req \in FlatRequests : FlatPlan(req)
           \/ Visit
           \/ StartOrder
           \/ Emit
           \/ AppendLeftover
           \/ FinishOrder
  BY DEF Next, Edit, Planning

-----------------------------------------------------------------------------
(* Types *)

LEMMA InitType == Init => TypeOK
  BY DEF Init, TypeOK

LEMMA GraphIsTyped == BuildGraph(packages) \subseteq Edge
  BY DEF BuildGraph

LEMMA VisitType == TypeOK /\ Visit => TypeOK'
  <1> SUFFICES ASSUME TypeOK, Visit PROVE TypeOK'
    OBVIOUS
  <1>1. \A m : dependentsOf(Live(edges), m) \subseteq Modules
    BY DEF dependentsOf, Live, TypeOK, Edge
  <1>2. visited' \subseteq Modules /\ queue' \subseteq Modules
    BY <1>1 DEF TypeOK, Visit
  <1>3. UNCHANGED <<packages, phase, edges, roots, degree, ready, emitted, order>>
    BY DEF Visit, orderVars
  <1>4. QED
    BY <1>2, <1>3 DEF TypeOK

LEMMA StartOrderType == TypeOK /\ StartOrder => TypeOK'
  <1> SUFFICES ASSUME TypeOK, StartOrder PROVE TypeOK'
    OBVIOUS
  <1>1. \A m : Cardinality(Waits(m, visited)) \in Nat
    BY WaitsNone DEF TypeOK
  <1>2. DOMAIN degree' = visited /\ \A m \in visited : degree'[m] \in Nat
    BY <1>1 DEF StartOrder
  <1>3. ready' \subseteq Modules /\ phase' = "order"
    BY DEF StartOrder, TypeOK
  <1>4. UNCHANGED <<packages, edges, roots, visited, queue, emitted, order>>
    BY DEF StartOrder, graphVars
  <1>5. QED
    BY <1>2, <1>3, <1>4 DEF TypeOK

\* What one turn of the ordering loop does to the counters and the ready set.
LEMMA EmitCounts ==
    ASSUME TypeOK, CountInv, EmitInv, Emit
    PROVE  /\ First(ready) \in visited \ emitted
           /\ degree[First(ready)] = 0
           /\ emitted' = emitted \cup {First(ready)}
           /\ DOMAIN degree' = visited
           /\ \A n \in visited : /\ degree'[n] \in Nat
                                 /\ degree'[n] = Cardinality(Waits(n, visited \ emitted'))
           /\ \A n \in emitted' : degree'[n] = 0
           /\ ready' = {n \in visited \ emitted' : degree'[n] = 0}
  <1> DEFINE m == First(ready)
             rest == visited \ emitted
  <1>1. phase = "order" /\ ready # {} /\ ready \subseteq Modules /\ edges \subseteq Edge
        /\ visited \subseteq Modules
    BY DEF Emit, TypeOK
  <1>2. m \in ready
    BY <1>1, FirstIsMember
  <1> HIDE DEF m
  <1>3. m \in rest /\ degree[m] = 0
    BY <1>1, <1>2 DEF CountInv
  <1>4. /\ emitted' = emitted \cup {m}
        /\ degree' = [n \in visited |-> degree[n] - Cardinality(Waits(n, {m}))]
        /\ ready' = (ready \ {m}) \cup {n \in visited : Waits(n, {m}) # {} /\ degree'[n] = 0}
    BY DEF Emit, m
  <1>5. visited \ emitted' = rest \ {m}
    BY <1>4
  <1>6. \A n \in visited :
            /\ degree'[n] \in Nat
            /\ degree'[n] = Cardinality(Waits(n, rest \ {m}))
            /\ degree'[n] = degree[n] - Cardinality(Waits(n, {m}))
            /\ Cardinality(Waits(n, {m})) \in Nat
    <2> TAKE n \in visited
    <2>1. degree[n] = Cardinality(Waits(n, rest))
      BY <1>1 DEF CountInv
    <2>2. degree'[n] = degree[n] - Cardinality(Waits(n, {m}))
      BY <1>4
    <2>3. /\ Cardinality(Waits(n, {m})) \in Nat
          /\ Cardinality(Waits(n, rest \ {m})) = Cardinality(Waits(n, rest)) - Cardinality(Waits(n, {m}))
      BY <1>1, <1>3, WaitsCount
    <2>4. Cardinality(Waits(n, rest \ {m})) \in Nat
      BY <1>1, WaitsNone
    <2>5. QED
      BY <2>1, <2>2, <2>3, <2>4
  <1>7. \A n \in visited : degree[n] = 0 => Waits(n, {m}) = {}
    <2> TAKE n \in visited
    <2>1. degree[n] = 0 => Waits(n, rest) = {}
      BY <1>1, WaitsNone DEF CountInv
    <2>2. Waits(n, {m}) \subseteq Waits(n, rest)
      BY <1>3 DEF Waits
    <2>3. QED
      BY <2>1, <2>2
  <1>8. \A n \in visited : Waits(n, {m}) = {} => degree'[n] = degree[n]
    <2> TAKE n \in visited
    <2>1. Waits(n, {m}) = {} => Cardinality(Waits(n, {m})) = 0
      BY FS_EmptySet
    <2>2. degree[n] \in Nat
      BY <1>1 DEF TypeOK, CountInv
    <2>3. QED
      BY <1>6, <2>1, <2>2
  <1>9. \A n \in emitted' : degree'[n] = 0
    <2>1. \A n \in emitted' : n \in visited /\ degree[n] = 0
      BY <1>1, <1>3, <1>4 DEF CountInv, EmitInv
    <2>2. QED
      BY <2>1, <1>7, <1>8
  <1>10. ready' = {n \in visited \ emitted' : degree'[n] = 0}
    <2>1. ready = {n \in rest : degree[n] = 0}
      BY <1>1 DEF CountInv
    <2>2. \A n \in emitted' : degree[n] = 0 /\ n \in visited
      BY <1>1, <1>3, <1>4 DEF CountInv, EmitInv
    <2>3. \A n \in ready' : n \in visited \ emitted' /\ degree'[n] = 0
      <3> TAKE n \in ready'
      <3>1. CASE n \in ready \ {m}
        BY <3>1, <2>1, <1>4, <1>7, <1>8
      <3>2. CASE n \in visited /\ Waits(n, {m}) # {} /\ degree'[n] = 0
        BY <3>2, <2>2, <1>7
      <3>3. QED
        BY <1>4, <3>1, <3>2
    <2>4. \A n \in visited \ emitted' : degree'[n] = 0 => n \in ready'
      <3> TAKE n \in visited \ emitted'
      <3>1. CASE Waits(n, {m}) = {}
        BY <3>1, <2>1, <1>4, <1>8
      <3>2. CASE Waits(n, {m}) # {}
        BY <3>2, <1>4
      <3>3. QED
        BY <3>1, <3>2
    <2>5. QED
      BY <2>3, <2>4
  <1>11. DOMAIN degree' = visited
    BY <1>4
  <1>12. QED
    BY <1>3, <1>4, <1>5, <1>6, <1>9, <1>10, <1>11 DEF m

LEMMA EmitType == TypeOK /\ CountInv /\ EmitInv /\ Emit => TypeOK'
  <1> SUFFICES ASSUME TypeOK, CountInv, EmitInv, Emit PROVE TypeOK'
    OBVIOUS
  <1>1. First(ready) \in Modules
    BY EmitCounts DEF TypeOK
  <1>2. order' \in Seq(Modules) /\ emitted' \subseteq Modules
    BY <1>1 DEF Emit, TypeOK
  <1>3. ready' \subseteq Modules /\ DOMAIN degree' \subseteq Modules
        /\ \A m \in DOMAIN degree' : degree'[m] \in Nat
    BY EmitCounts DEF TypeOK
  <1>4. UNCHANGED <<packages, phase, edges, roots, visited, queue>>
    BY DEF Emit, graphVars
  <1>5. QED
    BY <1>2, <1>3, <1>4 DEF TypeOK

LEMMA AppendLeftoverType == TypeOK /\ AppendLeftover => TypeOK' /\ First(Leftover) \in Leftover
  <1> SUFFICES ASSUME TypeOK, AppendLeftover PROVE TypeOK' /\ First(Leftover) \in Leftover
    OBVIOUS
  <1>1. Leftover \subseteq Modules /\ Leftover # {}
    BY DEF Leftover, TypeOK, AppendLeftover
  <1>2. First(Leftover) \in Leftover
    BY <1>1, FirstIsMember
  <1>3. order' \in Seq(Modules)
    BY <1>1, <1>2 DEF AppendLeftover, TypeOK
  <1>4. UNCHANGED <<packages, phase, edges, roots, visited, queue, degree, ready, emitted>>
    BY DEF AppendLeftover, graphVars
  <1>5. QED
    BY <1>2, <1>3, <1>4 DEF TypeOK

-----------------------------------------------------------------------------
(* The walk *)

LEMMA WalkStarts ==
    ASSUME TypeOK, NEW req \in Requests, StartRipple(req)
    PROVE  WalkInv' /\ roots' \subseteq Modules /\ edges' \subseteq Edge
  BY GraphIsTyped DEF StartRipple, WalkInv, ClosedUnderDependents

LEMMA WalkVisits ==
    ASSUME TypeOK, WalkInv, Visit
    PROVE  WalkInv'
  <1>1. phase = "impact" /\ UNCHANGED <<phase, edges, roots>>
    BY DEF Visit
  <1>2. PICK m \in queue :
            /\ visited' = visited \cup (dependentsOf(Live(edges), m) \ visited)
            /\ queue' = (queue \ {m}) \cup (dependentsOf(Live(edges), m) \ visited)
    BY DEF Visit
  <1>3. roots' \subseteq visited' /\ queue' \subseteq visited'
    BY <1>1, <1>2 DEF WalkInv
  <1>4. \A e \in Live(edges) : e.To = m => e.From \in visited'
    BY <1>2 DEF dependentsOf
  <1>5. \A e \in Live(edges) : e.To \in visited' \ queue' => e.From \in visited'
    BY <1>1, <1>2, <1>4 DEF WalkInv
  <1>6. ASSUME NEW S \in SUBSET Modules, roots \subseteq S, ClosedUnderDependents(S)
        PROVE  visited' \subseteq S
    <2>1. visited \subseteq S /\ m \in S
      BY <1>1, <1>2, <1>6 DEF WalkInv
    <2>2. dependentsOf(Live(edges), m) \subseteq S
      BY <1>6, <2>1 DEF ClosedUnderDependents, dependentsOf
    <2>3. QED
      BY <1>2, <2>1, <2>2
  <1>7. QED
    BY <1>1, <1>3, <1>5, <1>6 DEF WalkInv, Live, ClosedUnderDependents

LEMMA WalkEndsInCone ==
    ASSUME TypeOK, WalkInv, StartOrder
    PROVE  ConeExact'
  <1>1. phase = "impact" /\ queue = {} /\ UNCHANGED <<edges, roots, visited>>
    BY DEF StartOrder, graphVars
  <1>2. \A e \in Live(edges) : e.To \in visited => e.From \in visited
    BY <1>1 DEF WalkInv
  <1>3. QED
    BY <1>1, <1>2 DEF WalkInv, ConeExact, ClosedUnderDependents, Live

-----------------------------------------------------------------------------
(* The order *)

LEMMA OrderStarts ==
    ASSUME TypeOK, EmitInv, StartOrder
    PROVE  CountInv' /\ EmitInv' /\ ProducersFirst' /\ OneStepEach'
  <1>1. /\ phase = "impact" /\ phase' = "order"
        /\ emitted = {} /\ order = <<>>
        /\ UNCHANGED <<edges, visited, emitted, order>>
        /\ degree' = [m \in visited |-> Cardinality(Waits(m, visited))]
        /\ ready' = {m \in visited : Cardinality(Waits(m, visited)) = 0}
    BY DEF StartOrder, graphVars, EmitInv
  <1>2. CountInv'
    BY <1>1 DEF CountInv, Waits, Live
  <1>3. EmitInv'
    BY <1>1 DEF EmitInv
  <1>4. ProducersFirst' /\ OneStepEach'
    BY <1>1 DEF ProducersFirst, OneStepEach
  <1>5. QED
    BY <1>2, <1>3, <1>4

LEMMA OrderEmits ==
    ASSUME TypeOK, CountInv, EmitInv, ProducersFirst, OneStepEach, Emit
    PROVE  CountInv' /\ EmitInv' /\ ProducersFirst' /\ OneStepEach'
  <1> DEFINE m == First(ready)
  <1>1. /\ phase = "order" /\ ready # {} /\ order \in Seq(Modules)
        /\ order' = Append(order, m)
        /\ emitted' = emitted \cup {m}
        /\ UNCHANGED <<phase, edges, roots, visited, queue>>
    BY DEF Emit, graphVars, TypeOK
  <1>2. m \in visited \ emitted /\ degree[m] = 0 /\ visited \subseteq Modules /\ edges \subseteq Edge
    BY EmitCounts DEF TypeOK
  <1> HIDE DEF m
  <1>3. CountInv'
    BY EmitCounts, <1>1 DEF CountInv, Waits, Live
  <1>4. Waits(m, visited \ emitted) = {}
    BY <1>1, <1>2, WaitsNone DEF CountInv
  <1>5. /\ DOMAIN order' = 1..(Len(order) + 1)
        /\ DOMAIN order = 1..Len(order) /\ Len(order) \in Nat
        /\ \A i \in DOMAIN order : order'[i] = order[i]
        /\ order'[Len(order) + 1] = m
    BY <1>1, <1>2
  <1>6. /\ \A i \in DOMAIN order : order[i] \in emitted
        /\ \A n \in emitted : \E i \in DOMAIN order : order[i] = n
    BY <1>1 DEF EmitInv
  <1>7. EmitInv'
    <2>1. emitted' \subseteq visited'
      BY <1>1, <1>2 DEF EmitInv
    <2>2. \A i \in DOMAIN order' : order'[i] \in emitted'
      BY <1>1, <1>5, <1>6
    <2>3. \A n \in emitted' : \E i \in DOMAIN order' : order'[i] = n
      BY <1>1, <1>5, <1>6
    <2>4. ASSUME NEW T \in SUBSET visited, \A n \in T : Waits(n, T) # {}
          PROVE  T \cap emitted' = {}
      <3>1. T \cap emitted = {}
        BY <2>4 DEF EmitInv
      <3>2. m \in T => Waits(m, T) \subseteq Waits(m, visited \ emitted)
        BY <3>1 DEF Waits
      <3>3. QED
        BY <2>4, <3>1, <3>2, <1>1, <1>4
    <2>5. phase' = "order" /\ \A i \in DOMAIN order' : order'[i] \in visited'
      BY <1>1, <2>1, <2>2
    <2>6. (\A T \in SUBSET visited : (\A n \in T : Waits(n, T) # {}) => T \cap emitted = {})'
      BY <1>1, <2>4 DEF Waits, Live
    <2>7. QED
      BY <2>1, <2>2, <2>3, <2>5, <2>6 DEF EmitInv
  <1>8. ProducersFirst'
    <2>1. ASSUME NEW i \in DOMAIN order, order[i] \in emitted', NEW e \in Live(edges),
                 e.From = order[i], e.To \in visited
          PROVE  \E j \in 1..(i - 1) : order'[j] = e.To
      BY <2>1, <1>1, <1>5, <1>6 DEF ProducersFirst
    <2>2. ASSUME NEW e \in Live(edges), e.From = m, e.To \in visited
          PROVE  \E j \in 1..Len(order) : order'[j] = e.To
      <3>1. e.To \in emitted
        BY <2>2, <1>4 DEF Waits
      <3>2. QED
        BY <3>1, <1>5, <1>6
    <2>3. QED
      BY <1>1, <1>5, <2>1, <2>2 DEF ProducersFirst, Live
  <1>9. OneStepEach'
    BY <1>1, <1>2, <1>5, <1>6 DEF OneStepEach
  <1>10. QED
    BY <1>3, <1>7, <1>8, <1>9

LEMMA OrderAppends ==
    ASSUME TypeOK, CountInv, EmitInv, ProducersFirst, OneStepEach, AppendLeftover
    PROVE  CountInv' /\ EmitInv' /\ ProducersFirst' /\ OneStepEach'
  <1> DEFINE m == First(Leftover)
  <1>1. /\ phase = "order" /\ ready = {} /\ order \in Seq(Modules)
        /\ order' = Append(order, m)
        /\ UNCHANGED <<phase, edges, roots, visited, queue, degree, ready, emitted>>
    BY DEF AppendLeftover, graphVars, TypeOK
  <1>2. m \in visited /\ \A i \in DOMAIN order : order[i] # m
    BY AppendLeftoverType DEF Leftover
  <1> HIDE DEF m
  <1>3. /\ DOMAIN order' = 1..(Len(order) + 1)
        /\ DOMAIN order = 1..Len(order) /\ Len(order) \in Nat
        /\ \A i \in DOMAIN order : order'[i] = order[i]
        /\ order'[Len(order) + 1] = m
    BY <1>1, <1>2 DEF TypeOK
  <1>4. m \notin emitted
    BY <1>2 DEF EmitInv
  <1>5. CountInv'
    BY <1>1 DEF CountInv, Waits, Live
  <1>6. EmitInv'
    BY <1>1, <1>2, <1>3 DEF EmitInv, Waits, Live
  <1>7. ProducersFirst'
    <2>1. ASSUME NEW i \in DOMAIN order, order[i] \in emitted, NEW e \in Live(edges),
                 e.From = order[i], e.To \in visited
          PROVE  \E j \in 1..(i - 1) : order'[j] = e.To
      BY <2>1, <1>1, <1>3 DEF ProducersFirst
    <2>2. QED
      BY <1>1, <1>3, <1>4, <2>1 DEF ProducersFirst, Live
  <1>8. OneStepEach'
    BY <1>1, <1>2, <1>3 DEF OneStepEach
  <1>9. QED
    BY <1>5, <1>6, <1>7, <1>8

LEMMA OrderFinishes ==
    ASSUME TypeOK, CountInv, ConeExact, EmitInv, ProducersFirst, OneStepEach, FinishOrder
    PROVE  CountInv' /\ ConeExact' /\ EmitInv' /\ ProducersFirst' /\ OneStepEach'
  <1>1. /\ phase = "order" /\ phase' = "planned" /\ ready = {} /\ Leftover = {}
        /\ UNCHANGED <<edges, roots, visited, queue, degree, ready, emitted, order>>
    BY DEF FinishOrder, graphVars, orderVars
  <1>2. CountInv' /\ ConeExact' /\ ProducersFirst'
    BY <1>1 DEF CountInv, ConeExact, ProducersFirst, ClosedUnderDependents, Live
  <1>3. \A m \in visited \ emitted : Waits(m, visited \ emitted) # {}
    <2> TAKE m \in visited \ emitted
    <2>1. degree[m] # 0 /\ degree[m] = Cardinality(Waits(m, visited \ emitted))
      BY <1>1 DEF CountInv
    <2>2. QED
      BY <2>1, WaitsNone DEF TypeOK
  <1>4. EmitInv'
    BY <1>1, <1>3 DEF EmitInv, Waits, Live
  <1>5. {order[i] : i \in DOMAIN order} = visited
    BY <1>1 DEF Leftover, EmitInv
  <1>6. OneStepEach'
    BY <1>1, <1>5 DEF OneStepEach
  <1>7. QED
    BY <1>2, <1>4, <1>6

-----------------------------------------------------------------------------
(* Every step of the specification *)

LEMMA InitInv == Init => PlanInv
  <1> SUFFICES ASSUME Init PROVE PlanInv
    OBVIOUS
  <1>1. phase = "idle" /\ emitted = {} /\ order = <<>>
    BY DEF Init
  <1>2. WalkInv /\ CountInv /\ ConeExact /\ EmitInv /\ ProducersFirst /\ OneStepEach
    BY <1>1 DEF WalkInv, CountInv, ConeExact, EmitInv, ProducersFirst, OneStepEach
  <1>3. QED
    BY <1>2, InitType DEF PlanInv

LEMMA IdleSteps ==
    ASSUME PlanInv, NEW req, Next,
           \/ \E m \in Modules, d \in Declared : Declare(m, d)
           \/ RefuseRipple(req)
           \/ req \in FlatRequests /\ FlatPlan(req)
    PROVE  PlanInv'
  <1>1. /\ phase = "idle" /\ phase' \in {"idle", "refused", "flat"}
        /\ UNCHANGED <<edges, roots, visited, queue, degree, ready, emitted>>
        /\ phase' # "flat" => order' = order
        /\ order' \in Seq(Modules)
        /\ packages' \in [Modules -> SUBSET Declared]
    <2>1. CASE \E m \in Modules, d \in Declared : Declare(m, d)
      BY <2>1 DEF Declare, planVars, PlanInv, TypeOK
    <2>2. CASE RefuseRipple(req)
      BY <2>2 DEF RefuseRipple, graphVars, orderVars, PlanInv, TypeOK
    <2>3. CASE req \in FlatRequests /\ FlatPlan(req)
      <3>1. req # <<>> /\ (\A i \in DOMAIN req : req[i] \in Modules) => req \in Seq(Modules)
        <4>1. req \in Seq(Names)
          BY <2>3, FlatAssumption
        <4>2. QED
          BY <4>1
      <3>2. QED
        BY <2>3, <3>1 DEF FlatPlan, graphVars, PlanInv, TypeOK
    <2>4. QED
      BY <2>1, <2>2, <2>3
  <1>2. emitted = {} /\ order = <<>>
    BY <1>1 DEF PlanInv, EmitInv
  <1>3. TypeOK'
    BY <1>1 DEF PlanInv, TypeOK
  <1>4. WalkInv' /\ CountInv' /\ ConeExact'
    BY <1>1 DEF WalkInv, CountInv, ConeExact
  <1>5. EmitInv' /\ ProducersFirst' /\ OneStepEach'
    BY <1>1, <1>2 DEF EmitInv, ProducersFirst, OneStepEach
  <1>6. QED
    BY <1>3, <1>4, <1>5 DEF PlanInv

LEMMA WalkSteps ==
    ASSUME PlanInv, (\E req \in Requests : StartRipple(req)) \/ Visit
    PROVE  PlanInv'
  <1>1. WalkInv'
    BY WalkStarts, WalkVisits DEF PlanInv
  <1>2. TypeOK'
    <2>1. CASE Visit
      BY <2>1, VisitType DEF PlanInv
    <2>2. ASSUME NEW req \in Requests, StartRipple(req)
          PROVE  TypeOK'
      BY <2>2, GraphIsTyped DEF StartRipple, orderVars, PlanInv, TypeOK
    <2>3. QED
      BY <2>1, <2>2
  <1>3. phase \in {"idle", "impact"} /\ phase' = "impact"
        /\ UNCHANGED <<degree, ready, emitted, order>>
    BY DEF StartRipple, Visit, orderVars
  <1>4. emitted = {} /\ order = <<>>
    BY <1>3 DEF PlanInv, EmitInv
  <1>5. CountInv' /\ ConeExact' /\ EmitInv' /\ ProducersFirst' /\ OneStepEach'
    BY <1>3, <1>4 DEF CountInv, ConeExact, EmitInv, ProducersFirst, OneStepEach
  <1>6. QED
    BY <1>1, <1>2, <1>5 DEF PlanInv

LEMMA OrderSteps ==
    ASSUME PlanInv, StartOrder \/ Emit \/ AppendLeftover \/ FinishOrder
    PROVE  PlanInv'
  <1>1. TypeOK'
    <2>1. CASE StartOrder
      BY <2>1, StartOrderType DEF PlanInv
    <2>2. CASE Emit
      BY <2>2, EmitType DEF PlanInv
    <2>3. CASE AppendLeftover
      BY <2>3, AppendLeftoverType DEF PlanInv
    <2>4. CASE FinishOrder
      BY <2>4 DEF FinishOrder, graphVars, orderVars, PlanInv, TypeOK
    <2>5. QED
      BY <2>1, <2>2, <2>3, <2>4
  <1>2. WalkInv'
    BY DEF WalkInv, StartOrder, Emit, AppendLeftover, FinishOrder
  <1>3. ConeExact'
    <2>1. CASE StartOrder
      BY <2>1, WalkEndsInCone DEF PlanInv
    <2>2. CASE Emit \/ AppendLeftover
      BY <2>2 DEF Emit, AppendLeftover, graphVars, PlanInv, ConeExact, ClosedUnderDependents, Live
    <2>3. CASE FinishOrder
      BY <2>3, OrderFinishes DEF PlanInv
    <2>4. QED
      BY <2>1, <2>2, <2>3
  <1>4. CountInv' /\ EmitInv' /\ ProducersFirst' /\ OneStepEach'
    BY OrderStarts, OrderEmits, OrderAppends, OrderFinishes DEF PlanInv
  <1>5. QED
    BY <1>1, <1>2, <1>3, <1>4 DEF PlanInv

LEMMA StutterInv == PlanInv /\ UNCHANGED vars => PlanInv'
  <1> SUFFICES ASSUME PlanInv, UNCHANGED vars PROVE PlanInv'
    OBVIOUS
  <1>1. UNCHANGED <<packages, phase, edges, roots, visited, queue, degree, ready, emitted, order>>
    BY DEF vars, planVars
  <1>2. TypeOK' /\ WalkInv' /\ CountInv'
    BY <1>1 DEF PlanInv, TypeOK, WalkInv, CountInv, ClosedUnderDependents, Live, Waits
  <1>3. ConeExact' /\ EmitInv' /\ ProducersFirst' /\ OneStepEach'
    BY <1>1 DEF PlanInv, ConeExact, EmitInv, ProducersFirst, OneStepEach,
                ClosedUnderDependents, Live, Waits
  <1>4. QED
    BY <1>2, <1>3 DEF PlanInv

\* The planner keeps its variables, its walk and its counters right, whatever
\* the packages declare: any number of modules, cycles and links included.
THEOREM PlanInvariant == Spec => []PlanInv
  <1>1. PlanInv /\ [Next]_vars => PlanInv'
    <2> SUFFICES ASSUME PlanInv, [Next]_vars PROVE PlanInv'
      OBVIOUS
    <2>1. CASE Next
      BY <2>1, StepCases, IdleSteps, WalkSteps, OrderSteps
    <2>2. CASE UNCHANGED vars
      BY <2>2, StutterInv
    <2>3. QED
      BY <2>1, <2>2
  <1>2. QED
    BY InitInv, <1>1, PTL DEF Spec

\* The planner's variables keep their types.
THEOREM PlanTypes == Spec => []TypeOK
  <1>1. PlanInv => TypeOK
    BY DEF PlanInv
  <1>2. QED
    BY <1>1, PlanInvariant, PTL

\* The cone is the least set that is closed under published dependents.
THEOREM ConeIsExact == Spec => []ConeExact
  <1>1. PlanInv => ConeExact
    BY DEF PlanInv
  <1>2. QED
    BY <1>1, PlanInvariant, PTL

\* Producers come first.
THEOREM ProducersComeFirst == Spec => []ProducersFirst
  <1>1. PlanInv => ProducersFirst
    BY DEF PlanInv
  <1>2. QED
    BY <1>1, PlanInvariant, PTL

\* One step for each module of the cone.
THEOREM EachStepOnce == Spec => []OneStepEach
  <1>1. PlanInv => OneStepEach
    BY DEF PlanInv
  <1>2. QED
    BY <1>1, PlanInvariant, PTL

\* The fallback appends what a cycle holds back, and nothing else.
THEOREM LeftoverIsHeldBack == Spec => []LeftoverExact
  <1>1. PlanInv => LeftoverExact
    <2> SUFFICES ASSUME PlanInv, phase = "planned" PROVE visited \ emitted = HeldBack(visited)
      BY DEF LeftoverExact
    <2>1. visited \ emitted \subseteq HeldBack(visited)
      BY DEF PlanInv, EmitInv, HeldBack
    <2>2. HeldBack(visited) \subseteq visited \ emitted
      BY DEF PlanInv, EmitInv, HeldBack
    <2>3. QED
      BY <2>1, <2>2
  <1>2. QED
    BY <1>1, PlanInvariant, PTL

-----------------------------------------------------------------------------
(* The action chains *)

Below(m, S) == {n \in S : n < m}
Rank(m, S)  == Cardinality(Below(m, S)) + 1

\* Ranks number the members of a set without gap.
LEMMA Ranks ==
    ASSUME NEW S, S \subseteq Modules
    PROVE  /\ Cardinality(S) \in Nat
           /\ \A m \in S : Rank(m, S) \in 1..Cardinality(S)
           /\ \A m, n \in S : Rank(m, S) = Rank(n, S) => m = n
           /\ \A i \in 1..Cardinality(S) : \E m \in S : Rank(m, S) = i
  <1> DEFINE f == [m \in S |-> Rank(m, S)]
  <1>1. S \subseteq Nat /\ IsFiniteSet(S) /\ Cardinality(S) \in Nat
    BY PlanAssumption, FS_Subset, FS_CardinalityType
  <1>2. \A m : IsFiniteSet(Below(m, S)) /\ Cardinality(Below(m, S)) \in Nat
    <2>1. \A m : Below(m, S) \in SUBSET S
      BY DEF Below
    <2>2. QED
      BY <1>1, <2>1, FS_Subset, FS_CardinalityType
  <1>3. ASSUME NEW m \in S PROVE Rank(m, S) \in 1..Cardinality(S)
    <2>1. Below(m, S) \in SUBSET S /\ m \notin Below(m, S)
      BY <1>1 DEF Below
    <2>2. Cardinality(Below(m, S)) <= Cardinality(S) /\ Cardinality(Below(m, S)) # Cardinality(S)
      BY <1>1, <2>1, FS_Subset
    <2>3. QED
      BY <1>1, <1>2, <2>2 DEF Rank
  <1>4. ASSUME NEW m \in S, NEW n \in S, m < n PROVE Rank(m, S) # Rank(n, S)
    <2>1. Below(m, S) \in SUBSET Below(n, S) /\ m \in Below(n, S) \ Below(m, S)
      <3>1. m \in Nat /\ n \in Nat /\ \A k \in S : k < m => k < n
        BY <1>1, <1>4
      <3>2. Below(m, S) \subseteq Below(n, S)
        BY <3>1 DEF Below
      <3>3. m \in Below(n, S) /\ ~(m < m)
        BY <1>4, <3>1 DEF Below
      <3>4. m \notin Below(m, S)
        BY <3>3 DEF Below
      <3>5. QED
        BY <3>2, <3>3, <3>4
    <2>2. Cardinality(Below(m, S)) # Cardinality(Below(n, S))
      BY <1>2, <2>1, FS_Subset
    <2>3. QED
      BY <1>2, <2>2 DEF Rank
  <1>5. \A m, n \in S : Rank(m, S) = Rank(n, S) => m = n
    BY <1>1, <1>4
  <1>6. \A i \in 1..Cardinality(S) : \E m \in S : Rank(m, S) = i
    <2>1. f \in [S -> 1..Cardinality(S)]
      BY <1>3
    <2>2. \A m, n \in S : f[m] = f[n] => m = n
      BY <1>5
    <2> HIDE DEF f
    <2>3. f \in Injection(S, 1..Cardinality(S))
      BY <2>1, <2>2 DEF Injection, IsInjective
    <2>4. IsFiniteSet(1..Cardinality(S)) /\ Cardinality(1..Cardinality(S)) = Cardinality(S)
      BY <1>1, FS_Interval
    <2>5. f \in Surjection(S, 1..Cardinality(S))
      BY <2>3, <2>4, FS_Injection
    <2> USE DEF f
    <2>6. QED
      BY <2>5 DEF Surjection
  <1>7. QED
    BY <1>1, <1>3, <1>5, <1>6

\* Sorted lists the members of a set, each at its rank, and nothing else.
LEMMA SortedLists ==
    ASSUME NEW S, S \subseteq Modules
    PROVE  /\ Sorted(S) \in Seq(S)
           /\ Len(Sorted(S)) = Cardinality(S)
           /\ \A m \in S : \E k \in 1..Len(Sorted(S)) : Sorted(S)[k] = m
  <1>1. Cardinality(S) \in Nat
    BY Ranks
  <1>2. \A i \in 1..Cardinality(S) : Sorted(S)[i] \in S /\ Rank(Sorted(S)[i], S) = i
    <2> TAKE i \in 1..Cardinality(S)
    <2>1. PICK m \in S : Rank(m, S) = i
      BY Ranks
    <2>2. Cardinality(Below(m, S)) \in Nat
      <3>1. Below(m, S) \in SUBSET S
        BY DEF Below
      <3>2. QED
        BY <3>1, PlanAssumption, FS_Subset, FS_CardinalityType
    <2>3. Cardinality({n \in S : n < m}) = i - 1
      BY <2>1, <2>2 DEF Rank, Below
    <2>4. Sorted(S)[i] = CHOOSE x \in S : Cardinality({n \in S : n < x}) = i - 1
      BY DEF Sorted
    <2>5. Sorted(S)[i] \in S /\ Cardinality(Below(Sorted(S)[i], S)) = i - 1
      BY <2>3, <2>4 DEF Below
    <2>6. QED
      BY <2>5 DEF Rank
  <1>3. Sorted(S) \in [1..Cardinality(S) -> S]
    BY <1>2 DEF Sorted
  <1>4. Sorted(S) \in Seq(S) /\ Len(Sorted(S)) = Cardinality(S)
    BY <1>1, <1>3
  <1>5. ASSUME NEW m \in S PROVE Sorted(S)[Rank(m, S)] = m
    BY <1>2, Ranks
  <1>6. QED
    BY <1>4, <1>5, Ranks

Ops == {"preflight-clean-tree", "update-dep", "install", "test", "commit", "bump-if-needed",
        "bump", "publish", "wait-for-index", "commit-final", "push"}
Steplet == [Op : Ops, Dep : Nat]

LEMMA ActIsSteplet ==
    ASSUME NEW op \in Ops, NEW d \in Nat
    PROVE  Act(op, d) \in Steplet /\ <<Act(op, d)>> \in Seq(Steplet)
  BY DEF Act, Steplet

LEMMA Joined ==
    ASSUME NEW p \in Seq(Steplet), NEW q \in Seq(Steplet)
    PROVE  /\ p \o q \in Seq(Steplet)
           /\ Len(p) \in Nat /\ Len(q) \in Nat
           /\ DOMAIN p = 1..Len(p) /\ DOMAIN q = 1..Len(q)
           /\ DOMAIN (p \o q) = 1..(Len(p) + Len(q))
           /\ \A i \in 1..Len(p) : (p \o q)[i] = p[i]
           /\ \A i \in 1..Len(q) : (p \o q)[Len(p) + i] = q[i]
           /\ \A i \in DOMAIN (p \o q) : i \in 1..Len(p) \/ i - Len(p) \in 1..Len(q)
  <1>1. /\ Len(p) \in Nat /\ DOMAIN p = 1..Len(p)
        /\ Len(q) \in Nat /\ DOMAIN q = 1..Len(q)
    BY LenProperties
  <1>2. /\ p \o q \in Seq(Steplet) /\ Len(p \o q) = Len(p) + Len(q)
        /\ \A i \in 1..(Len(p) + Len(q)) :
               (p \o q)[i] = IF i <= Len(p) THEN p[i] ELSE q[i - Len(p)]
    BY ConcatProperties
  <1>3. DOMAIN (p \o q) = 1..(Len(p) + Len(q))
    BY <1>2, LenProperties
  <1>4. \A i \in 1..Len(p) : (p \o q)[i] = p[i]
    BY <1>1, <1>2
  <1>5. \A i \in 1..Len(q) : (p \o q)[Len(p) + i] = q[i]
    <2> TAKE i \in 1..Len(q)
    <2>1. Len(p) + i \in 1..(Len(p) + Len(q)) /\ ~(Len(p) + i <= Len(p)) /\ (Len(p) + i) - Len(p) = i
      BY <1>1
    <2>2. QED
      BY <1>2, <2>1
  <1>6. \A i \in DOMAIN (p \o q) : i \in 1..Len(p) \/ i - Len(p) \in 1..Len(q)
    BY <1>1, <1>3
  <1>7. QED
    BY <1>1, <1>2, <1>3, <1>4, <1>5, <1>6

(* The order of the operations of a step.                                     *)
Stage(op) ==
    CASE op = "preflight-clean-tree" -> 0
      [] op = "update-dep" -> 1
      [] op = "install" -> 2
      [] op = "test" -> 3
      [] op = "commit" -> 4
      [] op \in {"bump", "bump-if-needed"} -> 5
      [] op = "publish" -> 6
      [] op = "wait-for-index" -> 7
      [] op = "commit-final" -> 8
      [] op = "push" -> 9

(* A chain within some stages: one action of each, but for the updates.       *)
Staged(p, lo, hi) ==
    /\ p \in Seq(Steplet)
    /\ \A i \in 1..Len(p) : Stage(p[i].Op) \in lo..hi
    /\ \A i, j \in 1..Len(p) :
          i < j => \/ Stage(p[i].Op) < Stage(p[j].Op)
                   \/ p[i].Op = "update-dep" /\ p[j].Op = "update-dep"

Elems(p) == {p[i] : i \in 1..Len(p)}

LEMMA StagedJoined ==
    ASSUME NEW p, NEW q, NEW a \in Int, NEW b \in Int, NEW c \in Int, NEW d \in Int,
           Staged(p, a, b), Staged(q, c, d), b < c, a <= c, b <= d
    PROVE  Staged(p \o q, a, d)
  <1> DEFINE r == p \o q
  <1>1. p \in Seq(Steplet) /\ q \in Seq(Steplet)
    BY DEF Staged
  <1>2. /\ r \in Seq(Steplet) /\ Len(p) \in Nat /\ Len(q) \in Nat
        /\ Len(r) = Len(p) + Len(q)
        /\ \A i \in 1..Len(p) : r[i] = p[i]
        /\ \A i \in 1..Len(q) : r[Len(p) + i] = q[i]
    BY <1>1, Joined, ConcatProperties
  <1> HIDE DEF r
  <1>3. ASSUME NEW i \in 1..Len(r)
        PROVE  \/ i \in 1..Len(p) /\ r[i] = p[i]
               \/ i - Len(p) \in 1..Len(q) /\ r[i] = q[i - Len(p)]
    <2>1. CASE i \in 1..Len(p)
      BY <1>2, <2>1
    <2>2. CASE i \notin 1..Len(p)
      <3>1. i - Len(p) \in 1..Len(q) /\ Len(p) + (i - Len(p)) = i
        BY <1>2, <2>2
      <3>2. QED
        BY <1>2, <3>1
    <2>3. QED
      BY <2>1, <2>2
  <1>4. ASSUME NEW i \in 1..Len(r) PROVE Stage(r[i].Op) \in a..d
    <2>1. Stage(r[i].Op) \in a..b \/ Stage(r[i].Op) \in c..d
      BY <1>3 DEF Staged
    <2>2. QED
      BY <2>1
  <1>5. ASSUME NEW i \in 1..Len(r), NEW j \in 1..Len(r), i < j
        PROVE  \/ Stage(r[i].Op) < Stage(r[j].Op)
               \/ r[i].Op = "update-dep" /\ r[j].Op = "update-dep"
    <2>1. CASE j \in 1..Len(p)
      <3>1. i \in 1..Len(p)
        BY <1>2, <1>5, <2>1
      <3>2. QED
        BY <1>2, <1>5, <2>1, <3>1 DEF Staged
    <2>2. CASE i \in 1..Len(p) /\ j \notin 1..Len(p)
      <3>1. Stage(r[i].Op) \in a..b /\ Stage(r[j].Op) \in c..d
        BY <1>2, <1>3, <2>2 DEF Staged
      <3>2. QED
        BY <3>1
    <2>3. CASE i \notin 1..Len(p)
      <3>1. j \notin 1..Len(p)
        BY <1>2, <1>5, <2>3
      <3>2. /\ i - Len(p) \in 1..Len(q) /\ r[i] = q[i - Len(p)]
            /\ j - Len(p) \in 1..Len(q) /\ r[j] = q[j - Len(p)]
        BY <1>3, <2>3, <3>1
      <3>3. i - Len(p) < j - Len(p)
        BY <1>2, <1>5
      <3>4. QED
        BY <3>2, <3>3 DEF Staged
    <2>4. QED
      BY <2>1, <2>2, <2>3
  <1>6. QED
    BY <1>2, <1>4, <1>5 DEF Staged, r

LEMMA ElemsJoined ==
    ASSUME NEW p \in Seq(Steplet), NEW q \in Seq(Steplet)
    PROVE  Elems(p \o q) = Elems(p) \cup Elems(q)
  <1> DEFINE r == p \o q
  <1>1. Len(p) \in Nat /\ Len(q) \in Nat /\ Len(r) = Len(p) + Len(q)
    BY Joined, ConcatProperties
  <1>2. \A i \in 1..Len(p) : r[i] = p[i]
    BY Joined
  <1>3. \A i \in 1..Len(q) : r[Len(p) + i] = q[i]
    BY Joined
  <1>4. \A i \in 1..Len(r) : i \in 1..Len(p) \/ (i - Len(p) \in 1..Len(q) /\ Len(p) + (i - Len(p)) = i)
    BY <1>1
  <1> HIDE DEF r
  <1>5. Elems(r) \subseteq Elems(p) \cup Elems(q)
    <2> SUFFICES ASSUME NEW i \in 1..Len(r)
                 PROVE  (\E j \in 1..Len(p) : r[i] = p[j]) \/ (\E j \in 1..Len(q) : r[i] = q[j])
      BY DEF Elems
    <2>1. QED
      BY <1>2, <1>3, <1>4
  <1>6. Elems(p) \subseteq Elems(r)
    BY <1>1, <1>2 DEF Elems
  <1>7. Elems(q) \subseteq Elems(r)
    <2> SUFFICES ASSUME NEW i \in 1..Len(q) PROVE \E j \in 1..Len(r) : r[j] = q[i]
      BY DEF Elems
    <2>1. Len(p) + i \in 1..Len(r)
      BY <1>1
    <2>2. QED
      BY <1>3, <2>1
  <1>8. QED
    BY <1>5, <1>6, <1>7 DEF r

LEMMA OneStaged ==
    ASSUME NEW op \in Ops
    PROVE  /\ Staged(<<Act(op, NoDep)>>, Stage(op), Stage(op))
           /\ Elems(<<Act(op, NoDep)>>) = {Act(op, NoDep)}
           /\ Stage(op) \in 0..9
  <1>1. Stage(op) \in 0..9
    BY DEF Ops, Stage
  <1>2. <<Act(op, NoDep)>> \in Seq(Steplet) /\ Act(op, NoDep).Op = op
    BY ActIsSteplet DEF NoDep, Act
  <1>3. QED
    BY <1>1, <1>2 DEF Staged, Elems

LEMMA NoneStaged ==
    ASSUME NEW a \in Int, NEW b \in Int
    PROVE  Staged(<<>>, a, b) /\ Elems(<<>>) = {}
  BY EmptySeq DEF Staged, Elems

-----------------------------------------------------------------------------
(* planRipple *)

\* The dependencies a step refreshes: producers of the order, each of them there.
LEMMA UpdatesListed ==
    ASSUME edges \subseteq Edge, NEW i \in DOMAIN order
    PROVE  /\ UpdateDeps(i) \in Seq(Modules)
           /\ \A k \in 1..Len(UpdateDeps(i)) : \E j \in 1..(i - 1) : order[j] = UpdateDeps(i)[k]
           /\ \A e \in edges : e.From = order[i] /\ (\E j \in 1..(i - 1) : order[j] = e.To) =>
                  \E k \in 1..Len(UpdateDeps(i)) : UpdateDeps(i)[k] = e.To
  <1> DEFINE earlier == {order[j] : j \in 1..(i - 1)}
             in(s) == {e.To : e \in {f \in edges : f.From = order[i] /\ f.Section = s}}
             A == in("dependencies") \cap earlier
             B == in("devDependencies") \cap earlier
  <1>1. A \subseteq Modules /\ B \subseteq Modules
    <2>1. \A e \in edges : e.To \in Modules
      BY DEF Edge
    <2>2. QED
      BY <2>1
  <1>2. \A e \in edges : e.From = order[i] /\ (\E j \in 1..(i - 1) : order[j] = e.To) =>
            e.To \in A \cup B
    <2> TAKE e \in edges
    <2> HAVE e.From = order[i] /\ (\E j \in 1..(i - 1) : order[j] = e.To)
    <2>1. e.To \in earlier /\ e.Section \in {"dependencies", "devDependencies"}
      BY DEF Edge, Sections
    <2>2. QED
      BY <2>1
  <1>3. UpdateDeps(i) = Sorted(A) \o Sorted(B)
    BY DEF UpdateDeps
  <1> HIDE DEF A, B
  <1>4. /\ Sorted(A) \in Seq(Modules) /\ \A m \in A : \E k \in 1..Len(Sorted(A)) : Sorted(A)[k] = m
        /\ Sorted(B) \in Seq(Modules) /\ \A m \in B : \E k \in 1..Len(Sorted(B)) : Sorted(B)[k] = m
    BY <1>1, SortedLists, SeqMonotonic
  <1>5. /\ UpdateDeps(i) \in Seq(Modules)
        /\ Len(UpdateDeps(i)) = Len(Sorted(A)) + Len(Sorted(B))
        /\ Len(Sorted(A)) \in Nat /\ Len(Sorted(B)) \in Nat
        /\ \A k \in 1..Len(Sorted(A)) + Len(Sorted(B)) : UpdateDeps(i)[k] =
               IF k <= Len(Sorted(A)) THEN Sorted(A)[k] ELSE Sorted(B)[k - Len(Sorted(A))]
    BY <1>3, <1>4, ConcatProperties, LenProperties
  <1>6. ASSUME NEW m \in A PROVE \E k \in 1..Len(UpdateDeps(i)) : UpdateDeps(i)[k] = m
    BY <1>4, <1>5
  <1>7. ASSUME NEW m \in B PROVE \E k \in 1..Len(UpdateDeps(i)) : UpdateDeps(i)[k] = m
    <2>1. PICK k \in 1..Len(Sorted(B)) : Sorted(B)[k] = m
      BY <1>4
    <2>2. /\ Len(Sorted(A)) + k \in 1..Len(UpdateDeps(i))
          /\ ~(Len(Sorted(A)) + k <= Len(Sorted(A)))
          /\ (Len(Sorted(A)) + k) - Len(Sorted(A)) = k
      BY <1>5
    <2>3. UpdateDeps(i)[Len(Sorted(A)) + k] = m
      BY <1>5, <2>1, <2>2
    <2>4. QED
      BY <2>2, <2>3
  <1>8. ASSUME NEW k \in 1..Len(UpdateDeps(i)) PROVE \E j \in 1..(i - 1) : order[j] = UpdateDeps(i)[k]
    <2>1. Sorted(A) \in Seq(A) /\ Sorted(B) \in Seq(B)
      BY <1>1, SortedLists
    <2>2. UpdateDeps(i)[k] \in A \cup B
      BY <1>5, <2>1, ElementOfSeq
    <2> USE DEF A, B
    <2>3. QED
      BY <2>2
  <1>9. QED
    BY <1>2, <1>5, <1>6, <1>7, <1>8

\* The chain of a step: its actions are in the order of the stages, it updates the
\* dependencies listed and nothing else, and installs and commits if there are any.
LEMMA ChainStaged ==
    ASSUME edges \subseteq Edge, NEW i \in DOMAIN order, NEW config \in Configs
    PROVE  LET deps == UpdateDeps(i)
               chain == StepActions(i, config)
               bump == IF order[i] \in roots THEN "bump-if-needed" ELSE "bump"
           IN  /\ Staged(chain, 0, 9)
               /\ Elems(chain) =
                      {Act("preflight-clean-tree", NoDep)} \cup
                      {Act("update-dep", deps[k]) : k \in 1..Len(deps)} \cup
                      (IF deps = <<>> THEN {}
                       ELSE {Act("install", NoDep), Act("commit", NoDep)} \cup
                            (IF config.RunTest THEN {Act("test", NoDep)} ELSE {})) \cup
                      {Act(bump, NoDep), Act("publish", NoDep), Act("commit-final", NoDep)} \cup
                      (IF config.WaitForIndex THEN {Act("wait-for-index", NoDep)} ELSE {}) \cup
                      (IF config.RunPush THEN {Act("push", NoDep)} ELSE {})
  <1> DEFINE deps == UpdateDeps(i)
             chain == StepActions(i, config)
             one(op) == <<Act(op, NoDep)>>
             update == [k \in DOMAIN deps |-> Act("update-dep", deps[k])]
             bump == IF order[i] \in roots THEN "bump-if-needed" ELSE "bump"
             test == IF config.RunTest THEN one("test") ELSE <<>>
             settle == IF deps = <<>> THEN <<>> ELSE one("install") \o test \o one("commit")
             release == <<Act(bump, NoDep), Act("publish", NoDep)>>
             wait == IF config.WaitForIndex THEN one("wait-for-index") ELSE <<>>
             push == IF config.RunPush THEN one("push") ELSE <<>>
  <1>1. chain = one("preflight-clean-tree") \o update \o settle \o release \o wait
                \o one("commit-final") \o push
    BY DEF StepActions
  <1>2. deps \in Seq(Modules) /\ Modules \subseteq Nat
    BY UpdatesListed, PlanAssumption
  <1>3. Staged(update, 1, 1) /\ Elems(update) = {Act("update-dep", deps[k]) : k \in 1..Len(deps)}
    <2>1. DOMAIN deps = 1..Len(deps) /\ Len(deps) \in Nat /\ \A k \in 1..Len(deps) : deps[k] \in Nat
      BY <1>2, LenProperties, ElementOfSeq
    <2>2. update \in [1..Len(deps) -> Steplet]
      <3>1. "update-dep" \in Ops
        BY DEF Ops
      <3>2. \A k \in 1..Len(deps) : Act("update-dep", deps[k]) \in Steplet
        BY <2>1, <3>1, ActIsSteplet
      <3>3. QED
        BY <2>1, <3>2
    <2>3. update \in Seq(Steplet) /\ Len(update) = Len(deps)
      BY <2>1, <2>2
    <2>4. \A k \in 1..Len(deps) : update[k] = Act("update-dep", deps[k]) /\ update[k].Op = "update-dep"
      BY <2>1 DEF Act
    <2> HIDE DEF update
    <2>5. QED
      BY <2>3, <2>4 DEF Staged, Elems, Stage
  <1>4. \A op \in Ops : Staged(one(op), Stage(op), Stage(op)) /\ Elems(one(op)) = {Act(op, NoDep)}
    BY OneStaged
  <1>5. /\ Stage("preflight-clean-tree") = 0 /\ Stage("install") = 2 /\ Stage("test") = 3
        /\ Stage("commit") = 4 /\ Stage(bump) = 5 /\ Stage("publish") = 6
        /\ Stage("wait-for-index") = 7 /\ Stage("commit-final") = 8 /\ Stage("push") = 9
    BY DEF Stage
  <1>6. {"preflight-clean-tree", "install", "test", "commit", bump, "publish", "wait-for-index",
         "commit-final", "push"} \subseteq Ops
    BY DEF Ops
  <1>7. release = one(bump) \o one("publish")
    BY DEF Act
  <1> HIDE DEF one, update, bump, deps, chain, release
  <1>8. Staged(release, 5, 6) /\ Elems(release) = {Act(bump, NoDep), Act("publish", NoDep)}
    <2>1. Staged(one(bump), 5, 5) /\ Staged(one("publish"), 6, 6)
      BY <1>4, <1>5, <1>6
    <2>2. Elems(one(bump)) = {Act(bump, NoDep)} /\ Elems(one("publish")) = {Act("publish", NoDep)}
      BY <1>4, <1>6
    <2>3. Staged(one(bump) \o one("publish"), 5, 6)
      BY <2>1, StagedJoined
    <2>4. Elems(one(bump) \o one("publish")) = Elems(one(bump)) \cup Elems(one("publish"))
      BY <2>1, ElemsJoined DEF Staged
    <2>5. QED
      BY <1>7, <2>2, <2>3, <2>4
  <1>9. /\ Staged(test, 3, 3) /\ Staged(wait, 7, 7) /\ Staged(push, 9, 9)
    <2>1. Staged(one("test"), 3, 3) /\ Staged(one("wait-for-index"), 7, 7) /\ Staged(one("push"), 9, 9)
      BY <1>4, <1>5, <1>6
    <2>2. Staged(<<>>, 3, 3) /\ Staged(<<>>, 7, 7) /\ Staged(<<>>, 9, 9)
      BY NoneStaged
    <2>3. QED
      BY <2>1, <2>2
  <1>21. /\ Elems(test) = IF config.RunTest THEN {Act("test", NoDep)} ELSE {}
         /\ Elems(wait) = IF config.WaitForIndex THEN {Act("wait-for-index", NoDep)} ELSE {}
         /\ Elems(push) = IF config.RunPush THEN {Act("push", NoDep)} ELSE {}
    <2>1. Elems(<<>>) = {}
      BY NoneStaged
    <2>2. /\ Elems(one("test")) = {Act("test", NoDep)} /\ Elems(one("push")) = {Act("push", NoDep)}
          /\ Elems(one("wait-for-index")) = {Act("wait-for-index", NoDep)}
      BY <1>4, <1>6
    <2>3. QED
      BY <2>1, <2>2
  <1> HIDE DEF test, wait, push
  <1>10. /\ Staged(settle, 2, 4)
         /\ Elems(settle) = IF deps = <<>> THEN {}
                            ELSE {Act("install", NoDep), Act("commit", NoDep)} \cup Elems(test)
    <2>1. Staged(one("install"), 2, 2) /\ Staged(one("commit"), 4, 4)
      BY <1>4, <1>5, <1>6
    <2>2. Staged(one("install") \o test, 2, 3)
      BY <1>9, <2>1, StagedJoined
    <2>3. Staged(one("install") \o test \o one("commit"), 2, 4)
      BY <2>1, <2>2, StagedJoined
    <2>4. Elems(one("install") \o test \o one("commit")) =
             Elems(one("install")) \cup Elems(test) \cup Elems(one("commit"))
      <3>1. {one("install"), test, one("install") \o test, one("commit")} \subseteq Seq(Steplet)
        BY <1>9, <2>1, <2>2 DEF Staged
      <3>2. Elems(one("install") \o test) = Elems(one("install")) \cup Elems(test)
        BY <3>1, ElemsJoined
      <3>3. QED
        BY <3>1, <3>2, ElemsJoined
    <2>5. Elems(one("install")) = {Act("install", NoDep)} /\ Elems(one("commit")) = {Act("commit", NoDep)}
      BY <1>4, <1>6
    <2>6. Staged(<<>>, 2, 4) /\ Elems(<<>>) = {}
      BY NoneStaged
    <2>7. QED
      BY <2>3, <2>4, <2>5, <2>6
  <1> HIDE DEF settle
  <1>11. Staged(one("preflight-clean-tree"), 0, 0) /\ Staged(one("commit-final"), 8, 8)
    BY <1>4, <1>5, <1>6
  <1> DEFINE p1 == one("preflight-clean-tree") \o update
             p2 == p1 \o settle
             p3 == p2 \o release
             p4 == p3 \o wait
             p5 == p4 \o one("commit-final")
  <1>12. Staged(p1, 0, 1) /\ Elems(p1) = Elems(one("preflight-clean-tree")) \cup Elems(update)
    <2>1. Staged(one("preflight-clean-tree") \o update, 0, 1)
      BY <1>3, <1>11, StagedJoined
    <2>2. Elems(one("preflight-clean-tree") \o update) = Elems(one("preflight-clean-tree")) \cup Elems(update)
      BY <1>3, <1>11, ElemsJoined DEF Staged
    <2>3. QED
      BY <2>1, <2>2
  <1> HIDE DEF p1
  <1>13. Staged(p2, 0, 4) /\ Elems(p2) = Elems(p1) \cup Elems(settle)
    <2>1. Staged(p1 \o settle, 0, 4)
      BY <1>10, <1>12, StagedJoined
    <2>2. Elems(p1 \o settle) = Elems(p1) \cup Elems(settle)
      BY <1>10, <1>12, ElemsJoined DEF Staged
    <2>3. QED
      BY <2>1, <2>2
  <1> HIDE DEF p2
  <1>14. Staged(p3, 0, 6) /\ Elems(p3) = Elems(p2) \cup Elems(release)
    <2>1. Staged(p2 \o release, 0, 6)
      BY <1>8, <1>13, StagedJoined
    <2>2. Elems(p2 \o release) = Elems(p2) \cup Elems(release)
      BY <1>8, <1>13, ElemsJoined DEF Staged
    <2>3. QED
      BY <2>1, <2>2
  <1> HIDE DEF p3
  <1>15. Staged(p4, 0, 7) /\ Elems(p4) = Elems(p3) \cup Elems(wait)
    <2>1. Staged(p3 \o wait, 0, 7)
      BY <1>9, <1>14, StagedJoined
    <2>2. Elems(p3 \o wait) = Elems(p3) \cup Elems(wait)
      BY <1>9, <1>14, ElemsJoined DEF Staged
    <2>3. QED
      BY <2>1, <2>2
  <1> HIDE DEF p4
  <1>16. Staged(p5, 0, 8) /\ Elems(p5) = Elems(p4) \cup Elems(one("commit-final"))
    <2>1. Staged(p4 \o one("commit-final"), 0, 8)
      BY <1>11, <1>15, StagedJoined
    <2>2. Elems(p4 \o one("commit-final")) = Elems(p4) \cup Elems(one("commit-final"))
      BY <1>11, <1>15, ElemsJoined DEF Staged
    <2>3. QED
      BY <2>1, <2>2
  <1> HIDE DEF p5
  <1>17. Staged(p5 \o push, 0, 9) /\ Elems(p5 \o push) = Elems(p5) \cup Elems(push)
    <2>1. Staged(p5 \o push, 0, 9)
      BY <1>9, <1>16, StagedJoined
    <2>2. Elems(p5 \o push) = Elems(p5) \cup Elems(push)
      BY <1>9, <1>16, ElemsJoined DEF Staged
    <2>3. QED
      BY <2>1, <2>2
  <1>18. chain = p5 \o push
    BY <1>1 DEF p1, p2, p3, p4, p5
  <1>19. Elems(chain) = {Act("preflight-clean-tree", NoDep)} \cup Elems(update) \cup Elems(settle)
                        \cup {Act(bump, NoDep), Act("publish", NoDep), Act("commit-final", NoDep)}
                        \cup Elems(wait) \cup Elems(push)
    <2>1. /\ Elems(one("preflight-clean-tree")) = {Act("preflight-clean-tree", NoDep)}
          /\ Elems(one("commit-final")) = {Act("commit-final", NoDep)}
      BY <1>4, <1>6
    <2>2. QED
      BY <1>8, <1>12, <1>13, <1>14, <1>15, <1>16, <1>17, <1>18, <2>1
  <1>20. QED
    BY <1>3, <1>10, <1>17, <1>18, <1>19, <1>21 DEF chain, deps, bump, update

\* What a chain holds comes before everything of a later stage.
LEMMA StagedBefore ==
    ASSUME NEW p, Staged(p, 0, 9), NEW n \in 1..Len(p), NEW op, Stage(p[n].Op) < Stage(op)
    PROVE  Before(p, p[n].Op, op)
  <1> SUFFICES ASSUME NEW j \in DOMAIN p, p[j].Op = op
               PROVE  \E i \in 1..(j - 1) : p[i].Op = p[n].Op
    BY DEF Before
  <1>1. /\ Len(p) \in Nat /\ DOMAIN p = 1..Len(p) /\ p \in Seq(Steplet)
        /\ Stage(p[n].Op) \in 0..9 /\ Stage(p[j].Op) \in 0..9
    BY LenProperties DEF Staged
  <1>2. n < j
    <2>1. n # j
      BY <1>1
    <2>2. ~(j < n)
      <3>1. Stage("update-dep") = 1
        BY DEF Stage
      <3>2. QED
        BY <1>1, <3>1 DEF Staged
    <2>3. QED
      BY <1>1, <2>1, <2>2
  <1>3. QED
    BY <1>1, <1>2

\* A plan never publishes a module the loop emitted before its ranges on the
\* producers of the cone were raised, installed and committed, nor any module
\* before its bump: for every graph and every choice of the optional actions.
THEOREM PublishIsRefreshed == Spec => []PublishRefreshed
  <1>1. PlanInv => PublishRefreshed
    <2> SUFFICES ASSUME PlanInv, phase = "planned", NEW config \in Configs, NEW i \in DOMAIN order
                 PROVE  LET step == RippleSteps(config)[i] IN
                        /\ order[i] \in emitted => RefreshedFirst(step, order[i])
                        /\ \E op \in {"bump", "bump-if-needed"} : Before(step.Actions, op, "publish")
      BY DEF PublishRefreshed
    <2> DEFINE step == RippleSteps(config)[i]
               deps == UpdateDeps(i)
    <2>1. TypeOK /\ ProducersFirst
      BY DEF PlanInv
    <2>2. step.Actions = StepActions(i, config) /\ edges \subseteq Edge
      BY <2>1 DEF RippleSteps, TypeOK
    <2> HIDE DEF step
    <2>6. /\ Staged(step.Actions, 0, 9)
          /\ Act("publish", NoDep) \in Elems(step.Actions)
          /\ \E op \in {"bump", "bump-if-needed"} : Act(op, NoDep) \in Elems(step.Actions)
          /\ deps # <<>> => {Act("install", NoDep), Act("commit", NoDep)} \subseteq Elems(step.Actions)
      BY <2>2, ChainStaged
    <2>7. \A k \in 1..Len(deps) : Act("update-dep", deps[k]) \in Elems(step.Actions)
      BY <2>2, ChainStaged
    <2>3. ASSUME order[i] \in emitted, NEW e \in Live(edges), e.From = order[i], e.To \in visited
          PROVE  \E n \in DOMAIN step.Actions :
                    /\ step.Actions[n] = Act("update-dep", e.To)
                    /\ \A j \in 1..n : step.Actions[j].Op \notin {"install", "commit", "publish"}
                    /\ Before(step.Actions, "install", "publish")
                    /\ Before(step.Actions, "commit", "publish")
      <3>1. e \in edges /\ \E j \in 1..(i - 1) : order[j] = e.To
        BY <2>1, <2>3 DEF ProducersFirst, Live
      <3>2. PICK k \in 1..Len(deps) : deps[k] = e.To
        BY <2>2, <2>3, <3>1, UpdatesListed
      <3>3. deps # <<>>
        BY <3>2
      <3>4. Staged(step.Actions, 0, 9)
            /\ {Act("update-dep", e.To), Act("install", NoDep), Act("commit", NoDep)} \subseteq Elems(step.Actions)
        BY <2>6, <2>7, <3>2, <3>3
      <3>5. PICK n \in 1..Len(step.Actions) : step.Actions[n] = Act("update-dep", e.To)
        BY <3>4 DEF Elems
      <3>6. ASSUME NEW j \in 1..n
            PROVE  step.Actions[j].Op \notin {"install", "commit", "publish"}
        <4>1. /\ Len(step.Actions) \in Nat /\ step.Actions[n].Op = "update-dep"
              /\ Stage("update-dep") = 1 /\ Stage("install") = 2 /\ Stage("commit") = 4 /\ Stage("publish") = 6
          BY <3>4, <3>5, LenProperties DEF Staged, Act, Stage
        <4>2. j = n \/ j < n
          BY <4>1
        <4>3. CASE j < n
          BY <3>4, <4>1, <4>3 DEF Staged
        <4>4. QED
          BY <4>1, <4>2, <4>3
      <3>7. Before(step.Actions, "install", "publish") /\ Before(step.Actions, "commit", "publish")
        <4>1. \A op \in {"install", "commit"} : \E x \in 1..Len(step.Actions) : step.Actions[x].Op = op
          BY <3>4 DEF Elems, Act
        <4>2. Stage("install") < Stage("publish") /\ Stage("commit") < Stage("publish")
          BY DEF Stage
        <4>3. QED
          BY <3>4, <4>1, <4>2, StagedBefore
      <3>8. n \in DOMAIN step.Actions
        BY <3>4, <3>5, LenProperties DEF Staged
      <3>9. QED
        BY <3>5, <3>6, <3>7, <3>8
    <2>4. order[i] \in emitted => RefreshedFirst(step, order[i])
      BY <2>3 DEF RefreshedFirst
    <2>5. \E op \in {"bump", "bump-if-needed"} : Before(step.Actions, op, "publish")
      <3>1. PICK op \in {"bump", "bump-if-needed"} :
                \E n \in 1..Len(step.Actions) : step.Actions[n].Op = op
        BY <2>6 DEF Elems, Act
      <3>2. Stage(op) < Stage("publish")
        BY DEF Stage
      <3>3. QED
        BY <2>6, <3>1, <3>2, StagedBefore
    <2>8. QED
      BY <2>4, <2>5 DEF step
  <1>2. QED
    BY <1>1, PlanInvariant, PTL
=============================================================================
