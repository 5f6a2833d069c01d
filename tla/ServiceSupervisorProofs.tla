----------------------- MODULE ServiceSupervisorProofs -----------------------
(* SupervisorInv is inductive, and the safety properties of ServiceSupervisor follow. *)
EXTENDS ServiceSupervisor, TLAPS

LEMMA ChildrenAre ==
    /\ \A c \in Children : /\ c.start \in Starts /\ c.step \in 0..NumPre[Key[c.start]]
                           /\ c = [start |-> c.start, step |-> c.step]
                           /\ service(c) \in Keys
    /\ \A s \in Starts, j \in Nat : j <= NumPre[Key[s]] => [start |-> s, step |-> j] \in Children
    /\ NoChild \notin Children
  <1>1. \A s \in Starts : Key[s] \in Keys /\ NumPre[Key[s]] \in Nat
    BY SupervisorAssumption
  <1>2. \A c \in Children : \E s \in Starts : c \in [start : {s}, step : 0..NumPre[Key[s]]]
    BY DEF Children
  <1>3. \A s \in Starts : [start : {s}, step : 0..NumPre[Key[s]]] \subseteq Children
    BY DEF Children
  <1>4. ASSUME NEW s \in Starts, NEW j \in Nat, j <= NumPre[Key[s]]
        PROVE  [start |-> s, step |-> j] \in Children
    <2>1. j \in 0..NumPre[Key[s]]
      BY <1>1, <1>4
    <2>2. QED
      BY <2>1, <1>3
  <1>5. \A c \in Children : /\ c.start \in Starts /\ c.step \in 0..NumPre[Key[c.start]]
                            /\ c = [start |-> c.start, step |-> c.step]
                            /\ service(c) \in Keys
    BY <1>1, <1>2 DEF service
  <1>6. NoChild \notin Children
    BY <1>5, SupervisorAssumption DEF NoChild
  <1>7. QED
    BY <1>4, <1>5, <1>6

LEMMA StepCases ==
    ASSUME Next
    PROVE  \/ \E s \in Starts : Start(s)
           \/ \E s \in Starts : RefuseStart(s)
           \/ \E s \in Starts : PollConnects(s)
           \/ \E s \in Starts : PollExpires(s)
           \/ \E k \in Keys : Stop(k)
           \/ Shutdown
           \/ \E c \in Children : Bind(c)
           \/ \E c \in Children : ExitIgnored(c)
           \/ \E c \in Children : ServerExits(c)
           \/ \E c \in Children : PreStepFails(c)
           \/ \E c \in Children : PreStepDone(c)
  BY DEF Next, PreStepEnds

\* Launching a step keeps the variables it sets in their domains.
LEMMA LaunchType ==
    ASSUME TypeOK, NEW s \in Starts, NEW i \in Nat, NEW old \in SUBSET Children,
           NEW kids \in [Children -> {"none", "alive", "gone", "missing"}],
           Launch(s, i, old, kids)
    PROVE  /\ slot' \in [Keys -> Children \cup {NoChild}]
           /\ state' \in [Keys -> Live \cup {"stopped", "failed"}]
           /\ call' \in [Starts -> Settled \cup {"none", "pre", "poll"}]
           /\ child' \in [Children -> {"none", "alive", "gone", "missing"}]
           /\ signalled' \in SUBSET Children
           /\ up' \in BOOLEAN
  <1>1. CASE SpawnThrows(s, old, kids)
    BY <1>1 DEF SpawnThrows, TypeOK, Settled
  <1>2. ASSUME NEW j \in i..NumPre[Key[s]], Spawned(s, j, old, kids) \/ SpawnMissing(s, j, old, kids)
        PROVE  /\ [start |-> s, step |-> j] \in Children
               /\ WaitsFor(s, j) \in Settled \cup {"none", "pre", "poll"}
               /\ ShownBy(s, j) \in Live \cup {"stopped", "failed"}
    <2>1. j \in Nat /\ j <= NumPre[Key[s]]
      BY SupervisorAssumption
    <2>2. QED
      BY <2>1, ChildrenAre DEF WaitsFor, ShownBy, Settled, Live
  <1>3. ASSUME NEW j \in i..NumPre[Key[s]], Spawned(s, j, old, kids)
        PROVE  /\ slot' \in [Keys -> Children \cup {NoChild}]
               /\ state' \in [Keys -> Live \cup {"stopped", "failed"}]
               /\ call' \in [Starts -> Settled \cup {"none", "pre", "poll"}]
               /\ child' \in [Children -> {"none", "alive", "gone", "missing"}]
               /\ signalled' \in SUBSET Children
               /\ up' \in BOOLEAN
    BY <1>2, <1>3 DEF Spawned, TypeOK
  <1>4. ASSUME NEW j \in i..NumPre[Key[s]], SpawnMissing(s, j, old, kids)
        PROVE  /\ slot' \in [Keys -> Children \cup {NoChild}]
               /\ state' \in [Keys -> Live \cup {"stopped", "failed"}]
               /\ call' \in [Starts -> Settled \cup {"none", "pre", "poll"}]
               /\ child' \in [Children -> {"none", "alive", "gone", "missing"}]
               /\ signalled' \in SUBSET Children
               /\ up' \in BOOLEAN
    <2>1. signalled' \in SUBSET Children
      BY <1>4 DEF SpawnMissing, Exits, TypeOK
    <2>2. QED
      BY <1>2, <1>4, <2>1 DEF SpawnMissing, Exits, TypeOK
  <1>5. QED
    BY <1>1, <1>3, <1>4 DEF Launch

\* A step reads and writes within the domains of the variables.
LEMMA TypeStep == TypeOK /\ [Next]_vars => TypeOK'
  <1> SUFFICES ASSUME TypeOK, [Next]_vars PROVE TypeOK'
    OBVIOUS
  <1>1. CASE UNCHANGED vars
    BY <1>1 DEF TypeOK, vars
  <1>2. ASSUME NEW s \in Starts, Start(s) PROVE TypeOK'
    <2>1. Taken(Key[s]) \in SUBSET Children
      BY SupervisorAssumption DEF Taken, TypeOK
    <2>2. 0 \in Nat /\ child \in [Children -> {"none", "alive", "gone", "missing"}]
      BY DEF TypeOK
    <2>3. QED
      BY <1>2, <2>1, <2>2, LaunchType DEF Start, TypeOK
  <1>3. ASSUME NEW s \in Starts, RefuseStart(s) PROVE TypeOK'
    BY <1>3 DEF RefuseStart, TypeOK, Settled
  <1>4. ASSUME NEW s \in Starts, PollConnects(s) PROVE TypeOK'
    BY <1>4 DEF PollConnects, TypeOK, Settled, Live
  <1>5. ASSUME NEW s \in Starts, PollExpires(s) PROVE TypeOK'
    BY <1>5 DEF PollExpires, TypeOK, Settled
  <1>6. ASSUME NEW k \in Keys, Stop(k) PROVE TypeOK'
    BY <1>6 DEF Stop, Taken, TypeOK
  <1>7. CASE Shutdown
    <2>1. signalled' \in SUBSET Children
      BY <1>7 DEF Shutdown, Exits, TypeOK
    <2>2. QED
      BY <1>7, <2>1 DEF Shutdown, Exits, TypeOK
  <1>8. ASSUME NEW c \in Children, Bind(c) PROVE TypeOK'
    BY <1>8 DEF Bind, TypeOK
  <1>9. ASSUME NEW c \in Children, ExitIgnored(c) PROVE TypeOK'
    BY <1>9 DEF ExitIgnored, Gone, TypeOK
  <1>10. ASSUME NEW c \in Children, ServerExits(c) PROVE TypeOK'
    BY <1>10 DEF ServerExits, Gone, TypeOK
  <1>11. ASSUME NEW c \in Children, PreStepFails(c) PROVE TypeOK'
    BY <1>11 DEF PreStepFails, Gone, TypeOK, Settled
  <1>12. ASSUME NEW c \in Children, PreStepDone(c) PROVE TypeOK'
    <2>1. c.start \in Starts /\ c.step + 1 \in Nat
      BY ChildrenAre, SupervisorAssumption
    <2>2. [child EXCEPT ![c] = "gone"] \in [Children -> {"none", "alive", "gone", "missing"}]
      BY DEF TypeOK
    <2>3. bound' \in SUBSET Children /\ owner' = owner
      BY <1>12 DEF PreStepDone, Gone, TypeOK
    <2>4. QED
      BY <1>12, <2>1, <2>2, <2>3, LaunchType DEF PreStepDone, TypeOK
  <1>13. QED
    BY <1>1, <1>2, <1>3, <1>4, <1>5, <1>6, <1>7, <1>8, <1>9, <1>10, <1>11, <1>12, StepCases

-----------------------------------------------------------------------------

LEMMA InitInv == Init => SupervisorInv
  <1> SUFFICES ASSUME Init PROVE SupervisorInv
    OBVIOUS
  <1>1. TypeOK
    BY DEF Init, TypeOK, Live, Settled
  <1>2. NeverOrphaned /\ StatusTrue /\ SpawnedInv /\ LastStepInv
    BY DEF Init, NeverOrphaned, StatusTrue, SpawnedInv, LastStepInv, Live
  <1>3. QED
    BY <1>1, <1>2 DEF SupervisorInv

\* The state of one service agrees with its slot.
Agrees(k) ==
    /\ state[k] \in Live <=> slot[k] # NoChild
    /\ slot[k] # NoChild =>
          /\ child[slot[k]] = "alive" /\ slot[k] \notin signalled
          /\ slot[k].start = owner[k] /\ Key[slot[k].start] = k
          /\ isServer(slot[k]) <=> state[k] \in {"starting", "running"}

\* A turn of start s that has ended or signalled what its service had before,
\* and launches a step s has not come to.
Turn(s, i, old, kids) ==
    /\ up
    /\ Launch(s, i, old, kids)
    /\ kids \in [Children -> {"none", "alive", "gone", "missing"}]
    /\ \A c \in Children : /\ service(c) # Key[s] => kids[c] = child[c]
                           /\ kids[c] = "none" <=> child[c] = "none"
                           /\ service(c) = Key[s] /\ kids[c] = "alive" => c \in signalled \cup old
                           /\ c.start = s /\ i <= c.step => child[c] = "none"
    /\ \A c \in old : c \in Children /\ service(c) = Key[s] /\ child[c] # "none"
    /\ owner' = [owner EXCEPT ![Key[s]] = s]

LEMMA SpawnedStep ==
    ASSUME SupervisorInv, TypeOK', NEW s \in Starts, NEW i \in Nat, NEW old, NEW kids,
           Turn(s, i, old, kids),
           NEW j \in i..NumPre[Key[s]], Spawned(s, j, old, kids)
    PROVE  SupervisorInv'
  <1> DEFINE k == Key[s]
             n == [start |-> s, step |-> j]
  <1>1. /\ j \in Nat /\ j <= NumPre[k] /\ i <= j /\ k \in Keys
        /\ n \in Children /\ n.start = s /\ n.step = j /\ service(n) = k
    BY SupervisorAssumption, ChildrenAre DEF service
  <1>2. /\ child'[n] = "alive" /\ \A c \in Children \ {n} : child'[c] = kids[c]
        /\ child[n] = "none" /\ n \notin signalled' /\ up'
    BY <1>1 DEF Spawned, Turn, SupervisorInv, TypeOK, SpawnedInv
  <1>3. /\ slot'[k] = n /\ \A l \in Keys \ {k} : slot'[l] = slot[l] /\ state'[l] = state[l]
                                                 /\ owner'[l] = owner[l]
        /\ state'[k] = ShownBy(s, j) /\ owner'[k] = s /\ n # NoChild
        /\ call'[s] = WaitsFor(s, j) /\ \A t \in Starts \ {s} : call'[t] = call[t]
    BY <1>1, ChildrenAre DEF Spawned, Turn, SupervisorInv, TypeOK
  <1>4. NeverOrphaned'
    <2> SUFFICES ASSUME NEW c \in Children, child'[c] = "alive", c \notin signalled'
                 PROVE  slot'[service(c)] = c
      BY <1>2 DEF NeverOrphaned
    <2>1. CASE c = n
      BY <2>1, <1>1, <1>3
    <2>2. CASE c # n
      <3>1. service(c) # k /\ child[c] = "alive" /\ c \notin signalled
        BY <2>2, <1>2 DEF Turn, Spawned
      <3>2. QED
        BY <3>1, <1>3, ChildrenAre DEF SupervisorInv, NeverOrphaned
    <2>3. QED
      BY <2>1, <2>2
  <1>5. StatusTrue'
    <2>1. ASSUME NEW l \in Keys, l # k
          PROVE  Agrees(l)'
      <3>1. Agrees(l)
        BY DEF SupervisorInv, StatusTrue, Agrees
      <3>2. CASE slot[l] = NoChild
        BY <3>1, <3>2, <2>1, <1>3 DEF Agrees
      <3>3. CASE slot[l] # NoChild
        <4>1. slot[l] \in Children /\ service(slot[l]) = l
          BY <3>1, <3>3, <2>1 DEF Agrees, SupervisorInv, TypeOK, service
        <4>2. slot[l] # n /\ slot[l] \notin old
          BY <4>1, <2>1, <1>1 DEF Turn
        <4>3. child'[slot[l]] = "alive" /\ slot[l] \notin signalled'
          BY <4>1, <4>2, <3>1, <3>3, <2>1, <1>2 DEF Agrees, Turn, Spawned
        <4>4. QED
          BY <4>3, <3>1, <3>3, <2>1, <1>3 DEF Agrees, isServer, service
      <3>4. QED
        BY <3>2, <3>3
    <2>2. isServer(n) <=> j = NumPre[k]
      BY <1>1 DEF isServer
    <2>3. state'[k] \in Live /\ (j = NumPre[k] <=> state'[k] \in {"starting", "running"})
      BY <1>1, <1>3, SupervisorAssumption DEF ShownBy, Live
    <2>4. Agrees(k)'
      BY <2>2, <2>3, <1>1, <1>2, <1>3 DEF Agrees, isServer, service
    <2>5. QED
      BY <2>1, <2>4 DEF StatusTrue, Agrees
  <1>6. SpawnedInv'
    <2> SUFFICES ASSUME NEW c \in Children
                 PROVE  /\ child'[c] # "none" => call'[c.start] # "none"
                        /\ c \in signalled' => child'[c] # "none"
      BY DEF SpawnedInv
    <2>1. call'[s] # "none"
      BY <1>3 DEF WaitsFor
    <2>2. child'[c] # "none" => call'[c.start] # "none"
      BY <2>1, <1>1, <1>2, <1>3, ChildrenAre DEF Turn, SupervisorInv, SpawnedInv
    <2>3. c \in signalled' => child'[c] # "none"
      BY <1>2 DEF Turn, Spawned, SupervisorInv, SpawnedInv
    <2>4. QED
      BY <2>2, <2>3
  <1>7. LastStepInv'
    <2> SUFFICES ASSUME NEW c \in Children, NEW d \in Children,
                        slot'[service(c)] = c, d.start = c.start, c.step < d.step
                 PROVE  child'[d] = "none"
      BY DEF LastStepInv
    <2>1. CASE service(c) = k
      <3>1. c = n
        BY <2>1, <1>3
      <3>2. d.start = s /\ j < d.step /\ d.step \in Nat
        BY <3>1, <1>1, ChildrenAre, SupervisorAssumption
      <3>3. child[d] = "none" /\ d # n
        BY <3>2, <1>1 DEF Turn
      <3>4. QED
        BY <3>3, <1>2 DEF Turn
    <2>2. CASE service(c) # k
      <3>1. slot[service(c)] = c
        BY <2>2, <1>3, ChildrenAre
      <3>2. child[d] = "none" /\ service(d) # k
        BY <3>1, <2>2 DEF SupervisorInv, LastStepInv, service
      <3>3. QED
        BY <3>2, <1>1, <1>2 DEF Turn
    <2>3. QED
      BY <2>1, <2>2
  <1>8. QED
    BY <1>4, <1>5, <1>6, <1>7 DEF SupervisorInv

LEMMA SpawnThrowsStep ==
    ASSUME SupervisorInv, TypeOK', NEW s \in Starts, NEW i \in Nat, NEW old, NEW kids,
           Turn(s, i, old, kids), SpawnThrows(s, old, kids)
    PROVE  SupervisorInv'
  <1> DEFINE k == Key[s]
  <1>1. k \in Keys
    BY SupervisorAssumption
  <1>2. /\ slot'[k] = NoChild /\ \A l \in Keys \ {k} : slot'[l] = slot[l] /\ state'[l] = state[l]
                                                       /\ owner'[l] = owner[l]
        /\ state'[k] = "failed" /\ child' = kids /\ up'
        /\ call'[s] = "rejected" /\ \A t \in Starts \ {s} : call'[t] = call[t]
    BY <1>1 DEF SpawnThrows, Turn, SupervisorInv, TypeOK
  <1>3. NeverOrphaned'
    <2> SUFFICES ASSUME NEW c \in Children, kids[c] = "alive", c \notin signalled'
                 PROVE  slot'[service(c)] = c
      BY <1>2 DEF NeverOrphaned
    <2>1. service(c) # k /\ child[c] = "alive" /\ c \notin signalled
      BY DEF Turn, SpawnThrows
    <2>2. QED
      BY <2>1, <1>2, ChildrenAre DEF SupervisorInv, NeverOrphaned
  <1>4. StatusTrue'
    <2>1. ASSUME NEW l \in Keys, l # k, slot[l] # NoChild
          PROVE  Agrees(l)'
      <3>1. Agrees(l)
        BY DEF SupervisorInv, StatusTrue, Agrees
      <3>2. slot[l] \in Children /\ service(slot[l]) = l
        BY <3>1, <2>1 DEF Agrees, SupervisorInv, TypeOK, service
      <3>3. kids[slot[l]] = "alive" /\ slot[l] \notin signalled'
        BY <3>1, <3>2, <2>1 DEF Agrees, Turn, SpawnThrows
      <3>4. QED
        BY <3>1, <3>3, <2>1, <1>2 DEF Agrees, isServer, service
    <2>2. ASSUME NEW l \in Keys, l = k \/ slot[l] = NoChild
          PROVE  Agrees(l)'
      BY <2>2, <1>1, <1>2 DEF Agrees, SupervisorInv, StatusTrue, Live
    <2>3. QED
      BY <2>1, <2>2 DEF StatusTrue, Agrees
  <1>5. SpawnedInv'
    BY <1>2, ChildrenAre DEF SpawnedInv, SupervisorInv, Turn, SpawnThrows
  <1>6. LastStepInv'
    <2> SUFFICES ASSUME NEW c \in Children, NEW d \in Children,
                        slot'[service(c)] = c, d.start = c.start, c.step < d.step
                 PROVE  kids[d] = "none"
      BY <1>2 DEF LastStepInv
    <2>1. slot[service(c)] = c
      BY <1>2, ChildrenAre
    <2>2. QED
      BY <2>1 DEF SupervisorInv, LastStepInv, Turn
  <1>7. QED
    BY <1>3, <1>4, <1>5, <1>6 DEF SupervisorInv

\* When the manager ends every slot is empty and nothing is left unsignalled.
LEMMA ExitsStep ==
    ASSUME SupervisorInv, TypeOK', NEW old, NEW held, Exits(old, held),
           \A c \in Children :
              child'[c] = "alive" /\ c \notin signalled \cup old => slot[service(c)] = c /\ service(c) \in held,
           SpawnedInv'
    PROVE  SupervisorInv'
  <1>1. NeverOrphaned'
    <2> SUFFICES ASSUME NEW c \in Children, child'[c] = "alive" PROVE c \in signalled'
      BY DEF NeverOrphaned
    <2>1. QED
      BY ChildrenAre DEF Exits
  <1>2. StatusTrue'
    BY DEF StatusTrue, Exits, Live
  <1>3. LastStepInv'
    BY ChildrenAre DEF LastStepInv, Exits
  <1>4. QED
    BY <1>1, <1>2, <1>3 DEF SupervisorInv

LEMMA SpawnMissingStep ==
    ASSUME SupervisorInv, TypeOK', NEW s \in Starts, NEW i \in Nat, NEW old, NEW kids,
           Turn(s, i, old, kids),
           NEW j \in i..NumPre[Key[s]], SpawnMissing(s, j, old, kids)
    PROVE  SupervisorInv'
  <1> DEFINE k == Key[s]
             n == [start |-> s, step |-> j]
  <1>1. j \in Nat /\ j <= NumPre[k] /\ k \in Keys /\ n \in Children /\ n.start = s /\ service(n) = k
    BY SupervisorAssumption, ChildrenAre DEF service
  <1>2. child'[n] = "missing" /\ \A c \in Children \ {n} : child'[c] = kids[c]
    BY <1>1 DEF SpawnMissing, Turn
  <1>3. /\ call'[s] # "none" /\ \A t \in Starts \ {s} : call'[t] = call[t]
    BY DEF SpawnMissing, WaitsFor, SupervisorInv, TypeOK
  <1>4. Exits(old, Keys \ {k})
    BY DEF SpawnMissing
  <1>5. ASSUME NEW c \in Children, child'[c] = "alive", c \notin signalled \cup old
        PROVE  slot[service(c)] = c /\ service(c) \in Keys \ {k}
    <2>1. c # n /\ kids[c] = "alive" /\ service(c) # k
      BY <1>1, <1>2, <1>5 DEF Turn
    <2>2. QED
      BY <2>1, <1>5, ChildrenAre DEF Turn, SupervisorInv, NeverOrphaned
  <1>6. SpawnedInv'
    <2> SUFFICES ASSUME NEW c \in Children
                 PROVE  /\ child'[c] # "none" => call'[c.start] # "none"
                        /\ c \in signalled' => child'[c] # "none"
      BY DEF SpawnedInv
    <2>1. child'[c] # "none" => call'[c.start] # "none"
      BY <1>1, <1>2, <1>3, ChildrenAre DEF Turn, SupervisorInv, SpawnedInv
    <2>2. \A l \in Keys : slot[l] # NoChild => child[slot[l]] # "none"
      BY DEF SupervisorInv, StatusTrue
    <2>3. c \in signalled' => child[c] # "none"
      BY <1>4, <2>2 DEF Turn, Exits, SupervisorInv, SpawnedInv
    <2>4. QED
      BY <2>1, <2>3, <1>2 DEF Turn
  <1>7. QED
    BY <1>4, <1>5, <1>6, ExitsStep

LEMMA TurnStep ==
    ASSUME SupervisorInv, TypeOK', NEW s \in Starts, NEW i \in Nat, NEW old, NEW kids,
           Turn(s, i, old, kids)
    PROVE  SupervisorInv'
  <1>1. Launch(s, i, old, kids)
    BY DEF Turn
  <1>2. QED
    BY <1>1, SpawnedStep, SpawnThrowsStep, SpawnMissingStep DEF Launch

LEMMA StartStep ==
    ASSUME SupervisorInv, TypeOK', NEW s \in Starts, Start(s)
    PROVE  SupervisorInv'
  <1> DEFINE old == Taken(Key[s])
  <1>1. Key[s] \in Keys
    BY SupervisorAssumption
  <1>2. \A c \in old : c \in Children /\ service(c) = Key[s] /\ child[c] # "none"
    BY <1>1 DEF Taken, SupervisorInv, TypeOK, StatusTrue, service
  <1>3. \A c \in Children : service(c) = Key[s] /\ child[c] = "alive" => c \in signalled \cup old
    BY ChildrenAre DEF Taken, SupervisorInv, NeverOrphaned
  <1>4. \A c \in Children : c.start = s => child[c] = "none"
    BY DEF Start, SupervisorInv, SpawnedInv
  <1>5. Turn(s, 0, old, child)
    BY <1>2, <1>3, <1>4 DEF Turn, Start, SupervisorInv, TypeOK
  <1>6. QED
    BY <1>5, TurnStep

LEMMA PreStepDoneStep ==
    ASSUME SupervisorInv, TypeOK', NEW c \in Children, PreStepDone(c)
    PROVE  SupervisorInv'
  <1> DEFINE kids == [child EXCEPT ![c] = "gone"]
             s == c.start
  <1>1. s \in Starts /\ c.step \in Nat /\ Key[s] = service(c) /\ service(c) \in Keys
    BY ChildrenAre, SupervisorAssumption DEF service
  <1>2. /\ kids \in [Children -> {"none", "alive", "gone", "missing"}]
        /\ kids[c] = "gone" /\ \A d \in Children \ {c} : kids[d] = child[d]
        /\ child[c] = "alive" /\ slot[service(c)] = c /\ up
    BY DEF PreStepDone, Gone, Owns, SupervisorInv, TypeOK
  <1>3. \A d \in Children : service(d) = Key[s] /\ kids[d] = "alive" => d \in signalled
    BY <1>1, <1>2 DEF SupervisorInv, NeverOrphaned
  <1>4. ASSUME NEW d \in Children, d.start = s, c.step + 1 <= d.step PROVE child[d] = "none"
    <2>1. c.step < d.step
      BY <1>4, <1>1, ChildrenAre, SupervisorAssumption
    <2>2. QED
      BY <1>2, <1>4, <2>1 DEF SupervisorInv, LastStepInv
  <1>5. owner[Key[s]] = s /\ owner' = owner
    <2>1. slot[service(c)].start = owner[service(c)]
      BY <1>1, <1>2, ChildrenAre DEF SupervisorInv, StatusTrue
    <2>2. QED
      BY <1>1, <1>2, <2>1 DEF PreStepDone
  <1>6. owner' = [owner EXCEPT ![Key[s]] = s]
    BY <1>1, <1>5 DEF SupervisorInv, TypeOK
  <1>7. Turn(s, c.step + 1, {}, kids)
    BY <1>1, <1>2, <1>3, <1>4, <1>6 DEF Turn, PreStepDone
  <1>8. c.step + 1 \in Nat
    BY <1>1
  <1>9. QED
    BY <1>1, <1>7, <1>8, TurnStep

LEMMA StopStep ==
    ASSUME SupervisorInv, TypeOK', NEW k \in Keys, Stop(k)
    PROVE  SupervisorInv'
  <1>1. /\ slot'[k] = NoChild /\ \A l \in Keys \ {k} : slot'[l] = slot[l] /\ state'[l] = state[l]
                                                       /\ owner'[l] = owner[l]
        /\ state'[k] = "stopped" /\ child' = child /\ call' = call /\ up /\ up' = up
        /\ signalled' = signalled \cup Taken(k)
    BY DEF Stop, SupervisorInv, TypeOK
  <1>2. NeverOrphaned'
    BY <1>1, ChildrenAre DEF SupervisorInv, NeverOrphaned, Taken
  <1>3. StatusTrue'
    <2>1. ASSUME NEW l \in Keys, l # k PROVE Agrees(l)'
      <3>1. Agrees(l)
        BY DEF SupervisorInv, StatusTrue, Agrees
      <3>2. slot[l] # NoChild => slot[l] # slot[k]
        <4>1. slot[k] # NoChild => Key[slot[k].start] = k
          BY DEF SupervisorInv, StatusTrue
        <4>2. QED
          BY <4>1, <3>1, <2>1 DEF Agrees
      <3>3. QED
        BY <3>1, <3>2, <2>1, <1>1 DEF Agrees, Taken, isServer, service
    <2>2. Agrees(k)'
      BY <1>1 DEF Agrees, Live
    <2>3. QED
      BY <2>1, <2>2 DEF StatusTrue, Agrees
  <1>4. SpawnedInv'
    <2>1. slot[k] # NoChild => child[slot[k]] # "none"
      BY DEF SupervisorInv, StatusTrue
    <2>2. QED
      BY <1>1, <2>1 DEF SupervisorInv, SpawnedInv, Taken
  <1>5. LastStepInv'
    BY <1>1, ChildrenAre DEF SupervisorInv, LastStepInv
  <1>6. QED
    BY <1>2, <1>3, <1>4, <1>5 DEF SupervisorInv

LEMMA ShutdownStep ==
    ASSUME SupervisorInv, TypeOK', Shutdown
    PROVE  SupervisorInv'
  <1>1. Exits({}, Keys) /\ child' = child /\ call' = call
    BY DEF Shutdown
  <1>2. \A c \in Children : child[c] = "alive" /\ c \notin signalled => slot[service(c)] = c /\ service(c) \in Keys
    BY ChildrenAre DEF SupervisorInv, NeverOrphaned
  <1>3. \A k \in Keys : slot[k] # NoChild => child[slot[k]] # "none"
    BY DEF SupervisorInv, StatusTrue
  <1>4. SpawnedInv'
    BY <1>1, <1>3 DEF SupervisorInv, SpawnedInv, Exits
  <1>5. QED
    BY <1>1, <1>2, <1>4, ExitsStep

\* A child ends that its slot holds, and the slot is emptied.
LEMMA SlotExits ==
    ASSUME SupervisorInv, TypeOK', NEW c \in Children, Gone(c), Owns(c),
           child' = [child EXCEPT ![c] = "gone"],
           slot' = [slot EXCEPT ![service(c)] = NoChild],
           NEW v \in {"stopped", "failed"}, state' = [state EXCEPT ![service(c)] = v],
           \A s \in Starts : call[s] # "none" => call'[s] # "none",
           UNCHANGED <<signalled, up, owner>>
    PROVE  SupervisorInv'
  <1> DEFINE k == service(c)
  <1>1. /\ k \in Keys /\ slot[k] = c /\ slot'[k] = NoChild /\ state'[k] = v
        /\ \A l \in Keys \ {k} : slot'[l] = slot[l] /\ state'[l] = state[l]
        /\ child'[c] = "gone" /\ \A d \in Children \ {c} : child'[d] = child[d]
    BY ChildrenAre DEF Owns, SupervisorInv, TypeOK
  <1>2. NeverOrphaned'
    BY <1>1, ChildrenAre DEF SupervisorInv, NeverOrphaned
  <1>3. StatusTrue'
    <2>1. ASSUME NEW l \in Keys, l # k PROVE Agrees(l)'
      <3>1. Agrees(l)
        BY DEF SupervisorInv, StatusTrue, Agrees
      <3>2. slot[l] # NoChild => slot[l] # c /\ slot[l] \in Children
        BY <3>1, <2>1 DEF Agrees, service, SupervisorInv, TypeOK
      <3>3. QED
        BY <3>1, <3>2, <2>1, <1>1 DEF Agrees, isServer, service
    <2>2. Agrees(k)'
      BY <1>1 DEF Agrees, Live
    <2>3. QED
      BY <2>1, <2>2 DEF StatusTrue, Agrees
  <1>4. SpawnedInv'
    BY <1>1, ChildrenAre DEF SupervisorInv, SpawnedInv, Gone
  <1>5. LastStepInv'
    <2> SUFFICES ASSUME NEW e \in Children, NEW d \in Children,
                        slot'[service(e)] = e, d.start = e.start, e.step < d.step
                 PROVE  child'[d] = "none"
      BY DEF LastStepInv
    <2>1. slot[service(e)] = e /\ service(e) # k
      BY <1>1, ChildrenAre
    <2>2. d # c
      BY <2>1 DEF service
    <2>3. QED
      BY <1>1, <2>1, <2>2 DEF SupervisorInv, LastStepInv
  <1>6. QED
    BY <1>2, <1>3, <1>4, <1>5 DEF SupervisorInv

LEMMA ExitIgnoredStep ==
    ASSUME SupervisorInv, TypeOK', NEW c \in Children, ExitIgnored(c)
    PROVE  SupervisorInv'
  <1>1. /\ child'[c] = "gone" /\ \A d \in Children \ {c} : child'[d] = child[d]
        /\ child[c] = "alive" /\ UNCHANGED <<slot, state, call, signalled, up, owner>>
    BY DEF ExitIgnored, Gone, SupervisorInv, TypeOK
  <1>2. c \in signalled
    BY <1>1 DEF ExitIgnored, Owns, SupervisorInv, NeverOrphaned
  <1>3. NeverOrphaned'
    BY <1>1 DEF SupervisorInv, NeverOrphaned
  <1>4. StatusTrue'
    <2>1. \A k \in Keys : slot[k] # NoChild => slot[k] \in Children /\ slot[k] # c
      BY <1>2 DEF SupervisorInv, StatusTrue, TypeOK
    <2>2. QED
      BY <1>1, <2>1 DEF SupervisorInv, StatusTrue
  <1>5. SpawnedInv' /\ LastStepInv'
    BY <1>1 DEF SupervisorInv, SpawnedInv, LastStepInv
  <1>6. QED
    BY <1>3, <1>4, <1>5 DEF SupervisorInv

\* A step that leaves slots and processes alone, and shows a server as running
\* only in the slot that holds it.
LEMMA QuietStep ==
    ASSUME SupervisorInv, TypeOK', UNCHANGED <<slot, child, signalled, up, owner>>,
           \A s \in Starts : call[s] # "none" => call'[s] # "none",
           \A k \in Keys : state'[k] = state[k] \/ /\ slot[k] # NoChild /\ isServer(slot[k])
                                                   /\ state'[k] = "running"
    PROVE  SupervisorInv'
  <1>1. NeverOrphaned' /\ LastStepInv'
    BY DEF SupervisorInv, NeverOrphaned, LastStepInv
  <1>2. SpawnedInv'
    BY ChildrenAre DEF SupervisorInv, SpawnedInv
  <1>3. StatusTrue'
    <2>1. ASSUME NEW k \in Keys PROVE Agrees(k)'
      BY DEF SupervisorInv, StatusTrue, Agrees, Live
    <2>2. QED
      BY <2>1 DEF StatusTrue, Agrees
  <1>4. QED
    BY <1>1, <1>2, <1>3 DEF SupervisorInv

LEMMA SupervisorInvStep == SupervisorInv /\ [Next]_vars => SupervisorInv'
  <1> SUFFICES ASSUME SupervisorInv, [Next]_vars PROVE SupervisorInv'
    OBVIOUS
  <1>1. TypeOK'
    BY TypeStep DEF SupervisorInv
  <1>2. CASE UNCHANGED vars
    BY <1>1, <1>2, QuietStep DEF vars
  <1>3. ASSUME NEW s \in Starts, RefuseStart(s) \/ PollExpires(s) PROVE SupervisorInv'
    <2>1. \A t \in Starts : call[t] # "none" => call'[t] # "none"
      BY <1>3 DEF RefuseStart, PollExpires, SupervisorInv, TypeOK
    <2>2. QED
      BY <1>1, <1>3, <2>1, QuietStep DEF RefuseStart, PollExpires
  <1>4. ASSUME NEW s \in Starts, PollConnects(s) PROVE SupervisorInv'
    <2>1. \A t \in Starts : call[t] # "none" => call'[t] # "none"
      BY <1>4 DEF PollConnects, SupervisorInv, TypeOK
    <2>2. Key[s] \in Keys /\ server(s) # NoChild /\ isServer(server(s))
      BY SupervisorAssumption DEF server, isServer, service, NoChild
    <2>3. \A k \in Keys : state'[k] = state[k] \/ /\ slot[k] # NoChild /\ isServer(slot[k])
                                                  /\ state'[k] = "running"
      BY <1>4, <2>2 DEF PollConnects, Ready, SupervisorInv, TypeOK
    <2>4. QED
      BY <1>1, <1>4, <2>1, <2>3, QuietStep DEF PollConnects
  <1>5. ASSUME NEW c \in Children, Bind(c) PROVE SupervisorInv'
    BY <1>1, <1>5, QuietStep DEF Bind
  <1>6. ASSUME NEW c \in Children, ServerExits(c) PROVE SupervisorInv'
    BY <1>1, <1>6, SlotExits DEF ServerExits
  <1>7. ASSUME NEW c \in Children, PreStepFails(c) PROVE SupervisorInv'
    <2>1. \A t \in Starts : call[t] # "none" => call'[t] # "none"
      BY <1>7 DEF PreStepFails, SupervisorInv, TypeOK
    <2>2. QED
      BY <1>1, <1>7, <2>1, SlotExits DEF PreStepFails
  <1>8. QED
    BY <1>1, <1>2, <1>3, <1>4, <1>5, <1>6, <1>7, StepCases, StartStep, PreStepDoneStep,
       StopStep, ShutdownStep, ExitIgnoredStep

-----------------------------------------------------------------------------
(* Results. *)

\* Every variable of the supervisor stays in its domain.
THEOREM SupervisorTypeCorrect == Spec => []TypeOK
  <1>1. Init => TypeOK
    BY InitInv DEF SupervisorInv
  <1>2. QED
    BY <1>1, TypeStep, PTL DEF Spec

\* Slots, processes and starts agree, for any services, pre-steps and ports.
THEOREM SupervisorInvariant == Spec => []SupervisorInv
  BY InitInv, SupervisorInvStep, PTL DEF Spec

\* No child is left running that the supervisor does not know of.
THEOREM NeverOrphanedHolds == Spec => []NeverOrphaned
  <1>1. SupervisorInv => NeverOrphaned
    BY DEF SupervisorInv
  <1>2. QED
    BY <1>1, SupervisorInvariant, PTL

\* The status of a service is that of the living child of its last start.
THEOREM StatusTrueHolds == Spec => []StatusTrue
  <1>1. SupervisorInv => StatusTrue
    BY DEF SupervisorInv
  <1>2. QED
    BY <1>1, SupervisorInvariant, PTL

\* Nothing is spawned for a start that was stopped or replaced.
THEOREM StoppedStaysStoppedHolds == Spec => StoppedStaysStopped
  <1> DEFINE Owned == \A c \in Children : child[c] = "none" /\ child'[c] # "none" => owner'[service(c)] = c.start
  <1>1. ASSUME NEW s \in Starts, NEW i \in Nat, NEW old, NEW kids, Launch(s, i, old, kids),
               \A c \in Children : kids[c] = "none" <=> child[c] = "none",
               kids \in [Children -> {"none", "alive", "gone", "missing"}],
               owner'[Key[s]] = s
        PROVE  Owned
    <2> SUFFICES ASSUME NEW c \in Children, child[c] = "none", child'[c] # "none"
                 PROVE  owner'[service(c)] = c.start
      OBVIOUS
    <2>1. PICK j \in i..NumPre[Key[s]] : Spawned(s, j, old, kids) \/ SpawnMissing(s, j, old, kids)
      BY <1>1 DEF Launch, SpawnThrows
    <2>2. c = [start |-> s, step |-> j]
      BY <1>1, <2>1 DEF Spawned, SpawnMissing
    <2>3. QED
      BY <1>1, <2>2 DEF service
  <1>2. ASSUME SupervisorInv, NEW s \in Starts, Start(s) PROVE Owned
    <2>1. owner'[Key[s]] = s
      BY <1>2, SupervisorAssumption DEF Start, SupervisorInv, TypeOK
    <2>2. child \in [Children -> {"none", "alive", "gone", "missing"}]
      BY <1>2 DEF SupervisorInv, TypeOK
    <2>3. QED
      BY <1>1, <1>2, <2>1, <2>2 DEF Start
  <1>3. ASSUME SupervisorInv, NEW c \in Children, PreStepDone(c) PROVE Owned
    <2> DEFINE kids == [child EXCEPT ![c] = "gone"]
    <2>1. c.start \in Starts /\ c.step + 1 \in Nat /\ service(c) \in Keys /\ Key[c.start] = service(c)
      BY ChildrenAre, SupervisorAssumption DEF service
    <2>2. /\ kids \in [Children -> {"none", "alive", "gone", "missing"}]
          /\ \A d \in Children : kids[d] = "none" <=> child[d] = "none"
      BY <1>3 DEF PreStepDone, Gone, SupervisorInv, TypeOK
    <2>3. slot[service(c)] = c /\ c # NoChild /\ owner' = owner
      BY <1>3, ChildrenAre DEF PreStepDone, Owns
    <2>4. owner'[Key[c.start]] = c.start
      BY <1>3, <2>1, <2>3 DEF SupervisorInv, StatusTrue
    <2>5. Launch(c.start, c.step + 1, {}, kids)
      BY <1>3 DEF PreStepDone
    <2>6. QED
      BY <1>1, <2>1, <2>2, <2>4, <2>5
  <1>4. ASSUME SupervisorInv, NEW c \in Children, child' = [child EXCEPT ![c] = "gone"], child[c] = "alive"
        PROVE  Owned
    BY <1>4 DEF SupervisorInv, TypeOK
  <1>5. ASSUME child' = child PROVE Owned
    BY <1>5
  <1>6. SupervisorInv /\ [Next]_vars => [Owned]_vars
    BY <1>2, <1>3, <1>4, <1>5, StepCases
    DEF RefuseStart, PollConnects, PollExpires, Stop, Shutdown, Bind, ExitIgnored, ServerExits,
        PreStepFails, Gone, vars
  <1>7. QED
    BY <1>6, SupervisorInvariant, PTL DEF Spec, StoppedStaysStopped
=============================================================================
