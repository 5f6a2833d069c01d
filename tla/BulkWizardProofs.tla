--------------------------- MODULE BulkWizardProofs ---------------------------
(***************************************************************************)
(* Theorems about BulkEngine, for every set of runs, plan and pool size:   *)
(* type correctness, the inductive invariants behind the safety            *)
(* properties, and that the engine implements BulkRun.  Then those about   *)
(* BulkWizard: every step of it is one of the engine or leaves the engine  *)
(* alone, so that the engine's invariants hold in it, and on these rests   *)
(* what the operator clicked and what the screen shows.                    *)
(***************************************************************************)
EXTENDS BulkWizard, SequenceTheorems, TLAPS

\* Every kind of step that is not an operator's call or a crash.
LEMMA StepCases ==
    ASSUME Next
    PROVE  \/ \E r \in Runs : Execute(r)
           \/ \E r \in Runs : Finalize(r)
           \/ \E r \in Runs, w \in Pool : TakeStep(r, w)
           \/ \E r \in Runs, w \in Pool : LeaveLoop(r, w)
           \/ \E r \in Runs, w \in Pool : NextAction(r, w)
           \/ \E r \in Runs, w \in Pool : UnknownOp(r, w)
           \/ \E r \in Runs, w \in Pool : EndStep(r, w)
           \/ \E r \in Runs, w \in Pool : OpenGate(r, w)
           \/ \E r \in Runs, w \in Pool : PassGate(r, w)
           \/ \E r \in Runs, w \in Pool : RefuseGate(r, w)
           \/ \E r \in Runs, w \in Pool, o \in {"Complete", "Skipped"} : TaskReturns(r, w, o)
           \/ \E r \in Runs, w \in Pool : TaskThrows(r, w)
           \/ \E r \in Runs, b \in BOOLEAN : Run(r, b)
           \/ \E r \in Runs, g \in Gate : Confirm(r, g)
           \/ \E r \in Runs, g \in Gate : ConfirmSkip(r, g)
           \/ \E r \in Runs : Cancel(r)
           \/ \E r \in Runs : Retry(r)
           \/ Crash
  BY DEF Next, WorkerTurn, Answer, Operator

\* Where a worker is determines the shape of its place.
LEMMA PlaceShape ==
    ASSUME TypeOK, NEW r \in Runs, NEW w \in Pool
    PROVE  /\ worker[r][w].pc \in {"validate", "gate", "exec"} =>
                worker[r][w].step \in Steps /\ worker[r][w].action \in Actions
           /\ worker[r][w].pc = "action" =>
                worker[r][w].step \in Steps /\ worker[r][w].action \in 1..(NumActions + 1)
  <1>1. worker[r][w] \in Places
    BY DEF TypeOK
  <1>2. QED
    BY <1>1 DEF Places, Off, AtLoop

LEMMA CheckpointType ==
    ASSUME TypeOK, NEW r \in Runs, checkpoint(r),
           status' \in [Runs -> RunStates \cup {"Absent"}],
           step' \in [Runs -> [Steps -> StepStates]],
           act' \in [Runs -> [Steps -> [Actions -> StepStates]]]
    PROVE  disk' \in [Runs -> RecordType]
  BY DEF TypeOK, checkpoint, RecordType

LEMMA SetActionType ==
    ASSUME TypeOK, NEW r \in Runs, NEW s \in Steps, NEW a \in Actions,
           NEW v \in StepStates, SetAction(r, s, a, v)
    PROVE  act' \in [Runs -> [Steps -> [Actions -> StepStates]]]
  BY DEF TypeOK, SetAction

LEMMA PlacesOn ==
    ASSUME NEW s \in Steps, NEW a \in Actions
    PROVE  /\ On("action", s, a) \in Places
           /\ On("action", s, 1) \in Places
           /\ On("action", s, a + 1) \in Places
           /\ \A p \in {"validate", "gate", "exec"} : On(p, s, a) \in Places
           /\ Off \in Places
           /\ AtLoop \in Places
  BY EngineAssumption DEF Places, On, Off, AtLoop, Steps, Actions

LEMMA FailActionType ==
    ASSUME TypeOK, NEW r \in Runs, NEW w \in Pool, FailAction(r, w),
           worker[r][w].step \in Steps, worker[r][w].action \in Actions
    PROVE  TypeOK'
  <1> DEFINE s == worker[r][w].step
             a == worker[r][w].action
  <1>1. act' \in [Runs -> [Steps -> [Actions -> StepStates]]]
    <2>1. SetAction(r, s, a, "Error")
      BY DEF FailAction
    <2>2. QED
      BY <2>1, SetActionType DEF StepStates
  <1>2. step' \in [Runs -> [Steps -> StepStates]] /\ status' = status
    BY DEF FailAction, TypeOK, StepStates
  <1>3. disk' \in [Runs -> RecordType]
    BY <1>1, <1>2, CheckpointType DEF FailAction, TypeOK
  <1>4. worker' \in [Runs -> [Pool -> Places]]
    BY PlacesOn DEF FailAction, MoveTo, AfterError, TypeOK
  <1>5. QED
    BY <1>1, <1>2, <1>3, <1>4 DEF FailAction, TypeOK, context, client

LEMMA SkipAtType ==
    ASSUME TypeOK, NEW r \in Runs, NEW g \in Gate, SkipAt(r, g)
    PROVE  /\ act' \in [Runs -> [Steps -> [Actions -> StepStates]]]
           /\ worker' \in [Runs -> [Pool -> Places]]
  <1>1. g.step \in Steps /\ g.action \in Actions
    BY DEF Gate
  <1>2. act' \in [Runs -> [Steps -> [Actions -> StepStates]]]
    BY <1>1, SetActionType DEF SkipAt, StepStates
  <1>3. On("action", g.step, g.action + 1) \in Places
    BY <1>1, PlacesOn
  <1>4. QED
    BY <1>2, <1>3 DEF SkipAt, TypeOK

\* Each kind of step keeps every variable in its domain.
LEMMA TypeStep == TypeOK /\ [Next]_vars => TypeOK'
  <1> SUFFICES ASSUME TypeOK, [Next]_vars PROVE TypeOK'
    OBVIOUS
  <1>1. ASSUME NEW r \in Runs, Execute(r) PROVE TypeOK'
    <2>1. status' \in [Runs -> RunStates \cup {"Absent"}] /\ UNCHANGED <<step, act>>
      BY <1>1 DEF Execute, TypeOK, RunStates
    <2>2. disk' \in [Runs -> RecordType]
      BY <1>1, <2>1, CheckpointType DEF Execute, TypeOK
    <2>3. worker' \in [Runs -> [Pool -> Places]]
      BY <1>1 DEF Execute, StartWorkers, TypeOK, Places
    <2>4. QED
      BY <1>1, <2>1, <2>2, <2>3 DEF Execute, TypeOK, context, client
  <1>2. ASSUME NEW r \in Runs, Finalize(r) PROVE TypeOK'
    <2>1. status' \in [Runs -> RunStates \cup {"Absent"}] /\ UNCHANGED <<step, act>>
      BY <1>2 DEF Finalize, Verdict, TypeOK, RunStates
    <2>2. disk' \in [Runs -> RecordType]
      BY <1>2, <2>1, CheckpointType DEF Finalize, TypeOK
    <2>3. QED
      BY <1>2, <2>1, <2>2 DEF Finalize, TypeOK, context, client
  <1>3. ASSUME NEW r \in Runs, NEW w \in Pool, TakeStep(r, w) PROVE TypeOK'
    <2>1. PICK s \in queue[r] : /\ queue' = [queue EXCEPT ![r] = AfterTaking(r, s)]
                                /\ step' = [step EXCEPT ![r][s] = "Running"]
                                /\ MoveTo(r, w, On("action", s, 1))
      BY <1>3 DEF TakeStep
    <2>2. s \in Steps
      BY DEF TypeOK
    <2>3. step' \in [Runs -> [Steps -> StepStates]] /\ UNCHANGED <<status, act>>
      BY <1>3, <2>1, <2>2 DEF TakeStep, TypeOK, StepStates
    <2>4. disk' \in [Runs -> RecordType]
      BY <1>3, <2>3, CheckpointType DEF TakeStep, TypeOK
    <2>5. On("action", s, 1) \in Places
      BY <2>2, EngineAssumption DEF Places, On
    <2>6. QED
      BY <1>3, <2>1, <2>3, <2>4, <2>5 DEF TakeStep, AfterTaking, MoveTo, TypeOK, context, client
  <1>4. ASSUME NEW r \in Runs, NEW w \in Pool, LeaveLoop(r, w) PROVE TypeOK'
    BY <1>4 DEF LeaveLoop, MoveTo, TypeOK, Places, record, context, client
  <1>5. ASSUME NEW r \in Runs, NEW w \in Pool, NextAction(r, w) PROVE TypeOK'
    <2> DEFINE s == worker[r][w].step
               a == worker[r][w].action
    <2>1. s \in Steps /\ a \in Actions
      BY <1>5, PlaceShape DEF NextAction, At
    <2>2. act' \in [Runs -> [Steps -> [Actions -> StepStates]]]
      BY <1>5, <2>1, SetActionType DEF NextAction, TypeOK, StepStates
    <2>3. worker' \in [Runs -> [Pool -> Places]]
      <3>1. /\ On("action", s, a + 1) \in Places
            /\ On("validate", s, a) \in Places
            /\ On("exec", s, a) \in Places
        BY <2>1, PlacesOn
      <3>2. PICK place \in Places : worker' = [worker EXCEPT ![r][w] = place]
        BY <1>5, <3>1 DEF NextAction, MoveTo
      <3>3. QED
        BY <3>2 DEF TypeOK
    <2>4. QED
      BY <1>5, <2>2, <2>3 DEF NextAction, TypeOK, context, client
  <1>6. ASSUME NEW r \in Runs, NEW w \in Pool, UnknownOp(r, w) PROVE TypeOK'
    BY <1>6, PlaceShape, FailActionType DEF UnknownOp, At
  <1>7. ASSUME NEW r \in Runs, NEW w \in Pool, EndStep(r, w) PROVE TypeOK'
    <2>1. step' \in [Runs -> [Steps -> StepStates]] /\ UNCHANGED <<status, act>>
      BY <1>7, PlaceShape DEF EndStep, At, TypeOK, StepStates
    <2>2. disk' \in [Runs -> RecordType]
      BY <1>7, <2>1, CheckpointType DEF EndStep, TypeOK
    <2>3. QED
      BY <1>7, <2>1, <2>2 DEF EndStep, MoveTo, TypeOK, Places, context, client
  <1>8. ASSUME NEW r \in Runs, NEW w \in Pool, OpenGate(r, w) PROVE TypeOK'
    <2> DEFINE g == [step |-> worker[r][w].step, action |-> worker[r][w].action]
    <2>1. g \in Gate
      BY <1>8, PlaceShape DEF OpenGate, At, Gate
    <2>2. status' \in [Runs -> RunStates \cup {"Absent"}] /\ UNCHANGED <<step, act>>
      BY <1>8 DEF OpenGate, TypeOK, RunStates
    <2>3. disk' \in [Runs -> RecordType]
      BY <1>8, <2>2, CheckpointType DEF OpenGate, TypeOK
    <2>4. worker' \in [Runs -> [Pool -> Places]]
      BY <1>8, <2>1, PlacesOn DEF OpenGate, MoveTo, TypeOK, Gate
    <2>5. pending' \in [Runs -> Gate \cup {NoGate}] /\ shown' \in [Runs -> SUBSET Gate]
      BY <1>8, <2>1 DEF OpenGate, TypeOK
    <2>6. QED
      BY <1>8, <2>2, <2>3, <2>4, <2>5 DEF OpenGate, TypeOK, context
  <1>9. ASSUME NEW r \in Runs, NEW w \in Pool, PassGate(r, w) PROVE TypeOK'
    <2>1. On("exec", worker[r][w].step, worker[r][w].action) \in Places
      BY <1>9, PlaceShape, PlacesOn DEF PassGate, At
    <2>2. QED
      BY <1>9, <2>1 DEF PassGate, MoveTo, TypeOK, record, context, client
  <1>10. ASSUME NEW r \in Runs, NEW w \in Pool, RefuseGate(r, w) PROVE TypeOK'
    BY <1>10, PlaceShape, FailActionType DEF RefuseGate, At
  <1>11. ASSUME NEW r \in Runs, NEW w \in Pool, NEW o \in {"Complete", "Skipped"},
                TaskReturns(r, w, o)
         PROVE TypeOK'
    <2> DEFINE s == worker[r][w].step
               a == worker[r][w].action
    <2>1. s \in Steps /\ a \in Actions
      BY <1>11, PlaceShape DEF TaskReturns, At
    <2>2. act' \in [Runs -> [Steps -> [Actions -> StepStates]]] /\ UNCHANGED <<status, step>>
      BY <1>11, <2>1, SetActionType DEF TaskReturns, StepStates
    <2>3. disk' \in [Runs -> RecordType]
      BY <1>11, <2>2, CheckpointType DEF TaskReturns, TypeOK
    <2>4. worker' \in [Runs -> [Pool -> Places]]
      BY <1>11, <2>1, PlacesOn DEF TaskReturns, MoveTo, TypeOK
    <2>5. declined' \in [Runs -> SUBSET Gate]
      BY <1>11, <2>1 DEF TaskReturns, TypeOK, Gate
    <2>6. QED
      BY <1>11, <2>2, <2>3, <2>4, <2>5 DEF TaskReturns, TypeOK, context
  <1>12. ASSUME NEW r \in Runs, NEW w \in Pool, TaskThrows(r, w) PROVE TypeOK'
    BY <1>12, PlaceShape, FailActionType DEF TaskThrows, At
  <1>13. ASSUME NEW r \in Runs, NEW b \in BOOLEAN, Run(r, b) PROVE TypeOK'
    <2>1. status' \in [Runs -> RunStates \cup {"Absent"}] /\ UNCHANGED <<step, act>>
      BY <1>13 DEF Run, TypeOK, RunStates
    <2>2. disk' \in [Runs -> RecordType]
      BY <1>13, <2>1, CheckpointType DEF Run, TypeOK
    <2>3. QED
      BY <1>13, <2>1, <2>2 DEF Run, TypeOK
  <1>14. ASSUME NEW r \in Runs, NEW g \in Gate, Confirm(r, g) PROVE TypeOK'
    <2>1. pending[r] \in Gate
      BY <1>14 DEF Confirm, TypeOK
    <2>2. status' \in [Runs -> RunStates \cup {"Absent"}] /\ UNCHANGED <<step, act>>
      BY <1>14 DEF Confirm, TypeOK, RunStates
    <2>3. disk' \in [Runs -> RecordType]
      BY <1>14, <2>2, CheckpointType DEF Confirm, TypeOK
    <2>4. On("exec", pending[r].step, pending[r].action) \in Places
      BY <2>1, PlacesOn DEF Gate
    <2>5. worker' \in [Runs -> [Pool -> Places]]
      BY <1>14, <2>4 DEF Confirm, TypeOK
    <2>6. QED
      BY <1>14, <2>2, <2>3, <2>5 DEF Confirm, TypeOK, context
  <1>15. ASSUME NEW r \in Runs, NEW g \in Gate, ConfirmSkip(r, g) PROVE TypeOK'
    <2>1. pending[r] \in Gate
      BY <1>15 DEF ConfirmSkip, TypeOK
    <2>2. /\ status' \in [Runs -> RunStates \cup {"Absent"}] /\ UNCHANGED step
          /\ act' \in [Runs -> [Steps -> [Actions -> StepStates]]]
          /\ worker' \in [Runs -> [Pool -> Places]]
      BY <1>15, <2>1, SkipAtType DEF ConfirmSkip, TypeOK, RunStates
    <2>3. disk' \in [Runs -> RecordType]
      BY <1>15, <2>2, CheckpointType DEF ConfirmSkip, TypeOK
    <2>4. QED
      BY <1>15, <2>1, <2>2, <2>3 DEF ConfirmSkip, TypeOK, context
  <1>16. ASSUME NEW r \in Runs, Cancel(r) PROVE TypeOK'
    <2>1. CASE pending[r] = NoGate
      BY <1>16, <2>1 DEF Cancel, ReleaseGate, TypeOK, record, client
    <2>2. CASE pending[r] # NoGate
      <3>1. pending[r] \in Gate
        BY <2>2 DEF TypeOK
      <3>2. /\ UNCHANGED <<status, step>>
            /\ act' \in [Runs -> [Steps -> [Actions -> StepStates]]]
            /\ worker' \in [Runs -> [Pool -> Places]]
        BY <1>16, <2>2, <3>1, SkipAtType DEF Cancel, ReleaseGate
      <3>3. disk' \in [Runs -> RecordType]
        BY <1>16, <2>2, <3>2, CheckpointType DEF Cancel, ReleaseGate, TypeOK
      <3>4. QED
        BY <1>16, <2>2, <3>2, <3>3 DEF Cancel, ReleaseGate, TypeOK, client
    <2>3. QED
      BY <2>1, <2>2
  <1>17. ASSUME NEW r \in Runs, Retry(r) PROVE TypeOK'
    <2>1. step' \in [Runs -> [Steps -> StepStates]]
      BY <1>17 DEF Retry, ResetSteps, TypeOK, StepStates
    <2>2. act' \in [Runs -> [Steps -> [Actions -> StepStates]]]
      BY <1>17 DEF Retry, ResetActions, TypeOK, StepStates
    <2>3. worker' \in [Runs -> [Pool -> Places]]
      BY <1>17 DEF Retry, StartWorkers, TypeOK, Places
    <2>4. queue' \in [Runs -> SUBSET Steps]
      BY <1>17 DEF Retry, ToRun, TypeOK
    <2>5. QED
      BY <1>17, <2>1, <2>2, <2>3, <2>4 DEF Retry, TypeOK, RunStates, client
  <1>18. CASE Crash
    BY <1>18 DEF Crash, TypeOK, RecordType, Places, client
  <1>19. CASE UNCHANGED vars
    BY <1>19 DEF vars, TypeOK
  <1>20. QED
    BY <1>1, <1>2, <1>3, <1>4, <1>5, <1>6, <1>7, <1>8, <1>9, <1>10, <1>11, <1>12,
       <1>13, <1>14, <1>15, <1>16, <1>17, <1>18, <1>19, StepCases

LEMMA TypeInit == Init => TypeOK
  BY DEF Init, TypeOK, NewRecord, RecordType, RunStates, StepStates, Places, Off

\* The run record, its file, the contexts and the workers stay in their
\* domains, for every plan, pool size, number of runs, retries and crashes.
THEOREM TypeCorrect == Spec => []TypeOK
  BY TypeInit, TypeStep, PTL DEF Spec

-----------------------------------------------------------------------------
(* EngineInv is inductive, and safety properties follow from it. *)

USE DEF isTerminal

\* A step that leaves everything of run r alone keeps the invariant of r.
LEMMA OtherRun ==
    ASSUME NEW r \in Runs, RunInv(r),
           status'[r] = status[r], step'[r] = step[r], disk'[r] = disk[r],
           r \in live' <=> r \in live, cancel'[r] = cancel[r],
           pending'[r] = pending[r], queue'[r] = queue[r], worker'[r] = worker[r]
    PROVE  RunInv(r)'
  <1>1. ContextInv(r)'
    BY DEF RunInv, ContextInv, AllOff, ParkedOn
  <1>2. WorkerInv(r)'
    BY DEF RunInv, WorkerInv, Busy, Workers
  <1>3. QueueInv(r)'
    BY DEF RunInv, QueueInv, Workers
  <1>4. RecordInv(r)'
    BY DEF RunInv, RecordInv
  <1>5. CascadeInv(r)'
    BY DEF RunInv, CascadeInv
  <1>6. QED
    BY <1>1, <1>2, <1>3, <1>4, <1>5 DEF RunInv

\* What checkpoint() leaves on disk for the run it is called for.
LEMMA CheckpointWrites ==
    ASSUME TypeOK, NEW r \in Runs, checkpoint(r)
    PROVE  /\ disk'[r].status = status'[r]
           /\ disk'[r].step = step'[r]
           /\ disk'[r].act = act'[r]
           /\ \A q \in Runs \ {r} : disk'[q] = disk[q]
  BY DEF TypeOK, checkpoint

LEMMA TakeStepInv ==
    ASSUME TypeOK, TypeOK', NEW r \in Runs, RunInv(r), NEW w \in Pool, TakeStep(r, w)
    PROVE  RunInv(r)'
  <1>1. PICK s \in queue[r] : /\ \A t \in queue[r] : s <= t
                              /\ queue' = [queue EXCEPT ![r] = queue[r] \ {s}]
                              /\ step' = [step EXCEPT ![r][s] = "Running"]
                              /\ worker' = [worker EXCEPT ![r][w] = On("action", s, 1)]
    BY DEF TakeStep, AfterTaking, MoveTo
  <1>2. s \in Steps /\ queue[r] \subseteq Steps
    BY DEF TypeOK
  <1>3. /\ r \in live /\ live' = live /\ cancel' = cancel /\ pending' = pending
        /\ status' = status /\ worker[r][w].pc = "loop"
    BY DEF TakeStep, At, context
  <1>4. /\ queue'[r] = queue[r] \ {s}
        /\ step'[r] = [step[r] EXCEPT ![s] = "Running"]
        /\ worker'[r] = [worker[r] EXCEPT ![w] = On("action", s, 1)]
    BY <1>1, <1>2 DEF TypeOK
  <1>a. disk'[r].status = status[r] /\ disk'[r].step = step'[r]
    BY <1>3, CheckpointWrites DEF TakeStep
  <1>5. step[r][s] # "Complete" /\ step[r][s] # "Running"
    BY <1>2, <1>3 DEF RunInv, QueueInv, WorkerInv
  <1>6. ~isTerminal(status[r]) /\ status[r] \notin {"Absent", "Queued"}
    BY <1>3 DEF RunInv, ContextInv, AllOff
  <1>7. ContextInv(r)'
    BY <1>3, <1>4, <1>a, <1>6 DEF RunInv, ContextInv, AllOff, ParkedOn, On, TypeOK
  <1>8. WorkerInv(r)'
    <2> DEFINE Owns(v, t) == Busy(r, v) /\ worker[r][v].step = t
    <2>1. ~Busy(r, w) /\ \A v \in Pool : Busy(r, v) => worker[r][v].step # s
      BY <1>3, <1>5 DEF RunInv, WorkerInv, Busy
    <2>2. \A v \in Pool \ {w} : worker'[r][v] = worker[r][v]
      BY <1>4 DEF TypeOK
    <2>3. worker'[r][w] = On("action", s, 1)
      BY <1>4 DEF TypeOK
    <2>4. w \in Workers(r)
      BY <1>3 DEF RunInv, WorkerInv
    <2>5. \A v \in Pool \ Workers(r) : worker'[r][v].pc = "off"
      BY <2>2, <2>4 DEF RunInv, WorkerInv
    <2>6. \A v \in Pool : Busy(r, v)' =>
             step'[r][worker'[r][v].step] = "Running" /\ worker'[r][v].step \notin queue'[r]
      BY <1>2, <1>4, <2>1, <2>2, <2>3 DEF RunInv, WorkerInv, Busy, On, TypeOK
    <2>7. \A u, v \in Pool : u # v /\ Busy(r, u)' /\ Busy(r, v)' =>
             worker'[r][u].step # worker'[r][v].step
      BY <2>1, <2>2, <2>3 DEF RunInv, WorkerInv, Busy, On
    <2>8. ASSUME NEW t \in Steps, step'[r][t] = "Running"
          PROVE  \E v \in Pool : Busy(r, v)' /\ worker'[r][v].step = t
      <3>1. CASE t = s
        BY <2>3, <3>1 DEF Busy, On
      <3>2. CASE t # s
        <4>1. PICK v \in Pool : Busy(r, v) /\ worker[r][v].step = t
          BY <1>2, <1>3, <1>4, <2>8, <3>2 DEF RunInv, WorkerInv, TypeOK
        <4>2. QED
          BY <2>1, <2>2, <4>1 DEF Busy
      <3>3. QED
        BY <3>1, <3>2
    <2>9. QED
      BY <2>5, <2>6, <2>7, <2>8 DEF WorkerInv, Workers
  <1>9. QueueInv(r)'
    <2>1. \A t \in queue'[r] : step'[r][t] # "Complete"
      BY <1>2, <1>4 DEF RunInv, QueueInv, TypeOK
    <2>2. \A t \in Steps \ queue'[r] : step'[r][t] \in {"Complete", "Error", "Running"}
      BY <1>2, <1>3, <1>4 DEF RunInv, QueueInv, TypeOK
    <2>3. \A v \in Workers(r) : worker'[r][v].pc = "off" =>
              cancel[r] \/ queue'[r] = {} \/ (r \in Ripple /\ \E t \in Steps : step'[r][t] = "Error")
      <3>1. TAKE v \in Workers(r)
      <3>2. HAVE worker'[r][v].pc = "off"
      <3>3. v # w /\ v \in Pool /\ worker[r][v].pc = "off"
        BY <1>4, <3>2, EngineAssumption DEF Workers, Pool, TypeOK, On
      <3>4. cancel[r] \/ queue[r] = {} \/ (r \in Ripple /\ \E t \in Steps : step[r][t] = "Error")
        BY <1>3, <1>6, <3>3 DEF RunInv, QueueInv
      <3>5. r \notin Ripple
        BY <1>3, <3>3 DEF RunInv, WorkerInv, Workers
      <3>6. QED
        BY <1>4, <3>4, <3>5
    <2>4. QED
      BY <1>3, <2>1, <2>2, <2>3 DEF QueueInv, Workers
  <1>10. RecordInv(r)'
    BY <1>3, <1>a, <1>6 DEF RunInv, RecordInv, Settled
  <1>11. CascadeInv(r)'
    <2> SUFFICES ASSUME r \in Ripple
                 PROVE  /\ InOrder(step'[r])
                        /\ \A t \in Steps \ queue'[r] : step'[r][t] # "Error"
      BY <1>a DEF CascadeInv, InOrder
    <2>1. w = 1
      BY <1>3 DEF RunInv, WorkerInv, Workers
    <2>2. \A t \in Steps \ queue[r] : step[r][t] = "Complete"
      BY <1>3, <2>1 DEF RunInv, CascadeInv, QueueInv, WorkerInv, Busy, Workers
    <2>3. \A t \in Steps : t < s => step'[r][t] = "Complete"
      BY <1>1, <1>2, <1>4, <2>2 DEF TypeOK, Steps
    <2>4. \A t \in Steps : s < t => step'[r][t] = "Pending"
      BY <1>2, <1>4, <1>5 DEF RunInv, CascadeInv, InOrder, TypeOK, Steps
    <2>5. ASSUME NEW u \in Steps, step'[r][u] # "Pending", NEW t \in 1..(u-1)
          PROVE  step'[r][t] = "Complete"
      <3>1. ~(s < u)
        BY <2>4, <2>5
      <3>2. t \in Steps /\ t < s
        BY <1>2, <3>1, EngineAssumption DEF Steps
      <3>3. QED
        BY <2>3, <3>2
    <2>6. \A t \in Steps \ queue'[r] : step'[r][t] # "Error"
      BY <1>2, <1>4, <2>2 DEF TypeOK
    <2>7. QED
      BY <2>5, <2>6 DEF InOrder
  <1>12. QED
    BY <1>7, <1>8, <1>9, <1>10, <1>11 DEF RunInv

\* A step of run r in which every worker keeps the step it owns.
LEMMA SameOwners ==
    ASSUME NEW r \in Runs, RunInv(r),
           live' = live, step'[r] = step[r], queue'[r] = queue[r],
           cancel[r] => cancel'[r],
           \/ status'[r] = status[r]
           \/ status[r] \in {"Running", "Waiting"} /\ status'[r] \in {"Running", "Waiting"},
           \/ disk'[r] = disk[r] /\ status'[r] = status[r]
           \/ disk'[r].status = status'[r] /\ disk'[r].step = step'[r],
           \A v \in Pool : /\ Busy(r, v)' <=> Busy(r, v)
                           /\ worker'[r][v].pc = "off" <=> worker[r][v].pc = "off"
                           /\ Busy(r, v) => worker'[r][v].step = worker[r][v].step,
           r \notin live => pending'[r] = NoGate,
           pending'[r] # NoGate => ParkedOn(r, pending[r])' # {}
    PROVE  RunInv(r)'
  <1>a. 1 \in Pool /\ Workers(r) \subseteq Pool /\ Workers(r)' = Workers(r)
    BY EngineAssumption DEF Workers, Pool
  <1>b. AllOff(r)' <=> AllOff(r)
    BY DEF AllOff
  <1>c. /\ status'[r] = "Absent" <=> status[r] = "Absent"
        /\ status'[r] = "Queued" <=> status[r] = "Queued"
        /\ isTerminal(status'[r]) => isTerminal(status[r]) /\ status'[r] = status[r]
    OBVIOUS
  <1>1. ContextInv(r)'
    <2>1. disk'[r].status = "Absent" => \A t \in Steps : disk'[r].step[t] = "Pending"
      BY <1>c DEF RunInv, ContextInv
    <2>2. QED
      BY <1>b, <1>c, <2>1 DEF RunInv, ContextInv
  <1>2. WorkerInv(r)'
    <2>1. \A v \in Pool \ Workers(r) : worker'[r][v].pc = "off"
      BY <1>a DEF RunInv, WorkerInv
    <2>2. \A v \in Pool : Busy(r, v)' =>
             step'[r][worker'[r][v].step] = "Running" /\ worker'[r][v].step \notin queue'[r]
      BY DEF RunInv, WorkerInv
    <2>3. \A u, v \in Pool : u # v /\ Busy(r, u)' /\ Busy(r, v)' =>
             worker'[r][u].step # worker'[r][v].step
      BY DEF RunInv, WorkerInv
    <2>4. r \in live' => \A t \in Steps : step'[r][t] = "Running" =>
             \E v \in Pool : Busy(r, v)' /\ worker'[r][v].step = t
      BY DEF RunInv, WorkerInv
    <2>5. QED
      BY <1>a, <2>1, <2>2, <2>3, <2>4 DEF WorkerInv
  <1>3. QueueInv(r)'
    <2>1. \A v \in Workers(r) : worker'[r][v].pc = "off" <=> worker[r][v].pc = "off"
      BY <1>a
    <2>2. QED
      BY <1>a, <1>c, <2>1 DEF RunInv, QueueInv
  <1>4. RecordInv(r)'
    BY <1>c DEF RunInv, RecordInv, Settled
  <1>5. CascadeInv(r)'
    BY <1>a DEF RunInv, CascadeInv, InOrder
  <1>6. QED
    BY <1>1, <1>2, <1>3, <1>4, <1>5 DEF RunInv

\* A live run with a worker that is not off is under way.
LEMMA UnderWay ==
    ASSUME TypeOK, NEW r \in Runs, RunInv(r), NEW w \in Pool, worker[r][w].pc # "off"
    PROVE  r \in live /\ status[r] \in {"Running", "Waiting"}
  <1>1. status[r] \in RunStates \cup {"Absent"}
    BY DEF TypeOK
  <1>2. QED
    BY <1>1 DEF RunInv, ContextInv, AllOff, RunStates

\* The pending gate's worker is still parked when another worker has moved.
LEMMA GateKept ==
    ASSUME TypeOK, NEW r \in Runs, RunInv(r), NEW w \in Pool,
           worker[r][w].pc # "gate", pending'[r] = pending[r],
           \A v \in Pool \ {w} : worker'[r][v] = worker[r][v]
    PROVE  pending'[r] # NoGate => ParkedOn(r, pending[r])' # {}
  <1>1. SUFFICES ASSUME pending[r] # NoGate PROVE ParkedOn(r, pending[r])' # {}
    OBVIOUS
  <1>2. PICK v \in Pool : worker[r][v] = On("gate", pending[r].step, pending[r].action)
    BY <1>1 DEF RunInv, ContextInv, ParkedOn
  <1>3. v # w
    BY <1>2 DEF On
  <1>4. QED
    BY <1>2, <1>3 DEF ParkedOn

LEMMA NextActionInv ==
    ASSUME TypeOK, NEW r \in Runs, RunInv(r), NEW w \in Pool, NextAction(r, w)
    PROVE  RunInv(r)'
  <1> DEFINE s == worker[r][w].step
             a == worker[r][w].action
  <1>1. /\ worker[r][w].pc = "action" /\ live' = live /\ cancel' = cancel
        /\ step'[r] = step[r] /\ queue'[r] = queue[r] /\ status'[r] = status[r]
        /\ disk'[r] = disk[r] /\ pending'[r] = pending[r]
    BY DEF NextAction, At, context
  <1>2. PICK p \in {"action", "validate", "exec"}, n \in {a, a + 1} :
            worker' = [worker EXCEPT ![r][w] = On(p, s, n)]
    BY DEF NextAction, MoveTo
  <1>3. worker'[r][w] = On(p, s, n) /\ \A v \in Pool \ {w} : worker'[r][v] = worker[r][v]
    BY <1>2 DEF TypeOK
  <1>4. pending'[r] # NoGate => ParkedOn(r, pending[r])' # {}
    BY <1>1, <1>3, GateKept
  <1>5. r \in live
    BY <1>1, UnderWay
  <1>6. \A v \in Pool : /\ Busy(r, v)' <=> Busy(r, v)
                        /\ worker'[r][v].pc = "off" <=> worker[r][v].pc = "off"
                        /\ Busy(r, v) => worker'[r][v].step = worker[r][v].step
    BY <1>1, <1>3 DEF Busy, On
  <1>7. QED
    BY <1>1, <1>4, <1>5, <1>6, SameOwners

LEMMA OpenGateInv ==
    ASSUME TypeOK, TypeOK', NEW r \in Runs, RunInv(r), NEW w \in Pool, OpenGate(r, w)
    PROVE  RunInv(r)'
  <1> DEFINE g == [step |-> worker[r][w].step, action |-> worker[r][w].action]
  <1>1. /\ worker[r][w].pc = "validate" /\ live' = live /\ cancel' = cancel
        /\ step' = step /\ queue' = queue
    BY DEF OpenGate, At, context
  <1>2. status'[r] = "Waiting" /\ pending'[r] = g
    BY DEF OpenGate, TypeOK
  <1>3. disk'[r].status = status'[r] /\ disk'[r].step = step'[r]
    BY CheckpointWrites DEF OpenGate
  <1>4. worker'[r][w] = On("gate", g.step, g.action) /\ \A v \in Pool \ {w} : worker'[r][v] = worker[r][v]
    BY DEF OpenGate, MoveTo, TypeOK
  <1>5. ParkedOn(r, pending[r])' # {}
    BY <1>2, <1>4 DEF ParkedOn
  <1>6. r \in live /\ status[r] \in {"Running", "Waiting"}
    BY <1>1, UnderWay
  <1>7. \A v \in Pool : /\ Busy(r, v)' <=> Busy(r, v)
                        /\ worker'[r][v].pc = "off" <=> worker[r][v].pc = "off"
                        /\ Busy(r, v) => worker'[r][v].step = worker[r][v].step
    BY <1>1, <1>4 DEF Busy, On
  <1>8. QED
    BY <1>1, <1>2, <1>3, <1>5, <1>6, <1>7, SameOwners

LEMMA PassGateInv ==
    ASSUME TypeOK, NEW r \in Runs, RunInv(r), NEW w \in Pool, PassGate(r, w)
    PROVE  RunInv(r)'
  <1>1. /\ worker[r][w].pc = "validate" /\ live' = live /\ cancel' = cancel
        /\ step'[r] = step[r] /\ queue'[r] = queue[r] /\ status'[r] = status[r]
        /\ disk'[r] = disk[r] /\ pending'[r] = pending[r]
    BY DEF PassGate, At, record, context
  <1>2. /\ worker'[r][w] = On("exec", worker[r][w].step, worker[r][w].action)
        /\ \A v \in Pool \ {w} : worker'[r][v] = worker[r][v]
    BY DEF PassGate, MoveTo, TypeOK
  <1>3. pending'[r] # NoGate => ParkedOn(r, pending[r])' # {}
    BY <1>1, <1>2, GateKept
  <1>4. r \in live
    BY <1>1, UnderWay
  <1>5. \A v \in Pool : /\ Busy(r, v)' <=> Busy(r, v)
                        /\ worker'[r][v].pc = "off" <=> worker[r][v].pc = "off"
                        /\ Busy(r, v) => worker'[r][v].step = worker[r][v].step
    BY <1>1, <1>2 DEF Busy, On
  <1>6. QED
    BY <1>1, <1>3, <1>4, <1>5, SameOwners

LEMMA TaskReturnsInv ==
    ASSUME TypeOK, NEW r \in Runs, RunInv(r), NEW w \in Pool,
           NEW o \in {"Complete", "Skipped"}, TaskReturns(r, w, o)
    PROVE  RunInv(r)'
  <1>1. /\ worker[r][w].pc = "exec" /\ live' = live /\ cancel' = cancel
        /\ step' = step /\ queue' = queue /\ status' = status /\ pending' = pending
    BY DEF TaskReturns, At, context
  <1>2. disk'[r].status = status'[r] /\ disk'[r].step = step'[r]
    BY CheckpointWrites DEF TaskReturns
  <1>3. /\ worker'[r][w] = On("action", worker[r][w].step, worker[r][w].action + 1)
        /\ \A v \in Pool \ {w} : worker'[r][v] = worker[r][v]
    BY DEF TaskReturns, MoveTo, TypeOK
  <1>4. pending'[r] # NoGate => ParkedOn(r, pending[r])' # {}
    BY <1>1, <1>3, GateKept
  <1>5. r \in live
    BY <1>1, UnderWay
  <1>6. \A v \in Pool : /\ Busy(r, v)' <=> Busy(r, v)
                        /\ worker'[r][v].pc = "off" <=> worker[r][v].pc = "off"
                        /\ Busy(r, v) => worker'[r][v].step = worker[r][v].step
    BY <1>1, <1>3 DEF Busy, On
  <1>7. QED
    BY <1>1, <1>2, <1>4, <1>5, <1>6, SameOwners

LEMMA PendingIs ==
    ASSUME TypeOK, NEW r \in Runs, RunInv(r), pending[r] # NoGate
    PROVE  r \in live /\ status[r] \in {"Running", "Waiting"}
  <1>1. PICK w \in Pool : worker[r][w] = On("gate", pending[r].step, pending[r].action)
    BY DEF RunInv, ContextInv, ParkedOn
  <1>2. QED
    BY <1>1, UnderWay DEF On

LEMMA ConfirmInv ==
    ASSUME TypeOK, NEW r \in Runs, RunInv(r), NEW g \in Gate, Confirm(r, g)
    PROVE  RunInv(r)'
  <1>1. /\ pending[r] # NoGate /\ live' = live /\ cancel' = cancel
        /\ step' = step /\ queue'[r] = queue[r]
    BY DEF Confirm, context
  <1>2. pending'[r] = NoGate /\ status'[r] = "Running"
    BY DEF Confirm, TypeOK
  <1>3. disk'[r].status = status'[r] /\ disk'[r].step = step'[r]
    BY CheckpointWrites DEF Confirm
  <1>4. worker'[r] = [v \in Pool |-> IF v \in ParkedOn(r, pending[r])
                                     THEN On("exec", pending[r].step, pending[r].action)
                                     ELSE worker[r][v]]
    BY DEF Confirm, TypeOK
  <1>5. \A v \in Pool : /\ Busy(r, v)' <=> Busy(r, v)
                        /\ worker'[r][v].pc = "off" <=> worker[r][v].pc = "off"
                        /\ Busy(r, v) => worker'[r][v].step = worker[r][v].step
    BY <1>4 DEF ParkedOn, Busy, On
  <1>6. QED
    BY <1>1, <1>2, <1>3, <1>5, PendingIs, SameOwners

\* Taking a pending gate as skipped, by a client's answer or by cancel().
LEMMA SkipGateInv ==
    ASSUME TypeOK, NEW r \in Runs, RunInv(r), pending[r] # NoGate, SkipAt(r, pending[r]),
           pending' = [pending EXCEPT ![r] = NoGate], step' = step, checkpoint(r),
           live' = live, queue' = queue, cancel[r] => cancel'[r],
           status'[r] = status[r] \/ status'[r] = "Running"
    PROVE  RunInv(r)'
  <1>1. pending'[r] = NoGate
    BY DEF TypeOK
  <1>2. disk'[r].status = status'[r] /\ disk'[r].step = step'[r]
    BY CheckpointWrites
  <1>3. worker'[r] = [v \in Pool |-> IF v \in ParkedOn(r, pending[r])
                                     THEN On("action", pending[r].step, pending[r].action + 1)
                                     ELSE worker[r][v]]
    BY DEF SkipAt, TypeOK
  <1>4. \A v \in Pool : /\ Busy(r, v)' <=> Busy(r, v)
                        /\ worker'[r][v].pc = "off" <=> worker[r][v].pc = "off"
                        /\ Busy(r, v) => worker'[r][v].step = worker[r][v].step
    BY <1>3 DEF ParkedOn, Busy, On
  <1>5. QED
    BY <1>1, <1>2, <1>4, PendingIs, SameOwners

LEMMA ConfirmSkipInv ==
    ASSUME TypeOK, NEW r \in Runs, RunInv(r), NEW g \in Gate, ConfirmSkip(r, g)
    PROVE  RunInv(r)'
  <1>1. status'[r] = "Running"
    BY DEF ConfirmSkip, TypeOK
  <1>2. QED
    BY <1>1, SkipGateInv DEF ConfirmSkip, context

LEMMA CancelInv ==
    ASSUME TypeOK, NEW r \in Runs, RunInv(r), Cancel(r)
    PROVE  RunInv(r)'
  <1>1. cancel'[r] /\ live' = live /\ queue' = queue
    BY DEF Cancel, TypeOK
  <1>2. CASE pending[r] # NoGate
    BY <1>1, <1>2, SkipGateInv DEF Cancel, ReleaseGate
  <1>3. CASE pending[r] = NoGate
    <2>1. /\ status'[r] = status[r] /\ step'[r] = step[r] /\ disk'[r] = disk[r]
          /\ pending'[r] = NoGate /\ worker' = worker /\ queue'[r] = queue[r]
      BY <1>1, <1>3 DEF Cancel, ReleaseGate, record
    <2>2. \A v \in Pool : /\ Busy(r, v)' <=> Busy(r, v)
                          /\ worker'[r][v].pc = "off" <=> worker[r][v].pc = "off"
                          /\ Busy(r, v) => worker'[r][v].step = worker[r][v].step
      BY <2>1 DEF Busy
    <2>3. QED
      BY <1>1, <2>1, <2>2, SameOwners
  <1>4. QED
    BY <1>2, <1>3

\* A worker leaves its step, complete or in error; a ripple's loop stops on error.
LEMMA StepEnds ==
    ASSUME TypeOK, TypeOK', NEW r \in Runs, RunInv(r), NEW w \in Pool, Busy(r, w),
           worker[r][w].pc # "gate",
           NEW v \in {"Complete", "Error"}, NEW p \in {Off, AtLoop},
           step' = [step EXCEPT ![r][worker[r][w].step] = v],
           worker' = [worker EXCEPT ![r][w] = p],
           p = Off <=> v = "Error" /\ r \in Ripple,
           live' = live, cancel' = cancel, queue' = queue, status' = status,
           pending' = pending, checkpoint(r)
    PROVE  RunInv(r)'
  <1> DEFINE s == worker[r][w].step
  <1>1. /\ r \in live /\ status[r] \in {"Running", "Waiting"}
        /\ s \in Steps /\ step[r][s] = "Running" /\ s \notin queue[r]
    BY UnderWay, PlaceShape DEF Busy, RunInv, WorkerInv
  <1>2. disk'[r].status = status[r] /\ disk'[r].step = step'[r]
    BY CheckpointWrites
  <1>3. /\ step'[r][s] = v
        /\ \A t \in Steps \ {s} : step'[r][t] = step[r][t]
        /\ worker'[r][w] = p
        /\ \A u \in Pool \ {w} : worker'[r][u] = worker[r][u]
    BY <1>1 DEF TypeOK
  <1>4. ContextInv(r)'
    <2>1. pending'[r] # NoGate => ParkedOn(r, pending[r])' # {}
      BY <1>3, GateKept
    <2>2. QED
      BY <1>1, <1>2, <2>1 DEF ContextInv
  <1>5. WorkerInv(r)'
    <2>1. ~Busy(r, w)'
      BY <1>3 DEF Busy, Off, AtLoop
    <2>2. \A u \in Pool \ {w} : /\ Busy(r, u)' <=> Busy(r, u)
                                /\ Busy(r, u) => worker[r][u].step # s /\ worker[r][u].step \in Steps
      BY <1>3, PlaceShape DEF RunInv, WorkerInv, Busy
    <2>3. \A u \in Pool \ Workers(r) : worker'[r][u].pc = "off"
      BY <1>3 DEF RunInv, WorkerInv, Busy
    <2>4. \A u \in Pool : Busy(r, u)' =>
             step'[r][worker'[r][u].step] = "Running" /\ worker'[r][u].step \notin queue'[r]
      BY <1>3, <2>1, <2>2 DEF RunInv, WorkerInv
    <2>5. \A u, x \in Pool : u # x /\ Busy(r, u)' /\ Busy(r, x)' =>
             worker'[r][u].step # worker'[r][x].step
      BY <1>3, <2>1, <2>2 DEF RunInv, WorkerInv
    <2>6. ASSUME NEW t \in Steps, step'[r][t] = "Running"
          PROVE  \E u \in Pool : Busy(r, u)' /\ worker'[r][u].step = t
      <3>1. t # s /\ step[r][t] = "Running"
        BY <1>3, <2>6
      <3>2. PICK u \in Pool : Busy(r, u) /\ worker[r][u].step = t
        BY <1>1, <3>1 DEF RunInv, WorkerInv
      <3>3. QED
        BY <1>3, <2>2, <3>1, <3>2
    <2>7. QED
      BY <2>3, <2>4, <2>5, <2>6 DEF WorkerInv, Workers
  <1>6. QueueInv(r)'
    <2>1. \A t \in queue'[r] : step'[r][t] # "Complete"
      BY <1>1, <1>3 DEF RunInv, QueueInv, TypeOK
    <2>2. \A t \in Steps \ queue'[r] : step'[r][t] \in {"Complete", "Error", "Running"}
      BY <1>1, <1>3 DEF RunInv, QueueInv
    <2>3. \A u \in Workers(r) : worker'[r][u].pc = "off" =>
              cancel[r] \/ queue[r] = {} \/ (r \in Ripple /\ \E t \in Steps : step'[r][t] = "Error")
      <3>1. TAKE u \in Workers(r)
      <3>2. HAVE worker'[r][u].pc = "off"
      <3>3. CASE u = w
        BY <1>1, <1>3, <3>2, <3>3 DEF AtLoop
      <3>4. CASE u # w
        <4>1. u \in Pool
          BY EngineAssumption DEF Workers, Pool
        <4>2. cancel[r] \/ queue[r] = {} \/ (r \in Ripple /\ \E t \in Steps : step[r][t] = "Error")
          BY <1>1, <1>3, <3>2, <3>4, <4>1 DEF RunInv, QueueInv
        <4>3. QED
          BY <1>1, <1>3, <4>2
      <3>5. QED
        BY <3>3, <3>4
    <2>4. QED
      BY <2>1, <2>2, <2>3 DEF QueueInv, Workers
  <1>7. RecordInv(r)'
    BY <1>1, <1>2 DEF RecordInv, Settled
  <1>8. CascadeInv(r)'
    <2> SUFFICES ASSUME r \in Ripple
                 PROVE  /\ InOrder(step'[r])
                        /\ worker'[r][1].pc # "off" => \A t \in Steps \ queue'[r] : step'[r][t] # "Error"
      BY <1>2 DEF CascadeInv, InOrder
    <2>1. w = 1
      BY DEF RunInv, WorkerInv, Workers, Busy
    <2>2. \A t \in Steps : \A u \in 1..(t-1) : step[r][t] # "Pending" => step[r][u] = "Complete"
      BY DEF RunInv, CascadeInv, InOrder
    <2>3. ASSUME NEW t \in Steps, step'[r][t] # "Pending", NEW u \in 1..(t-1)
          PROVE  step'[r][u] = "Complete"
      <3>1. u \in Steps
        BY EngineAssumption DEF Steps
      <3>2. step[r][t] # "Pending"
        BY <1>1, <1>3, <2>3
      <3>3. step[r][u] = "Complete"
        BY <2>2, <3>2
      <3>4. QED
        BY <1>1, <1>3, <3>1, <3>3
    <2>4. worker'[r][1].pc # "off" => \A t \in Steps \ queue[r] : step'[r][t] # "Error"
      BY <1>1, <1>3, <2>1 DEF RunInv, CascadeInv, Busy, Off
    <2>5. QED
      BY <2>3, <2>4 DEF InOrder
  <1>9. QED
    BY <1>4, <1>5, <1>6, <1>7, <1>8 DEF RunInv

LEMMA FailActionInv ==
    ASSUME TypeOK, TypeOK', NEW r \in Runs, RunInv(r), NEW w \in Pool, Busy(r, w),
           worker[r][w].pc # "gate", FailAction(r, w)
    PROVE  RunInv(r)'
  <1>1. AfterError(r) \in {Off, AtLoop} /\ (AfterError(r) = Off <=> r \in Ripple)
    BY DEF AfterError, Off, AtLoop
  <1>2. QED
    BY <1>1, StepEnds DEF FailAction, MoveTo, context

LEMMA EndStepInv ==
    ASSUME TypeOK, TypeOK', NEW r \in Runs, RunInv(r), NEW w \in Pool, EndStep(r, w)
    PROVE  RunInv(r)'
  <1>1. Busy(r, w) /\ worker[r][w].pc # "gate" /\ AtLoop # Off
    BY DEF EndStep, At, Busy, AtLoop, Off
  <1>2. QED
    BY <1>1, StepEnds DEF EndStep, MoveTo, context

LEMMA LeaveLoopInv ==
    ASSUME TypeOK, NEW r \in Runs, RunInv(r), NEW w \in Pool, LeaveLoop(r, w)
    PROVE  RunInv(r)'
  <1>1. /\ worker[r][w].pc = "loop" /\ live' = live /\ cancel' = cancel /\ queue' = queue
        /\ step' = step /\ status' = status /\ disk' = disk /\ pending' = pending
    BY DEF LeaveLoop, At, record, context
  <1>2. worker'[r][w] = Off /\ \A v \in Pool \ {w} : worker'[r][v] = worker[r][v]
    BY DEF LeaveLoop, MoveTo, TypeOK
  <1>3. cancel[r] \/ queue[r] = {}
    BY DEF LeaveLoop, Drained
  <1>4. r \in live /\ status[r] \in {"Running", "Waiting"}
    BY <1>1, UnderWay
  <1>5. \A v \in Pool : /\ Busy(r, v)' <=> Busy(r, v)
                        /\ Busy(r, v) => worker'[r][v].step = worker[r][v].step
    BY <1>1, <1>2 DEF Busy, Off
  <1>6. ContextInv(r)'
    <2>1. pending'[r] # NoGate => ParkedOn(r, pending[r])' # {}
      BY <1>1, <1>2, GateKept
    <2>2. QED
      BY <1>1, <1>4, <2>1 DEF RunInv, ContextInv
  <1>7. WorkerInv(r)'
    <2>1. \A v \in Pool \ Workers(r) : worker'[r][v].pc = "off"
      BY <1>1, <1>2 DEF RunInv, WorkerInv
    <2>2. \A v \in Pool : Busy(r, v)' =>
             step'[r][worker'[r][v].step] = "Running" /\ worker'[r][v].step \notin queue'[r]
      BY <1>1, <1>5 DEF RunInv, WorkerInv
    <2>3. \A u, v \in Pool : u # v /\ Busy(r, u)' /\ Busy(r, v)' =>
             worker'[r][u].step # worker'[r][v].step
      BY <1>5 DEF RunInv, WorkerInv
    <2>4. \A t \in Steps : step'[r][t] = "Running" =>
             \E v \in Pool : Busy(r, v)' /\ worker'[r][v].step = t
      BY <1>1, <1>4, <1>5 DEF RunInv, WorkerInv
    <2>5. QED
      BY <2>1, <2>2, <2>3, <2>4 DEF WorkerInv, Workers
  <1>8. QueueInv(r)'
    BY <1>1, <1>3 DEF RunInv, QueueInv, Workers
  <1>9. RecordInv(r)'
    BY <1>1 DEF RunInv, RecordInv
  <1>10. CascadeInv(r)'
    <2>1. worker'[r][1].pc # "off" => worker[r][1].pc # "off"
      BY <1>1, <1>2, EngineAssumption DEF Pool, Off
    <2>2. QED
      BY <1>1, <2>1 DEF RunInv, CascadeInv
  <1>11. QED
    BY <1>6, <1>7, <1>8, <1>9, <1>10 DEF RunInv

\* With every worker off there is no gate and, in a live run, no running step.
LEMMA AtRest ==
    ASSUME NEW r \in Runs, RunInv(r), AllOff(r)
    PROVE  /\ pending[r] = NoGate
           /\ r \in live => \A t \in Steps : step[r][t] # "Running"
           /\ \A w \in Pool : ~Busy(r, w)
  BY DEF RunInv, ContextInv, WorkerInv, AllOff, ParkedOn, Busy, On

\* A run whose workers have just been started on a queue that holds every step
\* not yet complete.
LEMMA Started ==
    ASSUME TypeOK, NEW r \in Runs, r \in live', status'[r] = "Running", StartWorkers(r),
           pending'[r] = NoGate,
           \A t \in Steps : step'[r][t] # "Running",
           \A t \in queue'[r] : step'[r][t] # "Complete",
           \A t \in Steps \ queue'[r] : step'[r][t] = "Complete",
           r \in Ripple => InOrder(step'[r]) /\ InOrder(disk'[r].step),
           disk'[r].status = "Absent" => \A t \in Steps : disk'[r].step[t] = "Pending",
           Settled(disk'[r].status, disk'[r].step)
    PROVE  RunInv(r)'
  <1>1. \A w \in Pool : worker'[r][w] = IF w \in Workers(r) THEN AtLoop ELSE Off
    BY DEF StartWorkers, TypeOK
  <1>2. \A w \in Pool : ~Busy(r, w)'
    BY <1>1 DEF Busy, AtLoop, Off
  <1>3. ContextInv(r)'
    BY DEF ContextInv
  <1>4. WorkerInv(r)'
    BY <1>1, <1>2 DEF WorkerInv, Workers, Off
  <1>5. QueueInv(r)'
    <2>1. \A w \in Workers(r) : worker'[r][w].pc # "off"
      BY <1>1, EngineAssumption DEF Workers, Pool, AtLoop
    <2>2. QED
      BY <2>1 DEF QueueInv, Workers
  <1>6. RecordInv(r)'
    BY DEF RecordInv, Settled
  <1>7. CascadeInv(r)'
    BY DEF CascadeInv, InOrder
  <1>8. QED
    BY <1>3, <1>4, <1>5, <1>6, <1>7 DEF RunInv

LEMMA RunActionInv ==
    ASSUME TypeOK, NEW r \in Runs, RunInv(r), NEW b \in BOOLEAN, Run(r, b)
    PROVE  RunInv(r)'
  <1>1. /\ status'[r] = "Queued" /\ r \in live' /\ queue'[r] = Steps
        /\ step' = step /\ pending' = pending /\ worker' = worker
    BY DEF Run, TypeOK
  <1>2. disk'[r].status = "Queued" /\ disk'[r].step = step[r]
    BY <1>1, CheckpointWrites DEF Run
  <1>3. AllOff(r) /\ \A t \in Steps : step[r][t] = "Pending"
    BY DEF Run, RunInv, ContextInv
  <1>4. pending[r] = NoGate /\ \A w \in Pool : ~Busy(r, w)
    BY <1>3, AtRest
  <1>5. ContextInv(r)'
    BY <1>1, <1>2, <1>3, <1>4 DEF ContextInv, AllOff
  <1>6. WorkerInv(r)'
    BY <1>1, <1>3, <1>4 DEF WorkerInv, Busy, AllOff
  <1>7. QueueInv(r)'
    BY <1>1, <1>3 DEF QueueInv
  <1>8. RecordInv(r)'
    BY <1>1, <1>2 DEF RecordInv, Settled
  <1>9. CascadeInv(r)'
    <2>1. InOrder(step[r])
      BY <1>3 DEF InOrder
    <2>2. QED
      BY <1>1, <1>2, <2>1 DEF CascadeInv, InOrder
  <1>10. QED
    BY <1>5, <1>6, <1>7, <1>8, <1>9 DEF RunInv

LEMMA ExecuteInv ==
    ASSUME TypeOK, NEW r \in Runs, RunInv(r), Execute(r)
    PROVE  RunInv(r)'
  <1>1. /\ r \in live /\ status[r] = "Queued" /\ live' = live
        /\ step' = step /\ pending' = pending /\ queue' = queue /\ StartWorkers(r)
    BY DEF Execute, context
  <1>2. status'[r] = "Running"
    BY DEF Execute, TypeOK
  <1>3. disk'[r].status = "Running" /\ disk'[r].step = step[r]
    BY <1>1, <1>2, CheckpointWrites DEF Execute
  <1>4. AllOff(r) /\ queue[r] = Steps
    BY <1>1 DEF RunInv, ContextInv
  <1>5. pending[r] = NoGate /\ \A t \in Steps : step[r][t] # "Running"
    BY <1>1, <1>4, AtRest
  <1>6. /\ \A t \in queue'[r] : step'[r][t] # "Complete"
        /\ \A t \in Steps \ queue'[r] : step'[r][t] = "Complete"
        /\ r \in Ripple => InOrder(step'[r]) /\ InOrder(disk'[r].step)
    BY <1>1, <1>3, <1>4 DEF RunInv, QueueInv, CascadeInv, InOrder
  <1>7. Settled(disk'[r].status, disk'[r].step)
    BY <1>3 DEF Settled
  <1>8. QED
    BY <1>1, <1>2, <1>3, <1>5, <1>6, <1>7, Started

LEMMA FinalizeInv ==
    ASSUME TypeOK, NEW r \in Runs, RunInv(r), Finalize(r)
    PROVE  RunInv(r)'
  <1>1. /\ r \in live /\ live' = live /\ cancel' = cancel /\ AllOff(r) /\ status[r] \in {"Running", "Waiting"}
        /\ step' = step /\ pending' = pending /\ queue' = queue /\ worker' = worker
    BY DEF Finalize, context
  <1>2. status'[r] = Verdict(r)
    BY DEF Finalize, TypeOK
  <1>3. disk'[r].status = status'[r] /\ disk'[r].step = step[r]
    BY <1>1, CheckpointWrites DEF Finalize
  <1>4. status'[r] \in {"Cancelled", "Failed", "Complete"}
    BY <1>2 DEF Verdict
  <1>5. pending[r] = NoGate /\ \A t \in Steps : step[r][t] # "Running"
    BY <1>1, AtRest
  <1>6. ContextInv(r)'
    BY <1>1, <1>3, <1>4, <1>5 DEF RunInv, ContextInv, AllOff
  <1>7. WorkerInv(r)'
    BY <1>1 DEF RunInv, WorkerInv, Busy, Workers
  <1>8. QueueInv(r)'
    BY <1>1, <1>4 DEF RunInv, QueueInv, Workers
  <1>9. Settled(status'[r], step[r])
    <2>1. status'[r] = "Failed" => \E t \in Steps : step[r][t] = "Error"
      BY <1>2 DEF Verdict
    <2>2. ASSUME status'[r] = "Complete" PROVE \A t \in Steps : step[r][t] = "Complete"
      <3>1. ~cancel[r] /\ \A t \in Steps : step[r][t] # "Error"
        BY <1>2, <2>2 DEF Verdict
      <3>2. 1 \in Workers(r) /\ worker[r][1].pc = "off"
        BY <1>1, EngineAssumption DEF Workers, Pool, AllOff
      <3>3. queue[r] = {}
        BY <1>1, <3>1, <3>2 DEF RunInv, QueueInv
      <3>4. QED
        BY <1>1, <1>5, <3>1, <3>3 DEF RunInv, QueueInv
    <2>3. QED
      BY <1>5, <2>1, <2>2 DEF Settled
  <1>10. RecordInv(r)'
    BY <1>1, <1>3, <1>9 DEF RecordInv, Settled
  <1>11. CascadeInv(r)'
    BY <1>1, <1>3 DEF RunInv, CascadeInv, InOrder
  <1>12. QED
    BY <1>6, <1>7, <1>8, <1>10, <1>11 DEF RunInv

LEMMA RetryInv ==
    ASSUME TypeOK, NEW r \in Runs, RunInv(r), Retry(r)
    PROVE  RunInv(r)'
  <1>1. /\ isTerminal(status[r]) /\ r \in live' /\ disk' = disk /\ StartWorkers(r)
    BY DEF Retry
  <1>2. status'[r] = "Running" /\ pending'[r] = NoGate /\ queue'[r] = ToRun(r)
    BY DEF Retry, TypeOK
  <1>3. \A t \in Steps : step'[r][t] = IF t >= FirstError(r) /\ step[r][t] # "Complete"
                                       THEN "Pending" ELSE step[r][t]
    BY DEF Retry, ResetSteps, TypeOK
  <1>4. \A t \in Steps : step[r][t] # "Running"
    BY <1>1 DEF RunInv, RecordInv, Settled
  <1>5. \A t \in Steps : step'[r][t] # "Running"
    BY <1>3, <1>4
  <1>6. /\ \A t \in queue'[r] : step'[r][t] # "Complete"
        /\ \A t \in Steps \ queue'[r] : step'[r][t] = "Complete"
    BY <1>2 DEF ToRun
  <1>7. ASSUME r \in Ripple PROVE InOrder(step'[r]) /\ InOrder(disk'[r].step)
    <2>1. InOrder(disk'[r].step) /\ InOrder(step[r])
      BY <1>1, <1>7 DEF RunInv, CascadeInv
    <2>2. ASSUME NEW t \in Steps, step'[r][t] # "Pending", NEW u \in 1..(t-1)
          PROVE  step'[r][u] = "Complete"
      <3>1. u \in Steps
        BY EngineAssumption DEF Steps
      <3>2. step[r][t] # "Pending"
        BY <1>3, <2>2
      <3>3. step[r][u] = "Complete"
        BY <2>1, <3>2 DEF InOrder
      <3>4. QED
        BY <1>3, <3>1, <3>3
    <2>3. QED
      BY <2>1, <2>2 DEF InOrder
  <1>8. /\ disk'[r].status = "Absent" => \A t \in Steps : disk'[r].step[t] = "Pending"
        /\ Settled(disk'[r].status, disk'[r].step)
    BY <1>1 DEF RunInv, ContextInv, RecordInv
  <1>9. QED
    BY <1>1, <1>2, <1>5, <1>6, <1>7, <1>8, Started

LEMMA CrashInv ==
    ASSUME NEW r \in Runs, RunInv(r), Crash
    PROVE  RunInv(r)'
  <1>1. /\ r \notin live' /\ disk' = disk
        /\ status'[r] = disk[r].status /\ step'[r] = disk[r].step
        /\ pending'[r] = NoGate /\ queue'[r] = {}
        /\ \A w \in Pool : worker'[r][w] = Off
    BY DEF Crash
  <1>2. AllOff(r)' /\ \A w \in Pool : ~Busy(r, w)'
    BY <1>1 DEF AllOff, Busy, Off
  <1>3. ContextInv(r)'
    BY <1>1, <1>2 DEF RunInv, ContextInv
  <1>4. WorkerInv(r)'
    BY <1>1, <1>2 DEF WorkerInv, Off
  <1>5. QueueInv(r)'
    BY <1>1 DEF QueueInv
  <1>6. RecordInv(r)'
    BY <1>1 DEF RunInv, RecordInv, Settled
  <1>7. CascadeInv(r)'
    <2>1. 1 \in Pool
      BY EngineAssumption DEF Pool
    <2>2. QED
      BY <1>1, <2>1 DEF RunInv, CascadeInv, InOrder, Off
  <1>8. QED
    BY <1>3, <1>4, <1>5, <1>6, <1>7 DEF RunInv

\* What a step does to the runs it is not for.
Untouched(q) ==
    /\ status'[q] = status[q] /\ step'[q] = step[q] /\ disk'[q] = disk[q]
    /\ q \in live' <=> q \in live
    /\ cancel'[q] = cancel[q] /\ pending'[q] = pending[q]
    /\ queue'[q] = queue[q] /\ worker'[q] = worker[q]

\* A step for run r leaves every other run alone.
LEMMA Local ==
    ASSUME TypeOK, NEW r \in Runs, NEW q \in Runs \ {r},
           \/ Execute(r) \/ Finalize(r) \/ Cancel(r) \/ Retry(r)
           \/ \E w \in Pool : WorkerTurn(r, w) \/ Answer(r, w)
           \/ \E b \in BOOLEAN : Run(r, b)
           \/ \E g \in Gate : Confirm(r, g) \/ ConfirmSkip(r, g)
    PROVE  Untouched(q)
  <1>1. ASSUME NEW w \in Pool, FailAction(r, w) PROVE Untouched(q)
    BY <1>1, CheckpointWrites DEF FailAction, MoveTo, TypeOK, context, Untouched
  <1>2. CASE Execute(r)
    BY <1>2, CheckpointWrites DEF Execute, StartWorkers, TypeOK, context, Untouched
  <1>3. CASE Finalize(r)
    BY <1>3, CheckpointWrites DEF Finalize, TypeOK, context, Untouched
  <1>4. CASE Cancel(r)
    BY <1>4, CheckpointWrites DEF Cancel, ReleaseGate, SkipAt, TypeOK, record, Untouched
  <1>5. CASE Retry(r)
    BY <1>5 DEF Retry, ResetSteps, StartWorkers, TypeOK, Untouched
  <1>6. ASSUME NEW w \in Pool, WorkerTurn(r, w) PROVE Untouched(q)
    <2>1. CASE TakeStep(r, w)
      BY <2>1, CheckpointWrites DEF TakeStep, MoveTo, TypeOK, context, Untouched
    <2>2. CASE LeaveLoop(r, w)
      BY <2>2 DEF LeaveLoop, MoveTo, TypeOK, record, context, Untouched
    <2>3. CASE NextAction(r, w)
      BY <2>3 DEF NextAction, MoveTo, TypeOK, context, Untouched
    <2>4. CASE UnknownOp(r, w)
      BY <1>1, <2>4 DEF UnknownOp
    <2>5. CASE EndStep(r, w)
      BY <2>5, CheckpointWrites DEF EndStep, MoveTo, TypeOK, context, Untouched
    <2>6. QED
      BY <1>6, <2>1, <2>2, <2>3, <2>4, <2>5 DEF WorkerTurn
  <1>7. ASSUME NEW w \in Pool, Answer(r, w) PROVE Untouched(q)
    <2>1. CASE OpenGate(r, w)
      BY <2>1, CheckpointWrites DEF OpenGate, MoveTo, TypeOK, context, Untouched
    <2>2. CASE PassGate(r, w)
      BY <2>2 DEF PassGate, MoveTo, TypeOK, record, context, Untouched
    <2>3. CASE RefuseGate(r, w) \/ TaskThrows(r, w)
      BY <1>1, <2>3 DEF RefuseGate, TaskThrows
    <2>4. CASE TaskReturns(r, w, "Complete") \/ TaskReturns(r, w, "Skipped")
      BY <2>4, CheckpointWrites DEF TaskReturns, MoveTo, TypeOK, context, Untouched
    <2>5. QED
      BY <1>7, <2>1, <2>2, <2>3, <2>4 DEF Answer
  <1>8. ASSUME NEW b \in BOOLEAN, Run(r, b) PROVE Untouched(q)
    BY <1>8, CheckpointWrites DEF Run, TypeOK, Untouched
  <1>9. ASSUME NEW g \in Gate, Confirm(r, g) PROVE Untouched(q)
    BY <1>9, CheckpointWrites DEF Confirm, TypeOK, context, Untouched
  <1>10. ASSUME NEW g \in Gate, ConfirmSkip(r, g) PROVE Untouched(q)
    BY <1>10, CheckpointWrites DEF ConfirmSkip, SkipAt, TypeOK, context, Untouched
  <1>11. QED
    BY <1>2, <1>3, <1>4, <1>5, <1>6, <1>7, <1>8, <1>9, <1>10

\* A step for run r keeps that run's part of the invariant.
LEMMA OwnStep ==
    ASSUME TypeOK, TypeOK', NEW r \in Runs, RunInv(r),
           \/ Execute(r) \/ Finalize(r) \/ Cancel(r) \/ Retry(r)
           \/ \E w \in Pool : WorkerTurn(r, w) \/ Answer(r, w)
           \/ \E b \in BOOLEAN : Run(r, b)
           \/ \E g \in Gate : Confirm(r, g) \/ ConfirmSkip(r, g)
    PROVE  RunInv(r)'
  <1>1. CASE Execute(r) \/ Finalize(r) \/ Cancel(r) \/ Retry(r)
    BY <1>1, ExecuteInv, FinalizeInv, CancelInv, RetryInv
  <1>2. ASSUME NEW w \in Pool, WorkerTurn(r, w) PROVE RunInv(r)'
    <2>1. CASE UnknownOp(r, w)
      BY <2>1, FailActionInv DEF UnknownOp, At, Busy
    <2>2. CASE TakeStep(r, w) \/ LeaveLoop(r, w) \/ NextAction(r, w) \/ EndStep(r, w)
      BY <2>2, TakeStepInv, LeaveLoopInv, NextActionInv, EndStepInv
    <2>3. QED
      BY <1>2, <2>1, <2>2 DEF WorkerTurn
  <1>3. ASSUME NEW w \in Pool, Answer(r, w) PROVE RunInv(r)'
    <2>1. CASE RefuseGate(r, w) \/ TaskThrows(r, w)
      BY <2>1, FailActionInv DEF RefuseGate, TaskThrows, At, Busy
    <2>2. CASE OpenGate(r, w) \/ PassGate(r, w)
      BY <2>2, OpenGateInv, PassGateInv
    <2>3. CASE TaskReturns(r, w, "Complete") \/ TaskReturns(r, w, "Skipped")
      BY <2>3, TaskReturnsInv
    <2>4. QED
      BY <1>3, <2>1, <2>2, <2>3 DEF Answer
  <1>4. ASSUME NEW b \in BOOLEAN, Run(r, b) PROVE RunInv(r)'
    BY <1>4, RunActionInv
  <1>5. ASSUME NEW g \in Gate, Confirm(r, g) \/ ConfirmSkip(r, g) PROVE RunInv(r)'
    BY <1>5, ConfirmInv, ConfirmSkipInv
  <1>6. QED
    BY <1>1, <1>2, <1>3, <1>4, <1>5

LEMMA EngineInit == Init => EngineInv
  <1> SUFFICES ASSUME Init, NEW r \in Runs PROVE RunInv(r)
    BY DEF EngineInv
  <1>1. /\ status[r] = "Absent" /\ live = {} /\ pending[r] = NoGate /\ queue[r] = {}
        /\ step[r] = [s \in Steps |-> "Pending"] /\ disk[r] = NewRecord
        /\ \A w \in Pool : worker[r][w] = Off
    BY DEF Init, NewRecord
  <1>2. disk[r].status = "Absent" /\ disk[r].step = [s \in Steps |-> "Pending"]
    BY <1>1 DEF NewRecord
  <1>3. ContextInv(r) /\ WorkerInv(r) /\ QueueInv(r)
    BY <1>1, <1>2 DEF ContextInv, WorkerInv, QueueInv, AllOff, Busy, Off
  <1>4. RecordInv(r) /\ CascadeInv(r)
    BY <1>1, <1>2, EngineAssumption DEF RecordInv, CascadeInv, Settled, InOrder, Off, Pool
  <1>5. QED
    BY <1>3, <1>4 DEF RunInv

LEMMA EngineInvStep == TypeOK /\ TypeOK' /\ EngineInv /\ [Next]_vars => EngineInv'
  <1> SUFFICES ASSUME TypeOK, TypeOK', EngineInv, [Next]_vars, NEW q \in Runs PROVE RunInv(q)'
    BY DEF EngineInv
  <1>1. RunInv(q)
    BY DEF EngineInv
  <1>2. ASSUME Untouched(q) PROVE RunInv(q)'
    BY <1>1, <1>2, OtherRun DEF Untouched
  <1>3. CASE UNCHANGED vars
    BY <1>2, <1>3 DEF vars, Untouched
  <1>4. CASE Crash
    BY <1>1, <1>4, CrashInv
  <1>5. ASSUME NEW r \in Runs,
               \/ Execute(r) \/ Finalize(r) \/ Cancel(r) \/ Retry(r)
               \/ \E w \in Pool : WorkerTurn(r, w) \/ Answer(r, w)
               \/ \E b \in BOOLEAN : Run(r, b)
               \/ \E g \in Gate : Confirm(r, g) \/ ConfirmSkip(r, g)
        PROVE  RunInv(q)'
    <2>1. CASE r = q
      BY <1>1, <1>5, <2>1, OwnStep
    <2>2. CASE r # q
      BY <1>2, <1>5, <2>2, Local
    <2>3. QED
      BY <2>1, <2>2
  <1>6. QED
    BY <1>3, <1>4, <1>5 DEF Next, Operator

-----------------------------------------------------------------------------

\* In every reachable state each step of each run has at most one owner, no step
\* is lost between the queue of the loop (_execute, _runPool) and the verdict of
\* _finalize, and the record in memory and on disk bears the verdict out.
THEOREM EngineInvariant == Spec => []EngineInv
  <1>1. Init /\ [][Next]_vars => []TypeOK
    BY TypeCorrect, PTL DEF Spec
  <1>2. QED
    BY <1>1, EngineInit, EngineInvStep, PTL DEF Spec

\* A ripple never starts a step, by run() or any later retry(), before every
\* earlier step is complete, whatever failed, was cancelled or crashed between.
THEOREM CascadeOrderHolds == Spec => []CascadeOrder
  <1>1. EngineInv => CascadeOrder
    BY EngineAssumption DEF EngineInv, RunInv, CascadeInv, CascadeOrder
  <1>2. QED
    BY <1>1, EngineInvariant, PTL

\* When _finalize has given a run its verdict no worker of it is left and no gate
\* is open, and the verdict is what its steps say.
THEOREM SettledMeansDoneHolds == Spec => []SettledMeansDone
  <1>1. EngineInv => SettledMeansDone
    <2> SUFFICES ASSUME EngineInv, NEW r \in Runs
                 PROVE  /\ isTerminal(status[r]) => AllOff(r) /\ pending[r] = NoGate
                        /\ Settled(status[r], step[r])
      BY DEF SettledMeansDone
    <2>1. RunInv(r)
      BY DEF EngineInv
    <2>2. isTerminal(status[r]) => AllOff(r)
      BY <2>1 DEF RunInv, ContextInv
    <2>3. QED
      BY <2>1, <2>2, AtRest DEF RunInv, RecordInv
  <1>2. QED
    BY <1>1, EngineInvariant, PTL

\* The workers of _runPool never work on the same step, whatever the pool's size.
THEOREM OneWorkerPerStepHolds == Spec => []OneWorkerPerStep
  <1>1. TypeOK /\ EngineInv => OneWorkerPerStep
    <2> SUFFICES ASSUME TypeOK, EngineInv, NEW r \in Runs, NEW v \in Pool, NEW w \in Pool,
                        v # w, worker[r][v].step # 0, worker[r][v].step = worker[r][w].step
                 PROVE  FALSE
      BY DEF OneWorkerPerStep
    <2>1. \A u \in Pool : worker[r][u].step # 0 => Busy(r, u)
      BY DEF TypeOK, Places, Busy, Off, AtLoop
    <2>2. QED
      BY <2>1 DEF EngineInv, RunInv, WorkerInv
  <1>2. QED
    BY <1>1, TypeCorrect, EngineInvariant, PTL

-----------------------------------------------------------------------------
(* What the engine's record keeps: on disk, what was saved; in memory, what   *)
(* was completed; of the operator, what was confirmed.  And that the engine   *)
(* implements BulkRun.                                                        *)

USE DEF isTerminal

(* The first checkpoint of a retried run is still to come: its loop has not   *)
(* taken a step.  What retry() reset is not on disk, nothing complete was.    *)
Retried(r) ==
    /\ r \in live /\ status[r] = "Running"
    /\ \A w \in Pool : worker[r][w].pc \in {"loop", "off"}
    /\ isTerminal(disk[r].status)
    /\ \A s \in Steps : disk[r].step[s] = "Complete" <=> step[r][s] = "Complete"

(* A worker is passing over the rest of its chain after cancel().             *)
Passing(r, s) ==
    cancel[r] /\ \E w \in Pool : worker[r][w].pc = "action" /\ worker[r][w].step = s

Saved(r) ==
    /\ disk[r].status = status[r]
    /\ disk[r].step = step[r]
    /\ \A s \in Steps, a \in Actions :
            disk[r].act[s][a] # act[r][s][a] => act[r][s][a] = "Running" \/ Passing(r, s)

Awaiting == {"validate", "gate", "exec"}

(* What a worker awaits is an action that is under way.                       *)
AwaitInv(r) ==
    \A w \in Pool : worker[r][w].pc \in Awaiting =>
        act[r][worker[r][w].step][worker[r][w].action] = "Running"

GrantInv(r) ==
    \A w \in Pool :
        worker[r][w].pc = "exec" /\ ~auto[r]
            /\ OpKind[worker[r][w].step][worker[r][w].action] = "publish"
        => [step |-> worker[r][w].step, action |-> worker[r][w].action] \in granted[r]

DiskInv(r) == (Saved(r) \/ Retried(r)) /\ AwaitInv(r) /\ GrantInv(r)

RecordsInv == \A r \in Runs : DiskInv(r)

-----------------------------------------------------------------------------
(* Every step for run r, and what it leaves alone in the others.              *)

StepOf(r) ==
    \/ Execute(r) \/ Finalize(r) \/ Cancel(r) \/ Retry(r)
    \/ \E w \in Pool : WorkerTurn(r, w) \/ Answer(r, w)
    \/ \E b \in BOOLEAN : Run(r, b)
    \/ \E g \in Gate : Confirm(r, g) \/ ConfirmSkip(r, g)

LEMMA NextCases ==
    ASSUME [Next]_vars
    PROVE  (\E r \in Runs : StepOf(r)) \/ Crash \/ UNCHANGED vars
  BY DEF Next, Operator, StepOf

LEMMA OthersUntouched ==
    ASSUME TypeOK, NEW r \in Runs, NEW q \in Runs \ {r}, StepOf(r)
    PROVE  Untouched(q)
  BY Local DEF StepOf

LEMMA OthersRecord ==
    ASSUME TypeOK, NEW r \in Runs, NEW q \in Runs \ {r}, StepOf(r)
    PROVE  act'[q] = act[q] /\ auto'[q] = auto[q] /\ granted'[q] = granted[q]
  <1> DEFINE Same == act'[q] = act[q] /\ auto'[q] = auto[q] /\ granted'[q] = granted[q]
  <1>1. ASSUME NEW w \in Pool, FailAction(r, w) PROVE Same
    BY <1>1 DEF FailAction, SetAction, TypeOK, context, client
  <1>2. CASE Execute(r) \/ Finalize(r)
    BY <1>2 DEF Execute, Finalize, context, client
  <1>3. CASE Cancel(r)
    BY <1>3 DEF Cancel, ReleaseGate, SkipAt, SetAction, TypeOK, record, client
  <1>4. CASE Retry(r)
    BY <1>4 DEF Retry, ResetActions, TypeOK, client
  <1>5. ASSUME NEW w \in Pool, WorkerTurn(r, w) PROVE Same
    <2>1. CASE TakeStep(r, w) \/ EndStep(r, w)
      BY <2>1 DEF TakeStep, EndStep, context, client
    <2>2. CASE LeaveLoop(r, w)
      BY <2>2 DEF LeaveLoop, record, context, client
    <2>3. CASE NextAction(r, w)
      BY <2>3 DEF NextAction, SetAction, TypeOK, context, client
    <2>4. QED
      BY <1>1, <1>5, <2>1, <2>2, <2>3 DEF WorkerTurn, UnknownOp
  <1>6. ASSUME NEW w \in Pool, Answer(r, w) PROVE Same
    <2>1. CASE OpenGate(r, w)
      BY <2>1 DEF OpenGate, context
    <2>2. CASE PassGate(r, w)
      BY <2>2 DEF PassGate, record, context, client
    <2>3. CASE TaskReturns(r, w, "Complete") \/ TaskReturns(r, w, "Skipped")
      BY <2>3 DEF TaskReturns, SetAction, TypeOK, context
    <2>4. QED
      BY <1>1, <1>6, <2>1, <2>2, <2>3 DEF Answer, RefuseGate, TaskThrows
  <1>7. ASSUME NEW b \in BOOLEAN, Run(r, b) PROVE Same
    BY <1>7 DEF Run, TypeOK
  <1>8. ASSUME NEW g \in Gate, Confirm(r, g) PROVE Same
    BY <1>8 DEF Confirm, TypeOK, context
  <1>9. ASSUME NEW g \in Gate, ConfirmSkip(r, g) PROVE Same
    BY <1>9 DEF ConfirmSkip, SkipAt, SetAction, TypeOK, context
  <1>10. QED
    BY <1>2, <1>3, <1>4, <1>5, <1>6, <1>7, <1>8, <1>9 DEF StepOf

-----------------------------------------------------------------------------
(* What is on disk.                                                           *)

LEMMA SavedByCheckpoint ==
    ASSUME TypeOK, NEW r \in Runs, checkpoint(r)
    PROVE  Saved(r)'
  BY CheckpointWrites DEF Saved

\* Between turns the file of a run is what is in memory, but for actions under way.
LEMMA IdleSaved ==
    ASSUME TypeOK, NEW r \in Runs, RunInv(r), Saved(r) \/ Retried(r), r \in live => ~InTurn(r)
    PROVE  /\ disk[r].status = status[r]
           /\ disk[r].step = step[r]
           /\ \A s \in Steps, a \in Actions :
                  disk[r].act[s][a] # act[r][s][a] => act[r][s][a] = "Running"
  <1>1. ~Retried(r)
    BY DEF Retried, InTurn, Ready, AllOff
  <1>2. \A s \in Steps : ~Passing(r, s)
    <2>1. SUFFICES ASSUME NEW w \in Pool, worker[r][w].pc = "action" PROVE FALSE
      BY DEF Passing
    <2>2. r \in live
      BY <2>1, UnderWay
    <2>3. QED
      BY <2>1, <2>2 DEF InTurn, Ready
  <1>3. QED
    BY <1>1, <1>2 DEF Saved

\* Only the turns of a worker, an automatic gate and retry() save nothing.
LEMMA CheckpointSteps ==
    ASSUME NEW r \in Runs, StepOf(r)
    PROVE  \/ checkpoint(r)
           \/ \E w \in Pool : LeaveLoop(r, w) \/ NextAction(r, w) \/ PassGate(r, w)
           \/ Cancel(r) /\ UNCHANGED <<record, disk, pending, worker>>
           \/ Retry(r)
  <1>1. ASSUME NEW w \in Pool, WorkerTurn(r, w)
        PROVE  checkpoint(r) \/ LeaveLoop(r, w) \/ NextAction(r, w)
    BY <1>1 DEF WorkerTurn, TakeStep, EndStep, UnknownOp, FailAction
  <1>2. ASSUME NEW w \in Pool, Answer(r, w)
        PROVE  checkpoint(r) \/ PassGate(r, w)
    BY <1>2 DEF Answer, OpenGate, RefuseGate, TaskReturns, TaskThrows, FailAction
  <1>3. CASE Cancel(r)
    BY <1>3 DEF Cancel, ReleaseGate
  <1>4. CASE Execute(r) \/ Finalize(r)
    BY <1>4 DEF Execute, Finalize
  <1>5. ASSUME NEW b \in BOOLEAN, Run(r, b) PROVE checkpoint(r)
    BY <1>5 DEF Run
  <1>6. ASSUME NEW g \in Gate, Confirm(r, g) \/ ConfirmSkip(r, g) PROVE checkpoint(r)
    BY <1>6 DEF Confirm, ConfirmSkip
  <1>7. QED
    BY <1>1, <1>2, <1>3, <1>4, <1>5, <1>6 DEF StepOf

LEMMA SavedStep ==
    ASSUME TypeOK, NEW r \in Runs, RunInv(r), DiskInv(r), StepOf(r)
    PROVE  (Saved(r) \/ Retried(r))'
  <1>1. CASE checkpoint(r)
    BY <1>1, SavedByCheckpoint
  <1>2. ASSUME NEW w \in Pool, LeaveLoop(r, w) PROVE (Saved(r) \/ Retried(r))'
    <2>1. /\ worker[r][w].pc = "loop" /\ worker'[r][w] = Off
          /\ \A v \in Pool \ {w} : worker'[r][v] = worker[r][v]
      BY <1>2 DEF LeaveLoop, At, MoveTo, TypeOK
    <2>2. UNCHANGED <<status, step, act, disk, live, cancel>>
      BY <1>2 DEF LeaveLoop, record, context
    <2>3. Retried(r) => Retried(r)'
      BY <2>1, <2>2 DEF Retried, Off
    <2>4. \A s \in Steps : Passing(r, s) => Passing(r, s)'
      BY <2>1, <2>2 DEF Passing
    <2>5. Saved(r) => Saved(r)'
      BY <2>2, <2>4 DEF Saved
    <2>6. QED
      BY <2>3, <2>5 DEF DiskInv
  <1>3. ASSUME NEW w \in Pool, NextAction(r, w) PROVE Saved(r)'
    <2> DEFINE s == worker[r][w].step
               a == worker[r][w].action
    <2>1. /\ worker[r][w].pc = "action" /\ s \in Steps /\ a \in Actions
          /\ UNCHANGED <<status, step, disk, cancel>>
      BY <1>3, PlaceShape DEF NextAction, At, context
    <2>2. Saved(r)
      BY <2>1 DEF DiskInv, Retried
    <2>3. \A v \in Pool \ {w} : worker'[r][v] = worker[r][v]
      BY <1>3 DEF NextAction, MoveTo, TypeOK
    <2>4. CASE act[r][s][a] = "Complete" \/ Stopping(r)
      <3>1. worker'[r][w] = On("action", s, a + 1)
        BY <1>3, <2>4 DEF NextAction, MoveTo, TypeOK
      <3>2. \A t \in Steps : Passing(r, t) => Passing(r, t)'
        BY <2>1, <2>3, <3>1 DEF Passing, On
      <3>3. CASE act'[r] = act[r]
        BY <2>1, <2>2, <3>2, <3>3 DEF Saved
      <3>4. CASE act'[r] # act[r]
        <4>1. Stopping(r) /\ act' = [act EXCEPT ![r][s][a] = "Skipped"]
          BY <1>3, <2>4, <3>4 DEF NextAction, SetAction
        <4>2. \A t \in Steps : t = s => Passing(r, t)'
          BY <2>1, <3>1, <4>1 DEF Passing, Stopping, On
        <4>3. \A t \in Steps \ {s} : act'[r][t] = act[r][t]
          BY <2>1, <4>1 DEF TypeOK
        <4>4. ASSUME NEW t \in Steps, NEW b \in Actions, disk[r].act[t][b] # act'[r][t][b]
              PROVE  act'[r][t][b] = "Running" \/ Passing(r, t)'
          BY <2>2, <3>2, <4>2, <4>3, <4>4 DEF Saved
        <4>5. QED
          BY <2>1, <2>2, <4>4 DEF Saved
      <3>5. QED
        BY <3>3, <3>4
    <2>5. CASE act[r][s][a] # "Complete" /\ ~Stopping(r)
      <3>1. act' = [act EXCEPT ![r][s][a] = "Running"]
        BY <1>3, <2>5 DEF NextAction, SetAction
      <3>2. /\ act'[r][s][a] = "Running"
            /\ \A t \in Steps, b \in Actions : t # s \/ b # a => act'[r][t][b] = act[r][t][b]
        BY <2>1, <3>1 DEF TypeOK
      <3>3. \A t \in Steps : ~Passing(r, t)
        BY <2>5 DEF Passing, Stopping
      <3>4. QED
        BY <2>1, <2>2, <3>2, <3>3 DEF Saved
    <2>6. QED
      BY <2>4, <2>5
  <1>4. ASSUME NEW w \in Pool, PassGate(r, w) PROVE Saved(r)'
    <2>1. /\ worker[r][w].pc = "validate" /\ UNCHANGED <<status, step, act, disk, cancel>>
          /\ \A v \in Pool \ {w} : worker'[r][v] = worker[r][v]
      BY <1>4 DEF PassGate, At, MoveTo, TypeOK, record, context
    <2>2. Saved(r)
      BY <2>1 DEF DiskInv, Retried
    <2>3. \A s \in Steps : Passing(r, s) => Passing(r, s)'
      BY <2>1 DEF Passing
    <2>4. QED
      BY <2>1, <2>2, <2>3 DEF Saved
  <1>5. CASE Cancel(r) /\ UNCHANGED <<record, disk, pending, worker>>
    <2>1. UNCHANGED <<status, step, act, disk, live, worker>> /\ cancel'[r]
      BY <1>5 DEF Cancel, record, TypeOK
    <2>2. \A s \in Steps : Passing(r, s) => Passing(r, s)'
      BY <2>1 DEF Passing
    <2>3. QED
      BY <2>1, <2>2 DEF DiskInv, Saved, Retried
  <1>6. CASE Retry(r)
    <2>1. isTerminal(status[r]) /\ Saved(r)
      BY <1>6 DEF Retry, DiskInv, Retried
    <2>2. /\ status'[r] = "Running" /\ r \in live' /\ disk' = disk
          /\ \A w \in Pool : worker'[r][w].pc \in {"loop", "off"}
      BY <1>6 DEF Retry, StartWorkers, TypeOK, AtLoop, Off
    <2>3. \A s \in Steps : step'[r][s] = "Complete" <=> step[r][s] = "Complete"
      BY <1>6 DEF Retry, ResetSteps, TypeOK
    <2>4. QED
      BY <2>1, <2>2, <2>3 DEF Saved, Retried
  <1>7. QED
    BY <1>1, <1>2, <1>3, <1>4, <1>5, <1>6, CheckpointSteps

-----------------------------------------------------------------------------
(* What the workers await.                                                    *)

\* No action changes and no worker begins to await another one.
LEMMA AwaitSame ==
    ASSUME NEW r \in Runs, AwaitInv(r), act'[r] = act[r],
           \A v \in Pool : worker'[r][v].pc \in Awaiting =>
               /\ worker[r][v].pc \in Awaiting
               /\ worker'[r][v].step = worker[r][v].step
               /\ worker'[r][v].action = worker[r][v].action
    PROVE  AwaitInv(r)'
  BY DEF AwaitInv, Awaiting

\* One worker changes the action it is at, and awaits it only when it is begun.
LEMMA AwaitMoves ==
    ASSUME TypeOK, NEW r \in Runs, RunInv(r), AwaitInv(r), NEW w \in Pool, Busy(r, w),
           NEW s \in Steps, s = worker[r][w].step, NEW a \in Actions, NEW x,
           act' = [act EXCEPT ![r][s][a] = x],
           \A v \in Pool \ {w} : worker'[r][v] = worker[r][v],
           worker'[r][w].pc \in Awaiting =>
               worker'[r][w].step = s /\ worker'[r][w].action = a /\ x = "Running"
    PROVE  AwaitInv(r)'
  <1>1. /\ act'[r][s][a] = x
        /\ \A t \in Steps \ {s} : act'[r][t] = act[r][t]
    BY DEF TypeOK
  <1>2. ASSUME NEW v \in Pool \ {w}, worker[r][v].pc \in Awaiting
        PROVE  worker[r][v].step \in Steps \ {s}
    BY <1>2, PlaceShape DEF RunInv, WorkerInv, Busy, Awaiting
  <1>3. ASSUME NEW v \in Pool, worker'[r][v].pc \in Awaiting
        PROVE  act'[r][worker'[r][v].step][worker'[r][v].action] = "Running"
    <2>1. CASE v = w
      BY <1>1, <1>3, <2>1
    <2>2. CASE v # w
      BY <1>1, <1>2, <1>3, <2>2 DEF AwaitInv
    <2>3. QED
      BY <2>1, <2>2
  <1>4. QED
    BY <1>3 DEF AwaitInv, Awaiting

\* The workers parked on the pending gate leave it.
LEMMA AwaitSkips ==
    ASSUME TypeOK, NEW r \in Runs, RunInv(r), AwaitInv(r), pending[r] # NoGate,
           SkipAt(r, pending[r])
    PROVE  AwaitInv(r)'
  <1>1. PICK w \in Pool : worker[r][w] = On("gate", pending[r].step, pending[r].action)
    BY DEF RunInv, ContextInv, ParkedOn
  <1>2. /\ Busy(r, w) /\ worker[r][w].step = pending[r].step
        /\ pending[r].step \in Steps /\ pending[r].action \in Actions
    BY <1>1, PlaceShape DEF Busy, On
  <1>3. \A v \in Pool : v \in ParkedOn(r, pending[r]) <=> v = w
    BY <1>1, <1>2 DEF ParkedOn, RunInv, WorkerInv, Busy, On
  <1>4. /\ worker'[r][w].pc = "action"
        /\ \A v \in Pool \ {w} : worker'[r][v] = worker[r][v]
    BY <1>3 DEF SkipAt, TypeOK, On
  <1>5. act' = [act EXCEPT ![r][pending[r].step][pending[r].action] = "Skipped"]
    BY DEF SkipAt, SetAction
  <1>6. QED
    BY <1>2, <1>4, <1>5, AwaitMoves DEF Awaiting

\* An action that fails is the one its worker is at.
LEMMA AwaitFails ==
    ASSUME TypeOK, NEW r \in Runs, RunInv(r), AwaitInv(r), NEW w \in Pool,
           FailAction(r, w), Busy(r, w), worker[r][w].action \in Actions
    PROVE  AwaitInv(r)'
  <1>1. worker[r][w].step \in Steps
    BY PlaceShape DEF Busy
  <1>2. /\ worker'[r][w].pc \notin Awaiting
        /\ \A v \in Pool \ {w} : worker'[r][v] = worker[r][v]
    BY DEF FailAction, MoveTo, AfterError, TypeOK, Off, AtLoop, Awaiting
  <1>3. act' = [act EXCEPT ![r][worker[r][w].step][worker[r][w].action] = "Error"]
    BY DEF FailAction, SetAction
  <1>4. QED
    BY <1>1, <1>2, <1>3, AwaitMoves

LEMMA AwaitStep ==
    ASSUME TypeOK, NEW r \in Runs, RunInv(r), AwaitInv(r), StepOf(r)
    PROVE  AwaitInv(r)'
  <1>1. CASE Execute(r)
    <2>1. act' = act /\ \A v \in Pool : worker'[r][v].pc \notin Awaiting
      BY <1>1 DEF Execute, StartWorkers, TypeOK, AtLoop, Off, Awaiting
    <2>2. QED
      BY <2>1, AwaitSame
  <1>2. CASE Finalize(r)
    BY <1>2, AwaitSame DEF Finalize
  <1>3. CASE Cancel(r)
    <2>1. CASE pending[r] = NoGate
      BY <1>3, <2>1, AwaitSame DEF Cancel, ReleaseGate, record
    <2>2. CASE pending[r] # NoGate
      BY <1>3, <2>2, AwaitSkips DEF Cancel, ReleaseGate
    <2>3. QED
      BY <2>1, <2>2
  <1>4. CASE Retry(r)
    <2>1. \A v \in Pool : worker'[r][v].pc \notin Awaiting
      BY <1>4 DEF Retry, StartWorkers, TypeOK, AtLoop, Off, Awaiting
    <2>2. QED
      BY <2>1 DEF AwaitInv, Awaiting
  <1>5. ASSUME NEW w \in Pool, TakeStep(r, w) \/ LeaveLoop(r, w) \/ EndStep(r, w) PROVE AwaitInv(r)'
    <2>1. /\ act' = act /\ worker'[r][w].pc \notin Awaiting
          /\ \A v \in Pool \ {w} : worker'[r][v] = worker[r][v]
      BY <1>5 DEF TakeStep, LeaveLoop, EndStep, MoveTo, TypeOK, record, On, AtLoop, Off, Awaiting
    <2>2. QED
      BY <2>1, AwaitSame
  <1>6. ASSUME NEW w \in Pool, NextAction(r, w) PROVE AwaitInv(r)'
    <2> DEFINE s == worker[r][w].step
               a == worker[r][w].action
    <2>1. Busy(r, w) /\ s \in Steps /\ a \in Actions
      BY <1>6, PlaceShape DEF NextAction, At, Busy
    <2>2. \A v \in Pool \ {w} : worker'[r][v] = worker[r][v]
      BY <1>6 DEF NextAction, MoveTo, TypeOK
    <2>3. CASE act[r][s][a] = "Complete"
      <3>1. act' = act /\ worker'[r][w].pc = "action"
        BY <1>6, <2>3 DEF NextAction, MoveTo, TypeOK, On
      <3>2. QED
        BY <2>2, <3>1, AwaitSame DEF Awaiting
    <2>4. CASE act[r][s][a] # "Complete" /\ Stopping(r)
      <3>1. act' = [act EXCEPT ![r][s][a] = "Skipped"] /\ worker'[r][w].pc = "action"
        BY <1>6, <2>4 DEF NextAction, SetAction, MoveTo, TypeOK, On
      <3>2. QED
        BY <2>1, <2>2, <3>1, AwaitMoves DEF Awaiting
    <2>5. CASE act[r][s][a] # "Complete" /\ ~Stopping(r)
      <3>1. /\ act' = [act EXCEPT ![r][s][a] = "Running"]
            /\ worker'[r][w].step = s /\ worker'[r][w].action = a
        BY <1>6, <2>5 DEF NextAction, SetAction, MoveTo, TypeOK, On
      <3>2. QED
        BY <2>1, <2>2, <3>1, AwaitMoves
    <2>6. QED
      BY <2>3, <2>4, <2>5
  <1>7. ASSUME NEW w \in Pool, UnknownOp(r, w) PROVE AwaitInv(r)'
    BY <1>7, AwaitFails DEF UnknownOp, At, Busy
  <1>8. ASSUME NEW w \in Pool, OpenGate(r, w) \/ PassGate(r, w) PROVE AwaitInv(r)'
    <2>1. /\ act' = act /\ worker[r][w].pc \in Awaiting
          /\ worker'[r][w].step = worker[r][w].step
          /\ worker'[r][w].action = worker[r][w].action
          /\ \A v \in Pool \ {w} : worker'[r][v] = worker[r][v]
      BY <1>8 DEF OpenGate, PassGate, At, MoveTo, TypeOK, record, On, Awaiting
    <2>2. QED
      BY <2>1, AwaitSame
  <1>9. ASSUME NEW w \in Pool, RefuseGate(r, w) \/ TaskThrows(r, w) PROVE AwaitInv(r)'
    BY <1>9, PlaceShape, AwaitFails DEF RefuseGate, TaskThrows, At, Busy
  <1>10. ASSUME NEW w \in Pool, NEW o \in {"Complete", "Skipped"}, TaskReturns(r, w, o)
         PROVE  AwaitInv(r)'
    <2>1. /\ Busy(r, w) /\ worker[r][w].step \in Steps /\ worker[r][w].action \in Actions
      BY <1>10, PlaceShape DEF TaskReturns, At, Busy
    <2>2. /\ act' = [act EXCEPT ![r][worker[r][w].step][worker[r][w].action] = o]
          /\ worker'[r][w].pc \notin Awaiting
          /\ \A v \in Pool \ {w} : worker'[r][v] = worker[r][v]
      BY <1>10 DEF TaskReturns, SetAction, MoveTo, TypeOK, On, Awaiting
    <2>3. QED
      BY <2>1, <2>2, AwaitMoves
  <1>11. ASSUME NEW b \in BOOLEAN, Run(r, b) PROVE AwaitInv(r)'
    BY <1>11, AwaitSame DEF Run
  <1>12. ASSUME NEW g \in Gate, Confirm(r, g) PROVE AwaitInv(r)'
    <2>1. act' = act /\ \A v \in Pool : worker'[r][v] =
              IF v \in ParkedOn(r, pending[r]) THEN On("exec", pending[r].step, pending[r].action)
                                               ELSE worker[r][v]
      BY <1>12 DEF Confirm, TypeOK
    <2>2. QED
      BY <2>1, AwaitSame DEF ParkedOn, On, Awaiting
  <1>13. ASSUME NEW g \in Gate, ConfirmSkip(r, g) PROVE AwaitInv(r)'
    BY <1>13, AwaitSkips DEF ConfirmSkip
  <1>14. QED
    BY <1>1, <1>2, <1>3, <1>4, <1>5, <1>6, <1>7, <1>8, <1>9, <1>10, <1>11, <1>12, <1>13
       DEF StepOf, WorkerTurn, Answer

-----------------------------------------------------------------------------
(* What the operator confirmed.                                               *)

\* A worker begins to run a gated task only under AutoConfirm or when confirmed.
LEMMA GrantSame ==
    ASSUME NEW r \in Runs, GrantInv(r), granted[r] \subseteq granted'[r],
           \A v \in Pool : worker'[r][v].pc = "exec" =>
               worker'[r][v] = worker[r][v] /\ auto'[r] = auto[r]
    PROVE  GrantInv(r)'
  BY DEF GrantInv

LEMMA GrantStep ==
    ASSUME TypeOK, NEW r \in Runs, RunInv(r), GrantInv(r), StepOf(r)
    PROVE  GrantInv(r)'
  <1>1. ASSUME NEW w \in Pool, FailAction(r, w) PROVE GrantInv(r)'
    <2>1. /\ worker'[r][w].pc # "exec" /\ auto' = auto /\ granted' = granted
          /\ \A v \in Pool \ {w} : worker'[r][v] = worker[r][v]
      BY <1>1 DEF FailAction, MoveTo, AfterError, TypeOK, context, client, AtLoop, Off
    <2>2. QED
      BY <2>1, GrantSame
  <1>2. CASE Execute(r)
    <2>1. granted' = granted /\ \A v \in Pool : worker'[r][v].pc # "exec"
      BY <1>2 DEF Execute, StartWorkers, TypeOK, client, AtLoop, Off
    <2>2. QED
      BY <2>1, GrantSame
  <1>3. CASE Finalize(r)
    BY <1>3, GrantSame DEF Finalize, context, client
  <1>4. CASE Cancel(r)
    <2>1. CASE pending[r] = NoGate
      BY <1>4, <2>1, GrantSame DEF Cancel, ReleaseGate, client
    <2>2. CASE pending[r] # NoGate
      <3>1. /\ auto' = auto /\ granted' = granted
            /\ \A v \in Pool : worker'[r][v] = worker[r][v] \/ worker'[r][v].pc = "action"
        BY <1>4, <2>2 DEF Cancel, ReleaseGate, SkipAt, TypeOK, client, On
      <3>2. QED
        BY <3>1, GrantSame
    <2>3. QED
      BY <2>1, <2>2
  <1>5. CASE Retry(r)
    <2>1. granted' = granted /\ \A v \in Pool : worker'[r][v].pc # "exec"
      BY <1>5 DEF Retry, StartWorkers, TypeOK, client, AtLoop, Off
    <2>2. QED
      BY <2>1, GrantSame
  <1>6. ASSUME NEW w \in Pool, TakeStep(r, w) \/ LeaveLoop(r, w) \/ EndStep(r, w) \/ OpenGate(r, w)
        PROVE  GrantInv(r)'
    <2>1. /\ worker'[r][w].pc # "exec" /\ auto' = auto /\ granted' = granted
          /\ \A v \in Pool \ {w} : worker'[r][v] = worker[r][v]
      BY <1>6 DEF TakeStep, LeaveLoop, EndStep, OpenGate, MoveTo, TypeOK, context, client, On, AtLoop, Off
    <2>2. QED
      BY <2>1, GrantSame
  <1>7. ASSUME NEW w \in Pool, NextAction(r, w) PROVE GrantInv(r)'
    <2>1. /\ auto' = auto /\ granted' = granted
          /\ \A v \in Pool \ {w} : worker'[r][v] = worker[r][v]
          /\ worker'[r][w].pc = "exec" => OpKind[worker'[r][w].step][worker'[r][w].action] # "publish"
      BY <1>7 DEF NextAction, MoveTo, TypeOK, context, client, On
    <2>2. QED
      BY <2>1 DEF GrantInv
  <1>8. ASSUME NEW w \in Pool, PassGate(r, w) PROVE GrantInv(r)'
    <2>1. auto'[r]
      BY <1>8 DEF PassGate, context
    <2>2. QED
      BY <2>1 DEF GrantInv
  <1>9. ASSUME NEW w \in Pool, NEW o \in {"Complete", "Skipped"}, TaskReturns(r, w, o)
        PROVE  GrantInv(r)'
    <2>1. /\ worker'[r][w].pc # "exec" /\ auto' = auto /\ granted' = granted
          /\ \A v \in Pool \ {w} : worker'[r][v] = worker[r][v]
      BY <1>9 DEF TaskReturns, MoveTo, TypeOK, context, On
    <2>2. QED
      BY <2>1, GrantSame
  <1>10. ASSUME NEW b \in BOOLEAN, Run(r, b) PROVE GrantInv(r)'
    <2>1. granted' = granted /\ \A v \in Pool : worker'[r][v].pc # "exec"
      BY <1>10 DEF Run, RunInv, ContextInv, AllOff
    <2>2. QED
      BY <2>1, GrantSame
  <1>11. ASSUME NEW g \in Gate, Confirm(r, g) PROVE GrantInv(r)'
    <2>1. auto' = auto /\ \A v \in Pool : worker'[r][v] =
              IF v \in ParkedOn(r, g) THEN On("exec", g.step, g.action) ELSE worker[r][v]
      BY <1>11 DEF Confirm, Matches, TypeOK, context
    <2>2. granted'[r] = granted[r] \cup {g} /\ [step |-> g.step, action |-> g.action] = g
      BY <1>11 DEF Confirm, TypeOK, Gate
    <2>3. QED
      BY <2>1, <2>2 DEF GrantInv, On
  <1>12. ASSUME NEW g \in Gate, ConfirmSkip(r, g) PROVE GrantInv(r)'
    <2>1. /\ auto' = auto /\ granted' = granted
          /\ \A v \in Pool : worker'[r][v] = worker[r][v] \/ worker'[r][v].pc = "action"
      BY <1>12 DEF ConfirmSkip, SkipAt, TypeOK, context, On
    <2>2. QED
      BY <2>1, GrantSame
  <1>13. QED
    BY <1>1, <1>2, <1>3, <1>4, <1>5, <1>6, <1>7, <1>8, <1>9, <1>10, <1>11, <1>12
       DEF StepOf, WorkerTurn, Answer, UnknownOp, RefuseGate, TaskThrows

-----------------------------------------------------------------------------
(* The invariant. *)

LEMMA RecordsInit == Init => RecordsInv
  <1> SUFFICES ASSUME Init, NEW r \in Runs PROVE DiskInv(r)
    BY DEF RecordsInv
  <1>1. /\ status[r] = "Absent" /\ step[r] = NewRecord.step /\ act[r] = NewRecord.act
        /\ disk[r] = NewRecord /\ \A w \in Pool : worker[r][w] = Off
    BY DEF Init
  <1>2. disk[r].status = "Absent" /\ disk[r].step = step[r] /\ disk[r].act = act[r]
    BY <1>1 DEF NewRecord
  <1>3. QED
    BY <1>1, <1>2 DEF DiskInv, Saved, AwaitInv, GrantInv, Awaiting, Off

\* Nothing of run q moves.
LEMMA DiskSame ==
    ASSUME NEW q \in Runs, DiskInv(q), Untouched(q),
           act'[q] = act[q], auto'[q] = auto[q], granted'[q] = granted[q]
    PROVE  DiskInv(q)'
  <1>1. Saved(q) => Saved(q)'
    BY DEF Untouched, Saved, Passing
  <1>2. Retried(q) => Retried(q)'
    BY DEF Untouched, Retried
  <1>3. AwaitInv(q)' /\ GrantInv(q)'
    BY DEF Untouched, DiskInv, AwaitInv, GrantInv, Awaiting
  <1>4. QED
    BY <1>1, <1>2, <1>3 DEF DiskInv

LEMMA RecordsStep ==
    ASSUME TypeOK, EngineInv, RecordsInv, [Next]_vars
    PROVE  RecordsInv'
  <1> SUFFICES ASSUME NEW q \in Runs PROVE DiskInv(q)'
    BY DEF RecordsInv
  <1>1. RunInv(q) /\ DiskInv(q)
    BY DEF EngineInv, RecordsInv
  <1>2. ASSUME NEW r \in Runs, StepOf(r) PROVE DiskInv(q)'
    <2>1. CASE r = q
      BY <1>1, <1>2, <2>1, SavedStep, AwaitStep, GrantStep DEF DiskInv
    <2>2. CASE r # q
      <3>1. Untouched(q)
        BY <1>2, <2>2, OthersUntouched
      <3>2. act'[q] = act[q] /\ auto'[q] = auto[q] /\ granted'[q] = granted[q]
        BY <1>2, <2>2, OthersRecord
      <3>3. QED
        BY <1>1, <3>1, <3>2, DiskSame
    <2>3. QED
      BY <2>1, <2>2
  <1>3. CASE Crash
    <2>1. /\ status'[q] = disk'[q].status /\ step'[q] = disk'[q].step /\ act'[q] = disk'[q].act
          /\ \A w \in Pool : worker'[q][w] = Off
      BY <1>3 DEF Crash
    <2>2. QED
      BY <2>1 DEF DiskInv, Saved, AwaitInv, GrantInv, Awaiting, Off
  <1>4. CASE UNCHANGED vars
    BY <1>1, <1>4, DiskSame DEF vars, Untouched
  <1>5. QED
    BY <1>2, <1>3, <1>4, NextCases

\* In every reachable state the manifest file of a run is its record in memory but
\* for what this turn or a retry() that has not begun a step has changed, what a
\* worker awaits is under way, and a gated task runs only as it may.
THEOREM RecordsInvariant == Spec => []RecordsInv
  <1>1. RecordsInv /\ TypeOK /\ EngineInv /\ [Next]_vars => RecordsInv'
    BY RecordsStep
  <1>2. QED
    BY <1>1, RecordsInit, TypeCorrect, EngineInvariant, PTL DEF Spec

\* _confirmGate lets a publish through only for the answer to that very gate, or
\* under AutoConfirm, for every plan, pool and order of answers, retries, crashes.
THEOREM OnlyConfirmedPublishesHolds == Spec => []OnlyConfirmedPublishes
  <1>1. RecordsInv => OnlyConfirmedPublishes
    BY DEF RecordsInv, DiskInv, GrantInv, OnlyConfirmedPublishes
  <1>2. QED
    BY <1>1, RecordsInvariant, PTL

\* When the event loop is at rest, the manifest file holds every result: a crash
\* then loses only that an action was under way.
THEOREM DiskCurrentHolds == Spec => []DiskCurrent
  <1>1. TypeOK /\ EngineInv /\ RecordsInv => DiskCurrent
    BY IdleSaved DEF EngineInv, RecordsInv, DiskInv, Idle, DiskCurrent
  <1>2. QED
    BY <1>1, TypeCorrect, EngineInvariant, RecordsInvariant, PTL

-----------------------------------------------------------------------------
(* After cancel(). *)

\* No step and no action of run r begins to run.
BeginsNothing(r) == \A s \in Steps :
    /\ step'[r][s] = "Running" => step[r][s] = "Running"
    /\ \A a \in Actions : act'[r][s][a] = "Running" => act[r][s][a] = "Running"

\* What run r sets out to carry out was awaited before.
CarriesOut(r) == \A w \in Pool :
    worker'[r][w].pc = "exec" /\ worker[r][w].pc # "exec" => CarriedOut(r, w)

\* A worker is moved to a place where nothing is carried out.
LEMMA MovedElsewhere ==
    ASSUME TypeOK, NEW r \in Runs, NEW w \in Pool, NEW place, MoveTo(r, w, place),
           place.pc # "exec"
    PROVE  CarriesOut(r)
  BY DEF MoveTo, TypeOK, CarriesOut

LEMMA SkipCarriesOut ==
    ASSUME TypeOK, NEW r \in Runs, NEW g \in Gate \cup {NoGate}, SkipAt(r, g)
    PROVE  CarriesOut(r)
  BY DEF SkipAt, On, TypeOK, CarriesOut

LEMMA FailCarriesOut ==
    ASSUME TypeOK, NEW r \in Runs, NEW w \in Pool, FailAction(r, w)
    PROVE  CarriesOut(r)
  <1>1. MoveTo(r, w, AfterError(r))
    BY DEF FailAction
  <1>2. AfterError(r).pc # "exec"
    BY DEF AfterError, Off, AtLoop
  <1>3. QED
    BY <1>1, <1>2, MovedElsewhere

\* Of a cancelled run only the answer of a pre-check, under AutoConfirm, and that
\* of a client to the pending gate have an action carried out.
LEMMA CancelledCarriesOut ==
    ASSUME TypeOK, NEW r \in Runs, StepOf(r), cancel[r], cancel'[r]
    PROVE  CarriesOut(r)
  <1>1. CASE Execute(r)
    BY <1>1 DEF Execute, StartWorkers, AtLoop, Off, TypeOK, CarriesOut
  <1>2. CASE Finalize(r)
    BY <1>2 DEF Finalize, CarriesOut
  <1>3. CASE Cancel(r)
    <2>1. pending[r] \in Gate \cup {NoGate}
      BY DEF TypeOK
    <2>2. CASE pending[r] = NoGate
      BY <1>3, <2>2 DEF Cancel, ReleaseGate, CarriesOut
    <2>3. CASE pending[r] # NoGate
      BY <1>3, <2>1, <2>3, SkipCarriesOut DEF Cancel, ReleaseGate
    <2>4. QED
      BY <2>2, <2>3
  <1>4. CASE Retry(r)
    BY <1>4 DEF Retry, TypeOK
  <1>5. ASSUME NEW w \in Pool, WorkerTurn(r, w) PROVE CarriesOut(r)
    <2>1. CASE TakeStep(r, w)
      BY <2>1 DEF TakeStep, Stopping
    <2>2. CASE LeaveLoop(r, w)
      BY <2>2, MovedElsewhere DEF LeaveLoop, Off
    <2>3. CASE NextAction(r, w)
      <3> DEFINE place == On("action", worker[r][w].step, worker[r][w].action + 1)
      <3>1. MoveTo(r, w, place)
        BY <2>3 DEF NextAction, Stopping
      <3>2. place.pc # "exec"
        BY DEF On
      <3>3. QED
        BY <3>1, <3>2, MovedElsewhere
    <2>4. CASE UnknownOp(r, w)
      BY <2>4, FailCarriesOut DEF UnknownOp
    <2>5. CASE EndStep(r, w)
      BY <2>5, MovedElsewhere DEF EndStep, AtLoop
    <2>6. QED
      BY <1>5, <2>1, <2>2, <2>3, <2>4, <2>5 DEF WorkerTurn
  <1>6. ASSUME NEW w \in Pool, Answer(r, w) PROVE CarriesOut(r)
    <2>1. CASE OpenGate(r, w)
      BY <2>1, MovedElsewhere DEF OpenGate, On
    <2>2. CASE PassGate(r, w)
      BY <2>2 DEF PassGate, At, MoveTo, TypeOK, CarriesOut, CarriedOut
    <2>3. ASSUME NEW o \in {"Complete", "Skipped"}, TaskReturns(r, w, o) PROVE CarriesOut(r)
      BY <2>3, MovedElsewhere DEF TaskReturns, On
    <2>4. CASE RefuseGate(r, w) \/ TaskThrows(r, w)
      BY <2>4, FailCarriesOut DEF RefuseGate, TaskThrows
    <2>5. QED
      BY <1>6, <2>1, <2>2, <2>3, <2>4 DEF Answer
  <1>7. ASSUME NEW b \in BOOLEAN, Run(r, b) PROVE CarriesOut(r)
    BY <1>7 DEF Run, CarriesOut
  <1>8. ASSUME NEW g \in Gate, Confirm(r, g) PROVE CarriesOut(r)
    <2>1. /\ pending[r] = g
          /\ granted'[r] = granted[r] \cup {g}
          /\ worker'[r] = [w \in Pool |->
                IF w \in ParkedOn(r, g) THEN On("exec", g.step, g.action) ELSE worker[r][w]]
      BY <1>8 DEF Confirm, Matches, TypeOK
    <2>2. ASSUME NEW w \in Pool, w \in ParkedOn(r, g) PROVE CarriedOut(r, w)
      <3>1. worker[r][w].pc = "gate" /\ worker[r][w].step = g.step /\ worker[r][w].action = g.action
        BY <2>2 DEF ParkedOn, On
      <3>2. g = [step |-> worker[r][w].step, action |-> worker[r][w].action]
        BY <3>1 DEF Gate
      <3>3. QED
        BY <2>1, <2>2, <3>1, <3>2 DEF CarriedOut
    <2>3. QED
      BY <2>1, <2>2 DEF CarriesOut
  <1>9. ASSUME NEW g \in Gate, ConfirmSkip(r, g) PROVE CarriesOut(r)
    <2>1. pending[r] \in Gate \cup {NoGate}
      BY DEF TypeOK
    <2>2. QED
      BY <1>9, <2>1, SkipCarriesOut DEF ConfirmSkip
  <1>10. QED
    BY <1>1, <1>2, <1>3, <1>4, <1>5, <1>6, <1>7, <1>8, <1>9 DEF StepOf

LEMMA CancelledFails ==
    ASSUME TypeOK, NEW r \in Runs, NEW w \in Pool, FailAction(r, w)
    PROVE  BeginsNothing(r)
  BY DEF FailAction, SetAction, TypeOK, BeginsNothing

LEMMA CancelledSkips ==
    ASSUME TypeOK, NEW r \in Runs, NEW g \in Gate \cup {NoGate}, SkipAt(r, g), step' = step
    PROVE  BeginsNothing(r)
  BY DEF SkipAt, SetAction, TypeOK, BeginsNothing

LEMMA CancelledBeginsNothing ==
    ASSUME TypeOK, NEW r \in Runs, StepOf(r), cancel[r], cancel'[r]
    PROVE  BeginsNothing(r)
  <1>1. CASE Execute(r) \/ Finalize(r)
    BY <1>1 DEF Execute, Finalize, BeginsNothing
  <1>2. CASE Cancel(r)
    <2>1. pending[r] \in Gate \cup {NoGate}
      BY DEF TypeOK
    <2>2. QED
      BY <1>2, <2>1, CancelledSkips DEF Cancel, ReleaseGate, record, BeginsNothing
  <1>3. CASE Retry(r)
    BY <1>3 DEF Retry, TypeOK
  <1>4. ASSUME NEW w \in Pool, WorkerTurn(r, w) PROVE BeginsNothing(r)
    <2>1. CASE TakeStep(r, w)
      BY <2>1 DEF TakeStep, Stopping
    <2>2. CASE LeaveLoop(r, w)
      BY <2>2 DEF LeaveLoop, record, BeginsNothing
    <2>3. CASE NextAction(r, w)
      <3> DEFINE s == worker[r][w].step
                 a == worker[r][w].action
      <3>1. step' = step /\ (act' = act \/ act' = [act EXCEPT ![r][s][a] = "Skipped"])
        BY <2>3 DEF NextAction, SetAction, Stopping
      <3>2. \A t \in Steps, b \in Actions : act'[r][t][b] = act[r][t][b] \/ act'[r][t][b] = "Skipped"
        <4>1. s \in Steps /\ a \in Actions
          BY <2>3, PlaceShape DEF NextAction, At
        <4>2. CASE act' = act
          BY <4>2
        <4>3. CASE act' = [act EXCEPT ![r][s][a] = "Skipped"]
          BY <4>1, <4>3 DEF TypeOK
        <4>4. QED
          BY <3>1, <4>2, <4>3
      <3>3. QED
        BY <3>1, <3>2 DEF BeginsNothing
    <2>4. CASE UnknownOp(r, w)
      BY <2>4, CancelledFails DEF UnknownOp
    <2>5. CASE EndStep(r, w)
      BY <2>5 DEF EndStep, TypeOK, BeginsNothing
    <2>6. QED
      BY <1>4, <2>1, <2>2, <2>3, <2>4, <2>5 DEF WorkerTurn
  <1>5. ASSUME NEW w \in Pool, Answer(r, w) PROVE BeginsNothing(r)
    <2>1. CASE OpenGate(r, w) \/ PassGate(r, w)
      BY <2>1 DEF OpenGate, PassGate, record, BeginsNothing
    <2>2. ASSUME NEW o \in {"Complete", "Skipped"}, TaskReturns(r, w, o) PROVE BeginsNothing(r)
      BY <2>2 DEF TaskReturns, SetAction, TypeOK, BeginsNothing
    <2>3. CASE RefuseGate(r, w) \/ TaskThrows(r, w)
      BY <2>3, CancelledFails DEF RefuseGate, TaskThrows
    <2>4. QED
      BY <1>5, <2>1, <2>2, <2>3 DEF Answer
  <1>6. ASSUME NEW b \in BOOLEAN, Run(r, b) PROVE BeginsNothing(r)
    BY <1>6 DEF Run, BeginsNothing
  <1>7. ASSUME NEW g \in Gate, Confirm(r, g) PROVE BeginsNothing(r)
    BY <1>7 DEF Confirm, BeginsNothing
  <1>8. ASSUME NEW g \in Gate, ConfirmSkip(r, g) PROVE BeginsNothing(r)
    <2>1. pending[r] \in Gate \cup {NoGate}
      BY DEF TypeOK
    <2>2. QED
      BY <1>8, <2>1, CancelledSkips DEF ConfirmSkip
  <1>9. QED
    BY <1>1, <1>2, <1>3, <1>4, <1>5, <1>6, <1>7, <1>8 DEF StepOf

\* While the Cancel flag of a run is up, _execute, _runPool and _runStep begin no
\* step and no action of it, whatever answers, confirmations or other runs' turns
\* come between; what _runAction still carries out is an action whose pre-check was
\* awaited, at once under AutoConfirm, else for a client's answer to its gate.
THEOREM CancelledRunWindsDownHolds == Spec => CancelledRunWindsDown
  <1>1. ASSUME TypeOK, Next, NEW q \in Runs, cancel[q], cancel'[q] PROVE WindsDown(q)
    <2>1. ASSUME NEW r \in Runs, StepOf(r) PROVE WindsDown(q)
      <3>1. CASE r = q
        BY <1>1, <2>1, <3>1, CancelledBeginsNothing, CancelledCarriesOut
        DEF WindsDown, BeginsNothing, CarriesOut
      <3>2. CASE r # q
        <4>1. Untouched(q)
          BY <1>1, <2>1, <3>2, OthersUntouched
        <4>2. act'[q] = act[q]
          BY <1>1, <2>1, <3>2, OthersRecord
        <4>3. QED
          BY <4>1, <4>2 DEF Untouched, WindsDown
      <3>3. QED
        BY <3>1, <3>2
    <2>2. CASE Crash
      BY <1>1, <2>2 DEF Crash
    <2>3. QED
      BY <1>1, <2>1, <2>2, NextCases DEF Next, StepOf, Operator
  <1>2. TypeOK /\ [Next]_vars => [\A r \in Runs : cancel[r] /\ cancel'[r] => WindsDown(r)]_vars
    BY <1>1
  <1>3. QED
    BY <1>2, TypeCorrect, PTL DEF Spec, CancelledRunWindsDown

-----------------------------------------------------------------------------
(* What is complete. *)

\* What is complete in run r, its steps and its actions, stays so.
KeepsComplete(r) == \A s \in Steps :
    /\ step[r][s] = "Complete" => step'[r][s] = "Complete"
    /\ \A a \in Actions : act[r][s][a] = "Complete" => act'[r][s][a] = "Complete"

\* An action is set that was not complete.
LEMMA SetKeepsComplete ==
    ASSUME TypeOK, NEW r \in Runs, NEW s \in Steps, NEW a \in Actions, NEW x,
           SetAction(r, s, a, x), act[r][s][a] # "Complete",
           (step' = step \/ (step' = [step EXCEPT ![r][s] = "Error"] /\ step[r][s] # "Complete"))
    PROVE  KeepsComplete(r)
  <1>1. \A t \in Steps, b \in Actions : act[r][t][b] = "Complete" => act'[r][t][b] = "Complete"
    BY DEF SetAction, TypeOK
  <1>2. \A t \in Steps : step[r][t] = "Complete" => step'[r][t] = "Complete"
    BY DEF TypeOK
  <1>3. QED
    BY <1>1, <1>2 DEF KeepsComplete

\* The gate that is released is one a worker awaits.
LEMMA SkipKeepsComplete ==
    ASSUME TypeOK, NEW r \in Runs, RunInv(r), AwaitInv(r), pending[r] # NoGate,
           SkipAt(r, pending[r]), step' = step
    PROVE  KeepsComplete(r)
  <1>1. PICK w \in Pool : worker[r][w] = On("gate", pending[r].step, pending[r].action)
    BY DEF RunInv, ContextInv, ParkedOn
  <1>2. act[r][pending[r].step][pending[r].action] = "Running"
    BY <1>1 DEF AwaitInv, Awaiting, On
  <1>3. pending[r].step \in Steps /\ pending[r].action \in Actions
    BY DEF TypeOK, Gate
  <1>4. SetAction(r, pending[r].step, pending[r].action, "Skipped")
    BY DEF SkipAt
  <1>5. ASSUME NEW s \in Steps, s = pending[r].step, NEW a \in Actions, a = pending[r].action
        PROVE  KeepsComplete(r)
    <2>1. act' = [act EXCEPT ![r][s][a] = "Skipped"] /\ act[r][s][a] # "Complete"
      BY <1>2, <1>4, <1>5 DEF SetAction
    <2>2. QED
      BY <2>1 DEF TypeOK, KeepsComplete
  <1>6. QED
    BY <1>3, <1>5

\* So is the action of a validator or a task that answers.
LEMMA AwaitedIsRunning ==
    ASSUME TypeOK, NEW r \in Runs, RunInv(r), AwaitInv(r), NEW w \in Pool,
           worker[r][w].pc \in Awaiting
    PROVE  /\ worker[r][w].step \in Steps /\ worker[r][w].action \in Actions
           /\ act[r][worker[r][w].step][worker[r][w].action] = "Running"
           /\ step[r][worker[r][w].step] = "Running"
  BY PlaceShape DEF AwaitInv, Awaiting, RunInv, WorkerInv, Busy

LEMMA OwnKeepsComplete ==
    ASSUME TypeOK, NEW r \in Runs, RunInv(r), DiskInv(r), Idle, StepOf(r)
    PROVE  KeepsComplete(r)
  <1>1. CASE Execute(r) \/ Finalize(r)
    BY <1>1 DEF Execute, Finalize, KeepsComplete
  <1>2. CASE Cancel(r)
    BY <1>2, SkipKeepsComplete DEF Cancel, ReleaseGate, record, KeepsComplete, DiskInv
  <1>3. CASE Retry(r)
    BY <1>3 DEF Retry, ResetSteps, ResetActions, TypeOK, KeepsComplete
  <1>4. ASSUME NEW w \in Pool, WorkerTurn(r, w) PROVE KeepsComplete(r)
    <2>1. r \in live /\ Ready(r, w)
      BY <1>4 DEF WorkerTurn, TakeStep, LeaveLoop, NextAction, UnknownOp, EndStep, At, Ready
    <2>2. QED
      BY <2>1 DEF Idle, InTurn
  <1>5. ASSUME NEW w \in Pool, Answer(r, w) PROVE KeepsComplete(r)
    <2>1. CASE OpenGate(r, w) \/ PassGate(r, w)
      BY <2>1 DEF OpenGate, PassGate, record, KeepsComplete
    <2>2. ASSUME NEW o \in {"Complete", "Skipped"}, TaskReturns(r, w, o) PROVE KeepsComplete(r)
      BY <2>2, AwaitedIsRunning, SetKeepsComplete DEF TaskReturns, At, Awaiting, DiskInv
    <2>3. CASE RefuseGate(r, w) \/ TaskThrows(r, w)
      BY <2>3, AwaitedIsRunning, SetKeepsComplete
         DEF RefuseGate, TaskThrows, FailAction, At, Awaiting, DiskInv
    <2>4. QED
      BY <1>5, <2>1, <2>2, <2>3 DEF Answer
  <1>6. ASSUME NEW b \in BOOLEAN, Run(r, b) PROVE KeepsComplete(r)
    BY <1>6 DEF Run, KeepsComplete
  <1>7. ASSUME NEW g \in Gate, Confirm(r, g) PROVE KeepsComplete(r)
    BY <1>7 DEF Confirm, KeepsComplete
  <1>8. ASSUME NEW g \in Gate, ConfirmSkip(r, g) PROVE KeepsComplete(r)
    BY <1>8, SkipKeepsComplete DEF ConfirmSkip, DiskInv
  <1>9. QED
    BY <1>1, <1>2, <1>3, <1>4, <1>5, <1>6, <1>7, <1>8 DEF StepOf

\* Whatever comes next when the event loop is at rest (an answer, a late error, a
\* confirmation, cancel(), retry(), the end of the process), every step and every
\* action that was complete in the manifest is still complete after it.
THEOREM CompletedStaysCompletedHolds == Spec => CompletedStaysCompleted
  <1>1. ASSUME TypeOK, EngineInv, RecordsInv, Next, Idle, NEW q \in Runs
        PROVE  KeepsComplete(q)
    <2>1. RunInv(q) /\ DiskInv(q)
      BY <1>1 DEF EngineInv, RecordsInv
    <2>2. ASSUME NEW r \in Runs, StepOf(r) PROVE KeepsComplete(q)
      <3>1. CASE r = q
        BY <1>1, <2>1, <2>2, <3>1, OwnKeepsComplete
      <3>2. CASE r # q
        <4>1. Untouched(q)
          BY <1>1, <2>2, <3>2, OthersUntouched
        <4>2. act'[q] = act[q]
          BY <1>1, <2>2, <3>2, OthersRecord
        <4>3. QED
          BY <4>1, <4>2 DEF Untouched, KeepsComplete
      <3>3. QED
        BY <3>1, <3>2
    <2>3. CASE Crash
      <3>1. step'[q] = disk[q].step /\ act'[q] = disk[q].act
        BY <2>3 DEF Crash
      <3>2. QED
        BY <1>1, <2>1, <3>1, IdleSaved DEF DiskInv, Idle, KeepsComplete
    <2>4. QED
      BY <1>1, <2>2, <2>3, NextCases DEF Next, StepOf, Operator
  <1>2. TypeOK /\ EngineInv /\ RecordsInv /\ [Next]_vars =>
          [Idle => \A r \in Runs, s \in Steps :
            /\ step[r][s] = "Complete" => step'[r][s] = "Complete"
            /\ \A a \in Actions : act[r][s][a] = "Complete" => act'[r][s][a] = "Complete"]_vars
    BY <1>1 DEF KeepsComplete
  <1>3. QED
    BY <1>2, TypeCorrect, EngineInvariant, RecordsInvariant, PTL DEF Spec, CompletedStaysCompleted

-----------------------------------------------------------------------------
(* The engine implements BulkRun. *)

Done(r) == {s \in Steps : disk[r].step[s] = "Complete"}

\* What is recorded as complete is what is complete.
LEMMA DoneInMemory ==
    ASSUME NEW r \in Runs, Saved(r) \/ Retried(r)
    PROVE  Done(r) = {s \in Steps : step[r][s] = "Complete"}
  BY DEF Saved, Retried, Done

\* A run with a worker at work is live.
LEMMA BusyIsLive ==
    ASSUME TypeOK, NEW r \in Runs, RunInv(r), NEW w \in Pool, worker[r][w].pc # "off"
    PROVE  r \in live /\ Phase(r) = "live" /\ status[r] # "Queued"
  BY DEF RunInv, ContextInv, AllOff, Phase

\* What a step of the run amounts to, seen from BulkRun.
Stutters(r) == Phase(r)' = Phase(r) /\ Done(r)' = Done(r)

Progresses(r) ==
    /\ Phase(r) = "live" /\ Phase(r)' = "live"
    /\ \E s \in Steps \ Done(r) : Done(r)' = Done(r) \cup {s}

Settles(r) ==
    /\ Phase(r) = "live"
    /\ Phase(r)' \in {"Complete", "Failed", "Cancelled"}
    /\ Phase(r)' = "Complete" => Done(r) = Steps
    /\ Phase(r)' = "Failed" => Done(r) # Steps
    /\ Done(r)' = Done(r)

Submits(r) ==
    /\ \A q \in Runs : Phase(q) # "live"
    /\ Phase(r) = "absent" /\ Phase(r)' = "live"
    /\ Done(r)' = Done(r)

Resumes(r) ==
    /\ Phase(r) \in {"Complete", "Failed", "Cancelled"}
    /\ Phase(r)' = "live"
    /\ Done(r)' = Done(r)

\* Nothing becomes complete and nothing complete is lost.
LEMMA DoneSame ==
    ASSUME NEW r \in Runs, Saved(r) \/ Retried(r), (Saved(r) \/ Retried(r))',
           \A s \in Steps : step'[r][s] = "Complete" <=> step[r][s] = "Complete"
    PROVE  Done(r)' = Done(r)
  BY DEF Saved, Retried, Done

\* A worker moves on within its step, or the step fails.
LEMMA WorkerStutters ==
    ASSUME TypeOK, NEW r \in Runs, RunInv(r), DiskInv(r), DiskInv(r)',
           NEW w \in Pool, worker[r][w].pc # "off",
           status'[r] \in {status[r], "Waiting", "Running"}, live' = live,
           \A s \in Steps : step'[r][s] = "Complete" <=> step[r][s] = "Complete"
    PROVE  Stutters(r)
  <1>1. Phase(r) = "live" /\ r \in live /\ ~isTerminal(status[r]) /\ status[r] # "Absent"
    BY BusyIsLive DEF Phase, RunInv, ContextInv, AllOff
  <1>2. Phase(r)' = "live"
    BY <1>1 DEF Phase
  <1>3. Done(r)' = Done(r)
    BY DoneSame DEF DiskInv
  <1>4. QED
    BY <1>1, <1>2, <1>3 DEF Stutters

LEMMA WorkerRefines ==
    ASSUME TypeOK, NEW r \in Runs, RunInv(r), DiskInv(r), DiskInv(r)',
           NEW w \in Pool, WorkerTurn(r, w) \/ Answer(r, w)
    PROVE  Stutters(r) \/ Progresses(r)
  <1>1. worker[r][w].pc # "off"
    BY DEF WorkerTurn, Answer, TakeStep, LeaveLoop, NextAction, UnknownOp, EndStep, OpenGate,
           PassGate, RefuseGate, TaskReturns, TaskThrows, At
  <1>2. CASE TakeStep(r, w)
    <2>1. PICK s \in queue[r] : step' = [step EXCEPT ![r][s] = "Running"]
      BY <1>2 DEF TakeStep
    <2>2. step[r][s] # "Complete"
      BY DEF RunInv, QueueInv
    <2>3. \A t \in Steps : step'[r][t] = "Complete" <=> step[r][t] = "Complete"
      BY <2>1, <2>2 DEF TypeOK
    <2>4. QED
      BY <1>1, <1>2, <2>3, WorkerStutters DEF TakeStep, context
  <1>3. CASE LeaveLoop(r, w) \/ NextAction(r, w) \/ PassGate(r, w) \/ OpenGate(r, w)
    <2>1. step' = step /\ status'[r] \in {status[r], "Waiting"} /\ live' = live
      BY <1>3 DEF LeaveLoop, NextAction, PassGate, OpenGate, record, context, TypeOK
    <2>2. QED
      BY <1>1, <2>1, WorkerStutters
  <1>4. ASSUME FailAction(r, w), Busy(r, w) PROVE Stutters(r)
    <2>1. step' = [step EXCEPT ![r][worker[r][w].step] = "Error"] /\ status' = status /\ live' = live
      BY <1>4 DEF FailAction, context
    <2>2. step[r][worker[r][w].step] = "Running"
      BY <1>4 DEF RunInv, WorkerInv
    <2>3. \A t \in Steps : step'[r][t] = "Complete" <=> step[r][t] = "Complete"
      BY <2>1, <2>2 DEF TypeOK
    <2>4. QED
      BY <1>1, <2>1, <2>3, WorkerStutters
  <1>5. CASE TaskReturns(r, w, "Complete") \/ TaskReturns(r, w, "Skipped")
    BY <1>1, <1>5, WorkerStutters DEF TaskReturns, context
  <1>6. CASE EndStep(r, w)
    <2> DEFINE s == worker[r][w].step
    <2>1. /\ step' = [step EXCEPT ![r][s] = "Complete"] /\ status' = status /\ live' = live
          /\ s \in Steps
      BY <1>6, PlaceShape DEF EndStep, At, context
    <2>2. step[r][s] = "Running"
      BY <1>6 DEF EndStep, At, RunInv, WorkerInv, Busy
    <2>3. {t \in Steps : step'[r][t] = "Complete"} = {t \in Steps : step[r][t] = "Complete"} \cup {s}
      BY <2>1 DEF TypeOK
    <2>4. Done(r) = {t \in Steps : step[r][t] = "Complete"}
      BY DoneInMemory DEF DiskInv
    <2>5. Done(r)' = {t \in Steps : step'[r][t] = "Complete"}
      BY DEF DiskInv, Saved, Retried, Done
    <2>6. s \in Steps \ Done(r)
      BY <2>1, <2>2, <2>4
    <2>7. Phase(r) = "live" /\ Phase(r)' = "live"
      BY <1>1, <2>1, BusyIsLive DEF Phase
    <2>8. Done(r)' = Done(r) \cup {s}
      BY <2>3, <2>4, <2>5
    <2>9. QED
      BY <2>6, <2>7, <2>8 DEF Progresses
  <1>7. QED
    BY <1>2, <1>3, <1>4, <1>5, <1>6 DEF WorkerTurn, Answer, UnknownOp, RefuseGate, TaskThrows, At, Busy

LEMMA OwnRefines ==
    ASSUME TypeOK, NEW r \in Runs, EngineInv, RecordsInv, RunInv(r)', DiskInv(r)', StepOf(r)
    PROVE  Stutters(r) \/ Progresses(r) \/ Settles(r) \/ Submits(r) \/ Resumes(r)
  <1>1. RunInv(r) /\ DiskInv(r)
    BY DEF EngineInv, RecordsInv
  <1>2. ASSUME \A s \in Steps : step'[r][s] = "Complete" <=> step[r][s] = "Complete"
        PROVE  Done(r)' = Done(r)
    BY <1>1, <1>2, DoneSame DEF DiskInv
  <1>3. CASE Execute(r)
    <2>1. r \in live /\ live' = live /\ status[r] = "Queued" /\ status'[r] = "Running" /\ step' = step
      BY <1>3 DEF Execute, context, TypeOK
    <2>2. QED
      BY <1>2, <2>1 DEF Phase, Stutters
  <1>4. CASE Finalize(r)
    <2>1. /\ r \in live /\ status[r] \in {"Running", "Waiting"} /\ step' = step
          /\ status'[r] \in {"Complete", "Failed", "Cancelled"}
      BY <1>4 DEF Finalize, Verdict, TypeOK
    <2>2. Phase(r) = "live" /\ Phase(r)' = status'[r]
      BY <2>1 DEF Phase
    <2>3. Done(r) = {s \in Steps : step[r][s] = "Complete"} /\ Done(r)' = Done(r)
      BY <1>1, <1>2, <2>1, DoneInMemory DEF DiskInv
    <2>4. /\ status'[r] = "Complete" => \A s \in Steps : step'[r][s] = "Complete"
          /\ status'[r] = "Failed" => \E s \in Steps : step'[r][s] = "Error"
      BY DEF RunInv, RecordInv, Settled
    <2>5. (status'[r] = "Complete" => Done(r) = Steps) /\ (status'[r] = "Failed" => Done(r) # Steps)
      BY <2>1, <2>3, <2>4
    <2>6. QED
      BY <2>1, <2>2, <2>3, <2>5 DEF Settles
  <1>5. CASE Cancel(r)
    <2>1. step' = step /\ status' = status /\ live' = live
      BY <1>5 DEF Cancel, ReleaseGate, record
    <2>2. QED
      BY <1>2, <2>1 DEF Phase, Stutters
  <1>6. CASE Retry(r)
    <2>1. isTerminal(status[r]) /\ status'[r] = "Running" /\ r \in live' /\ disk' = disk
      BY <1>6 DEF Retry, TypeOK
    <2>2. Phase(r) = status[r] /\ Phase(r)' = "live" /\ Done(r)' = Done(r)
      BY <2>1 DEF Phase, Done
    <2>3. QED
      BY <2>1, <2>2 DEF Resumes
  <1>7. ASSUME NEW w \in Pool, WorkerTurn(r, w) \/ Answer(r, w)
        PROVE  Stutters(r) \/ Progresses(r)
    BY <1>1, <1>7, WorkerRefines
  <1>8. ASSUME NEW b \in BOOLEAN, Run(r, b) PROVE Submits(r)
    <2>1. /\ ~hasActiveRun /\ status[r] = "Absent" /\ status'[r] = "Queued" /\ r \in live'
          /\ step' = step
      BY <1>8 DEF Run, TypeOK
    <2>2. \A q \in Runs : Phase(q) # "live"
      BY <2>1 DEF hasActiveRun, Phase
    <2>3. Phase(r) = "absent" /\ Phase(r)' = "live"
      BY <2>1 DEF Phase
    <2>4. QED
      BY <1>2, <2>1, <2>2, <2>3 DEF Submits
  <1>9. ASSUME NEW g \in Gate, Confirm(r, g) \/ ConfirmSkip(r, g) PROVE Stutters(r)
    <2>1. /\ pending[r] # NoGate /\ step' = step /\ live' = live
          /\ status' = [status EXCEPT ![r] = "Running"]
      BY <1>9 DEF Confirm, ConfirmSkip, context
    <2>2. PICK w \in Pool : worker[r][w].pc # "off"
      BY <1>1, <2>1 DEF RunInv, ContextInv, ParkedOn, On
    <2>3. status'[r] = "Running"
      BY <2>1 DEF TypeOK
    <2>4. QED
      BY <1>1, <2>1, <2>2, <2>3, WorkerStutters
  <1>10. QED
    BY <1>3, <1>4, <1>5, <1>6, <1>7, <1>8, <1>9 DEF StepOf

LEMMA OtherStutters ==
    ASSUME NEW q \in Runs, Untouched(q)
    PROVE  Stutters(q)
  BY DEF Untouched, Stutters, Phase, Done

\* The end of the process: every live run is found as it had settled, or lost.
LEMMA CrashRefines ==
    ASSUME TypeOK, RecordsInv, Crash, NEW r \in Runs
    PROVE  /\ Done(r)' = Done(r)
           /\ Phase(r) = "live" => Phase(r)' \in {"Complete", "Failed", "Cancelled", "lost"}
           /\ Phase(r) # "live" => Phase(r)' = Phase(r)
  <1>1. /\ disk' = disk /\ status'[r] = disk[r].status /\ r \notin live'
    BY DEF Crash
  <1>2. Saved(r) \/ Retried(r)
    BY DEF RecordsInv, DiskInv
  <1>3. Phase(r) = "live" => disk[r].status # "Absent"
    BY <1>2 DEF Saved, Retried, Phase
  <1>4. Phase(r) # "live" => disk[r].status = status[r]
    BY <1>2 DEF Saved, Retried, Phase
  <1>5. QED
    BY <1>1, <1>3, <1>4 DEF Phase, Done

\* The mapped variables, and how they move with one run.
PhaseMap == [r \in Runs |-> Phase(r)]
DoneMap  == [r \in Runs |-> Done(r)]

LEMMA MapMoves ==
    ASSUME NEW r \in Runs, \A q \in Runs \ {r} : Stutters(q)
    PROVE  /\ PhaseMap' = [PhaseMap EXCEPT ![r] = Phase(r)']
           /\ DoneMap' = [DoneMap EXCEPT ![r] = Done(r)']
           /\ Done(r)' = Done(r) => DoneMap' = DoneMap
  BY DEF PhaseMap, DoneMap, Stutters

LEMMA AbstractInit == Init => Abstract!Init
  <1> SUFFICES ASSUME Init PROVE Abstract!Init
    OBVIOUS
  <1>1. \A r \in Runs : Phase(r) = "absent"
    BY DEF Init, Phase
  <1>2. \A r \in Runs : {s \in Steps : disk[r].step[s] = "Complete"} = {}
    BY DEF Init, NewRecord
  <1>3. QED
    BY <1>1, <1>2 DEF Abstract!Init

LEMMA AbstractStep ==
    ASSUME TypeOK, EngineInv, RecordsInv, EngineInv', RecordsInv', [Next]_vars
    PROVE  [Abstract!Next]_(Abstract!vars)
  <1>1. ASSUME \A q \in Runs : Stutters(q) PROVE UNCHANGED Abstract!vars
    BY <1>1 DEF Abstract!vars, Stutters, Done
  <1>2. ASSUME NEW r \in Runs, StepOf(r) PROVE [Abstract!Next]_(Abstract!vars)
    <2>1. \A q \in Runs \ {r} : Stutters(q)
      BY <1>2, OthersUntouched, OtherStutters
    <2>2. /\ PhaseMap' = [PhaseMap EXCEPT ![r] = Phase(r)']
          /\ DoneMap' = [DoneMap EXCEPT ![r] = Done(r)']
          /\ Done(r)' = Done(r) => DoneMap' = DoneMap
      BY <2>1, MapMoves
    <2>3. CASE Stutters(r)
      BY <1>1, <2>1, <2>3
    <2>4. CASE Progresses(r)
      <3>1. Abstract!Progress(r)
        BY <2>2, <2>4 DEF Progresses, Abstract!Progress, PhaseMap, DoneMap, Done
      <3>2. QED
        BY <3>1 DEF Abstract!Next
    <2>5. CASE Settles(r)
      <3>1. DoneMap' = DoneMap /\ PhaseMap' = [PhaseMap EXCEPT ![r] = Phase(r)']
        BY <2>2, <2>5 DEF Settles
      <3>2. Abstract!Settle(r)
        BY <2>5, <3>1 DEF Settles, Abstract!Settle, Abstract!Verdicts, PhaseMap, DoneMap, Done
      <3>3. QED
        BY <3>2 DEF Abstract!Next
    <2>6. CASE Submits(r)
      <3>1. DoneMap' = DoneMap /\ PhaseMap' = [PhaseMap EXCEPT ![r] = Phase(r)']
        BY <2>2, <2>6 DEF Submits
      <3>2. Abstract!Submit(r)
        BY <2>6, <3>1 DEF Submits, Abstract!Submit, PhaseMap, DoneMap, Done
      <3>3. QED
        BY <3>2 DEF Abstract!Next
    <2>7. CASE Resumes(r)
      <3>1. DoneMap' = DoneMap /\ PhaseMap' = [PhaseMap EXCEPT ![r] = Phase(r)']
        BY <2>2, <2>7 DEF Resumes
      <3>2. Abstract!Resume(r)
        BY <2>7, <3>1 DEF Resumes, Abstract!Resume, Abstract!Verdicts, PhaseMap, DoneMap, Done
      <3>3. QED
        BY <3>2 DEF Abstract!Next
    <2>8. RunInv(r)' /\ DiskInv(r)'
      BY DEF EngineInv, RecordsInv
    <2>9. QED
      BY <1>2, <2>3, <2>4, <2>5, <2>6, <2>7, <2>8, OwnRefines
  <1>3. CASE Crash
    <2> DEFINE fate == [r \in Runs |-> IF Phase(r) = "live" THEN Phase(r)' ELSE "lost"]
    <2>1. fate \in [Runs -> Abstract!Verdicts \cup {"lost"}]
      BY <1>3, CrashRefines DEF Abstract!Verdicts
    <2>2. PhaseMap' = [r \in Runs |-> IF PhaseMap[r] = "live" THEN fate[r] ELSE PhaseMap[r]]
      BY <1>3, CrashRefines DEF PhaseMap
    <2>3. DoneMap' = DoneMap
      BY <1>3, CrashRefines DEF DoneMap
    <2>4. Abstract!Die
      BY <2>1, <2>2, <2>3 DEF Abstract!Die, PhaseMap, DoneMap, Done
    <2>5. QED
      BY <2>4 DEF Abstract!Next
  <1>4. CASE UNCHANGED vars
    BY <1>1, <1>4, OtherStutters DEF vars, Untouched
  <1>5. QED
    BY <1>2, <1>3, <1>4, NextCases

\* The engine implements BulkRun, for every plan, pool and number of runs: each
\* step of a worker, of the operator or of a crash is a submission, one more step
\* recorded, a verdict borne out, a resumption, a death, or nothing at all.
THEOREM ImplementsBulkRunHolds == Spec => ImplementsBulkRun
  <1>1. TypeOK /\ EngineInv /\ RecordsInv /\ EngineInv' /\ RecordsInv' /\ [Next]_vars
            => [Abstract!Next]_(Abstract!vars)
    BY AbstractStep
  <1>2. QED
    BY <1>1, AbstractInit, TypeCorrect, EngineInvariant, RecordsInvariant, PTL
       DEF Spec, ImplementsBulkRun, Abstract!Spec
-----------------------------------------------------------------------------
(* The gate of a ripple. *)

(* The one loop of a ripple that is shown as Waiting is parked on the pending *)
(* gate, or cancel() has released it and it runs to its end in this turn.     *)
WaitInv(r) == r \in Ripple =>
    /\ worker[r][1].pc = "gate" =>
            status[r] = "Waiting" /\ worker[r][1] = On("gate", pending[r].step, pending[r].action)
    /\ r \in live /\ status[r] = "Waiting" /\ worker[r][1].pc # "gate" =>
            cancel[r] /\ worker[r][1].pc \in {"action", "loop", "off"}

\* A ripple has one worker that is ever busy.
LEMMA OneLoop ==
    ASSUME NEW r \in Ripple, RunInv(r)
    PROVE  1 \in Pool /\ r \in Runs /\ \A w \in Pool : worker[r][w].pc # "off" => w = 1
  BY EngineAssumption DEF RunInv, WorkerInv, Workers, Pool

\* Whoever is parked on the pending gate of a ripple is its one loop.
LEMMA ParkedLoop ==
    ASSUME NEW r \in Ripple, RunInv(r), pending[r] # NoGate
    PROVE  1 \in ParkedOn(r, pending[r])
  <1>1. PICK w \in ParkedOn(r, pending[r]) : TRUE
    BY DEF RunInv, ContextInv
  <1>2. w \in Pool /\ worker[r][w].pc = "gate"
    BY <1>1 DEF ParkedOn, On
  <1>3. QED
    BY <1>1, <1>2, OneLoop

LEMMA WaitStep ==
    ASSUME TypeOK, NEW r \in Runs, RunInv(r), WaitInv(r), StepOf(r)
    PROVE  WaitInv(r)'
  <1> SUFFICES ASSUME r \in Ripple
               PROVE  WaitInv(r)'
    BY DEF WaitInv
  <1>a. 1 \in Pool /\ \A w \in Pool : worker[r][w].pc # "off" => w = 1
    BY OneLoop
  <1>1. ASSUME NEW w \in Pool, FailAction(r, w), worker[r][w].pc # "off", status[r] # "Waiting"
        PROVE  WaitInv(r)'
    <2>1. worker'[r][1] = Off /\ status' = status
      BY <1>a, <1>1 DEF FailAction, MoveTo, AfterError, TypeOK
    <2>2. QED
      BY <1>1, <2>1 DEF WaitInv, Off
  <1>2. CASE Execute(r)
    <2>1. status'[r] = "Running" /\ worker'[r][1].pc # "gate"
      BY <1>2, <1>a DEF Execute, StartWorkers, TypeOK, AtLoop, Off
    <2>2. QED
      BY <2>1 DEF WaitInv
  <1>3. CASE Finalize(r)
    <2>1. status'[r] = Verdict(r) /\ worker' = worker /\ worker[r][1].pc = "off"
      BY <1>3, <1>a DEF Finalize, AllOff, TypeOK
    <2>2. Verdict(r) # "Waiting"
      BY DEF Verdict
    <2>3. QED
      BY <2>1, <2>2 DEF WaitInv
  <1>4. CASE Cancel(r)
    <2>1. cancel'[r] = TRUE /\ live' = live
      BY <1>4 DEF Cancel, TypeOK
    <2>2. CASE pending[r] = NoGate
      <3>1. status' = status /\ worker' = worker /\ pending' = pending
        BY <1>4, <2>2 DEF Cancel, ReleaseGate, record
      <3>2. QED
        BY <2>1, <3>1 DEF WaitInv
    <2>3. CASE pending[r] # NoGate
      <3>1. worker'[r][1] = On("action", pending[r].step, pending[r].action + 1)
        BY <1>4, <1>a, <2>3, ParkedLoop DEF Cancel, ReleaseGate, SkipAt, TypeOK
      <3>2. worker'[r][1].pc = "action"
        BY <3>1 DEF On
      <3>3. QED
        BY <2>1, <3>2 DEF WaitInv
    <2>4. QED
      BY <2>2, <2>3
  <1>5. CASE Retry(r)
    <2>1. status'[r] = "Running" /\ worker'[r][1].pc # "gate"
      BY <1>5, <1>a DEF Retry, StartWorkers, TypeOK, AtLoop, Off
    <2>2. QED
      BY <2>1 DEF WaitInv
  <1>6. ASSUME NEW w \in Pool, TakeStep(r, w) PROVE WaitInv(r)'
    <2>1. w = 1 /\ status' = status /\ ~cancel[r] /\ r \in live /\ worker[r][w].pc = "loop"
      BY <1>6, <1>a DEF TakeStep, At, Stopping
    <2>2. worker'[r][1].pc = "action"
      BY <1>6, <2>1 DEF TakeStep, MoveTo, TypeOK, On
    <2>3. QED
      BY <2>1, <2>2 DEF WaitInv
  <1>7. ASSUME NEW w \in Pool, LeaveLoop(r, w) \/ EndStep(r, w) PROVE WaitInv(r)'
    <2>1. w = 1 /\ status' = status /\ cancel' = cancel /\ live' = live /\ worker[r][w].pc \in {"loop", "action"}
      BY <1>7, <1>a DEF LeaveLoop, EndStep, At, record, context
    <2>2. worker'[r][1].pc \in {"off", "loop"}
      BY <1>7, <2>1 DEF LeaveLoop, EndStep, MoveTo, TypeOK, Off, AtLoop
    <2>3. QED
      BY <2>1, <2>2 DEF WaitInv
  <1>8. ASSUME NEW w \in Pool, NextAction(r, w) PROVE WaitInv(r)'
    <2>1. /\ w = 1 /\ status' = status /\ cancel' = cancel /\ live' = live
          /\ r \in live /\ worker[r][w].pc = "action"
      BY <1>8, <1>a DEF NextAction, At, context
    <2>2. /\ worker'[r][1].pc \in {"action", "validate", "exec"}
          /\ cancel[r] => worker'[r][1].pc = "action"
      BY <1>8, <2>1 DEF NextAction, MoveTo, TypeOK, On, Stopping
    <2>3. QED
      BY <2>1, <2>2 DEF WaitInv
  <1>9. ASSUME NEW w \in Pool, UnknownOp(r, w) PROVE WaitInv(r)'
    <2>1. w = 1 /\ ~cancel[r] /\ r \in live /\ worker[r][w].pc = "action" /\ FailAction(r, w)
      BY <1>9, <1>a DEF UnknownOp, At, Stopping
    <2>2. status[r] # "Waiting"
      BY <2>1 DEF WaitInv
    <2>3. QED
      BY <1>1, <2>1, <2>2
  <1>10. ASSUME NEW w \in Pool, OpenGate(r, w) PROVE WaitInv(r)'
    <2>1. w = 1
      BY <1>10, <1>a DEF OpenGate, At
    <2>2. /\ status'[r] = "Waiting"
          /\ pending'[r] = [step |-> worker[r][1].step, action |-> worker[r][1].action]
          /\ worker'[r][1] = On("gate", worker[r][1].step, worker[r][1].action)
      BY <1>10, <2>1 DEF OpenGate, MoveTo, TypeOK
    <2>3. worker'[r][1].pc = "gate"
      BY <2>2 DEF On
    <2>4. QED
      BY <2>2, <2>3 DEF WaitInv
  <1>11. ASSUME NEW w \in Pool, worker[r][w].pc \in {"validate", "exec"}, r \in live
         PROVE  status[r] # "Waiting" /\ w = 1
    BY <1>11, <1>a DEF WaitInv
  <1>12. ASSUME NEW w \in Pool, RefuseGate(r, w) \/ TaskThrows(r, w) PROVE WaitInv(r)'
    <2>1. worker[r][w].pc \in {"validate", "exec"} /\ r \in live /\ FailAction(r, w)
      BY <1>12 DEF RefuseGate, TaskThrows, At
    <2>2. QED
      BY <1>1, <1>11, <2>1
  <1>13. ASSUME NEW w \in Pool,
                PassGate(r, w) \/ TaskReturns(r, w, "Complete") \/ TaskReturns(r, w, "Skipped")
         PROVE  WaitInv(r)'
    <2>1. worker[r][w].pc \in {"validate", "exec"} /\ r \in live /\ status' = status
      BY <1>13 DEF PassGate, TaskReturns, At, record
    <2>2. w = 1 /\ status[r] # "Waiting"
      BY <1>11, <2>1
    <2>3. worker'[r][1].pc # "gate"
      BY <1>13, <2>2 DEF PassGate, TaskReturns, MoveTo, TypeOK, On
    <2>4. QED
      BY <2>1, <2>2, <2>3 DEF WaitInv
  <1>14. ASSUME NEW b \in BOOLEAN, Run(r, b) PROVE WaitInv(r)'
    <2>1. status'[r] = "Queued" /\ worker' = worker /\ worker[r][1].pc = "off"
      BY <1>14, <1>a DEF Run, RunInv, ContextInv, AllOff, TypeOK
    <2>2. QED
      BY <2>1 DEF WaitInv
  <1>15. ASSUME NEW g \in Gate, Confirm(r, g) \/ ConfirmSkip(r, g) PROVE WaitInv(r)'
    <2>1. pending[r] # NoGate /\ status'[r] = "Running"
      BY <1>15 DEF Confirm, ConfirmSkip, TypeOK
    <2>2. worker'[r][1] = On("exec", pending[r].step, pending[r].action)
            \/ worker'[r][1] = On("action", pending[r].step, pending[r].action + 1)
      BY <1>15, <1>a, <2>1, ParkedLoop DEF Confirm, ConfirmSkip, SkipAt, TypeOK
    <2>3. worker'[r][1].pc # "gate"
      BY <2>2 DEF On
    <2>4. QED
      BY <2>1, <2>3 DEF WaitInv
  <1>16. QED
    BY <1>2, <1>3, <1>4, <1>5, <1>6, <1>7, <1>8, <1>9, <1>10, <1>12, <1>13, <1>14, <1>15
       DEF StepOf, WorkerTurn, Answer

LEMMA WaitNext ==
    ASSUME TypeOK, EngineInv, \A q \in Runs : WaitInv(q), [Next]_vars, NEW q \in Runs
    PROVE  WaitInv(q)'
  <1>1. RunInv(q) /\ WaitInv(q)
    BY DEF EngineInv
  <1>2. ASSUME NEW r \in Runs, StepOf(r) PROVE WaitInv(q)'
    <2>1. CASE r = q
      BY <1>1, <1>2, <2>1, WaitStep
    <2>2. CASE r # q
      <3>1. Untouched(q)
        BY <1>2, <2>2, OthersUntouched
      <3>2. QED
        BY <1>1, <3>1 DEF Untouched, WaitInv
    <2>3. QED
      BY <2>1, <2>2
  <1>3. CASE Crash
    <2>1. live' = {} /\ \A w \in Pool : worker'[q][w] = Off
      BY <1>3 DEF Crash
    <2>2. QED
      BY <1>1, <2>1, OneLoop DEF WaitInv, Off
  <1>4. CASE UNCHANGED vars
    BY <1>1, <1>4 DEF vars, WaitInv
  <1>5. QED
    BY <1>2, <1>3, <1>4, NextCases

\* A ripple is shown as Waiting while its loop is parked on the pending gate, or
\* while what cancel() released runs to its end.
THEOREM WaitInvariant == Spec => [](\A r \in Runs : WaitInv(r))
  <1>1. Init => \A r \in Runs : WaitInv(r)
    <2>1. ASSUME Init, NEW r \in Ripple PROVE live = {} /\ worker[r][1] = Off
      BY <2>1, EngineAssumption DEF Init, Pool
    <2>2. QED
      BY <2>1 DEF WaitInv, Off
  <1>2. TypeOK /\ EngineInv /\ (\A r \in Runs : WaitInv(r)) /\ [Next]_vars => (\A r \in Runs : WaitInv(r))'
    BY WaitNext
  <1>3. QED
    BY <1>1, <1>2, TypeCorrect, EngineInvariant, PTL DEF Spec

\* The gate a ripple's loop awaits in _confirmGate is the one confirm() answers,
\* and between turns a ripple shown as Waiting has such a gate, whatever calls,
\* answers, retries and crashes came before.
THEOREM GateAnswerableHolds == Spec => []GateAnswerable
  <1>1. ASSUME EngineInv, TypeOK, \A r \in Runs : WaitInv(r)
        PROVE  GateAnswerable
    <2>1. \A r \in Ripple : r \in Runs /\ RunInv(r) /\ WaitInv(r)
      BY <1>1, EngineAssumption DEF EngineInv
    <2>2. ASSUME Idle, NEW r \in live \cap Ripple, status[r] = "Waiting"
          PROVE  ParkedOn(r, pending[r]) # {}
      <3>1. 1 \in Pool /\ \A w \in Pool : worker[r][w].pc # "off" => w = 1
        BY <2>1, OneLoop
      <3>2. worker[r][1].pc \notin {"loop", "action"}
        BY <2>2, <3>1 DEF Idle, InTurn, Ready
      <3>3. ~AllOff(r)
        BY <2>2 DEF Idle, InTurn, isTerminal
      <3>4. worker[r][1].pc # "off"
        BY <3>1, <3>3 DEF AllOff
      <3>5. worker[r][1].pc = "gate"
        BY <2>1, <2>2, <3>2, <3>4 DEF WaitInv
      <3>6. 1 \in ParkedOn(r, pending[r])
        BY <2>1, <3>1, <3>5 DEF WaitInv, ParkedOn
      <3>7. QED
        BY <3>6
    <2>3. QED
      BY <2>1, <2>2 DEF GateAnswerable, WaitInv
  <1>2. QED
    BY <1>1, WaitInvariant, EngineInvariant, TypeCorrect, PTL

-----------------------------------------------------------------------------
(* The gates of the engine, as the wizard relies on them. *)

\* What else StepOf(r) leaves alone in other runs.
LEMMA OthersShown ==
    ASSUME TypeOK, NEW r \in Runs, NEW q \in Runs \ {r}, StepOf(r)
    PROVE  shown'[q] = shown[q]
  <1>1. ASSUME NEW w \in Pool, FailAction(r, w) PROVE shown' = shown
    BY <1>1 DEF FailAction, client
  <1>2. CASE Execute(r) \/ Finalize(r) \/ Cancel(r) \/ Retry(r)
    BY <1>2 DEF Execute, Finalize, Cancel, Retry, client
  <1>3. ASSUME NEW w \in Pool, WorkerTurn(r, w) PROVE shown' = shown
    BY <1>1, <1>3 DEF WorkerTurn, TakeStep, LeaveLoop, NextAction, UnknownOp, EndStep, client
  <1>4. ASSUME NEW w \in Pool, Answer(r, w) PROVE shown'[q] = shown[q]
    <2>1. CASE OpenGate(r, w)
      BY <2>1 DEF OpenGate, TypeOK
    <2>2. CASE PassGate(r, w)
      BY <2>2 DEF PassGate, client
    <2>3. CASE TaskReturns(r, w, "Complete") \/ TaskReturns(r, w, "Skipped")
      BY <2>3 DEF TaskReturns
    <2>4. QED
      BY <1>1, <1>4, <2>1, <2>2, <2>3 DEF Answer, RefuseGate, TaskThrows
  <1>5. ASSUME NEW b \in BOOLEAN, Run(r, b) PROVE shown' = shown
    BY <1>5 DEF Run
  <1>6. ASSUME NEW g \in Gate, Confirm(r, g) \/ ConfirmSkip(r, g) PROVE shown' = shown
    BY <1>6 DEF Confirm, ConfirmSkip
  <1>7. QED
    BY <1>2, <1>3, <1>4, <1>5, <1>6 DEF StepOf

\* A busy worker goes on with the same gates behind it, or is busy no more.
Advances(r, v) ==
    /\ Busy(r, v)' => Busy(r, v) /\ worker'[r][v].step = worker[r][v].step
    /\ \A g \in Gate : Busy(r, v)' /\ Passed(r, v, g) => Passed(r, v, g)'

\* Workers that advance keep the gates that were announced behind them.
LEMMA GatesSame ==
    ASSUME TypeOK, NEW r \in Runs, GateInv(r),
           \A v \in Pool : Advances(r, v),
           auto'[r] = auto[r], shown'[r] = shown[r], queue'[r] \subseteq queue[r],
           pending'[r] \in {pending[r], NoGate},
           status[r] # "Absent", status'[r] # "Absent",
           disk'[r] = disk[r] \/ disk'[r].status = status'[r]
    PROVE  GateInv(r)'
  <1>1. shown[r] \subseteq Gate
    BY DEF TypeOK
  <1>2. ASSUME ~auto[r], NEW g \in shown[r], NEW v \in Pool
        PROVE  Passed(r, v, g)'
    <2>1. Passed(r, v, g) /\ g \in Gate
      BY <1>1, <1>2 DEF GateInv
    <2>2. CASE Busy(r, v)'
      BY <2>1, <2>2 DEF Advances
    <2>3. CASE ~Busy(r, v)'
      BY <2>3 DEF Passed
    <2>4. QED
      BY <2>2, <2>3
  <1>3. QED
    BY <1>2 DEF GateInv

\* One worker moves within its step, or is done with it.
LEMMA OneAdvances ==
    ASSUME TypeOK, NEW r \in Runs, NEW w \in Pool,
           \A v \in Pool \ {w} : worker'[r][v] = worker[r][v],
           Advances(r, w)
    PROVE  \A v \in Pool : Advances(r, v)
  BY DEF Advances, Busy, Passed

LEMMA ActionBefore ==
    ASSUME TypeOK, NEW r \in Runs, NEW w \in Pool, Busy(r, w)
    PROVE  worker[r][w].step \in Steps /\ worker[r][w].action \in Nat
  <1>1. worker[r][w].action \in 1..(NumActions + 1)
    BY PlaceShape, EngineAssumption DEF Busy, Actions
  <1>2. QED
    BY <1>1, PlaceShape, EngineAssumption DEF Busy

LEMMA GateStep ==
    ASSUME TypeOK, TypeOK', NEW r \in Runs, RunInv(r), GateInv(r), StepOf(r)
    PROVE  GateInv(r)'
  <1>1. ASSUME NEW w \in Pool, FailAction(r, w), worker[r][w].pc # "off" PROVE GateInv(r)'
    <2>1. /\ worker'[r][w].pc \in {"loop", "off"} /\ pending' = pending /\ auto' = auto
          /\ queue' = queue /\ shown' = shown /\ status' = status
          /\ \A v \in Pool \ {w} : worker'[r][v] = worker[r][v]
          /\ disk'[r].status = status'[r]
      BY <1>1, CheckpointWrites
         DEF FailAction, MoveTo, AfterError, TypeOK, context, client, AtLoop, Off
    <2>2. Advances(r, w)
      BY <2>1 DEF Advances, Busy
    <2>3. status[r] # "Absent"
      BY <1>1, UnderWay
    <2>4. QED
      BY <2>1, <2>2, <2>3, OneAdvances, GatesSame
  <1>2. CASE Execute(r)
    <2>1. /\ \A v \in Pool : worker'[r][v].pc \in {"loop", "off"}
          /\ status[r] = "Queued" /\ status'[r] = "Running" /\ disk'[r].status = status'[r]
          /\ auto' = auto /\ pending' = pending /\ queue' = queue /\ shown' = shown
      BY <1>2, CheckpointWrites DEF Execute, StartWorkers, TypeOK, AtLoop, Off, context, client
    <2>2. \A v \in Pool : Advances(r, v)
      BY <2>1 DEF Advances, Busy
    <2>3. QED
      BY <2>1, <2>2, GatesSame
  <1>3. CASE Finalize(r)
    <2>1. /\ worker' = worker /\ status[r] # "Absent" /\ status'[r] = Verdict(r)
          /\ disk'[r].status = status'[r]
          /\ auto' = auto /\ pending' = pending /\ queue' = queue /\ shown' = shown
      BY <1>3, CheckpointWrites DEF Finalize, TypeOK, context, client
    <2>2. \A v \in Pool : Advances(r, v)
      BY <2>1 DEF Advances, Busy, Passed
    <2>3. Verdict(r) # "Absent"
      BY DEF Verdict
    <2>4. QED
      BY <2>1, <2>2, <2>3, GatesSame
  <1>4. CASE Cancel(r)
    <2>1. auto' = auto /\ queue' = queue /\ shown' = shown /\ r \in live
      BY <1>4 DEF Cancel, client
    <2>2. status[r] # "Absent"
      BY <2>1 DEF RunInv, ContextInv
    <2>3. CASE pending[r] = NoGate
      <3>1. status' = status /\ worker' = worker /\ pending' = pending /\ disk' = disk
        BY <1>4, <2>3 DEF Cancel, ReleaseGate, record
      <3>2. \A v \in Pool : Advances(r, v)
        BY <3>1 DEF Advances, Busy, Passed
      <3>3. QED
        BY <2>1, <2>2, <3>1, <3>2, GatesSame
    <2>4. CASE pending[r] # NoGate
      <3>1. /\ status' = status /\ pending'[r] = NoGate /\ disk'[r].status = status'[r]
            /\ SkipAt(r, pending[r])
        BY <1>4, <2>4, CheckpointWrites DEF Cancel, ReleaseGate, TypeOK
      <3>2. \A v \in Pool : worker'[r][v] =
              IF v \in ParkedOn(r, pending[r])
              THEN On("action", pending[r].step, pending[r].action + 1) ELSE worker[r][v]
        BY <3>1 DEF SkipAt, TypeOK
      <3>3. pending[r].action \in Nat
        BY <2>4, EngineAssumption DEF TypeOK, Gate, Actions
      <3>4. ASSUME NEW v \in Pool PROVE Advances(r, v)
        BY <3>2, <3>3, EngineAssumption DEF Advances, Busy, Passed, ParkedOn, On, Gate, Actions
      <3>5. QED
        BY <2>1, <2>2, <3>1, <3>4, GatesSame
    <2>5. QED
      BY <2>3, <2>4
  <1>5. CASE Retry(r)
    <2>1. /\ auto'[r] = TRUE /\ pending'[r] = NoGate /\ disk' = disk
          /\ status[r] # "Absent" /\ status'[r] # "Absent"
      BY <1>5 DEF Retry, TypeOK
    <2>2. QED
      BY <2>1 DEF GateInv
  <1>6. ASSUME NEW w \in Pool, TakeStep(r, w) PROVE GateInv(r)'
    <2>1. /\ pending' = pending /\ auto' = auto /\ shown' = shown /\ status' = status
          /\ disk'[r].status = status'[r] /\ worker[r][w].pc # "off"
          /\ \A v \in Pool \ {w} : worker'[r][v] = worker[r][v]
      BY <1>6, CheckpointWrites DEF TakeStep, At, MoveTo, TypeOK, context, client
    <2>2. PICK s \in queue[r] : queue'[r] = queue[r] \ {s} /\ worker'[r][w] = On("action", s, 1)
      BY <1>6 DEF TakeStep, AfterTaking, MoveTo, TypeOK
    <2>3. status[r] # "Absent"
      BY <2>1, UnderWay
    <2>4. ASSUME ~auto[r], NEW g \in shown[r], NEW v \in Pool PROVE Passed(r, v, g)'
      <3>1. Passed(r, v, g) /\ g.step # s
        BY <2>2, <2>4 DEF GateInv
      <3>2. QED
        BY <2>1, <2>2, <3>1 DEF Passed, Busy, On
    <2>5. QED
      BY <2>1, <2>2, <2>3, <2>4 DEF GateInv
  <1>7. ASSUME NEW w \in Pool, LeaveLoop(r, w) \/ EndStep(r, w) PROVE GateInv(r)'
    <2>1. /\ pending' = pending /\ auto' = auto /\ shown' = shown /\ status' = status
          /\ queue' = queue /\ worker[r][w].pc # "off"
          /\ disk' = disk \/ disk'[r].status = status'[r]
          /\ worker'[r][w].pc \in {"loop", "off"}
          /\ \A v \in Pool \ {w} : worker'[r][v] = worker[r][v]
      BY <1>7, CheckpointWrites
         DEF LeaveLoop, EndStep, At, MoveTo, TypeOK, record, context, client, AtLoop, Off
    <2>2. status[r] # "Absent"
      BY <2>1, UnderWay
    <2>3. Advances(r, w)
      BY <2>1 DEF Advances, Busy
    <2>4. QED
      BY <2>1, <2>2, <2>3, OneAdvances, GatesSame
  <1>8. ASSUME NEW w \in Pool, NextAction(r, w) PROVE GateInv(r)'
    <2>1. /\ pending' = pending /\ auto' = auto /\ shown' = shown /\ status' = status
          /\ queue' = queue /\ worker[r][w].pc = "action" /\ disk' = disk
          /\ \A v \in Pool \ {w} : worker'[r][v] = worker[r][v]
      BY <1>8 DEF NextAction, At, MoveTo, TypeOK, context, client
    <2>2. PICK p \in {"action", "validate", "exec"} : \E b \in {worker[r][w].action, worker[r][w].action + 1} :
            /\ worker'[r][w] = On(p, worker[r][w].step, b)
            /\ p = "action" => b = worker[r][w].action + 1
      BY <1>8 DEF NextAction, MoveTo, TypeOK
    <2>3. status[r] # "Absent"
      BY <2>1, UnderWay
    <2>4. worker[r][w].action \in Nat
      BY <2>1, ActionBefore DEF Busy
    <2>5. Advances(r, w)
      BY <2>1, <2>2, <2>4, EngineAssumption DEF Advances, Busy, Passed, On, Gate, Actions
    <2>6. QED
      BY <2>1, <2>3, <2>5, OneAdvances, GatesSame
  <1>9. ASSUME NEW w \in Pool, OpenGate(r, w) PROVE GateInv(r)'
    <2>0. PICK g : g = [step |-> worker[r][w].step, action |-> worker[r][w].action]
      OBVIOUS
    <2>1. /\ ~auto[r] /\ auto' = auto /\ queue' = queue /\ status'[r] = "Waiting"
          /\ worker[r][w].pc = "validate" /\ disk'[r].status = status'[r]
          /\ shown'[r] = shown[r] \cup {g}
          /\ worker'[r][w] = On("gate", g.step, g.action)
          /\ \A v \in Pool \ {w} : worker'[r][v] = worker[r][v]
      BY <1>9, <2>0, CheckpointWrites DEF OpenGate, At, MoveTo, TypeOK, context
    <2>2. g.step \notin queue[r] /\ \A v \in Pool \ {w} : Busy(r, v) => worker[r][v].step # g.step
      BY <2>0, <2>1 DEF RunInv, WorkerInv, Busy
    <2>3. \A v \in Pool : Passed(r, v, g)'
      BY <2>0, <2>1, <2>2 DEF Passed, Busy, On
    <2>4. ASSUME NEW h \in shown[r], NEW v \in Pool PROVE Passed(r, v, h)'
      <3>1. Passed(r, v, h)
        BY <2>1, <2>4 DEF GateInv
      <3>2. QED
        BY <2>0, <2>1, <3>1 DEF Passed, Busy, On
    <2>5. \A h \in shown[r] : h.step \notin queue'[r]
      BY <2>1 DEF GateInv
    <2>6. ASSUME NEW h \in shown'[r] PROVE h.step \notin queue'[r] /\ \A v \in Pool : Passed(r, v, h)'
      <3>1. CASE h \in shown[r]
        BY <2>4, <2>5, <3>1
      <3>2. CASE h = g
        BY <2>1, <2>2, <2>3, <3>2
      <3>3. QED
        BY <2>1, <3>1, <3>2
    <2>7. QED
      BY <2>1, <2>6 DEF GateInv
  <1>10. ASSUME NEW w \in Pool,
                PassGate(r, w) \/ TaskReturns(r, w, "Complete") \/ TaskReturns(r, w, "Skipped")
         PROVE  GateInv(r)'
    <2>1. /\ pending' = pending /\ auto' = auto /\ shown' = shown /\ status' = status
          /\ queue' = queue /\ worker[r][w].pc \in {"validate", "exec"}
          /\ disk' = disk \/ disk'[r].status = status'[r]
          /\ \A v \in Pool \ {w} : worker'[r][v] = worker[r][v]
      BY <1>10, CheckpointWrites DEF PassGate, TaskReturns, At, MoveTo, TypeOK, record, context, client
    <2>2. \/ worker'[r][w] = On("exec", worker[r][w].step, worker[r][w].action)
          \/ worker'[r][w] = On("action", worker[r][w].step, worker[r][w].action + 1)
      BY <1>10 DEF PassGate, TaskReturns, MoveTo, TypeOK
    <2>3. status[r] # "Absent"
      BY <2>1, UnderWay
    <2>4. worker[r][w].action \in Nat
      BY <2>1, ActionBefore DEF Busy
    <2>5. Advances(r, w)
      BY <2>1, <2>2, <2>4, EngineAssumption DEF Advances, Busy, Passed, On, Gate, Actions
    <2>6. QED
      BY <2>1, <2>3, <2>5, OneAdvances, GatesSame
  <1>11. ASSUME NEW b \in BOOLEAN, Run(r, b) PROVE GateInv(r)'
    <2>1. /\ status[r] = "Absent" /\ pending' = pending /\ shown' = shown /\ status'[r] = "Queued"
          /\ disk'[r].status = status'[r]
      BY <1>11, CheckpointWrites DEF Run, TypeOK
    <2>2. pending[r] = NoGate /\ shown[r] = {}
      BY <2>1 DEF RunInv, ContextInv, GateInv
    <2>3. QED
      BY <2>1, <2>2 DEF GateInv
  <1>12. ASSUME NEW g \in Gate, Confirm(r, g) \/ ConfirmSkip(r, g) PROVE GateInv(r)'
    <2>1. /\ auto' = auto /\ queue' = queue /\ shown' = shown /\ pending[r] # NoGate
          /\ pending'[r] = NoGate /\ status'[r] = "Running" /\ disk'[r].status = status'[r]
      BY <1>12, CheckpointWrites DEF Confirm, ConfirmSkip, TypeOK, context
    <2>2. status[r] # "Absent"
      BY <2>1, PendingIs
    <2>3. pending[r].action \in Nat
      BY <2>1, EngineAssumption DEF TypeOK, Gate, Actions
    <2>4. \A v \in Pool :
            \/ worker'[r][v] = worker[r][v]
            \/ /\ worker[r][v] = On("gate", pending[r].step, pending[r].action)
               /\ \/ worker'[r][v] = On("exec", pending[r].step, pending[r].action)
                  \/ worker'[r][v] = On("action", pending[r].step, pending[r].action + 1)
      BY <1>12 DEF Confirm, ConfirmSkip, SkipAt, ParkedOn, TypeOK
    <2>5. \A v \in Pool : Advances(r, v)
      BY <2>3, <2>4, EngineAssumption DEF Advances, Busy, Passed, On, Gate, Actions
    <2>6. QED
      BY <2>1, <2>2, <2>5, GatesSame
  <1>13. ASSUME NEW w \in Pool, UnknownOp(r, w) \/ RefuseGate(r, w) \/ TaskThrows(r, w)
         PROVE  GateInv(r)'
    BY <1>1, <1>13 DEF UnknownOp, RefuseGate, TaskThrows, At
  <1>14. QED
    BY <1>2, <1>3, <1>4, <1>5, <1>6, <1>7, <1>8, <1>9, <1>10, <1>11, <1>12, <1>13
       DEF StepOf, WorkerTurn, Answer

\* How a step moves the gates of a run: one that has left its gates behind comes
\* to none again, a run once created stays known, and a gate that opens is new.
GateMoves(r) ==
    /\ status[r] # "Absent" => status'[r] # "Absent"
    /\ status[r] # "Absent" /\ ~Gated(r) => ~Gated(r)'
    /\ shown[r] \subseteq shown'[r]
    /\ pending'[r] \notin {pending[r], NoGate} => pending'[r] \notin shown[r] /\ pending'[r] \in shown'[r]

LEMMA GateMovesSame ==
    ASSUME NEW r \in Runs, shown'[r] = shown[r], pending'[r] \in {pending[r], NoGate},
           auto'[r] = auto[r], r \in live' => r \in live,
           status[r] # "Absent" => status'[r] # "Absent",
           isTerminal(status[r]) => isTerminal(status'[r])
    PROVE  GateMoves(r)
  BY DEF GateMoves, Gated

LEMMA OwnMoves ==
    ASSUME TypeOK, TypeOK', NEW r \in Runs, RunInv(r), GateInv(r), StepOf(r)
    PROVE  GateMoves(r)
  <1>1. ASSUME NEW w \in Pool, FailAction(r, w) PROVE GateMoves(r)
    BY <1>1, GateMovesSame DEF FailAction, context, client
  <1>2. CASE Execute(r) \/ Finalize(r)
    <2>1. /\ shown' = shown /\ pending' = pending /\ auto' = auto /\ live' = live
          /\ ~isTerminal(status[r]) /\ (status'[r] = "Running" \/ status'[r] = Verdict(r))
      BY <1>2 DEF Execute, Finalize, TypeOK, context, client
    <2>2. status'[r] # "Absent"
      BY <2>1 DEF Verdict
    <2>3. QED
      BY <2>1, <2>2, GateMovesSame
  <1>3. CASE Cancel(r)
    <2>1. shown' = shown /\ pending'[r] \in {pending[r], NoGate} /\ auto' = auto /\ live' = live /\ status' = status
      BY <1>3 DEF Cancel, ReleaseGate, TypeOK, record, client
    <2>2. QED
      BY <2>1, GateMovesSame
  <1>4. CASE Retry(r)
    <2>1. shown' = shown /\ pending'[r] = NoGate /\ auto'[r] = TRUE /\ status'[r] = "Running"
      BY <1>4 DEF Retry, TypeOK, client
    <2>2. QED
      BY <2>1 DEF GateMoves, Gated
  <1>5. ASSUME NEW w \in Pool, WorkerTurn(r, w) PROVE GateMoves(r)
    <2>1. CASE TakeStep(r, w) \/ LeaveLoop(r, w) \/ NextAction(r, w) \/ EndStep(r, w)
      BY <2>1, GateMovesSame DEF TakeStep, LeaveLoop, NextAction, EndStep, record, context, client
    <2>2. QED
      BY <1>1, <1>5, <2>1 DEF WorkerTurn, UnknownOp
  <1>6. ASSUME NEW w \in Pool, OpenGate(r, w) PROVE GateMoves(r)
    <2> DEFINE g == [step |-> worker[r][w].step, action |-> worker[r][w].action]
    <2>1. /\ ~auto[r] /\ auto' = auto /\ live' = live /\ r \in live /\ status'[r] = "Waiting"
          /\ worker[r][w].pc = "validate"
          /\ shown'[r] = shown[r] \cup {g} /\ pending'[r] = g
      BY <1>6 DEF OpenGate, At, TypeOK, context
    <2>2. ~isTerminal(status[r])
      BY <2>1, UnderWay
    <2>3. g \notin shown[r]
      <3>1. SUFFICES ASSUME g \in shown[r] PROVE FALSE
        OBVIOUS
      <3>2. Passed(r, w, g)
        BY <2>1, <3>1 DEF GateInv
      <3>3. worker[r][w].action \in Nat
        BY <2>1, ActionBefore DEF Busy
      <3>4. QED
        BY <2>1, <3>2, <3>3 DEF Passed, Busy
    <2>4. QED
      BY <2>1, <2>2, <2>3 DEF GateMoves, Gated
  <1>7. ASSUME NEW w \in Pool, Answer(r, w) PROVE GateMoves(r)
    <2>1. CASE PassGate(r, w) \/ TaskReturns(r, w, "Complete") \/ TaskReturns(r, w, "Skipped")
      BY <2>1, GateMovesSame DEF PassGate, TaskReturns, record, context, client
    <2>2. QED
      BY <1>1, <1>6, <1>7, <2>1 DEF Answer, RefuseGate, TaskThrows
  <1>8. ASSUME NEW b \in BOOLEAN, Run(r, b) PROVE GateMoves(r)
    <2>1. status[r] = "Absent" /\ shown' = shown /\ pending' = pending /\ status'[r] = "Queued"
      BY <1>8 DEF Run, TypeOK
    <2>2. QED
      BY <2>1 DEF GateMoves
  <1>9. ASSUME NEW g \in Gate, Confirm(r, g) \/ ConfirmSkip(r, g) PROVE GateMoves(r)
    <2>1. /\ shown' = shown /\ pending[r] # NoGate /\ pending'[r] = NoGate /\ auto' = auto /\ live' = live
          /\ status'[r] = "Running"
      BY <1>9 DEF Confirm, ConfirmSkip, TypeOK, context
    <2>2. ~isTerminal(status[r])
      BY <2>1, PendingIs
    <2>3. QED
      BY <2>1, <2>2, GateMovesSame
  <1>10. QED
    BY <1>2, <1>3, <1>4, <1>5, <1>7, <1>8, <1>9 DEF StepOf

\* A run comes to gates only from run(), which looks for an active one.
LEMMA OnlyRunGates ==
    ASSUME TypeOK, NEW r \in Runs, RunInv(r), StepOf(r), status[r] = "Absent"
    PROVE  \/ ~Gated(r)'
           \/ ~hasActiveRun /\ \E b \in BOOLEAN : Run(r, b)
  <1>1. r \notin live /\ \A w \in Pool : worker[r][w].pc = "off"
    BY DEF RunInv, ContextInv, AllOff
  <1>2. pending[r] = NoGate
    BY <1>1 DEF RunInv, ContextInv
  <1>3. ~Execute(r) /\ ~Finalize(r) /\ ~Cancel(r) /\ ~Retry(r)
    BY <1>1 DEF Execute, Finalize, Cancel, Retry
  <1>4. \A w \in Pool : ~WorkerTurn(r, w) /\ ~Answer(r, w)
    BY <1>1 DEF WorkerTurn, Answer, TakeStep, LeaveLoop, NextAction, UnknownOp, EndStep,
                OpenGate, PassGate, RefuseGate, TaskReturns, TaskThrows, At
  <1>5. \A g \in Gate : ~Confirm(r, g) /\ ~ConfirmSkip(r, g)
    BY <1>2 DEF Confirm, ConfirmSkip
  <1>6. QED
    BY <1>3, <1>4, <1>5 DEF StepOf, Run

LEMMA OtherGates ==
    ASSUME TypeOK, NEW r \in Runs, NEW q \in Runs \ {r}, StepOf(r), GateInv(q)
    PROVE  GateInv(q)' /\ GateMoves(q) /\ (Gated(q)' <=> Gated(q))
  <1>1. Untouched(q) /\ auto'[q] = auto[q] /\ shown'[q] = shown[q]
    BY OthersUntouched, OthersRecord, OthersShown
  <1>2. \A w \in Pool : \A g : Passed(q, w, g)' <=> Passed(q, w, g)
    BY <1>1 DEF Untouched, Passed, Busy
  <1>3. QED
    BY <1>1, <1>2 DEF Untouched, GateInv, GateMoves, Gated

LEMMA GatesStep ==
    ASSUME TypeOK, TypeOK', EngineInv, \A r \in Runs : GateInv(r), OneGated, [Next]_vars
    PROVE  (\A r \in Runs : GateInv(r)' /\ GateMoves(r)) /\ OneGated'
  <1>1. ASSUME NEW p \in Runs, StepOf(p)
        PROVE  (\A r \in Runs : GateInv(r)' /\ GateMoves(r)) /\ OneGated'
    <2>1. RunInv(p) /\ GateInv(p)
      BY DEF EngineInv
    <2>2. GateInv(p)' /\ GateMoves(p)
      BY <1>1, <2>1, GateStep, OwnMoves
    <2>3. \A q \in Runs \ {p} : GateInv(q)' /\ GateMoves(q) /\ (Gated(q)' <=> Gated(q))
      BY <1>1, OtherGates
    <2>4. Gated(p)' => Gated(p) \/ ~hasActiveRun
      BY <1>1, <2>1, <2>2, OnlyRunGates DEF GateMoves
    <2>5. ~hasActiveRun => \A q \in Runs : ~Gated(q)
      BY DEF hasActiveRun, Gated
    <2>6. OneGated'
      BY <2>3, <2>4, <2>5 DEF OneGated
    <2>7. QED
      BY <2>2, <2>3, <2>6
  <1>2. CASE Crash
    <2>1. /\ live' = {} /\ shown' = shown /\ auto' = [r \in Runs |-> FALSE]
          /\ status' = [r \in Runs |-> disk[r].status] /\ disk' = disk
          /\ pending' = [r \in Runs |-> NoGate] /\ queue' = [r \in Runs |-> {}]
          /\ worker' = [r \in Runs |-> [w \in Pool |-> Off]]
      BY <1>2 DEF Crash, client
    <2>2. ASSUME NEW r \in Runs PROVE GateInv(r)' /\ GateMoves(r)
      <3>1. GateInv(r)
        OBVIOUS
      <3>2. status[r] # "Absent" => status'[r] # "Absent"
        BY <2>1, <3>1 DEF GateInv
      <3>3. status[r] = "Absent" => shown[r] = {}
        BY <3>1 DEF GateInv
      <3>4. status'[r] = disk'[r].status
        BY <2>1
      <3>5. \A w \in Pool : \A g : Passed(r, w, g)'
        BY <2>1 DEF Passed, Busy, Off
      <3>6. status'[r] = "Absent" => shown'[r] = {}
        BY <2>1, <3>2, <3>3
      <3>7. QED
        BY <2>1, <3>2, <3>4, <3>5, <3>6 DEF GateInv, GateMoves, Gated
    <2>3. QED
      BY <2>1, <2>2 DEF OneGated, Gated
  <1>3. CASE UNCHANGED vars
    <2>1. ASSUME NEW r \in Runs PROVE GateInv(r)' /\ GateMoves(r) /\ (Gated(r)' <=> Gated(r))
      <3>1. GateInv(r)
        OBVIOUS
      <3>2. QED
        BY <1>3, <3>1 DEF vars, GateInv, GateMoves, Gated, Passed, Busy
    <2>2. QED
      BY <2>1 DEF OneGated
  <1>4. QED
    BY <1>1, <1>2, <1>3, NextCases

LEMMA GatesInit == Init => (\A r \in Runs : GateInv(r)) /\ OneGated
  BY DEF Init, GateInv, OneGated, Gated

-----------------------------------------------------------------------------
(* The wizard drives the engine: what a step of it tells the browser. *)

Sent(f) == wire' = Append(wire, f)

SaysStart(r) ==
    /\ Sent(RunStart(r)) /\ ~isTerminal(status[r]) /\ status'[r] = "Running"
    /\ step'[r] = step[r] /\ pending'[r] = pending[r]

SaysEnd(r) ==
    /\ Sent(Frame("run-end", r, 0, status'[r])) /\ isTerminal(status'[r])
    /\ step'[r] = step[r] /\ pending'[r] = NoGate

SaysStep(r) ==
    /\ \E s \in Steps, type \in {"step-start", "step-end"} :
          /\ Sent(Frame(type, r, s, step'[r][s]))
          /\ \A t \in Steps \ {s} : step'[r][t] = step[r][t]
    /\ status'[r] = status[r] /\ pending'[r] = pending[r]

SaysPaused(r) ==
    /\ Sent(PausedAt(r, pending'[r])) /\ pending'[r] \in Gate /\ pending'[r] \in shown'[r] \ shown[r]
    /\ ~isTerminal(status[r]) /\ status'[r] = "Waiting" /\ step'[r] = step[r]

SaysNothing(r) ==
    UNCHANGED wire /\ status'[r] = status[r] /\ step'[r] = step[r] /\ pending'[r] = pending[r]

SaysAgain(r) ==
    /\ Sent(RunStart(r)) /\ isTerminal(status[r]) /\ status'[r] = "Running"
    /\ \A s \in Steps : step'[r][s] \in {step[r][s], "Pending"}
    /\ pending'[r] = NoGate /\ pending[r] = NoGate

EngineSays(r) ==
    /\ SaysStart(r) \/ SaysEnd(r) \/ SaysStep(r) \/ SaysPaused(r) \/ SaysNothing(r)
    /\ cancel'[r] = cancel[r] /\ granted'[r] = granted[r]

LEMMA FailureSays ==
    ASSUME TypeOK, TypeOK', NEW r \in Runs, NEW w \in Pool, Busy(r, w), FailAction(r, w),
           Emit(StepEnd(r, worker[r][w].step))
    PROVE  EngineSays(r)
  <1>1. worker[r][w].step \in Steps
    BY ActionBefore
  <1>2. /\ Sent(Frame("step-end", r, worker[r][w].step, step'[r][worker[r][w].step]))
        /\ \A t \in Steps \ {worker[r][w].step} : step'[r][t] = step[r][t]
        /\ status'[r] = status[r] /\ pending'[r] = pending[r]
        /\ cancel'[r] = cancel[r] /\ granted'[r] = granted[r]
    BY DEF FailAction, TypeOK, context, client, Emit, Sent, StepEnd
  <1>3. SaysStep(r)
    BY <1>1, <1>2 DEF SaysStep
  <1>4. QED
    BY <1>2, <1>3 DEF EngineSays

\* Each step of the engine, with its frame, is one of the run it is for.
LEMMA TurnSays ==
    ASSUME TypeOK, TypeOK', NEW r \in Runs, RunInv(r), Turn(r)
    PROVE  StepOf(r) /\ EngineSays(r)
  <1>1. CASE Execute(r) /\ Emit(RunStart(r))
    <2>1. SaysStart(r) /\ cancel' = cancel /\ granted' = granted
      BY <1>1 DEF Execute, SaysStart, Emit, Sent, TypeOK, context, client
    <2>2. QED
      BY <1>1, <2>1 DEF StepOf, EngineSays
  <1>2. CASE Finalize(r) /\ Emit(Frame("run-end", r, 0, status'[r]))
    <2>1. /\ status'[r] = Verdict(r) /\ step' = step /\ pending' = pending /\ AllOff(r)
          /\ cancel' = cancel /\ granted' = granted /\ Sent(Frame("run-end", r, 0, status'[r]))
      BY <1>2 DEF Finalize, TypeOK, context, client, Emit, Sent
    <2>2. pending[r] = NoGate
      BY <2>1, AtRest
    <2>3. SaysEnd(r)
      BY <2>1, <2>2 DEF SaysEnd, Verdict
    <2>4. QED
      BY <1>2, <2>1, <2>3 DEF StepOf, EngineSays
  <1>3. ASSUME NEW w \in Pool, TakeStep(r, w), Emit(StepStart(r, worker'[r][w].step))
        PROVE  StepOf(r) /\ EngineSays(r)
    <2>1. PICK s \in queue[r] : step' = [step EXCEPT ![r][s] = "Running"] /\ MoveTo(r, w, On("action", s, 1))
      BY <1>3 DEF TakeStep
    <2>2. s \in Steps /\ worker'[r][w] = On("action", s, 1)
      BY <2>1 DEF TypeOK, MoveTo
    <2>3. /\ Sent(Frame("step-start", r, s, step'[r][s]))
          /\ \A t \in Steps \ {s} : step'[r][t] = step[r][t]
      BY <1>3, <2>1, <2>2 DEF TypeOK, Emit, Sent, StepStart, On
    <2>4. SaysStep(r) /\ cancel' = cancel /\ granted' = granted
      BY <1>3, <2>2, <2>3 DEF TakeStep, SaysStep, context, client
    <2>5. QED
      BY <1>3, <2>4 DEF StepOf, WorkerTurn, EngineSays
  <1>4. ASSUME NEW w \in Pool, LeaveLoop(r, w) \/ NextAction(r, w), Silent
        PROVE  StepOf(r) /\ EngineSays(r)
    <2>1. SaysNothing(r) /\ cancel' = cancel /\ granted' = granted
      BY <1>4 DEF LeaveLoop, NextAction, SaysNothing, Silent, record, context, client
    <2>2. QED
      BY <1>4, <2>1 DEF StepOf, WorkerTurn, EngineSays
  <1>5. ASSUME NEW w \in Pool, UnknownOp(r, w), Emit(StepEnd(r, worker[r][w].step))
        PROVE  StepOf(r) /\ EngineSays(r)
    <2>1. Busy(r, w) /\ FailAction(r, w)
      BY <1>5 DEF UnknownOp, At, Busy
    <2>2. QED
      BY <1>5, <2>1, FailureSays DEF StepOf, WorkerTurn
  <1>6. ASSUME NEW w \in Pool, EndStep(r, w), Emit(StepEnd(r, worker[r][w].step))
        PROVE  StepOf(r) /\ EngineSays(r)
    <2>1. worker[r][w].step \in Steps
      BY <1>6, ActionBefore DEF EndStep, At, Busy
    <2>2. /\ Sent(Frame("step-end", r, worker[r][w].step, step'[r][worker[r][w].step]))
          /\ \A t \in Steps \ {worker[r][w].step} : step'[r][t] = step[r][t]
          /\ status' = status /\ pending' = pending /\ cancel' = cancel /\ granted' = granted
      BY <1>6, <2>1 DEF EndStep, TypeOK, context, client, Emit, Sent, StepEnd
    <2>3. SaysStep(r)
      BY <2>1, <2>2 DEF SaysStep
    <2>4. QED
      BY <1>6, <2>2, <2>3 DEF StepOf, WorkerTurn, EngineSays
  <1>7. QED
    BY <1>1, <1>2, <1>3, <1>4, <1>5, <1>6 DEF Turn

LEMMA EventSays ==
    ASSUME TypeOK, TypeOK', NEW r \in Runs, RunInv(r), GateInv(r), Event(r)
    PROVE  StepOf(r) /\ EngineSays(r)
  <1>1. ASSUME NEW w \in Pool, OpenGate(r, w), Emit(PausedAt(r, pending'[r]))
        PROVE  StepOf(r) /\ EngineSays(r)
    <2>1. StepOf(r)
      BY <1>1 DEF StepOf, Answer
    <2>2. worker[r][w].pc = "validate" /\ worker[r][w].step \in Steps /\ worker[r][w].action \in Actions
      BY <1>1, PlaceShape DEF OpenGate, At
    <2>3. /\ status'[r] = "Waiting" /\ step' = step /\ cancel' = cancel /\ granted' = granted
          /\ pending'[r] = [step |-> worker[r][w].step, action |-> worker[r][w].action]
          /\ shown'[r] = shown[r] \cup {pending'[r]} /\ ~auto[r]
          /\ Sent(PausedAt(r, pending'[r]))
      BY <1>1 DEF OpenGate, TypeOK, context, Emit, Sent
    <2>4. pending'[r] \notin shown[r]
      <3>1. SUFFICES ASSUME pending'[r] \in shown[r] PROVE FALSE
        OBVIOUS
      <3>2. Passed(r, w, pending'[r])
        BY <2>3, <3>1 DEF GateInv
      <3>3. worker[r][w].action \in Nat
        BY <2>2, ActionBefore DEF Busy
      <3>4. QED
        BY <2>2, <2>3, <3>2, <3>3 DEF Passed, Busy
    <2>5. ~isTerminal(status[r])
      BY <2>2, UnderWay
    <2>6. SaysPaused(r)
      BY <2>2, <2>3, <2>4, <2>5 DEF SaysPaused, Gate
    <2>7. QED
      BY <2>1, <2>3, <2>6 DEF EngineSays
  <1>2. ASSUME NEW w \in Pool, NEW o \in Outcomes, TaskReturns(r, w, o), Silent
        PROVE  StepOf(r) /\ EngineSays(r)
    <2>1. SaysNothing(r) /\ cancel' = cancel /\ granted' = granted
      BY <1>2 DEF TaskReturns, SaysNothing, Silent, record, context, client
    <2>2. o \in {"Complete", "Skipped"}
      BY WizardAssumption
    <2>3. QED
      BY <1>2, <2>1, <2>2 DEF StepOf, Answer, EngineSays
  <1>3. ASSUME NEW w \in Pool, PassGate(r, w), Silent
        PROVE  StepOf(r) /\ EngineSays(r)
    <2>1. SaysNothing(r) /\ cancel' = cancel /\ granted' = granted
      BY <1>3 DEF PassGate, SaysNothing, Silent, record, context, client
    <2>2. QED
      BY <1>3, <2>1 DEF StepOf, Answer, EngineSays
  <1>4. ASSUME NEW w \in Pool, RefuseGate(r, w) \/ TaskThrows(r, w), Emit(StepEnd(r, worker[r][w].step))
        PROVE  StepOf(r) /\ EngineSays(r)
    <2>1. Busy(r, w) /\ FailAction(r, w)
      BY <1>4 DEF RefuseGate, TaskThrows, At, Busy
    <2>2. QED
      BY <1>4, <2>1, FailureSays DEF StepOf, Answer
  <1>5. QED
    BY <1>1, <1>2, <1>3, <1>4 DEF Event

\* The frame of a step is well formed, of its run, and a gate in it is new.
NewFrame(r, f) ==
    /\ Sent(f) /\ f \in Frames /\ f.run = r
    /\ f.Type = "paused" => f.gate \in shown'[r] \ shown[r]

LEMMA FramesAre ==
    ASSUME TypeOK', NEW r \in Runs, EngineSays(r) \/ SaysAgain(r)
    PROVE  UNCHANGED wire \/ \E f : NewFrame(r, f)
  <1>1. CASE SaysStart(r) \/ SaysAgain(r)
    <2>1. RunStart(r) \in OfRuns /\ RunStart(r).run = r /\ RunStart(r).Type = "run-start"
      BY DEF RunStart, Frame, OfRuns, RunStates
    <2>2. QED
      BY <1>1, <2>1 DEF SaysStart, SaysAgain, NewFrame, Frames
  <1>2. CASE SaysEnd(r)
    <2> DEFINE f == Frame("run-end", r, 0, status'[r])
    <2>1. status'[r] \in RunStates
      BY <1>2 DEF SaysEnd, RunStates
    <2>2. f \in OfRuns /\ f.run = r /\ f.Type = "run-end"
      BY <2>1 DEF Frame, OfRuns
    <2>3. QED
      BY <1>2, <2>2 DEF SaysEnd, NewFrame, Frames
  <1>3. CASE SaysStep(r)
    <2>1. PICK s \in Steps, type \in {"step-start", "step-end"} : Sent(Frame(type, r, s, step'[r][s]))
      BY <1>3 DEF SaysStep
    <2> DEFINE f == Frame(type, r, s, step'[r][s])
    <2>2. step'[r][s] \in StepStates
      BY DEF TypeOK
    <2>3. f \in OfSteps /\ f.run = r /\ f.Type = type
      BY <2>2 DEF Frame, OfSteps
    <2>4. QED
      BY <2>1, <2>3 DEF NewFrame, Frames
  <1>4. CASE SaysPaused(r)
    <2> DEFINE f == PausedAt(r, pending'[r])
    <2>1. pending'[r] \in Gate /\ pending'[r].step \in Steps
      BY <1>4 DEF SaysPaused, Gate
    <2>2. f \in OfGates /\ f.run = r /\ f.gate = pending'[r]
      BY <2>1 DEF PausedAt, Frame, OfGates
    <2>3. QED
      BY <1>4, <2>2 DEF SaysPaused, NewFrame, Frames
  <1>5. CASE SaysNothing(r)
    BY <1>5 DEF SaysNothing
  <1>6. QED
    BY <1>1, <1>2, <1>3, <1>4, <1>5 DEF EngineSays

-----------------------------------------------------------------------------
(* Every step of the wizard is one of the engine, or leaves it alone. *)

\* A call that is under way names a run.
LEMMA CallShape ==
    ASSUME WizardTypeOK, NEW c \in Slots
    PROVE  \/ calls[c] = Free
           \/ /\ calls[c] \in Calls /\ calls[c].run \in Runs /\ calls[c].kind \in Kinds
              /\ calls[c].gate \in Pauses \cup {NoPause}
              /\ calls[c].stage \in {"sent", "ok", "refused"}
  <1>1. calls[c] \in Calls \cup {Free}
    BY DEF WizardTypeOK
  <1>2. QED
    BY <1>1 DEF Calls

LEMMA PauseShape ==
    /\ \A p \in Pauses : p # NoPause /\ p.run \in Runs /\ p.gate \in Gate /\ p = [run |-> p.run, gate |-> p.gate]
    /\ NoGate \notin Gate
    /\ NoPause.run = NoRun /\ NoPause.gate = NoGate
  <1>1. NoGate \notin Gate
    BY EngineAssumption DEF NoGate, Gate, Steps
  <1>2. QED
    BY <1>1 DEF Pauses, NoPause

LEMMA EngineStepIs ==
    ASSUME NEW r \in Runs, EngineStep(r)
    PROVE  StepOf(r)
  <1>1. CASE Turn(r)
    BY <1>1 DEF Turn, StepOf, WorkerTurn
  <1>2. CASE Event(r)
    BY <1>2, WizardAssumption DEF Event, StepOf, Answer
  <1>3. QED
    BY <1>1, <1>2 DEF EngineStep

\* What the handling of a call does to the engine, by the kind of call.
Admits(c) == RunCall(c) /\ Run(calls[c].run, FALSE) /\ Silent /\ Respond(c, TRUE)
Accepts(c) ==
    /\ IsGateCall(c) /\ Silent /\ Respond(c, TRUE)
    /\ IF calls[c].kind = "skip" THEN ConfirmSkip(calls[c].run, calls[c].gate.gate)
                                 ELSE Confirm(calls[c].run, calls[c].gate.gate)
Cancels(c) == calls[c].kind = "cancel" /\ Cancel(calls[c].run) /\ Silent /\ Respond(c, TRUE)
Retries(c) ==
    /\ calls[c].kind = "retry" /\ Retry(calls[c].run) /\ Emit(RunStart(calls[c].run))
    /\ Respond(c, TRUE)
Leaves(c) ==
    /\ UNCHANGED <<engine, wire>>
    /\ \/ calls[c].kind # "retry" /\ Respond(c, FALSE)
       \/ calls[c].kind = "retry" /\ ~isTerminal(status[calls[c].run]) /\ Respond(c, TRUE)

LEMMA HandleCases ==
    ASSUME WizardTypeOK, NEW c \in Slots, Handle(c)
    PROVE  /\ Admits(c) \/ Accepts(c) \/ Cancels(c) \/ Retries(c) \/ Leaves(c)
           /\ calls[c].run \in Runs /\ calls[c].stage = "sent" /\ calls[c].kind \in Kinds
           /\ UNCHANGED <<screen, RunHash, mine, clicked, blur>>
  <1>1. calls[c].stage = "sent" /\ UNCHANGED <<screen, RunHash, mine, clicked, blur>>
    BY DEF Handle
  <1>2. calls[c].run \in Runs /\ calls[c].kind \in Kinds
    BY <1>1, CallShape DEF Free
  <1>3. HandleRun(c) => Admits(c) \/ Leaves(c)
    BY DEF HandleRun, Admits, Leaves, Refuse, RunCall
  <1>4. HandleConfirm(c) => Accepts(c) \/ Leaves(c)
    BY DEF HandleConfirm, Accepts, Leaves, Refuse, IsGateCall, GateKinds
  <1>5. HandleCancel(c) => Cancels(c) \/ Leaves(c)
    BY DEF HandleCancel, Cancels, Leaves, Refuse
  <1>6. HandleRetry(c) => Retries(c) \/ Leaves(c)
    BY DEF HandleRetry, Retries, Leaves
  <1>7. QED
    BY <1>1, <1>2, <1>3, <1>4, <1>5, <1>6 DEF Handle

LEMMA HandleIs ==
    ASSUME WizardTypeOK, NEW c \in Slots, Handle(c)
    PROVE  StepOf(calls[c].run) \/ UNCHANGED vars
  <1>1. calls[c].run \in Runs
    BY HandleCases
  <1>2. CASE Accepts(c)
    <2>1. calls[c].gate.gate \in shown[calls[c].run]
      BY <1>2 DEF Accepts, Confirm, ConfirmSkip
    <2>2. calls[c].gate.gate \in Gate
      BY <1>1, <2>1 DEF WizardTypeOK, TypeOK
    <2>3. QED
      BY <1>2, <2>2 DEF Accepts, StepOf
  <1>3. CASE Admits(c) \/ Cancels(c) \/ Retries(c) \/ Leaves(c)
    BY <1>3 DEF Admits, Cancels, Retries, Leaves, StepOf, engine
  <1>4. QED
    BY <1>2, <1>3, HandleCases

LEMMA WizardCases ==
    ASSUME [WizardNext]_wizardVars
    PROVE  \/ \E r \in Runs : EngineStep(r)
           \/ \E c \in Slots : Handle(c)
           \/ onFrame
           \/ \E c \in Slots : Answered(c)
           \/ Buttons
           \/ Disconnect
           \/ ManagerDies
           \/ UNCHANGED wizardVars
  BY DEF WizardNext, Browser

LEMMA StepIsNext ==
    ASSUME NEW r \in Runs, StepOf(r)
    PROVE  Next
  BY DEF StepOf, Next, Operator

LEMMA WizardIsEngine ==
    ASSUME WizardTypeOK, [WizardNext]_wizardVars
    PROVE  [Next]_vars
  <1>1. CASE \E r \in Runs : EngineStep(r)
    BY <1>1, EngineStepIs, StepIsNext
  <1>2. ASSUME NEW c \in Slots, Handle(c) PROVE [Next]_vars
    BY <1>2, HandleIs, HandleCases, StepIsNext
  <1>3. CASE Buttons
    BY <1>3 DEF Buttons, ClickRun, ClickGate, ClickCancel, ClickRetry, reset, engine
  <1>4. CASE ManagerDies
    BY <1>4 DEF ManagerDies, Next
  <1>5. QED
    BY <1>1, <1>2, <1>3, <1>4, WizardCases DEF onFrame, Answered, Disconnect, engine, wizardVars

-----------------------------------------------------------------------------
(* The frames on the socket. *)

LEMMA FrameShape ==
    ASSUME NEW f \in Frames
    PROVE  /\ f.run \in Runs
           /\ f.Type \in {"run-start", "run-end"} => f.value \in RunStates
           /\ f.Type \in {"step-start", "step-end"} => f.step \in Steps /\ f.value \in StepStates
           /\ f.Type = "paused" => f.value = "Waiting" /\ f.gate \in Gate
           /\ f.Type \in {"run-start", "run-end", "step-start", "step-end", "paused"}
  BY DEF Frames, OfRuns, OfSteps, OfGates

LEMMA AppendPlaces ==
    ASSUME NEW sent \in Seq(Frames), NEW f \in Frames
    PROVE  /\ Append(sent, f) \in Seq(Frames) /\ Len(sent) \in Nat
           /\ DOMAIN sent = 1..Len(sent)
           /\ DOMAIN Append(sent, f) = DOMAIN sent \cup {Len(sent) + 1}
           /\ Len(Append(sent, f)) = Len(sent) + 1
           /\ \A i \in DOMAIN sent : Append(sent, f)[i] = sent[i] /\ i < Len(sent) + 1
           /\ Append(sent, f)[Len(sent) + 1] = f
  <1>1. /\ Append(sent, f) \in Seq(Frames) /\ Len(Append(sent, f)) = Len(sent) + 1
        /\ \A i \in 1..Len(sent) : Append(sent, f)[i] = sent[i]
        /\ Append(sent, f)[Len(sent) + 1] = f
    BY AppendProperties
  <1>2. Len(sent) \in Nat /\ DOMAIN sent = 1..Len(sent)
    BY LenProperties
  <1>3. DOMAIN Append(sent, f) = 1..(Len(sent) + 1)
    BY <1>1, LenProperties
  <1>4. QED
    BY <1>1, <1>2, <1>3

LEMMA TailPlaces ==
    ASSUME NEW sent \in Seq(Frames), sent # <<>>
    PROVE  /\ Head(sent) \in Frames /\ Head(sent) = sent[1] /\ 1 \in DOMAIN sent
           /\ Tail(sent) \in Seq(Frames) /\ Len(sent) \in Nat /\ Len(Tail(sent)) = Len(sent) - 1
           /\ \A i \in DOMAIN sent : i \in Nat /\ i >= 1
           /\ \A i \in DOMAIN Tail(sent) : i \in Nat /\ i >= 1 /\ i + 1 \in DOMAIN sent /\ Tail(sent)[i] = sent[i + 1]
           /\ \A i \in DOMAIN sent : i # 1 => i - 1 \in DOMAIN Tail(sent)
  <1>1. /\ Head(sent) \in Frames /\ Tail(sent) \in Seq(Frames) /\ Len(Tail(sent)) = Len(sent) - 1
        /\ \A i \in 1..Len(Tail(sent)) : Tail(sent)[i] = sent[i + 1]
    BY HeadTailProperties
  <1>2. Len(sent) \in Nat \ {0} /\ DOMAIN sent = 1..Len(sent)
    BY LenProperties, EmptySeq
  <1>3. DOMAIN Tail(sent) = 1..(Len(sent) - 1)
    BY <1>1, LenProperties
  <1>4. Head(sent) = sent[1]
    OBVIOUS
  <1>5. QED
    BY <1>1, <1>2, <1>3, <1>4

\* What the frames tell, when one is sent ...
LEMMA SayAppend ==
    ASSUME NEW sent \in Seq(Frames), NEW f \in Frames, NEW frames, NEW says
    PROVE  /\ f \notin frames => /\ Tells(frames, Append(sent, f)) = Tells(frames, sent)
                                 /\ SaysLast(frames, Append(sent, f), says) <=> SaysLast(frames, sent, says)
           /\ f \in frames => /\ Tells(frames, Append(sent, f)) # {}
                              /\ SaysLast(frames, Append(sent, f), says) <=> f \in says
  <1> DEFINE n == Len(sent) + 1
             more == Append(sent, f)
  <1>1. /\ DOMAIN more = DOMAIN sent \cup {n} /\ more[n] = f
        /\ \A i \in DOMAIN sent : more[i] = sent[i] /\ i < n /\ i \in Nat
        /\ n \in Nat /\ n \notin DOMAIN sent
    BY AppendPlaces
  <1> HIDE DEF n, more
  <1>2. CASE f \notin frames
    <2>1. Tells(frames, more) = Tells(frames, sent)
      BY <1>1, <1>2 DEF Tells
    <2>2. \A i \in Tells(frames, sent) : more[i] = sent[i]
      BY <1>1 DEF Tells
    <2>3. QED
      BY <1>2, <2>1, <2>2 DEF SaysLast, more
  <1>3. CASE f \in frames
    <2>1. Tells(frames, more) = Tells(frames, sent) \cup {n}
      BY <1>1, <1>3 DEF Tells
    <2>2. \A i \in Tells(frames, sent) : i < n /\ i \in Nat
      BY <1>1 DEF Tells
    <2>3. \A i \in Tells(frames, more) : i <= n /\ (n <= i => i = n)
      BY <1>1, <2>1, <2>2
    <2>4. SaysLast(frames, more, says) <=> f \in says
      BY <1>1, <2>1, <2>3 DEF SaysLast
    <2>5. QED
      BY <1>3, <2>1, <2>4 DEF more
  <1>4. QED
    BY <1>2, <1>3

\* ... and when the first is handled.
LEMMA SayTail ==
    ASSUME NEW sent \in Seq(Frames), sent # <<>>, NEW frames, NEW says
    PROVE  /\ Head(sent) \notin frames =>
                (Tells(frames, Tail(sent)) = {} <=> Tells(frames, sent) = {})
           /\ Head(sent) \in frames => Tells(frames, sent) # {}
           /\ Head(sent) \in frames /\ Tells(frames, Tail(sent)) = {} =>
                (SaysLast(frames, sent, says) <=> Head(sent) \in says)
           /\ Tells(frames, Tail(sent)) # {} =>
                (SaysLast(frames, Tail(sent), says) <=> SaysLast(frames, sent, says))
  <1> DEFINE rest == Tail(sent)
             Then == Tells(frames, rest)
             Now == Tells(frames, sent)
  <1>1. /\ Head(sent) = sent[1] /\ 1 \in DOMAIN sent
        /\ \A i \in DOMAIN sent : i \in Nat /\ i >= 1
        /\ \A i \in DOMAIN rest : i \in Nat /\ i >= 1 /\ i + 1 \in DOMAIN sent /\ rest[i] = sent[i + 1]
        /\ \A i \in DOMAIN sent : i # 1 => i - 1 \in DOMAIN rest
    BY TailPlaces
  <1> HIDE DEF rest
  <1>2. \A i \in Then : i \in Nat /\ i + 1 \in Now /\ rest[i] = sent[i + 1]
    BY <1>1 DEF Tells
  <1>3. \A i \in Now : i \in Nat /\ i >= 1 /\ (i # 1 => i - 1 \in Then)
    <2>1. ASSUME NEW i \in Now, i # 1 PROVE i - 1 \in Then
      <3>1. i \in DOMAIN sent /\ sent[i] \in frames
        BY DEF Tells
      <3>2. i - 1 \in DOMAIN rest /\ (i - 1) + 1 = i
        BY <1>1, <2>1, <3>1
      <3>3. rest[i - 1] = sent[i]
        BY <1>1, <3>2
      <3>4. QED
        BY <3>1, <3>2, <3>3 DEF Tells
    <2>2. QED
      BY <1>1, <2>1 DEF Tells
  <1>4. Head(sent) \in frames <=> 1 \in Now
    BY <1>1 DEF Tells
  <1> HIDE DEF Then, Now
  <1>5. Head(sent) \notin frames => (Then = {} <=> Now = {})
    BY <1>2, <1>3, <1>4
  <1>6. Head(sent) \in frames /\ Then = {} => (SaysLast(frames, sent, says) <=> Head(sent) \in says)
    <2>1. ASSUME Head(sent) \in frames, Then = {} PROVE Now = {1}
      BY <1>3, <1>4, <2>1
    <2>2. QED
      BY <1>1, <2>1 DEF SaysLast, Now
  <1>7. ASSUME Then # {}
        PROVE  SaysLast(frames, rest, says) <=> SaysLast(frames, sent, says)
    <2>1. ASSUME NEW i \in Then, rest[i] \in says, \A j \in Then : j <= i
          PROVE  SaysLast(frames, sent, says)
      <3>1. i + 1 \in Now /\ sent[i + 1] \in says
        BY <1>2, <2>1
      <3>2. ASSUME NEW j \in Now PROVE j <= i + 1
        <4>1. CASE j = 1
          BY <1>2, <4>1
        <4>2. CASE j # 1
          <5>1. j - 1 \in Then /\ j \in Nat /\ i \in Nat
            BY <1>2, <1>3, <4>2
          <5>2. j - 1 <= i
            BY <2>1, <5>1
          <5>3. QED
            BY <5>1, <5>2
        <4>3. QED
          BY <4>1, <4>2
      <3>3. QED
        BY <3>1, <3>2 DEF SaysLast, Now
    <2>2. ASSUME NEW i \in Now, sent[i] \in says, \A j \in Now : j <= i
          PROVE  SaysLast(frames, rest, says)
      <3>1. PICK k \in Then : TRUE
        BY <1>7
      <3>2. k + 1 <= i /\ k \in Nat /\ i \in Nat
        BY <1>2, <1>3, <2>2
      <3>3. k # 0
        BY <1>2, <1>1 DEF Then, Tells
      <3>4. i # 1
        <4>1. SUFFICES ASSUME i = 1 PROVE FALSE
          OBVIOUS
        <4>2. k = 0
          BY <3>2, <4>1
        <4>3. QED
          BY <3>3, <4>2
      <3>5. i - 1 \in Then /\ (i - 1) + 1 = i
        BY <1>3, <3>2, <3>4
      <3>6. rest[i - 1] \in says
        BY <1>2, <2>2, <3>5
      <3>7. ASSUME NEW j \in Then PROVE j <= i - 1
        <4>1. j \in Nat /\ j + 1 \in Now
          BY <1>2
        <4>2. j + 1 <= i
          BY <2>2, <4>1
        <4>3. QED
          BY <3>2, <4>1, <4>2
      <3>8. QED
        BY <3>5, <3>6, <3>7 DEF SaysLast, Then
    <2>3. QED
      BY <2>1, <2>2 DEF SaysLast, Then, Now
  <1>8. QED
    BY <1>4, <1>5, <1>6, <1>7 DEF rest, Then, Now

LEMMA SayNone ==
    ASSUME NEW frames
    PROVE  Tells(frames, <<>>) = {}
  BY DEF Tells

-----------------------------------------------------------------------------
(* What a step of the wizard does to the frames, and the types. *)

\* What the invariants below are built on.
Base == WizardTypeOK /\ EngineInv /\ RecordsInv /\ (\A r \in Runs : GateInv(r)) /\ OneGated

Browsers == UNCHANGED <<calls, screen, RunHash, mine, clicked, blur>>

LEMMA EngineStepSays ==
    ASSUME Base, TypeOK', NEW r \in Runs, EngineStep(r)
    PROVE  /\ StepOf(r) /\ EngineSays(r) /\ Browsers
           /\ r \in live /\ status[r] # "Absent" /\ status'[r] # "Absent"
           /\ UNCHANGED wire \/ Len(wire) < MaxFrames
  <1>1. TypeOK /\ RunInv(r) /\ GateInv(r)
    BY DEF Base, WizardTypeOK, EngineInv
  <1>2. r \in live
    BY DEF EngineStep, Turn, Event, Execute, Finalize, TakeStep, LeaveLoop, NextAction, UnknownOp,
           EndStep, OpenGate, PassGate, TaskReturns, RefuseGate, TaskThrows, At
  <1>3. status[r] # "Absent"
    BY <1>1, <1>2 DEF RunInv, ContextInv
  <1>4. StepOf(r) /\ EngineSays(r)
    BY <1>1, TurnSays, EventSays DEF EngineStep
  <1>5. status'[r] # "Absent"
    BY <1>1, <1>3, <1>4, OwnMoves DEF GateMoves
  <1>6. UNCHANGED wire \/ Len(wire) < MaxFrames
    BY DEF EngineStep, Turn, Event, Emit, Silent
  <1>7. QED
    BY <1>2, <1>3, <1>4, <1>5, <1>6 DEF EngineStep, Browsers

LEMMA RetrySays ==
    ASSUME Base, TypeOK', NEW c \in Slots, Retries(c), calls[c].run \in Runs
    PROVE  /\ SaysAgain(calls[c].run) /\ StepOf(calls[c].run) /\ Len(wire) < MaxFrames
           /\ cancel'[calls[c].run] = FALSE /\ granted' = granted
  <1> DEFINE r == calls[c].run
  <1>1. TypeOK /\ RunInv(r)
    BY DEF Base, WizardTypeOK, EngineInv
  <1>2. Retry(r) /\ Sent(RunStart(r)) /\ Len(wire) < MaxFrames
    BY DEF Retries, Emit, Sent
  <1>3. /\ isTerminal(status[r]) /\ status'[r] = "Running" /\ pending'[r] = NoGate
        /\ cancel'[r] = FALSE /\ granted' = granted
    BY <1>1, <1>2 DEF Retry, TypeOK, client
  <1>4. \A s \in Steps : step'[r][s] \in {step[r][s], "Pending"}
    BY <1>1, <1>2 DEF Retry, ResetSteps, TypeOK
  <1>5. pending[r] = NoGate
    BY <1>1, <1>3, PendingIs
  <1>6. QED
    BY <1>2, <1>3, <1>4, <1>5 DEF SaysAgain, StepOf

WireMoves ==
    \/ wire' = wire
    \/ Len(wire) < MaxFrames /\ \E r \in Runs : \E f : NewFrame(r, f) /\ status'[r] # "Absent"
    \/ wire # <<>> /\ wire' = Tail(wire)
    \/ wire' = <<>>

LEMMA WireMovesSo ==
    ASSUME Base, TypeOK', [WizardNext]_wizardVars
    PROVE  WireMoves
  <1>1. ASSUME NEW r \in Runs, EngineStep(r) PROVE WireMoves
    BY <1>1, EngineStepSays, FramesAre DEF WireMoves
  <1>2. ASSUME NEW c \in Slots, Handle(c) PROVE WireMoves
    <2>1. calls[c].run \in Runs
      BY <1>2, HandleCases DEF Base
    <2>2. CASE Retries(c)
      <3>1. SaysAgain(calls[c].run) /\ Len(wire) < MaxFrames
        BY <2>1, <2>2, RetrySays
      <3>2. QED
        BY <2>1, <3>1, FramesAre DEF WireMoves, SaysAgain
    <2>3. CASE Admits(c) \/ Accepts(c) \/ Cancels(c) \/ Leaves(c)
      BY <2>3 DEF Admits, Accepts, Cancels, Leaves, Silent, WireMoves
    <2>4. QED
      BY <1>2, <2>2, <2>3, HandleCases DEF Base
  <1>3. CASE onFrame
    BY <1>3 DEF onFrame, WireMoves
  <1>4. ASSUME NEW c \in Slots, Answered(c) PROVE WireMoves
    BY <1>4 DEF Answered, WireMoves
  <1>5. CASE Buttons
    BY <1>5 DEF Buttons, ClickRun, ClickGate, ClickCancel, ClickRetry, reset, WireMoves
  <1>6. CASE Disconnect \/ ManagerDies
    BY <1>6 DEF Disconnect, ManagerDies, Lose, WireMoves
  <1>7. CASE UNCHANGED wizardVars
    BY <1>7 DEF wizardVars, WireMoves
  <1>8. QED
    BY <1>1, <1>2, <1>3, <1>4, <1>5, <1>6, <1>7, WizardCases

LEMMA WireType ==
    ASSUME WizardTypeOK, WireMoves
    PROVE  wire' \in Seq(Frames) /\ Len(wire') <= MaxFrames
  <1>1. wire \in Seq(Frames) /\ Len(wire) \in Nat /\ Len(wire) <= MaxFrames /\ MaxFrames \in Nat
    BY LenProperties, WizardAssumption DEF WizardTypeOK
  <1>2. ASSUME Len(wire) < MaxFrames, NEW r \in Runs, NEW f, NewFrame(r, f)
        PROVE  wire' \in Seq(Frames) /\ Len(wire') <= MaxFrames
    <2>1. wire' = Append(wire, f) /\ f \in Frames
      BY <1>2 DEF NewFrame, Sent
    <2>2. wire' \in Seq(Frames) /\ Len(wire') = Len(wire) + 1
      BY <1>1, <2>1, AppendPlaces
    <2>3. QED
      BY <1>1, <1>2, <2>2
  <1>3. CASE wire # <<>> /\ wire' = Tail(wire)
    <2>1. wire' \in Seq(Frames) /\ Len(wire') = Len(wire) - 1
      BY <1>1, <1>3, TailPlaces
    <2>2. QED
      BY <1>1, <2>1
  <1>4. CASE wire' = <<>>
    <2>1. wire' \in Seq(Frames) /\ Len(wire') = 0
      BY <1>4, EmptySeq
    <2>2. QED
      BY <1>1, <2>1
  <1>5. QED
    BY <1>1, <1>2, <1>3, <1>4 DEF WireMoves

\* The table of calls, as calls are made, handled and answered.
CallTable == [Slots -> Calls \cup {Free}]

LEMMA SendType ==
    ASSUME calls \in CallTable, NEW kind \in Kinds, NEW r \in Runs, NEW gate \in Pauses \cup {NoPause},
           Send(kind, r, gate)
    PROVE  calls' \in CallTable
  <1>1. [kind |-> kind, run |-> r, gate |-> gate, stage |-> "sent"] \in Calls
    BY DEF Calls
  <1>2. QED
    BY <1>1 DEF Send, CallTable

LEMMA RespondType ==
    ASSUME calls \in CallTable, NEW c \in Slots, calls[c].stage = "sent", NEW ok \in BOOLEAN, Respond(c, ok)
    PROVE  calls' \in CallTable
  <1>1. calls[c] \in Calls
    BY DEF CallTable, Free
  <1>2. [calls[c] EXCEPT !.stage = IF ok THEN "ok" ELSE "refused"] \in Calls
    BY <1>1 DEF Calls
  <1>3. calls' = [calls EXCEPT ![c] = [calls[c] EXCEPT !.stage = IF ok THEN "ok" ELSE "refused"]]
    BY DEF Respond
  <1>4. QED
    BY <1>2, <1>3 DEF CallTable

\* The browser's variables in their domains.
BrowserTypes ==
    /\ calls \in CallTable
    /\ page \in {"choose", "run"}
    /\ RunHash \in Runs \cup {NoRun}
    /\ Status \in RunStates \cup {"None"}
    /\ StepStatus \in [Steps -> StepStates] \cup {NoSteps}
    /\ Paused \in Pauses \cup {NoPause}
    /\ rendered \in RunStates \cup {"None"}
    /\ mine \in Runs \cup {NoRun}
    /\ clicked \subseteq [run : Runs, shown : Pauses, foreign : BOOLEAN]
    /\ blur \subseteq {"lost", "foreign", "wiped", "astray"}

LEMMA TypesAre ==
    WizardTypeOK <=> /\ TypeOK /\ BrowserTypes /\ losses \in 0..MaxLosses
                     /\ wire \in Seq(Frames) /\ Len(wire) <= MaxFrames
  BY DEF WizardTypeOK, BrowserTypes, CallTable

LEMMA HandleType ==
    ASSUME WizardTypeOK, NEW c \in Slots, Handle(c)
    PROVE  BrowserTypes'
  <1>1. calls[c].stage = "sent" /\ UNCHANGED <<screen, RunHash, mine, clicked, blur>>
    BY HandleCases
  <1>2. Respond(c, TRUE) \/ Respond(c, FALSE)
    BY HandleCases DEF Admits, Accepts, Cancels, Retries, Leaves
  <1>3. BrowserTypes
    BY TypesAre
  <1>4. calls' \in CallTable
    BY <1>1, <1>2, <1>3, RespondType DEF BrowserTypes
  <1>5. QED
    BY <1>1, <1>3, <1>4 DEF BrowserTypes, screen, bulkRun

LEMMA FrameType ==
    ASSUME WizardTypeOK, onFrame
    PROVE  BrowserTypes'
  <1> DEFINE f == Head(wire)
  <1>1. BrowserTypes /\ f \in Frames
    BY TypesAre, TailPlaces DEF onFrame
  <1>2. /\ f.run \in Runs
        /\ f.Type \in {"run-start", "run-end"} => f.value \in RunStates
        /\ f.Type \in {"step-start", "step-end"} => f.step \in Steps /\ f.value \in StepStates
        /\ f.Type = "paused" => f.value = "Waiting" /\ f.gate \in Gate
    BY <1>1, FrameShape
  <1>3. /\ Status' = FoldStatus(f) /\ rendered' = Status'
        /\ StepStatus' = IF f.Type \in {"step-start", "step-end"} /\ HasSteps THEN FoldStep(f) ELSE StepStatus
        /\ Paused' = FoldPaused(f)
        /\ blur' \in {blur, blur \cup {"foreign"}}
        /\ UNCHANGED <<calls, page, RunHash, mine, clicked>>
    BY DEF onFrame, Render
  <1> HIDE DEF f
  <1>4. Status' \in RunStates \cup {"None"}
    BY <1>1, <1>2, <1>3 DEF FoldStatus, BrowserTypes, RunStates
  <1>5. StepStatus' \in [Steps -> StepStates] \cup {NoSteps}
    BY <1>1, <1>2, <1>3 DEF FoldStep, HasSteps, BrowserTypes
  <1>6. Paused' \in Pauses \cup {NoPause}
    BY <1>1, <1>2, <1>3 DEF FoldPaused, BrowserTypes, Pauses
  <1>7. QED
    BY <1>1, <1>3, <1>4, <1>5, <1>6 DEF BrowserTypes

LEMMA AnsweredType ==
    ASSUME WizardTypeOK, NEW c \in Slots, Answered(c)
    PROVE  BrowserTypes'
  <1>1. BrowserTypes /\ calls[c] # Free
    BY TypesAre DEF Answered, Free
  <1>2. calls[c].run \in Runs
    BY <1>1, CallShape
  <1>3. calls' \in CallTable
    BY <1>1 DEF Answered, BrowserTypes, CallTable
  <1>4. UNCHANGED <<page, mine, clicked>>
    BY DEF Answered
  <1>5. CASE AnsweredRun(c)
    BY <1>1, <1>2, <1>3, <1>4, <1>5 DEF AnsweredRun, BrowserTypes, Render, RunStates
  <1>6. CASE AnsweredGate(c)
    BY <1>1, <1>3, <1>4, <1>6 DEF AnsweredGate, BrowserTypes, Render
  <1>7. CASE AnsweredCancel(c)
    BY <1>1, <1>3, <1>4, <1>7 DEF AnsweredCancel, BrowserTypes, bulkRun
  <1>8. QED
    BY <1>5, <1>6, <1>7 DEF Answered

LEMMA ButtonsType ==
    ASSUME WizardTypeOK, Buttons
    PROVE  BrowserTypes'
  <1>1. BrowserTypes /\ NoRun \notin Runs /\ NoPause \in Pauses \cup {NoPause}
    BY TypesAre, WizardAssumption
  <1>2. ASSUME NEW r \in Runs, ClickRun(r) PROVE BrowserTypes'
    <2>1. calls' \in CallTable
      BY <1>1, <1>2, SendType DEF ClickRun, Kinds, BrowserTypes
    <2>2. Status' = "Running" /\ rendered' = "Running" /\ StepStatus' \in [Steps -> StepStates]
      BY <1>2 DEF ClickRun, Render, StepStates
    <2>3. QED
      BY <1>1, <1>2, <2>1, <2>2 DEF ClickRun, BrowserTypes, RunStates
  <1>3. ASSUME NEW kind \in {"confirm", "skip"}, ClickGate(kind) PROVE BrowserTypes'
    <2>1. RunHash \in Runs /\ Paused \in Pauses
      BY <1>1, <1>3 DEF ClickGate, BrowserTypes
    <2>2. calls' \in CallTable
      BY <1>1, <1>3, <2>1, SendType DEF ClickGate, Kinds, BrowserTypes
    <2>3. Click \in [run : Runs, shown : Pauses, foreign : BOOLEAN]
      BY <2>1 DEF Click
    <2>4. QED
      BY <1>1, <1>3, <2>2, <2>3 DEF ClickGate, BrowserTypes, screen, bulkRun
  <1>4. CASE ClickCancel
    <2>1. RunHash \in Runs
      BY <1>1, <1>4 DEF ClickCancel, BrowserTypes
    <2>2. calls' \in CallTable
      BY <1>1, <1>4, <2>1, SendType DEF ClickCancel, Kinds, BrowserTypes
    <2>3. QED
      BY <1>1, <1>4, <2>2 DEF ClickCancel, BrowserTypes, screen, bulkRun
  <1>5. CASE ClickRetry
    <2>1. RunHash \in Runs
      BY <1>1, <1>5 DEF ClickRetry, BrowserTypes
    <2>2. calls' \in CallTable
      BY <1>1, <1>5, <2>1, SendType DEF ClickRetry, Kinds, BrowserTypes
    <2>3. QED
      BY <1>1, <1>5, <2>2 DEF ClickRetry, BrowserTypes, RunStates
  <1>6. CASE reset
    BY <1>1, <1>6 DEF reset, BrowserTypes, Render
  <1>7. QED
    BY <1>2, <1>3, <1>4, <1>5, <1>6 DEF Buttons

LEMMA LossType ==
    ASSUME WizardTypeOK, Disconnect \/ ManagerDies
    PROVE  BrowserTypes' /\ losses' \in 0..MaxLosses
  <1>1. BrowserTypes /\ losses \in 0..MaxLosses /\ MaxLosses \in Nat
    BY TypesAre, WizardAssumption
  <1>2. losses' \in 0..MaxLosses /\ blur' = blur \cup {"lost"}
    BY <1>1 DEF Disconnect, ManagerDies, Lose
  <1>3. UNCHANGED <<screen, RunHash, mine, clicked>>
    BY DEF Disconnect, ManagerDies
  <1>4. calls' \in CallTable
    <2>1. CASE Disconnect
      BY <1>1, <2>1 DEF Disconnect, BrowserTypes
    <2>2. CASE ManagerDies
      <3>1. \A c \in Slots : calls[c].stage = "sent" =>
                calls[c] \in Calls /\ [calls[c] EXCEPT !.stage = "refused"] \in Calls
        BY <1>1 DEF BrowserTypes, CallTable, Calls, Free
      <3>2. QED
        BY <1>1, <2>2, <3>1 DEF ManagerDies, BrowserTypes, CallTable
    <2>3. QED
      BY <2>1, <2>2
  <1>5. QED
    BY <1>1, <1>2, <1>3, <1>4 DEF BrowserTypes, screen, bulkRun

LEMMA WizardTypeStep ==
    ASSUME Base, TypeOK', [WizardNext]_wizardVars
    PROVE  WizardTypeOK'
  <1>1. WizardTypeOK
    BY DEF Base
  <1>2. wire' \in Seq(Frames) /\ Len(wire') <= MaxFrames
    BY <1>1, WireMovesSo, WireType
  <1>3. BrowserTypes /\ losses \in 0..MaxLosses
    BY <1>1, TypesAre
  <1>4. CASE UNCHANGED losses
    <2>1. ASSUME NEW r \in Runs, EngineStep(r) PROVE BrowserTypes'
      BY <1>3, <2>1 DEF EngineStep, BrowserTypes, screen, bulkRun
    <2>2. UNCHANGED wizardVars => UNCHANGED <<calls, screen, RunHash, mine, clicked, blur>>
      BY DEF wizardVars
    <2>3. UNCHANGED wizardVars => BrowserTypes'
      BY <1>3, <2>2 DEF BrowserTypes, screen, bulkRun
    <2>4. BrowserTypes'
      BY <1>1, <2>1, <2>3, WizardCases, HandleType, FrameType, AnsweredType, ButtonsType, LossType
    <2>5. QED
      BY <1>2, <1>3, <1>4, <2>4, TypesAre DEF WizardTypeOK, BrowserTypes, CallTable
  <1>5. CASE Disconnect \/ ManagerDies
    BY <1>1, <1>2, <1>5, LossType DEF WizardTypeOK, BrowserTypes, CallTable
  <1>6. QED
    BY <1>4, <1>5 DEF WizardNext, wizardVars

LEMMA BaseStep == Base /\ [WizardNext]_wizardVars => Base'
  <1> SUFFICES ASSUME Base, [WizardNext]_wizardVars PROVE Base'
    OBVIOUS
  <1>1. WizardTypeOK /\ TypeOK /\ EngineInv /\ [Next]_vars
    BY WizardIsEngine DEF Base, WizardTypeOK
  <1>2. TypeOK'
    BY <1>1, TypeStep
  <1>3. EngineInv'
    BY <1>1, <1>2, EngineInvStep
  <1>4. (\A r \in Runs : GateInv(r))' /\ OneGated'
    BY <1>1, <1>2, GatesStep DEF Base
  <1>5. WizardTypeOK'
    BY <1>2, WizardTypeStep
  <1>6. RecordsInv'
    BY <1>1, RecordsStep DEF Base
  <1>7. QED
    BY <1>3, <1>4, <1>5, <1>6 DEF Base

LEMMA BaseInit == WizardInit => Base
  <1> SUFFICES ASSUME WizardInit PROVE Base
    OBVIOUS
  <1>1. Init /\ TypeOK /\ EngineInv /\ RecordsInv /\ (\A r \in Runs : GateInv(r)) /\ OneGated
    BY TypeInit, EngineInit, RecordsInit, GatesInit DEF WizardInit
  <1>2. wire \in Seq(Frames) /\ Len(wire) <= MaxFrames
    BY EmptySeq, WizardAssumption DEF WizardInit
  <1>3. losses \in 0..MaxLosses
    BY WizardAssumption DEF WizardInit
  <1>4. WizardTypeOK
    BY <1>1, <1>2, <1>3 DEF WizardInit, WizardTypeOK
  <1>5. QED
    BY <1>1, <1>4 DEF Base

THEOREM BaseInvariant == WizardSpec => []Base
  <1>1. QED
    BY BaseInit, BaseStep, PTL DEF WizardSpec

\* The variables of the engine and of the wizard stay in their domains, and the
\* frames on the socket within the bound, whatever calls, frames and losses.
THEOREM WizardTypeCorrect == WizardSpec => []WizardTypeOK
  <1>1. Base => WizardTypeOK
    BY DEF Base
  <1>2. QED
    BY <1>1, BaseInvariant, PTL

\* The routes, the provider and the wizard do nothing to the engine that its own
\* calls do not: every behaviour of the wizard is one of the engine, and what is
\* proved of the engine holds behind the wizard.
THEOREM WizardImplementsEngine == WizardSpec => Spec
  <1>1. WizardInit => Init
    BY DEF WizardInit
  <1>2. Base /\ [WizardNext]_wizardVars => [Next]_vars
    BY WizardIsEngine DEF Base
  <1>3. QED
    BY <1>1, <1>2, BaseInvariant, PTL DEF WizardSpec, Spec

-----------------------------------------------------------------------------
(* The frames on the socket, and the gates that were announced. *)

LEMMA Moves ==
    ASSUME Base, [WizardNext]_wizardVars
    PROVE  /\ Base' /\ TypeOK /\ TypeOK' /\ WizardTypeOK /\ WizardTypeOK' /\ [Next]_vars
           /\ WireMoves /\ \A r \in Runs : GateMoves(r)
  <1>1. Base' /\ [Next]_vars
    BY BaseStep, WizardIsEngine DEF Base
  <1>2. TypeOK /\ TypeOK' /\ WizardTypeOK /\ WizardTypeOK'
    BY <1>1 DEF Base, WizardTypeOK
  <1>3. QED
    BY <1>1, <1>2, WireMovesSo, GatesStep DEF Base

\* No frame of a run that was not created, no gate twice, and what was announced
\* is in no frame to come: as frames are sent, handled and lost.
LEMMA FramesKept ==
    ASSUME WizardTypeOK, FramesInv, WireMoves, \A r \in Runs : GateMoves(r)
    PROVE  /\ FramesInv'
           /\ \A p \in Pauses : Announced(p) => Announced(p)'
  <1>1. wire \in Seq(Frames)
    BY DEF WizardTypeOK
  <1>2. \A i \in DOMAIN wire : wire[i] \in Frames /\ wire[i].run \in Runs
    BY <1>1, FrameShape, LenProperties, ElementOfSeq
  <1>3. \A i \in DOMAIN wire :
           /\ status'[wire[i].run] # "Absent"
           /\ wire[i].Type = "paused" => wire[i].gate \in shown'[wire[i].run]
    BY <1>2 DEF FramesInv, GateMoves
  <1>4. CASE wire' = wire
    BY <1>3, <1>4, PauseShape DEF FramesInv, Announced, GateMoves
  <1>5. ASSUME NEW r \in Runs, NEW f, NewFrame(r, f), status'[r] # "Absent"
        PROVE  FramesInv' /\ \A p \in Pauses : Announced(p) => Announced(p)'
    <2> DEFINE n == Len(wire) + 1
    <2>1. /\ DOMAIN wire' = DOMAIN wire \cup {n} /\ wire'[n] = f
          /\ \A i \in DOMAIN wire : wire'[i] = wire[i] /\ i # n
      BY <1>1, <1>5, AppendPlaces DEF NewFrame, Sent
    <2>2. f.run = r /\ (f.Type = "paused" => f.gate \in shown'[r] /\ f.gate \notin shown[r])
      BY <1>5 DEF NewFrame
    <2> HIDE DEF n
    <2>3. FramesInv'
      <3>1. ASSUME NEW i \in DOMAIN wire'
            PROVE  /\ status'[wire'[i].run] # "Absent"
                   /\ wire'[i].Type = "paused" => wire'[i].gate \in shown'[wire'[i].run]
        BY <1>3, <1>5, <2>1, <2>2
      <3>2. ASSUME NEW i \in DOMAIN wire, wire[i].Type = "paused", f.Type = "paused", wire[i].run = r
            PROVE  wire[i].gate # f.gate
        BY <2>2, <3>2 DEF FramesInv
      <3>3. ASSUME NEW i \in DOMAIN wire', NEW j \in DOMAIN wire', i # j,
                   wire'[i].Type = "paused", wire'[j].Type = "paused", wire'[i].run = wire'[j].run
            PROVE  wire'[i].gate # wire'[j].gate
        <4>1. CASE i \in DOMAIN wire /\ j \in DOMAIN wire
          BY <2>1, <3>3, <4>1 DEF FramesInv
        <4>2. CASE i = n
          BY <2>1, <2>2, <3>2, <3>3, <4>2
        <4>3. CASE j = n
          BY <2>1, <2>2, <3>2, <3>3, <4>3
        <4>4. QED
          BY <2>1, <3>3, <4>1, <4>2, <4>3
      <3>4. QED
        BY <3>1, <3>3 DEF FramesInv
    <2>4. ASSUME NEW p \in Pauses, Announced(p) PROVE Announced(p)'
      BY <2>1, <2>2, <2>4, PauseShape DEF Announced, GateMoves
    <2>5. QED
      BY <2>3, <2>4
  <1>6. CASE wire # <<>> /\ wire' = Tail(wire)
    <2>1. \A i \in DOMAIN wire' : i \in Nat /\ i + 1 \in DOMAIN wire /\ wire'[i] = wire[i + 1]
      BY <1>1, <1>6, TailPlaces
    <2>2. \A i, j \in DOMAIN wire' : i # j => i + 1 # j + 1
      BY <2>1
    <2>3. ASSUME NEW i \in DOMAIN wire', NEW j \in DOMAIN wire', i # j,
                 wire'[i].Type = "paused", wire'[j].Type = "paused", wire'[i].run = wire'[j].run
          PROVE  wire'[i].gate # wire'[j].gate
      <3>1. i + 1 \in DOMAIN wire /\ j + 1 \in DOMAIN wire /\ i + 1 # j + 1
        BY <2>1, <2>2, <2>3
      <3>2. wire[i + 1].gate # wire[j + 1].gate
        BY <2>1, <2>3, <3>1 DEF FramesInv
      <3>3. QED
        BY <2>1, <3>2
    <2>4. FramesInv'
      BY <1>3, <2>1, <2>3 DEF FramesInv
    <2>5. ASSUME NEW p \in Pauses, Announced(p) PROVE Announced(p)'
      BY <2>1, <2>5, PauseShape DEF Announced, GateMoves
    <2>6. QED
      BY <2>4, <2>5
  <1>7. CASE wire' = <<>>
    <2>1. DOMAIN wire' = {}
      BY <1>7
    <2>2. QED
      BY <2>1, PauseShape DEF FramesInv, Announced, GateMoves
  <1>8. QED
    BY <1>4, <1>5, <1>6, <1>7 DEF WireMoves

\* The gate of the frame that is handled was announced, and is now on the screen.
LEMMA PausedArrives ==
    ASSUME WizardTypeOK, FramesInv, wire # <<>>, wire' = Tail(wire), Head(wire).Type = "paused",
           \A r \in Runs : GateMoves(r),
           NEW f, f = Head(wire), NEW p, p = [run |-> f.run, gate |-> f.gate]
    PROVE  Announced(p)'
  <1>1. wire \in Seq(Frames)
    BY DEF WizardTypeOK
  <1>2. /\ f = wire[1] /\ 1 \in DOMAIN wire /\ f \in Frames
        /\ \A i \in DOMAIN wire' : i \in Nat /\ i >= 1 /\ i + 1 \in DOMAIN wire /\ wire'[i] = wire[i + 1]
    BY <1>1, TailPlaces
  <1>3. f.run \in Runs
    BY <1>2, FrameShape
  <1>4. f.gate \in shown'[f.run]
    BY <1>2, <1>3 DEF FramesInv, GateMoves
  <1>5. ASSUME NEW i \in DOMAIN wire', wire'[i].Type = "paused", wire'[i].run = f.run
        PROVE  wire'[i].gate # f.gate
    <2>1. i + 1 \in DOMAIN wire /\ i + 1 # 1 /\ wire'[i] = wire[i + 1]
      BY <1>2
    <2>2. QED
      BY <1>2, <1>5, <2>1 DEF FramesInv
  <1>6. QED
    BY <1>4, <1>5 DEF Announced

\* What steps do to the gate on the screen.
LEMMA ScreenMoves ==
    ASSUME WizardTypeOK, [WizardNext]_wizardVars
    PROVE  Paused' \in {Paused, NoPause} \/ onFrame
  <1>1. ASSUME NEW r \in Runs, EngineStep(r) PROVE Paused' = Paused
    BY <1>1 DEF EngineStep, screen, bulkRun
  <1>2. ASSUME NEW c \in Slots, Handle(c) PROVE Paused' = Paused
    BY <1>2 DEF Handle, screen, bulkRun
  <1>3. ASSUME NEW c \in Slots, Answered(c) PROVE Paused' \in {Paused, NoPause}
    BY <1>3 DEF Answered, AnsweredRun, AnsweredGate, AnsweredCancel, bulkRun
  <1>4. CASE Buttons
    BY <1>4 DEF Buttons, ClickRun, ClickGate, ClickCancel, ClickRetry, reset, screen, bulkRun
  <1>5. CASE Disconnect \/ ManagerDies
    BY <1>5 DEF Disconnect, ManagerDies, screen, bulkRun
  <1>6. QED
    BY <1>1, <1>2, <1>3, <1>4, <1>5, WizardCases DEF wizardVars, screen, bulkRun

LEMMA WireInvStep ==
    ASSUME Base, WireInv, [WizardNext]_wizardVars
    PROVE  WireInv' /\ \A p \in Pauses : Announced(p) => Announced(p)'
  <1>1. WizardTypeOK /\ WizardTypeOK' /\ WireMoves /\ FramesInv /\ \A r \in Runs : GateMoves(r)
    BY Moves DEF WireInv
  <1>2. FramesInv' /\ \A p \in Pauses : Announced(p) => Announced(p)'
    BY <1>1, FramesKept
  <1>3. Paused # NoPause => Paused \in Pauses
    BY <1>1 DEF WizardTypeOK
  <1>4. CASE Paused' \in {Paused, NoPause}
    <2>1. CASE Paused' = NoPause
      BY <1>2, <2>1 DEF WireInv
    <2>2. CASE Paused' = Paused /\ Paused # NoPause
      <3>1. Announced(Paused)'
        BY <1>2, <1>3, <2>2 DEF WireInv, Announced
      <3>2. QED
        BY <1>2, <3>1 DEF WireInv
    <2>3. QED
      BY <1>4, <2>1, <2>2
  <1>5. CASE onFrame
    <2> DEFINE f == Head(wire)
    <2>1. wire # <<>> /\ wire' = Tail(wire) /\ Paused' = FoldPaused(f)
      BY <1>5 DEF onFrame
    <2>2. CASE f.Type = "paused"
      <3>1. PICK p : p = [run |-> f.run, gate |-> f.gate]
        OBVIOUS
      <3>2. Paused' = p
        BY <2>1, <2>2, <3>1 DEF FoldPaused
      <3>3. Announced(p)'
        BY <1>1, <2>1, <2>2, <3>1, PausedArrives
      <3>4. Announced(Paused)'
        BY <3>2, <3>3 DEF Announced
      <3>5. QED
        BY <1>2, <3>4 DEF WireInv
    <2>3. CASE f.Type # "paused"
      <3>1. Paused' \in {Paused, NoPause}
        BY <2>1, <2>3 DEF FoldPaused
      <3>2. QED
        BY <1>4, <3>1
    <2>4. QED
      BY <2>2, <2>3
  <1>6. QED
    BY <1>1, <1>2, <1>4, <1>5, ScreenMoves

-----------------------------------------------------------------------------
(* Calls, as they are made, handled and answered. *)

Stays(c) == calls'[c].kind = calls[c].kind /\ calls'[c].run = calls[c].run /\ calls'[c].gate = calls[c].gate

NewCall(kind, r, gate) == [kind |-> kind, run |-> r, gate |-> gate, stage |-> "sent"]

Made(c) ==
    \/ \E r \in Runs : ClickRun(r) /\ calls'[c] = NewCall("run", r, NoPause)
    \/ \E kind \in GateKinds : ClickGate(kind) /\ calls'[c] = NewCall(kind, RunHash, Paused)
    \/ ClickCancel /\ calls'[c] = NewCall("cancel", RunHash, NoPause)
    \/ ClickRetry /\ calls'[c] = NewCall("retry", RunHash, NoPause)

CallMoves(c) ==
    \/ Stays(c) /\ calls'[c].stage = calls[c].stage
    \/ Stays(c) /\ calls[c].stage = "sent" /\ Handle(c) /\ calls'[c].stage \in {"ok", "refused"}
    \/ Stays(c) /\ calls[c].stage = "sent" /\ ManagerDies /\ calls'[c].stage = "refused"
    \/ Answered(c) /\ calls'[c] = Free
    \/ calls[c] = Free /\ Made(c)

LEMMA SendMoves ==
    ASSUME WizardTypeOK, NEW kind, NEW r, NEW gate, Send(kind, r, gate), NEW c \in Slots
    PROVE  \/ calls'[c] = calls[c]
           \/ calls[c] = Free /\ calls'[c] = NewCall(kind, r, gate)
  <1>1. PICK d \in Under("free") : calls' = [calls EXCEPT ![d] = NewCall(kind, r, gate)]
    BY DEF Send, NewCall
  <1>2. d \in Slots /\ calls[d] = Free
    BY <1>1, CallShape DEF Under
  <1>3. DOMAIN calls = Slots
    BY DEF WizardTypeOK
  <1>4. calls'[c] = IF c = d THEN NewCall(kind, r, gate) ELSE calls[c]
    BY <1>1, <1>3
  <1>5. QED
    BY <1>2, <1>4

\* What a step that responds to call c makes of the table.
LEMMA RespondMoves ==
    ASSUME WizardTypeOK, NEW c \in Slots, calls[c].stage = "sent", NEW ok \in BOOLEAN, Respond(c, ok)
    PROVE  /\ \A d \in Slots \ {c} : calls'[d] = calls[d]
           /\ Stays(c) /\ calls'[c].stage = IF ok THEN "ok" ELSE "refused"
  <1>1. calls[c] \in Calls
    BY CallShape DEF Free
  <1>2. QED
    BY <1>1 DEF Respond, Stays, WizardTypeOK, Calls

LEMMA HandleMoves ==
    ASSUME WizardTypeOK, NEW c \in Slots, Handle(c)
    PROVE  /\ \A d \in Slots \ {c} : calls'[d] = calls[d]
           /\ Stays(c) /\ calls'[c].stage \in {"ok", "refused"} /\ calls[c].stage = "sent"
           /\ Admits(c) \/ Accepts(c) \/ Cancels(c) \/ Retries(c) => calls'[c].stage = "ok"
           /\ Leaves(c) /\ calls[c].kind # "retry" => calls'[c].stage = "refused"
  <1>1. calls[c].stage = "sent"
    BY HandleCases
  <1>2. Respond(c, TRUE) \/ Respond(c, FALSE)
    BY HandleCases DEF Admits, Accepts, Cancels, Retries, Leaves
  <1>3. /\ \A d \in Slots \ {c} : calls'[d] = calls[d]
        /\ Stays(c)
        /\ Respond(c, TRUE) => calls'[c].stage = "ok"
        /\ Respond(c, FALSE) => calls'[c].stage = "refused"
    BY <1>1, <1>2, RespondMoves
  <1>4. QED
    BY <1>1, <1>2, <1>3 DEF Admits, Accepts, Cancels, Retries, Leaves

LEMMA CallMovesSo ==
    ASSUME WizardTypeOK, [WizardNext]_wizardVars, NEW c \in Slots
    PROVE  CallMoves(c)
  <1>1. ASSUME NEW r \in Runs, EngineStep(r) PROVE CallMoves(c)
    BY <1>1 DEF EngineStep, CallMoves, Stays
  <1>2. ASSUME NEW d \in Slots, Handle(d) PROVE CallMoves(c)
    BY <1>2, HandleMoves DEF CallMoves, Stays
  <1>3. CASE onFrame \/ Disconnect
    BY <1>3 DEF onFrame, Disconnect, CallMoves, Stays
  <1>4. ASSUME NEW d \in Slots, Answered(d) PROVE CallMoves(c)
    <2>1. calls'[c] = IF c = d THEN Free ELSE calls[c]
      BY <1>4 DEF Answered, WizardTypeOK
    <2>2. QED
      BY <1>4, <2>1 DEF CallMoves, Stays
  <1>5. CASE Buttons
    <2>1. \/ calls'[c] = calls[c]
          \/ calls[c] = Free /\ Made(c)
      <3>1. ASSUME NEW r \in Runs, ClickRun(r) PROVE calls'[c] = calls[c] \/ (calls[c] = Free /\ Made(c))
        <4>1. Send("run", r, NoPause)
          BY <3>1 DEF ClickRun
        <4>2. calls'[c] = calls[c] \/ (calls[c] = Free /\ calls'[c] = NewCall("run", r, NoPause))
          BY <4>1, SendMoves
        <4>3. QED
          BY <3>1, <4>2 DEF Made
      <3>2. ASSUME NEW kind \in {"confirm", "skip"}, ClickGate(kind)
            PROVE  calls'[c] = calls[c] \/ (calls[c] = Free /\ Made(c))
        <4>1. Send(kind, RunHash, Paused)
          BY <3>2 DEF ClickGate
        <4>2. calls'[c] = calls[c] \/ (calls[c] = Free /\ calls'[c] = NewCall(kind, RunHash, Paused))
          BY <4>1, SendMoves
        <4>3. QED
          BY <3>2, <4>2 DEF Made, GateKinds
      <3>3. CASE ClickCancel
        <4>1. Send("cancel", RunHash, NoPause)
          BY <3>3 DEF ClickCancel
        <4>2. calls'[c] = calls[c] \/ (calls[c] = Free /\ calls'[c] = NewCall("cancel", RunHash, NoPause))
          BY <4>1, SendMoves
        <4>3. QED
          BY <3>3, <4>2 DEF Made
      <3>4. CASE ClickRetry
        <4>1. Send("retry", RunHash, NoPause)
          BY <3>4 DEF ClickRetry
        <4>2. calls'[c] = calls[c] \/ (calls[c] = Free /\ calls'[c] = NewCall("retry", RunHash, NoPause))
          BY <4>1, SendMoves
        <4>3. QED
          BY <3>4, <4>2 DEF Made
      <3>5. CASE reset
        BY <3>5 DEF reset
      <3>6. QED
        BY <1>5, <3>1, <3>2, <3>3, <3>4, <3>5 DEF Buttons
    <2>2. QED
      BY <2>1 DEF CallMoves, Stays
  <1>6. CASE ManagerDies
    <2>1. calls'[c] = IF calls[c].stage = "sent" THEN [calls[c] EXCEPT !.stage = "refused"] ELSE calls[c]
      BY <1>6 DEF ManagerDies
    <2>2. calls[c].stage = "sent" => calls[c] \in Calls
      BY CallShape DEF Free
    <2>3. QED
      BY <1>6, <2>1, <2>2 DEF CallMoves, Stays, Calls
  <1>7. CASE UNCHANGED wizardVars
    BY <1>7 DEF wizardVars, CallMoves, Stays
  <1>8. QED
    BY <1>1, <1>2, <1>3, <1>4, <1>5, <1>6, <1>7, WizardCases

\* Only POST run creates a run.
LEMMA AbsentStays ==
    ASSUME Base, [WizardNext]_wizardVars, NEW r \in Runs, status[r] = "Absent"
    PROVE  \/ status'[r] = "Absent"
           \/ \E c \in Slots : Handle(c) /\ Admits(c) /\ calls[c].run = r
  <1>1. TypeOK /\ TypeOK' /\ WizardTypeOK /\ RunInv(r) /\ DiskInv(r)
    BY Moves DEF Base, EngineInv, RecordsInv
  <1>2. pending[r] = NoGate /\ r \notin live
    BY <1>1, PendingIs DEF RunInv, ContextInv
  <1>3. ASSUME NEW q \in Runs \ {r}, StepOf(q) PROVE status'[r] = "Absent"
    BY <1>1, <1>3, OthersUntouched DEF Untouched
  <1>4. ASSUME NEW q \in Runs, EngineStep(q) PROVE status'[r] = "Absent"
    BY <1>1, <1>3, <1>4, EngineStepSays
  <1>5. ASSUME NEW c \in Slots, Handle(c)
        PROVE  status'[r] = "Absent" \/ (Admits(c) /\ calls[c].run = r)
    <2>1. StepOf(calls[c].run) \/ UNCHANGED vars
      BY <1>1, <1>5, HandleIs
    <2>2. calls[c].run \in Runs
      BY <1>1, <1>5, HandleCases
    <2>3. CASE calls[c].run # r
      <3>1. CASE UNCHANGED vars
        BY <3>1 DEF vars
      <3>2. CASE StepOf(calls[c].run)
        BY <1>3, <2>2, <2>3, <3>2
      <3>3. QED
        BY <2>1, <3>1, <3>2
    <2>4. CASE calls[c].run = r
      <3>1. ~Accepts(c) /\ ~Cancels(c) /\ ~Retries(c)
        BY <1>2, <2>4 DEF Accepts, Cancels, Retries, Confirm, ConfirmSkip, Cancel, Retry, isTerminal
      <3>2. Leaves(c) => status' = status
        BY DEF Leaves, engine, vars
      <3>3. QED
        BY <1>1, <1>5, <2>4, <3>1, <3>2, HandleCases
    <2>5. QED
      BY <2>3, <2>4
  <1>6. CASE ManagerDies
    <2>1. status'[r] = disk[r].status
      BY <1>6 DEF ManagerDies, Crash
    <2>2. QED
      BY <1>1, <2>1 DEF DiskInv, Saved, Retried
  <1>7. CASE onFrame \/ Disconnect \/ Buttons \/ UNCHANGED wizardVars
    BY <1>7 DEF onFrame, Disconnect, Buttons, ClickRun, ClickGate, ClickCancel, ClickRetry, reset,
                wizardVars, engine, vars
  <1>8. ASSUME NEW c \in Slots, Answered(c) PROVE status' = status
    BY <1>8 DEF Answered, engine, vars
  <1>9. QED
    BY <1>4, <1>5, <1>6, <1>7, <1>8, WizardCases

\* The run of the wizard, and what the server named it.
LEMMA MineMoves ==
    ASSUME [WizardNext]_wizardVars
    PROVE  \/ mine' = mine /\ page' = page
           \/ \E r \in Runs : ClickRun(r)
           \/ reset
  BY WizardCases DEF EngineStep, Handle, onFrame, Answered, Buttons, ClickGate, ClickCancel, ClickRetry,
                     Disconnect, ManagerDies, wizardVars, screen

\* A new call is of the kind its button makes, for the run and the gate shown.
LEMMA MadeIs ==
    ASSUME WizardTypeOK, NEW c \in Slots, Made(c)
    PROVE  /\ calls'[c].stage = "sent" /\ calls'[c].kind \in Kinds /\ calls'[c].run \in Runs
           /\ UNCHANGED <<engine, wire>> /\ status' = status
           /\ RunCall(c)' => ClickRun(calls'[c].run) /\ calls'[c].gate = NoPause
           /\ ~RunCall(c)' => calls'[c].run = RunHash /\ mine' = mine
           /\ IsGateCall(c)' => ClickGate(calls'[c].kind) /\ calls'[c].gate = Paused /\ Paused \in Pauses
           /\ ~IsGateCall(c)' => calls'[c].gate = NoPause
  <1>1. /\ RunHash # NoRun => RunHash \in Runs
        /\ Paused # NoPause => Paused \in Pauses
    BY DEF WizardTypeOK
  <1>2. ASSUME NEW r \in Runs, ClickRun(r), calls'[c] = NewCall("run", r, NoPause)
        PROVE  /\ calls'[c].stage = "sent" /\ calls'[c].kind = "run" /\ calls'[c].run = r
               /\ calls'[c].gate = NoPause /\ UNCHANGED <<engine, wire>>
    BY <1>2 DEF NewCall, ClickRun
  <1>3. ASSUME NEW kind \in GateKinds, ClickGate(kind), calls'[c] = NewCall(kind, RunHash, Paused)
        PROVE  /\ calls'[c].stage = "sent" /\ calls'[c].kind = kind /\ calls'[c].run = RunHash
               /\ calls'[c].gate = Paused /\ UNCHANGED <<engine, wire, mine>>
               /\ RunHash \in Runs /\ Paused \in Pauses
    BY <1>1, <1>3 DEF NewCall, ClickGate
  <1>4. ASSUME ClickCancel \/ ClickRetry,
               calls'[c] = NewCall("cancel", RunHash, NoPause) \/ calls'[c] = NewCall("retry", RunHash, NoPause)
        PROVE  /\ calls'[c].stage = "sent" /\ calls'[c].kind \in {"cancel", "retry"}
               /\ calls'[c].run = RunHash /\ RunHash \in Runs
               /\ calls'[c].gate = NoPause /\ UNCHANGED <<engine, wire, mine>>
    BY <1>1, <1>4 DEF NewCall, ClickCancel, ClickRetry
  <1>5. UNCHANGED <<engine, wire>>
    BY <1>2, <1>3, <1>4 DEF Made
  <1>6. status' = status
    BY <1>5 DEF engine, vars
  <1>7. CASE \E r \in Runs : ClickRun(r) /\ calls'[c] = NewCall("run", r, NoPause)
    BY <1>2, <1>5, <1>6, <1>7 DEF RunCall, IsGateCall, GateKinds, Kinds
  <1>8. CASE \E kind \in GateKinds : ClickGate(kind) /\ calls'[c] = NewCall(kind, RunHash, Paused)
    BY <1>3, <1>5, <1>6, <1>8 DEF RunCall, IsGateCall, GateKinds, Kinds
  <1>9. CASE \/ ClickCancel /\ calls'[c] = NewCall("cancel", RunHash, NoPause)
             \/ ClickRetry /\ calls'[c] = NewCall("retry", RunHash, NoPause)
    BY <1>4, <1>5, <1>6, <1>9 DEF RunCall, IsGateCall, GateKinds, Kinds
  <1>10. QED
    BY <1>7, <1>8, <1>9 DEF Made

\* What a call that is under way is about stays so.
Wizards == Base /\ WireInv /\ (\A c \in Slots : CallInv(c)) /\ ClickInv /\ MineInv

LEMMA CallRun ==
    ASSUME Wizards, [WizardNext]_wizardVars, NEW c \in Slots, CallMoves(c)
    PROVE  /\ ~RunCall(c)' /\ calls'[c].kind # "none" => status'[calls'[c].run] # "Absent"
           /\ RunCall(c)' => (calls'[c].stage = "ok" <=> status'[calls'[c].run] # "Absent")
           /\ RunCall(c)' /\ mine' # NoRun => calls'[c].run = mine'
  <1>1. /\ WizardTypeOK /\ CallInv(c) /\ MineInv /\ \A r \in Runs : GateMoves(r)
        /\ \A d \in Slots : RunCall(d) /\ RunCall(c) => d = c
    BY Moves DEF Wizards, Base, CallInv
  <1>2. calls[c] # Free => calls[c].run \in Runs
    BY <1>1, CallShape
  <1>3. CASE Stays(c) /\ calls'[c].kind = "none"
    BY <1>3 DEF RunCall
  <1>4. CASE calls'[c] = Free
    BY <1>4 DEF RunCall, Free
  <1>5. CASE Made(c)
    <2>1. ~RunCall(c)' => status'[calls'[c].run] # "Absent"
      BY <1>1, <1>5, MadeIs, WizardAssumption DEF MineInv
    <2>2. RunCall(c)' => ClickRun(calls'[c].run) /\ calls'[c].stage = "sent" /\ status' = status
      BY <1>1, <1>5, MadeIs
    <2>3. RunCall(c)' => status'[calls'[c].run] = "Absent" /\ calls'[c].stage = "sent" /\ mine' = calls'[c].run
      BY <2>2 DEF ClickRun
    <2>4. QED
      BY <2>1, <2>3
  <1>6. CASE Stays(c) /\ calls[c].kind # "none"
    <2>1. calls[c] # Free /\ calls[c].run \in Runs
      BY <1>2, <1>6 DEF Free
    <2>2. ~RunCall(c)' => status'[calls'[c].run] # "Absent"
      BY <1>1, <1>6, <2>1 DEF CallInv, RunCall, Stays, GateMoves
    <2>3. RunCall(c)' /\ mine' # NoRun => calls'[c].run = mine'
      <3>1. RunCall(c)' => RunCall(c) /\ IsUnder("run")
        BY <1>6 DEF RunCall, Stays, IsUnder
      <3>2. RunCall(c) => ~(\E r \in Runs : ClickRun(r))
        BY DEF ClickRun, RunCall, IsUnder
      <3>3. RunCall(c)' => mine' \in {mine, NoRun}
        BY <3>1, <3>2, MineMoves DEF reset
      <3>4. QED
        BY <1>1, <1>6, <3>1, <3>3 DEF CallInv, Stays
    <2>4. ASSUME RunCall(c) PROVE calls'[c].stage = "ok" <=> status'[calls[c].run] # "Absent"
      <3>1. calls[c].stage = "ok" <=> status[calls[c].run] # "Absent"
        BY <1>1, <2>4 DEF CallInv
      <3>2. status[calls[c].run] # "Absent" => status'[calls[c].run] # "Absent"
        BY <1>1, <2>1 DEF GateMoves
      <3>3. status[calls[c].run] = "Absent" =>
              status'[calls[c].run] = "Absent" \/ (Handle(c) /\ Admits(c))
        BY <1>1, <2>1, <2>4, AbsentStays DEF Wizards, Admits
      <3>4. Admits(c) => status'[calls[c].run] # "Absent"
        BY <1>1, <2>1 DEF Admits, Run, WizardTypeOK, TypeOK
      <3>5. Handle(c) => Admits(c) \/ Leaves(c)
        BY <1>1, <2>4, HandleCases DEF RunCall, Accepts, Cancels, Retries, IsGateCall, GateKinds
      <3>6. Handle(c) => /\ calls[c].stage = "sent"
                         /\ Admits(c) => calls'[c].stage = "ok"
                         /\ Leaves(c) => calls'[c].stage = "refused"
        BY <1>1, <2>4, HandleMoves DEF RunCall
      <3>7. Leaves(c) => status' = status
        BY DEF Leaves, engine, vars
      <3>8. CASE calls'[c].stage = calls[c].stage
        BY <3>1, <3>2, <3>3, <3>6, <3>8
      <3>9. CASE Handle(c)
        BY <3>1, <3>4, <3>5, <3>6, <3>7, <3>9
      <3>10. CASE ManagerDies /\ calls[c].stage = "sent" /\ calls'[c].stage = "refused"
        BY <3>1, <3>3, <3>6, <3>10
      <3>11. QED
        BY <1>6, <3>8, <3>9, <3>10 DEF CallMoves, Stays, Made, Free, RunCall
    <2>5. QED
      BY <1>6, <2>2, <2>3, <2>4 DEF RunCall, Stays
  <1>7. QED
    BY <1>3, <1>4, <1>5, <1>6 DEF CallMoves, Stays

\* One run call at a time.
LEMMA OneRunCall ==
    ASSUME Wizards, [WizardNext]_wizardVars, NEW c \in Slots, NEW d \in Slots, RunCall(c)', RunCall(d)'
    PROVE  d = c
  <1>1. WizardTypeOK /\ CallMoves(c) /\ CallMoves(d) /\ (RunCall(c) /\ RunCall(d) => d = c)
    BY CallMovesSo DEF Wizards, Base, CallInv
  <1>2. ASSUME NEW e \in Slots, CallMoves(e), RunCall(e)'
        PROVE  RunCall(e) \/ \E r \in Runs : ClickRun(r)
    <2>1. CASE Stays(e)
      BY <1>2, <2>1 DEF Stays, RunCall
    <2>2. CASE Made(e)
      BY <1>1, <1>2, <2>2, MadeIs
    <2>3. QED
      BY <1>2, <2>1, <2>2 DEF CallMoves, Free, RunCall
  <1>3. ASSUME NEW r \in Runs, ClickRun(r) PROVE d = c
    <2>1. PICK e \in Slots : calls' = [calls EXCEPT ![e] = NewCall("run", r, NoPause)]
      BY <1>3 DEF ClickRun, Send, NewCall, Under
    <2>2. \A b \in Slots : calls[b].kind # "run"
      BY <1>3 DEF ClickRun, IsUnder
    <2>3. \A b \in Slots \ {e} : calls'[b].kind # "run"
      BY <1>1, <2>1, <2>2 DEF WizardTypeOK
    <2>4. QED
      BY <2>3 DEF RunCall
  <1>4. QED
    BY <1>1, <1>2, <1>3

\* The gate a call answers was announced; one that was accepted is past.
LEMMA CallGate ==
    ASSUME Wizards, [WizardNext]_wizardVars, NEW c \in Slots, CallMoves(c)
    PROVE  /\ (IF IsGateCall(c) THEN calls[c].gate # NoPause /\ Announced(calls[c].gate)
                                ELSE calls[c].gate = NoPause)'
           /\ IsGateCall(c)' /\ calls'[c].stage = "ok" =>
                 calls'[c].gate.gate \in shown'[calls'[c].run] /\ pending'[calls'[c].run] # calls'[c].gate.gate
  <1>1. /\ WizardTypeOK /\ CallInv(c) /\ WireInv /\ \A r \in Runs : GateMoves(r)
        /\ \A p \in Pauses : Announced(p) => Announced(p)'
    BY Moves, WireInvStep DEF Wizards, Base
  <1> DEFINE Shows == (IF IsGateCall(c) THEN calls[c].gate # NoPause /\ Announced(calls[c].gate)
                       ELSE calls[c].gate = NoPause)'
             Past == IsGateCall(c)' /\ calls'[c].stage = "ok" =>
                         calls'[c].gate.gate \in shown'[calls'[c].run]
                         /\ pending'[calls'[c].run] # calls'[c].gate.gate
  <1>2. CASE calls'[c] = Free
    BY <1>2 DEF Free, IsGateCall, GateKinds
  <1>3. CASE Made(c)
    <2>1. /\ calls'[c].stage = "sent"
          /\ IsGateCall(c)' => calls'[c].gate = Paused /\ Paused \in Pauses
          /\ ~IsGateCall(c)' => calls'[c].gate = NoPause
      BY <1>1, <1>3, MadeIs
    <2>2. IsGateCall(c)' => Announced(Paused) /\ Paused \in Pauses /\ Paused # NoPause
      BY <1>1, <2>1, PauseShape DEF WireInv
    <2>3. ASSUME IsGateCall(c)' PROVE Announced(calls[c].gate)' /\ calls'[c].gate # NoPause
      <3>1. PICK p \in Pauses : p = Paused /\ Announced(p)
        BY <2>2, <2>3
      <3>2. Announced(p)' /\ calls'[c].gate = p /\ p # NoPause
        BY <1>1, <2>1, <2>3, <3>1, PauseShape
      <3>3. QED
        BY <3>2 DEF Announced
    <2>4. QED
      BY <2>1, <2>3
  <1>4. CASE Stays(c)
    <2>1. IsGateCall(c)' <=> IsGateCall(c)
      BY <1>4 DEF IsGateCall, Stays
    <2>2. CASE ~IsGateCall(c)
      BY <1>1, <1>4, <2>1, <2>2 DEF CallInv, Stays
    <2>3. CASE IsGateCall(c)
      <3>1. calls[c].gate # NoPause /\ Announced(calls[c].gate)
        BY <1>1, <2>3 DEF CallInv
      <3>2. calls[c].gate \in Pauses /\ calls[c].run \in Runs
        BY <1>1, <2>3, <3>1, CallShape DEF Free, IsGateCall, GateKinds
      <3>3. PICK p \in Pauses : p = calls[c].gate
        BY <3>2
      <3>4. Announced(p)' /\ calls'[c].gate = p /\ p # NoPause /\ p.gate \in Gate /\ p.gate # NoGate
        BY <1>1, <1>4, <3>1, <3>3, PauseShape DEF Stays
      <3>5. Announced(calls[c].gate)' /\ calls'[c].gate # NoPause
        BY <3>4 DEF Announced
      <3>6. ASSUME calls[c].stage = "ok"
            PROVE  p.gate \in shown'[calls[c].run] /\ pending'[calls[c].run] # p.gate
        <4>1. p.gate \in shown[calls[c].run] /\ pending[calls[c].run] # p.gate
          BY <1>1, <2>3, <3>3, <3>6 DEF CallInv
        <4>2. QED
          BY <1>1, <3>2, <3>4, <4>1 DEF GateMoves
      <3>7. ASSUME Handle(c), calls'[c].stage = "ok"
            PROVE  p.gate \in shown'[calls[c].run] /\ pending'[calls[c].run] # p.gate
        <4>1. Accepts(c)
          BY <1>1, <2>3, <3>7, HandleCases, HandleMoves
             DEF Admits, Cancels, Retries, RunCall, IsGateCall, GateKinds
        <4>2. /\ calls[c].gate.gate \in shown[calls[c].run]
              /\ pending' = [pending EXCEPT ![calls[c].run] = NoGate]
          BY <4>1 DEF Accepts, Confirm, ConfirmSkip
        <4>3. pending'[calls[c].run] = NoGate
          BY <1>1, <3>2, <4>2 DEF WizardTypeOK, TypeOK
        <4>4. QED
          BY <1>1, <3>2, <3>3, <3>4, <4>2, <4>3 DEF GateMoves
      <3>8. calls'[c].stage = "ok" => calls[c].stage = "ok" \/ Handle(c)
        BY <2>3, <1>4 DEF CallMoves, Free, IsGateCall, GateKinds, Stays
      <3>9. Past
        BY <1>4, <3>3, <3>6, <3>7, <3>8 DEF Stays
      <3>10. QED
        BY <2>1, <2>3, <3>5, <3>9
    <2>4. QED
      BY <2>2, <2>3
  <1>5. QED
    BY <1>2, <1>3, <1>4 DEF CallMoves

LEMMA CallInvStep ==
    ASSUME Wizards, [WizardNext]_wizardVars, NEW c \in Slots
    PROVE  CallInv(c)'
  <1>1. CallMoves(c)
    BY CallMovesSo DEF Wizards, Base
  <1>2. QED
    BY <1>1, CallRun, OneRunCall, CallGate DEF CallInv, RunCall

-----------------------------------------------------------------------------
(* Clicks, and what they grant. *)

LEMMA GatedIs ==
    ASSUME Base, NEW r \in Runs, pending[r] # NoGate
    PROVE  Gated(r)
  <1>1. TypeOK /\ RunInv(r) /\ GateInv(r)
    BY DEF Base, WizardTypeOK, EngineInv
  <1>2. QED
    BY <1>1, PendingIs DEF GateInv, Gated, isTerminal

LEMMA ClicksGrow ==
    ASSUME [WizardNext]_wizardVars
    PROVE  clicked \subseteq clicked'
  BY WizardCases DEF EngineStep, Handle, onFrame, Answered, Buttons, ClickRun, ClickGate, ClickCancel,
                     ClickRetry, reset, Disconnect, ManagerDies, wizardVars

\* A gate is granted by a call that confirms it.
LEMMA GrantsAre ==
    ASSUME Base, [WizardNext]_wizardVars, NEW r \in Runs
    PROVE  \/ granted'[r] = granted[r]
           \/ \E c \in Slots :
                 /\ calls[c].kind = "confirm" /\ calls[c].run = r
                 /\ pending[r] = calls[c].gate.gate /\ pending[r] # NoGate
                 /\ granted'[r] = granted[r] \cup {calls[c].gate.gate}
  <1>1. TypeOK /\ TypeOK' /\ WizardTypeOK
    BY Moves
  <1>2. ASSUME NEW q \in Runs, EngineStep(q) PROVE granted'[r] = granted[r]
    <2>1. StepOf(q) /\ EngineSays(q)
      BY <1>1, <1>2, EngineStepSays
    <2>2. CASE q = r
      BY <2>1, <2>2 DEF EngineSays
    <2>3. CASE q # r
      BY <1>1, <2>1, <2>3, OthersRecord
    <2>4. QED
      BY <2>2, <2>3
  <1>3. ASSUME NEW c \in Slots, Handle(c)
        PROVE  \/ granted'[r] = granted[r]
               \/ /\ calls[c].kind = "confirm" /\ calls[c].run = r
                  /\ pending[r] = calls[c].gate.gate /\ pending[r] # NoGate
                  /\ granted'[r] = granted[r] \cup {calls[c].gate.gate}
    <2>1. calls[c].run \in Runs
      BY <1>1, <1>3, HandleCases
    <2>2. CASE Admits(c) \/ Cancels(c) \/ Retries(c) \/ Leaves(c)
      BY <2>2 DEF Admits, Cancels, Retries, Leaves, Run, Cancel, Retry, client, engine, vars
    <2>3. CASE Accepts(c)
      <3>1. CASE calls[c].kind = "skip"
        BY <2>3, <3>1 DEF Accepts, ConfirmSkip
      <3>2. CASE calls[c].kind # "skip"
        <4>1. calls[c].kind = "confirm" /\ Confirm(calls[c].run, calls[c].gate.gate)
          BY <2>3, <3>2 DEF Accepts, IsGateCall, GateKinds
        <4>2. /\ pending[calls[c].run] = calls[c].gate.gate /\ pending[calls[c].run] # NoGate
              /\ granted' = [granted EXCEPT ![calls[c].run] = @ \cup {calls[c].gate.gate}]
          BY <4>1 DEF Confirm, Matches
        <4>3. QED
          BY <1>1, <2>1, <4>1, <4>2 DEF TypeOK
      <3>3. QED
        BY <3>1, <3>2
    <2>4. QED
      BY <1>1, <1>3, <2>2, <2>3, HandleCases
  <1>4. CASE onFrame \/ Disconnect \/ Buttons \/ UNCHANGED wizardVars
    BY <1>4 DEF onFrame, Disconnect, Buttons, ClickRun, ClickGate, ClickCancel, ClickRetry, reset,
                wizardVars, engine, vars
  <1>5. ASSUME NEW c \in Slots, Answered(c) PROVE granted' = granted
    BY <1>5 DEF Answered, engine, vars
  <1>6. CASE ManagerDies
    BY <1>6 DEF ManagerDies, Crash, client
  <1>7. QED
    BY <1>2, <1>3, <1>4, <1>5, <1>6, WizardCases

\* A click that is made is of the gate shown, or for a run that is at no gate.
LEMMA ClickIsFor ==
    ASSUME Wizards, ClickGate("confirm")
    PROVE  Gated(RunHash) => ClickedFor(RunHash, Paused)'
  <1>1. /\ Click \in clicked' /\ RunHash # NoRun /\ page = "run" /\ Paused # NoPause
        /\ UNCHANGED <<RunHash, Paused>>
    BY DEF ClickGate, screen, bulkRun
  <1>2. /\ MineInv /\ mine # NoRun /\ mine \in Runs /\ RunHash \in Runs /\ Paused \in Pauses
        /\ Announced(Paused) /\ \A r \in Runs : GateInv(r)
    BY <1>1 DEF Wizards, Base, WizardTypeOK, WireInv, MineInv
  <1>3. ASSUME Gated(RunHash), "foreign" \notin blur PROVE Paused.run = RunHash
    <2>1. Paused.run = mine
      BY <1>1, <1>2, <1>3 DEF MineInv
    <2>2. status[mine] # "Absent"
      BY <1>2, <2>1 DEF Announced, GateInv
    <2>3. QED
      BY <1>1, <1>2, <1>3, <2>1, <2>2 DEF MineInv
  <1>4. Gated(RunHash) => Paused.run = RunHash \/ "foreign" \in blur
    BY <1>3
  <1>5. QED
    BY <1>1, <1>4 DEF ClickedFor, Click

LEMMA ClickInvStep ==
    ASSUME Wizards, [WizardNext]_wizardVars
    PROVE  ClickInv'
  <1>1. /\ WizardTypeOK /\ ClickInv /\ (\A r \in Runs : GateMoves(r)) /\ clicked \subseteq clicked'
        /\ \A c \in Slots : CallInv(c) /\ CallMoves(c)
    BY Moves, ClicksGrow, CallMovesSo DEF Wizards, Base
  <1>2. \A r, p : ClickedFor(r, p) => ClickedFor(r, p)'
    BY <1>1 DEF ClickedFor
  <1>3. ASSUME NEW c \in Slots, calls'[c].kind = "confirm"
        PROVE  ClickedFor(calls[c].run, calls[c].gate)' \/ ~Gated(calls[c].run)'
    <2>1. CASE Stays(c)
      <3>1. calls[c].kind = "confirm"
        BY <1>3, <2>1 DEF Stays
      <3>2. calls[c].run \in Runs /\ status[calls[c].run] # "Absent"
        BY <1>1, <3>1, CallShape DEF CallInv, RunCall, Free
      <3>3. PICK r, p : r \in Runs /\ r = calls[c].run /\ p = calls[c].gate
        BY <3>2
      <3>4. ClickedFor(r, p) \/ ~Gated(r)
        BY <1>1, <3>1, <3>3 DEF ClickInv
      <3>5. ClickedFor(r, p)' \/ ~Gated(r)'
        BY <1>1, <1>2, <3>2, <3>3, <3>4 DEF GateMoves
      <3>6. calls'[c].run = r /\ calls'[c].gate = p
        BY <2>1, <3>3 DEF Stays
      <3>7. QED
        BY <3>5, <3>6 DEF ClickedFor, Gated
    <2>2. CASE Made(c)
      <3>1. /\ ClickGate("confirm") /\ calls'[c].run = RunHash /\ calls'[c].gate = Paused
            /\ UNCHANGED engine /\ RunHash \in Runs
        BY <1>1, <1>3, <2>2, MadeIs DEF IsGateCall, GateKinds, RunCall
      <3>2. PICK r, p : r \in Runs /\ r = RunHash /\ p = Paused
        BY <3>1
      <3>3. UNCHANGED <<RunHash, Paused>>
        BY <3>1 DEF ClickGate, screen, bulkRun
      <3>4. Gated(r) => ClickedFor(r, p)'
        BY <3>1, <3>2, <3>3, ClickIsFor DEF ClickedFor
      <3>5. Gated(r)' => Gated(r)
        BY <3>1 DEF Gated, engine, vars
      <3>6. QED
        BY <3>1, <3>2, <3>4, <3>5 DEF ClickedFor, Gated
    <2>3. QED
      BY <1>1, <1>3, <2>1, <2>2 DEF CallMoves, Free
  <1>4. ASSUME NEW r \in Runs, NEW g \in granted'[r]
        PROVE  \E k \in clicked' : k.run = r /\ k.shown.gate = g /\ (k.shown.run = r \/ k.foreign)
    <2>1. CASE g \in granted[r]
      BY <1>1, <2>1 DEF ClickInv
    <2>2. CASE g \notin granted[r]
      <3>1. PICK c \in Slots : /\ calls[c].kind = "confirm" /\ calls[c].run = r /\ pending[r] # NoGate
                               /\ granted'[r] = granted[r] \cup {calls[c].gate.gate}
        BY <2>2, GrantsAre DEF Wizards
      <3>2. ClickedFor(r, calls[c].gate) /\ g = calls[c].gate.gate
        BY <1>1, <2>2, <3>1, GatedIs DEF ClickInv, Wizards
      <3>3. QED
        BY <1>1, <3>2 DEF ClickedFor
    <2>3. QED
      BY <2>1, <2>2
  <1>5. QED
    BY <1>3, <1>4 DEF ClickInv

-----------------------------------------------------------------------------
(* The run of the wizard. *)

LEMMA HashMoves ==
    ASSUME [WizardNext]_wizardVars
    PROVE  \/ RunHash' = RunHash
           \/ RunHash' = NoRun
           \/ \E c \in Slots : RunCall(c) /\ calls[c].stage = "ok" /\ RunHash' = calls[c].run
  <1>1. ASSUME NEW c \in Slots, Answered(c)
        PROVE  RunHash' = RunHash \/ (RunCall(c) /\ calls[c].stage = "ok" /\ RunHash' = calls[c].run)
    BY <1>1 DEF Answered, AnsweredRun, AnsweredGate, AnsweredCancel, RunCall
  <1>2. QED
    BY <1>1, WizardCases DEF EngineStep, Handle, onFrame, Buttons, ClickRun, ClickGate, ClickCancel,
                             ClickRetry, reset, Disconnect, ManagerDies, wizardVars

LEMMA BlurMoves ==
    ASSUME [WizardNext]_wizardVars
    PROVE  blur \subseteq blur' \/ \E r \in Runs : ClickRun(r)
  <1>1. ASSUME NEW c \in Slots, Answered(c) PROVE blur \subseteq blur'
    BY <1>1 DEF Answered, AnsweredRun, AnsweredGate, AnsweredCancel
  <1>2. CASE onFrame
    BY <1>2 DEF onFrame
  <1>3. QED
    BY <1>1, <1>2, WizardCases DEF EngineStep, Handle, Buttons, ClickGate, ClickCancel,
                             ClickRetry, reset, Disconnect, ManagerDies, Lose, wizardVars

LEMMA StepsShown == \A shows \in [Steps -> StepStates] : shows # NoSteps
  <1>1. 1 \in Steps
    BY EngineAssumption DEF Steps
  <1>2. DOMAIN NoSteps = {}
    BY DEF NoSteps
  <1>3. QED
    BY <1>1, <1>2

\* The record made for a run is not taken away from it but by New operation.
LEMMA RecordStays ==
    ASSUME WizardTypeOK, [WizardNext]_wizardVars, mine # NoRun => Status # "None" /\ StepStatus # NoSteps,
           mine' # NoRun
    PROVE  Status' # "None" /\ StepStatus' # NoSteps
  <1> DEFINE Kept == Status' # "None" /\ StepStatus' # NoSteps
  <1>1. ASSUME NEW r \in Runs, ClickRun(r) PROVE Kept
    <2>1. Status' = "Running" /\ StepStatus' \in [Steps -> StepStates]
      BY <1>1 DEF ClickRun, StepStates
    <2>2. QED
      BY <2>1, StepsShown
  <1>2. CASE reset
    BY <1>2 DEF reset
  <1>3. ASSUME mine' = mine PROVE Kept
    <2>0. Status # "None" /\ StepStatus # NoSteps /\ StepStatus \in [Steps -> StepStates]
      BY <1>3 DEF WizardTypeOK
    <2>1. CASE onFrame
      <3>1. PICK f \in Frames : f = Head(wire)
        BY <2>1, TailPlaces DEF onFrame, WizardTypeOK
      <3>2. /\ Status' = FoldStatus(f)
            /\ StepStatus' = IF f.Type \in {"step-start", "step-end"} /\ HasSteps THEN FoldStep(f) ELSE StepStatus
        BY <2>1, <3>1 DEF onFrame
      <3>3. Status' # "None"
        BY <2>0, <3>1, <3>2, FrameShape DEF FoldStatus, RunStates
      <3>4. StepStatus' \in [Steps -> StepStates]
        BY <2>0, <3>1, <3>2, FrameShape DEF FoldStep
      <3>5. QED
        BY <3>3, <3>4, StepsShown
    <2>2. ASSUME NEW c \in Slots, Answered(c) PROVE Kept
      <3>1. CASE AnsweredRun(c)
        BY <2>0, <3>1 DEF AnsweredRun
      <3>2. CASE AnsweredGate(c)
        BY <2>0, <3>2 DEF AnsweredGate
      <3>3. CASE AnsweredCancel(c)
        BY <2>0, <3>3 DEF AnsweredCancel, bulkRun
      <3>4. QED
        BY <2>2, <3>1, <3>2, <3>3 DEF Answered
    <2>3. ASSUME NEW r \in Runs, EngineStep(r) PROVE Kept
      BY <2>0, <2>3 DEF EngineStep, screen, bulkRun
    <2>4. ASSUME NEW c \in Slots, Handle(c) PROVE Kept
      BY <2>0, <2>4 DEF Handle, screen, bulkRun
    <2>5. CASE Buttons
      <3>1. CASE ClickRetry
        BY <2>0, <3>1 DEF ClickRetry
      <3>2. CASE ClickCancel \/ \E kind \in {"confirm", "skip"} : ClickGate(kind)
        BY <2>0, <3>2 DEF ClickCancel, ClickGate, screen, bulkRun
      <3>3. QED
        BY <1>1, <1>2, <2>5, <3>1, <3>2 DEF Buttons
    <2>6. CASE Disconnect \/ ManagerDies
      BY <2>0, <2>6 DEF Disconnect, ManagerDies, screen, bulkRun
    <2>7. CASE UNCHANGED wizardVars
      BY <2>0, <2>7 DEF wizardVars, screen, bulkRun
    <2>8. QED
      BY <2>1, <2>2, <2>3, <2>4, <2>5, <2>6, <2>7, WizardCases
  <1>4. QED
    BY <1>1, <1>2, <1>3, MineMoves

\* The run the wizard's calls are for, while it is not yet the one of its record,
\* comes to no gate once that one is created.
LEMMA OtherHash ==
    ASSUME Wizards, [WizardNext]_wizardVars,
           mine' # NoRun, status'[mine'] # "Absent", RunHash' \notin {NoRun, mine'}
    PROVE  ~Gated(RunHash)' /\ status'[RunHash'] # "Absent"
  <1>1. /\ MineInv /\ WizardTypeOK /\ (\A r \in Runs : GateMoves(r)) /\ TypeOK
        /\ \A c \in Slots : CallInv(c)
    BY Moves DEF Wizards, Base
  <1>2. mine' = mine
    <2>1. ASSUME NEW r \in Runs, ClickRun(r) PROVE status'[mine'] = "Absent"
      BY <2>1 DEF ClickRun, engine, vars
    <2>2. QED
      BY <2>1, MineMoves DEF reset
  <1>3. mine \in Runs /\ RunHash' = RunHash
    BY <1>1, <1>2, HashMoves DEF WizardTypeOK, CallInv
  <1>4. RunHash \in Runs /\ status[RunHash] # "Absent" /\ RunHash # mine
    BY <1>1, <1>2, <1>3 DEF WizardTypeOK, MineInv
  <1>5. CASE status[mine] # "Absent"
    <2>1. ~Gated(RunHash)
      BY <1>1, <1>2, <1>3, <1>4, <1>5, WizardAssumption DEF MineInv
    <2>2. QED
      BY <1>1, <1>3, <1>4, <2>1 DEF GateMoves, Gated
  <1>6. CASE status[mine] = "Absent"
    <2>1. PICK c \in Slots : Admits(c)
      BY <1>2, <1>3, <1>6, AbsentStays DEF Wizards
    <2>2. ~hasActiveRun
      BY <2>1 DEF Admits, Run
    <2>3. ~Gated(RunHash)
      BY <2>2 DEF hasActiveRun, Gated
    <2>4. QED
      BY <1>1, <1>3, <1>4, <2>3 DEF GateMoves, Gated
  <1>7. QED
    BY <1>5, <1>6

\* Gate calls and the run of the wizard.
LEMMA MineCalls ==
    ASSUME Wizards, [WizardNext]_wizardVars, mine' # NoRun, NEW c \in Slots, IsGateCall(c)'
    PROVE  /\ calls'[c].gate.run = mine' /\ calls'[c].run # mine' =>
                 ~Gated(calls[c].run)' /\ calls'[c].stage # "ok"
           /\ "foreign" \notin blur' /\ calls'[c].run = mine' => calls'[c].gate.run = mine'
  <1> DEFINE Goal == /\ calls'[c].gate.run = mine' /\ calls'[c].run # mine' =>
                            ~Gated(calls[c].run)' /\ calls'[c].stage # "ok"
                     /\ "foreign" \notin blur' /\ calls'[c].run = mine' => calls'[c].gate.run = mine'
  <1>1. /\ MineInv /\ WireInv /\ WizardTypeOK /\ CallInv(c) /\ CallMoves(c)
        /\ \A r \in Runs : GateMoves(r) /\ GateInv(r)
    BY Moves, CallMovesSo DEF Wizards, Base
  <1>2. CASE Made(c)
    <2>1. /\ ClickGate(calls'[c].kind) /\ calls'[c].gate = Paused /\ calls'[c].run = RunHash
          /\ Paused \in Pauses /\ UNCHANGED engine /\ calls'[c].stage = "sent" /\ mine' = mine
          /\ RunHash \in Runs
      BY <1>1, <1>2, MadeIs DEF RunCall, IsGateCall, GateKinds
    <2>2. blur' = blur
      BY <2>1 DEF ClickGate
    <2>3. "foreign" \notin blur' => calls'[c].gate.run = mine'
      BY <1>1, <2>1, <2>2, PauseShape DEF MineInv
    <2>4. ASSUME Paused.run = mine, RunHash # mine PROVE ~Gated(RunHash)
      <3>1. Announced(Paused)
        BY <1>1, <2>1, PauseShape DEF WireInv
      <3>2. mine \in Runs /\ status[mine] # "Absent"
        BY <1>1, <2>1, <2>4, <3>1, PauseShape DEF Announced, GateInv
      <3>3. QED
        BY <1>1, <2>1, <2>4, <3>2, WizardAssumption DEF MineInv
    <2>5. PICK r : r = RunHash
      OBVIOUS
    <2>6. ~Gated(r) => ~Gated(r)'
      BY <2>1 DEF Gated, engine, vars
    <2>7. Paused.run = mine /\ RunHash # mine => ~Gated(calls[c].run)'
      BY <2>1, <2>4, <2>5, <2>6 DEF Gated
    <2>8. QED
      BY <2>1, <2>3, <2>7
  <1>3. CASE Stays(c)
    <2>1. IsGateCall(c) /\ calls[c].kind # "none" /\ ~RunCall(c)
      BY <1>3 DEF IsGateCall, Stays, GateKinds, RunCall
    <2>2. /\ calls[c].run \in Runs /\ calls[c].gate \in Pauses /\ status[calls[c].run] # "Absent"
          /\ Announced(calls[c].gate)
      BY <1>1, <2>1, CallShape DEF Free, CallInv
    <2>3. ASSUME NEW r \in Runs, ClickRun(r)
          PROVE  calls[c].gate.run # r /\ calls[c].run # r
      <3>1. status[r] = "Absent"
        BY <2>3 DEF ClickRun
      <3>2. shown[r] = {}
        BY <1>1, <3>1 DEF GateInv
      <3>3. QED
        BY <2>2, <3>1, <3>2 DEF Announced
    <2>4. ASSUME NEW r \in Runs, ClickRun(r) PROVE Goal
      <3>1. mine' = r
        BY <2>4 DEF ClickRun
      <3>2. QED
        BY <1>3, <2>3, <2>4, <3>1 DEF Stays
    <2>5. CASE mine' = mine /\ blur \subseteq blur'
      <3>1. "foreign" \notin blur' /\ calls'[c].run = mine' => calls'[c].gate.run = mine'
        BY <1>1, <1>3, <2>1, <2>5 DEF MineInv, Stays
      <3>2. ASSUME calls[c].gate.run = mine, calls[c].run # mine
            PROVE  ~Gated(calls[c].run)' /\ calls'[c].stage # "ok"
        <4>1. ~Gated(calls[c].run) /\ calls[c].stage # "ok"
          BY <1>1, <2>1, <2>5, <3>2 DEF MineInv
        <4>2. PICK r \in Runs : r = calls[c].run
          BY <2>2
        <4>3. ~Gated(r)'
          BY <1>1, <2>2, <4>1, <4>2 DEF GateMoves
        <4>4. ~Gated(calls[c].run)'
          BY <1>3, <4>2, <4>3 DEF Gated, Stays
        <4>5. ~Accepts(c)
          BY <2>2, <4>1, GatedIs DEF Accepts, Confirm, ConfirmSkip, Wizards
        <4>6. Handle(c) => Leaves(c)
          BY <1>1, <2>1, <4>5, HandleCases DEF Admits, Cancels, Retries, IsGateCall, GateKinds, RunCall
        <4>7. Handle(c) => calls'[c].stage = "refused"
          BY <1>1, <2>1, <4>6, HandleMoves DEF IsGateCall, GateKinds
        <4>8. calls'[c].stage # "ok"
          BY <1>1, <2>1, <4>1, <4>7 DEF CallMoves, Free
        <4>9. QED
          BY <4>4, <4>8
      <3>3. QED
        BY <1>3, <2>5, <3>1, <3>2 DEF Stays
    <2>6. QED
      BY <2>4, <2>5, MineMoves, BlurMoves DEF reset
  <1>4. QED
    BY <1>1, <1>2, <1>3 DEF CallMoves, Free, IsGateCall, GateKinds

LEMMA MineInvStep ==
    ASSUME Wizards, [WizardNext]_wizardVars
    PROVE  MineInv'
  <1>1. /\ MineInv /\ WizardTypeOK /\ WizardTypeOK' /\ (\A r \in Runs : GateMoves(r))
        /\ \A c \in Slots : CallInv(c)
    BY Moves DEF Wizards, Base
  <1>2. page' = "run" <=> mine' # NoRun
    <2>1. ASSUME NEW r \in Runs, ClickRun(r) PROVE page' = "run" /\ mine' # NoRun
      BY <2>1, WizardAssumption DEF ClickRun
    <2>2. QED
      BY <1>1, <2>1, MineMoves DEF MineInv, reset
  <1>3. RunHash' # NoRun => status'[RunHash'] # "Absent"
    <2>1. CASE RunHash' = RunHash
      BY <1>1, <2>1 DEF MineInv, WizardTypeOK, GateMoves
    <2>2. ASSUME NEW c \in Slots, RunCall(c), calls[c].stage = "ok", RunHash' = calls[c].run
          PROVE  status'[RunHash'] # "Absent"
      <3>1. status[calls[c].run] # "Absent" /\ calls[c].run \in Runs
        BY <1>1, <2>2, CallShape DEF CallInv, Free
      <3>2. QED
        BY <1>1, <2>2, <3>1 DEF GateMoves
    <2>3. QED
      BY <2>1, <2>2, HashMoves
  <1>4. mine' # NoRun => Status' # "None" /\ StepStatus' # NoSteps
    BY <1>1, RecordStays DEF MineInv
  <1>5. mine' # NoRun /\ status'[mine'] # "Absent" /\ RunHash' \notin {NoRun, mine'} => ~Gated(RunHash)'
    BY OtherHash
  <1>6. ASSUME mine' # NoRun, "foreign" \notin blur', Paused' # NoPause PROVE Paused'.run = mine'
    <2>1. ASSUME NEW r \in Runs, ClickRun(r) PROVE FALSE
      BY <1>6, <2>1 DEF ClickRun
    <2>2. mine' = mine /\ blur \subseteq blur'
      BY <1>6, <2>1, MineMoves, BlurMoves DEF reset
    <2>3. Paused # NoPause => Paused.run = mine
      BY <1>1, <1>6, <2>2 DEF MineInv
    <2>4. CASE onFrame
      <3>1. /\ Paused' = FoldPaused(Head(wire))
            /\ Head(wire).run = mine
        BY <1>6, <2>4 DEF onFrame
      <3>2. QED
        BY <1>6, <2>2, <2>3, <3>1 DEF FoldPaused
    <2>5. QED
      BY <1>1, <1>6, <2>2, <2>3, <2>4, ScreenMoves
  <1>7. QED
    BY <1>2, <1>3, <1>4, <1>5, <1>6, MineCalls DEF MineInv, IsGateCall, Gated

-----------------------------------------------------------------------------
(* What the record on the screen comes to say. *)

\* A step that is not for the wizard's run.
Elsewhere ==
    /\ wire' = wire \/ \E f \in Frames : Sent(f) /\ f.run # mine
    /\ status'[mine] = status[mine] /\ step'[mine] = step[mine]
    /\ pending'[mine] = pending[mine] /\ cancel'[mine] = cancel[mine]

Serves(c) == calls[c].run = mine /\ (Admits(c) \/ Accepts(c) \/ Cancels(c) \/ Retries(c))

LEMMA OthersElsewhere ==
    ASSUME WizardTypeOK, mine # NoRun, NEW r \in Runs, r # mine, StepOf(r),
           UNCHANGED wire \/ \E f : NewFrame(r, f)
    PROVE  Elsewhere
  <1>1. mine \in Runs \ {r} /\ TypeOK
    BY DEF WizardTypeOK
  <1>2. Untouched(mine)
    BY <1>1, OthersUntouched
  <1>3. wire' = wire \/ \E f \in Frames : Sent(f) /\ f.run # mine
    BY DEF NewFrame
  <1>4. status'[mine] = status[mine] /\ step'[mine] = step[mine]
    /\ pending'[mine] = pending[mine] /\ cancel'[mine] = cancel[mine]
    BY <1>2 DEF Untouched
  <1>5. QED
    BY <1>3, <1>4 DEF Elsewhere

LEMMA MineCases ==
    ASSUME Wizards, [WizardNext]_wizardVars, mine # NoRun
    PROVE  \/ EngineSays(mine) /\ Browsers /\ status[mine] # "Absent"
           \/ \E c \in Slots : Handle(c) /\ Serves(c)
           \/ Elsewhere /\ Browsers
           \/ Elsewhere /\ \E c \in Slots : Handle(c) /\ (calls[c].run = mine => Leaves(c))
           \/ onFrame
           \/ \E c \in Slots : Answered(c)
           \/ Buttons
           \/ Disconnect \/ ManagerDies
  <1>1. Base /\ TypeOK /\ TypeOK' /\ WizardTypeOK
    BY Moves DEF Wizards
  <1>2. ASSUME NEW r \in Runs, EngineStep(r)
        PROVE  \/ EngineSays(mine) /\ Browsers /\ status[mine] # "Absent"
               \/ Elsewhere /\ Browsers
    <2>1. StepOf(r) /\ EngineSays(r) /\ Browsers /\ status[r] # "Absent"
      BY <1>1, <1>2, EngineStepSays
    <2>2. UNCHANGED wire \/ \E f : NewFrame(r, f)
      BY <1>1, <2>1, FramesAre
    <2>3. CASE r = mine
      BY <2>1, <2>3
    <2>4. CASE r # mine
      BY <1>1, <2>1, <2>2, <2>4, OthersElsewhere
    <2>5. QED
      BY <2>3, <2>4
  <1>3. ASSUME NEW c \in Slots, Handle(c)
        PROVE  Serves(c) \/ (Elsewhere /\ (calls[c].run = mine => Leaves(c)))
    <2>1. /\ Admits(c) \/ Accepts(c) \/ Cancels(c) \/ Retries(c) \/ Leaves(c)
          /\ calls[c].run \in Runs
      BY <1>1, <1>3, HandleCases
    <2>2. CASE Leaves(c)
      <3>1. Elsewhere
        BY <2>2 DEF Leaves, Elsewhere, engine, vars
      <3>2. QED
        BY <2>2, <3>1
    <2>3. CASE calls[c].run = mine
      BY <2>1, <2>2, <2>3 DEF Serves
    <2>4. CASE calls[c].run # mine /\ ~Leaves(c)
      <3>1. UNCHANGED wire \/ \E f : NewFrame(calls[c].run, f)
        BY <1>1, <2>1, <2>4, RetrySays, FramesAre DEF Admits, Accepts, Cancels, Silent
      <3>2. StepOf(calls[c].run) \/ UNCHANGED vars
        BY <1>1, <1>3, HandleIs
      <3>3. CASE StepOf(calls[c].run)
        BY <1>1, <2>1, <2>4, <3>1, <3>3, OthersElsewhere
      <3>4. CASE UNCHANGED vars
        <4>1. /\ status'[mine] = status[mine] /\ step'[mine] = step[mine]
              /\ pending'[mine] = pending[mine] /\ cancel'[mine] = cancel[mine]
          BY <3>4 DEF vars
        <4>2. wire' = wire \/ \E f \in Frames : Sent(f) /\ f.run # mine
          BY <2>4, <3>1 DEF NewFrame
        <4>3. QED
          BY <2>4, <4>1, <4>2 DEF Elsewhere
      <3>5. QED
        BY <3>2, <3>3, <3>4
    <2>5. QED
      BY <2>2, <2>3, <2>4
  <1>4. UNCHANGED wizardVars => Elsewhere /\ Browsers
    BY DEF wizardVars, Elsewhere, Browsers, engine, vars
  <1>5. QED
    BY <1>2, <1>3, <1>4, WizardCases

\* Frames that do not tell change nothing of what is told.
LEMMA SaySame ==
    ASSUME WizardTypeOK, NEW frames, NEW says,
           wire' = wire \/ \E f \in Frames : Sent(f) /\ f \notin frames
    PROVE  /\ Tells(frames, wire') = Tells(frames, wire)
           /\ SaysLast(frames, wire', says) <=> SaysLast(frames, wire, says)
  <1>1. wire \in Seq(Frames)
    BY DEF WizardTypeOK
  <1>2. CASE wire' = wire
    BY <1>2
  <1>3. ASSUME NEW f \in Frames, Sent(f), f \notin frames
        PROVE  /\ Tells(frames, wire') = Tells(frames, wire)
               /\ SaysLast(frames, wire', says) <=> SaysLast(frames, wire, says)
    <2>1. wire' = Append(wire, f)
      BY <1>3 DEF Sent
    <2>2. QED
      BY <1>1, <1>3, <2>1, SayAppend
  <1>4. QED
    BY <1>2, <1>3

\* A frame that tells is what is told from now on.
LEMMA SayNew ==
    ASSUME WizardTypeOK, NEW frames, NEW says, NEW f \in Frames, Sent(f), f \in frames
    PROVE  Tells(frames, wire') # {} /\ (SaysLast(frames, wire', says) <=> f \in says)
  <1>1. wire \in Seq(Frames) /\ wire' = Append(wire, f)
    BY DEF WizardTypeOK, Sent
  <1>2. QED
    BY <1>1, SayAppend

\* The same of what will be said, where now stands for what is said already.
LEMMA WillStay ==
    ASSUME WizardTypeOK, NEW frames, NEW says, NEW now \in BOOLEAN,
           wire' = wire \/ \E f \in Frames : Sent(f) /\ f \notin frames
    PROVE  WillSay(frames, says, now)' <=> WillSay(frames, says, now)
  BY SaySame DEF WillSay

LEMMA WillChange ==
    ASSUME WizardTypeOK, NEW frames, NEW says, NEW now \in BOOLEAN, NEW f \in Frames, Sent(f), f \in frames
    PROVE  WillSay(frames, says, now)' <=> f \in says
  BY SayNew DEF WillSay

\* A frame that is handled makes the record say what it told.
LEMMA WillCome ==
    ASSUME WizardTypeOK, wire # <<>>, wire' = Tail(wire), NEW frames, NEW says,
           NEW before \in BOOLEAN, NEW now \in BOOLEAN,
           Head(wire) \notin frames => (now <=> before),
           Head(wire) \in frames => (now <=> Head(wire) \in says)
    PROVE  WillSay(frames, says, now)' <=> WillSay(frames, says, before)
  <1>1. wire \in Seq(Frames)
    BY DEF WizardTypeOK
  <1>2. /\ Head(wire) \notin frames =>
                (Tells(frames, wire') = {} <=> Tells(frames, wire) = {})
        /\ Head(wire) \in frames => Tells(frames, wire) # {}
        /\ Head(wire) \in frames /\ Tells(frames, wire') = {} =>
                (SaysLast(frames, wire, says) <=> Head(wire) \in says)
        /\ Tells(frames, wire') # {} =>
                (SaysLast(frames, wire', says) <=> SaysLast(frames, wire, says))
    BY <1>1, SayTail
  <1>3. QED
    BY <1>2 DEF WillSay

\* The frames the engine makes.
LEMMA FrameFields ==
    ASSUME NEW r \in Runs
    PROVE  /\ RunStart(r) \in Frames /\ RunStart(r).run = r /\ RunStart(r).Type = "run-start"
           /\ RunStart(r).value = "Running"
           /\ \A v \in RunStates : LET f == Frame("run-end", r, 0, v)
                                   IN  f \in Frames /\ f.run = r /\ f.Type = "run-end" /\ f.value = v
           /\ \A type \in {"step-start", "step-end"}, s \in Steps, v \in StepStates :
                 LET f == Frame(type, r, s, v)
                 IN  f \in Frames /\ f.run = r /\ f.Type = type /\ f.step = s /\ f.value = v
           /\ \A g \in Gate : LET f == PausedAt(r, g)
                              IN  /\ f \in Frames /\ f.run = r /\ f.Type = "paused"
                                  /\ f.gate = g /\ f.value = "Waiting"
  <1>1. RunStart(r) \in OfRuns /\ RunStart(r).run = r /\ RunStart(r).Type = "run-start" /\ RunStart(r).value = "Running"
    BY DEF RunStart, Frame, OfRuns, RunStates
  <1>2. ASSUME NEW v \in RunStates, NEW f, f = Frame("run-end", r, 0, v)
        PROVE  f \in OfRuns /\ f.run = r /\ f.Type = "run-end" /\ f.value = v
    BY <1>2 DEF Frame, OfRuns
  <1>3. ASSUME NEW type \in {"step-start", "step-end"}, NEW s \in Steps, NEW v \in StepStates,
               NEW f, f = Frame(type, r, s, v)
        PROVE  f \in OfSteps /\ f.run = r /\ f.Type = type /\ f.step = s /\ f.value = v
    BY <1>3 DEF Frame, OfSteps
  <1>4. ASSUME NEW g \in Gate, NEW f, f = PausedAt(r, g)
        PROVE  f \in OfGates /\ f.run = r /\ f.Type = "paused" /\ f.gate = g /\ f.value = "Waiting"
    BY <1>4 DEF PausedAt, Frame, OfGates, Gate
  <1>5. QED
    BY <1>1, <1>2, <1>3, <1>4 DEF Frames

\* A step after which the record is still of its own run is the click that makes
\* it, or one of these.
LEMMA OwnCases ==
    ASSUME Wizards, [WizardNext]_wizardVars, NEW reasons, "lost" \in reasons, "foreign" \in reasons,
           Own(reasons)', ~\E r \in Runs : ClickRun(r)
    PROVE  /\ Own(reasons) /\ mine' = mine /\ mine \in Runs /\ mine # NoRun /\ "foreign" \notin blur
           /\ \/ EngineSays(mine) /\ Browsers /\ status[mine] # "Absent"
              \/ \E c \in Slots : Handle(c) /\ Serves(c)
              \/ Elsewhere /\ Browsers
              \/ Elsewhere /\ \E c \in Slots : Handle(c) /\ (calls[c].run = mine => Leaves(c))
              \/ onFrame /\ Head(wire).run = mine
              \/ \E c \in Slots : Answered(c)
              \/ ClickCancel \/ ClickRetry \/ \E kind \in GateKinds : ClickGate(kind)
  <1>1. mine' # NoRun /\ blur' \cap reasons = {} /\ blur \subseteq blur'
    BY BlurMoves DEF Own
  <1>2. ~reset
    BY <1>1 DEF reset
  <1>3. mine' = mine
    BY <1>2, MineMoves
  <1>4. /\ Own(reasons) /\ mine \in Runs /\ mine # NoRun
        /\ "foreign" \notin blur /\ "foreign" \notin blur' /\ "lost" \notin blur'
    BY <1>1, <1>3 DEF Own, Wizards, Base, WizardTypeOK
  <1>5. ~Disconnect /\ ~ManagerDies
    BY <1>4 DEF Disconnect, ManagerDies, Lose
  <1>6. onFrame => Head(wire).run = mine
    BY <1>4 DEF onFrame
  <1>7. Buttons => ClickCancel \/ ClickRetry \/ \E kind \in GateKinds : ClickGate(kind)
    BY <1>2 DEF Buttons, GateKinds
  <1>8. QED
    BY <1>3, <1>4, <1>5, <1>6, <1>7, MineCases

LEMMA EngineRests ==
    ASSUME \/ \E c \in Slots : Answered(c)
           \/ ClickCancel \/ ClickRetry \/ \E kind \in GateKinds : ClickGate(kind)
    PROVE  /\ UNCHANGED <<engine, wire>> /\ StepStatus' = StepStatus
           /\ UNCHANGED <<status, step, pending, cancel, shown>>
  <1>1. ASSUME NEW c \in Slots, Answered(c) PROVE engine' = engine /\ wire' = wire /\ StepStatus' = StepStatus
    BY <1>1 DEF Answered, AnsweredRun, AnsweredGate, AnsweredCancel, bulkRun
  <1>2. engine' = engine /\ wire' = wire /\ StepStatus' = StepStatus
    BY <1>1 DEF ClickCancel, ClickRetry, ClickGate, screen, bulkRun
  <1>3. QED
    BY <1>2 DEF engine, vars

\* What the calls that are served do to the wizard's run.
LEMMA ServesIs ==
    ASSUME Wizards, [WizardNext]_wizardVars, mine \in Runs, NEW c \in Slots, Handle(c), Serves(c)
    PROVE  /\ UNCHANGED <<screen, RunHash, mine, clicked, blur>> /\ UNCHANGED <<Status, StepStatus, Paused>>
           /\ \A s \in Steps : step'[mine][s] \in {step[mine][s], "Pending"}
           /\ ~SaysAgain(mine) => UNCHANGED wire
           /\ \/ Admits(c) /\ status[mine] = "Absent" /\ status'[mine] = "Queued" /\ pending'[mine] = pending[mine]
              \/ /\ Accepts(c) /\ ~isTerminal(status[mine]) /\ status'[mine] = "Running"
                 /\ pending[mine] # NoGate /\ pending[mine] = calls[c].gate.gate /\ pending'[mine] = NoGate
              \/ /\ Cancels(c) /\ status'[mine] = status[mine] /\ cancel'[mine] = TRUE /\ pending'[mine] = NoGate
                 /\ isTerminal(status[mine]) => pending[mine] = NoGate
              \/ Retries(c) /\ SaysAgain(mine)
  <1>1. Base /\ TypeOK /\ TypeOK' /\ RunInv(mine) /\ calls[c].run = mine
    BY Moves DEF Wizards, Base, EngineInv, Serves
  <1>2. UNCHANGED <<screen, RunHash, mine, clicked, blur>> /\ UNCHANGED <<Status, StepStatus, Paused>>
    BY DEF Handle, screen, bulkRun
  <1>3. pending[mine] # NoGate => ~isTerminal(status[mine])
    BY <1>1, PendingIs DEF isTerminal
  <1>4. CASE Admits(c)
    BY <1>1, <1>2, <1>4 DEF Admits, Run, Silent, TypeOK
  <1>5. CASE Accepts(c)
    <2>1. /\ pending[mine] # NoGate /\ pending[mine] = calls[c].gate.gate
          /\ pending' = [pending EXCEPT ![mine] = NoGate]
          /\ status' = [status EXCEPT ![mine] = "Running"] /\ step' = step
      BY <1>1, <1>5 DEF Accepts, Confirm, ConfirmSkip, Matches
    <2>2. QED
      BY <1>1, <1>2, <1>3, <1>5, <2>1 DEF Accepts, Silent, TypeOK
  <1>6. CASE Cancels(c)
    <2>1. Cancel(mine) /\ wire' = wire
      BY <1>1, <1>6 DEF Cancels, Silent
    <2>2. /\ status' = status /\ step' = step /\ cancel'[mine] = TRUE
          /\ pending'[mine] = NoGate
      BY <1>1, <2>1 DEF Cancel, ReleaseGate, record, TypeOK
    <2>3. QED
      BY <1>2, <1>3, <1>6, <2>1, <2>2
  <1>7. CASE Retries(c)
    <2>1. SaysAgain(mine)
      BY <1>1, <1>7, RetrySays
    <2>2. QED
      BY <1>2, <1>7, <2>1 DEF SaysAgain
  <1>8. QED
    BY <1>4, <1>5, <1>6, <1>7 DEF Serves

-----------------------------------------------------------------------------
(* The steps on the screen. *)

LEMMA StepsToldStep ==
    ASSUME Wizards, StepsToldInv, [WizardNext]_wizardVars
    PROVE  StepsToldInv'
  <1>1. SUFFICES ASSUME Own({"lost", "foreign"})', NEW s \in Steps, step'[mine'][s] # "Pending"
                 PROVE  StepWillBe(s, step[mine][s])'
    BY DEF StepsToldInv
  <1>2. WizardTypeOK /\ TypeOK' /\ \A r \in Runs : RunInv(r)
    BY Moves DEF Wizards, Base, EngineInv
  <1>3. ASSUME NEW r \in Runs, ClickRun(r) PROVE FALSE
    <2>1. status[r] = "Absent" /\ mine' = r /\ step' = step
      BY <1>3 DEF ClickRun, engine, vars
    <2>2. step[r][s] = "Pending"
      BY <1>2, <2>1 DEF RunInv, ContextInv
    <2>3. QED
      BY <1>1, <2>1, <2>2
  <1>4. /\ Own({"lost", "foreign"}) /\ mine' = mine /\ mine \in Runs /\ mine # NoRun
        /\ \/ EngineSays(mine) /\ Browsers
           \/ \E c \in Slots : Handle(c) /\ Serves(c)
           \/ Elsewhere /\ Browsers
           \/ Elsewhere /\ \E c \in Slots : Handle(c)
           \/ onFrame
           \/ \E c \in Slots : Answered(c)
           \/ ClickCancel \/ ClickRetry \/ \E kind \in GateKinds : ClickGate(kind)
    BY <1>1, <1>3, OwnCases
  <1>5. PICK v : v = step'[mine][s]
    OBVIOUS
  <1>6. v # "Pending" /\ v \in StepStates
    BY <1>1, <1>2, <1>4, <1>5 DEF TypeOK
  <1>7. PICK frames, says : /\ frames = StepFrames(s) /\ says = {f \in Frames : f.value = v}
    OBVIOUS
  <1>8. PICK before \in BOOLEAN, now \in BOOLEAN : /\ before <=> StepStatus[s] = v
                                                   /\ now <=> StepStatus'[s] = v
    OBVIOUS
  <1>9. frames' = frames /\ \A f \in Frames : /\ f \in frames <=> f.run = mine /\ f.step = s
                                                                  /\ f.Type \in {"step-start", "step-end"}
                                              /\ f \in says <=> f.value = v
    BY <1>7 DEF StepFrames
  <1>10. frames = {f \in Frames : f.run = mine' /\ f.step = s /\ f.Type \in {"step-start", "step-end"}}
    BY <1>4, <1>7 DEF StepFrames
  <1>11. SUFFICES WillSay(frames, says, now)'
    BY <1>4, <1>5, <1>7, <1>8, <1>10 DEF StepWillBe, StepFrames, WillSay
  <1>12. step[mine][s] = v => WillSay(frames, says, before)
    BY <1>1, <1>4, <1>6, <1>7, <1>8 DEF StepsToldInv, StepWillBe, WillSay
  <1>13. ASSUME step[mine][s] = v, StepStatus' = StepStatus,
                wire' = wire \/ \E f \in Frames : Sent(f) /\ f \notin frames
         PROVE  WillSay(frames, says, now)'
    <2>1. now <=> before
      BY <1>8, <1>13
    <2>2. QED
      BY <1>2, <1>12, <1>13, <2>1, WillStay
  <1>14. CASE EngineSays(mine) /\ Browsers
    <2>1. StepStatus' = StepStatus
      BY <1>14 DEF Browsers, screen, bulkRun
    <2>2. CASE SaysStart(mine)
      <3>1. RunStart(mine) \in Frames /\ RunStart(mine) \notin frames
        BY <1>4, <1>9, FrameFields
      <3>2. QED
        BY <1>5, <1>13, <2>1, <2>2, <3>1 DEF SaysStart
    <2>3. CASE SaysEnd(mine)
      <3>1. PICK f : f = Frame("run-end", mine, 0, status'[mine])
        OBVIOUS
      <3>2. status'[mine] \in RunStates
        BY <2>3 DEF SaysEnd, isTerminal, RunStates
      <3>3. f \in Frames /\ f \notin frames /\ Sent(f)
        BY <1>4, <1>9, <2>3, <3>1, <3>2, FrameFields DEF SaysEnd
      <3>4. QED
        BY <1>5, <1>13, <2>1, <2>3, <3>3 DEF SaysEnd
    <2>4. CASE SaysStep(mine)
      <3>1. PICK t \in Steps, type \in {"step-start", "step-end"} :
              /\ Sent(Frame(type, mine, t, step'[mine][t]))
              /\ \A u \in Steps \ {t} : step'[mine][u] = step[mine][u]
        BY <2>4 DEF SaysStep
      <3>2. PICK f : f = Frame(type, mine, t, step'[mine][t])
        OBVIOUS
      <3>3. /\ f \in Frames /\ f.run = mine /\ f.Type = type /\ f.step = t /\ f.value = step'[mine][t]
            /\ Sent(f)
        BY <1>2, <1>4, <3>1, <3>2, FrameFields DEF TypeOK
      <3>4. CASE t = s
        <4>1. f \in frames /\ f \in says
          BY <1>5, <1>9, <3>3, <3>4
        <4>2. QED
          BY <1>2, <3>3, <4>1, WillChange
      <3>5. CASE t # s
        BY <1>5, <1>9, <1>13, <2>1, <3>1, <3>3, <3>5
      <3>6. QED
        BY <3>4, <3>5
    <2>5. CASE SaysPaused(mine)
      <3>1. PICK f : f = PausedAt(mine, pending'[mine])
        OBVIOUS
      <3>2. f \in Frames /\ f \notin frames /\ Sent(f)
        BY <1>4, <1>9, <2>5, <3>1, FrameFields DEF SaysPaused
      <3>3. QED
        BY <1>5, <1>13, <2>1, <2>5, <3>2 DEF SaysPaused
    <2>6. CASE SaysNothing(mine)
      BY <1>5, <1>13, <2>1, <2>6 DEF SaysNothing
    <2>7. QED
      BY <1>14, <2>2, <2>3, <2>4, <2>5, <2>6 DEF EngineSays
  <1>15. ASSUME NEW c \in Slots, Handle(c), Serves(c) PROVE WillSay(frames, says, now)'
    <2>1. /\ StepStatus' = StepStatus /\ step'[mine][s] \in {step[mine][s], "Pending"}
          /\ SaysAgain(mine) \/ UNCHANGED wire
      BY <1>4, <1>15, ServesIs
    <2>2. RunStart(mine) \in Frames /\ RunStart(mine) \notin frames
      BY <1>4, <1>9, FrameFields
    <2>3. step[mine][s] = v
      BY <1>5, <1>6, <2>1
    <2>4. QED
      BY <1>13, <2>1, <2>2, <2>3 DEF SaysAgain
  <1>16. CASE Elsewhere /\ StepStatus' = StepStatus
    BY <1>5, <1>9, <1>13, <1>16 DEF Elsewhere
  <1>17. CASE Elsewhere /\ (Browsers \/ \E c \in Slots : Handle(c))
    BY <1>16, <1>17 DEF Browsers, Handle, screen, bulkRun
  <1>18. CASE \/ \E c \in Slots : Answered(c)
              \/ ClickCancel \/ ClickRetry \/ \E kind \in GateKinds : ClickGate(kind)
    BY <1>5, <1>13, <1>18, EngineRests
  <1>19. CASE onFrame
    <2>1. PICK f : f = Head(wire)
      OBVIOUS
    <2>2. f \in Frames /\ wire # <<>> /\ wire' = Tail(wire)
      BY <1>2, <1>19, <2>1, TailPlaces DEF onFrame, WizardTypeOK
    <2>3. /\ f.Type \in {"step-start", "step-end"} => f.step \in Steps
          /\ StepStatus \in [Steps -> StepStates] /\ HasSteps
          /\ StepStatus' = IF f.Type \in {"step-start", "step-end"} /\ HasSteps THEN FoldStep(f) ELSE StepStatus
      BY <1>2, <1>4, <1>19, <2>1, <2>2, FrameShape DEF onFrame, Wizards, MineInv, WizardTypeOK, HasSteps
    <2>4. f.run = mine
      BY <1>1, <1>19, <2>1 DEF onFrame, Own
    <2>5. f \in frames => StepStatus'[s] = f.value
      BY <1>9, <2>2, <2>3 DEF FoldStep
    <2>6. f \notin frames => StepStatus'[s] = StepStatus[s]
      BY <1>9, <2>2, <2>3, <2>4 DEF FoldStep
    <2>7. /\ f \in frames => (now <=> f \in says)
          /\ f \notin frames => (now <=> before)
      BY <1>8, <1>9, <2>2, <2>5, <2>6
    <2>8. step[mine][s] = v
      BY <1>5, <1>19 DEF onFrame, engine, vars
    <2>9. QED
      BY <1>2, <1>12, <2>1, <2>2, <2>7, <2>8, WillCome
  <1>20. QED
    BY <1>4, <1>14, <1>15, <1>17, <1>18, <1>19

\* No step is set to "Skipped", by the engine or from disk.
LEMMA NoStepSkippedStep ==
    ASSUME TypeOK, NoStepSkipped, [Next]_vars
    PROVE  NoStepSkipped'
  <1>1. ASSUME NEW r \in Runs, NEW q \in Runs, NEW s \in Steps, StepOf(r)
        PROVE  step'[q][s] # "Skipped"
    <2>1. CASE q # r
      BY <1>1, <2>1, OthersUntouched DEF Untouched, NoStepSkipped
    <2>2. ASSUME NEW w \in Pool, FailAction(q, w) PROVE step'[q][s] # "Skipped"
      BY <2>2 DEF FailAction, TypeOK, NoStepSkipped
    <2>3. ASSUME NEW w \in Pool, q = r, WorkerTurn(q, w) PROVE step'[q][s] # "Skipped"
      <3>1. CASE TakeStep(q, w)
        BY <3>1 DEF TakeStep, TypeOK, NoStepSkipped
      <3>2. CASE LeaveLoop(q, w) \/ NextAction(q, w)
        BY <3>2 DEF LeaveLoop, NextAction, record, NoStepSkipped
      <3>3. CASE UnknownOp(q, w)
        BY <2>2, <3>3 DEF UnknownOp
      <3>4. CASE EndStep(q, w)
        BY <3>4 DEF EndStep, TypeOK, NoStepSkipped
      <3>5. QED
        BY <2>3, <3>1, <3>2, <3>3, <3>4 DEF WorkerTurn
    <2>4. ASSUME NEW w \in Pool, q = r, Answer(q, w) PROVE step'[q][s] # "Skipped"
      BY <2>2, <2>4 DEF Answer, OpenGate, PassGate, RefuseGate, TaskReturns, TaskThrows, record, NoStepSkipped
    <2>5. CASE q = r /\ Retry(q)
      BY <2>5 DEF Retry, ResetSteps, TypeOK, NoStepSkipped
    <2>6. CASE q = r /\ (Execute(q) \/ Finalize(q) \/ Cancel(q))
      BY <2>6 DEF Execute, Finalize, Cancel, ReleaseGate, record, NoStepSkipped
    <2>7. CASE q = r /\ ((\E b \in BOOLEAN : Run(q, b)) \/ \E g \in Gate : Confirm(q, g) \/ ConfirmSkip(q, g))
      BY <2>7 DEF Run, Confirm, ConfirmSkip, NoStepSkipped
    <2>8. QED
      BY <1>1, <2>1, <2>3, <2>4, <2>5, <2>6, <2>7 DEF StepOf
  <1>2. ASSUME NEW r \in Runs, StepOf(r), NEW q \in Runs
        PROVE  disk'[q].step \in {disk[q].step, step'[q]}
    <2>1. \/ disk' = disk
          \/ checkpoint(r)
      BY <1>2 DEF StepOf, WorkerTurn, Answer, Execute, Finalize, TakeStep, LeaveLoop, NextAction, UnknownOp,
                  EndStep, OpenGate, PassGate, RefuseGate, TaskReturns, TaskThrows, FailAction, Run, Confirm,
                  ConfirmSkip, Cancel, ReleaseGate, Retry
    <2>2. CASE checkpoint(r)
      BY <2>2 DEF checkpoint, TypeOK
    <2>3. QED
      BY <2>1, <2>2
  <1>3. ASSUME NEW r \in Runs, StepOf(r) PROVE NoStepSkipped'
    BY <1>1, <1>2, <1>3 DEF NoStepSkipped
  <1>4. CASE Crash
    BY <1>4 DEF Crash, NoStepSkipped
  <1>5. CASE UNCHANGED vars
    BY <1>5 DEF vars, NoStepSkipped
  <1>6. QED
    BY <1>3, <1>4, <1>5 DEF Next, StepOf, Operator

\* AutoConfirm of a run that was created stays on while the manager lives.
LEMMA AutoStays ==
    ASSUME TypeOK, NEW r \in Runs, NEW q \in Runs, StepOf(r), status[q] # "Absent", auto[q]
    PROVE  auto'[q]
  <1>1. CASE q # r
    BY <1>1, OthersRecord
  <1>2. ASSUME NEW w \in Pool, FailAction(q, w) PROVE auto'[q]
    BY <1>2 DEF FailAction, context
  <1>3. ASSUME NEW w \in Pool, WorkerTurn(q, w) PROVE auto'[q]
    BY <1>2, <1>3 DEF WorkerTurn, TakeStep, LeaveLoop, NextAction, UnknownOp, EndStep, context
  <1>4. ASSUME NEW w \in Pool, Answer(q, w) PROVE auto'[q]
    BY <1>2, <1>4 DEF Answer, OpenGate, PassGate, RefuseGate, TaskReturns, TaskThrows, context
  <1>5. CASE Retry(q)
    BY <1>5 DEF Retry, TypeOK
  <1>6. CASE Execute(q) \/ Finalize(q) \/ Cancel(q)
    BY <1>6 DEF Execute, Finalize, Cancel, context
  <1>7. CASE \E g \in Gate : Confirm(q, g) \/ ConfirmSkip(q, g)
    BY <1>7 DEF Confirm, ConfirmSkip, context
  <1>8. ~\E b \in BOOLEAN : Run(q, b)
    BY DEF Run
  <1>9. QED
    BY <1>1, <1>3, <1>4, <1>5, <1>6, <1>7, <1>8 DEF StepOf

LEMMA AutoOfMine ==
    ASSUME Wizards, [WizardNext]_wizardVars, mine \in Runs, status[mine] # "Absent", auto[mine],
           ~Disconnect, ~ManagerDies
    PROVE  auto'[mine]
  <1>1. TypeOK /\ WizardTypeOK /\ Base /\ TypeOK'
    BY Moves DEF Wizards
  <1>2. ASSUME NEW r \in Runs, EngineStep(r) PROVE auto'[mine]
    BY <1>1, <1>2, EngineStepSays, AutoStays
  <1>3. ASSUME NEW c \in Slots, Handle(c) PROVE auto'[mine]
    <2>1. calls[c].run \in Runs
      BY <1>1, <1>3, HandleCases
    <2>2. StepOf(calls[c].run) \/ UNCHANGED vars
      BY <1>1, <1>3, HandleIs
    <2>3. QED
      BY <1>1, <2>1, <2>2, AutoStays DEF vars
  <1>4. CASE onFrame \/ (\E c \in Slots : Answered(c)) \/ Buttons \/ UNCHANGED wizardVars
    BY <1>4 DEF onFrame, Answered, Buttons, ClickRun, ClickGate, ClickCancel, ClickRetry, reset,
                wizardVars, engine, vars
  <1>5. QED
    BY <1>2, <1>3, <1>4, WizardCases

\* What is told of a step stays told, unless a frame says it is to be done.
LEMMA StepStaysTold ==
    ASSUME Wizards, [WizardNext]_wizardVars, Own({"lost", "foreign"})', ~\E r \in Runs : ClickRun(r),
           NEW s \in Steps, step'[mine][s] = "Pending", NEW v \in StepStates, StepWillBe(s, v)
    PROVE  StepWillBe(s, v)' \/ StepWillBe(s, "Pending")'
  <1>1. WizardTypeOK /\ TypeOK'
    BY Moves DEF Wizards
  <1>2. /\ Own({"lost", "foreign"}) /\ mine' = mine /\ mine \in Runs /\ mine # NoRun
        /\ \/ EngineSays(mine) /\ Browsers
           \/ \E c \in Slots : Handle(c) /\ Serves(c)
           \/ Elsewhere /\ Browsers
           \/ Elsewhere /\ \E c \in Slots : Handle(c)
           \/ onFrame
           \/ \E c \in Slots : Answered(c)
           \/ ClickCancel \/ ClickRetry \/ \E kind \in GateKinds : ClickGate(kind)
    BY OwnCases
  <1>3. PICK frames, says, todo :
          frames = StepFrames(s) /\ says = {f \in Frames : f.value = v} /\ todo = {f \in Frames : f.value = "Pending"}
    OBVIOUS
  <1>4. PICK before \in BOOLEAN, now \in BOOLEAN, was \in BOOLEAN, is \in BOOLEAN :
          /\ before <=> StepStatus[s] = v
          /\ now <=> StepStatus'[s] = v
          /\ was <=> StepStatus[s] = "Pending"
          /\ is <=> StepStatus'[s] = "Pending"
    OBVIOUS
  <1>5. \A f \in Frames : /\ f \in frames <=> f.run = mine /\ f.step = s /\ f.Type \in {"step-start", "step-end"}
                          /\ f \in says <=> f.value = v
                          /\ f \in todo <=> f.value = "Pending"
    BY <1>3 DEF StepFrames
  <1>6. frames = {f \in Frames : f.run = mine' /\ f.step = s /\ f.Type \in {"step-start", "step-end"}}
    BY <1>2, <1>3 DEF StepFrames
  <1>7. SUFFICES WillSay(frames, says, now)' \/ WillSay(frames, todo, is)'
    BY <1>2, <1>3, <1>4, <1>6 DEF StepWillBe, StepFrames, WillSay
  <1>8. WillSay(frames, says, before)
    BY <1>3, <1>4 DEF StepWillBe, WillSay
  <1>9. ASSUME StepStatus' = StepStatus, wire' = wire \/ \E f \in Frames : Sent(f) /\ f \notin frames
        PROVE  WillSay(frames, says, now)'
    <2>1. now <=> before
      BY <1>4, <1>9
    <2>2. QED
      BY <1>1, <1>8, <1>9, <2>1, WillStay
  <1>10. CASE EngineSays(mine) /\ Browsers
    <2>1. StepStatus' = StepStatus
      BY <1>10 DEF Browsers, screen, bulkRun
    <2>2. CASE SaysStart(mine)
      <3>1. RunStart(mine) \in Frames /\ RunStart(mine) \notin frames
        BY <1>2, <1>5, FrameFields
      <3>2. QED
        BY <1>9, <2>1, <2>2, <3>1 DEF SaysStart
    <2>3. CASE SaysEnd(mine)
      <3>1. PICK f : f = Frame("run-end", mine, 0, status'[mine])
        OBVIOUS
      <3>2. status'[mine] \in RunStates
        BY <2>3 DEF SaysEnd, isTerminal, RunStates
      <3>3. f \in Frames /\ f \notin frames /\ Sent(f)
        BY <1>2, <1>5, <2>3, <3>1, <3>2, FrameFields DEF SaysEnd
      <3>4. QED
        BY <1>9, <2>1, <3>3
    <2>4. CASE SaysStep(mine)
      <3>1. PICK t \in Steps, type \in {"step-start", "step-end"} :
              Sent(Frame(type, mine, t, step'[mine][t]))
        BY <2>4 DEF SaysStep
      <3>2. PICK f : f = Frame(type, mine, t, step'[mine][t])
        OBVIOUS
      <3>3. /\ f \in Frames /\ f.run = mine /\ f.Type = type /\ f.step = t /\ f.value = step'[mine][t]
            /\ Sent(f)
        BY <1>1, <1>2, <3>1, <3>2, FrameFields DEF TypeOK
      <3>4. CASE t = s
        <4>1. f \in frames /\ f \in todo
          BY <1>5, <3>3, <3>4
        <4>2. QED
          BY <1>1, <3>3, <4>1, WillChange
      <3>5. CASE t # s
        BY <1>5, <1>9, <2>1, <3>3, <3>5
      <3>6. QED
        BY <3>4, <3>5
    <2>5. CASE SaysPaused(mine)
      <3>1. PICK f : f = PausedAt(mine, pending'[mine])
        OBVIOUS
      <3>2. f \in Frames /\ f \notin frames /\ Sent(f)
        BY <1>2, <1>5, <2>5, <3>1, FrameFields DEF SaysPaused
      <3>3. QED
        BY <1>9, <2>1, <3>2
    <2>6. CASE SaysNothing(mine)
      BY <1>9, <2>1, <2>6 DEF SaysNothing
    <2>7. QED
      BY <1>10, <2>2, <2>3, <2>4, <2>5, <2>6 DEF EngineSays
  <1>11. ASSUME NEW c \in Slots, Handle(c), Serves(c) PROVE WillSay(frames, says, now)'
    <2>1. StepStatus' = StepStatus /\ (SaysAgain(mine) \/ UNCHANGED wire)
      BY <1>2, <1>11, ServesIs
    <2>2. RunStart(mine) \in Frames /\ RunStart(mine) \notin frames
      BY <1>2, <1>5, FrameFields
    <2>3. QED
      BY <1>9, <2>1, <2>2 DEF SaysAgain
  <1>12. CASE Elsewhere /\ StepStatus' = StepStatus
    BY <1>5, <1>9, <1>12 DEF Elsewhere
  <1>13. CASE Elsewhere /\ (Browsers \/ \E c \in Slots : Handle(c))
    BY <1>12, <1>13 DEF Browsers, Handle, screen, bulkRun
  <1>14. CASE \/ \E c \in Slots : Answered(c)
              \/ ClickCancel \/ ClickRetry \/ \E kind \in GateKinds : ClickGate(kind)
    BY <1>9, <1>14, EngineRests
  <1>15. CASE onFrame
    <2>1. PICK f : f = Head(wire)
      OBVIOUS
    <2>2. f \in Frames /\ wire # <<>> /\ wire' = Tail(wire)
      BY <1>1, <1>15, <2>1, TailPlaces DEF onFrame, WizardTypeOK
    <2>3. /\ f.Type \in {"step-start", "step-end"} => f.step \in Steps
          /\ StepStatus \in [Steps -> StepStates] /\ HasSteps
          /\ StepStatus' = IF f.Type \in {"step-start", "step-end"} /\ HasSteps THEN FoldStep(f) ELSE StepStatus
      BY <1>1, <1>2, <1>15, <2>1, <2>2, FrameShape DEF onFrame, Wizards, MineInv, WizardTypeOK, HasSteps
    <2>4. f.run = mine
      BY <1>2, <1>15, <2>1 DEF onFrame, Own
    <2>5. f \in frames => StepStatus'[s] = f.value
      BY <1>5, <2>2, <2>3 DEF FoldStep
    <2>6. f \notin frames => StepStatus'[s] = StepStatus[s]
      BY <1>5, <2>2, <2>3, <2>4 DEF FoldStep
    <2>7. /\ f \in frames => (now <=> f \in says)
          /\ f \notin frames => (now <=> before)
      BY <1>4, <1>5, <2>2, <2>5, <2>6
    <2>8. QED
      BY <1>1, <1>8, <2>1, <2>2, <2>7, WillCome
  <1>16. QED
    BY <1>2, <1>10, <1>11, <1>13, <1>14, <1>15

\* A run call, an answer to a gate and a cancel leave the steps alone; a retry
\* puts back those in error.
LEMMA ServesSteps ==
    ASSUME Wizards, NoStepSkipped, mine \in Runs, NEW c \in Slots, Handle(c), Serves(c),
           NEW s \in Steps, step'[mine][s] # step[mine][s]
    PROVE  step[mine][s] = "Error" /\ auto'[mine] /\ status'[mine] # "Absent"
  <1>1. TypeOK /\ RunInv(mine) /\ calls[c].run = mine
    BY DEF Wizards, Base, WizardTypeOK, EngineInv, Serves
  <1>2. ~(Admits(c) \/ Accepts(c) \/ Cancels(c))
    BY DEF Admits, Accepts, Cancels, Run, Confirm, ConfirmSkip, Cancel, ReleaseGate, record
  <1>3. Retry(mine)
    BY <1>1, <1>2 DEF Serves, Retries
  <1>4. /\ auto'[mine] /\ status'[mine] = "Running" /\ isTerminal(status[mine])
        /\ step[mine][s] \notin {"Complete", "Pending"}
    BY <1>1, <1>3 DEF Retry, ResetSteps, TypeOK
  <1>5. step[mine][s] \notin {"Running", "Skipped"} /\ step[mine][s] \in StepStates
    BY <1>1, <1>4 DEF RunInv, RecordInv, Settled, NoStepSkipped, TypeOK
  <1>6. QED
    BY <1>4, <1>5 DEF StepStates

LEMMA PendingToldStep ==
    ASSUME Wizards, NoStepSkipped, StepsToldInv, PendingToldInv, [WizardNext]_wizardVars
    PROVE  PendingToldInv'
  <1>1. SUFFICES ASSUME Own({"lost", "foreign"})', NEW s \in Steps, step'[mine'][s] = "Pending"
                 PROVE  \/ StepWillBe(s, "Pending")'
                        \/ auto'[mine'] /\ status'[mine'] # "Absent" /\ StepWillBe(s, "Error")'
    BY DEF PendingToldInv
  <1>2. WizardTypeOK /\ TypeOK /\ TypeOK' /\ \A r \in Runs : RunInv(r) /\ GateMoves(r)
    BY Moves DEF Wizards, Base, EngineInv
  <1>3. ASSUME NEW r \in Runs, ClickRun(r) PROVE StepWillBe(s, "Pending")'
    <2>1. /\ status[r] = "Absent" /\ mine' = r /\ wire' = wire
          /\ StepStatus'[s] = "Pending"
      BY <1>3 DEF ClickRun
    <2>2. \A i \in DOMAIN wire : wire[i].run # r
      BY <2>1 DEF Wizards, WireInv, FramesInv
    <2>3. Tells(StepFrames(s)', wire') = {}
      BY <2>1, <2>2 DEF Tells, StepFrames
    <2>4. QED
      BY <2>1, <2>3 DEF StepWillBe, WillSay
  <1>4. SUFFICES ASSUME ~\E r \in Runs : ClickRun(r)
                 PROVE  \/ StepWillBe(s, "Pending")'
                        \/ auto'[mine'] /\ status'[mine'] # "Absent" /\ StepWillBe(s, "Error")'
    BY <1>3
  <1>5. /\ Own({"lost", "foreign"}) /\ mine' = mine /\ mine \in Runs /\ mine # NoRun
        /\ \/ EngineSays(mine) /\ Browsers
           \/ \E c \in Slots : Handle(c) /\ Serves(c)
           \/ Elsewhere
           \/ onFrame
           \/ \E c \in Slots : Answered(c)
           \/ ClickCancel \/ ClickRetry \/ \E kind \in GateKinds : ClickGate(kind)
    BY <1>1, <1>4, OwnCases
  <1>6. ~Disconnect /\ ~ManagerDies
    BY <1>1 DEF Disconnect, ManagerDies, Lose, Own
  <1>7. "Pending" \in StepStates /\ "Error" \in StepStates
    BY DEF StepStates
  <1>8. CASE step[mine][s] = "Pending"
    <2>1. CASE StepWillBe(s, "Pending")
      BY <1>1, <1>4, <1>5, <1>7, <2>1, StepStaysTold
    <2>2. CASE auto[mine] /\ status[mine] # "Absent" /\ StepWillBe(s, "Error")
      <3>1. auto'[mine] /\ status'[mine] # "Absent"
        BY <1>2, <1>5, <1>6, <2>2, AutoOfMine DEF GateMoves
      <3>2. StepWillBe(s, "Error")' \/ StepWillBe(s, "Pending")'
        BY <1>1, <1>4, <1>5, <1>7, <2>2, StepStaysTold
      <3>3. QED
        BY <1>5, <3>1, <3>2
    <2>3. QED
      BY <1>5, <1>8, <2>1, <2>2 DEF PendingToldInv
  <1>9. CASE step[mine][s] # "Pending"
    <2>1. CASE \E c \in Slots : Handle(c) /\ Serves(c)
      <3>1. step[mine][s] = "Error" /\ auto'[mine] /\ status'[mine] # "Absent"
        BY <1>1, <1>5, <1>9, <2>1, ServesSteps
      <3>2. StepWillBe(s, "Error")
        BY <1>5, <3>1 DEF StepsToldInv
      <3>3. StepWillBe(s, "Error")' \/ StepWillBe(s, "Pending")'
        BY <1>1, <1>4, <1>5, <1>7, <3>2, StepStaysTold
      <3>4. QED
        BY <1>5, <3>1, <3>3
    <2>2. CASE EngineSays(mine) /\ Browsers
      <3>1. SaysStep(mine)
        BY <1>1, <1>5, <1>9, <2>2 DEF EngineSays, SaysStart, SaysEnd, SaysPaused, SaysNothing
      <3>2. PICK t \in Steps, type \in {"step-start", "step-end"} :
              /\ Sent(Frame(type, mine, t, step'[mine][t]))
              /\ \A u \in Steps \ {t} : step'[mine][u] = step[mine][u]
        BY <3>1 DEF SaysStep
      <3>3. t = s
        BY <1>1, <1>5, <1>9, <3>2
      <3>4. PICK f : f = Frame(type, mine, s, "Pending")
        OBVIOUS
      <3>5. f \in Frames /\ f \in StepFrames(s) /\ f.value = "Pending" /\ Sent(f)
        BY <1>1, <1>5, <1>7, <3>2, <3>3, <3>4, FrameFields DEF StepFrames
      <3>6. PICK frames, says : frames = StepFrames(s) /\ says = {g \in Frames : g.value = "Pending"}
        OBVIOUS
      <3>7. PICK is \in BOOLEAN : is <=> StepStatus'[s] = "Pending"
        OBVIOUS
      <3>8. WillSay(frames, says, is)'
        BY <1>2, <3>5, <3>6, WillChange
      <3>9. StepFrames(s)' = StepFrames(s)
        BY <1>5 DEF StepFrames
      <3>10. QED
        BY <3>6, <3>7, <3>8, <3>9 DEF StepWillBe, WillSay
    <2>3. CASE \/ Elsewhere \/ onFrame
               \/ \E c \in Slots : Answered(c)
               \/ ClickCancel \/ ClickRetry \/ \E kind \in GateKinds : ClickGate(kind)
      BY <1>1, <1>5, <1>9, <2>3, EngineRests DEF Elsewhere, onFrame, engine, vars
    <2>4. QED
      BY <1>5, <2>1, <2>2, <2>3
  <1>10. QED
    BY <1>8, <1>9

-----------------------------------------------------------------------------
(* The status on the screen. *)

\* The run call whose answer will name the wizard's run is under way.
AwaitsName == \E c \in Slots : RunCall(c) /\ calls[c].stage = "sent"
RetriesMine(c) == calls[c].kind = "retry" /\ calls[c].run = mine /\ calls[c].stage = "sent"

LEMMA AwaitedBefore ==
    ASSUME Wizards, [WizardNext]_wizardVars, mine' = mine, mine \in Runs, ~\E r \in Runs : ClickRun(r),
           status'[mine] = "Absent" => AwaitsName', status[mine] = "Absent"
    PROVE  AwaitsName
  <1>1. WizardTypeOK /\ Base
    BY DEF Wizards, Base
  <1>2. CASE status'[mine] = "Absent"
    <2>1. PICK c \in Slots : RunCall(c)' /\ calls'[c].stage = "sent"
      BY <1>2 DEF AwaitsName, RunCall
    <2>2. CallMoves(c) /\ ~Made(c)
      BY <1>1, <2>1, CallMovesSo, MadeIs
    <2>3. QED
      BY <2>1, <2>2 DEF CallMoves, Stays, Free, RunCall, AwaitsName
  <1>3. CASE status'[mine] # "Absent"
    <2>1. PICK c \in Slots : Handle(c) /\ Admits(c)
      BY <1>1, <1>3, AbsentStays
    <2>2. QED
      BY <1>1, <2>1, HandleCases DEF Admits, AwaitsName
  <1>4. QED
    BY <1>2, <1>3

\* A retry that is under way stays so until it is handled.
LEMMA SentStays ==
    ASSUME WizardTypeOK, [WizardNext]_wizardVars, NEW c \in Slots, RetriesMine(c), mine' = mine,
           ~Handle(c), ~ManagerDies
    PROVE  RetriesMine(c)'
  <1>1. CallMoves(c) /\ calls[c].stage = "sent" /\ calls[c].kind = "retry" /\ calls[c].run = mine
    BY CallMovesSo DEF RetriesMine
  <1>2. calls'[c].kind = calls[c].kind /\ calls'[c].run = calls[c].run /\ calls'[c].stage = "sent"
    BY <1>1 DEF CallMoves, Stays, Free, Answered
  <1>3. QED
    BY <1>1, <1>2 DEF RetriesMine

\* How the status shown moves when the engine, or its calls, do not.
LEMMA ShownMoves ==
    ASSUME Wizards, [WizardNext]_wizardVars, mine' = mine, mine # NoRun,
           status[mine] = "Absent" => AwaitsName', UNCHANGED <<engine, wire>>, "astray" \notin blur',
           \/ \E c \in Slots : Answered(c)
           \/ ClickCancel \/ ClickRetry \/ \E kind \in GateKinds : ClickGate(kind)
    PROVE  \/ Status' = Status
           \/ Status' = "Running" /\ \E c \in Slots : RetriesMine(c)'
  <1>1. WizardTypeOK /\ \A c \in Slots : CallInv(c)
    BY DEF Wizards, Base
  <1>2. ASSUME NEW c \in Slots, Answered(c) PROVE Status' = Status
    <2>1. CASE AnsweredRun(c) /\ calls[c].stage = "refused"
      <3>1. RunCall(c) /\ calls[c].run = mine /\ status[mine] = "Absent"
        BY <1>1, <2>1 DEF AnsweredRun, RunCall, CallInv
      <3>2. PICK d \in Slots : RunCall(d)' /\ calls'[d].stage = "sent"
        BY <3>1 DEF AwaitsName, RunCall
      <3>3. calls' = [calls EXCEPT ![c] = Free] /\ DOMAIN calls = Slots
        BY <1>1, <1>2 DEF Answered, WizardTypeOK
      <3>4. d # c /\ calls'[d] = calls[d]
        BY <3>2, <3>3 DEF Free
      <3>5. RunCall(d)
        BY <3>2, <3>4 DEF RunCall
      <3>6. QED
        BY <1>1, <3>1, <3>4, <3>5 DEF CallInv
    <2>2. CASE AnsweredRun(c) /\ calls[c].stage = "ok"
      BY <2>2 DEF AnsweredRun
    <2>3. CASE AnsweredGate(c) \/ AnsweredCancel(c)
      BY <2>3 DEF AnsweredGate, AnsweredCancel, bulkRun
    <2>4. QED
      BY <1>2, <2>1, <2>2, <2>3 DEF Answered
  <1>3. CASE ClickCancel \/ \E kind \in GateKinds : ClickGate(kind)
    BY <1>3 DEF ClickCancel, ClickGate, screen, bulkRun
  <1>4. CASE ClickRetry
    <2>1. Status' = "Running" /\ RunHash = mine /\ Send("retry", RunHash, NoPause)
      BY <1>4 DEF ClickRetry
    <2>2. PICK c \in Slots : calls' = [calls EXCEPT ![c] = NewCall("retry", RunHash, NoPause)]
      BY <2>1 DEF Send, NewCall, Under
    <2>3. calls'[c] = NewCall("retry", RunHash, NoPause)
      BY <1>1, <2>2 DEF WizardTypeOK
    <2>4. RetriesMine(c)'
      BY <2>1, <2>3 DEF RetriesMine, NewCall
    <2>5. QED
      BY <2>1, <2>4
  <1>5. QED
    BY <1>2, <1>3, <1>4

\* No frame of a run that is to be created is under way.
LEMMA NothingTold ==
    ASSUME Wizards, NEW r \in Runs, status[r] = "Absent", NEW frames, \A f \in frames : f.run = r
    PROVE  Tells(frames, wire) = {}
  BY DEF Wizards, WireInv, FramesInv, Tells

LEMMA StatusToldStep ==
    ASSUME Wizards, StatusToldInv, [WizardNext]_wizardVars
    PROVE  StatusToldInv'
  <1> DEFINE Goal(v) ==
               /\ isTerminal(v) /\ StatusWillBe(v)' => status'[mine'] = v
               /\ isTerminal(v) /\ status'[mine'] = v => StatusWillBe(v)' \/ \E c \in Slots : RetriesMine(c)'
  <1>1. SUFFICES ASSUME Own({"lost", "foreign", "astray"})', status'[mine'] = "Absent" => AwaitsName',
                        NEW v \in RunStates, isTerminal(v)
                 PROVE  Goal(v)
    <2>1. ASSUME \A v \in RunStates : isTerminal(v) => Goal(v),
                 Own({"lost", "foreign", "astray"})', status'[mine'] = "Absent" => AwaitsName'
          PROVE  /\ \A v \in RunStates : isTerminal(v) /\ StatusWillBe(v)' => status'[mine'] = v
                 /\ isTerminal(status'[mine']) =>
                       \/ StatusWillBe(status[mine])'
                       \/ \E c \in Slots : RetriesMine(c)'
      <3>1. \A v \in RunStates : isTerminal(v) /\ StatusWillBe(v)' => status'[mine'] = v
        BY <2>1
      <3>2. ASSUME isTerminal(status'[mine'])
            PROVE  StatusWillBe(status[mine])' \/ \E c \in Slots : RetriesMine(c)'
        <4>1. PICK v \in RunStates : v = status'[mine'] /\ isTerminal(v)
          BY <3>2 DEF isTerminal, RunStates
        <4>2. StatusWillBe(v)' \/ \E c \in Slots : RetriesMine(c)'
          BY <2>1, <4>1
        <4>3. StatusWillBe(v)' => StatusWillBe(status[mine])'
          BY <4>1 DEF StatusWillBe, WillSay
        <4>4. QED
          BY <4>2, <4>3
      <3>3. QED
        BY <3>1, <3>2
    <2>2. QED
      BY <2>1 DEF StatusToldInv, AwaitsName, RetriesMine
  <1>2. /\ WizardTypeOK /\ TypeOK' /\ \A c \in Slots : CallInv(c)
    BY Moves DEF Wizards, Base
  <1>3. v \in {"Complete", "Failed", "Cancelled"} /\ v \notin {"Running", "Waiting", "Queued", "Absent", "None"}
    BY <1>1 DEF isTerminal
  <1>4. PICK frames, says : /\ frames = {f \in Frames : f.run = mine' /\ f.Type \in {"run-start", "run-end", "paused"}}
                            /\ says = {f \in Frames : f.value = v}
    OBVIOUS
  <1>5. PICK before \in BOOLEAN, now \in BOOLEAN : /\ before <=> Status = v
                                                   /\ now <=> Status' = v
    OBVIOUS
  <1>6. StatusWillBe(v)' <=> WillSay(frames, says, now)'
    BY <1>4, <1>5 DEF StatusWillBe, StatusFrames, WillSay
  <1>7. ASSUME NEW r \in Runs, ClickRun(r) PROVE Goal(v)
    <2>1. mine' = r /\ status[r] = "Absent" /\ status' = status /\ wire' = wire /\ Status' = "Running"
      BY <1>7 DEF ClickRun, engine, vars
    <2>2. Tells(frames, wire) = {}
      BY <1>4, <2>1, NothingTold
    <2>3. ~WillSay(frames, says, now)'
      BY <1>3, <1>5, <2>1, <2>2 DEF WillSay
    <2>4. QED
      BY <1>3, <1>6, <2>1, <2>3
  <1>8. SUFFICES ASSUME ~\E r \in Runs : ClickRun(r) PROVE Goal(v)
    BY <1>7
  <1>9. /\ Own({"lost", "foreign", "astray"}) /\ mine' = mine /\ mine \in Runs /\ mine # NoRun
        /\ \/ EngineSays(mine) /\ Browsers
           \/ \E c \in Slots : Handle(c) /\ Serves(c)
           \/ Elsewhere /\ Browsers
           \/ Elsewhere /\ \E c \in Slots : Handle(c) /\ (calls[c].run = mine => Leaves(c))
           \/ onFrame /\ Head(wire).run = mine
           \/ \E c \in Slots : Answered(c)
           \/ ClickCancel \/ ClickRetry \/ \E kind \in GateKinds : ClickGate(kind)
    BY <1>1, <1>8, OwnCases
  <1>10. frames = StatusFrames /\ \A f \in Frames :
           /\ f \in frames <=> f.run = mine /\ f.Type \in {"run-start", "run-end", "paused"}
           /\ f \in says <=> f.value = v
    BY <1>4, <1>9 DEF StatusFrames
  <1>11. /\ WillSay(frames, says, before) => status[mine] = v
         /\ status[mine] = v => WillSay(frames, says, before) \/ \E c \in Slots : RetriesMine(c)
    <2>1. status[mine] = "Absent" => AwaitsName
      BY <1>1, <1>8, <1>9, AwaitedBefore
    <2>2. StatusWillBe(v) <=> WillSay(frames, says, before)
      BY <1>4, <1>5, <1>10 DEF StatusWillBe, WillSay
    <2>3. /\ StatusWillBe(v) => status[mine] = v
          /\ status[mine] = v => StatusWillBe(v) \/ \E c \in Slots : RetriesMine(c)
      BY <1>1, <1>9, <2>1 DEF StatusToldInv, AwaitsName, RetriesMine
    <2>4. QED
      BY <2>2, <2>3
  <1>12. SUFFICES /\ WillSay(frames, says, now)' => status'[mine] = v
                  /\ status'[mine] = v => WillSay(frames, says, now)' \/ \E c \in Slots : RetriesMine(c)'
    BY <1>6, <1>9
  <1>13. ASSUME Status' = Status, wire' = wire \/ \E f \in Frames : Sent(f) /\ f \notin frames
         PROVE  WillSay(frames, says, now)' <=> WillSay(frames, says, before)
    <2>1. now <=> before
      BY <1>5, <1>13
    <2>2. QED
      BY <1>2, <1>13, <2>1, WillStay
  <1>14. ASSUME NEW f \in Frames, Sent(f), f \in frames
         PROVE  WillSay(frames, says, now)' <=> f.value = v
    BY <1>2, <1>10, <1>14, WillChange
  <1>15. ~ManagerDies
    BY <1>1 DEF ManagerDies, Lose, Own
  <1>16. CASE EngineSays(mine) /\ Browsers
    <2>1. Status' = Status /\ calls' = calls
      BY <1>16 DEF Browsers, screen, bulkRun
    <2>2. \A c \in Slots : RetriesMine(c) => RetriesMine(c)'
      BY <1>9, <2>1 DEF RetriesMine
    <2>3. CASE SaysStart(mine)
      <3>1. RunStart(mine) \in Frames /\ RunStart(mine) \in frames /\ RunStart(mine).value = "Running"
        BY <1>9, <1>10, FrameFields
      <3>2. Sent(RunStart(mine)) /\ status'[mine] = "Running"
        BY <2>3 DEF SaysStart
      <3>3. QED
        BY <1>3, <1>14, <3>1, <3>2
    <2>4. CASE SaysEnd(mine)
      <3>1. PICK f : f = Frame("run-end", mine, 0, status'[mine])
        OBVIOUS
      <3>2. status'[mine] \in RunStates
        BY <2>4 DEF SaysEnd, isTerminal, RunStates
      <3>3. f \in Frames /\ f \in frames /\ Sent(f) /\ f.value = status'[mine]
        BY <1>9, <1>10, <2>4, <3>1, <3>2, FrameFields DEF SaysEnd
      <3>4. QED
        BY <1>14, <3>3
    <2>5. CASE SaysStep(mine)
      <3>1. PICK t \in Steps, type \in {"step-start", "step-end"} : Sent(Frame(type, mine, t, step'[mine][t]))
        BY <2>5 DEF SaysStep
      <3>2. PICK f : f = Frame(type, mine, t, step'[mine][t])
        OBVIOUS
      <3>3. step'[mine][t] \in StepStates
        BY <1>2, <1>9 DEF TypeOK
      <3>4. f \in Frames /\ f.Type = type /\ Sent(f)
        BY <1>9, <3>1, <3>2, <3>3, FrameFields
      <3>5. f \notin frames
        BY <1>10, <3>4
      <3>6. status'[mine] = status[mine]
        BY <2>5 DEF SaysStep
      <3>7. QED
        BY <1>11, <1>13, <2>1, <2>2, <3>4, <3>5, <3>6
    <2>6. CASE SaysPaused(mine)
      <3>1. PICK f : f = PausedAt(mine, pending'[mine])
        OBVIOUS
      <3>2. f \in Frames /\ f \in frames /\ Sent(f) /\ f.value = "Waiting"
        BY <1>9, <1>10, <2>6, <3>1, FrameFields DEF SaysPaused
      <3>3. status'[mine] = "Waiting"
        BY <2>6 DEF SaysPaused
      <3>4. QED
        BY <1>3, <1>14, <3>2, <3>3
    <2>7. CASE SaysNothing(mine)
      BY <1>11, <1>13, <2>1, <2>2, <2>7 DEF SaysNothing
    <2>8. QED
      BY <1>16, <2>3, <2>4, <2>5, <2>6, <2>7 DEF EngineSays
  <1>17. ASSUME NEW c \in Slots, Handle(c), Serves(c)
         PROVE  /\ WillSay(frames, says, now)' => status'[mine] = v
                /\ status'[mine] = v => WillSay(frames, says, now)' \/ \E d \in Slots : RetriesMine(d)'
    <2>1. /\ Status' = Status /\ (~SaysAgain(mine) => wire' = wire)
          /\ \/ Admits(c) /\ status[mine] = "Absent" /\ status'[mine] = "Queued"
             \/ Accepts(c) /\ ~isTerminal(status[mine]) /\ status'[mine] = "Running"
             \/ Cancels(c) /\ status'[mine] = status[mine]
             \/ SaysAgain(mine)
      BY <1>9, <1>17, ServesIs
    <2>2. CASE SaysAgain(mine)
      <3>1. RunStart(mine) \in Frames /\ RunStart(mine) \in frames /\ RunStart(mine).value = "Running"
        BY <1>9, <1>10, FrameFields
      <3>2. Sent(RunStart(mine)) /\ status'[mine] = "Running"
        BY <2>2 DEF SaysAgain
      <3>3. QED
        BY <1>3, <1>14, <3>1, <3>2
    <2>3. CASE wire' = wire /\ status[mine] # v /\ status'[mine] # v
      BY <1>11, <1>13, <2>1, <2>3
    <2>4. CASE wire' = wire /\ Cancels(c) /\ status'[mine] = status[mine]
      <3>1. ASSUME NEW d \in Slots, RetriesMine(d) PROVE RetriesMine(d)'
        <4>1. d # c
          BY <2>4, <3>1 DEF Cancels, RetriesMine
        <4>2. calls'[d] = calls[d]
          BY <1>2, <1>17, <4>1, HandleMoves
        <4>3. QED
          BY <1>9, <3>1, <4>2 DEF RetriesMine
      <3>2. QED
        BY <1>11, <1>13, <2>1, <2>4, <3>1
    <2>5. QED
      BY <1>1, <1>3, <2>1, <2>2, <2>3, <2>4
  <1>18. ASSUME Elsewhere, Status' = Status, status[mine] = v => \A c \in Slots : RetriesMine(c) => RetriesMine(c)'
         PROVE  /\ WillSay(frames, says, now)' => status'[mine] = v
                /\ status'[mine] = v => WillSay(frames, says, now)' \/ \E c \in Slots : RetriesMine(c)'
    BY <1>10, <1>11, <1>13, <1>18 DEF Elsewhere
  <1>19. CASE Elsewhere /\ Browsers
    BY <1>9, <1>18, <1>19 DEF Browsers, screen, bulkRun, RetriesMine
  <1>20. CASE Elsewhere /\ \E c \in Slots : Handle(c) /\ (calls[c].run = mine => Leaves(c))
    <2>1. PICK c \in Slots : Handle(c) /\ (calls[c].run = mine => Leaves(c))
      BY <1>20
    <2>2. ASSUME status[mine] = v, NEW d \in Slots, RetriesMine(d) PROVE RetriesMine(d)'
      <3>1. d # c
        BY <1>1, <2>1, <2>2 DEF RetriesMine, Leaves
      <3>2. calls'[d] = calls[d]
        BY <1>2, <2>1, <3>1, HandleMoves
      <3>3. QED
        BY <1>9, <2>2, <3>2 DEF RetriesMine
    <2>3. Status' = Status
      BY <2>1 DEF Handle, screen, bulkRun
    <2>4. QED
      BY <1>18, <1>20, <2>2, <2>3
  <1>21. CASE \/ \E c \in Slots : Answered(c)
              \/ ClickCancel \/ ClickRetry \/ \E kind \in GateKinds : ClickGate(kind)
    <2>1. UNCHANGED <<engine, wire>> /\ UNCHANGED <<status, step, pending, cancel, shown>>
      BY <1>21, EngineRests
    <2>2. \/ Status' = Status
          \/ Status' = "Running" /\ \E c \in Slots : RetriesMine(c)'
      BY <1>1, <1>9, <1>21, <2>1, ShownMoves DEF Own
    <2>3. ASSUME NEW c \in Slots, RetriesMine(c) PROVE RetriesMine(c)'
      <3>1. ~Handle(c)
        <4>1. SUFFICES ASSUME Handle(c) PROVE FALSE
          OBVIOUS
        <4>2. calls'[c].stage \in {"ok", "refused"} /\ calls'[c].kind = "retry" /\ calls[c].stage = "sent"
          BY <1>2, <2>3, <4>1, HandleMoves DEF Stays, RetriesMine
        <4>3. \A d \in Slots : Answered(d) => calls'[c] \in {calls[c], Free}
          BY <1>2 DEF Answered, WizardTypeOK
        <4>4. \A kind, r, gate : Send(kind, r, gate) => calls'[c] = calls[c] \/ calls[c] = Free
          BY <1>2, SendMoves
        <4>5. calls'[c] \in {calls[c], Free} \/ calls[c] = Free
          BY <1>21, <4>3, <4>4 DEF ClickCancel, ClickRetry, ClickGate
        <4>6. QED
          BY <4>2, <4>5 DEF Free
      <3>2. QED
        BY <1>2, <1>9, <1>15, <2>3, <3>1, SentStays
    <2>4. CASE Status' = Status
      BY <1>11, <1>13, <2>1, <2>3, <2>4
    <2>5. CASE Status' = "Running" /\ \E c \in Slots : RetriesMine(c)'
      <3>1. ~now
        BY <1>3, <1>5, <2>5
      <3>2. WillSay(frames, says, now)' => WillSay(frames, says, before)
        BY <2>1, <3>1 DEF WillSay
      <3>3. QED
        BY <1>11, <2>1, <2>5, <3>2
    <2>6. QED
      BY <2>2, <2>4, <2>5
  <1>22. CASE onFrame /\ Head(wire).run = mine
    <2>1. PICK f : f = Head(wire)
      OBVIOUS
    <2>2. f \in Frames /\ wire # <<>> /\ wire' = Tail(wire) /\ f.run = mine
      BY <1>2, <1>22, <2>1, TailPlaces DEF onFrame, WizardTypeOK
    <2>3. Status # "None" /\ Status' = FoldStatus(f) /\ status' = status /\ calls' = calls
      BY <1>9, <1>22, <2>1 DEF onFrame, engine, vars, Wizards, MineInv
    <2>4. /\ f \in frames => (now <=> f \in says)
          /\ f \notin frames => (now <=> before)
      BY <1>5, <1>10, <2>2, <2>3 DEF FoldStatus
    <2>5. WillSay(frames, says, now)' <=> WillSay(frames, says, before)
      BY <1>2, <2>1, <2>2, <2>4, WillCome
    <2>6. \A c \in Slots : RetriesMine(c) => RetriesMine(c)'
      BY <1>9, <2>3 DEF RetriesMine
    <2>7. QED
      BY <1>11, <2>3, <2>5, <2>6
  <1>23. QED
    BY <1>6, <1>9, <1>16, <1>17, <1>19, <1>20, <1>21, <1>22

-----------------------------------------------------------------------------
(* The gate on the screen. *)

\* The answer that takes the gate shown off the screen is under way.
TakesOff(c) == IsGateCall(c) /\ calls[c].run = mine /\ calls[c].stage = "ok" /\ calls[c].gate = Paused

\* What a call that has been answered was for: a gate of the wizard's run that
\* is not pending any more.
LEMMA AnsweredIsPast ==
    ASSUME Wizards, mine \in Runs, "foreign" \notin blur, NEW c \in Slots, calls[c].stage = "ok",
           calls[c].gate = Paused, Paused # NoPause
    PROVE  Paused.run = mine /\ pending[mine] # Paused.gate /\ TakesOff(c)
  <1>1. WizardTypeOK /\ CallInv(c) /\ MineInv /\ mine # NoRun
    BY WizardAssumption DEF Wizards, Base
  <1>2. IsGateCall(c)
    BY <1>1 DEF CallInv
  <1>3. Paused.run = mine
    BY <1>1 DEF MineInv
  <1>4. calls[c].run = mine
    BY <1>1, <1>2, <1>3 DEF MineInv
  <1>5. QED
    BY <1>1, <1>2, <1>3, <1>4 DEF CallInv, TakesOff

\* The gate of a call is in no frame that is still to come.
LEMMA NotToCome ==
    ASSUME Wizards, NEW c \in Slots, IsGateCall(c), NEW frames, NEW says,
           \A f \in frames \cap says : f.Type = "paused" /\ f.run = calls[c].gate.run /\ f.gate = calls[c].gate.gate
    PROVE  ~SaysLast(frames, wire, says)
  <1>1. Announced(calls[c].gate)
    BY DEF Wizards, CallInv
  <1>2. QED
    BY <1>1 DEF Announced, SaysLast, Tells

\* A call that was accepted stays so until its answer comes.
LEMMA AcceptedStays ==
    ASSUME WizardTypeOK, [WizardNext]_wizardVars, mine' = mine, NEW c \in Slots, TakesOff(c), Paused' = Paused,
           ~Answered(c)
    PROVE  TakesOff(c)'
  <1>1. CallMoves(c) /\ IsGateCall(c) /\ calls[c].stage = "ok" /\ calls[c] # Free
    BY CallMovesSo DEF TakesOff, Free
  <1>2. Stays(c) /\ calls'[c].stage = "ok"
    BY <1>1 DEF CallMoves
  <1>3. QED
    BY <1>1, <1>2 DEF TakesOff, Stays, IsGateCall

\* What an answer does to the gate on the screen.
LEMMA AnswerMoves ==
    ASSUME Wizards, [WizardNext]_wizardVars, mine' = mine, mine \in Runs, "foreign" \notin blur,
           "wiped" \notin blur', NEW c \in Slots, Answered(c)
    PROVE  \/ Paused' = Paused /\ ~TakesOff(c)
           \/ Paused' = NoPause /\ Paused = NoPause
           \/ Paused' = NoPause /\ Paused # NoPause /\ Paused.run = mine /\ pending[mine] # Paused.gate
  <1>1. WizardTypeOK /\ CallInv(c) /\ mine # NoRun
    BY WizardAssumption DEF Wizards, Base
  <1>2. CASE AnsweredRun(c) \/ AnsweredCancel(c)
    BY <1>2 DEF AnsweredRun, AnsweredCancel, bulkRun, TakesOff, IsGateCall, GateKinds
  <1>3. CASE AnsweredGate(c) /\ calls[c].stage = "refused"
    BY <1>3 DEF AnsweredGate, TakesOff
  <1>4. CASE AnsweredGate(c) /\ calls[c].stage = "ok"
    <2>1. Paused' = NoPause /\ Paused \in {NoPause, calls[c].gate}
      BY <1>4 DEF AnsweredGate
    <2>2. QED
      BY <1>4, <2>1, AnsweredIsPast
  <1>5. QED
    BY <1>2, <1>3, <1>4 DEF Answered

LEMMA GateToldStep ==
    ASSUME Wizards, GateToldInv, [WizardNext]_wizardVars
    PROVE  GateToldInv'
  <1> DEFINE Shows == GateWillBe(pending[mine])'
             ShowsNone == \/ NoGateWillBe'
                          \/ cancel'[mine'] /\ ~isTerminal(status'[mine'])
                          \/ Tells(GateFrames, wire)' = {} /\ \E c \in Slots : TakesOff(c)'
             Goal == /\ pending'[mine'] # NoGate => Shows
                     /\ pending'[mine'] = NoGate => ShowsNone
  <1>1. SUFFICES ASSUME Own({"lost", "foreign", "wiped"})' PROVE Goal
    BY DEF GateToldInv, TakesOff
  <1>2. /\ WizardTypeOK /\ TypeOK /\ TypeOK' /\ (\A c \in Slots : CallInv(c)) /\ \A r \in Runs : RunInv(r)
    BY Moves DEF Wizards, Base, EngineInv
  <1>3. PICK g, frames, gates, ends :
          /\ g = pending'[mine']
          /\ frames = {f \in Frames : f.run = mine' /\ f.Type \in {"run-end", "paused"}}
          /\ gates = {f \in Frames : f.Type = "paused" /\ f.gate = g}
          /\ ends = {f \in Frames : f.Type = "run-end"}
    OBVIOUS
  <1>4. PICK m : m = mine'
    OBVIOUS
  <1>5. PICK shows \in BOOLEAN, showsnow \in BOOLEAN, none \in BOOLEAN, nonenow \in BOOLEAN :
          /\ shows <=> Paused = [run |-> m, gate |-> g]
          /\ showsnow <=> Paused' = [run |-> m, gate |-> g]
          /\ none <=> Paused = NoPause
          /\ nonenow <=> Paused' = NoPause
    OBVIOUS
  <1>6. /\ Shows <=> WillSay(frames, gates, showsnow)'
        /\ NoGateWillBe' <=> WillSay(frames, ends, nonenow)'
        /\ Tells(GateFrames, wire)' = Tells(frames, wire')
    BY <1>3, <1>4, <1>5 DEF GateWillBe, NoGateWillBe, GateFrames, WillSay
  <1>7. ASSUME NEW r \in Runs, ClickRun(r) PROVE Goal
    <2>1. mine' = r /\ status[r] = "Absent" /\ pending' = pending /\ wire' = wire /\ Paused' = NoPause
      BY <1>7 DEF ClickRun, engine, vars
    <2>2. pending[r] = NoGate
      BY <1>2, <2>1, PendingIs
    <2>3. Tells(frames, wire) = {}
      BY <1>3, <2>1, NothingTold
    <2>4. WillSay(frames, ends, nonenow)'
      BY <1>5, <2>1, <2>3 DEF WillSay
    <2>5. QED
      BY <1>6, <2>1, <2>2, <2>4
  <1>8. SUFFICES ASSUME ~\E r \in Runs : ClickRun(r) PROVE Goal
    BY <1>7
  <1>9. /\ Own({"lost", "foreign", "wiped"}) /\ mine' = mine /\ mine \in Runs /\ mine # NoRun
        /\ m = mine /\ "foreign" \notin blur
        /\ \/ EngineSays(mine) /\ Browsers
           \/ \E c \in Slots : Handle(c) /\ Serves(c)
           \/ Elsewhere /\ Browsers
           \/ Elsewhere /\ \E c \in Slots : Handle(c)
           \/ onFrame /\ Head(wire).run = mine
           \/ \E c \in Slots : Answered(c)
           \/ ClickCancel \/ ClickRetry \/ \E kind \in GateKinds : ClickGate(kind)
    BY <1>1, <1>4, <1>8, OwnCases
  <1>10. frames = GateFrames /\ \A f \in Frames :
           /\ f \in frames <=> f.run = mine /\ f.Type \in {"run-end", "paused"}
           /\ f \in gates <=> f.Type = "paused" /\ f.gate = g
           /\ f \in ends <=> f.Type = "run-end"
    BY <1>3, <1>9 DEF GateFrames
  <1>11. /\ pending[mine] # NoGate /\ pending[mine] = g => WillSay(frames, gates, shows)
         /\ pending[mine] = NoGate => \/ WillSay(frames, ends, none)
                                      \/ cancel[mine] /\ ~isTerminal(status[mine])
                                      \/ Tells(frames, wire) = {} /\ \E c \in Slots : TakesOff(c)
    BY <1>3, <1>5, <1>9, <1>10 DEF GateToldInv, GateWillBe, NoGateWillBe, WillSay, TakesOff
  <1>12. SUFFICES /\ pending'[mine] # NoGate => WillSay(frames, gates, showsnow)'
                  /\ pending'[mine] = NoGate =>
                        \/ WillSay(frames, ends, nonenow)'
                        \/ cancel'[mine] /\ ~isTerminal(status'[mine])
                        \/ Tells(frames, wire') = {} /\ \E c \in Slots : TakesOff(c)'
    BY <1>6, <1>9
  <1>13. ASSUME Paused' = Paused, wire' = wire \/ \E f \in Frames : Sent(f) /\ f \notin frames
         PROVE  /\ WillSay(frames, gates, showsnow)' <=> WillSay(frames, gates, shows)
                /\ WillSay(frames, ends, nonenow)' <=> WillSay(frames, ends, none)
                /\ Tells(frames, wire') = Tells(frames, wire)
    <2>1. (showsnow <=> shows) /\ (nonenow <=> none)
      BY <1>5, <1>13
    <2>2. QED
      BY <1>2, <1>13, <2>1, WillStay, SaySame
  <1>14. ASSUME Paused' = Paused, wire' = wire \/ \E f \in Frames : Sent(f) /\ f \notin frames,
                pending'[mine] = pending[mine], ~\E c \in Slots : Answered(c),
                cancel[mine] /\ ~isTerminal(status[mine]) => cancel'[mine] /\ ~isTerminal(status'[mine])
         PROVE  /\ pending'[mine] # NoGate => WillSay(frames, gates, showsnow)'
                /\ pending'[mine] = NoGate =>
                      \/ WillSay(frames, ends, nonenow)'
                      \/ cancel'[mine] /\ ~isTerminal(status'[mine])
                      \/ Tells(frames, wire') = {} /\ \E c \in Slots : TakesOff(c)'
    <2>1. \A c \in Slots : TakesOff(c) => TakesOff(c)'
      BY <1>2, <1>9, <1>14, AcceptedStays
    <2>2. g = pending[mine]
      BY <1>3, <1>9, <1>14
    <2>3. QED
      BY <1>11, <1>13, <1>14, <2>1, <2>2
  <1>15. CASE EngineSays(mine) /\ Browsers
    <2>1. Paused' = Paused /\ cancel'[mine] = cancel[mine] /\ calls' = calls
      BY <1>15 DEF Browsers, screen, bulkRun, EngineSays
    <2>2. ~\E c \in Slots : Answered(c)
      <3>1. SUFFICES ASSUME NEW c \in Slots, Answered(c) PROVE FALSE
        OBVIOUS
      <3>2. calls'[c] = Free /\ calls[c] # Free
        BY <1>2, <3>1 DEF Answered, WizardTypeOK, Free
      <3>3. QED
        BY <2>1, <3>2
    <2>3. CASE SaysStart(mine)
      <3>1. RunStart(mine) \in Frames /\ RunStart(mine) \notin frames
        BY <1>9, <1>10, FrameFields
      <3>2. Sent(RunStart(mine)) /\ ~isTerminal(status'[mine]) /\ pending'[mine] = pending[mine]
        BY <2>3 DEF SaysStart, isTerminal
      <3>3. QED
        BY <1>14, <2>1, <2>2, <3>1, <3>2
    <2>4. CASE SaysEnd(mine)
      <3>1. PICK f : f = Frame("run-end", mine, 0, status'[mine])
        OBVIOUS
      <3>2. status'[mine] \in RunStates
        BY <2>4 DEF SaysEnd, isTerminal, RunStates
      <3>3. f \in Frames /\ f \in frames /\ f \in ends /\ Sent(f)
        BY <1>9, <1>10, <2>4, <3>1, <3>2, FrameFields DEF SaysEnd
      <3>4. WillSay(frames, ends, nonenow)'
        BY <1>2, <3>3, WillChange
      <3>5. pending'[mine] = NoGate
        BY <2>4 DEF SaysEnd
      <3>6. QED
        BY <3>4, <3>5
    <2>5. CASE SaysStep(mine)
      <3>1. PICK t \in Steps, type \in {"step-start", "step-end"} : Sent(Frame(type, mine, t, step'[mine][t]))
        BY <2>5 DEF SaysStep
      <3>2. PICK f : f = Frame(type, mine, t, step'[mine][t])
        OBVIOUS
      <3>3. step'[mine][t] \in StepStates
        BY <1>2, <1>9 DEF TypeOK
      <3>4. f \in Frames /\ f.Type = type /\ Sent(f)
        BY <1>9, <3>1, <3>2, <3>3, FrameFields
      <3>5. f \notin frames
        BY <1>10, <3>4
      <3>6. status'[mine] = status[mine] /\ pending'[mine] = pending[mine]
        BY <2>5 DEF SaysStep
      <3>7. QED
        BY <1>14, <2>1, <2>2, <3>4, <3>5, <3>6
    <2>6. CASE SaysPaused(mine)
      <3>1. PICK f : f = PausedAt(mine, pending'[mine])
        OBVIOUS
      <3>2. pending'[mine] \in Gate /\ pending'[mine] = g
        BY <1>3, <1>9, <2>6 DEF SaysPaused
      <3>3. f \in Frames /\ f \in frames /\ f \in gates /\ Sent(f)
        BY <1>9, <1>10, <2>6, <3>1, <3>2, FrameFields DEF SaysPaused
      <3>4. WillSay(frames, gates, showsnow)'
        BY <1>2, <3>3, WillChange
      <3>5. QED
        BY <3>2, <3>4, PauseShape
    <2>7. CASE SaysNothing(mine)
      BY <1>14, <2>1, <2>2, <2>7 DEF SaysNothing
    <2>8. QED
      BY <1>15, <2>3, <2>4, <2>5, <2>6, <2>7 DEF EngineSays
  <1>16. ASSUME NEW c \in Slots, Handle(c), Serves(c)
         PROVE  /\ pending'[mine] # NoGate => WillSay(frames, gates, showsnow)'
                /\ pending'[mine] = NoGate =>
                      \/ WillSay(frames, ends, nonenow)'
                      \/ cancel'[mine] /\ ~isTerminal(status'[mine])
                      \/ Tells(frames, wire') = {} /\ \E d \in Slots : TakesOff(d)'
    <2>1. /\ Paused' = Paused /\ (~SaysAgain(mine) => wire' = wire)
          /\ \/ Admits(c) /\ status'[mine] = "Queued" /\ pending'[mine] = pending[mine]
             \/ Accepts(c) /\ pending[mine] # NoGate /\ pending[mine] = calls[c].gate.gate /\ pending'[mine] = NoGate
             \/ /\ Cancels(c) /\ status'[mine] = status[mine] /\ cancel'[mine] = TRUE /\ pending'[mine] = NoGate
                /\ isTerminal(status[mine]) => pending[mine] = NoGate
             \/ Retries(c) /\ SaysAgain(mine)
      BY <1>9, <1>16, ServesIs
    <2>2. ~\E d \in Slots : Answered(d)
      <3>1. SUFFICES ASSUME NEW d \in Slots, Answered(d) PROVE FALSE
        OBVIOUS
      <3>2. calls' = [calls EXCEPT ![d] = Free] /\ DOMAIN calls = Slots /\ calls[d].stage # "sent"
        BY <1>2, <3>1 DEF Answered, WizardTypeOK
      <3>3. calls[c].stage = "sent" /\ calls'[c].stage \in {"ok", "refused"}
        BY <1>2, <1>16, HandleMoves
      <3>4. QED
        BY <3>2, <3>3
    <2>3. CASE Admits(c) /\ status'[mine] = "Queued" /\ pending'[mine] = pending[mine]
      <3>1. cancel' = cancel /\ wire' = wire
        BY <2>3 DEF Admits, Run, Silent
      <3>2. QED
        BY <1>14, <2>1, <2>2, <2>3, <3>1 DEF isTerminal
    <2>4. CASE Accepts(c) /\ pending[mine] # NoGate /\ pending[mine] = calls[c].gate.gate /\ pending'[mine] = NoGate
      <3>1. PICK h, old : h = pending[mine] /\ old = {f \in Frames : f.Type = "paused" /\ f.gate = h}
        OBVIOUS
      <3>2. /\ calls[c].run = mine /\ IsGateCall(c) /\ wire' = wire
            /\ calls[c].gate.run = mine
        BY <1>9, <1>16, <2>4 DEF Serves, Accepts, Silent, Wizards, MineInv
      <3>3. WillSay(frames, old, Paused = [run |-> mine, gate |-> h])
        BY <1>9, <1>10, <2>4, <3>1 DEF GateToldInv, GateWillBe
      <3>4. \A f \in frames \cap old : f.Type = "paused" /\ f.run = calls[c].gate.run /\ f.gate = calls[c].gate.gate
        BY <1>3, <1>10, <2>4, <3>1, <3>2
      <3>5. ~SaysLast(frames, wire, old)
        BY <3>2, <3>4, NotToCome
      <3>6. Tells(frames, wire) = {} /\ Paused = [run |-> mine, gate |-> h]
        BY <3>3, <3>5 DEF WillSay
      <3>7. calls[c].gate \in Pauses
        BY <1>2, <3>2, CallShape DEF CallInv, Free, IsGateCall, GateKinds
      <3>8. calls[c].gate = Paused
        BY <2>4, <3>1, <3>2, <3>6, <3>7, PauseShape
      <3>9. calls'[c].stage = "ok" /\ Stays(c)
        BY <1>2, <1>16, <2>4, HandleMoves
      <3>10. TakesOff(c)'
        BY <1>9, <2>1, <3>2, <3>8, <3>9 DEF TakesOff, Stays, IsGateCall
      <3>11. QED
        BY <2>4, <3>2, <3>6, <3>10
    <2>5. CASE /\ Cancels(c) /\ status'[mine] = status[mine] /\ cancel'[mine] = TRUE /\ pending'[mine] = NoGate
               /\ isTerminal(status[mine]) => pending[mine] = NoGate
      <3>1. CASE ~isTerminal(status[mine])
        BY <2>5, <3>1
      <3>2. CASE isTerminal(status[mine])
        <4>1. wire' = wire /\ pending'[mine] = pending[mine]
          BY <2>5, <3>2 DEF Cancels, Silent
        <4>2. QED
          BY <1>14, <2>1, <2>2, <3>2, <4>1
      <3>3. QED
        BY <3>1, <3>2
    <2>6. CASE SaysAgain(mine)
      <3>1. RunStart(mine) \in Frames /\ RunStart(mine) \notin frames
        BY <1>9, <1>10, FrameFields
      <3>2. Sent(RunStart(mine)) /\ isTerminal(status[mine]) /\ pending'[mine] = pending[mine]
        BY <2>6 DEF SaysAgain
      <3>3. QED
        BY <1>14, <2>1, <2>2, <3>1, <3>2
    <2>7. QED
      BY <2>1, <2>3, <2>4, <2>5, <2>6
  <1>17. CASE Elsewhere /\ (Browsers \/ \E c \in Slots : Handle(c))
    <2>1. Paused' = Paused
      BY <1>17 DEF Browsers, Handle, screen, bulkRun
    <2>2. ~\E c \in Slots : Answered(c)
      <3>1. SUFFICES ASSUME NEW d \in Slots, Answered(d) PROVE FALSE
        OBVIOUS
      <3>2. /\ calls' = [calls EXCEPT ![d] = Free] /\ DOMAIN calls = Slots /\ calls[d].stage \in {"ok", "refused"}
            /\ calls[d] # Free
        BY <1>2, <3>1 DEF Answered, WizardTypeOK, Free
      <3>3. CASE Browsers
        BY <3>2, <3>3 DEF Browsers
      <3>4. ASSUME NEW c \in Slots, Handle(c) PROVE FALSE
        BY <1>2, <3>2, <3>4, HandleMoves
      <3>5. QED
        BY <1>17, <3>3, <3>4
    <2>3. /\ wire' = wire \/ \E f \in Frames : Sent(f) /\ f \notin frames
          /\ status'[mine] = status[mine] /\ pending'[mine] = pending[mine] /\ cancel'[mine] = cancel[mine]
      BY <1>10, <1>17 DEF Elsewhere
    <2>4. QED
      BY <1>14, <2>1, <2>2, <2>3
  <1>18. CASE onFrame /\ Head(wire).run = mine
    <2>1. PICK f : f = Head(wire)
      OBVIOUS
    <2>2. f \in Frames /\ wire # <<>> /\ wire' = Tail(wire) /\ f.run = mine /\ wire \in Seq(Frames)
      BY <1>2, <1>18, <2>1, TailPlaces DEF onFrame, WizardTypeOK
    <2>3. Paused' = FoldPaused(f) /\ UNCHANGED <<status, pending, cancel>> /\ calls' = calls
      BY <1>18, <2>1 DEF onFrame, engine, vars
    <2>4. NoPause # [run |-> m, gate |-> g]
      BY <1>9 DEF NoPause
    <2>5. f \notin frames => Paused' = Paused
      BY <1>10, <2>2, <2>3 DEF FoldPaused
    <2>6. f \in frames => IF f.Type = "paused" THEN Paused' = [run |-> m, gate |-> f.gate] ELSE Paused' = NoPause
      BY <1>9, <1>10, <2>2, <2>3 DEF FoldPaused
    <2>7. /\ f \in frames => (showsnow <=> f \in gates) /\ (nonenow <=> f \in ends)
          /\ f \notin frames => (showsnow <=> shows) /\ (nonenow <=> none)
      <3>1. CASE f \notin frames
        BY <1>5, <2>5, <3>1
      <3>2. CASE f \in frames /\ f.Type = "paused"
        <4>1. Paused' = [run |-> m, gate |-> f.gate]
          BY <2>6, <3>2
        <4>2. Paused' # NoPause
          BY <1>9, <4>1 DEF NoPause
        <4>3. Paused' = [run |-> m, gate |-> g] <=> f.gate = g
          BY <4>1
        <4>4. QED
          BY <1>5, <1>10, <2>2, <3>2, <4>2, <4>3
      <3>3. CASE f \in frames /\ f.Type # "paused"
        <4>1. Paused' = NoPause /\ f.Type = "run-end"
          BY <1>10, <2>2, <2>6, <3>3
        <4>2. QED
          BY <1>5, <1>10, <2>2, <2>4, <3>3, <4>1
      <3>4. QED
        BY <3>1, <3>2, <3>3
    <2>8. /\ WillSay(frames, gates, showsnow)' <=> WillSay(frames, gates, shows)
          /\ WillSay(frames, ends, nonenow)' <=> WillSay(frames, ends, none)
      BY <1>2, <2>1, <2>2, <2>7, WillCome
    <2>9. ASSUME Tells(frames, wire) = {}, NEW c \in Slots, TakesOff(c)
          PROVE  Tells(frames, wire') = {} /\ TakesOff(c)'
      <3>1. f \notin frames /\ Tells(frames, wire') = {}
        BY <2>1, <2>2, <2>9, SayTail
      <3>2. QED
        BY <1>9, <2>3, <2>5, <2>9, <3>1 DEF TakesOff, IsGateCall
    <2>10. g = pending[mine]
      BY <1>3, <1>9, <2>3
    <2>11. QED
      BY <1>11, <2>3, <2>8, <2>9, <2>10
  <1>19. CASE ClickCancel \/ ClickRetry \/ \E kind \in GateKinds : ClickGate(kind)
    <2>1. UNCHANGED <<engine, wire>> /\ UNCHANGED <<status, step, pending, cancel, shown>>
      BY <1>19, EngineRests
    <2>2. Paused' = Paused
      BY <1>19 DEF ClickCancel, ClickRetry, ClickGate, screen, bulkRun
    <2>3. ~\E c \in Slots : Answered(c)
      <3>1. SUFFICES ASSUME NEW d \in Slots, Answered(d) PROVE FALSE
        OBVIOUS
      <3>2. calls'[d] = Free /\ calls[d] # Free
        BY <1>2, <3>1 DEF Answered, WizardTypeOK, Free
      <3>3. \A kind, r, gate : Send(kind, r, gate) => calls'[d] = calls[d] \/ calls[d] = Free
        BY <1>2, SendMoves
      <3>4. QED
        BY <1>19, <3>2, <3>3 DEF ClickCancel, ClickRetry, ClickGate
    <2>4. QED
      BY <1>14, <2>1, <2>2, <2>3
  <1>20. ASSUME NEW c \in Slots, Answered(c)
         PROVE  /\ pending'[mine] # NoGate => WillSay(frames, gates, showsnow)'
                /\ pending'[mine] = NoGate =>
                      \/ WillSay(frames, ends, nonenow)'
                      \/ cancel'[mine] /\ ~isTerminal(status'[mine])
                      \/ Tells(frames, wire') = {} /\ \E d \in Slots : TakesOff(d)'
    <2>1. wire' = wire /\ UNCHANGED <<status, pending, cancel>> /\ g = pending[mine]
      BY <1>3, <1>9, <1>20, EngineRests
    <2>2. calls' = [calls EXCEPT ![c] = Free] /\ DOMAIN calls = Slots
      BY <1>2, <1>20 DEF Answered, WizardTypeOK
    <2>3. \/ Paused' = Paused /\ ~TakesOff(c)
          \/ Paused' = NoPause /\ Paused = NoPause
          \/ Paused' = NoPause /\ Paused # NoPause /\ Paused.run = mine /\ pending[mine] # Paused.gate
      BY <1>1, <1>9, <1>20, AnswerMoves DEF Own
    <2>4. CASE Paused' = Paused
      <3>1. ~TakesOff(c)
        BY <1>2, <2>3, <2>4 DEF TakesOff, CallInv
      <3>2. ASSUME NEW d \in Slots, TakesOff(d) PROVE TakesOff(d)'
        <4>1. d # c /\ calls'[d] = calls[d]
          BY <2>2, <3>1, <3>2
        <4>2. QED
          BY <1>9, <2>4, <3>2, <4>1 DEF TakesOff, IsGateCall
      <3>3. QED
        BY <1>11, <1>13, <2>1, <2>4, <3>2
    <2>5. CASE Paused' = NoPause /\ Paused # NoPause /\ Paused.run = mine /\ pending[mine] # Paused.gate
      <3>1. ~shows /\ nonenow
        BY <1>5, <1>9, <2>1, <2>5
      <3>2. WillSay(frames, gates, shows) => WillSay(frames, gates, showsnow)'
        BY <2>1, <3>1 DEF WillSay
      <3>3. ~none
        BY <1>5, <2>5
      <3>4. WillSay(frames, ends, none) \/ Tells(frames, wire) = {} => WillSay(frames, ends, nonenow)'
        BY <2>1, <3>1, <3>3 DEF WillSay
      <3>5. QED
        BY <1>11, <2>1, <3>2, <3>4
    <2>6. QED
      BY <2>3, <2>4, <2>5
  <1>21. QED
    BY <1>9, <1>15, <1>16, <1>17, <1>18, <1>19, <1>20

-----------------------------------------------------------------------------
(* The invariant of the wizard. *)

LEMMA WizardInvInit == WizardInit => WizardInv
  <1> SUFFICES ASSUME WizardInit PROVE WizardInv
    OBVIOUS
  <1>1. (\A r \in Runs : GateInv(r)) /\ OneGated
    BY GatesInit DEF WizardInit
  <1>2. WireInv
    BY DEF WizardInit, WireInv, FramesInv
  <1>3. \A c \in Slots : calls[c] = Free
    BY DEF WizardInit
  <1>4. \A c \in Slots : CallInv(c)
    BY <1>3 DEF CallInv, RunCall, IsGateCall, GateKinds, Free
  <1>5. \A r \in Runs : granted[r] = {}
    BY DEF WizardInit, Init
  <1>6. ClickInv
    BY <1>3, <1>5 DEF ClickInv, Free
  <1>7. mine = NoRun /\ RunHash = NoRun /\ page = "choose"
    BY DEF WizardInit
  <1>8. MineInv
    BY <1>7 DEF MineInv
  <1>9. StepsToldInv /\ PendingToldInv /\ StatusToldInv /\ GateToldInv
    BY <1>7 DEF StepsToldInv, PendingToldInv, StatusToldInv, GateToldInv, Own
  <1>10. NoStepSkipped
    BY DEF WizardInit, Init, NewRecord, NoStepSkipped
  <1>11. QED
    BY <1>1, <1>2, <1>4, <1>6, <1>8, <1>9, <1>10 DEF WizardInv

LEMMA WizardInvStep == Base /\ WizardInv /\ [WizardNext]_wizardVars => Base' /\ WizardInv'
  <1> SUFFICES ASSUME Base, WizardInv, [WizardNext]_wizardVars PROVE Base' /\ WizardInv'
    OBVIOUS
  <1>1. Wizards /\ NoStepSkipped /\ StepsToldInv /\ PendingToldInv /\ StatusToldInv /\ GateToldInv
    BY DEF WizardInv, Wizards
  <1>2. Base' /\ (\A r \in Runs : GateInv(r))' /\ OneGated'
    BY BaseStep DEF Base
  <1>3. WireInv'
    BY <1>1, WireInvStep DEF Wizards
  <1>4. \A c \in Slots : CallInv(c)'
    BY <1>1, CallInvStep
  <1>5. ClickInv' /\ MineInv'
    BY <1>1, ClickInvStep, MineInvStep
  <1>6. StepsToldInv' /\ PendingToldInv' /\ StatusToldInv' /\ GateToldInv'
    BY <1>1, StepsToldStep, PendingToldStep, StatusToldStep, GateToldStep
  <1>7. NoStepSkipped'
    BY <1>1, NoStepSkippedStep, Moves DEF Wizards
  <1>8. QED
    BY <1>2, <1>3, <1>4, <1>5, <1>6, <1>7 DEF WizardInv

\* What calls, frames, clicks and the record on the screen say of the engine is
\* so, or comes to be so when the frames under way have arrived: over every
\* interleaving of the manager's event loop, the socket, the answers and the
\* operator's clicks, with losses and deaths of the manager between them.
THEOREM WizardInvariant == WizardSpec => []WizardInv
  <1>1. WizardInit => Base /\ WizardInv
    BY BaseInit, WizardInvInit
  <1>2. QED
    BY <1>1, WizardInvStep, PTL DEF WizardSpec

\* No publish behind a gate runs without a click made for its run on that gate:
\* late, repeated and misdirected answers release none.
THEOREM PublishWasClickedHolds == WizardSpec => []PublishWasClicked
  <1>1. Base /\ WizardInv => PublishWasClicked
    <2>1. SUFFICES ASSUME Base, WizardInv, NEW r \in Runs, NEW w \in Pool,
                          worker[r][w].pc = "exec", ~auto[r],
                          OpKind[worker[r][w].step][worker[r][w].action] = "publish",
                          NEW g, g = [step |-> worker[r][w].step, action |-> worker[r][w].action]
                   PROVE  \E k \in clicked :
                            /\ k.run = r /\ k.shown.gate = g
                            /\ k.shown.run = r \/ k.foreign
      BY DEF PublishWasClicked
    <2>2. g \in granted[r]
      BY <2>1 DEF Base, RecordsInv, DiskInv, GrantInv
    <2>3. QED
      BY <2>1, <2>2 DEF WizardInv, ClickInv
  <1>2. QED
    BY <1>1, BaseInvariant, WizardInvariant, PTL

\* Nothing is under way: all calls were answered, all frames handled.
LEMMA QuietIs ==
    ASSUME Base, Quiet, NEW frames
    PROVE  Tells(frames, wire) = {} /\ \A c \in Slots : calls[c].stage = "free"
  <1>1. wire = <<>> /\ Under("free") = Slots
    BY DEF Quiet
  <1>2. \A c \in Slots : calls[c].stage = "free"
    BY <1>1 DEF Under
  <1>3. QED
    BY <1>1, <1>2, SayNone

\* The gate a run waits at is on the screen when everything has arrived, and no
\* other: no answer has taken it off, and no ended run shows one.
THEOREM GateOnScreenHolds == WizardSpec => []GateOnScreen
  <1>1. Base /\ WizardInv => GateOnScreen
    <2>1. SUFFICES ASSUME Base, WizardInv, Quiet, Clear({"lost", "foreign", "wiped"}),
                          cancel[mine] => isTerminal(status[mine])
                   PROVE  Paused = IF pending[mine] = NoGate THEN NoPause
                                   ELSE [run |-> mine, gate |-> pending[mine]]
      BY DEF GateOnScreen
    <2>2. Tells(GateFrames, wire) = {} /\ \A c \in Slots : calls[c].stage # "ok"
      BY <2>1, QuietIs
    <2>3. /\ Own({"lost", "foreign", "wiped"}) /\ GateToldInv
      BY <2>1 DEF Clear, Own, WizardInv
    <2>4. CASE pending[mine] # NoGate
      BY <2>2, <2>3, <2>4 DEF GateToldInv, GateWillBe, WillSay
    <2>5. CASE pending[mine] = NoGate
      BY <2>1, <2>2, <2>3, <2>5 DEF GateToldInv, NoGateWillBe, WillSay
    <2>6. QED
      BY <2>4, <2>5
  <1>2. QED
    BY <1>1, BaseInvariant, WizardInvariant, PTL

\* The record on the screen is the run's when everything has arrived, step by
\* step, and in the way it ended, whatever was retried: but that a step put back
\* by a retry shows its error until it is begun again.
THEOREM ScreenMirrorsRunHolds == WizardSpec => []ScreenMirrorsRun
  <1>1. Base /\ WizardInv => ScreenMirrorsRun
    <2>1. SUFFICES ASSUME Base, WizardInv, Quiet, Clear({"lost", "foreign", "astray"})
                   PROVE  /\ \A s \in Steps : StepStatus[s] = step[mine][s] \/ PutBack(s)
                          /\ isTerminal(status[mine]) => Status = status[mine]
                          /\ isTerminal(Status) => status[mine] = Status
      BY DEF ScreenMirrorsRun
    <2>2. /\ \A s \in Steps : Tells(StepFrames(s), wire) = {}
          /\ Tells(StatusFrames, wire) = {} /\ \A c \in Slots : calls[c].stage # "sent"
      BY <2>1, QuietIs
    <2>3. /\ Own({"lost", "foreign"}) /\ Own({"lost", "foreign", "astray"}) /\ RunHash = mine /\ mine # NoRun
          /\ StepsToldInv /\ PendingToldInv /\ StatusToldInv /\ MineInv
      BY <2>1 DEF Clear, Own, WizardInv
    <2>4. status[mine] # "Absent"
      BY <2>3 DEF MineInv
    <2>5. \A s \in Steps : StepStatus[s] = step[mine][s] \/ PutBack(s)
      BY <2>2, <2>3 DEF StepsToldInv, PendingToldInv, StepWillBe, WillSay, PutBack
    <2>6. \A v : StatusWillBe(v) <=> Status = v
      BY <2>2 DEF StatusWillBe, WillSay
    <2>7. isTerminal(status[mine]) => Status = status[mine]
      BY <2>2, <2>3, <2>4, <2>6 DEF StatusToldInv
    <2>8. isTerminal(Status) => status[mine] = Status
      BY <2>3, <2>4, <2>6 DEF StatusToldInv, isTerminal, RunStates
    <2>9. QED
      BY <2>5, <2>7, <2>8
  <1>2. QED
    BY <1>1, BaseInvariant, WizardInvariant, PTL

=============================================================================
