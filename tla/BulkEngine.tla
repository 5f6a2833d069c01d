----------------------------- MODULE BulkEngine -----------------------------
(***************************************************************************)
(* The bulk-operation engine: source/bulk/BulkOperation-Engine.js with the *)
(* run manifest it checkpoints to (BulkOperation-Manifest.js).             *)
(*                                                                         *)
(* A run walks its plan's steps (one per target module); a step is a chain *)
(* of actions.  A ripple run has one sequential loop, a bulk run a pool of *)
(* workers that share the list of steps.  JavaScript runs to completion    *)
(* between awaits, so the model has two kinds of step:                     *)
(*                                                                         *)
(*   - a worker that is not parked on an await ("loop" or "action") takes  *)
(*     the next piece of synchronous code;                                 *)
(*   - an API call or the answer of an awaited validator, gate or task is  *)
(*     an event, and is handled only when no worker can run: Idle.         *)
(*                                                                         *)
(* The process may die in any state (Crash), also between two checkpoints  *)
(* of one turn; the next process knows only what is on disk.               *)
(***************************************************************************)
EXTENDS Integers, FiniteSets

CONSTANTS
    Runs,        \* run hashes
    Ripple,      \* the runs whose plan has Type "ripple" (executed serially)
    NumSteps,    \* steps of a plan
    NumActions,  \* actions of a step
    OpKind,      \* OpKind[s][a]: "task", "publish" (gated) or "unknown" (not registered)
    Concurrency  \* size of the worker pool of a bulk run

Steps   == 1..NumSteps
Actions == 1..NumActions
Pool    == 1..Concurrency

ASSUME EngineAssumption ==
    /\ Ripple \subseteq Runs
    /\ NumSteps \in Nat \ {0}
    /\ NumActions \in Nat \ {0}
    /\ OpKind \in [Steps -> [Actions -> {"task", "publish", "unknown"}]]
    /\ Concurrency \in Nat \ {0}

RunStates  == {"Queued", "Running", "Waiting", "Complete", "Failed", "Cancelled"}
StepStates == {"Pending", "Running", "Complete", "Error", "Skipped"}
isTerminal(s) == s \in {"Complete", "Failed", "Cancelled"}

Gate   == [step : Steps, action : Actions]
NoGate == [step |-> 0, action |-> 0]

VARIABLES
    status,   \* Run.Status; "Absent" before createRun
    step,     \* Run.Steps[s].Status
    act,      \* Run.Steps[s].Actions[a].Status
    disk,     \* the manifest file of each run, as last checkpointed
    live,     \* the runs in the engine's _active map
    cancel,   \* context.Cancel
    auto,     \* context.AutoConfirm
    pending,  \* context.PendingConfirm
    queue,    \* steps the run's loop or pool has not taken yet
    worker,   \* where each of the run's workers is
    shown,    \* gates announced to clients in "paused" events
    granted,  \* history: gates a client confirmed
    declined, \* history: actions skipped by a client's answer or by their task
    yes       \* history: the AutoConfirm option the operator gave to run()

record  == <<status, step, act>>
context == <<live, cancel, auto>>
client  == <<shown, granted, declined, yes>>
vars == <<status, step, act, disk, live, cancel, auto, pending, queue,
          worker, shown, granted, declined, yes>>

-----------------------------------------------------------------------------
(* Workers. *)

Off      == [pc |-> "off", step |-> 0, action |-> 0]
AtLoop   == [pc |-> "loop", step |-> 0, action |-> 0]
On(p, s, a) == [pc |-> p, step |-> s, action |-> a]

\* A ripple run has a single sequential loop; a bulk run a pool.
Workers(r) == IF r \in Ripple THEN {1} ELSE Pool

At(r, w, p) == r \in live /\ worker[r][w].pc = p
Ready(r, w) == worker[r][w].pc \in {"loop", "action"}
AllOff(r)   == \A w \in Pool : worker[r][w].pc = "off"

\* Synchronous code of run r is still to be executed in this turn.
InTurn(r) == \/ \E w \in Pool : Ready(r, w)
             \/ AllOff(r) /\ ~isTerminal(status[r])

\* No synchronous code is left: the event loop may deliver the next event.
Idle == \A r \in live : ~InTurn(r)

MoveTo(r, w, place) == worker' = [worker EXCEPT ![r][w] = place]

\* manifest.checkpoint: one atomic write of the record as it now is.
checkpoint(r) ==
    disk' = [disk EXCEPT ![r] = [status |-> status'[r], step |-> step'[r], act |-> act'[r]]]

SetAction(r, s, a, v) == act' = [act EXCEPT ![r][s][a] = v]

-----------------------------------------------------------------------------
(* run() and the start of _execute. *)

\* Mutant: run() does not look for an active run.
hasActiveRunNever == FALSE

hasActiveRun == \E r \in live : ~isTerminal(status[r])

Run(r, autoConfirm) ==
    /\ Idle
    /\ ~hasActiveRun
    /\ status[r] = "Absent"
    /\ status' = [status EXCEPT ![r] = "Queued"]
    /\ UNCHANGED <<step, act>>
    /\ checkpoint(r)
    /\ live' = live \cup {r}
    /\ auto' = [auto EXCEPT ![r] = autoConfirm]
    /\ yes' = [yes EXCEPT ![r] = autoConfirm]
    /\ queue' = [queue EXCEPT ![r] = Steps]
    /\ UNCHANGED <<cancel, pending, worker, shown, granted, declined>>

StartWorkers(r) ==
    worker' = [worker EXCEPT ![r] = [w \in Pool |-> IF w \in Workers(r) THEN AtLoop ELSE Off]]

Execute(r) ==
    /\ r \in live /\ status[r] = "Queued"
    /\ status' = [status EXCEPT ![r] = "Running"]
    /\ UNCHANGED <<step, act>>
    /\ checkpoint(r)
    /\ StartWorkers(r)
    /\ UNCHANGED <<context, pending, queue, client>>

-----------------------------------------------------------------------------
(* The loop of _execute and _runPool, and _runStep up to its first action. *)

\* Mutant: the action loop forgets the flag.
StoppingNever(r) == FALSE

Stopping(r) == cancel[r]

AfterTaking(r, s) == queue[r] \ {s}

\* Mutant: the loop waits for the flag only.
DrainedOnCancel(r) == cancel[r]

Drained(r) == cancel[r] \/ queue[r] = {}

TakeStep(r, w) ==
    /\ At(r, w, "loop")
    /\ ~Stopping(r)
    /\ \E s \in queue[r] :
        /\ \A t \in queue[r] : s <= t
        /\ queue' = [queue EXCEPT ![r] = AfterTaking(r, s)]
        /\ step' = [step EXCEPT ![r][s] = "Running"]
        /\ MoveTo(r, w, On("action", s, 1))
    /\ UNCHANGED <<status, act>>
    /\ checkpoint(r)
    /\ UNCHANGED <<context, pending, client>>

LeaveLoop(r, w) ==
    /\ At(r, w, "loop")
    /\ Drained(r)
    /\ MoveTo(r, w, Off)
    /\ UNCHANGED <<record, disk, context, pending, queue, client>>

-----------------------------------------------------------------------------
(* The action loop of _runStep and _runAction up to its first await. *)

\* Mutant: a failed step does not halt the cascade.
AfterErrorGoOn(r) == AtLoop

AfterError(r) == IF r \in Ripple THEN Off ELSE AtLoop

\* An action that threw: the action and its step are in error, the rest of
\* the chain is left as it is, and a serial run halts.
FailAction(r, w) ==
    LET s == worker[r][w].step
        a == worker[r][w].action
    IN  /\ SetAction(r, s, a, "Error")
        /\ step' = [step EXCEPT ![r][s] = "Error"]
        /\ UNCHANGED status
        /\ checkpoint(r)
        /\ MoveTo(r, w, AfterError(r))
        /\ UNCHANGED <<context, pending, queue, client>>

NextAction(r, w) ==
    LET s == worker[r][w].step
        a == worker[r][w].action
    IN  /\ At(r, w, "action")
        /\ a \in Actions
        /\ \/ /\ act[r][s][a] = "Complete"              \* done before a retry
              /\ MoveTo(r, w, On("action", s, a + 1))
              /\ UNCHANGED act
           \/ /\ act[r][s][a] # "Complete" /\ Stopping(r)
              /\ SetAction(r, s, a, "Skipped")
              /\ MoveTo(r, w, On("action", s, a + 1))
           \/ /\ act[r][s][a] # "Complete" /\ ~Stopping(r)
              /\ OpKind[s][a] # "unknown"
              /\ SetAction(r, s, a, "Running")
              /\ MoveTo(r, w, On(IF OpKind[s][a] = "publish" THEN "validate" ELSE "exec", s, a))
        /\ UNCHANGED <<status, step, disk, context, pending, queue, client>>

UnknownOp(r, w) ==
    LET s == worker[r][w].step
        a == worker[r][w].action
    IN  /\ At(r, w, "action")
        /\ a \in Actions
        /\ act[r][s][a] # "Complete" /\ ~Stopping(r)
        /\ OpKind[s][a] = "unknown"
        /\ FailAction(r, w)

EndStep(r, w) ==
    /\ At(r, w, "action")
    /\ worker[r][w].action \notin Actions
    /\ step' = [step EXCEPT ![r][worker[r][w].step] = "Complete"]
    /\ UNCHANGED <<status, act>>
    /\ checkpoint(r)
    /\ MoveTo(r, w, AtLoop)
    /\ UNCHANGED <<context, pending, queue, client>>

Verdict(r) == IF cancel[r] THEN "Cancelled"
              ELSE IF \E s \in Steps : step[r][s] = "Error" THEN "Failed"
              ELSE "Complete"

\* _finalize, once the loop or every worker of the pool has returned.
Finalize(r) ==
    /\ r \in live
    /\ status[r] \in {"Running", "Waiting"}
    /\ AllOff(r)
    /\ status' = [status EXCEPT ![r] = Verdict(r)]
    /\ UNCHANGED <<step, act>>
    /\ checkpoint(r)
    /\ UNCHANGED <<context, pending, queue, worker, client>>

-----------------------------------------------------------------------------
(* What the workers await: the validator, the operator, the task itself.   *)

\* The validator's report arrives and the confirm gate opens.
OpenGate(r, w) ==
    LET g == [step |-> worker[r][w].step, action |-> worker[r][w].action]
    IN  /\ Idle
        /\ At(r, w, "validate")
        /\ ~auto[r]
        /\ status' = [status EXCEPT ![r] = "Waiting"]
        /\ pending' = [pending EXCEPT ![r] = g]
        /\ shown' = [shown EXCEPT ![r] = @ \cup {g}]
        /\ UNCHANGED <<step, act>>
        /\ checkpoint(r)
        /\ MoveTo(r, w, On("gate", g.step, g.action))
        /\ UNCHANGED <<context, queue, granted, declined, yes>>

\* Under AutoConfirm a good report lets the task start at once.
PassGate(r, w) ==
    /\ Idle
    /\ At(r, w, "validate")
    /\ auto[r]
    /\ MoveTo(r, w, On("exec", worker[r][w].step, worker[r][w].action))
    /\ UNCHANGED <<record, disk, context, pending, queue, client>>

\* The validator threw or, under AutoConfirm, reported OkToPublish = false.
RefuseGate(r, w) ==
    /\ Idle
    /\ At(r, w, "validate")
    /\ FailAction(r, w)

\* The task returned, with or without Skip.
TaskReturns(r, w, outcome) ==
    LET s == worker[r][w].step
        a == worker[r][w].action
    IN  /\ Idle
        /\ At(r, w, "exec")
        /\ SetAction(r, s, a, outcome)
        /\ UNCHANGED <<status, step>>
        /\ checkpoint(r)
        /\ MoveTo(r, w, On("action", s, a + 1))
        /\ declined' = [declined EXCEPT ![r] =
              IF outcome = "Skipped" THEN @ \cup {[step |-> s, action |-> a]} ELSE @]
        /\ UNCHANGED <<context, pending, queue, shown, granted, yes>>

TaskThrows(r, w) ==
    /\ Idle
    /\ At(r, w, "exec")
    /\ FailAction(r, w)

-----------------------------------------------------------------------------
(* confirm, cancel, retry. *)

\* The worker parked on gate g, if the promise it awaits is still reachable.
ParkedOn(r, g) == {w \in Pool : worker[r][w] = On("gate", g.step, g.action)}

\* The 'skip' decision: the action is skipped and the chain goes on.
SkipAt(r, g) ==
    /\ SetAction(r, g.step, g.action, "Skipped")
    /\ worker' = [worker EXCEPT ![r] =
         [w \in Pool |-> IF w \in ParkedOn(r, g) THEN On("action", g.step, g.action + 1)
                                                 ELSE worker[r][w]]]

\* Mutant: any answer is taken for the pending gate.
MatchesAny(r, g) == TRUE

\* A client answers a gate it was shown.  The answer names the step and the
\* preview hash of that gate, and may arrive late or twice: it is accepted
\* only when both are those of the gate that is pending now.
Matches(r, g) == pending[r] = g

Confirm(r, g) ==
    /\ Idle
    /\ r \in live /\ pending[r] # NoGate
    /\ g \in shown[r] /\ Matches(r, g)
    /\ LET p == pending[r]
       IN  worker' = [worker EXCEPT ![r] =
             [w \in Pool |-> IF w \in ParkedOn(r, p) THEN On("exec", p.step, p.action)
                                                     ELSE worker[r][w]]]
    /\ pending' = [pending EXCEPT ![r] = NoGate]
    /\ status' = [status EXCEPT ![r] = "Running"]
    /\ granted' = [granted EXCEPT ![r] = @ \cup {g}]
    /\ UNCHANGED <<step, act>>
    /\ checkpoint(r)
    /\ UNCHANGED <<context, queue, shown, declined, yes>>

ConfirmSkip(r, g) ==
    /\ Idle
    /\ r \in live /\ pending[r] # NoGate
    /\ g \in shown[r] /\ Matches(r, g)
    /\ SkipAt(r, pending[r])
    /\ pending' = [pending EXCEPT ![r] = NoGate]
    /\ status' = [status EXCEPT ![r] = "Running"]
    /\ declined' = [declined EXCEPT ![r] = @ \cup {pending[r]}]
    /\ UNCHANGED step
    /\ checkpoint(r)
    /\ UNCHANGED <<context, queue, shown, granted, yes>>


ReleaseGate(r) ==
    IF pending[r] = NoGate
    THEN UNCHANGED <<record, disk, pending, worker>>
    ELSE /\ SkipAt(r, pending[r])
         /\ pending' = [pending EXCEPT ![r] = NoGate]
         /\ UNCHANGED <<status, step>>
         /\ checkpoint(r)

\* cancel(): the flag is read by the loops; a pending gate is answered 'skip'.
\* Killing the shell only makes its task return sooner (TaskReturns).
Cancel(r) ==
    /\ Idle
    /\ r \in live
    /\ cancel' = [cancel EXCEPT ![r] = TRUE]
    /\ ReleaseGate(r)
    /\ UNCHANGED <<live, auto, queue, client>>

\* The first failed step, or the first step when none failed.
FirstError(r) ==
    LET failed == {s \in Steps : step[r][s] = "Error"}
    IN  IF failed = {} THEN 1 ELSE CHOOSE s \in failed : \A t \in failed : s <= t

\* From the first failed step on, what is not complete becomes pending.
ResetSteps(r) ==
    step' = [step EXCEPT ![r] = [s \in Steps |->
        IF s >= FirstError(r) /\ @[s] # "Complete" THEN "Pending" ELSE @[s]]]

\* Mutant: the actions a failed step had completed are reset too.
ResetAllActions(r) ==
    act' = [act EXCEPT ![r] = [s \in Steps |-> [a \in Actions |->
        IF s >= FirstError(r) /\ step[r][s] # "Complete" THEN "Pending" ELSE @[s][a]]]]

ResetActions(r) ==
    act' = [act EXCEPT ![r] = [s \in Steps |-> [a \in Actions |->
        IF s >= FirstError(r) /\ step[r][s] # "Complete" /\ @[s][a] # "Complete"
        THEN "Pending" ELSE @[s][a]]]]

\* Mutant: off by one, the failed step itself is not run again.
ToRunAfterError(r) == {s \in Steps : step'[r][s] # "Complete" /\ s > FirstError(r)}

ToRun(r) == {s \in Steps : step'[r][s] # "Complete"}

\* retry() is granted to any run in a terminal state, whatever else runs; it
\* builds a new context with AutoConfirm on and starts its loop or pool.
Retry(r) ==
    /\ Idle
    /\ isTerminal(status[r])
    /\ ResetSteps(r)
    /\ ResetActions(r)
    /\ status' = [status EXCEPT ![r] = "Running"]
    /\ live' = live \cup {r}
    /\ cancel' = [cancel EXCEPT ![r] = FALSE]
    /\ auto' = [auto EXCEPT ![r] = TRUE]
    /\ pending' = [pending EXCEPT ![r] = NoGate]
    /\ queue' = [queue EXCEPT ![r] = ToRun(r)]
    /\ StartWorkers(r)
    /\ UNCHANGED <<disk, client>>

-----------------------------------------------------------------------------
(* The manager process dies and is started again. *)

Crash ==
    /\ live # {}
    /\ live' = {}
    /\ status' = [r \in Runs |-> disk[r].status]
    /\ step' = [r \in Runs |-> disk[r].step]
    /\ act' = [r \in Runs |-> disk[r].act]
    /\ cancel' = [r \in Runs |-> FALSE]
    /\ auto' = [r \in Runs |-> FALSE]
    /\ pending' = [r \in Runs |-> NoGate]
    /\ queue' = [r \in Runs |-> {}]
    /\ worker' = [r \in Runs |-> [w \in Pool |-> Off]]
    /\ UNCHANGED <<disk, client>>

-----------------------------------------------------------------------------

NewRecord == [status |-> "Absent",
              step |-> [s \in Steps |-> "Pending"],
              act |-> [s \in Steps |-> [a \in Actions |-> "Pending"]]]

Init ==
    /\ status = [r \in Runs |-> "Absent"]
    /\ step = [r \in Runs |-> NewRecord.step]
    /\ act = [r \in Runs |-> NewRecord.act]
    /\ disk = [r \in Runs |-> NewRecord]
    /\ live = {}
    /\ cancel = [r \in Runs |-> FALSE]
    /\ auto = [r \in Runs |-> FALSE]
    /\ pending = [r \in Runs |-> NoGate]
    /\ queue = [r \in Runs |-> {}]
    /\ worker = [r \in Runs |-> [w \in Pool |-> Off]]
    /\ shown = [r \in Runs |-> {}]
    /\ granted = [r \in Runs |-> {}]
    /\ declined = [r \in Runs |-> {}]
    /\ yes = [r \in Runs |-> FALSE]

\* The synchronous code of one worker.
WorkerTurn(r, w) ==
    TakeStep(r, w) \/ LeaveLoop(r, w) \/ NextAction(r, w) \/ UnknownOp(r, w) \/ EndStep(r, w)

\* The answers that validators and tasks give to a worker.
Answer(r, w) ==
    \/ OpenGate(r, w) \/ PassGate(r, w) \/ RefuseGate(r, w)
    \/ TaskReturns(r, w, "Complete") \/ TaskReturns(r, w, "Skipped") \/ TaskThrows(r, w)

\* The operator's calls.
Operator(r) ==
    \/ \E b \in BOOLEAN : Run(r, b)
    \/ \E g \in Gate : Confirm(r, g) \/ ConfirmSkip(r, g)
    \/ Cancel(r)
    \/ Retry(r)

Next ==
    \/ \E r \in Runs :
        \/ Execute(r)
        \/ Finalize(r)
        \/ \E w \in Pool : WorkerTurn(r, w) \/ Answer(r, w)
        \/ Operator(r)
    \/ Crash

Spec == Init /\ [][Next]_vars

\* The event loop runs synchronous code to its end and, between turns,
\* delivers every answer that is due; validators and tasks return (a task
\* that never ends is outside this assumption).  Nothing is assumed of the
\* operator or of crashes.
Fairness ==
    /\ \A r \in Runs : WF_vars(Execute(r)) /\ WF_vars(Finalize(r))
    /\ \A r \in Runs, w \in Pool : WF_vars(WorkerTurn(r, w)) /\ SF_vars(Answer(r, w))

FairSpec == Spec /\ Fairness

-----------------------------------------------------------------------------
(* Correctness. *)

RecordType == [status : RunStates \cup {"Absent"},
               step : [Steps -> StepStates],
               act : [Steps -> [Actions -> StepStates]]]

Places == {Off, AtLoop}
          \cup [pc : {"action"}, step : Steps, action : 1..(NumActions + 1)]
          \cup [pc : {"validate", "gate", "exec"}, step : Steps, action : Actions]

\* Every variable stays in its domain: the run, step and action states are
\* those of BulkOperation-Status.js, every index is within the plan.
TypeOK ==
    /\ status \in [Runs -> RunStates \cup {"Absent"}]
    /\ step \in [Runs -> [Steps -> StepStates]]
    /\ act \in [Runs -> [Steps -> [Actions -> StepStates]]]
    /\ disk \in [Runs -> RecordType]
    /\ live \in SUBSET Runs
    /\ cancel \in [Runs -> BOOLEAN]
    /\ auto \in [Runs -> BOOLEAN]
    /\ pending \in [Runs -> Gate \cup {NoGate}]
    /\ queue \in [Runs -> SUBSET Steps]
    /\ worker \in [Runs -> [Pool -> Places]]
    /\ shown \in [Runs -> SUBSET Gate]
    /\ granted \in [Runs -> SUBSET Gate]
    /\ declined \in [Runs -> SUBSET Gate]
    /\ yes \in [Runs -> BOOLEAN]

\* In a ripple no step is started, by run or by any later retry, before every
\* earlier step is complete: a consumer is never touched while a producer it
\* depends on is unfinished or failed.  The same holds of what is on disk.
InOrder(st) == \A s \in Steps : st[s] # "Pending" => \A t \in 1..(s-1) : st[t] = "Complete"

CascadeOrder == \A r \in Ripple : InOrder(step[r]) /\ InOrder(disk[r].step)

\* The workers of a pool share one list of steps: no two are on the same step,
\* also after a retry rebuilt the list.
OneWorkerPerStep ==
    \A r \in Runs, v, w \in Pool :
        v # w /\ worker[r][v].step # 0 => worker[r][v].step # worker[r][w].step

\* A run reported as ended has ended: no worker of it is left, no gate is open,
\* no step is under way; Complete means every step is, Failed that one failed.
Settled(st, steps) == isTerminal(st) =>
    /\ \A s \in Steps : steps[s] # "Running"
    /\ st = "Complete" => \A s \in Steps : steps[s] = "Complete"
    /\ st = "Failed" => \E s \in Steps : steps[s] = "Error"

SettledMeansDone ==
    \A r \in Runs :
        /\ isTerminal(status[r]) => AllOff(r) /\ pending[r] = NoGate
        /\ Settled(status[r], step[r])

\* A ripple parked on a confirm gate can be answered: the pending gate is the
\* one its loop awaits; and a ripple shown as Waiting has a gate to answer.
\* (A bulk run has not: a cancel() may release the gate while other workers of
\* the pool go on.)
GateAnswerable ==
    /\ \A r \in Ripple : worker[r][1].pc = "gate" =>
            status[r] = "Waiting" /\ worker[r][1] = On("gate", pending[r].step, pending[r].action)
    /\ Idle => \A r \in live \cap Ripple : status[r] = "Waiting" => ParkedOn(r, pending[r]) # {}

\* Without AutoConfirm a publish runs only when a client confirmed that very
\* gate: a late or repeated answer to an earlier gate never releases it.
OnlyConfirmedPublishes ==
    \A r \in Runs, w \in Pool :
        worker[r][w].pc = "exec" /\ ~auto[r]
            /\ OpKind[worker[r][w].step][worker[r][w].action] = "publish"
        => [step |-> worker[r][w].step, action |-> worker[r][w].action] \in granted[r]

\* Between turns the manifest on disk is the run in memory, but for actions
\* that were begun since: a crash then loses no result.
DiskCurrent ==
    Idle => \A r \in Runs :
        /\ disk[r].status = status[r]
        /\ disk[r].step = step[r]
        /\ \A s \in Steps, a \in Actions :
                disk[r].act[s][a] # act[r][s][a] => act[r][s][a] = "Running"

\* After cancel() the run winds down: no step is taken and no action begun, and
\* of the actions under way only those are still carried out whose pre-check was
\* awaited at the call.  Under AutoConfirm the task then starts with no further
\* look at the flag; otherwise the gate opens after the call and a client has to
\* confirm that very one.
CarriedOut(r, w) ==
    LET g == [step |-> worker[r][w].step, action |-> worker[r][w].action]
    IN  /\ worker'[r][w] = On("exec", g.step, g.action)
        /\ \/ auto[r] /\ worker[r][w].pc = "validate"
           \/ worker[r][w].pc = "gate" /\ pending[r] = g /\ g \in granted'[r]

WindsDown(r) ==
    /\ \A s \in Steps :
        /\ step'[r][s] = "Running" => step[r][s] = "Running"
        /\ \A a \in Actions : act'[r][s][a] = "Running" => act[r][s][a] = "Running"
    /\ \A w \in Pool :
        worker'[r][w].pc = "exec" /\ worker[r][w].pc # "exec" => CarriedOut(r, w)

CancelledRunWindsDown == [][\A r \in Runs : cancel[r] /\ cancel'[r] => WindsDown(r)]_vars

\* What was complete when the event loop last came to rest stays complete,
\* through errors, cancellations, retries and crashes: no publish is redone.
CompletedStaysCompleted ==
    [][Idle => \A r \in Runs, s \in Steps :
            /\ step[r][s] = "Complete" => step'[r][s] = "Complete"
            /\ \A a \in Actions : act[r][s][a] = "Complete" => act'[r][s][a] = "Complete"]_vars

\* A run that needs no operator comes to an end, unless the process dies.
AutoRunEnds == \A r \in Runs : (r \in live /\ auto[r]) ~> (r \notin live \/ isTerminal(status[r]))

-----------------------------------------------------------------------------
(* The inductive invariant behind the safety properties, run by run.         *)

Busy(r, w) == worker[r][w].pc \in {"action", "validate", "gate", "exec"}

\* Contexts: a run that is not live has no workers and no gate; one that was
\* never created, or is still queued, has everything before it.
ContextInv(r) ==
    /\ r \notin live => AllOff(r) /\ pending[r] = NoGate
    /\ status[r] = "Absent" => r \notin live /\ \A s \in Steps : step[r][s] = "Pending"
    /\ disk[r].status = "Absent" => \A s \in Steps : disk[r].step[s] = "Pending"
    /\ r \in live /\ status[r] = "Queued" => AllOff(r) /\ queue[r] = Steps
    /\ isTerminal(status[r]) => AllOff(r)
    /\ pending[r] # NoGate => ParkedOn(r, pending[r]) # {}

\* Workers: a busy worker owns a running step that has left the queue, and
\* every running step has an owner.
WorkerInv(r) ==
    /\ \A w \in Pool \ Workers(r) : worker[r][w].pc = "off"
    /\ \A w \in Pool : Busy(r, w) =>
            step[r][worker[r][w].step] = "Running" /\ worker[r][w].step \notin queue[r]
    /\ \A v, w \in Pool : v # w /\ Busy(r, v) /\ Busy(r, w) =>
            worker[r][v].step # worker[r][w].step
    /\ r \in live => \A s \in Steps : step[r][s] = "Running" =>
            \E w \in Pool : Busy(r, w) /\ worker[r][w].step = s

\* The queue: what left it was begun, what is in it is not complete; a worker
\* that has stopped had a reason to.
QueueInv(r) ==
    /\ \A s \in queue[r] : step[r][s] # "Complete"
    /\ r \in live => \A s \in Steps \ queue[r] : step[r][s] \in {"Complete", "Error", "Running"}
    /\ r \in live /\ status[r] # "Queued" => \A w \in Workers(r) : worker[r][w].pc = "off" =>
            \/ cancel[r]
            \/ queue[r] = {}
            \/ r \in Ripple /\ \E s \in Steps : step[r][s] = "Error"

RecordInv(r) ==
    /\ Settled(status[r], step[r])
    /\ Settled(disk[r].status, disk[r].step)

CascadeInv(r) == r \in Ripple =>
    /\ InOrder(step[r])
    /\ InOrder(disk[r].step)
    /\ worker[r][1].pc # "off" => \A s \in Steps \ queue[r] : step[r][s] # "Error"

RunInv(r) == ContextInv(r) /\ WorkerInv(r) /\ QueueInv(r) /\ RecordInv(r) /\ CascadeInv(r)

\* Every step of every run has at most one owner, no step is lost between the
\* queue and the verdict, and a verdict is one the steps bear out, in memory
\* and on disk.
EngineInv == \A r \in Runs : RunInv(r)

-----------------------------------------------------------------------------
(* The engine implements BulkRun.                                            *)

Phase(r) == IF status[r] = "Absent" THEN "absent"
            ELSE IF isTerminal(status[r]) THEN status[r]
            ELSE IF r \in live THEN "live"
            ELSE "lost"

Abstract == INSTANCE BulkRun WITH
    phase <- [r \in Runs |-> Phase(r)],
    done <- [r \in Runs |-> {s \in Steps : disk[r].step[s] = "Complete"}]

\* Whatever the interleaving of workers, operator and crashes, each run's phase
\* and the progress recorded on disk move as BulkRun says.
ImplementsBulkRun == Abstract!Spec

-----------------------------------------------------------------------------
(* What the documentation says and the code does not do; each is refuted by  *)
(* a run of its own.                                                         *)

\* PHASE5-DESIGN.md: "one bulk run at a time".  run() looks for an active run,
\* retry() does not.
OneRunAtATime == \A q, r \in live : ~isTerminal(status[q]) /\ ~isTerminal(status[r]) => q = r

\* BulkOperation-Manifest.js: a "restarted server keeps history and can resume".
\* A run is resumable when it is still live or when retry() accepts it.
InterruptedRunResumable ==
    \A r \in Runs : status[r] # "Absent" => r \in live \/ isTerminal(status[r])

\* docs/bulk-operations.md: any publish pauses for confirmation unless the
\* operator opted out; retry() opts out on its own.
PublishesPause ==
    \A r \in Runs, w \in Pool :
        worker[r][w].pc = "exec"
            /\ OpKind[worker[r][w].step][worker[r][w].action] = "publish"
        => yes[r] \/ [step |-> worker[r][w].step, action |-> worker[r][w].action] \in granted[r]

\* docs/README.md: runs are resumable.  A run that ends Complete did all its
\* work but for what the operator or a task declined; cancel() makes a step
\* Complete whose remaining actions never ran, and retry() passes it by.
CompleteDidAllWork ==
    \A r \in Runs : status[r] = "Complete" =>
        \A s \in Steps, a \in Actions :
            act[r][s][a] = "Complete" \/ [step |-> s, action |-> a] \in declined[r]

\* PHASE5-DESIGN.md: the UI confirms the parked gate and the step proceeds.
\* There is room for one pending gate, whatever the size of the pool.
EveryGateReachable ==
    \A r \in Runs, w \in Pool : worker[r][w].pc = "gate" =>
        worker[r][w] = On("gate", pending[r].step, pending[r].action)

\* test/BulkEngine_tests.js: "cancel stops a running plan".  A gate that opens
\* after the call, when the validator answers, waits for an operator again.
CancelStopsRun == \A r \in Runs : (r \in live /\ cancel[r]) ~> (r \notin live \/ isTerminal(status[r]))

\* The same words, of a publish nobody is asked about: under AutoConfirm, as
\* after every retry, one whose pre-check was awaited is started after the call.
CancelledPublishesNothing ==
    [][\A r \in Runs, w \in Pool :
        cancel[r] /\ cancel'[r] /\ worker'[r][w].pc = "exec" =>
            worker[r][w].pc \in {"exec", "gate"}]_vars
=============================================================================
