------------------------------ MODULE BulkWizard ------------------------------
(***************************************************************************)
(* A bulk run as the browser's wizard drives it: the buttons of            *)
(* PictView-Manager-BulkWizard.js, the calls and the frame handler of      *)
(* Pict-Provider-Manager-Bulk.js, the routes of Api-Bulk.js, and the       *)
(* engine, which is BulkEngine step for step with the frames each step     *)
(* broadcasts.                                                             *)
(*                                                                         *)
(* Calls are awaited HTTP requests, frames come over the socket: a frame   *)
(* may be handled before the answer of the call that caused it, or long    *)
(* after.  Frames of actions and output lines only decorate a step and are *)
(* left out, and so is the way from Choose to Preview.                     *)
(***************************************************************************)
EXTENDS BulkEngine, Sequences

CONSTANTS
    NoRun,       \* no run hash
    Outcomes,    \* bound: how tasks return, "Complete" or "Skipped" too
    MaxLosses,   \* bound: disconnections and deaths of the manager
    MaxCalls,    \* bound: calls under way at a time
    MaxFrames    \* bound: frames on the socket at a time

ASSUME WizardAssumption ==
    /\ NoRun \notin Runs
    /\ Outcomes \subseteq {"Complete", "Skipped"}
    /\ MaxLosses \in Nat /\ MaxCalls \in Nat /\ MaxFrames \in Nat

VARIABLES
    wire,        \* frames sent and not yet handled
    calls,       \* the wizard's calls: sent, answered, or the slot free
    page,        \* Bulk.Step: "choose" (which stands for "preview" too) or "run"
    RunHash,     \* Bulk.RunHash
    Status,      \* Bulk.Run.Status, or "None" without a Run
    StepStatus,  \* Bulk.Run.Steps[s].Status, or NoSteps when a frame made the Run
    Paused,      \* Bulk.Paused: the gate on the screen
    rendered,    \* Run.Status when the view was last rendered
    mine,        \* history: the run whose record Bulk.Run was made for
    clicked,     \* history: the clicks on Confirm: for which run, on which gate shown
    blur,        \* history: why Bulk.Run may differ from the run since it was made
    losses       \* how many disconnections and deaths there were, to bound them

engine == vars
bulkRun == <<Status, StepStatus, Paused>>
screen == <<page, bulkRun, rendered>>
wizardVars == <<engine, wire, calls, screen, RunHash, mine, clicked, blur, losses>>

NoSteps == <<>>

\* The gate of a run, as a "paused" frame describes it: StepIndex, PreviewHash.
NoPause == [run |-> NoRun, gate |-> NoGate]

-----------------------------------------------------------------------------
(* The engine and its frames. *)

\* A status, of the step or of the run; a "paused" frame describes a gate too.
Frame(type, r, s, value) ==
    [Type |-> type, run |-> r, step |-> s, value |-> value, gate |-> NoGate]

Emit(frame) == Len(wire) < MaxFrames /\ wire' = Append(wire, frame)
Silent == UNCHANGED wire

RunStart(r) == Frame("run-start", r, 0, "Running")
StepStart(r, s) == Frame("step-start", r, s, "Running")
StepEnd(r, s) == Frame("step-end", r, s, step'[r][s])
PausedAt(r, g) == [Frame("paused", r, g.step, "Waiting") EXCEPT !.gate = g]

\* Synchronous code of run r.
Turn(r) ==
    \/ Execute(r) /\ Emit(RunStart(r))
    \/ Finalize(r) /\ Emit(Frame("run-end", r, 0, status'[r]))
    \/ \E w \in Pool :
        \/ TakeStep(r, w) /\ Emit(StepStart(r, worker'[r][w].step))
        \/ (LeaveLoop(r, w) \/ NextAction(r, w)) /\ Silent
        \/ (UnknownOp(r, w) \/ EndStep(r, w)) /\ Emit(StepEnd(r, worker[r][w].step))

\* The answer of a validator or a task run r awaits.
Event(r) ==
    \E w \in Pool :
        \/ OpenGate(r, w) /\ Emit(PausedAt(r, pending'[r]))
        \/ PassGate(r, w) /\ Silent
        \/ \E outcome \in Outcomes : TaskReturns(r, w, outcome) /\ Silent
        \/ (RefuseGate(r, w) \/ TaskThrows(r, w)) /\ Emit(StepEnd(r, worker[r][w].step))

EngineStep(r) ==
    /\ Turn(r) \/ Event(r)
    /\ UNCHANGED <<calls, screen, RunHash, mine, clicked, blur>>

-----------------------------------------------------------------------------
(* Calls.  The wizard does not wait for one before it makes the next. *)

Slots == 1..MaxCalls
Free == [kind |-> "none", run |-> NoRun, gate |-> NoPause, stage |-> "free"]
Kinds == {"run", "confirm", "skip", "cancel", "retry"}

Under(stage) == {c \in Slots : calls[c].stage = stage}
IsUnder(kind) == \E c \in Slots : calls[c].kind = kind

\* _post: the call takes a slot until its answer is handled.
Send(kind, r, gate) ==
    \E c \in Under("free") :
        /\ \A d \in Under("free") : c <= d
        /\ calls' = [calls EXCEPT ![c] = [kind |-> kind, run |-> r, gate |-> gate, stage |-> "sent"]]

Respond(c, ok) == calls' = [calls EXCEPT ![c].stage = IF ok THEN "ok" ELSE "refused"]

Refuse(c) == UNCHANGED <<engine, wire>> /\ Respond(c, FALSE)

\* POST run: the wizard's body has a Plan and nothing else, so gates are on.
HandleRun(c) ==
    /\ calls[c].kind = "run"
    /\ \/ Run(calls[c].run, FALSE) /\ Silent /\ Respond(c, TRUE)
       \/ hasActiveRun /\ Refuse(c)

\* The answer names the run of the URL and the gate of the body.
Pending(c) == calls[c].run \in live /\ pending[calls[c].run] # NoGate

HandleConfirm(c) ==
    LET r == calls[c].run
        g == calls[c].gate.gate
    IN  /\ calls[c].kind \in {"confirm", "skip"}
        /\ \/ /\ IF calls[c].kind = "skip" THEN ConfirmSkip(r, g) ELSE Confirm(r, g)
              /\ Silent /\ Respond(c, TRUE)
           \/ (~Pending(c) \/ ~Matches(r, g)) /\ Refuse(c)

HandleCancel(c) ==
    /\ calls[c].kind = "cancel"
    /\ \/ Cancel(calls[c].run) /\ Silent /\ Respond(c, TRUE)
       \/ calls[c].run \notin live /\ Refuse(c)

\* retry() is async: its throw for a run that is still active is a promise
\* rejected after the route has answered 202, and nobody handles it; where
\* Node ends the process for that, ManagerDies follows.
HandleRetry(c) ==
    /\ calls[c].kind = "retry"
    /\ \/ Retry(calls[c].run) /\ Emit(RunStart(calls[c].run))
       \/ ~isTerminal(status[calls[c].run]) /\ UNCHANGED <<engine, wire>>
    /\ Respond(c, TRUE)

Handle(c) ==
    /\ Idle
    /\ calls[c].stage = "sent"
    /\ HandleRun(c) \/ HandleConfirm(c) \/ HandleCancel(c) \/ HandleRetry(c)
    /\ UNCHANGED <<screen, RunHash, mine, clicked, blur>>

-----------------------------------------------------------------------------
(* The answers in the browser. *)

Render == rendered' = Status'

AnsweredRun(c) ==
    /\ calls[c].kind = "run"
    /\ IF calls[c].stage = "ok"
       THEN RunHash' = calls[c].run /\ UNCHANGED <<Status, rendered>>
       ELSE /\ UNCHANGED RunHash
            /\ Status' = IF Status = "None" THEN Status ELSE "Failed"
            /\ Render
    /\ UNCHANGED <<StepStatus, Paused, blur>>

\* Whatever gate is on the screen by now is taken off it.
AnsweredGate(c) ==
    /\ calls[c].kind \in {"confirm", "skip", "retry"}
    /\ IF calls[c].stage = "ok"
       THEN /\ Paused' = NoPause
            /\ UNCHANGED Status
            /\ Render
            /\ blur' = IF Paused \in {NoPause, calls[c].gate} THEN blur ELSE blur \cup {"wiped"}
       ELSE UNCHANGED <<Paused, Status, rendered, blur>>
    /\ UNCHANGED <<StepStatus, RunHash>>

AnsweredCancel(c) == calls[c].kind = "cancel" /\ UNCHANGED <<bulkRun, rendered, RunHash, blur>>

Answered(c) ==
    /\ calls[c].stage \in {"ok", "refused"}
    /\ calls' = [calls EXCEPT ![c] = Free]
    /\ AnsweredRun(c) \/ AnsweredGate(c) \/ AnsweredCancel(c)
    /\ UNCHANGED <<engine, wire, page, mine, clicked>>

-----------------------------------------------------------------------------
(* onFrame: frames are folded into Bulk.Run whatever run they are of. *)

HasSteps == StepStatus # NoSteps

\* Mutant: a step that ended is shown as complete.
FoldStepComplete(f) == [StepStatus EXCEPT ![f.step] = IF f.Type = "step-end" THEN "Complete" ELSE f.value]

FoldStep(f) == [StepStatus EXCEPT ![f.step] = f.value]

\* Mutant: the gate on the screen outlives its run.
FoldPausedOnly(f) == IF f.Type = "paused" THEN [run |-> f.run, gate |-> f.gate] ELSE Paused

FoldPaused(f) ==
    CASE f.Type = "paused" -> [run |-> f.run, gate |-> f.gate]
      [] f.Type = "run-end" -> NoPause
      [] OTHER -> Paused

\* A Run that a frame finds missing is made, Running and without steps.
FoldStatus(f) ==
    IF f.Type \in {"run-start", "run-end", "paused"} THEN f.value
    ELSE IF Status = "None" THEN "Running" ELSE Status

onFrame ==
    /\ wire # <<>>
    /\ wire' = Tail(wire)
    /\ LET f == Head(wire)
       IN  /\ Status' = FoldStatus(f)
           /\ StepStatus' = IF f.Type \in {"step-start", "step-end"} /\ HasSteps
                            THEN FoldStep(f) ELSE StepStatus
           /\ Paused' = FoldPaused(f)
           /\ blur' = IF f.run = mine THEN blur ELSE blur \cup {"foreign"}
    /\ Render
    /\ UNCHANGED <<engine, calls, page, RunHash, mine, clicked>>

-----------------------------------------------------------------------------
(* The buttons, which are there when the last rendering showed them. *)

\* Preview's Run.  The run's hash is the server's to choose; the call carries
\* it so that the record made here can be told from those of other runs.
\* One run call, like one cancel call, is under way at a time: a bound.
ClickRun(r) ==
    /\ page = "choose"
    /\ status[r] = "Absent" /\ ~IsUnder("run")
    /\ Send("run", r, NoPause)
    /\ page' = "run"
    /\ Status' = "Running"
    /\ StepStatus' = [s \in Steps |-> "Pending"]
    /\ Paused' = NoPause
    /\ mine' = r
    /\ blur' = {}
    /\ Render
    /\ UNCHANGED <<engine, wire, RunHash, clicked>>

\* Confirm or Skip, for the gate that is on the screen now: the call names the
\* run of the wizard, and of the gate its step and its report.
Click == [run |-> RunHash, shown |-> Paused, foreign |-> "foreign" \in blur]

ClickGate(kind) ==
    /\ page = "run" /\ Paused # NoPause /\ RunHash # NoRun
    /\ Send(kind, RunHash, Paused)
    /\ clicked' = IF kind = "confirm" THEN clicked \cup {Click} ELSE clicked
    /\ UNCHANGED <<engine, wire, screen, RunHash, mine, blur>>

ClickCancel ==
    /\ page = "run" /\ rendered # "None" /\ ~isTerminal(rendered) /\ RunHash # NoRun
    /\ ~IsUnder("cancel")
    /\ Send("cancel", RunHash, NoPause)
    /\ UNCHANGED <<engine, wire, screen, RunHash, mine, clicked, blur>>

\* The status is changed but not rendered: the button stays for another click.
ClickRetry ==
    /\ page = "run" /\ rendered = "Failed" /\ RunHash # NoRun
    /\ Send("retry", RunHash, NoPause)
    /\ Status' = "Running"
    /\ blur' = IF RunHash = mine THEN blur ELSE blur \cup {"astray"}
    /\ UNCHANGED <<engine, wire, page, StepStatus, Paused, rendered, RunHash, mine, clicked>>

\* New operation.
reset ==
    /\ page = "run" /\ isTerminal(rendered)
    /\ page' = "choose"
    /\ Status' = "None" /\ StepStatus' = NoSteps /\ Paused' = NoPause
    /\ RunHash' = NoRun
    /\ mine' = NoRun
    /\ Render
    /\ UNCHANGED <<engine, wire, calls, clicked, blur>>

Buttons ==
    \/ \E r \in Runs : ClickRun(r)
    \/ \E kind \in {"confirm", "skip"} : ClickGate(kind)
    \/ ClickCancel \/ ClickRetry \/ reset

-----------------------------------------------------------------------------
(* Faults: the socket loses what is on it, or the manager dies, and with it  *)
(* the socket and every call not yet answered.                               *)

Lose ==
    /\ losses < MaxLosses /\ losses' = losses + 1
    /\ wire' = <<>>
    /\ blur' = blur \cup {"lost"}

Disconnect ==
    /\ Idle
    /\ wire # <<>>
    /\ Lose
    /\ UNCHANGED <<engine, calls, screen, RunHash, mine, clicked>>

ManagerDies ==
    /\ Crash
    /\ Lose
    /\ calls' = [c \in Slots |-> IF calls[c].stage = "sent" THEN [calls[c] EXCEPT !.stage = "refused"]
                                                             ELSE calls[c]]
    /\ UNCHANGED <<screen, RunHash, mine, clicked>>

-----------------------------------------------------------------------------

WizardInit ==
    /\ Init
    /\ wire = <<>>
    /\ calls = [c \in Slots |-> Free]
    /\ page = "choose"
    /\ RunHash = NoRun
    /\ Status = "None"
    /\ StepStatus = NoSteps
    /\ Paused = NoPause
    /\ rendered = "None"
    /\ mine = NoRun
    /\ clicked = {}
    /\ blur = {}
    /\ losses = 0

\* What the browser does during a turn of the engine's synchronous code
\* commutes with it, and is left to the end of the turn.
Browser ==
    /\ Idle
    /\ (\E c \in Slots : Answered(c)) \/ Buttons

WizardNext ==
    \/ /\ (\E r \in Runs : EngineStep(r)) \/ (\E c \in Slots : Handle(c)) \/ onFrame \/ Browser
       /\ UNCHANGED losses
    \/ Disconnect
    \/ ManagerDies

\* An operator who deals with a run that is shown waiting: answers its gate
\* or, when none is on the screen, cancels it.
Attend ==
    /\ rendered = "Waiting" /\ Idle /\ UNCHANGED losses
    /\ \/ ClickGate("confirm") \/ ClickGate("skip")
       \/ Paused = NoPause /\ ClickCancel

\* The event loops of the manager and of the browser go on, calls and frames
\* arrive, tasks and validators return, and the operator attends to the run.
WizardFairness ==
    /\ \A r \in Runs :
        /\ WF_wizardVars(Turn(r) /\ EngineStep(r) /\ UNCHANGED losses)
        /\ WF_wizardVars(Event(r) /\ EngineStep(r) /\ UNCHANGED losses)
    /\ \A c \in Slots :
        /\ WF_wizardVars(Handle(c) /\ UNCHANGED losses)
        /\ WF_wizardVars(Answered(c) /\ Idle /\ UNCHANGED losses)
    /\ WF_wizardVars(onFrame /\ UNCHANGED losses)
    /\ WF_wizardVars(Attend)

WizardSpec == WizardInit /\ [][WizardNext]_wizardVars /\ WizardFairness

-----------------------------------------------------------------------------
(* Correctness. *)

Pauses == [run : Runs, gate : Gate]
OfRuns == [Type : {"run-start", "run-end"}, run : Runs, step : {0}, value : RunStates, gate : {NoGate}]
OfSteps == [Type : {"step-start", "step-end"}, run : Runs, step : Steps, value : StepStates, gate : {NoGate}]
OfGates == [Type : {"paused"}, run : Runs, step : Steps, value : {"Waiting"}, gate : Gate]
Frames == OfRuns \cup OfSteps \cup OfGates
Calls == [kind : Kinds, run : Runs, gate : Pauses \cup {NoPause}, stage : {"sent", "ok", "refused"}]

\* The engine's variables and the wizard's stay in their domains; the frames
\* on the socket are no more than the bound.
WizardTypeOK ==
    /\ TypeOK
    /\ wire \in Seq(Frames) /\ Len(wire) <= MaxFrames
    /\ calls \in [Slots -> Calls \cup {Free}]
    /\ page \in {"choose", "run"}
    /\ RunHash \in Runs \cup {NoRun}
    /\ Status \in RunStates \cup {"None"}
    /\ StepStatus \in [Steps -> StepStates] \cup {NoSteps}
    /\ Paused \in Pauses \cup {NoPause}
    /\ rendered \in RunStates \cup {"None"}
    /\ mine \in Runs \cup {NoRun}
    /\ clicked \subseteq [run : Runs, shown : Pauses, foreign : BOOLEAN]
    /\ blur \subseteq {"lost", "foreign", "wiped", "astray"}
    /\ losses \in 0..MaxLosses

\* Nothing is under way: no call, no frame, no synchronous code.
Quiet == Under("free") = Slots /\ wire = <<>> /\ Idle

\* The record on the screen is of the wizard's own run and saw all its frames.
Clear(reasons) == page = "run" /\ mine # NoRun /\ RunHash = mine /\ blur \cap reasons = {}

\* A publish that runs behind a gate was confirmed by a click made for its run
\* on that very gate, with the report on the screen: a second click, a click
\* that was under way when the next gate opened, or one made for the run before,
\* releases none.  The report may be of another run only where frames of other
\* runs had reached the record: a gate is told by its step and its report, and
\* those of two runs may be the same.
PublishWasClicked ==
    \A r \in Runs, w \in Pool :
        LET place == worker[r][w]
        IN  place.pc = "exec" /\ ~auto[r] /\ OpKind[place.step][place.action] = "publish"
            => \E k \in clicked :
                  /\ k.run = r /\ k.shown.gate = [step |-> place.step, action |-> place.action]
                  /\ k.shown.run = r \/ k.foreign

\* Once calls and frames have arrived, the gate a run waits at is the one on
\* the screen, and no gate is on the screen of a run that does not wait or has
\* ended, unless the answer to one gate came after the frame of the next and
\* took that off ("wiped": GateStaysOnScreen below is about those).  A run that
\* was cancelled at its gate shows it until it ends.
GateOnScreen ==
    Quiet /\ Clear({"lost", "foreign", "wiped"}) /\ (cancel[mine] => isTerminal(status[mine])) =>
        Paused = (IF pending[mine] = NoGate THEN NoPause ELSE [run |-> mine, gate |-> pending[mine]])

\* Once calls and frames have arrived, every step on the screen is as it is in
\* the engine and an ended run is shown with the way it ended, whatever was
\* retried meanwhile; but for the steps a retry put back: retry() of the wizard
\* resets none on the screen, so that one which failed is shown so until it is
\* begun again.  (Before the answer that names its run has come, Retry may still
\* be for the run before: "astray".)
PutBack(s) == auto[mine] /\ step[mine][s] = "Pending" /\ StepStatus[s] = "Error"

ScreenMirrorsRun ==
    Quiet /\ Clear({"lost", "foreign", "astray"}) =>
        /\ \A s \in Steps : StepStatus[s] = step[mine][s] \/ PutBack(s)
        /\ isTerminal(status[mine]) => Status = status[mine]
        /\ isTerminal(Status) => status[mine] = Status


-----------------------------------------------------------------------------
(* The inductive invariant behind the safety properties.                     *)

\* What the engine's gates are: at most one run may come to one; each is
\* announced once, before its action is carried out; a run the engine knows is
\* on disk.
Gated(r) == r \in live /\ ~isTerminal(status[r]) /\ ~auto[r]

\* The gate is that of an action worker w has passed, or waits at.
Passed(r, w, g) ==
    Busy(r, w) /\ worker[r][w].step = g.step =>
        \/ g.action < worker[r][w].action
        \/ g.action = worker[r][w].action /\ worker[r][w].pc \in {"gate", "exec"}

GateInv(r) ==
    /\ auto[r] => pending[r] = NoGate
    /\ status[r] = "Absent" => shown[r] = {}
    /\ status[r] # "Absent" => disk[r].status # "Absent"
    /\ ~auto[r] => \A g \in shown[r] : g.step \notin queue[r] /\ \A w \in Pool : Passed(r, w, g)

OneGated == \A q, r \in Runs : Gated(q) /\ Gated(r) => q = r

\* A gate on the screen, in a frame or in a call was announced, and is in no
\* frame that is still to come.
Announced(pause) ==
    /\ pause.gate \in shown[pause.run]
    /\ \A i \in DOMAIN wire :
          wire[i].Type = "paused" => wire[i].run # pause.run \/ wire[i].gate # pause.gate

FramesInv ==
    /\ \A i \in DOMAIN wire :
          /\ status[wire[i].run] # "Absent"
          /\ wire[i].Type = "paused" => wire[i].gate \in shown[wire[i].run]
    /\ \A i, j \in DOMAIN wire :
          i # j /\ wire[i].Type = "paused" /\ wire[j].Type = "paused" /\ wire[i].run = wire[j].run =>
              wire[i].gate # wire[j].gate

WireInv == FramesInv /\ (Paused # NoPause => Announced(Paused))

GateKinds == {"confirm", "skip"}
IsGateCall(c) == calls[c].kind \in GateKinds
RunCall(c) == calls[c].kind = "run"

\* What a call says is so: its run was created when the answer named it, its
\* gate was shown, and one that was accepted is not the pending one any more.
CallInv(c) ==
    /\ ~RunCall(c) /\ calls[c].kind # "none" => status[calls[c].run] # "Absent"
    /\ RunCall(c) => (calls[c].stage = "ok" <=> status[calls[c].run] # "Absent")
    /\ RunCall(c) /\ mine # NoRun => calls[c].run = mine
    /\ RunCall(c) => \A d \in Slots : RunCall(d) => d = c
    /\ IF IsGateCall(c) THEN calls[c].gate # NoPause /\ Announced(calls[c].gate)
                        ELSE calls[c].gate = NoPause
    /\ IsGateCall(c) /\ calls[c].stage = "ok" =>
          calls[c].gate.gate \in shown[calls[c].run] /\ pending[calls[c].run] # calls[c].gate.gate

\* Clicks: of what was shown when they were made, or for a run at no gate.
ClickedFor(r, pause) ==
    \E k \in clicked : k.run = r /\ k.shown = pause /\ (pause.run = r \/ k.foreign)

ClickInv ==
    /\ \A c \in Slots : calls[c].kind = "confirm" =>
          ClickedFor(calls[c].run, calls[c].gate) \/ ~Gated(calls[c].run)
    /\ \A r \in Runs : \A g \in granted[r] :
          \E k \in clicked : k.run = r /\ k.shown.gate = g /\ (k.shown.run = r \/ k.foreign)

\* The run of the wizard, and the one its calls are for until it is named.
MineInv ==
    /\ page = "run" <=> mine # NoRun
    /\ RunHash # NoRun => status[RunHash] # "Absent"
    /\ mine # NoRun => Status # "None" /\ StepStatus # NoSteps
    /\ mine # NoRun /\ status[mine] # "Absent" /\ RunHash \notin {NoRun, mine} => ~Gated(RunHash)
    /\ mine # NoRun => \A c \in Slots : IsGateCall(c) /\ calls[c].gate.run = mine /\ calls[c].run # mine =>
          ~Gated(calls[c].run) /\ calls[c].stage # "ok"
    /\ mine # NoRun /\ "foreign" \notin blur =>
          /\ Paused # NoPause => Paused.run = mine
          /\ \A c \in Slots : IsGateCall(c) /\ calls[c].run = mine => calls[c].gate.run = mine

\* What the record will say once the frames on the socket were handled: the
\* last of those that tell is one of says or, without any, it says so now.
Tells(frames, sent) == {i \in DOMAIN sent : sent[i] \in frames}

SaysLast(frames, sent, says) ==
    \E i \in Tells(frames, sent) : sent[i] \in says /\ \A j \in Tells(frames, sent) : j <= i

WillSay(frames, says, now) ==
    IF Tells(frames, wire) = {} THEN now ELSE SaysLast(frames, wire, says)

StepFrames(s) == {f \in Frames : f.run = mine /\ f.step = s /\ f.Type \in {"step-start", "step-end"}}
StatusFrames == {f \in Frames : f.run = mine /\ f.Type \in {"run-start", "run-end", "paused"}}
GateFrames == {f \in Frames : f.run = mine /\ f.Type \in {"run-end", "paused"}}

StepWillBe(s, v) == WillSay(StepFrames(s), {f \in Frames : f.value = v}, StepStatus[s] = v)
StatusWillBe(v) ==
    WillSay(StatusFrames, {f \in Frames : f.value = v}, Status = v)
GateWillBe(g) ==
    WillSay(GateFrames, {f \in Frames : f.Type = "paused" /\ f.gate = g}, Paused = [run |-> mine, gate |-> g])
NoGateWillBe == WillSay(GateFrames, {f \in Frames : f.Type = "run-end"}, Paused = NoPause)

Own(reasons) == mine # NoRun /\ blur \cap reasons = {}

\* No step is ever "Skipped", in memory or on disk; only an action is.
NoStepSkipped == \A r \in Runs, s \in Steps : step[r][s] # "Skipped" /\ disk[r].step[s] # "Skipped"

StepsToldInv ==
    Own({"lost", "foreign"}) =>
        \A s \in Steps : step[mine][s] # "Pending" => StepWillBe(s, step[mine][s])

\* A step that is to be done is shown so, or a retry put it back.
PendingToldInv ==
    Own({"lost", "foreign"}) =>
        \A s \in Steps : step[mine][s] = "Pending" =>
            \/ StepWillBe(s, "Pending")
            \/ auto[mine] /\ status[mine] # "Absent" /\ StepWillBe(s, "Error")

StatusToldInv ==
    /\ Own({"lost", "foreign", "astray"})
    /\ status[mine] = "Absent" => \E c \in Slots : RunCall(c) /\ calls[c].stage = "sent"
    =>
    /\ \A v \in RunStates : isTerminal(v) /\ StatusWillBe(v) => status[mine] = v
    /\ isTerminal(status[mine]) =>
          \/ StatusWillBe(status[mine])
          \/ \E c \in Slots : calls[c].kind = "retry" /\ calls[c].run = mine /\ calls[c].stage = "sent"

\* The gate the screen comes to show is the pending one; none, but for an
\* answer that will take it off or a cancelled run that is about to end.
GateToldInv ==
    Own({"lost", "foreign", "wiped"}) =>
        IF pending[mine] # NoGate THEN GateWillBe(pending[mine])
        ELSE \/ NoGateWillBe
             \/ cancel[mine] /\ ~isTerminal(status[mine])
             \/ /\ Tells(GateFrames, wire) = {}
                /\ \E c \in Slots :
                      IsGateCall(c) /\ calls[c].run = mine /\ calls[c].stage = "ok" /\ calls[c].gate = Paused

WizardInv ==
    /\ (\A r \in Runs : GateInv(r)) /\ OneGated
    /\ WireInv
    /\ \A c \in Slots : CallInv(c)
    /\ ClickInv /\ MineInv
    /\ NoStepSkipped /\ StepsToldInv /\ PendingToldInv /\ StatusToldInv /\ GateToldInv

-----------------------------------------------------------------------------
(* What the documentation says and the code does not do. *)

\* docs/bulk-operations.md: a publish pauses for "a typed/clicked gate", "the
\* same handshake in the web wizard".  confirm() clears Paused when its own
\* answer comes, which may be after the frame of the next gate.
GateStaysOnScreen ==
    Quiet /\ Clear({"lost", "foreign"}) /\ ~cancel[mine] /\ pending[mine] # NoGate =>
        Paused = [run |-> mine, gate |-> pending[mine]]

\* Pict-Provider-Manager-Bulk.js on retry(): "reset per-step display, keep
\* completed".  It resets the status of the run and of no step.
RetryResetsDisplay ==
    Quiet /\ Clear({"lost", "foreign", "astray"}) =>
        \A s \in Steps : step[mine][s] = "Pending" => StepStatus[s] = "Pending"

\* Api-Bulk.js answers a retry the engine refuses with 409 RetryFailed.
RefusedRetryIsAnswered ==
    [][\A c \in Slots : calls[c].kind = "retry" /\ calls[c].stage = "sent" /\ calls'[c].stage = "ok"
            => isTerminal(status[calls[c].run])]_wizardVars
=============================================================================
