--------------------------- MODULE OperationStream ---------------------------
(***************************************************************************)
(* An operation as a browser sees it: the routes that start and cancel it  *)
(* (Api-Operations.js), the events of the process runner turned into       *)
(* frames (ProcessStreamBridge.js), the socket that carries them           *)
(* (OperationBroadcaster.js), and the browser's operation provider with    *)
(* its queue (Pict-Provider-Manager-OperationsWS.js).                      *)
(*                                                                         *)
(* The runner is ProcessRunner, step for step: every step of it emits its  *)
(* frames.  One browser is modelled; what others do reaches it through the *)
(* runner.  Frames that only add a line of text are left out.              *)
(***************************************************************************)
EXTENDS ProcessRunner, Sequences, FiniteSets

CONSTANTS
    Mine,         \* operations this browser's buttons ask for, 1..N in the order of the clicks
    Theirs,       \* operations another client of the routes asks for
    HistoryCap,   \* ACTION_HISTORY_CAP
    MaxFaults     \* bound: disconnections, cancels and failures to spawn

ASSUME StreamAssumption == Ops = Mine \cup Theirs

VARIABLES
    result,       \* _recentResults: how each operation ended, as the status route tells it
    connected,    \* is the browser's socket open?
    wire,         \* frames sent to it and not yet handled
    shown,        \* ActiveOperation: its OperationId and HeaderState
    entries,      \* ActionHistory, newest first
    queue,        \* _opQueue
    timers,       \* queued operations whose setTimeout(0) is running
    requests,     \* requests on their way to the server
    clicked,      \* how many of Mine were clicked
    asked,        \* history: the last of Mine that was asked for
    turned,       \* history: operations whose request was turned away, or failed
    lost,         \* history: the kinds of frames that never reached the browser
    refused,      \* history: operations that got a 409
    disturbed,    \* history: an operation was cancelled, or could not be spawned
    faults        \* how many faults there were, to bound them

browserVars == <<shown, entries, queue, timers, clicked>>
vars == <<runnerVars, result, connected, wire, browserVars, requests, asked, turned,
          lost, refused, disturbed, faults>>

Start(o)  == [Type |-> "start", Op |-> o]
Ended(o, state) == [Type |-> state, Op |-> o]
Terminal(frame) == frame.Type \in {"success", "error"}
KindsOf(frames) == {IF Terminal(frames[i]) THEN "terminal" ELSE "start" : i \in DOMAIN frames}

Idle == [Id |-> NoOp, State |-> "idle"]

Init ==
    /\ RunnerInit
    /\ result = [o \in Ops |-> "none"]
    /\ connected = TRUE
    /\ wire = <<>>
    /\ shown = Idle
    /\ entries = <<>>
    /\ queue = <<>>
    /\ timers = <<>>
    /\ requests = {}
    /\ clicked = 0
    /\ asked = NoOp
    /\ turned = {}
    /\ lost = {}
    /\ refused = {}
    /\ disturbed = FALSE
    /\ faults = 0

Fault == faults < MaxFaults /\ faults' = faults + 1

-----------------------------------------------------------------------------
(* The server.  A frame goes to whoever is connected; nothing is kept for a  *)
(* client that is not.                                                       *)
Broadcast(frames) ==
    /\ wire' = IF connected THEN wire \o frames ELSE wire
    /\ lost' = IF connected THEN lost ELSE lost \cup KindsOf(frames)

Request(kind, o) == [Kind |-> kind, Op |-> o]

_rememberResult(o, state) == result' = [result EXCEPT ![o] = state]

\* Mutant: the runner may be busy.
PostRunAnytime(o) ==
    /\ Request("run", o) \in requests
    /\ Run(o)
    /\ requests' = requests \ {Request("run", o)}
    /\ UNCHANGED <<result, connected, wire, browserVars, asked, turned, lost, refused, disturbed, faults>>

\* POST /operations/...: 409 RunnerBusy when the runner runs something (PostRefused).
PostRun(o) ==
    /\ Request("run", o) \in requests
    /\ activeProcess = NoChild
    /\ Run(o)
    /\ requests' = requests \ {Request("run", o)}
    /\ UNCHANGED <<result, connected, wire, browserVars, asked, turned, lost, refused, disturbed, faults>>

PostRefused(o) ==
    /\ AtRest
    /\ Request("run", o) \in requests
    /\ activeProcess # NoChild
    /\ refused' = refused \cup {o}
    /\ requests' = requests \ {Request("run", o)}
    /\ UNCHANGED <<runnerVars, result, connected, wire, browserVars, asked, turned, lost, disturbed, faults>>

\* Every other answer that is not 202 (404 of a module that left the manifest, 400,
\* 409 of a preview that expired, is stale or not OK), and a request that never
\* arrives: nothing starts, and nobody catches what the API provider throws.
TurnedAway(kind, o) ==
    /\ Request(kind, o) \in requests
    /\ requests' = requests \ {Request(kind, o)}
    /\ turned' = IF kind = "run" THEN turned \cup {o} ELSE turned
    /\ UNCHANGED <<runnerVars, result, connected, wire, browserVars, asked, lost, refused, disturbed, faults>>

\* POST /operations/:id/cancel, for the operation that runs.
PostCancel(o) ==
    /\ Request("cancel", o) \in requests
    /\ Kill(o)
    /\ Broadcast(<<Ended(o, "error")>>)
    /\ requests' = requests \ {Request("cancel", o)}
    /\ disturbed' = TRUE
    /\ UNCHANGED <<result, connected, browserVars, asked, turned, refused, faults>>

PostCancelLate(o) ==
    /\ AtRest
    /\ Request("cancel", o) \in requests
    /\ ~isRunning(o)
    /\ requests' = requests \ {Request("cancel", o)}
    /\ UNCHANGED <<runnerVars, result, connected, wire, browserVars, asked, turned, lost, refused, disturbed, faults>>

\* The other client.
PostTheirs(o) ==
    /\ o \in Theirs
    /\ activeProcess = NoChild
    /\ Run(o)
    /\ UNCHANGED <<result, connected, wire, browserVars, requests, asked, turned, lost, refused, disturbed, faults>>

-----------------------------------------------------------------------------
(* The bridge: each event of the runner becomes a frame.                     *)
Bridged(frames) == Broadcast(frames) /\ UNCHANGED <<connected, browserVars, requests, asked, turned, refused>>

OnSpawn(o) ==
    /\ Spawn(o)
    /\ Bridged(<<Start(o)>>)
    /\ UNCHANGED <<result, disturbed, faults>>

OnSpawnThrows(o) ==
    /\ SpawnThrows(o)
    /\ Bridged(<<Start(o), Ended(o, "error")>>)
    /\ _rememberResult(o, "error")
    /\ disturbed' = TRUE
    /\ Fault

OnTurn(o) ==
    /\ ChainDone(o) \/ StandDown(o)
    /\ Bridged(<<>>)
    /\ UNCHANGED <<result, disturbed, faults>>

OnError(c) ==
    /\ ChildError(c)
    /\ Bridged(<<Ended(c.op, "error")>>)
    /\ _rememberResult(c.op, "error")
    /\ disturbed' = TRUE
    /\ Fault

\* Mutant: a command ended by a signal is not reported.
OnEndWithCode(c, r) ==
    /\ ChildClose(c, r)
    /\ IF r # "signal" /\ c.step = Length[c.op] - 1
       THEN Bridged(<<Ended(c.op, IF r = "zero" THEN "success" ELSE "error")>>)
            /\ _rememberResult(c.op, IF r = "zero" THEN "success" ELSE "error")
       ELSE Bridged(<<>>) /\ UNCHANGED result
    /\ UNCHANGED <<disturbed, faults>>

\* An 'end' that is not of the last step is only a line of progress.  A command
\* ended by a signal has no exit code, which counts as a failure.
OnEnd(c, r) ==
    LET state == IF r = "zero" THEN "success" ELSE "error" IN
    /\ ChildClose(c, r)
    /\ IF c.step = Length[c.op] - 1 \/ Synthesized(c.op, r)
       THEN Bridged(<<Ended(c.op, state)>>) /\ _rememberResult(c.op, state)
       ELSE Bridged(<<>>) /\ UNCHANGED result
    /\ UNCHANGED <<disturbed, faults>>

-----------------------------------------------------------------------------
(* The socket.                                                               *)
Disconnect ==
    /\ connected
    /\ connected' = FALSE
    /\ wire' = <<>>
    /\ lost' = lost \cup KindsOf(wire)
    /\ Fault
    /\ UNCHANGED <<runnerVars, result, browserVars, requests, asked, turned, refused, disturbed>>

\* connect(): the server greets; the browser asks for nothing.
Reconnect ==
    /\ ~connected
    /\ connected' = TRUE
    /\ UNCHANGED <<runnerVars, result, wire, browserVars, requests, asked, turned, lost, refused, disturbed, faults>>

-----------------------------------------------------------------------------
(* The browser.                                                              *)
serverVars == <<runnerVars, result, connected, turned, lost, refused, disturbed, faults>>

\* beginOperation and the request of the button.
Begin(o) ==
    /\ shown' = [Id |-> NoOp, State |-> "running"]
    /\ requests' = requests \cup {Request("run", o)}
    /\ asked' = o

\* enqueueOperation
Click(o) ==
    /\ o = clicked + 1
    /\ clicked' = o
    /\ IF shown.State = "running"
       THEN queue' = Append(queue, o) /\ UNCHANGED <<shown, requests, asked>>
       ELSE Begin(o) /\ UNCHANGED queue
    /\ UNCHANGED <<serverVars, wire, entries, timers>>

TimerFires ==
    /\ timers # <<>>
    /\ Begin(Head(timers))
    /\ timers' = Tail(timers)
    /\ UNCHANGED <<serverVars, wire, entries, queue, clicked>>

_pumpQueue ==
    IF queue = <<>> THEN UNCHANGED <<queue, timers>>
    ELSE queue' = Tail(queue) /\ timers' = Append(timers, Head(queue))

_pushHistory(o) ==
    LET pushed == <<[Op |-> o, State |-> "running"]>> \o entries IN
    entries' = IF entries # <<>> /\ entries[1].Op = o THEN entries
               ELSE SubSeq(pushed, 1, IF Len(pushed) > HistoryCap THEN HistoryCap ELSE Len(pushed))

\* The entry is the one of the operation shown, whatever the frame names.
_updateHistory(o, state) ==
    entries' = [i \in DOMAIN entries |->
                   IF entries[i].Op = o /\ \A j \in 1..(i - 1) : entries[j].Op # o
                   THEN [entries[i] EXCEPT !.State = state] ELSE entries[i]]

\* _handleFrame
HandleStart ==
    /\ wire # <<>> /\ ~Terminal(Head(wire))
    /\ wire' = Tail(wire)
    /\ shown' = [Id |-> Head(wire).Op, State |-> "running"]
    /\ _pushHistory(Head(wire).Op)
    /\ UNCHANGED <<serverVars, queue, timers, clicked, requests, asked>>

\* Mutant: only a success lets the next one in.
HandleTerminalSuccess ==
    /\ wire # <<>> /\ Terminal(Head(wire))
    /\ wire' = Tail(wire)
    /\ shown' = [shown EXCEPT !.State = Head(wire).Type]
    /\ _updateHistory(shown.Id, Head(wire).Type)
    /\ IF Head(wire).Type = "success" THEN _pumpQueue ELSE UNCHANGED <<queue, timers>>
    /\ UNCHANGED <<serverVars, clicked, requests, asked>>

HandleTerminal ==
    /\ wire # <<>> /\ Terminal(Head(wire))
    /\ wire' = Tail(wire)
    /\ shown' = [shown EXCEPT !.State = Head(wire).Type]
    /\ _updateHistory(shown.Id, Head(wire).Type)
    /\ _pumpQueue
    /\ UNCHANGED <<serverVars, clicked, requests, asked>>

\* The output panel's button.
ClickCancel ==
    /\ shown.State = "running" /\ shown.Id # NoOp
    /\ Request("cancel", shown.Id) \notin requests
    /\ requests' = requests \cup {Request("cancel", shown.Id)}
    /\ Fault
    /\ UNCHANGED <<runnerVars, result, connected, asked, turned, lost, refused, disturbed, wire, browserVars>>

-----------------------------------------------------------------------------
Routes ==
    \E o \in Ops : PostRun(o) \/ PostRefused(o) \/ PostCancel(o) \/ PostCancelLate(o)

Turns == \E o \in Ops : OnSpawn(o) \/ OnSpawnThrows(o) \/ OnTurn(o)

EndHeard(c) == \E r \in Results : OnEnd(c, r)

Browser == HandleStart \/ HandleTerminal \/ TimerFires

Next ==
    \/ Routes \/ Turns \/ Browser \/ Disconnect \/ Reconnect \/ ClickCancel
    \/ \E c \in Children : OnError(c) \/ EndHeard(c)
    \/ \E o \in Ops : PostTheirs(o)
    \/ \E o \in Mine : Click(o)
    \/ \E o \in Ops : TurnedAway("run", o) \/ TurnedAway("cancel", o)

\* Requests arrive, turns run to their end, commands come to theirs, frames and
\* timers are handled.
Spec ==
    /\ Init /\ [][Next]_vars
    /\ WF_vars(Routes) /\ WF_vars(Turns) /\ WF_vars(Browser)
    /\ \A c \in Children : WF_vars(EndHeard(c))

-----------------------------------------------------------------------------
(* Properties *)

States == {"idle", "running", "success", "error"}

(* The stream's variables keep their types; the runner's are as ProcessRunner *)
(* has them.                                                                  *)
TypeOK ==
    /\ RunnerTypeOK
    /\ result \in [Ops -> {"none", "success", "error"}]
    /\ \A i \in DOMAIN wire : wire[i].Type \in {"start", "success", "error"} /\ wire[i].Op \in Ops
    /\ connected \/ wire = <<>>
    /\ shown.Id \in Ops \cup {NoOp} /\ shown.State \in States
    /\ Len(entries) <= HistoryCap
    /\ \A i \in DOMAIN entries : entries[i].Op \in Ops /\ entries[i].State \in States \ {"idle"}
    /\ \A i \in 1..Len(queue \o timers) : (queue \o timers)[i] \in 1..clicked

(* Two chains have been under way while an earlier command still ran: each    *)
(* callback advances the one index, so a chain may end before its last        *)
(* command, without a terminal frame.                                         *)
ChainsCrossed == \E o, p \in crossed \cap Sequence : o # p

(* The panel was begun for a request that was turned away, and has not been   *)
(* told of any operation since.                                              *)
TurnedDown == shown.Id = NoOp /\ asked \in turned

Told ==
    \/ shown.Id = NoOp /\ Request("run", asked) \in requests
    \/ due # NoOp
    \/ \E c \in Children : Open(c)
    \/ \E i \in DOMAIN wire : Terminal(wire[i])

(* The panel never says "running" for good: as long as no terminal frame was *)
(* lost in a reconnect and no two chains crossed, one is still to come,       *)
(* whoever cancelled, replaced or was busy with what; a panel that waits for  *)
(* its first frame has a request under way, unless that was turned away.      *)
NeverStuck ==
    shown.State = "running" /\ "terminal" \notin lost /\ ~ChainsCrossed /\ ~TurnedDown => Told

(* Every button that was queued gets its turn, unless a terminal frame was    *)
(* lost in a reconnect or never sent, or the request before it turned away.   *)
QueueDrains ==
    queue # <<>> ~> queue = <<>> \/ "terminal" \in lost \/ ChainsCrossed \/ TurnedDown

(* While nothing was cancelled and everything could be spawned, the children  *)
(* of all clients run one at a time, though the browsers decide on frames     *)
(* that are late.                                                             *)
OneAtATime ==
    ~disturbed => Cardinality({c \in Children : Open(c)}) <= 1

(* What the action history says of an operation that is over, the status      *)
(* route says too, as long as nothing was cancelled or failed to start and no *)
(* frame was missed.                                                          *)
HistoryTells ==
    ~disturbed /\ lost = {} =>
        \A i \in DOMAIN entries :
            entries[i].State # "running" => result[entries[i].Op] \in {entries[i].State, "none"}

-----------------------------------------------------------------------------
(* What the documentation says and the code does not do.                      *)

(* OperationsWS.js: enqueueOperation is "the single chokepoint every action   *)
(* button routes through so only one op runs at a time": what goes through it *)
(* is not refused for another that runs.                                      *)
NothingRefused == refused = {}

(* ProcessRunner.js: IsLastStep "true means the whole run() / runSequence()   *)
(* operation is over", which is what the panel waits for: it is told, of two  *)
(* chains that cross too.                                                     *)
AlwaysTold == shown.State = "running" /\ "terminal" \notin lost /\ ~TurnedDown => Told

(* OperationsWS.js: "If an op is running, queue it; else run now": the panel  *)
(* says so of operations that run, or are asked for.                          *)
RunningIsSo == shown.State = "running" /\ "terminal" \notin lost /\ ~ChainsCrossed => Told
=============================================================================
