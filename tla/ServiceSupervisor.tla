-------------------------- MODULE ServiceSupervisor --------------------------
(***************************************************************************)
(* The service supervisor: source/core/Manager-Core-ServiceSupervisor.js.  *)
(*                                                                         *)
(* Each service has a slot with its child and its state.  start() stops    *)
(* what the slot holds, walks the pre-steps, each of which must exit 0,    *)
(* spawns the server and polls its port until somebody listens or the      *)
(* deadline is over.  Promises of earlier starts, their polls and the exit *)
(* handlers of their children outlive them.                                *)
(*                                                                         *)
(* A child that got SIGTERM ends when it likes and holds its port so long. *)
(* A runnable that does not exist is reported by the child's 'error', for  *)
(* which the supervisor has no listener: the manager's process ends, after *)
(* its exit handler has run shutdownAll().                                 *)
(***************************************************************************)
EXTENDS Integers

CONSTANTS
    Keys,       \* the registered services
    Starts,     \* ids of the calls of start()
    Key,        \* Key[s]: the service call s is for
    NumPre,     \* NumPre[k]: the number of pre-steps of k
    Port,       \* Port[k]: its port, or NoPort
    NoPort,
    NoStart

ASSUME SupervisorAssumption ==
    /\ Key \in [Starts -> Keys]
    /\ NumPre \in [Keys -> Nat]
    /\ NoStart \notin Starts

\* The child spawned for a step of a start; the last step is the server.
Children == UNION {[start : {s}, step : 0..NumPre[Key[s]]] : s \in Starts}
NoChild  == [start |-> NoStart, step |-> 0]

service(c)  == Key[c.start]
isServer(c) == c.step = NumPre[service(c)]

VARIABLES
    slot,       \* slot[k]: tmpEntry.Child
    state,      \* state[k]: tmpEntry.State.State; Running is that it is one of Live
    call,       \* call[s]: the promise of start s: "pre" and "poll" are unsettled
    child,      \* child[c]: "none", "alive", "gone", or "missing" (its runnable does not exist)
    bound,      \* the children that listen on their service's port
    signalled,  \* the children that were sent SIGTERM
    up,         \* the manager's process runs
    owner       \* history: owner[k] is the start of k that nothing has stopped or replaced

vars == <<slot, state, call, child, bound, signalled, up, owner>>

Live == {"installing", "starting", "running"}
Settled == {"ok", "failed", "rejected"}

-----------------------------------------------------------------------------
(* runPreStep and runServerStep.  old is what this turn has signalled so far, *)
(* kids are the children as it has left them.                                 *)

\* What the promise of s waits for once step j is spawned, and what is shown.
WaitsFor(s, j) ==
    IF j < NumPre[Key[s]] THEN "pre" ELSE IF Port[Key[s]] = NoPort THEN "ok" ELSE "poll"
ShownBy(s, j) ==
    IF j < NumPre[Key[s]] THEN "installing" ELSE IF Port[Key[s]] = NoPort THEN "running" ELSE "starting"

Spawned(s, j, old, kids) ==
    /\ child' = [kids EXCEPT ![[start |-> s, step |-> j]] = "alive"]
    /\ slot' = [slot EXCEPT ![Key[s]] = [start |-> s, step |-> j]]
    /\ state' = [state EXCEPT ![Key[s]] = ShownBy(s, j)]
    /\ call' = [call EXCEPT ![s] = WaitsFor(s, j)]
    /\ signalled' = signalled \cup old
    /\ UNCHANGED up

\* spawn() throws: the slot stays empty and the promise is rejected.
SpawnThrows(s, old, kids) ==
    /\ child' = kids
    /\ slot' = [slot EXCEPT ![Key[s]] = NoChild]
    /\ state' = [state EXCEPT ![Key[s]] = "failed"]
    /\ call' = [call EXCEPT ![s] = "rejected"]
    /\ signalled' = signalled \cup old
    /\ UNCHANGED up

\* shutdownAll() for the slots still held, and the end of the process.
Exits(old, held) ==
    /\ slot' = [k \in Keys |-> NoChild]
    /\ state' = [k \in Keys |-> "stopped"]
    /\ signalled' = signalled \cup old \cup ({slot[k] : k \in held} \ {NoChild})
    /\ up' = FALSE

\* The 'error' of a child without a process comes before any other event.
SpawnMissing(s, j, old, kids) ==
    /\ child' = [kids EXCEPT ![[start |-> s, step |-> j]] = "missing"]
    /\ call' = [call EXCEPT ![s] = WaitsFor(s, j)]
    /\ Exits(old, Keys \ {Key[s]})

\* From step i on: pre-steps whose SkipIfExists is there are skipped.
Launch(s, i, old, kids) ==
    \/ SpawnThrows(s, old, kids)
    \/ \E j \in i..NumPre[Key[s]] :
          Spawned(s, j, old, kids) \/ SpawnMissing(s, j, old, kids)

-----------------------------------------------------------------------------
(* The calls. *)

\* Mutant: start() does not stop what the slot holds.
TakenNone(k) == {}

\* stop() empties the slot and signals the child it held.
Taken(k) == {slot[k]} \ {NoChild}

Start(s) ==
    /\ up /\ call[s] = "none"
    /\ Launch(s, 0, Taken(Key[s]), child)
    /\ owner' = [owner EXCEPT ![Key[s]] = s]
    /\ UNCHANGED bound

\* A definition that does not resolve is refused before anything is stopped.
RefuseStart(s) ==
    /\ up /\ call[s] = "none"
    /\ call' = [call EXCEPT ![s] = "rejected"]
    /\ UNCHANGED <<slot, state, child, bound, signalled, up, owner>>

Stop(k) ==
    /\ up
    /\ slot' = [slot EXCEPT ![k] = NoChild]
    /\ state' = [state EXCEPT ![k] = "stopped"]
    /\ signalled' = signalled \cup Taken(k)
    /\ owner' = [owner EXCEPT ![k] = NoStart]
    /\ UNCHANGED <<call, child, bound, up>>

\* SIGINT, SIGTERM or the end of `mm web`.
Shutdown ==
    /\ up
    /\ Exits({}, Keys)
    /\ UNCHANGED <<call, child, bound, owner>>

-----------------------------------------------------------------------------
(* What happens to children, and the supervisor's handlers for it. *)

\* A server opens its port, unless another child listens there.
Bind(c) ==
    /\ child[c] = "alive" /\ isServer(c) /\ c \notin bound
    /\ \A d \in bound : Port[service(d)] # Port[service(c)]
    /\ bound' = bound \cup {c}
    /\ UNCHANGED <<slot, state, call, child, signalled, up, owner>>

\* Mutant: the exit of any child of the service counts.
OwnsAny(c) == up

\* The exit handlers ignore a child that is not, or no longer, in the slot.
Owns(c) == up /\ slot[service(c)] = c

Gone(c) ==
    /\ child[c] = "alive"
    /\ bound' = bound \ {c}

\* Nobody cares any more.
ExitIgnored(c) ==
    /\ Gone(c) /\ ~Owns(c)
    /\ child' = [child EXCEPT ![c] = "gone"]
    /\ UNCHANGED <<slot, state, call, signalled, up, owner>>

\* A server dies on its own.
ServerExits(c) ==
    /\ Gone(c) /\ Owns(c) /\ isServer(c)
    /\ child' = [child EXCEPT ![c] = "gone"]
    /\ slot' = [slot EXCEPT ![service(c)] = NoChild]
    /\ state' = [state EXCEPT ![service(c)] = "stopped"]
    /\ UNCHANGED <<call, signalled, up, owner>>

\* A pre-step exits with another code than 0.
PreStepFails(c) ==
    /\ Gone(c) /\ Owns(c) /\ ~isServer(c)
    /\ child' = [child EXCEPT ![c] = "gone"]
    /\ slot' = [slot EXCEPT ![service(c)] = NoChild]
    /\ state' = [state EXCEPT ![service(c)] = "failed"]
    /\ call' = [call EXCEPT ![c.start] = "failed"]
    /\ UNCHANGED <<signalled, up, owner>>

\* A pre-step exits with 0: the next step, in the same turn.
PreStepDone(c) ==
    /\ Gone(c) /\ Owns(c) /\ ~isServer(c)
    /\ Launch(c.start, c.step + 1, {}, [child EXCEPT ![c] = "gone"])
    /\ UNCHANGED owner

-----------------------------------------------------------------------------
(* The readiness poll. *)

server(s) == [start |-> s, step |-> NumPre[Key[s]]]

\* Mutant: an open port makes the service run, whoever has the slot.
ReadyAlways(s) == TRUE

\* Its server still has the slot.
Ready(s) == slot[Key[s]] = server(s)

\* Somebody listens on the port.
PollConnects(s) ==
    /\ up /\ call[s] = "poll"
    /\ \E d \in bound : Port[service(d)] = Port[Key[s]]
    /\ call' = [call EXCEPT ![s] = "ok"]
    /\ state' = IF Ready(s) THEN [state EXCEPT ![Key[s]] = "running"] ELSE state
    /\ UNCHANGED <<slot, child, bound, signalled, up, owner>>

\* Mutant: a poll whose server has lost the slot gives up without an answer.
OverdueCurrent(s) == call[s] = "poll" /\ Ready(s)

Overdue(s) == call[s] = "poll"

\* The deadline is over: answered all the same.
PollExpires(s) ==
    /\ up /\ Overdue(s)
    /\ call' = [call EXCEPT ![s] = "ok"]
    /\ UNCHANGED <<slot, state, child, bound, signalled, up, owner>>

-----------------------------------------------------------------------------

Init ==
    /\ slot = [k \in Keys |-> NoChild]
    /\ state = [k \in Keys |-> "stopped"]
    /\ call = [s \in Starts |-> "none"]
    /\ child = [c \in Children |-> "none"]
    /\ bound = {} /\ signalled = {}
    /\ up = TRUE
    /\ owner = [k \in Keys |-> NoStart]

PreStepEnds(c) == PreStepDone(c) \/ PreStepFails(c)

Next ==
    \/ \E s \in Starts : Start(s) \/ RefuseStart(s) \/ PollConnects(s) \/ PollExpires(s)
    \/ \E k \in Keys : Stop(k)
    \/ Shutdown
    \/ \E c \in Children : Bind(c) \/ ExitIgnored(c) \/ ServerExits(c) \/ PreStepEnds(c)

Spec == Init /\ [][Next]_vars

\* A pre-step ends some time, and a poll connects or runs into its deadline.
Fairness ==
    /\ \A c \in Children : WF_vars(PreStepEnds(c))
    /\ \A s \in Starts : WF_vars(PollConnects(s) \/ PollExpires(s))

FairSpec == Spec /\ Fairness

-----------------------------------------------------------------------------
(* Correctness. *)

\* Every variable stays in its domain.
TypeOK ==
    /\ slot \in [Keys -> Children \cup {NoChild}]
    /\ state \in [Keys -> Live \cup {"stopped", "failed"}]
    /\ call \in [Starts -> Settled \cup {"none", "pre", "poll"}]
    /\ child \in [Children -> {"none", "alive", "gone", "missing"}]
    /\ bound \in SUBSET Children
    /\ signalled \in SUBSET Children
    /\ up \in BOOLEAN
    /\ owner \in [Keys -> Starts \cup {NoStart}]

\* "Never orphan a supervised child": whatever lives and was not told to end is
\* in its service's slot, where stop() and shutdownAll() find it; so a service
\* has at most one such child, and there is none once the manager has ended.
NeverOrphaned ==
    \A c \in Children :
        child[c] = "alive" /\ c \notin signalled => up /\ slot[service(c)] = c

\* The status shown is that of the child in the slot: a service that is said to
\* install, start or run has a living child of that kind, which was not stopped
\* and belongs to the last start; a stopped or failed one has none.
StatusTrue ==
    \A k \in Keys :
        /\ state[k] \in Live <=> slot[k] # NoChild
        /\ slot[k] # NoChild =>
              /\ child[slot[k]] = "alive" /\ slot[k] \notin signalled
              /\ slot[k].start = owner[k] /\ Key[slot[k].start] = k
              /\ isServer(slot[k]) <=> state[k] \in {"starting", "running"}

\* Once a service was stopped, or started anew, nothing is spawned for its
\* earlier start: a stop during the install is not followed by the server.
StoppedStaysStopped ==
    [][\A c \in Children : child[c] = "none" /\ child'[c] # "none" => owner'[service(c)] = c.start]_vars

\* A start is answered, unless it is stopped in a pre-step or the manager ends:
\* also when its server dies, is stopped or is replaced while its port is polled.
StartAnswered ==
    \A s \in Starts :
        call[s] \in {"pre", "poll"} ~>
            \/ call[s] \in Settled
            \/ ~up
            \/ \E c \in signalled : c.start = s /\ ~isServer(c)

-----------------------------------------------------------------------------
(* The inductive invariant. *)

\* Only a call that was made has children, and only a child was signalled.
SpawnedInv ==
    \A c \in Children :
        /\ child[c] # "none" => call[c.start] # "none"
        /\ c \in signalled => child[c] # "none"

\* A start whose child is in the slot has spawned none of the later steps.
LastStepInv ==
    \A c, d \in Children :
        slot[service(c)] = c /\ d.start = c.start /\ c.step < d.step => child[d] = "none"

\* The invariant the proofs rest on: the slots against the processes that live
\* and against the steps the starts have come to.
SupervisorInv == TypeOK /\ NeverOrphaned /\ StatusTrue /\ SpawnedInv /\ LastStepInv

-----------------------------------------------------------------------------
(* What the documentation says and the code does not do. *)

\* "There is at most ONE live child per service key at a time."
OneLiveChild ==
    \A c, d \in Children :
        service(c) = service(d) /\ child[c] = "alive" /\ child[d] = "alive" => c = d

\* "defer 'the service is ready' until it has actually bound the port"
RunningMeansBound ==
    \A k \in Keys : state[k] = "running" /\ Port[k] # NoPort => slot[k] \in bound

\* "Placeholder / spawn errors REJECT."
SpawnErrorsReject ==
    \A c \in Children : child[c] = "missing" => call[c.start] = "rejected"

\* The outcomes listed for start() are all there are: it comes to one of them
\* as long as the manager runs.
EveryStartAnswered == \A s \in Starts : call[s] \in {"pre", "poll"} ~> call[s] \in Settled \/ ~up
=============================================================================
