---------------------------- MODULE ProcessRunner ----------------------------
(***************************************************************************)
(* The process runner: source/core/Manager-Core-ProcessRunner.js.          *)
(*                                                                         *)
(* One runner object serves many operations, each a command (run) or a     *)
(* chain of commands (runSequence).  Every child process ever spawned      *)
(* keeps its handlers: a child that was sent SIGTERM, or whose operation   *)
(* was replaced, still reports its 'error' and 'close', at any later time, *)
(* into the fields of the one runner.  A child that fails to start reports *)
(* both.  How long a child lives and what it exits with is its own affair. *)
(*                                                                         *)
(* Handlers and calls run to completion; the synchronous tail of one (the  *)
(* next spawn of a chain) is due, and nothing else happens before it.      *)
(***************************************************************************)
EXTENDS Integers

CONSTANTS
    Ops,           \* operation ids
    Sequence,      \* the operations started by runSequence
    AbortOnError,  \* the sequences that asked for AbortOnError
    Length,        \* Length[o]: the number of commands of operation o
    NoOp

ASSUME RunnerAssumption ==
    /\ AbortOnError \subseteq Sequence /\ Sequence \subseteq Ops
    /\ Length \in [Ops -> Nat \ {0}]
    /\ \A o \in Ops \ Sequence : Length[o] = 1
    /\ NoOp \notin Ops

\* The child spawned for a command of an operation (the index is the code's).
Children == UNION {[op : {o}, step : 0..(Length[o] - 1)] : o \in Ops}
NoChild  == [op |-> NoOp, step |-> 0]

\* What a command comes to: an exit code, a signal, or a failure to start.
Results == {"zero", "nonzero", "signal", "error"}

VARIABLES
    activeProcess,      \* the child kill() would signal
    activeOperationId,
    stepIndex,          \* one counter, shared by all chains
    due,                \* the operation whose next command is looked for in this turn
    child,              \* "none", "running", "failed" (reported 'error', not yet 'close'), its result
    signalled,          \* children that were sent SIGTERM
    begun,              \* history: operations begun
    latest,             \* history: the one begun last
    answered,           \* history: operations with a terminal event: an 'error', or an 'end' with IsLastStep
    crossed             \* history: operations that shared their time with another's child

active  == <<activeProcess, activeOperationId, stepIndex, due>>
history == <<begun, latest, crossed>>
runnerVars == <<activeProcess, activeOperationId, stepIndex, due, child, signalled,
                begun, latest, answered, crossed>>

Open(c) == child[c] \in {"running", "failed"}
AtRest  == due = NoOp

-----------------------------------------------------------------------------
(* Calls. *)

\* kill(): the active child is signalled and at once forgotten.
Signal == signalled' = IF activeProcess = NoChild THEN signalled
                       ELSE signalled \cup {activeProcess}

\* run() and runSequence(): kill(), _beginOperation, and the first command.
Run(o) ==
    /\ AtRest
    /\ o \notin begun
    /\ Signal
    /\ activeProcess' = NoChild
    /\ activeOperationId' = o
    /\ stepIndex' = 0
    /\ due' = o
    /\ begun' = begun \cup {o}
    /\ latest' = o
    /\ LET others == {c.op : c \in {d \in Children : Open(d)}}
       IN  crossed' = crossed \cup (IF others = {} THEN {} ELSE others \cup {o})
    /\ UNCHANGED <<child, answered>>

\* kill(id) from the cancel route; without the id it is the same, for the
\* active process is a child of the active operation.
Kill(o) ==
    /\ AtRest
    /\ activeProcess # NoChild
    /\ activeOperationId = o
    /\ Signal
    /\ activeProcess' = NoChild
    /\ UNCHANGED <<activeOperationId, stepIndex, due, child, history, answered>>

isRunning(o) == activeOperationId = o /\ activeProcess # NoChild

-----------------------------------------------------------------------------
(* fRunNext and _runOneCommand. *)

\* _finishOperation: whatever operation is active, it is over.
Finish ==
    /\ activeProcess' = NoChild
    /\ activeOperationId' = NoOp
    /\ due' = NoOp
    /\ UNCHANGED stepIndex

\* Mutant: a step that could not be started does not halt the chain.
HaltsOnCode(o, r) == o \in AbortOnError /\ r = "nonzero"

\* A step that exits with null, ended by a signal, does not halt its chain.
Halts(o, r) == o \in AbortOnError /\ r \in {"error", "nonzero"}

\* pAfter: a single command is over; a chain halts or looks for its next one.
\* The operation's own id is not compared with the active one here.
AfterCommand(o, r) ==
    IF o \notin Sequence \/ Halts(o, r)
    THEN Finish
    ELSE /\ stepIndex' = stepIndex + 1
         /\ due' = o
         /\ activeProcess' = NoChild
         /\ UNCHANGED activeOperationId

\* Mutant: a chain goes on whoever is active.
CurrentAlways(o) == due = o

\* The chain is still the active operation.
Current(o) == due = o /\ activeOperationId = o

NextChild(o) == [op |-> o, step |-> stepIndex]

Spawn(o) ==
    /\ Current(o) /\ stepIndex < Length[o]
    /\ child' = [child EXCEPT ![NextChild(o)] = "running"]
    /\ activeProcess' = NextChild(o)
    /\ due' = NoOp
    /\ UNCHANGED <<activeOperationId, stepIndex, signalled, history, answered>>

\* spawn() throws: reported as an error, and the chain goes on or halts.
SpawnThrows(o) ==
    /\ Current(o) /\ stepIndex < Length[o]
    /\ child' = [child EXCEPT ![NextChild(o)] = "error"]
    /\ answered' = answered \cup {o}
    /\ AfterCommand(o, "error")
    /\ UNCHANGED <<signalled, history>>

\* The chain is at its end.
ChainDone(o) ==
    /\ Current(o) /\ stepIndex >= Length[o]
    /\ Finish
    /\ UNCHANGED <<child, signalled, history, answered>>

\* Another operation has taken over: the chain stops.
StandDown(o) ==
    /\ due = o /\ ~Current(o)
    /\ due' = NoOp
    /\ UNCHANGED <<activeProcess, activeOperationId, stepIndex, child, signalled, history, answered>>

-----------------------------------------------------------------------------
(* The handlers of a child. *)

\* 'error': the child did not start.
ChildError(c) ==
    /\ AtRest
    /\ child[c] = "running"
    /\ child' = [child EXCEPT ![c] = "failed"]
    /\ answered' = answered \cup {c.op}
    /\ AfterCommand(c.op, "error")
    /\ UNCHANGED <<signalled, history>>

\* Mutant: no terminal event for a chain that halts in the middle.
SynthesizedNot(o, r) == FALSE

\* A chain that halts before its last step, by the shared index, is given a
\* terminal 'end' of its own.
Synthesized(o, r) == Halts(o, r) /\ stepIndex < Length[o] - 1

\* 'close', after the exit of the child or after its 'error'.
ChildClose(c, r) ==
    /\ AtRest
    /\ \/ child[c] = "running" /\ r \in {"zero", "nonzero", "signal"}
       \/ child[c] = "failed" /\ r = "nonzero"
    /\ child' = [child EXCEPT ![c] = IF child[c] = "failed" THEN "error" ELSE r]
    /\ answered' = IF c.step = Length[c.op] - 1 \/ Synthesized(c.op, r)
                   THEN answered \cup {c.op} ELSE answered
    /\ AfterCommand(c.op, r)
    /\ UNCHANGED <<signalled, history>>

-----------------------------------------------------------------------------

RunnerInit ==
    /\ activeProcess = NoChild
    /\ activeOperationId = NoOp
    /\ stepIndex = 0
    /\ due = NoOp
    /\ child = [c \in Children |-> "none"]
    /\ signalled = {}
    /\ begun = {}
    /\ latest = NoOp
    /\ answered = {}
    /\ crossed = {}

Turn(o) == Spawn(o) \/ SpawnThrows(o) \/ ChainDone(o) \/ StandDown(o)

Ends(c) == \E r \in Results : ChildClose(c, r)

RunnerNext ==
    \/ \E o \in Ops : Run(o) \/ Kill(o) \/ Turn(o)
    \/ \E c \in Children : ChildError(c) \/ Ends(c)

RunnerSpec == RunnerInit /\ [][RunnerNext]_runnerVars

\* A turn runs to its end, and every command comes to one.
RunnerFairness ==
    /\ WF_runnerVars(\E o \in Ops : Turn(o))
    /\ \A c \in Children : WF_runnerVars(Ends(c))

RunnerFairSpec == RunnerSpec /\ RunnerFairness

-----------------------------------------------------------------------------
(* Correctness. *)

\* Every variable stays in its domain.
RunnerTypeOK ==
    /\ activeProcess \in Children \cup {NoChild}
    /\ activeOperationId \in Ops \cup {NoOp}
    /\ stepIndex \in Nat
    /\ due \in Ops \cup {NoOp}
    /\ child \in [Children -> {"none", "running", "failed"} \cup Results]
    /\ signalled \in SUBSET Children
    /\ begun \in SUBSET Ops
    /\ latest \in Ops \cup {NoOp}
    /\ answered \in SUBSET Ops
    /\ crossed \in SUBSET Ops

\* What isRunning() says is true, and kill() signals no other operation's
\* child: the active process runs, for the active operation, and is the child
\* of no chain but the one begun last.
RunningIsTrue ==
    activeProcess # NoChild =>
        /\ child[activeProcess] = "running"
        /\ activeProcess.op = activeOperationId
        /\ activeProcess.op = latest
        /\ activeProcess \notin signalled

\* AbortOnError: once a step could not be started or exited with a code other
\* than 0, no later step of its chain is ever started, whatever callbacks of
\* this or of other operations are still to come.
AbortHalts ==
    \A c, d \in Children :
        /\ c.op = d.op /\ c.op \in AbortOnError
        /\ child[c] \in {"failed", "error", "nonzero"} /\ c.step < d.step
        => child[d] = "none"

\* The steps of a chain with AbortOnError never overlap.
AbortChainSerial ==
    \A c, d \in Children :
        c.op = d.op /\ c.op \in AbortOnError /\ Open(c) /\ Open(d) => c = d

\* Once another operation was begun nothing of the earlier ones is started, and
\* no command is ever started twice.
ReplacedChainStops ==
    [][\A c \in Children : child'[c] # child[c] /\ ~Open(c) => child[c] = "none" /\ c.op = latest']_runnerVars

\* An operation that no other operation's child interferes with gets a terminal
\* event, through failures to start, kills and halted chains.
UncrossedAnswered == \A o \in Ops : o \in begun ~> o \in answered \/ o \in crossed

-----------------------------------------------------------------------------
(* The inductive invariant. *)

\* Only what was begun has children, and the active operation is the last.
NamesInv ==
    /\ activeOperationId # NoOp => activeOperationId = latest
    /\ latest # NoOp => latest \in begun
    /\ \A c \in Children : child[c] # "none" => c.op \in begun
    /\ \A c \in signalled : child[c] # "none"

\* The shared index, whoever advanced it, is not behind the active chain.
IndexInv ==
    \A c \in Children :
        c.op = activeOperationId /\ child[c] # "none"
        => c.step <= stepIndex /\ (due = c.op => c.step < stepIndex)

\* The child holds up its chain: it has not ended, or ended in a failure.
Stops(c) == c.op \in AbortOnError /\ child[c] \in {"running", "failed", "error", "nonzero"}

\* Nothing follows a child that holds up its chain, and no chain with one is due.
AbortInv ==
    \A c \in Children : Stops(c) =>
        /\ due # c.op
        /\ \A d \in Children : d.op = c.op /\ c.step < d.step => child[d] = "none"

\* The invariant the proofs rest on: the runner's fields against the children
\* that are still to report, and the failures of chains with AbortOnError.
RunnerInv == RunnerTypeOK /\ NamesInv /\ RunningIsTrue /\ IndexInv /\ AbortInv

-----------------------------------------------------------------------------
(* What the documentation says and the code does not do. *)

\* "only one operation runs at a time.  Starting a new one (run or runSequence)
\* kills the current one first."
SingleActive ==
    \A c, d \in Children :
        child[c] = "running" /\ child[d] = "running" /\ c \notin signalled /\ d \notin signalled
        => c.op = d.op

\* "a failed step (spawn error or non-zero exit) halts the rest of the chain":
\* a step that was killed failed too.
FailedStepHalts ==
    \A c, d \in Children :
        /\ c.op = d.op /\ c.op \in AbortOnError
        /\ child[c] \in {"failed", "error", "nonzero", "signal"} /\ c.step < d.step
        => child[d] = "none"

\* "Run a sequence of commands serially."
SerialSteps == \A c, d \in Children : c.op = d.op /\ child[c] = "running" /\ child[d] = "running" => c = d

\* "IsLastStep true means the whole run() / runSequence() operation is over":
\* every operation comes to such an event.
EveryOperationAnswered == \A o \in Ops : o \in begun ~> o \in answered
=============================================================================
