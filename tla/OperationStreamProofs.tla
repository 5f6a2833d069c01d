------------------------ MODULE OperationStreamProofs ------------------------
(* RunnerInv of ProcessRunner is inductive, its safety properties follow, and  *)
(* the stream implements it: the commands of all clients run one at a time,    *)
(* and a panel that shows one as running will be told of its end.              *)
EXTENDS OperationStream, SequenceTheorems, FiniteSetTheorems, TLAPS

Frame == [Type : {"start", "success", "error"}, Op : Ops]

Shape ==
    /\ wire \in Seq(Frame)
    /\ shown = [Id |-> shown.Id, State |-> shown.State]
    /\ queue \in Seq(Ops)
    /\ timers \in Seq(Ops)

(* The active process is at the shared index: whoever advances it takes the    *)
(* process from kill().  A child of an earlier operation crosses the last.     *)
ActiveInv ==
    /\ due # NoOp => activeProcess = NoChild
    /\ activeProcess # NoChild => stepIndex = activeProcess.step
    /\ \A c \in Children : Open(c) /\ c.op # latest => c.op \in crossed /\ latest \in crossed

(* Without a cancel or a failure to start, the runner has forgotten no child.  *)
QuietInv == ~disturbed => \A c \in Children : Open(c) => c = activeProcess

(* Once it has handled what is on the wire the panel says "running".           *)
WillRun ==
    \E i \in 0..Len(wire) :
        /\ IF i = 0 THEN shown.State = "running" ELSE ~Terminal(wire[i])
        /\ \A j \in (i + 1)..Len(wire) : ~Terminal(wire[j])

(* A child that will be reported as terminal, or after which its chain goes on. *)
Promise(c) == Open(c) /\ (c.step = Length[c.op] - 1 \/ c = activeProcess)

Promised ==
    \/ \E c \in Children : Promise(c)
    \/ due # NoOp /\ activeOperationId = due /\ stepIndex < Length[due]

(* The panel was begun and nothing came since: its request is under way, or was *)
(* turned away.                                                                 *)
Awaited ==
    /\ shown.Id = NoOp /\ wire = <<>>
    /\ Request("run", asked) \in requests \/ asked \in turned

ToldInv == WillRun /\ "terminal" \notin lost /\ ~ChainsCrossed => Awaited \/ Promised

StreamInv == RunnerInv /\ Shape /\ ActiveInv /\ QuietInv /\ ToldInv

-----------------------------------------------------------------------------
(* The process runner, by itself. *)

LEMMA ChildrenAre ==
    /\ \A c \in Children : /\ c.op \in Ops /\ c.step \in 0..(Length[c.op] - 1)
                                  /\ c = [op |-> c.op, step |-> c.step]
    /\ \A o \in Ops, i \in Nat : i < Length[o] => [op |-> o, step |-> i] \in Children
    /\ NoChild \notin Children
  <1>1. \A o \in Ops : Length[o] \in Nat \ {0}
    BY RunnerAssumption
  <1>2. \A c \in Children : \E o \in Ops : c \in [op : {o}, step : 0..(Length[o] - 1)]
    BY DEF Children
  <1>3. \A o \in Ops : [op : {o}, step : 0..(Length[o] - 1)] \subseteq Children
    BY DEF Children
  <1>4. ASSUME NEW o \in Ops, NEW i \in Nat, i < Length[o]
        PROVE  [op |-> o, step |-> i] \in Children
    <2>1. i \in 0..(Length[o] - 1)
      BY <1>1, <1>4
    <2>2. QED
      BY <2>1, <1>3
  <1>5. \A c \in Children : c.op \in Ops /\ c.step \in 0..(Length[c.op] - 1)
                                   /\ c = [op |-> c.op, step |-> c.step]
    BY <1>2
  <1>6. NoChild \notin Children
    BY <1>5, RunnerAssumption DEF NoChild
  <1>7. QED
    BY <1>4, <1>5, <1>6

LEMMA RunnerStepCases ==
    ASSUME RunnerNext
    PROVE  \/ \E o \in Ops : Run(o)
           \/ \E o \in Ops : Kill(o)
           \/ \E o \in Ops : Spawn(o)
           \/ \E o \in Ops : SpawnThrows(o)
           \/ \E o \in Ops : ChainDone(o)
           \/ \E o \in Ops : StandDown(o)
           \/ \E c \in Children : ChildError(c)
           \/ \E c \in Children, r \in Results : ChildClose(c, r)
  BY DEF RunnerNext, Turn, Ends

\* The continuation of a command keeps the runner's fields in their domains.
LEMMA AfterCommandType ==
    ASSUME RunnerTypeOK, NEW o \in Ops, NEW r, AfterCommand(o, r)
    PROVE  /\ activeProcess' = NoChild
           /\ activeOperationId' \in Ops \cup {NoOp}
           /\ stepIndex' \in Nat
           /\ due' \in Ops \cup {NoOp}
  <1>1. CASE o \notin Sequence \/ Halts(o, r)
    BY <1>1 DEF AfterCommand, Finish, RunnerTypeOK
  <1>2. CASE ~(o \notin Sequence \/ Halts(o, r))
    BY <1>2 DEF AfterCommand, RunnerTypeOK
  <1>3. QED
    BY <1>1, <1>2

\* A step reads and writes within the domains of the variables.
LEMMA RunnerTypeStep == RunnerTypeOK /\ [RunnerNext]_runnerVars => RunnerTypeOK'
  <1> SUFFICES ASSUME RunnerTypeOK, [RunnerNext]_runnerVars PROVE RunnerTypeOK'
    OBVIOUS
  <1>1. CASE UNCHANGED runnerVars
    BY <1>1 DEF RunnerTypeOK, runnerVars
  <1>2. ASSUME NEW o \in Ops, Run(o) PROVE RunnerTypeOK'
    <2>1. {c.op : c \in {d \in Children : Open(d)}} \subseteq Ops
      BY ChildrenAre
    <2>2. crossed' \in SUBSET Ops
      BY <1>2, <2>1 DEF Run, RunnerTypeOK
    <2>3. signalled' \in SUBSET Children
      BY <1>2 DEF Run, Signal, RunnerTypeOK
    <2>4. QED
      BY <1>2, <2>2, <2>3 DEF Run, RunnerTypeOK
  <1>3. ASSUME NEW o \in Ops, Kill(o) PROVE RunnerTypeOK'
    BY <1>3 DEF Kill, Signal, RunnerTypeOK, history
  <1>4. ASSUME NEW o \in Ops, Spawn(o) PROVE RunnerTypeOK'
    <2>1. NextChild(o) \in Children
      BY <1>4, ChildrenAre DEF Spawn, NextChild, RunnerTypeOK
    <2>2. QED
      BY <1>4, <2>1 DEF Spawn, RunnerTypeOK, history
  <1>5. ASSUME NEW o \in Ops, SpawnThrows(o) PROVE RunnerTypeOK'
    <2>1. child' \in [Children -> {"none", "running", "failed"} \cup Results]
      BY <1>5 DEF SpawnThrows, RunnerTypeOK, Results
    <2>2. QED
      BY <1>5, <2>1, AfterCommandType DEF SpawnThrows, RunnerTypeOK, history
  <1>6. ASSUME NEW o \in Ops, ChainDone(o) PROVE RunnerTypeOK'
    BY <1>6 DEF ChainDone, Finish, RunnerTypeOK, history
  <1>7. ASSUME NEW o \in Ops, StandDown(o) PROVE RunnerTypeOK'
    BY <1>7 DEF StandDown, RunnerTypeOK, history
  <1>8. ASSUME NEW c \in Children, ChildError(c) PROVE RunnerTypeOK'
    BY <1>8, ChildrenAre, AfterCommandType DEF ChildError, RunnerTypeOK, history
  <1>9. ASSUME NEW c \in Children, NEW r \in Results, ChildClose(c, r) PROVE RunnerTypeOK'
    <2>1. child' \in [Children -> {"none", "running", "failed"} \cup Results]
      BY <1>9 DEF ChildClose, RunnerTypeOK, Results
    <2>2. answered' \in SUBSET Ops
      BY <1>9, ChildrenAre DEF ChildClose, RunnerTypeOK
    <2>3. QED
      BY <1>9, <2>1, <2>2, ChildrenAre, AfterCommandType DEF ChildClose, RunnerTypeOK, history
  <1>10. QED
    BY <1>1, <1>2, <1>3, <1>4, <1>5, <1>6, <1>7, <1>8, <1>9, RunnerStepCases

-----------------------------------------------------------------------------

LEMMA RunnerStarts == RunnerInit => RunnerInv
  BY RunnerAssumption DEF RunnerInit, RunnerInv, RunnerTypeOK, NamesInv, RunningIsTrue, IndexInv, AbortInv,
                          Stops, NoChild

\* What is to be spawned next was never spawned, nor anything after it.
LEMMA NextChildIsNew ==
    ASSUME RunnerInv, NEW o \in Ops, Current(o), stepIndex < Length[o]
    PROVE  /\ NextChild(o) \in Children
           /\ NextChild(o).op = o /\ NextChild(o).step = stepIndex
           /\ o = latest /\ o \in begun
           /\ \A d \in Children : d.op = o /\ stepIndex <= d.step => child[d] = "none"
           /\ o \in AbortOnError => \A d \in Children : d.op = o => ~Stops(d)
  <1>1. NextChild(o) \in Children
    BY ChildrenAre DEF NextChild, RunnerInv, RunnerTypeOK
  <1>2. o = latest /\ o \in begun
    BY RunnerAssumption DEF Current, RunnerInv, NamesInv
  <1>3. ASSUME NEW d \in Children, d.op = o, stepIndex <= d.step PROVE child[d] = "none"
    <2>1. d.step \in Int /\ stepIndex \in Int
      BY ChildrenAre DEF RunnerInv, RunnerTypeOK
    <2>2. child[d] # "none" => d.step < stepIndex
      BY <1>3 DEF RunnerInv, IndexInv, Current
    <2>3. QED
      BY <1>3, <2>1, <2>2
  <1>4. \A d \in Children : d.op = o => ~Stops(d)
    BY DEF RunnerInv, AbortInv, Current
  <1>5. QED
    BY <1>1, <1>2, <1>3, <1>4 DEF NextChild

LEMMA RunInv ==
    ASSUME RunnerInv, RunnerTypeOK', NEW o \in Ops, Run(o)
    PROVE  RunnerInv'
  <1>1. \A c \in Children : c.op = o => child[c] = "none"
    BY DEF RunnerInv, NamesInv, Run
  <1>2. \A c \in signalled' : child[c] # "none"
    BY DEF RunnerInv, NamesInv, RunningIsTrue, Run, Signal
  <1>3. NamesInv'
    BY <1>2 DEF RunnerInv, NamesInv, Run
  <1>4. RunningIsTrue' /\ IndexInv'
    BY <1>1 DEF Run, RunningIsTrue, IndexInv
  <1>5. AbortInv'
    BY <1>1 DEF Run, RunnerInv, AbortInv, Stops
  <1>6. QED
    BY <1>3, <1>4, <1>5 DEF RunnerInv

LEMMA KillInv ==
    ASSUME RunnerInv, RunnerTypeOK', NEW o \in Ops, Kill(o)
    PROVE  RunnerInv'
  <1>1. \A c \in signalled' : child[c] # "none"
    BY DEF RunnerInv, NamesInv, RunningIsTrue, Kill, Signal
  <1>2. NamesInv' /\ RunningIsTrue' /\ IndexInv' /\ AbortInv'
    BY <1>1 DEF RunnerInv, NamesInv, RunningIsTrue, IndexInv, AbortInv, Stops, Kill, history
  <1>3. QED
    BY <1>2 DEF RunnerInv

LEMMA SpawnInv ==
    ASSUME RunnerInv, RunnerTypeOK', NEW o \in Ops, Spawn(o)
    PROVE  RunnerInv'
  <1> DEFINE n == NextChild(o)
  <1>1. /\ n \in Children /\ n.op = o /\ n.step = stepIndex /\ o = latest /\ o \in begun
        /\ \A d \in Children : d.op = o /\ stepIndex <= d.step => child[d] = "none"
        /\ o \in AbortOnError => \A d \in Children : d.op = o => ~Stops(d)
    BY NextChildIsNew DEF Spawn
  <1>2. /\ child'[n] = "running" /\ \A c \in Children \ {n} : child'[c] = child[c]
        /\ stepIndex \in Nat
    BY <1>1 DEF Spawn, RunnerInv, RunnerTypeOK
  <1>3. NamesInv'
    BY <1>1, <1>2 DEF Spawn, RunnerInv, RunnerTypeOK, NamesInv, history
  <1>4. n \notin signalled /\ activeOperationId = o
    <2>1. child[n] = "none"
      BY <1>1, <1>2
    <2>2. QED
      BY <2>1 DEF RunnerInv, NamesInv, Spawn, Current
  <1>5. RunningIsTrue'
    BY <1>1, <1>2, <1>4 DEF Spawn, RunningIsTrue, history
  <1>6. IndexInv'
    <2> SUFFICES ASSUME NEW c \in Children, c.op = o, child'[c] # "none"
                 PROVE  c.step <= stepIndex
      BY <1>4, RunnerAssumption DEF IndexInv, Spawn
    <2>1. CASE c = n
      BY <2>1, <1>1, <1>2
    <2>2. CASE c # n
      BY <2>2, <1>1, <1>2, ChildrenAre
    <2>3. QED
      BY <2>1, <2>2
  <1>7. AbortInv'
    <2> SUFFICES ASSUME NEW c \in Children, Stops(c)'
                 PROVE  /\ due' # c.op
                        /\ \A d \in Children : d.op = c.op /\ c.step < d.step => child'[d] = "none"
      BY DEF AbortInv
    <2>1. due' # c.op
      BY ChildrenAre, RunnerAssumption DEF Spawn
    <2>2. CASE c = n
      <3>1. ASSUME NEW d \in Children, d.op = o, stepIndex < d.step PROVE child'[d] = "none"
        <4>1. d # n /\ stepIndex <= d.step
          BY <3>1, <1>1, <1>2, ChildrenAre
        <4>2. QED
          BY <3>1, <4>1, <1>1, <1>2
      <3>2. QED
        BY <2>1, <2>2, <3>1, <1>1
    <2>3. CASE c # n
      <3>1. Stops(c) /\ c.op # o
        BY <2>3, <1>1, <1>2 DEF Stops
      <3>2. QED
        BY <2>1, <3>1, <1>1, <1>2 DEF RunnerInv, AbortInv
    <2>4. QED
      BY <2>2, <2>3
  <1>8. QED
    BY <1>3, <1>5, <1>6, <1>7 DEF RunnerInv

\* The chain's index moves on or the operation is over; child c of the chain
\* has reported, and a child that holds up its chain is not followed.
LEMMA AfterCommandInv ==
    ASSUME RunnerInv, RunnerTypeOK', NEW c \in Children, NEW r \in Results,
           AfterCommand(c.op, r),
           \A d \in Children \ {c} : child'[d] = child[d],
           UNCHANGED <<signalled, history>>,
           AtRest \/ due = c.op,
           child'[c] # "none", c.op \in begun,
           Stops(c)' => Halts(c.op, r),
           child[c] = "none" => c.op = activeOperationId /\ c.step = stepIndex,
           \* what follows c was not started, what stops the chain is not before c
           \A d \in Children : d.op = c.op /\ c.step < d.step /\ c.op \in AbortOnError => child[d] = "none",
           \A d \in Children \ {c} : d.op = c.op => ~Stops(d)
    PROVE  RunnerInv'
  <1>1. c.op \in Ops /\ c.step \in Nat /\ stepIndex \in Nat
    BY ChildrenAre DEF RunnerInv, RunnerTypeOK
  <1>2. NamesInv'
    <2>1. activeOperationId' \in {NoOp, activeOperationId}
      BY DEF AfterCommand, Finish
    <2>2. \A d \in Children : child'[d] # "none" => d.op \in begun
      BY DEF RunnerInv, NamesInv
    <2>3. \A d \in signalled : child'[d] # "none"
      BY DEF RunnerInv, NamesInv, RunnerTypeOK
    <2>4. QED
      BY <2>1, <2>2, <2>3 DEF NamesInv, RunnerInv, history
  <1>3. RunningIsTrue'
    BY DEF RunningIsTrue, AfterCommand, Finish
  <1>4. IndexInv'
    <2>1. CASE activeOperationId' = NoOp
      BY <2>1, ChildrenAre, RunnerAssumption DEF IndexInv
    <2>2. CASE activeOperationId' # NoOp
      <3>1. stepIndex' = stepIndex + 1 /\ activeOperationId' = activeOperationId
        BY <2>2 DEF AfterCommand, Finish
      <3>2. ASSUME NEW d \in Children, d.op = activeOperationId, child'[d] # "none"
            PROVE  d.step < stepIndex'
        <4>1. d.step \in Nat
          BY ChildrenAre
        <4>2. CASE child[d] # "none"
          BY <3>1, <3>2, <4>1, <4>2, <1>1 DEF RunnerInv, IndexInv
        <4>3. CASE child[d] = "none"
          BY <3>1, <3>2, <4>1, <4>3, <1>1
        <4>4. QED
          BY <4>2, <4>3
      <3>3. \A d \in Children : d.step \in Nat
        BY ChildrenAre
      <3>4. QED
        BY <3>1, <3>2, <3>3, <1>1 DEF IndexInv
    <2>3. QED
      BY <2>1, <2>2
  <1>5. AbortInv'
    <2> SUFFICES ASSUME NEW d \in Children, Stops(d)'
                 PROVE  /\ due' # d.op
                        /\ \A e \in Children : e.op = d.op /\ d.step < e.step => child'[e] = "none"
      BY DEF AbortInv
    <2>1. CASE d = c
      <3>1. due' = NoOp
        BY <2>1 DEF AfterCommand, Finish
      <3>2. c.op \in AbortOnError
        BY <2>1 DEF Stops
      <3>3. \A e \in Children : e.op = c.op /\ c.step < e.step => e # c
        BY <1>1
      <3>4. QED
        BY <2>1, <3>1, <3>2, <3>3, <1>1, RunnerAssumption
    <2>2. CASE d # c
      <3>1. Stops(d) /\ d.op # c.op
        BY <2>2 DEF Stops
      <3>2. due' \in {NoOp, c.op}
        BY DEF AfterCommand, Finish
      <3>3. \A e \in Children : e.op = d.op => child'[e] = child[e]
        BY <3>1
      <3>4. QED
        BY <3>1, <3>2, <3>3, ChildrenAre, RunnerAssumption DEF RunnerInv, AbortInv
    <2>3. QED
      BY <2>1, <2>2
  <1>6. QED
    BY <1>2, <1>3, <1>4, <1>5 DEF RunnerInv

LEMMA SpawnThrowsInv ==
    ASSUME RunnerInv, RunnerTypeOK', NEW o \in Ops, SpawnThrows(o)
    PROVE  RunnerInv'
  <1>1. PICK n \in Children :
           /\ n = NextChild(o) /\ n.op = o /\ n.step = stepIndex /\ o \in begun
           /\ \A d \in Children : d.op = o /\ stepIndex <= d.step => child[d] = "none"
           /\ o \in AbortOnError => \A d \in Children : d.op = o => ~Stops(d)
    BY NextChildIsNew DEF SpawnThrows
  <1>2. /\ child'[n] = "error" /\ \A c \in Children \ {n} : child'[c] = child[c]
    BY <1>1 DEF SpawnThrows, RunnerInv, RunnerTypeOK
  <1>3. \A d \in Children : d.op = o /\ n.step < d.step => child[d] = "none"
    BY <1>1, ChildrenAre DEF RunnerInv, RunnerTypeOK
  <1>4. Stops(n)' => Halts(o, "error")
    BY <1>1 DEF Stops, Halts
  <1>5. \A d \in Children \ {n} : d.op = o => ~Stops(d)
    BY <1>1 DEF Stops
  <1>6. /\ AfterCommand(n.op, "error") /\ UNCHANGED <<signalled, history>>
        /\ due = n.op /\ n.op = activeOperationId
    BY <1>1 DEF SpawnThrows, Current
  <1>7. QED
    BY <1>1, <1>2, <1>3, <1>4, <1>5, <1>6, AfterCommandInv DEF Results

\* A child that is still open is the only one that holds up its chain.
LEMMA OpenStandsAlone ==
    ASSUME RunnerInv, NEW c \in Children, Open(c)
    PROVE  /\ c.op \in begun
           /\ \A d \in Children : d.op = c.op /\ c.step < d.step /\ c.op \in AbortOnError => child[d] = "none"
           /\ \A d \in Children \ {c} : d.op = c.op => ~Stops(d)
  <1>1. c.op \in begun
    BY DEF RunnerInv, NamesInv, Open
  <1>2. c.op \in AbortOnError => Stops(c)
    BY DEF Stops, Open
  <1>3. ASSUME NEW d \in Children, d # c, d.op = c.op, Stops(d) PROVE FALSE
    <2>1. d.step # c.step /\ d.step \in Int /\ c.step \in Int
      BY <1>3, ChildrenAre
    <2>2. CASE d.step < c.step
      BY <1>3, <2>2 DEF RunnerInv, AbortInv, Open
    <2>3. CASE c.step < d.step
      BY <1>2, <1>3, <2>3 DEF RunnerInv, AbortInv, Stops
    <2>4. QED
      BY <2>1, <2>2, <2>3
  <1>4. QED
    BY <1>1, <1>2, <1>3 DEF RunnerInv, AbortInv

LEMMA ChildErrorInv ==
    ASSUME RunnerInv, RunnerTypeOK', NEW c \in Children, ChildError(c)
    PROVE  RunnerInv'
  <1>1. Open(c) /\ child[c] # "none"
    BY DEF ChildError, Open
  <1>2. child'[c] = "failed" /\ \A d \in Children \ {c} : child'[d] = child[d]
    BY DEF ChildError, RunnerInv, RunnerTypeOK
  <1>3. Stops(c)' => Halts(c.op, "error")
    BY DEF Stops, Halts
  <1>4. AfterCommand(c.op, "error") /\ UNCHANGED <<signalled, history>> /\ AtRest
    BY DEF ChildError
  <1>5. QED
    BY <1>1, <1>2, <1>3, <1>4, OpenStandsAlone, AfterCommandInv DEF Results

LEMMA ChildCloseInv ==
    ASSUME RunnerInv, RunnerTypeOK', NEW c \in Children, NEW r \in Results, ChildClose(c, r)
    PROVE  RunnerInv'
  <1>1. Open(c) /\ child[c] # "none"
    BY DEF ChildClose, Open
  <1>2. /\ child'[c] = IF child[c] = "failed" THEN "error" ELSE r
        /\ \A d \in Children \ {c} : child'[d] = child[d]
    BY DEF ChildClose, RunnerInv, RunnerTypeOK
  <1>3. child'[c] # "none" /\ (Stops(c)' => Halts(c.op, r))
    BY <1>2 DEF ChildClose, Stops, Halts
  <1>4. AfterCommand(c.op, r) /\ UNCHANGED <<signalled, history>> /\ AtRest
    BY DEF ChildClose
  <1>5. QED
    BY <1>1, <1>2, <1>3, <1>4, OpenStandsAlone, AfterCommandInv

LEMMA RunnerInvStep == RunnerInv /\ [RunnerNext]_runnerVars => RunnerInv'
  <1> SUFFICES ASSUME RunnerInv, [RunnerNext]_runnerVars PROVE RunnerInv'
    OBVIOUS
  <1>1. RunnerTypeOK'
    BY RunnerTypeStep DEF RunnerInv
  <1>2. CASE UNCHANGED runnerVars
    BY <1>1, <1>2 DEF RunnerInv, NamesInv, RunningIsTrue, IndexInv, AbortInv, Stops, runnerVars
  <1>3. ASSUME NEW o \in Ops, ChainDone(o) PROVE RunnerInv'
    <2>1. NamesInv' /\ RunningIsTrue' /\ AbortInv'
      BY <1>3, ChildrenAre, RunnerAssumption
      DEF RunnerInv, NamesInv, RunningIsTrue, AbortInv, Stops, ChainDone, Finish, history
    <2>2. IndexInv'
      BY <1>3, ChildrenAre, RunnerAssumption DEF IndexInv, ChainDone, Finish
    <2>3. QED
      BY <1>1, <2>1, <2>2 DEF RunnerInv
  <1>4. ASSUME NEW o \in Ops, StandDown(o) PROVE RunnerInv'
    <2>1. NamesInv' /\ RunningIsTrue' /\ AbortInv'
      BY <1>4, ChildrenAre, RunnerAssumption
      DEF RunnerInv, NamesInv, RunningIsTrue, AbortInv, Stops, StandDown, history
    <2>2. IndexInv'
      BY <1>4, ChildrenAre, RunnerAssumption DEF RunnerInv, IndexInv, StandDown, history
    <2>3. QED
      BY <1>1, <2>1, <2>2 DEF RunnerInv
  <1>5. QED
    BY <1>1, <1>2, <1>3, <1>4, RunnerStepCases, RunInv, KillInv, SpawnInv, SpawnThrowsInv,
       ChildErrorInv, ChildCloseInv

-----------------------------------------------------------------------------
(* What follows for the runner. *)

\* Every variable of the runner stays in its domain.
THEOREM RunnerTypeCorrect == RunnerSpec => []RunnerTypeOK
  <1>1. RunnerInit => RunnerTypeOK
    BY RunnerStarts DEF RunnerInv
  <1>2. QED
    BY <1>1, RunnerTypeStep, PTL DEF RunnerSpec

\* The runner's fields agree with the children still to report, whatever the
\* number of operations and the length of their chains.
THEOREM RunnerInvariant == RunnerSpec => []RunnerInv
  BY RunnerStarts, RunnerInvStep, PTL DEF RunnerSpec

\* isRunning() and kill() speak of a running child of the active operation.
THEOREM RunningIsTrueHolds == RunnerSpec => []RunningIsTrue
  <1>1. RunnerInv => RunningIsTrue
    BY DEF RunnerInv
  <1>2. QED
    BY <1>1, RunnerInvariant, PTL

\* A chain with AbortOnError starts nothing after a step that failed.
THEOREM AbortHaltsHolds == RunnerSpec => []AbortHalts
  <1>1. RunnerInv => AbortHalts
    BY DEF RunnerInv, AbortInv, Stops, AbortHalts
  <1>2. QED
    BY <1>1, RunnerInvariant, PTL

\* The steps of a chain with AbortOnError never overlap.
THEOREM AbortChainSerialHolds == RunnerSpec => []AbortChainSerial
  <1>1. ASSUME RunnerInv, NEW c \in Children, NEW d \in Children,
               c.op = d.op, c.op \in AbortOnError, Open(c), Open(d)
        PROVE  c = d
    <2>1. c # d => ~Stops(d)
      BY <1>1, OpenStandsAlone
    <2>2. Stops(d)
      BY <1>1 DEF Stops, Open
    <2>3. QED
      BY <2>1, <2>2
  <1>2. RunnerInv => AbortChainSerial
    BY <1>1 DEF AbortChainSerial
  <1>3. QED
    BY <1>2, RunnerInvariant, PTL

\* Nothing of an earlier operation is started, and no command twice.
THEOREM ReplacedChainStopsHolds == RunnerSpec => ReplacedChainStops
  <1> DEFINE Begins ==
               \A c \in Children : child'[c] # child[c] /\ ~Open(c) => child[c] = "none" /\ c.op = latest'
  <1>1. ASSUME RunnerInv, NEW o \in Ops, Spawn(o) \/ SpawnThrows(o) PROVE Begins
    <2>1. Current(o) /\ stepIndex < Length[o] /\ latest' = latest
      BY <1>1 DEF Spawn, SpawnThrows, history
    <2>2. /\ NextChild(o) \in Children /\ NextChild(o).op = o /\ o = latest
          /\ child[NextChild(o)] = "none"
      BY <1>1, <2>1, NextChildIsNew DEF RunnerInv, RunnerTypeOK
    <2>3. \A c \in Children : c # NextChild(o) => child'[c] = child[c]
      BY <1>1, <2>2 DEF Spawn, SpawnThrows, RunnerInv, RunnerTypeOK
    <2>4. QED
      BY <2>1, <2>2, <2>3
  <1>2. ASSUME RunnerInv, NEW c \in Children, NEW r \in Results, ChildError(c) \/ ChildClose(c, r)
        PROVE  Begins
    <2>1. Open(c)
      BY <1>2 DEF ChildError, ChildClose, Open
    <2>2. \A d \in Children : d # c => child'[d] = child[d]
      BY <1>2 DEF ChildError, ChildClose, RunnerInv, RunnerTypeOK
    <2>3. QED
      BY <2>1, <2>2
  <1>3. ASSUME child' = child PROVE Begins
    BY <1>3
  <1>4. RunnerInv /\ [RunnerNext]_runnerVars => [Begins]_runnerVars
    BY <1>1, <1>2, <1>3, RunnerStepCases DEF Results, Run, Kill, ChainDone, StandDown, runnerVars
  <1>5. QED
    BY <1>4, RunnerInvariant, PTL DEF RunnerSpec, ReplacedChainStops

-----------------------------------------------------------------------------
(* The stream's steps on the runner. *)

LEMMA StepCases ==
    ASSUME [Next]_vars
    PROVE  \/ \E o \in Ops : PostRun(o) \/ PostTheirs(o)
           \/ \E o \in Ops : PostRefused(o)
           \/ \E o \in Ops : PostCancel(o)
           \/ \E o \in Ops : PostCancelLate(o)
           \/ \E o \in Ops : OnSpawn(o)
           \/ \E o \in Ops : OnSpawnThrows(o)
           \/ \E o \in Ops : OnTurn(o)
           \/ \E c \in Children : OnError(c)
           \/ \E c \in Children, r \in Results : OnEnd(c, r)
           \/ HandleStart \/ HandleTerminal \/ TimerFires
           \/ Disconnect \/ Reconnect \/ ClickCancel
           \/ \E o \in Mine : Click(o)
           \/ \E o \in Ops, kind \in {"run", "cancel"} : TurnedAway(kind, o)
           \/ UNCHANGED vars
  BY DEF Next, Routes, Turns, Browser, EndHeard

\* Every step of the stream is a step of the runner, or leaves it alone.
LEMMA RunnerSteps == [Next]_vars => [RunnerNext]_runnerVars
  <1> USE DEF runnerVars, RunnerNext, Turn, Ends
  <1>1. ASSUME UNCHANGED runnerVars PROVE UNCHANGED runnerVars
    BY <1>1 DEF runnerVars
  <1>2. ASSUME NEW o \in Ops, PostRun(o) \/ PostTheirs(o) PROVE RunnerNext
    BY <1>2 DEF PostRun, PostTheirs
  <1>3. ASSUME NEW o \in Ops, PostRefused(o) \/ PostCancelLate(o) PROVE UNCHANGED runnerVars
    BY <1>1, <1>3 DEF PostRefused, PostCancelLate
  <1>4. ASSUME NEW o \in Ops, PostCancel(o) PROVE RunnerNext
    BY <1>4 DEF PostCancel
  <1>5. ASSUME NEW o \in Ops, OnSpawn(o) \/ OnSpawnThrows(o) \/ OnTurn(o) PROVE RunnerNext
    BY <1>5 DEF OnSpawn, OnSpawnThrows, OnTurn
  <1>6. ASSUME NEW c \in Children, OnError(c) \/ \E r \in Results : OnEnd(c, r) PROVE RunnerNext
    BY <1>6 DEF OnError, OnEnd
  <1>7. ASSUME HandleStart \/ HandleTerminal \/ TimerFires \/ Disconnect \/ Reconnect \/ ClickCancel
        PROVE  UNCHANGED runnerVars
    BY <1>1, <1>7 DEF HandleStart, HandleTerminal, TimerFires, Disconnect, Reconnect, ClickCancel, serverVars
  <1>8. ASSUME NEW o \in Mine, Click(o) PROVE UNCHANGED runnerVars
    BY <1>1, <1>8 DEF Click, serverVars
  <1>9. UNCHANGED vars => UNCHANGED runnerVars
    BY <1>1 DEF vars
  <1>10. ASSUME NEW o \in Ops, NEW kind \in {"run", "cancel"}, TurnedAway(kind, o)
         PROVE  UNCHANGED runnerVars
    BY <1>1, <1>10 DEF TurnedAway
  <1> HIDE DEF runnerVars, RunnerNext, Turn, Ends
  <1>11. QED
    BY <1>2, <1>3, <1>4, <1>5, <1>6, <1>7, <1>8, <1>9, <1>10, StepCases, Zenon

\* The routes and the bridge drive the runner as ProcessRunner says, and what is
\* proved of it holds behind them: every behaviour of the stream is one of the
\* runner.
THEOREM StreamImplementsRunner == Spec => RunnerSpec
  <1>1. Init => RunnerInit
    BY DEF Init
  <1>2. QED
    BY <1>1, RunnerSteps, PTL DEF Spec, RunnerSpec

\* What RunnerInv says of the process, the index and the open children.
LEMMA RunnerFacts ==
    ASSUME RunnerInv
    PROVE  /\ activeProcess \in Children \cup {NoChild}
           /\ activeProcess # NoChild => Open(activeProcess) /\ activeProcess.op = latest
           /\ activeOperationId # NoOp => activeOperationId = latest
           /\ stepIndex \in Nat /\ due \in Ops \cup {NoOp}
           /\ child \in [Children -> {"none", "running", "failed"} \cup Results]
           /\ \A c \in Children : Open(c) => c.op \in begun
  BY DEF RunnerInv, RunnerTypeOK, NamesInv, RunningIsTrue, Open

\* After a command: the operation is over, or its chain looks for the next one.
LEMMA AfterCommandIs ==
    ASSUME NEW o, NEW r, AfterCommand(o, r)
    PROVE  /\ activeProcess' = NoChild
           /\ \/ due' = NoOp /\ (o \in Sequence => Halts(o, r))
              \/ /\ o \in Sequence /\ due' = o
                 /\ stepIndex' = stepIndex + 1 /\ activeOperationId' = activeOperationId
  BY DEF AfterCommand, Finish

\* A child that is spawned is new, of the active operation and at the index.
LEMMA Spawned ==
    ASSUME RunnerInv, NEW o \in Ops, Spawn(o) \/ SpawnThrows(o)
    PROVE  /\ NextChild(o) \in Children
           /\ NextChild(o).op = o /\ NextChild(o).step = stepIndex
           /\ o = latest /\ due = o
  <1>1. Current(o) /\ stepIndex < Length[o]
    BY DEF Spawn, SpawnThrows, Current
  <1>2. QED
    BY <1>1, NextChildIsNew DEF Current, NextChild

\* The child of a handler is open, and reports nothing of the others.
LEMMA Reported ==
    ASSUME RunnerInv, NEW c \in Children, NEW r,
           ChildError(c) \/ ChildClose(c, r)
    PROVE  /\ Open(c) /\ due = NoOp
           /\ \A d \in Children \ {c} : child'[d] = child[d]
           /\ \E s : AfterCommand(c.op, s)
           /\ latest' = latest /\ crossed' = crossed
  BY RunnerFacts DEF ChildError, ChildClose, Open, AtRest, history

-----------------------------------------------------------------------------
(* The steps. *)

LEMMA StreamInit == Init => StreamInv
  <1> SUFFICES ASSUME Init PROVE StreamInv
    OBVIOUS
  <1>1. RunnerInit
    BY DEF Init
  <1>2. RunnerInv
    BY <1>1, RunnerStarts
  <1>3. Shape
    BY DEF Init, Idle, Shape
  <1>4. \A c \in Children : ~Open(c)
    BY DEF Init, RunnerInit, Open
  <1>5. ActiveInv /\ QuietInv
    BY <1>4 DEF Init, RunnerInit, ActiveInv, QuietInv
  <1>6. ToldInv
    BY DEF Init, Idle, ToldInv, WillRun
  <1>7. QED
    BY <1>2, <1>3, <1>5, <1>6 DEF StreamInv

LEMMA Broadcasts ==
    ASSUME Shape, NEW fs \in Seq(Frame), Broadcast(fs)
    PROVE  wire' \in Seq(Frame)
  BY DEF Broadcast, Shape

LEMMA ShapeStep == Shape /\ [Next]_vars => Shape'
  <1> SUFFICES ASSUME Shape, [Next]_vars PROVE Shape'
    OBVIOUS
  <1>1. ASSUME NEW o \in Ops
        PROVE  Start(o) \in Frame /\ Ended(o, "error") \in Frame /\ Ended(o, "success") \in Frame
    BY DEF Start, Ended, Frame
  <1>2. ASSUME wire' = wire, shown' = shown, queue' = queue, timers' = timers PROVE Shape'
    BY <1>2 DEF Shape
  <1>3. ASSUME UNCHANGED browserVars, NEW fs \in Seq(Frame), Broadcast(fs) PROVE Shape'
    BY <1>3, Broadcasts DEF Shape, browserVars
  <1>4. CASE \E o \in Ops : PostRun(o) \/ PostTheirs(o) \/ PostRefused(o) \/ PostCancelLate(o)
    BY <1>2, <1>4 DEF PostRun, PostTheirs, PostRefused, PostCancelLate, browserVars
  <1>5. ASSUME UNCHANGED browserVars, NEW f \in Frame, Broadcast(<<f>>) PROVE Shape'
    <2>1. <<f>> \in Seq(Frame)
      OBVIOUS
    <2>2. QED
      BY <1>3, <1>5, <2>1
  <1>6. ASSUME NEW o \in Ops, PostCancel(o) PROVE Shape'
    <2>1. Broadcast(<<Ended(o, "error")>>) /\ UNCHANGED browserVars
      BY <1>6 DEF PostCancel
    <2>2. QED
      BY <1>1, <1>5, <2>1
  <1>7. ASSUME NEW o \in Ops, OnSpawn(o) \/ OnSpawnThrows(o) \/ OnTurn(o) PROVE Shape'
    <2>1. UNCHANGED browserVars
      BY <1>7 DEF OnSpawn, OnSpawnThrows, OnTurn, Bridged
    <2>2. Broadcast(<<Start(o)>>) \/ Broadcast(<<Start(o), Ended(o, "error")>>) \/ Broadcast(<<>>)
      BY <1>7 DEF OnSpawn, OnSpawnThrows, OnTurn, Bridged
    <2>3. /\ <<Start(o)>> \in Seq(Frame) /\ <<Start(o), Ended(o, "error")>> \in Seq(Frame)
          /\ <<>> \in Seq(Frame)
      BY <1>1
    <2>4. QED
      BY <1>3, <2>1, <2>2, <2>3
  <1>8. ASSUME NEW c \in Children, OnError(c) \/ \E r \in Results : OnEnd(c, r) PROVE Shape'
    <2>1. UNCHANGED browserVars
      BY <1>8 DEF OnError, OnEnd, Bridged
    <2>2. \/ Broadcast(<<Ended(c.op, "error")>>) \/ Broadcast(<<Ended(c.op, "success")>>)
          \/ Broadcast(<<>>)
      BY <1>8 DEF OnError, OnEnd, Bridged
    <2>3. <<>> \in Seq(Frame) /\ Ended(c.op, "error") \in Frame /\ Ended(c.op, "success") \in Frame
      BY <1>1, ChildrenAre
    <2>4. QED
      BY <1>3, <1>5, <2>1, <2>2, <2>3
  <1>9. CASE HandleStart
    BY <1>9 DEF HandleStart, Shape
  <1>10. CASE HandleTerminal
    <2>1. wire' \in Seq(Frame)
      BY <1>10 DEF HandleTerminal, Shape
    <2>2. queue' \in Seq(Ops) /\ timers' \in Seq(Ops)
      <3>1. _pumpQueue /\ queue \in Seq(Ops) /\ timers \in Seq(Ops)
        BY <1>10 DEF HandleTerminal, Shape
      <3>2. CASE queue = <<>>
        BY <3>1, <3>2 DEF _pumpQueue
      <3>3. CASE queue # <<>>
        <4>1. Head(queue) \in Ops /\ Tail(queue) \in Seq(Ops)
          BY <3>1, <3>3
        <4>2. queue' = Tail(queue) /\ timers' = Append(timers, Head(queue))
          BY <3>1, <3>3 DEF _pumpQueue
        <4>3. QED
          BY <3>1, <4>1, <4>2
      <3>4. QED
        BY <3>2, <3>3
    <2>3. shown' = [Id |-> shown'.Id, State |-> shown'.State]
      <3>1. shown' = [shown EXCEPT !.State = Head(wire).Type]
        BY <1>10 DEF HandleTerminal
      <3>2. shown = [Id |-> shown.Id, State |-> shown.State]
        BY DEF Shape
      <3>3. QED
        BY <3>1, <3>2
    <2>4. QED
      BY <2>1, <2>2, <2>3 DEF Shape
  <1>11. CASE TimerFires
    BY <1>11 DEF TimerFires, Begin, Shape
  <1>12. CASE Disconnect \/ Reconnect \/ ClickCancel
    <2>1. shown' = shown /\ queue' = queue /\ timers' = timers
      BY <1>12 DEF Disconnect, Reconnect, ClickCancel, browserVars
    <2>2. wire' = wire \/ wire' = <<>>
      BY <1>12 DEF Disconnect, Reconnect, ClickCancel
    <2>3. wire \in Seq(Frame) /\ <<>> \in Seq(Frame)
      BY DEF Shape
    <2>4. wire' \in Seq(Frame)
      BY <2>2, <2>3, Zenon
    <2>5. QED
      BY <2>1, <2>4, Zenon DEF Shape
  <1>13. ASSUME NEW o \in Mine, Click(o) PROVE Shape'
    <2>1. wire' = wire /\ timers' = timers /\ (shown' = shown \/ shown' = [Id |-> NoOp, State |-> "running"])
      BY <1>13 DEF Click, Begin
    <2>2. queue' = queue \/ queue' = Append(queue, o)
      BY <1>13 DEF Click
    <2>3. o \in Ops
      BY StreamAssumption
    <2>4. queue' \in Seq(Ops)
      <3>1. queue \in Seq(Ops)
        BY DEF Shape
      <3>2. Append(queue, o) \in Seq(Ops)
        BY <2>3, <3>1, AppendProperties
      <3>3. QED
        BY <2>2, <3>1, <3>2
    <2>5. shown' = [Id |-> shown'.Id, State |-> shown'.State]
      <3>1. shown = [Id |-> shown.Id, State |-> shown.State]
        BY DEF Shape
      <3>2. QED
        BY <2>1, <3>1
    <2>6. QED
      BY <2>1, <2>4, <2>5 DEF Shape
  <1>14. CASE UNCHANGED vars
    BY <1>2, <1>14 DEF vars, browserVars
  <1>15. CASE \E o \in Ops : PostCancel(o) \/ OnSpawn(o) \/ OnSpawnThrows(o) \/ OnTurn(o)
    BY <1>6, <1>7, <1>15
  <1>16. CASE \E c \in Children : OnError(c) \/ \E r \in Results : OnEnd(c, r)
    BY <1>8, <1>16
  <1>17. CASE \E o \in Ops, kind \in {"run", "cancel"} : TurnedAway(kind, o)
    BY <1>2, <1>17 DEF TurnedAway, browserVars
  <1>18. QED
    BY <1>4, <1>9, <1>10, <1>11, <1>12, <1>13, <1>14, <1>15, <1>16, <1>17, StepCases, Zenon

\* The steps of the runner, each in the stream's own terms.
LEMMA RunnerCases ==
    ASSUME [Next]_vars
    PROVE  \/ \E o \in Ops : Run(o)
           \/ \E o \in Ops : Kill(o) /\ disturbed'
           \/ \E o \in Ops : Spawn(o)
           \/ \E o \in Ops : SpawnThrows(o)
           \/ \E o \in Ops : ChainDone(o) \/ StandDown(o)
           \/ \E c \in Children, r \in Results : ChildError(c) \/ ChildClose(c, r)
           \/ UNCHANGED runnerVars
  <1>1. CASE \E o \in Ops : PostRun(o) \/ PostTheirs(o) \/ PostCancel(o)
    BY <1>1 DEF PostRun, PostTheirs, PostCancel
  <1>2. CASE \E o \in Ops : PostRefused(o) \/ PostCancelLate(o)
    BY <1>2 DEF PostRefused, PostCancelLate
  <1>3. CASE \E o \in Ops : OnSpawn(o) \/ OnSpawnThrows(o) \/ OnTurn(o)
    BY <1>3 DEF OnSpawn, OnSpawnThrows, OnTurn
  <1>4. ASSUME NEW c \in Children, OnError(c) \/ \E r \in Results : OnEnd(c, r)
        PROVE  \E r \in Results : ChildError(c) \/ ChildClose(c, r)
    BY <1>4 DEF OnError, OnEnd, Results
  <1>5. CASE HandleStart \/ HandleTerminal \/ TimerFires \/ Disconnect \/ Reconnect \/ ClickCancel
    BY <1>5 DEF HandleStart, HandleTerminal, TimerFires, Disconnect, Reconnect, ClickCancel, serverVars
  <1>6. CASE \E o \in Mine : Click(o)
    BY <1>6 DEF Click, serverVars
  <1>7. CASE UNCHANGED vars
    BY <1>7 DEF vars
  <1>8. CASE \E c \in Children : OnError(c) \/ \E r \in Results : OnEnd(c, r)
    BY <1>4, <1>8
  <1>9. CASE \E o \in Ops : \/ PostRun(o) \/ PostTheirs(o) \/ PostRefused(o) \/ PostCancel(o)
                            \/ PostCancelLate(o) \/ OnSpawn(o) \/ OnSpawnThrows(o) \/ OnTurn(o)
    BY <1>1, <1>2, <1>3, <1>9
  <1>10. CASE \E o \in Ops, kind \in {"run", "cancel"} : TurnedAway(kind, o)
    BY <1>10 DEF TurnedAway
  <1>11. QED
    BY <1>5, <1>6, <1>7, <1>8, <1>9, <1>10, StepCases, Zenon

LEMMA ActiveStep ==
    ASSUME RunnerInv, ActiveInv, [Next]_vars
    PROVE  ActiveInv'
  <1> USE DEF ActiveInv, Open
  <1>1. ASSUME NEW o \in Ops, Run(o) PROVE ActiveInv'
    <2>1. \A c \in Children : Open(c) => c.op \in crossed' /\ o \in crossed'
      BY <1>1 DEF Run
    <2>2. activeProcess' = NoChild /\ latest' = o /\ child' = child
      BY <1>1 DEF Run
    <2>3. QED
      BY <2>1, <2>2
  <1>2. ASSUME NEW o \in Ops, Kill(o) PROVE ActiveInv'
    BY <1>2 DEF Kill, history
  <1>3. ASSUME NEW o \in Ops, Spawn(o) PROVE ActiveInv'
    <2> DEFINE n == NextChild(o)
    <2>1. n \in Children /\ n.op = latest /\ n.step = stepIndex
      BY <1>3, Spawned
    <2>2. /\ activeProcess' = n /\ due' = NoOp /\ stepIndex' = stepIndex
          /\ latest' = latest /\ crossed' = crossed
          /\ \A c \in Children \ {n} : child'[c] = child[c]
      BY <1>3, RunnerFacts DEF Spawn, history
    <2> HIDE DEF n
    <2>3. QED
      BY <2>1, <2>2
  <1>4. ASSUME NEW o \in Ops, SpawnThrows(o) PROVE ActiveInv'
    <2> DEFINE n == NextChild(o)
    <2>1. n \in Children /\ n.op = latest
      BY <1>4, Spawned
    <2>2. /\ latest' = latest /\ crossed' = crossed
          /\ \A c \in Children \ {n} : child'[c] = child[c]
          /\ AfterCommand(o, "error")
      BY <1>4, RunnerFacts DEF SpawnThrows, history
    <2>3. activeProcess' = NoChild
      BY <2>2, AfterCommandIs
    <2> HIDE DEF n
    <2>4. QED
      BY <2>1, <2>2, <2>3
  <1>5. ASSUME NEW o \in Ops, ChainDone(o) \/ StandDown(o) PROVE ActiveInv'
    BY <1>5 DEF ChainDone, StandDown, Finish, history
  <1>6. ASSUME NEW c \in Children, NEW r, ChildError(c) \/ ChildClose(c, r)
        PROVE  ActiveInv'
    <2>1. activeProcess' = NoChild
      BY <1>6, Reported, AfterCommandIs
    <2>2. QED
      BY <1>6, <2>1, Reported
  <1>7. CASE UNCHANGED runnerVars
    BY <1>7 DEF runnerVars
  <1> HIDE DEF ActiveInv, Open
  <1>8. QED
    BY <1>1, <1>2, <1>3, <1>4, <1>5, <1>6, <1>7, RunnerCases

LEMMA QuietStep ==
    ASSUME RunnerInv, ActiveInv, QuietInv, [Next]_vars
    PROVE  QuietInv'
  <1> SUFFICES ASSUME ~disturbed' PROVE \A c \in Children : Open(c)' => c = activeProcess'
    BY DEF QuietInv
  <1>1. ~disturbed
    BY StepCases DEF PostRun, PostTheirs, PostRefused, PostCancelLate, PostCancel, TurnedAway, OnSpawn, OnSpawnThrows,
       OnTurn, OnError, OnEnd, HandleStart, HandleTerminal, TimerFires, Disconnect, Reconnect, ClickCancel,
       Click, serverVars, vars
  <1>2. \A c \in Children : Open(c) => c = activeProcess
    BY <1>1 DEF QuietInv
  <1>3. due # NoOp => \A c \in Children : ~Open(c)
    BY <1>2, ChildrenAre DEF ActiveInv
  <1>4. CASE \E o \in Ops : PostRun(o) \/ PostTheirs(o)
    BY <1>2, <1>4, ChildrenAre DEF PostRun, PostTheirs, Run, Open
  <1>5. CASE \E o \in Ops : PostRefused(o) \/ PostCancelLate(o)
    BY <1>2, <1>5 DEF PostRefused, PostCancelLate, runnerVars, Open
  <1>6. ASSUME NEW o \in Ops, OnSpawn(o) PROVE \A c \in Children : Open(c)' => c = activeProcess'
    <2> DEFINE n == NextChild(o)
    <2>1. Spawn(o)
      BY <1>6 DEF OnSpawn
    <2>2. due # NoOp /\ n \in Children
      BY <2>1, Spawned, RunnerAssumption
    <2>3. activeProcess' = n /\ \A c \in Children \ {n} : child'[c] = child[c]
      BY <2>1, RunnerFacts DEF Spawn
    <2> HIDE DEF n
    <2>4. QED
      BY <1>3, <2>2, <2>3 DEF Open
  <1>7. ASSUME NEW o \in Ops, OnTurn(o) PROVE \A c \in Children : Open(c)' => c = activeProcess'
    <2>1. due # NoOp /\ child' = child
      BY <1>7, RunnerAssumption DEF OnTurn, ChainDone, StandDown, Current
    <2>2. QED
      BY <1>3, <2>1 DEF Open
  <1>8. ASSUME NEW c \in Children, NEW r \in Results, OnEnd(c, r)
        PROVE  \A d \in Children : Open(d)' => d = activeProcess'
    <2>1. ChildClose(c, r)
      BY <1>8 DEF OnEnd
    <2>2. Open(c) /\ \A d \in Children \ {c} : child'[d] = child[d]
      BY <2>1, Reported
    <2>3. ~Open(c)'
      BY <2>1, RunnerFacts DEF ChildClose, Open
    <2>4. QED
      BY <1>2, <2>2, <2>3 DEF Open
  <1>9. CASE \/ HandleStart \/ HandleTerminal \/ TimerFires \/ Disconnect \/ Reconnect \/ ClickCancel
             \/ \E o \in Mine : Click(o)
    <2>1. UNCHANGED runnerVars
      BY <1>9 DEF HandleStart, HandleTerminal, TimerFires, Disconnect, Reconnect, ClickCancel, Click,
         serverVars
    <2>2. QED
      BY <1>2, <2>1 DEF runnerVars, Open
  <1>10. CASE UNCHANGED vars
    BY <1>2, <1>10 DEF vars, runnerVars, Open
  <1>11. CASE \E o \in Ops : \/ PostRun(o) \/ PostTheirs(o) \/ PostRefused(o) \/ PostCancelLate(o)
                             \/ OnSpawn(o) \/ OnTurn(o)
    BY <1>4, <1>5, <1>6, <1>7, <1>11
  <1>12. CASE \E o \in Ops : PostCancel(o) \/ OnSpawnThrows(o)
    BY <1>12 DEF PostCancel, OnSpawnThrows
  <1>13. CASE \E c \in Children : OnError(c) \/ \E r \in Results : OnEnd(c, r)
    BY <1>8, <1>13 DEF OnError
  <1>14. CASE \E o \in Ops, kind \in {"run", "cancel"} : TurnedAway(kind, o)
    BY <1>2, <1>14 DEF TurnedAway, runnerVars, Open
  <1>15. QED
    BY <1>9, <1>10, <1>11, <1>12, <1>13, <1>14, StepCases, Zenon

-----------------------------------------------------------------------------
(* The panel. *)

LEMMA Lengths == \A o \in Ops : Length[o] \in Nat \ {0}
  BY RunnerAssumption

\* A terminal frame at the end: the panel will not be left running, or one was lost.
LEMMA TellsTerminal ==
    ASSUME Shape, NEW fs \in Seq(Frame), fs # <<>>, Terminal(fs[Len(fs)]), Broadcast(fs)
    PROVE  ToldInv'
  <1>1. CASE connected
    <2>1. wire' = wire \o fs
      BY <1>1 DEF Broadcast
    <2>2. wire \in Seq(Frame) /\ Len(fs) \in Nat \ {0}
      BY DEF Shape
    <2>3. Len(wire') = Len(wire) + Len(fs) /\ wire'[Len(wire')] = fs[Len(fs)]
      BY <2>1, <2>2
    <2>4. Len(wire') \in Nat \ {0} /\ Terminal(wire'[Len(wire')])
      BY <2>2, <2>3
    <2>5. ~WillRun'
      BY <2>4 DEF WillRun, Terminal
    <2>6. QED
      BY <2>5 DEF ToldInv
  <1>2. CASE ~connected
    <2>1. Len(fs) \in DOMAIN fs
      OBVIOUS
    <2>2. "terminal" \in KindsOf(fs)
      BY <2>1 DEF KindsOf
    <2>3. "terminal" \in lost'
      BY <1>2, <2>2 DEF Broadcast
    <2>4. QED
      BY <2>3 DEF ToldInv
  <1>3. QED
    BY <1>1, <1>2

LEMMA TellsNothing ==
    ASSUME Shape, Broadcast(<<>>)
    PROVE  wire' = wire /\ lost' = lost
  BY DEF Broadcast, KindsOf, Shape

\* A step after which the panel will run only if it would before.
LEMMA Stays ==
    ASSUME ToldInv, crossed \subseteq crossed',
           WillRun' /\ "terminal" \notin lost' => WillRun /\ "terminal" \notin lost,
           Awaited => Awaited',
           Promised => Promised' \/ ChainsCrossed'
    PROVE  ToldInv'
  <1>1. ChainsCrossed => ChainsCrossed'
    BY DEF ChainsCrossed
  <1>2. QED
    BY <1>1, Zenon DEF ToldInv

LEMMA SamePromise == UNCHANGED runnerVars => (Promised => Promised') /\ crossed' = crossed
  BY DEF runnerVars, Promised, Promise, Open

LEMMA SameScreen == wire' = wire /\ shown' = shown => (WillRun' => WillRun)
  BY DEF WillRun

\* An operation begun is due; a refused one has another that runs.
LEMMA ToldRun ==
    ASSUME NEW o \in Ops, Run(o)
    PROVE  ToldInv'
  <1>1. due' = o /\ activeOperationId' = o /\ stepIndex' = 0
    BY DEF Run
  <1>2. Promised'
    BY <1>1, Lengths, RunnerAssumption DEF Promised
  <1>3. QED
    BY <1>2 DEF ToldInv

LEMMA ToldRefused ==
    ASSUME RunnerInv, NEW o \in Ops, PostRefused(o)
    PROVE  ToldInv'
  <1>1. activeProcess \in Children /\ Promise(activeProcess)
    BY RunnerFacts DEF PostRefused, Promise
  <1>2. Promised'
    BY <1>1, SamePromise DEF PostRefused, Promised
  <1>3. QED
    BY <1>2 DEF ToldInv

LEMMA ToldSpawn ==
    ASSUME RunnerInv, NEW o \in Ops, OnSpawn(o)
    PROVE  ToldInv'
  <1> DEFINE n == NextChild(o)
  <1>1. Spawn(o)
    BY DEF OnSpawn
  <1>2. n \in Children
    BY <1>1, Spawned
  <1>3. activeProcess' = n /\ child'[n] = "running"
    BY <1>1, <1>2, RunnerFacts DEF Spawn
  <1> HIDE DEF n
  <1>4. Promised'
    BY <1>2, <1>3 DEF Promised, Promise, Open
  <1>5. QED
    BY <1>4 DEF ToldInv

\* A chain that stops in its turn leaves behind what was promised.
LEMMA ToldTurn ==
    ASSUME StreamInv, NEW o \in Ops, OnTurn(o)
    PROVE  ToldInv'
  <1>1. /\ due = o /\ due # NoOp /\ child' = child /\ crossed' = crossed
        /\ stepIndex >= Length[o] \/ activeOperationId # o
    BY RunnerAssumption DEF OnTurn, ChainDone, StandDown, Current, history
  <1>2. activeProcess = NoChild /\ stepIndex \in Nat /\ Length[o] \in Nat
    BY <1>1, RunnerFacts, Lengths DEF StreamInv, ActiveInv
  <1>3. ASSUME Promised PROVE Promised'
    <2>1. PICK c \in Children : Promise(c)
      BY <1>1, <1>2, <1>3 DEF Promised
    <2>2. c.step = Length[c.op] - 1 /\ Open(c)'
      BY <1>1, <1>2, <2>1, ChildrenAre DEF Promise, Open
    <2>3. QED
      BY <2>2 DEF Promised, Promise
  <1>4. /\ wire' = wire /\ lost' = lost /\ shown' = shown /\ requests' = requests
        /\ asked' = asked /\ turned' = turned
    BY TellsNothing DEF OnTurn, Bridged, browserVars, StreamInv
  <1>5. QED
    BY <1>1, <1>3, <1>4, SameScreen, Stays DEF StreamInv, Awaited

\* A command that ends without a terminal frame: what was promised of another
\* child stays; what was promised of the active process its chain now owes,
\* unless the callback was of another chain.
LEMMA ToldEnd ==
    ASSUME StreamInv, NEW c \in Children, NEW r \in Results, OnEnd(c, r)
    PROVE  ToldInv'
  <1>1. /\ ChildClose(c, r) /\ Open(c) /\ due = NoOp
        /\ \A d \in Children \ {c} : child'[d] = child[d]
        /\ crossed' = crossed
    BY Reported DEF OnEnd, StreamInv
  <1>2. CASE c.step = Length[c.op] - 1 \/ Synthesized(c.op, r)
    <2> DEFINE f == Ended(c.op, IF r = "zero" THEN "success" ELSE "error")
    <2>1. f \in Frame /\ Terminal(f)
      BY ChildrenAre DEF Frame, Ended, Terminal
    <2>2. Broadcast(<<f>>)
      BY <1>2 DEF OnEnd, Bridged
    <2> HIDE DEF f
    <2>3. <<f>> \in Seq(Frame) /\ <<f>> # <<>> /\ Len(<<f>>) = 1 /\ <<f>>[1] = f
      BY <2>1
    <2>4. QED
      BY <2>1, <2>2, <2>3, TellsTerminal DEF StreamInv
  <1>3. CASE ~(c.step = Length[c.op] - 1 \/ Synthesized(c.op, r))
    <2>1. /\ wire' = wire /\ lost' = lost /\ shown' = shown /\ requests' = requests
          /\ asked' = asked /\ turned' = turned
      BY <1>3, TellsNothing DEF OnEnd, Bridged, browserVars, StreamInv
    <2>2. /\ c.op \in Ops /\ c.step \in 0..(Length[c.op] - 1) /\ Length[c.op] \in Nat \ {0}
          /\ c.step < Length[c.op] - 1
      BY <1>3, ChildrenAre, Lengths
    <2>3. c.op \in Sequence
      BY <2>2, RunnerAssumption
    <2>4. ASSUME NEW d \in Children, Promise(d), d.step = Length[d.op] - 1 PROVE Promised'
      <3>1. d # c
        BY <1>3, <2>4
      <3>2. Open(d)'
        BY <1>1, <2>4, <3>1 DEF Promise, Open
      <3>3. QED
        BY <2>4, <3>2 DEF Promised, Promise
    <2>5. ASSUME NEW d \in Children, Promise(d), d.step # Length[d.op] - 1
          PROVE  Promised' \/ ChainsCrossed'
      <3>1. d = activeProcess /\ d.op = latest /\ stepIndex = d.step /\ stepIndex \in Nat
        BY <2>5, RunnerFacts, ChildrenAre DEF Promise, StreamInv, ActiveInv
      <3>2. d.op \in Ops /\ d.step \in 0..(Length[d.op] - 1) /\ Length[d.op] \in Nat \ {0}
        BY ChildrenAre, Lengths
      <3>3. d.op \in Sequence
        BY <2>5, <3>2, RunnerAssumption
      <3>4. CASE c.op # d.op
        <4>1. c.op \in crossed /\ d.op \in crossed
          BY <1>1, <3>1, <3>4 DEF StreamInv, ActiveInv
        <4>2. QED
          BY <1>1, <2>3, <3>3, <3>4, <4>1 DEF ChainsCrossed
      <3>5. CASE c.op = d.op
        <4>1. stepIndex < Length[c.op] - 1
          BY <2>5, <3>1, <3>2, <3>5
        <4>2. ~Halts(c.op, r)
          BY <1>3, <4>1 DEF Synthesized
        <4>3. AfterCommand(c.op, r)
          BY <1>1 DEF ChildClose
        <4>4. due' = c.op /\ stepIndex' = stepIndex + 1 /\ activeOperationId' = activeOperationId
          BY <2>3, <4>2, <4>3, AfterCommandIs
        <4>5. activeOperationId = d.op
          BY <3>1, ChildrenAre DEF StreamInv, RunnerInv, RunningIsTrue
        <4>6. QED
          BY <2>2, <3>1, <3>5, <4>1, <4>4, <4>5, RunnerAssumption DEF Promised
      <3>6. QED
        BY <3>4, <3>5
    <2>6. Promised => Promised' \/ ChainsCrossed'
      BY <1>1, <2>4, <2>5 DEF Promised
    <2>7. QED
      BY <1>1, <2>1, <2>6, SameScreen, Stays DEF StreamInv, Awaited
  <1>4. QED
    BY <1>2, <1>3

\* The panel after the first frame on the wire, and after none are left.
LEMMA ToldHandled ==
    ASSUME StreamInv, HandleStart \/ HandleTerminal
    PROVE  ToldInv'
  <1>1. /\ UNCHANGED runnerVars /\ requests' = requests /\ lost' = lost
        /\ wire # <<>> /\ wire' = Tail(wire)
        /\ Terminal(Head(wire)) => shown'.State # "running"
    <2>1. CASE HandleStart
      BY <2>1 DEF HandleStart, serverVars
    <2>2. CASE HandleTerminal
      <3>1. /\ shown' = [shown EXCEPT !.State = Head(wire).Type]
            /\ shown = [Id |-> shown.Id, State |-> shown.State]
        BY <2>2 DEF HandleTerminal, StreamInv, Shape
      <3>2. shown'.State = Head(wire).Type
        BY <3>1
      <3>3. QED
        BY <2>2, <3>2 DEF HandleTerminal, serverVars, Terminal
    <2>3. QED
      BY <2>1, <2>2
  <1>2. /\ wire \in Seq(Frame) /\ Len(wire) \in Nat \ {0} /\ Len(wire') = Len(wire) - 1
        /\ Head(wire) = wire[1] /\ \A i \in 1..Len(wire') : wire'[i] = wire[i + 1]
    BY <1>1 DEF StreamInv, Shape
  <1>3. ASSUME WillRun' PROVE WillRun
    <2>1. PICK i \in 0..Len(wire') :
             /\ IF i = 0 THEN shown'.State = "running" ELSE ~Terminal(wire'[i])
             /\ \A j \in (i + 1)..Len(wire') : ~Terminal(wire'[j])
      BY <1>3 DEF WillRun, Terminal
    <2>2. i + 1 \in 0..Len(wire) /\ i + 1 # 0
      BY <1>2
    <2>3. ~Terminal(wire[i + 1])
      BY <1>1, <1>2, <2>1
    <2>4. ASSUME NEW j \in (i + 2)..Len(wire) PROVE ~Terminal(wire[j])
      <3>1. j - 1 \in (i + 1)..Len(wire') /\ (j - 1) + 1 = j /\ j - 1 \in 1..Len(wire')
        BY <1>2
      <3>2. wire'[j - 1] = wire[j]
        BY <1>2, <3>1
      <3>3. QED
        BY <2>1, <3>1, <3>2
    <2>5. (i + 1) + 1 = i + 2
      OBVIOUS
    <2>6. QED
      BY <2>2, <2>3, <2>4, <2>5 DEF WillRun
  <1>4. QED
    BY <1>1, <1>3, SamePromise, Stays DEF StreamInv, Awaited

LEMMA ToldDisconnect ==
    ASSUME StreamInv, Disconnect
    PROVE  ToldInv'
  <1>1. /\ UNCHANGED runnerVars /\ requests' = requests /\ shown' = shown
        /\ asked' = asked /\ turned' = turned
        /\ wire' = <<>> /\ lost' = lost \cup KindsOf(wire)
    BY DEF Disconnect, browserVars
  <1>2. ASSUME WillRun', "terminal" \notin lost' PROVE WillRun
    <2>1. \A i \in 1..Len(wire) : ~Terminal(wire[i])
      BY <1>1, <1>2 DEF KindsOf, StreamInv, Shape
    <2>2. shown.State = "running"
      BY <1>1, <1>2 DEF WillRun
    <2>3. Len(wire) \in Nat
      BY DEF StreamInv, Shape
    <2>4. 0 \in 0..Len(wire) /\ \A j \in (0 + 1)..Len(wire) : ~Terminal(wire[j])
      BY <2>1, <2>3
    <2>5. QED
      BY <2>2, <2>4 DEF WillRun
  <1>3. QED
    BY <1>1, <1>2, SamePromise, Stays DEF StreamInv, Awaited

\* A button begins an operation by a request, or joins the queue.
LEMMA ToldClicked ==
    ASSUME StreamInv, TimerFires \/ \E o \in Mine : Click(o)
    PROVE  ToldInv'
  <1>1. UNCHANGED runnerVars /\ wire' = wire /\ lost' = lost /\ turned' = turned
    BY DEF TimerFires, Click, serverVars
  <1>2. ASSUME NEW o \in Ops, Begin(o) PROVE ToldInv'
    <2>1. shown'.Id = NoOp /\ asked' = o /\ Request("run", o) \in requests'
      BY <1>2 DEF Begin
    <2>2. CASE wire = <<>>
      BY <1>1, <2>1, <2>2 DEF ToldInv, Awaited
    <2>3. CASE wire # <<>>
      <3>1. Len(wire) \in Nat \ {0} /\ Len(wire) \in 0..Len(wire)
        BY <2>3 DEF StreamInv, Shape
      <3>2. WillRun' => WillRun
        <4>1. ASSUME WillRun' PROVE ~Terminal(wire[Len(wire)])
          BY <1>1, <3>1, <4>1 DEF WillRun, Terminal
        <4>2. ~Terminal(wire[Len(wire)]) => WillRun
          BY <3>1 DEF WillRun
        <4>3. QED
          BY <4>1, <4>2
      <3>3. ~Awaited
        BY <2>3 DEF Awaited
      <3>4. QED
        BY <1>1, <3>2, <3>3, SamePromise, Stays DEF StreamInv
    <2>4. QED
      BY <2>2, <2>3
  <1>3. CASE shown' = shown /\ requests' = requests /\ asked' = asked
    BY <1>1, <1>3, SamePromise, SameScreen, Stays DEF StreamInv, Awaited
  <1>4. ASSUME TimerFires PROVE \E o \in Ops : Begin(o)
    BY <1>4 DEF TimerFires, StreamInv, Shape
  <1>5. ASSUME NEW o \in Mine, Click(o) PROVE Begin(o) \/ (shown' = shown /\ requests' = requests /\ asked' = asked)
    BY <1>5 DEF Click
  <1>6. QED
    BY <1>2, <1>3, <1>4, <1>5, StreamAssumption

LEMMA ToldStep ==
    ASSUME StreamInv, [Next]_vars
    PROVE  ToldInv'
  <1>1. ASSUME NEW o \in Ops PROVE <<Ended(o, "error")>> \in Seq(Frame) /\ Terminal(Ended(o, "error"))
    BY DEF Ended, Frame, Terminal
  <1>2. ASSUME NEW o \in Ops, Broadcast(<<Ended(o, "error")>>) PROVE ToldInv'
    <2> DEFINE f == Ended(o, "error")
    <2>1. <<f>> \in Seq(Frame) /\ Terminal(f) /\ Broadcast(<<f>>)
      BY <1>1, <1>2
    <2> HIDE DEF f
    <2>2. <<f>> # <<>> /\ Len(<<f>>) = 1 /\ <<f>>[1] = f
      OBVIOUS
    <2>3. QED
      BY <2>1, <2>2, TellsTerminal DEF StreamInv
  <1>3. CASE \E o \in Ops : PostRun(o) \/ PostTheirs(o)
    BY <1>3, ToldRun DEF PostRun, PostTheirs
  <1>4. CASE \E o \in Ops : PostRefused(o)
    BY <1>4, ToldRefused DEF StreamInv
  <1>5. CASE \E o \in Ops : PostCancel(o)
    BY <1>2, <1>5 DEF PostCancel
  <1>6. CASE \/ \E o \in Ops : PostCancelLate(o)
             \/ \E o \in Ops, kind \in {"run", "cancel"} : TurnedAway(kind, o)
             \/ Reconnect \/ ClickCancel \/ UNCHANGED vars
    <2>1. /\ UNCHANGED runnerVars /\ wire' = wire /\ lost' = lost /\ shown' = shown
          /\ asked' = asked /\ turned \subseteq turned'
      BY <1>6 DEF PostCancelLate, TurnedAway, Reconnect, ClickCancel, vars, browserVars
    <2>2. ASSUME NEW o, Request("run", o) \in requests
          PROVE  Request("run", o) \in requests' \/ o \in turned'
      BY <1>6, <2>2 DEF PostCancelLate, TurnedAway, Reconnect, ClickCancel, vars, Request
    <2>3. QED
      BY <2>1, <2>2, SamePromise, SameScreen, Stays DEF StreamInv, Awaited
  <1>7. CASE \E o \in Ops : OnSpawn(o)
    BY <1>7, ToldSpawn DEF StreamInv
  <1>8. ASSUME NEW o \in Ops, OnSpawnThrows(o) PROVE ToldInv'
    <2> DEFINE s == Start(o)
               f == Ended(o, "error")
    <2>1. s \in Frame /\ f \in Frame /\ Terminal(f) /\ Broadcast(<<s, f>>)
      BY <1>8 DEF OnSpawnThrows, Bridged, Start, Ended, Frame, Terminal
    <2> HIDE DEF s, f
    <2>2. <<s, f>> \in Seq(Frame) /\ <<s, f>> # <<>> /\ Len(<<s, f>>) = 2 /\ <<s, f>>[2] = f
      BY <2>1
    <2>3. QED
      BY <2>1, <2>2, TellsTerminal DEF StreamInv
  <1>9. CASE \E o \in Ops : OnTurn(o)
    BY <1>9, ToldTurn
  <1>10. CASE \E c \in Children : OnError(c)
    BY <1>2, <1>10, ChildrenAre DEF OnError, Bridged
  <1>11. CASE \E c \in Children, r \in Results : OnEnd(c, r)
    BY <1>11, ToldEnd
  <1>12. CASE HandleStart \/ HandleTerminal \/ TimerFires \/ Disconnect \/ \E o \in Mine : Click(o)
    BY <1>12, ToldHandled, ToldClicked, ToldDisconnect
  <1>13. CASE \E o \in Ops : OnSpawnThrows(o)
    BY <1>8, <1>13
  <1>14. CASE \E o \in Ops :
                PostRun(o) \/ PostTheirs(o) \/ PostRefused(o) \/ PostCancel(o) \/ PostCancelLate(o)
    BY <1>3, <1>4, <1>5, <1>6, <1>14
  <1>15. CASE \E o \in Ops : OnSpawn(o) \/ OnSpawnThrows(o) \/ OnTurn(o)
    BY <1>7, <1>9, <1>13, <1>15
  <1>16. QED
    BY <1>6, <1>10, <1>11, <1>12, <1>14, <1>15, StepCases, Zenon

LEMMA StreamStep == StreamInv /\ [Next]_vars => StreamInv'
  <1> SUFFICES ASSUME StreamInv, [Next]_vars PROVE StreamInv'
    OBVIOUS
  <1>1. RunnerInv'
    BY RunnerSteps, RunnerInvStep DEF StreamInv
  <1>2. QED
    BY <1>1, ShapeStep, ActiveStep, QuietStep, ToldStep DEF StreamInv

-----------------------------------------------------------------------------
(* Results. *)

\* The runner behind the routes, its children and what the panel is still to be
\* told agree in every state, for any number of operations and clients' clicks.
THEOREM StreamInvariant == Spec => []StreamInv
  BY StreamInit, StreamStep, PTL DEF Spec

\* While nothing was cancelled and everything could be spawned, the children of
\* all clients run one at a time (the busy gate of Api-Operations.js).
THEOREM OneAtATimeHolds == Spec => []OneAtATime
  <1>1. ASSUME StreamInv PROVE OneAtATime
    <2> DEFINE S == {c \in Children : Open(c)}
    <2>1. ASSUME ~disturbed PROVE S = {} \/ S = {activeProcess}
      BY <1>1, <2>1 DEF StreamInv, QuietInv
    <2>2. Cardinality({}) = 0 /\ Cardinality({activeProcess}) = 1
      BY FS_EmptySet, FS_Singleton
    <2> HIDE DEF S
    <2>3. ~disturbed => Cardinality(S) <= 1
      BY <2>1, <2>2
    <2>4. QED
      BY <2>3 DEF S, OneAtATime
  <1>2. QED
    BY <1>1, StreamInvariant, PTL

\* The panel never says "running" for good, unless a terminal frame was lost, two
\* chains crossed, or its request was turned away.
THEOREM NeverStuckHolds == Spec => []NeverStuck
  <1>1. ASSUME StreamInv, shown.State = "running", "terminal" \notin lost, ~ChainsCrossed, ~TurnedDown
        PROVE  Told
    <2>1. CASE \E i \in DOMAIN wire : Terminal(wire[i])
      BY <2>1 DEF Told
    <2>2. CASE \A i \in DOMAIN wire : ~Terminal(wire[i])
      <3>1. wire \in Seq(Frame) /\ Len(wire) \in Nat /\ DOMAIN wire = 1..Len(wire)
        BY <1>1 DEF StreamInv, Shape
      <3>2. 0 \in 0..Len(wire) /\ \A j \in (0 + 1)..Len(wire) : ~Terminal(wire[j])
        BY <2>2, <3>1
      <3>3. WillRun
        BY <1>1, <3>2 DEF WillRun
      <3>4. Awaited \/ Promised
        BY <1>1, <3>3 DEF StreamInv, ToldInv
      <3>5. Awaited => Told
        BY <1>1 DEF Awaited, TurnedDown, Told
      <3>6. Promised => Told
        BY DEF Promised, Promise, Told
      <3>7. QED
        BY <3>4, <3>5, <3>6
    <2>3. QED
      BY <2>1, <2>2
  <1>2. StreamInv => NeverStuck
    BY <1>1 DEF NeverStuck
  <1>3. QED
    BY <1>2, StreamInvariant, PTL
=============================================================================
