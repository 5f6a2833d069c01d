------------------------------- MODULE BulkRun -------------------------------
(***************************************************************************)
(* What the bulk engine promises of its runs, without workers, contexts,   *)
(* gates or checkpoints: a run is submitted when no other is live, does    *)
(* its steps in some order, settles with a verdict that its progress bears *)
(* out, may be resumed from where it stands, and when the process dies it  *)
(* loses its liveness and none of its progress.                            *)
(***************************************************************************)
EXTENDS FiniteSets

CONSTANTS Runs, Steps

VARIABLES
    phase,  \* "absent", "live", "lost", or the verdict of a settled run
    done    \* the steps recorded as complete

vars == <<phase, done>>

Verdicts == {"Complete", "Failed", "Cancelled"}

Init ==
    /\ phase = [r \in Runs |-> "absent"]
    /\ done = [r \in Runs |-> {}]

Submit(r) ==
    /\ \A q \in Runs : phase[q] # "live"
    /\ phase[r] = "absent"
    /\ phase' = [phase EXCEPT ![r] = "live"]
    /\ UNCHANGED done

\* Only a live run progresses, a step at a time, and progress is never lost.
Progress(r) ==
    /\ phase[r] = "live"
    /\ \E s \in Steps \ done[r] : done' = [done EXCEPT ![r] = @ \cup {s}]
    /\ UNCHANGED phase

Settle(r) ==
    /\ phase[r] = "live"
    /\ \E v \in Verdicts :
        /\ v = "Complete" => done[r] = Steps
        /\ v = "Failed" => done[r] # Steps
        /\ phase' = [phase EXCEPT ![r] = v]
    /\ UNCHANGED done

Resume(r) ==
    /\ phase[r] \in Verdicts
    /\ phase' = [phase EXCEPT ![r] = "live"]
    /\ UNCHANGED done

\* A run resumed too late to have left a trace is found as it had settled.
Die ==
    /\ \E fate \in [Runs -> Verdicts \cup {"lost"}] :
        phase' = [r \in Runs |-> IF phase[r] = "live" THEN fate[r] ELSE phase[r]]
    /\ UNCHANGED done

Next == (\E r \in Runs : Submit(r) \/ Progress(r) \/ Settle(r) \/ Resume(r)) \/ Die

Spec == Init /\ [][Next]_vars
=============================================================================
