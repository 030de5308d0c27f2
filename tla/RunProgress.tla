----------------------------- MODULE RunProgress -----------------------------
(***************************************************************************)
(* What a client that polls a workflow run is promised: steps complete in   *)
(* waves, each after all it depends on has been seen completed; results     *)
(* follow, and are never taken back; a run ends once, as completed only when *)
(* every step has its result.  Workflow implements it.                      *)
(***************************************************************************)
EXTENDS Sequences

VARIABLES
    steps,      \* the steps of the run: their ids and what each depends on
    status,     \* the status of the run
    completed,  \* the ids that are shown as completed
    results     \* the results that are shown, by id

vars == <<steps, status, completed, results>>

IdsOfSteps == {steps[i].id : i \in DOMAIN steps}
NoneTwice == \A i, j \in DOMAIN steps : steps[i].id = steps[j].id => i = j

Init == status = "none" /\ completed = {} /\ DOMAIN results = {}

Begin ==
    /\ status = "none" /\ status' = "running"
    /\ UNCHANGED <<steps, completed, results>>

\* Steps that had waited only for what was completed.
Wave ==
    /\ status = "running"
    /\ completed \subseteq completed'
    /\ \A x \in completed' \ completed : \E i \in DOMAIN steps :
           steps[i].id = x /\ steps[i].depends_on \subseteq completed
    /\ UNCHANGED <<steps, status, results>>

Publish ==
    /\ status = "running"
    /\ DOMAIN results \subseteq DOMAIN results' /\ DOMAIN results' \subseteq completed
    /\ NoneTwice => \A x \in DOMAIN results : results'[x] = results[x]
    /\ UNCHANGED <<steps, status, completed>>

End ==
    /\ status = "running"
    /\ \/ status' = "failed"
       \/ status' = "completed" /\ completed = IdsOfSteps /\ DOMAIN results = IdsOfSteps
    /\ UNCHANGED <<steps, completed, results>>

Next == Begin \/ Wave \/ Publish \/ End

Spec == Init /\ [][Next]_vars
=============================================================================
