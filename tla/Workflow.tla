------------------------------ MODULE Workflow ------------------------------
(***************************************************************************)
(* One run of a workflow: routes/workflows.rs starts it, workflow/engine.rs  *)
(* walks its DAG wave by wave, workflow/executor.rs runs each step in a pod  *)
(* of its own.  Runs share nothing: a run reads and writes its own row.      *)
(*                                                                         *)
(* The executor of the run and the tasks it spawns are processes.  A step   *)
(* of the executor is one SQL statement, or the work between two; a step of *)
(* a task is one call to Kubernetes.                                        *)
(***************************************************************************)
EXTENDS Integers, Sequences, FiniteSets, FiniteSetsExt

CONSTANTS
    Ids,            \* step ids
    Dags,           \* the definitions the workflow may have
    Codes,          \* the exit codes of a step's command
    MaxRetries,     \* every step's max_retries (3 unless the step says so)
    FaultSets       \* the sets of faults a behaviour may be exposed to

FaultKinds == {"crash", "database", "kube", "timeout"}
Skipped == "skipped"
NoAnswer == "error"

\* A condition compares the exit code of a step with a code.  Its op is "none"
\* when there is no condition, "bad" when the text is neither == nor !=.
Conditions == [op: {"none", "==", "!=", "bad"}, step: Ids, code: Codes]
StepDefs == [id: Ids, depends_on: SUBSET Ids, condition: Conditions]

ASSUME WorkflowAssumption ==
    /\ IsFiniteSet(Ids)
    /\ MaxRetries \in Nat
    /\ Skipped \notin Codes /\ NoAnswer \notin Codes
    /\ FaultSets \subseteq SUBSET FaultKinds
    /\ \A d \in Dags : d.parses \in BOOLEAN /\ d.steps \in Seq(StepDefs)

VARIABLES
    dag,        \* workflows.dag: whether it deserializes, and its steps in order
    faults,     \* the faults of this behaviour
    row,        \* the workflow_runs row: status and the three columns of progress
    at,         \* where the executor stands
    results,    \* its results map; its completed set holds the same step ids
    wave,       \* the steps of the wave it launches or awaits
    after,      \* where it goes once the columns are written; at the end, the status
    task,       \* the spawned task of each step
    pods,       \* the pods in the cluster: <<step, attempt>>
    audit       \* the run's entries in the audit log

world == <<dag, faults>>
exec == <<at, results, wave, after>>
vars == <<world, row, exec, task, pods, audit>>

-----------------------------------------------------------------------------
(* The DAG.  A step is known by its place in the list, since nothing stops   *)
(* two steps from having one id.                                            *)

Steps == dag.steps
Places == DOMAIN Steps
IdsOf(places) == {Steps[i].id : i \in places}

\* A path resolves to the exit code of a step that ran, never of a skipped one.
Resolves(c, res) == c.step \in DOMAIN res /\ res[c.step] # Skipped

\* evaluate_condition.
Holds(c, res) ==
    \/ c.op = "none"
    \/ c.op = "==" /\ Resolves(c, res) /\ res[c.step] = c.code
    \/ c.op = "!=" /\ (Resolves(c, res) => res[c.step] # c.code)

NoResults == [x \in {} |-> Skipped]
NoTask == [at |-> "none", attempt |-> 0, answer |-> NoAnswer]

Init ==
    /\ dag \in Dags
    /\ faults \in FaultSets
    /\ row = [status |-> "none", current |-> {}, completed |-> {}, results |-> NoResults]
    /\ at = "none"
    /\ results = NoResults
    /\ wave = {}
    /\ after = "walk"
    /\ task = [i \in Places |-> NoTask]
    /\ pods = {}
    /\ audit = {}

\* HashMap::insert, for several keys at once.
Insert(old, new) ==
    [x \in DOMAIN old \cup DOMAIN new |-> IF x \in DOMAIN new THEN new[x] ELSE old[x]]

Succeeded == {i \in wave : task[i].at = "ok"}

\* The handles are awaited in order: of two steps with one id the later one stays.
BatchResults ==
    [x \in IdsOf(Succeeded) |-> task[Max({i \in Succeeded : Steps[i].id = x})].answer]

EveryTaskEnded == \A i \in wave : task[i].at \in {"ok", "failed"}

-----------------------------------------------------------------------------
(* Broken variants of the definitions below.                                *)

\* dependencies_met that asks for any dependency.
DependenciesMetAny(i) ==
    Steps[i].depends_on = {} \/ Steps[i].depends_on \cap DOMAIN results # {}

\* The loop of execute_dag with completed + 1 < steps.
EnoughOffByOne == Cardinality(DOMAIN results) + 1 >= Len(Steps)

\* execute_dag that loops on when no step is ready.
StuckSpins(ready) == FALSE /\ ready = {}

\* execute_dag that goes on when a column could not be written.
SaveFailsIgnored ==
    /\ "database" \in faults
    /\ \/ at = "arrays" /\ at' = "results"
       \/ at = "results" /\ at' = IF after = "failed" THEN "finalize" ELSE after
    /\ UNCHANGED <<world, row, results, wave, after, task, pods, audit>>

\* execute_dag that ends with the first step that fails.
AwaitWaveFirst ==
    /\ at = "await"
    /\ EveryTaskEnded \/ \E i \in wave : task[i].at = "failed"
    /\ results' = Insert(results, BatchResults)
    /\ after' = IF Succeeded = wave THEN "walk" ELSE "failed"
    /\ task' = [i \in Places |-> IF task[i].at \in {"ok", "failed"} THEN NoTask ELSE task[i]]
    /\ at' = "arrays"
    /\ UNCHANGED <<world, row, wave, pods, audit>>

\* execute_step that leaves early when the command did not answer.
KilledOnAnswer(i) ==
    IF task[i].answer = NoAnswer THEN pods ELSE pods \ {<<i, task[i].attempt>>}

-----------------------------------------------------------------------------
(* The executor.                                                            *)

\* run_workflow: the row of the run is inserted and execute spawned.
RunWorkflow ==
    /\ at = "none"
    /\ row' = [row EXCEPT !.status = "running"]
    /\ at' = "load"
    /\ UNCHANGED <<world, results, wave, after, task, pods, audit>>

\* advance_dag: load_run, the parse of the DAG, set_run_running.  When one of them
\* fails, advance_dag returns before it finalizes anything.
Load ==
    /\ at = "load"
    /\ \/ dag.parses /\ at' = "walk"
       \/ ~dag.parses /\ at' = "over"
       \/ "database" \in faults /\ at' = "over"
    /\ UNCHANGED <<world, row, results, wave, after, task, pods, audit>>

\* The loop of execute_dag counts the completed ids against the steps.
Enough == Cardinality(DOMAIN results) >= Len(Steps)

DependenciesMet(i) == Steps[i].depends_on \subseteq DOMAIN results

Ready == {i \in Places : Steps[i].id \notin DOMAIN results /\ DependenciesMet(i)}

NothingReady(ready) == ready = {}

\* execute_dag: what the loop finds: nothing left, or nothing ready.
LeaveLoop ==
    /\ at = "walk"
    /\ \/ Enough /\ after' = "completed"
       \/ ~Enough /\ NothingReady(Ready) /\ after' = "failed"
    /\ at' = "finalize"
    /\ UNCHANGED <<world, row, results, wave, task, pods, audit>>

Wanted(c) == Holds(c, results)

\* execute_dag: the partition by condition; a step to skip is completed at once.
StartWave ==
    /\ at = "walk"
    /\ ~Enough /\ ~NothingReady(Ready)
    /\ wave' = {i \in Ready : Wanted(Steps[i].condition)}
    /\ results' = Insert(results, [x \in IdsOf(Ready \ wave') |-> Skipped])
    /\ after' = IF wave' = {} THEN "walk" ELSE "launch"
    /\ at' = IF wave' = Ready THEN "launch" ELSE "arrays"
    /\ UNCHANGED <<world, row, task, pods, audit>>

\* update_step_arrays after the skips or after a wave: no step is current.
SaveArrays ==
    /\ at = "arrays"
    /\ row' = [row EXCEPT !.current = {}, !.completed = DOMAIN results]
    /\ at' = "results"
    /\ UNCHANGED <<world, results, wave, after, task, pods, audit>>

\* update_step_results; after a wave with a step that failed the loop is left.
SaveResults ==
    /\ at = "results"
    /\ row' = [row EXCEPT !.results = results]
    /\ at' = IF after = "failed" THEN "finalize" ELSE after
    /\ UNCHANGED <<world, results, wave, after, task, pods, audit>>

\* update_step_arrays with the wave as current, then one task per step of it.
Launch ==
    /\ at = "launch"
    /\ row' = [row EXCEPT !.current = IdsOf(wave), !.completed = DOMAIN results]
    /\ task' = [i \in Places |-> IF i \in wave THEN [NoTask EXCEPT !.at = "schedule"] ELSE NoTask]
    /\ at' = "await"
    /\ UNCHANGED <<world, results, wave, after, pods, audit>>

\* A column cannot be written: execute_dag returns the error.
SaveFails ==
    /\ "database" \in faults
    /\ at \in {"arrays", "results", "launch"}
    /\ at' = "finalize"
    /\ after' = "failed"
    /\ UNCHANGED <<world, row, results, wave, task, pods, audit>>

\* The batch is awaited to its last task; what succeeded is completed.
AwaitWave ==
    /\ at = "await"
    /\ EveryTaskEnded
    /\ results' = Insert(results, BatchResults)
    /\ after' = IF Succeeded = wave THEN "walk" ELSE "failed"
    /\ task' = [i \in Places |-> NoTask]
    /\ at' = "arrays"
    /\ UNCHANGED <<world, row, wave, pods, audit>>

\* finalize_run.
Finalize ==
    /\ at = "finalize"
    /\ \/ row' = [row EXCEPT !.status = after, !.current = {}] /\ at' = "audit"
       \/ "database" \in faults /\ at' = "over" /\ UNCHANGED row
    /\ UNCHANGED <<world, results, wave, after, task, pods, audit>>

\* The audit entry, workflow_completed or workflow_failed.
AuditRun ==
    /\ at = "audit"
    /\ audit' = audit \cup {after} \/ ("database" \in faults /\ UNCHANGED audit)
    /\ at' = "over"
    /\ UNCHANGED <<world, row, results, wave, after, task, pods>>

-----------------------------------------------------------------------------
(* A task: run_step_with_retries around execute_step.                        *)

\* What follows an attempt: its answer, another attempt, or the last error.
AfterAttempt(t) ==
    IF t.answer # NoAnswer THEN [t EXCEPT !.at = "ok"]
    ELSE IF t.attempt < MaxRetries
    THEN [NoTask EXCEPT !.at = "schedule", !.attempt = t.attempt + 1]
    ELSE [t EXCEPT !.at = "failed"]

\* schedule_workflow_pod.
SchedulePod(i) ==
    /\ task[i].at = "schedule"
    /\ pods' = pods \cup {<<i, task[i].attempt>>}
    /\ task' = [task EXCEPT ![i].at = "exec"]
    /\ UNCHANGED <<world, row, exec, audit>>

\* load_tenant_id or the create fails; a create whose answer is lost leaves a pod.
ScheduleFails(i) ==
    /\ task[i].at = "schedule"
    /\ \/ "database" \in faults /\ UNCHANGED pods
       \/ "kube" \in faults /\ pods' \in {pods, pods \cup {<<i, task[i].attempt>>}}
    /\ task' = [task EXCEPT ![i] = AfterAttempt(task[i])]
    /\ UNCHANGED <<world, row, exec, audit>>

\* wait_for_pod_ready and run_pod_exec: an exit code, whichever, or an error.
RunInPod(i) ==
    /\ task[i].at = "exec"
    /\ \E answer \in Codes \cup (IF faults \cap {"kube", "timeout"} = {} THEN {} ELSE {NoAnswer}) :
           task' = [task EXCEPT ![i].at = "kill", ![i].answer = answer]
    /\ UNCHANGED <<world, row, exec, pods, audit>>

Killed(i) == pods \ {<<i, task[i].attempt>>}

\* kill_pod_force, whatever the answer; its own failure is logged, no more.
KillPod(i) ==
    /\ task[i].at = "kill"
    /\ pods' = Killed(i) \/ ("kube" \in faults /\ UNCHANGED pods)
    /\ task' = [task EXCEPT ![i] = AfterAttempt(task[i])]
    /\ UNCHANGED <<world, row, exec, audit>>

-----------------------------------------------------------------------------
\* The gateway dies.  Nothing takes a run up again when it is started.
Crash ==
    /\ "crash" \in faults
    /\ at \notin {"none", "over"}
    /\ at' = "over"
    /\ task' = [i \in Places |-> NoTask]
    /\ UNCHANGED <<world, row, results, wave, after, pods, audit>>

Over == at = "over" /\ UNCHANGED vars

ExecStep ==
    Load \/ LeaveLoop \/ StartWave \/ SaveArrays \/ SaveResults \/ Launch \/ SaveFails
    \/ AwaitWave \/ Finalize \/ AuditRun
TaskStep(i) == SchedulePod(i) \/ ScheduleFails(i) \/ RunInPod(i) \/ KillPod(i)

Next ==
    \/ RunWorkflow
    \/ ExecStep
    \/ \E i \in Places : TaskStep(i)
    \/ Crash
    \/ Over

Spec == Init /\ [][Next]_vars

\* The runtime polls whatever is ready.  A pod has 120 seconds to get ready and a
\* command 30 minutes; the calls to Kubernetes are assumed to return.
FairSpec ==
    /\ Spec
    /\ WF_vars(ExecStep)
    /\ WF_vars(\E i \in Places : TaskStep(i))

-----------------------------------------------------------------------------
(* Properties.                                                              *)

Maps == UNION {[ids -> Codes \cup {Skipped}] : ids \in SUBSET Ids}

TypeOK ==
    /\ row.status \in {"none", "running", "completed", "failed"}
    /\ row.current \subseteq IdsOf(Places) /\ row.completed \subseteq IdsOf(Places)
    /\ row.results \in Maps /\ results \in Maps
    /\ at \in {"none", "load", "walk", "arrays", "results", "launch", "await",
               "finalize", "audit", "over"}
    /\ wave \subseteq Places
    /\ after \in {"walk", "launch", "failed", "completed"}
    /\ task \in [Places -> [at: {"none", "schedule", "exec", "kill", "ok", "failed"},
                            attempt: 0 .. MaxRetries, answer: Codes \cup {NoAnswer}]]
    /\ pods \subseteq Places \X (0 .. MaxRetries)
    /\ audit \subseteq {"completed", "failed"}

Active(i) == task[i].at \notin {"none", "ok", "failed"}

UniqueIds == \A i, j \in Places : Steps[i].id = Steps[j].id => i = j

\* The steps can be put in an order in which each follows what it depends on.
Sound ==
    /\ UniqueIds
    /\ \A i \in Places : Steps[i].depends_on \subseteq IdsOf(Places)
    /\ \A some \in SUBSET Places : some # {} =>
           \E i \in some : Steps[i].depends_on \cap IdsOf(some) = {}

\* A step is being run, or has a result, only after every step it depends on has a
\* result, however the tasks of a wave finish or fail (engine.rs: "every step in
\* its depends_on list is in completed").
RunsInOrder ==
    /\ \A i \in Places : Active(i) => Steps[i].depends_on \subseteq DOMAIN results
    /\ \A x \in DOMAIN results : \E i \in Places :
           Steps[i].id = x /\ Steps[i].depends_on \subseteq DOMAIN results

\* What a condition on a dependency decided still stands at the end: a step was
\* skipped exactly when its condition is false of the results (execute_dag).
ConditionsHonoured ==
    UniqueIds => \A i \in Places : LET c == Steps[i].condition IN
        Steps[i].id \in DOMAIN results /\ (c.op = "none" \/ c.step \in Steps[i].depends_on) =>
            (results[Steps[i].id] = Skipped <=> ~Holds(c, results))

\* A run reported completed is: every step has its result in the columns a client
\* polls, and none is current, even when statements failed on the way (advance_dag).
CompletedIsTrue ==
    row.status = "completed" =>
        /\ row.completed = IdsOf(Places)
        /\ DOMAIN row.results = IdsOf(Places)
        /\ row.current = {}

\* A run that has ended runs nothing: a step that failed ends the run only when the
\* other steps of its wave have ended too (execute_dag: "Await the whole batch").
EndedRunIsQuiet ==
    row.status \in {"completed", "failed"} => \A i \in Places : ~Active(i)

\* While pods can be killed and the gateway lives, a pod belongs to a step that a
\* client sees as current; so none is left when the run ends, whatever the step
\* did (executor.rs: "a failed run never leaks pods").
PodsAreCurrent ==
    faults \cap {"crash", "kube"} = {} =>
        \A p \in pods : Active(p[1]) /\ task[p[1]].attempt = p[2] /\ Steps[p[1]].id \in row.current

\* Progress is never taken back: a completed step stays completed with the result
\* it had, and a run that ended stays as it is (update_step_arrays and
\* update_step_results overwrite the columns).
ProgressKept ==
    [][/\ row.completed \subseteq row'.completed
       /\ DOMAIN row.results \subseteq DOMAIN row'.results
       /\ UniqueIds => \A x \in DOMAIN row.results : row'.results[x] = row.results[x]
       /\ row.status \in {"completed", "failed"} => row' = row]_vars

Progress == INSTANCE RunProgress WITH
    steps <- Steps, status <- row.status, completed <- row.completed, results <- row.results

\* Workflow implements RunProgress: whichever statements fail and wherever the gateway
\* dies, a client that polls the row sees one wave after another, sees no result
\* changed, and sees the run end once (execute_dag, advance_dag).
ShowsProgress == Progress!Spec

\* A run whose steps can be ordered fails only on a failure: execute_dag never
\* takes it for stuck.
SoundRunCompletes ==
    Sound /\ faults = {} => row.status # "failed" /\ after # "failed"

\* A run whose steps cannot be ordered, or share an id, is never reported completed
\* (engine.rs: "Workflow stuck").
UnsoundRunFails ==
    row.status = "completed" => Sound

\* A run that started ends as completed or failed, unless the gateway or its database
\* does, or the definition does not deserialize (advance_dag).
RunEnds ==
    (row.status = "running" /\ dag.parses /\ faults \cap {"crash", "database"} = {})
        ~> row.status \in {"completed", "failed"}

\* The log reflects the end of every run (engine.rs: "Audit entry - always written,
\* even on failure, so the log reflects the terminal state of every run").
EveryEndIsAudited ==
    faults = {} /\ at = "over" => audit # {}
=============================================================================
