--------------------------- MODULE WorkflowProofs ---------------------------
(***************************************************************************)
(* Proofs about a workflow run, for any definition, retries, exit codes and *)
(* faults.                                                                  *)
(***************************************************************************)
EXTENDS Workflow, Extrema, FiniteSetTheorems, TLAPS

\* The definition and the faults are the ones Init chose.
WorldOK == dag \in Dags /\ faults \in FaultSets

RowIsRecord ==
    row = [status |-> row.status, current |-> row.current,
           completed |-> row.completed, results |-> row.results]

\* What a task's place says of it and of the executor.
TasksPlaced ==
    /\ at # "await" => \A i \in Places : task[i].at = "none"
    /\ \A i \in Places : task[i].at # "none" => i \in wave
    /\ \A i \in Places : task[i].at = "ok" => task[i].answer \in Codes

\* Where the executor goes next.
AfterPlaced ==
    /\ at \in {"none", "load", "walk"} => after = "walk"
    /\ at \in {"launch", "await"} => after = "launch"
    /\ at \in {"arrays", "results"} => after \in {"walk", "launch", "failed"}
    /\ at \in {"finalize", "audit"} => after \in {"completed", "failed"}

ResultsOfSteps == DOMAIN results \subseteq IdsOf(Places)

TypeInv ==
    TypeOK /\ WorldOK /\ RowIsRecord /\ TasksPlaced /\ AfterPlaced /\ ResultsOfSteps

-----------------------------------------------------------------------------
(* The definition of the workflow, and maps from step ids.                   *)

\* Steps are known by their places, 1 to their number.
LEMMA StepsListed ==
    ASSUME WorldOK
    PROVE  /\ Len(Steps) \in Nat /\ Places = 1 .. Len(Steps)
           /\ \A i \in Places : Steps[i].id \in Ids /\ Steps[i].depends_on \subseteq Ids
           /\ IsFiniteSet(Places) /\ Cardinality(Places) = Len(Steps)
<1>1. Steps \in Seq(StepDefs)
    BY WorkflowAssumption DEF WorldOK, Steps
<1>2. Len(Steps) \in Nat /\ DOMAIN Steps = 1 .. Len(Steps)
    BY <1>1
<1>3. \A i \in 1 .. Len(Steps) : Steps[i] \in StepDefs
    BY <1>1
<1>4. IsFiniteSet(1 .. Len(Steps)) /\ Cardinality(1 .. Len(Steps)) = Len(Steps)
    <2>1. \A n \in Nat : /\ IsFiniteSet(1 .. n)
                         /\ Cardinality(1 .. n) = IF 1 > n THEN 0 ELSE n - 1 + 1
        BY FS_Interval
    <2> QED
        BY <1>2, <2>1
<1> QED
    BY <1>2, <1>3, <1>4 DEF Places, StepDefs

\* A map is a function from some of the step ids.
LEMMA MapShape ==
    ASSUME NEW f
    PROVE  f \in Maps <=> /\ f = [x \in DOMAIN f |-> f[x]]
                          /\ DOMAIN f \subseteq Ids
                          /\ \A x \in DOMAIN f : f[x] \in Codes \cup {Skipped}
<1>1. ASSUME f \in Maps
      PROVE  /\ f = [x \in DOMAIN f |-> f[x]]
             /\ DOMAIN f \subseteq Ids
             /\ \A x \in DOMAIN f : f[x] \in Codes \cup {Skipped}
    <2>1. PICK ids \in SUBSET Ids : f \in [ids -> Codes \cup {Skipped}]
        BY <1>1 DEF Maps
    <2> QED
        BY <2>1
<1>2. ASSUME f = [x \in DOMAIN f |-> f[x]], DOMAIN f \subseteq Ids,
             \A x \in DOMAIN f : f[x] \in Codes \cup {Skipped}
      PROVE  f \in Maps
    <2>1. f \in [DOMAIN f -> Codes \cup {Skipped}]
        BY <1>2
    <2> QED
        BY <1>2, <2>1 DEF Maps
<1> QED
    BY <1>1, <1>2

\* HashMap::insert adds and overwrites, and removes nothing.
LEMMA InsertShape ==
    ASSUME NEW old, NEW new
    PROVE  /\ DOMAIN Insert(old, new) = DOMAIN old \cup DOMAIN new
           /\ \A x \in DOMAIN new : Insert(old, new)[x] = new[x]
           /\ \A x \in DOMAIN old \ DOMAIN new : Insert(old, new)[x] = old[x]
    BY DEF Insert

LEMMA InsertType ==
    ASSUME NEW old \in Maps, NEW new \in Maps
    PROVE  Insert(old, new) \in Maps
<1> DEFINE f == Insert(old, new)
<1>1. /\ DOMAIN f = DOMAIN old \cup DOMAIN new
      /\ \A x \in DOMAIN new : f[x] = new[x]
      /\ \A x \in DOMAIN old \ DOMAIN new : f[x] = old[x]
    BY InsertShape
<1>2. f = [x \in DOMAIN f |-> f[x]]
    BY DEF Insert
<1>3. DOMAIN f \subseteq Ids /\ \A x \in DOMAIN f : f[x] \in Codes \cup {Skipped}
    <2> HIDE DEF f
    <2> QED
        BY <1>1, MapShape
<1> QED
    BY <1>2, <1>3, MapShape

\* What a wave adds: for each id, the answer of a step that has it and succeeded.
LEMMA BatchShape ==
    ASSUME WorldOK, TasksPlaced, wave \subseteq Places
    PROVE  /\ DOMAIN BatchResults = IdsOf(Succeeded)
           /\ IdsOf(Succeeded) \subseteq IdsOf(Places)
           /\ \A x \in IdsOf(Succeeded) : BatchResults[x] \in Codes
           /\ BatchResults \in Maps
<1> USE StepsListed
<1>1. Succeeded \subseteq Places
    BY DEF Succeeded
<1>2. IdsOf(Succeeded) \subseteq IdsOf(Places) /\ IdsOf(Places) \subseteq Ids
    BY <1>1 DEF IdsOf
<1>3. DOMAIN BatchResults = IdsOf(Succeeded) /\ BatchResults = [x \in DOMAIN BatchResults |-> BatchResults[x]]
    BY DEF BatchResults
<1>4. ASSUME NEW x \in IdsOf(Succeeded)
      PROVE  BatchResults[x] \in Codes
    <2> DEFINE S == {i \in Succeeded : Steps[i].id = x}
    <2>1. S # {} /\ S \in SUBSET (1 .. Len(Steps))
        BY <1>1 DEF IdsOf
    <2>2. Max(S) \in S
        <3> HIDE DEF S
        <3> QED BY <2>1, MaxIsMember
    <2>3. BatchResults[x] = task[Max(S)].answer
        BY DEF BatchResults
    <2>4. task[Max(S)].at = "ok" /\ Max(S) \in Places
        BY <1>1, <2>2 DEF Succeeded
    <2> QED
        BY <2>3, <2>4 DEF TasksPlaced
<1> QED
    BY <1>2, <1>3, <1>4, MapShape

-----------------------------------------------------------------------------
(* Type correctness.                                                        *)

USE DEF world, exec

\* No step changes the definition or the faults.
LEMMA WorldKept ==
    ASSUME [Next]_vars
    PROVE  dag' = dag /\ faults' = faults
    BY DEF Next, RunWorkflow, ExecStep, Load, LeaveLoop, StartWave, SaveArrays, SaveResults,
           Launch, SaveFails, AwaitWave, Finalize, AuditRun, TaskStep, SchedulePod,
           ScheduleFails, RunInPod, KillPod, Crash, Over, vars

LEMMA StepsKept ==
    ASSUME dag' = dag, faults' = faults
    PROVE  /\ Steps' = Steps /\ Places' = Places
           /\ IdsOf(Places)' = IdsOf(Places)
           /\ UniqueIds' = UniqueIds /\ Sound' = Sound
           /\ WorldOK => WorldOK'
    BY DEF Steps, Places, IdsOf, WorldOK, UniqueIds, Sound

TaskRecords ==
    [at: {"none", "schedule", "exec", "kill", "ok", "failed"},
     attempt: 0 .. MaxRetries, answer: Codes \cup {NoAnswer}]

\* run_step_with_retries counts its attempts up to max_retries.
LEMMA AfterAttemptType ==
    ASSUME NEW t \in TaskRecords
    PROVE  /\ AfterAttempt(t) \in TaskRecords
           /\ AfterAttempt(t).at \in {"ok", "schedule", "failed"}
           /\ AfterAttempt(t).at = "ok" => AfterAttempt(t).answer \in Codes
<1> USE WorkflowAssumption DEF TaskRecords
<1>1. CASE t.answer # NoAnswer
    BY <1>1 DEF AfterAttempt
<1>2. CASE t.answer = NoAnswer /\ t.attempt < MaxRetries
    <2>1. AfterAttempt(t) = [at |-> "schedule", attempt |-> t.attempt + 1, answer |-> NoAnswer]
        BY <1>2 DEF AfterAttempt, NoTask
    <2>2. t.attempt + 1 \in 0 .. MaxRetries
        BY <1>2
    <2> QED
        BY <2>1, <2>2
<1>3. CASE t.answer = NoAnswer /\ ~(t.attempt < MaxRetries)
    BY <1>3 DEF AfterAttempt
<1> QED
    BY <1>1, <1>2, <1>3

\* A task moves on: its record changes, the others' do not.
LEMMA TaskMoves ==
    ASSUME TypeOK, TasksPlaced, NEW i \in Places, NEW t \in TaskRecords,
           Places' = Places, Codes' = Codes,
           at' = at, wave' = wave, task[i].at # "none",
           task' = [task EXCEPT ![i] = t],
           t.at = "ok" => t.answer \in Codes
    PROVE  TasksPlaced' /\ task' \in [Places -> TaskRecords]
    BY DEF TypeOK, TasksPlaced, TaskRecords

LEMMA TypeInvInit == Init => TypeInv
<1> SUFFICES ASSUME Init PROVE TypeInv
    OBVIOUS
<1>1. NoResults \in Maps /\ DOMAIN NoResults = {}
    <2>1. NoResults = [x \in {} |-> Skipped] /\ DOMAIN NoResults = {}
        BY DEF NoResults
    <2> QED
        BY <2>1, MapShape
<1>2. TypeOK
    BY <1>1, WorkflowAssumption DEF Init, TypeOK, NoTask
<1>3. WorldOK /\ RowIsRecord /\ TasksPlaced /\ AfterPlaced /\ ResultsOfSteps
    BY <1>1 DEF Init, WorldOK, RowIsRecord, TasksPlaced, AfterPlaced, ResultsOfSteps, NoTask
<1> QED
    BY <1>2, <1>3 DEF TypeInv

\* A wave begins: the steps whose condition is false are skipped, the others picked.
LEMMA SkipShape ==
    ASSUME TypeInv, StartWave
    PROVE  /\ wave' = {i \in Ready : Holds(Steps[i].condition, results)}
           /\ wave' \subseteq Ready /\ Ready \subseteq Places
           /\ results' \in Maps
           /\ DOMAIN results' = DOMAIN results \cup IdsOf(Ready \ wave')
           /\ \A x \in DOMAIN results : results'[x] = results[x]
           /\ \A x \in IdsOf(Ready \ wave') : results'[x] = Skipped
<1> DEFINE new == [x \in IdsOf(Ready \ wave') |-> Skipped]
<1>1. /\ wave' = {i \in Ready : Holds(Steps[i].condition, results)}
      /\ wave' \subseteq Ready /\ Ready \subseteq Places
    BY DEF StartWave, Wanted, Ready
<1>2. \A i \in Ready : Steps[i].id \in Ids /\ Steps[i].id \notin DOMAIN results
    BY StepsListed DEF TypeInv, Ready
<1>3. IdsOf(Ready \ wave') \subseteq Ids /\ IdsOf(Ready \ wave') \cap DOMAIN results = {}
    BY <1>2 DEF IdsOf
<1>4. /\ DOMAIN new = IdsOf(Ready \ wave') /\ new = [x \in DOMAIN new |-> new[x]]
      /\ \A x \in DOMAIN new : new[x] = Skipped
    OBVIOUS
<1>5. results' = Insert(results, new)
    BY DEF StartWave
<1> HIDE DEF new
<1>6. new \in Maps /\ results \in Maps
    BY <1>3, <1>4, MapShape DEF TypeInv, TypeOK
<1>7. results' \in Maps
    BY <1>5, <1>6, InsertType
<1>8. /\ DOMAIN results' = DOMAIN results \cup DOMAIN new
      /\ \A x \in DOMAIN new : results'[x] = new[x]
      /\ \A x \in DOMAIN results \ DOMAIN new : results'[x] = results[x]
    <2>1. /\ DOMAIN Insert(results, new) = DOMAIN results \cup DOMAIN new
          /\ \A x \in DOMAIN new : Insert(results, new)[x] = new[x]
          /\ \A x \in DOMAIN results \ DOMAIN new : Insert(results, new)[x] = results[x]
        BY InsertShape
    <2> QED
        BY <1>5, <2>1
<1> QED
    BY <1>1, <1>3, <1>4, <1>7, <1>8

\* A wave ends: what succeeded has its answer.
LEMMA WaveShape ==
    ASSUME TypeInv, AwaitWave
    PROVE  /\ Succeeded \subseteq wave
           /\ IdsOf(Succeeded) \subseteq IdsOf(Places)
           /\ results' \in Maps
           /\ DOMAIN results' = DOMAIN results \cup IdsOf(Succeeded)
           /\ \A x \in IdsOf(Succeeded) : results'[x] \in Codes
           /\ \A x \in DOMAIN results \ IdsOf(Succeeded) : results'[x] = results[x]
<1>1. /\ DOMAIN BatchResults = IdsOf(Succeeded)
      /\ IdsOf(Succeeded) \subseteq IdsOf(Places)
      /\ \A x \in IdsOf(Succeeded) : BatchResults[x] \in Codes
      /\ BatchResults \in Maps
    BY BatchShape DEF TypeInv, TypeOK
<1>2. results' = Insert(results, BatchResults)
    BY DEF AwaitWave
<1>3. results' \in Maps
    BY <1>1, <1>2, InsertType DEF TypeInv, TypeOK
<1>4. /\ DOMAIN results' = DOMAIN results \cup DOMAIN BatchResults
      /\ \A x \in DOMAIN BatchResults : results'[x] = BatchResults[x]
      /\ \A x \in DOMAIN results \ DOMAIN BatchResults : results'[x] = results[x]
    <2>1. /\ DOMAIN Insert(results, BatchResults) = DOMAIN results \cup DOMAIN BatchResults
          /\ \A x \in DOMAIN BatchResults : Insert(results, BatchResults)[x] = BatchResults[x]
          /\ \A x \in DOMAIN results \ DOMAIN BatchResults :
                 Insert(results, BatchResults)[x] = results[x]
        BY InsertShape
    <2> QED
        BY <1>2, <2>1
<1>5. Succeeded \subseteq wave
    BY DEF Succeeded
<1> QED
    BY <1>1, <1>3, <1>4, <1>5

LEMMA TypeInvStep == TypeInv /\ [Next]_vars => TypeInv'
<1> SUFFICES ASSUME TypeInv, [Next]_vars PROVE TypeInv'
    OBVIOUS
<1>a. /\ Steps' = Steps /\ Places' = Places
      /\ IdsOf(Places)' = IdsOf(Places) /\ WorldOK'
    BY WorldKept, StepsKept DEF TypeInv
<1>b. Maps' = Maps
    BY DEF Maps
<1>c. /\ Len(Steps) \in Nat /\ Places = 1 .. Len(Steps)
      /\ \A i \in Places : Steps[i].id \in Ids
    BY StepsListed DEF TypeInv
<1> USE DEF TypeInv, TypeOK, RowIsRecord, TasksPlaced, AfterPlaced, ResultsOfSteps
<1>1. CASE RunWorkflow
    BY <1>1, <1>a, <1>b DEF RunWorkflow
<1>2. CASE Load
    BY <1>2, <1>a, <1>b DEF Load
<1>3. CASE LeaveLoop
    BY <1>3, <1>a, <1>b DEF LeaveLoop
<1>4. CASE StartWave
    <2>1. results' \in Maps /\ wave' \subseteq Places
        BY <1>4, SkipShape
    <2>2. DOMAIN results' \subseteq IdsOf(Places)
        <3>1. Ready \subseteq Places /\ DOMAIN results' = DOMAIN results \cup IdsOf(Ready \ wave')
            BY <1>4, SkipShape
        <3> QED
            BY <3>1 DEF IdsOf
    <2> QED
        BY <1>4, <1>a, <1>b, <2>1, <2>2 DEF StartWave, NothingReady
<1>5. CASE SaveArrays
    <2>1. row' = [status |-> row.status, current |-> {}, completed |-> DOMAIN results,
                  results |-> row.results]
        BY <1>5 DEF SaveArrays
    <2>2. /\ row'.status = row.status /\ row'.results = row.results
          /\ row'.current \subseteq IdsOf(Places) /\ row'.completed \subseteq IdsOf(Places)
        BY <2>1
    <2>3. RowIsRecord'
        BY <2>1
    <2> QED
        BY <1>5, <1>a, <1>b, <2>2, <2>3 DEF SaveArrays
<1>6. CASE SaveResults
    BY <1>6, <1>a, <1>b DEF SaveResults
<1>7. CASE Launch
    <2>1. IdsOf(wave) \subseteq IdsOf(Places)
        BY DEF IdsOf
    <2>2. row' = [status |-> row.status, current |-> IdsOf(wave),
                  completed |-> DOMAIN results, results |-> row.results]
        BY <1>7 DEF Launch
    <2>3. /\ task' \in [Places -> TaskRecords]
          /\ \A i \in Places : /\ task'[i].at # "none" => i \in wave
                               /\ task'[i].at # "ok"
        BY <1>7, WorkflowAssumption DEF Launch, NoTask, TaskRecords
    <2>4. /\ row'.status = row.status /\ row'.results = row.results
          /\ row'.current \subseteq IdsOf(Places) /\ row'.completed \subseteq IdsOf(Places)
        BY <2>1, <2>2
    <2>5. RowIsRecord'
        BY <2>2
    <2> QED
        BY <1>7, <1>a, <1>b, <2>3, <2>4, <2>5 DEF Launch, TaskRecords
<1>8. CASE SaveFails
    BY <1>8, <1>a, <1>b DEF SaveFails
<1>9. CASE AwaitWave
    <2>1. results' \in Maps /\ DOMAIN results' \subseteq IdsOf(Places)
        BY <1>9, WaveShape
    <2> QED
        BY <1>9, <1>a, <1>b, <2>1, WorkflowAssumption DEF AwaitWave, NoTask
<1>10. CASE Finalize
    <2>1. row' = row \/ row' = [status |-> after, current |-> {}, completed |-> row.completed,
                                results |-> row.results]
        BY <1>10 DEF Finalize
    <2>2. after \in {"completed", "failed"} /\ at' \in {"audit", "over"}
        BY <1>10 DEF Finalize
    <2> QED
        BY <1>10, <1>a, <1>b, <2>1, <2>2 DEF Finalize
<1>11. CASE AuditRun
    BY <1>11, <1>a, <1>b DEF AuditRun
<1>12. ASSUME NEW i \in Places, SchedulePod(i)
       PROVE  TypeInv'
    BY <1>12, <1>a, <1>b DEF SchedulePod
<1>13. ASSUME NEW i \in Places, ScheduleFails(i)
       PROVE  TypeInv'
    <2>1. task[i] \in TaskRecords /\ task[i].at # "none"
        BY <1>13 DEF ScheduleFails, TaskRecords
    <2>2. TasksPlaced' /\ task' \in [Places -> TaskRecords]
        BY <1>13, <1>a, <2>1, AfterAttemptType, TaskMoves DEF ScheduleFails
    <2>3. pods' \subseteq Places \X (0 .. MaxRetries)
        BY <1>13, <2>1 DEF ScheduleFails, TaskRecords
    <2> QED
        BY <1>13, <1>a, <1>b, <2>2, <2>3 DEF ScheduleFails, TaskRecords
<1>14. ASSUME NEW i \in Places, RunInPod(i)
       PROVE  TypeInv'
    <2>1. task[i] \in TaskRecords /\ task[i].at # "none"
        BY <1>14 DEF RunInPod, TaskRecords
    <2>2. PICK answer \in Codes \cup {NoAnswer} :
              task' = [task EXCEPT ![i] = [task[i] EXCEPT !.at = "kill", !.answer = answer]]
        BY <1>14 DEF RunInPod
    <2>3. [task[i] EXCEPT !.at = "kill", !.answer = answer] \in TaskRecords
        BY <2>1, <2>2 DEF TaskRecords
    <2>4. [task[i] EXCEPT !.at = "kill", !.answer = answer].at = "kill"
        BY <2>1 DEF TaskRecords
    <2>5. TasksPlaced' /\ task' \in [Places -> TaskRecords]
        BY <1>14, <1>a, <2>1, <2>2, <2>3, <2>4, TaskMoves DEF RunInPod
    <2> QED
        BY <1>14, <1>a, <1>b, <2>5 DEF RunInPod, TaskRecords
<1>15. ASSUME NEW i \in Places, KillPod(i)
       PROVE  TypeInv'
    <2>1. task[i] \in TaskRecords /\ task[i].at # "none"
        BY <1>15 DEF KillPod, TaskRecords
    <2>2. TasksPlaced' /\ task' \in [Places -> TaskRecords]
        BY <1>15, <1>a, <2>1, AfterAttemptType, TaskMoves DEF KillPod
    <2>3. pods' \subseteq Places \X (0 .. MaxRetries)
        BY <1>15 DEF KillPod, Killed
    <2> QED
        BY <1>15, <1>a, <1>b, <2>2, <2>3 DEF KillPod, TaskRecords
<1>16. CASE Crash
    BY <1>16, <1>a, <1>b, WorkflowAssumption DEF Crash, NoTask
<1>17. CASE UNCHANGED vars
    BY <1>17, <1>a, <1>b DEF vars
<1> QED
    BY <1>1, <1>2, <1>3, <1>4, <1>5, <1>6, <1>7, <1>8, <1>9, <1>10, <1>11, <1>12, <1>13,
       <1>14, <1>15, <1>16, <1>17 DEF Next, ExecStep, TaskStep, Over

LEMMA TypeInvHolds == Spec => []TypeInv
    BY TypeInvInit, TypeInvStep, PTL DEF Spec

\* The row, the tasks, the pods and the executor keep their types, whichever steps fail
\* and are tried again (run_step_with_retries counts its attempts up to max_retries).
THEOREM TypeCorrect == Spec => []TypeOK
<1>1. TypeInv => TypeOK
    BY DEF TypeInv
<1> QED
    BY TypeInvHolds, <1>1, PTL

-----------------------------------------------------------------------------
(* Order, quiet ends, and the truth of "completed".                          *)

\* The steps of a wave, and those with a result, have what they depend on.
OrderInv ==
    /\ \A i \in wave : Steps[i].depends_on \subseteq DOMAIN results
    /\ \A x \in DOMAIN results : \E i \in Places :
           Steps[i].id = x /\ Steps[i].depends_on \subseteq DOMAIN results

StatusInv == row.status \in {"completed", "failed"} => at \in {"audit", "over"}

Saved == row.completed = DOMAIN results /\ row.results = results /\ row.current = {}

\* What the columns hold where the executor stands.
SavedInv ==
    /\ at \in {"none", "load", "walk"} => Saved
    /\ at = "results" => row.completed = DOMAIN results /\ row.current = {}
    /\ at = "finalize" /\ after = "completed" => Saved /\ DOMAIN results = IdsOf(Places)

\* As many ids as steps: every step has a result.
LEMMA EnoughIsAll ==
    ASSUME WorldOK, NEW done, done \subseteq IdsOf(Places), Cardinality(done) >= Len(Steps)
    PROVE  done = IdsOf(Places) /\ UniqueIds
<1> DEFINE f == [i \in Places |-> Steps[i].id]
<1>1. IsFiniteSet(Places) /\ Cardinality(Places) = Len(Steps) /\ Len(Steps) \in Nat
    BY StepsListed
<1>2. f \in Surjection(Places, IdsOf(Places))
    BY DEF Surjection, IdsOf
<1>3. /\ IsFiniteSet(IdsOf(Places))
      /\ Cardinality(IdsOf(Places)) <= Cardinality(Places)
      /\ Cardinality(IdsOf(Places)) = Cardinality(Places) <=> f \in Injection(Places, IdsOf(Places))
    <2> HIDE DEF f
    <2> QED
        BY <1>1, <1>2, FS_Surjection
<1>4. /\ Cardinality(done) <= Cardinality(IdsOf(Places))
      /\ Cardinality(IdsOf(Places)) = Cardinality(done) => IdsOf(Places) = done
      /\ Cardinality(done) \in Nat /\ Cardinality(IdsOf(Places)) \in Nat
    BY <1>3, FS_Subset, FS_CardinalityType
<1>5. Cardinality(IdsOf(Places)) = Cardinality(done) /\ Cardinality(IdsOf(Places)) = Cardinality(Places)
    BY <1>1, <1>3, <1>4
<1>6. f \in Injection(Places, IdsOf(Places))
    BY <1>3, <1>5
<1>7. UniqueIds
    BY <1>6 DEF Injection, IsInjective, UniqueIds
<1> QED
    BY <1>4, <1>5, <1>7

SafeInv == OrderInv /\ StatusInv /\ SavedInv /\ CompletedIsTrue

LEMMA SafeInvInit == Init => SafeInv
    BY DEF Init, SafeInv, OrderInv, StatusInv, SavedInv, Saved, CompletedIsTrue, NoResults

LEMMA SafeInvStep == TypeInv /\ SafeInv /\ [Next]_vars => SafeInv'
<1> SUFFICES ASSUME TypeInv, SafeInv, [Next]_vars PROVE SafeInv'
    OBVIOUS
<1>a. Steps' = Steps /\ Places' = Places /\ IdsOf(Places)' = IdsOf(Places)
    BY WorldKept, StepsKept DEF TypeInv
<1> USE DEF SafeInv, OrderInv, StatusInv, SavedInv, Saved, CompletedIsTrue
<1>1. CASE RunWorkflow
    BY <1>1, <1>a DEF RunWorkflow, TypeInv, RowIsRecord
<1>2. CASE Load
    BY <1>2, <1>a DEF Load
<1>3. CASE LeaveLoop
    <2>1. Enough => DOMAIN results = IdsOf(Places)
        BY EnoughIsAll DEF Enough, TypeInv, ResultsOfSteps
    <2> QED
        BY <1>3, <1>a, <2>1 DEF LeaveLoop
<1>4. CASE StartWave
    <2>1. /\ wave' \subseteq Ready /\ Ready \subseteq Places
          /\ DOMAIN results' = DOMAIN results \cup IdsOf(Ready \ wave')
        BY <1>4, SkipShape
    <2>2. \A i \in Ready : Steps[i].depends_on \subseteq DOMAIN results
        BY DEF Ready, DependenciesMet
    <2>3. \A x \in DOMAIN results' : \E i \in Places :
              Steps[i].id = x /\ Steps[i].depends_on \subseteq DOMAIN results'
        BY <2>1, <2>2 DEF IdsOf
    <2> QED
        BY <1>4, <1>a, <2>1, <2>2, <2>3 DEF StartWave
<1>5. CASE SaveArrays
    <2>1. row' = [status |-> row.status, current |-> {}, completed |-> DOMAIN results,
                  results |-> row.results]
        BY <1>5 DEF SaveArrays, TypeInv, RowIsRecord
    <2> QED
        BY <1>5, <1>a, <2>1 DEF SaveArrays
<1>6. CASE SaveResults
    <2>1. row' = [status |-> row.status, current |-> row.current, completed |-> row.completed,
                  results |-> results]
        BY <1>6 DEF SaveResults, TypeInv, RowIsRecord
    <2>2. after \in {"walk", "launch", "failed"}
        BY <1>6 DEF SaveResults, TypeInv, AfterPlaced
    <2> QED
        BY <1>6, <1>a, <2>1, <2>2 DEF SaveResults
<1>7. CASE Launch
    <2>1. row'.status = row.status
        BY <1>7 DEF Launch, TypeInv, RowIsRecord
    <2> QED
        BY <1>7, <1>a, <2>1 DEF Launch
<1>8. CASE SaveFails
    BY <1>8, <1>a DEF SaveFails
<1>9. CASE AwaitWave
    <2>1. /\ Succeeded \subseteq wave
          /\ DOMAIN results' = DOMAIN results \cup IdsOf(Succeeded)
        BY <1>9, WaveShape
    <2>2. wave \subseteq Places
        BY DEF TypeInv, TypeOK
    <2>3. \A x \in DOMAIN results' : \E i \in Places :
              Steps[i].id = x /\ Steps[i].depends_on \subseteq DOMAIN results'
        BY <2>1, <2>2 DEF IdsOf
    <2> QED
        BY <1>9, <1>a, <2>1, <2>3 DEF AwaitWave
<1>10. CASE Finalize
    <2>1. \/ row' = row /\ at' = "over"
          \/ /\ row' = [status |-> after, current |-> {}, completed |-> row.completed,
                        results |-> row.results]
             /\ at' = "audit"
        BY <1>10 DEF Finalize, TypeInv, RowIsRecord
    <2> QED
        BY <1>10, <1>a, <2>1 DEF Finalize
<1>11. CASE AuditRun
    BY <1>11, <1>a DEF AuditRun
<1>12. ASSUME NEW i \in Places, TaskStep(i)
       PROVE  SafeInv'
    BY <1>12, <1>a DEF TaskStep, SchedulePod, ScheduleFails, RunInPod, KillPod
<1>13. CASE Crash
    BY <1>13, <1>a DEF Crash
<1>14. CASE UNCHANGED vars
    BY <1>14, <1>a DEF vars
<1> QED
    BY <1>1, <1>2, <1>3, <1>4, <1>5, <1>6, <1>7, <1>8, <1>9, <1>10, <1>11, <1>12, <1>13, <1>14
       DEF Next, ExecStep, Over

LEMMA SafeInvHolds == Spec => [](TypeInv /\ SafeInv)
<1>1. TypeInv /\ SafeInv /\ [Next]_vars => (TypeInv /\ SafeInv)'
    BY TypeInvStep, SafeInvStep
<1> QED
    BY TypeInvInit, SafeInvInit, <1>1, PTL DEF Spec

\* A step runs only after all it depends on, in any definition, however the tasks of
\* a wave finish, fail or are tried again (execute_dag, dependencies_met).
THEOREM RunsInOrderHolds == Spec => []RunsInOrder
<1>1. TypeInv /\ SafeInv => RunsInOrder
    BY DEF TypeInv, TasksPlaced, SafeInv, OrderInv, RunsInOrder, Active
<1> QED
    BY SafeInvHolds, <1>1, PTL

\* When the row says completed or failed nothing of the run is running (execute_dag
\* awaits the whole batch before it returns).
THEOREM EndedRunIsQuietHolds == Spec => []EndedRunIsQuiet
<1>1. TypeInv /\ SafeInv => EndedRunIsQuiet
    BY DEF TypeInv, TasksPlaced, SafeInv, StatusInv, EndedRunIsQuiet, Active
<1> QED
    BY SafeInvHolds, <1>1, PTL

\* When the row says completed every step has its result in it, whichever statements
\* failed on the way (advance_dag, update_step_arrays, update_step_results).
THEOREM CompletedIsTrueHolds == Spec => []CompletedIsTrue
<1>1. SafeInv => CompletedIsTrue
    BY DEF SafeInv
<1> QED
    BY SafeInvHolds, <1>1, PTL

-----------------------------------------------------------------------------
(* Pods.                                                                     *)

\* A pod belongs to the attempt its task is at; a task to a step in the row.
PodsInv ==
    /\ \A i \in Places : task[i].at # "none" => Steps[i].id \in row.current
    /\ faults \cap {"crash", "kube"} = {} =>
           \A p \in pods : task[p[1]].at \in {"exec", "kill"} /\ task[p[1]].attempt = p[2]

LEMMA PodsInvStep == TypeInv /\ PodsInv /\ [Next]_vars => PodsInv'
<1> SUFFICES ASSUME TypeInv, PodsInv, [Next]_vars PROVE PodsInv'
    OBVIOUS
<1>a. Steps' = Steps /\ Places' = Places /\ faults' = faults
    BY WorldKept, StepsKept DEF TypeInv
<1>b. \A p \in pods : p[1] \in Places /\ p = <<p[1], p[2]>>
    BY DEF TypeInv, TypeOK
<1>c. at # "await" => /\ \A i \in Places : task[i].at = "none"
                      /\ faults \cap {"crash", "kube"} = {} => pods = {}
    BY <1>b DEF TypeInv, TasksPlaced, PodsInv
<1> USE DEF PodsInv
<1>1. CASE RunWorkflow \/ Load \/ LeaveLoop \/ StartWave \/ SaveArrays \/ SaveResults
           \/ SaveFails \/ Finalize \/ AuditRun
    BY <1>1, <1>a, <1>c DEF RunWorkflow, Load, LeaveLoop, StartWave, SaveArrays, SaveResults,
       SaveFails, Finalize, AuditRun
<1>2. CASE Launch
    <2>1. row'.current = IdsOf(wave)
        BY <1>2 DEF Launch, TypeInv, RowIsRecord
    <2>2. \A i \in Places : task'[i].at # "none" => i \in wave
        BY <1>2 DEF Launch, NoTask
    <2>3. at = "launch" /\ pods' = pods
        BY <1>2 DEF Launch
    <2> QED
        BY <1>a, <1>c, <2>1, <2>2, <2>3 DEF IdsOf
<1>3. CASE AwaitWave
    <2>1. \A i \in Places : task[i].at \in {"none", "ok", "failed"}
        BY <1>3 DEF AwaitWave, EveryTaskEnded, TypeInv, TasksPlaced
    <2>2. \A i \in Places : task'[i].at = "none"
        BY <1>3 DEF AwaitWave, NoTask
    <2> QED
        BY <1>3, <1>a, <1>b, <2>1, <2>2 DEF AwaitWave
<1>4. ASSUME NEW i \in Places, TaskStep(i)
      PROVE  PodsInv'
    <2>1. /\ row' = row /\ task[i].at \in {"schedule", "exec", "kill"}
          /\ \A j \in Places \ {i} : task'[j] = task[j]
        BY <1>4 DEF TaskStep, SchedulePod, ScheduleFails, RunInPod, KillPod, TypeInv, TypeOK
    <2>2. \A j \in Places : task'[j].at # "none" => Steps[j].id \in row.current
        BY <2>1
    <2>3. ASSUME faults \cap {"crash", "kube"} = {}, NEW p \in pods'
          PROVE  task'[p[1]].at \in {"exec", "kill"} /\ task'[p[1]].attempt = p[2]
        <3>1. CASE SchedulePod(i)
            <4>1. task'[i].at = "exec" /\ task'[i].attempt = task[i].attempt
                BY <3>1 DEF SchedulePod, TypeInv, TypeOK
            <4>2. p \in pods \/ p = <<i, task[i].attempt>>
                BY <3>1, <2>3 DEF SchedulePod
            <4>3. p \in pods => p[1] # i
                BY <3>1, <2>3 DEF SchedulePod
            <4> QED
                BY <2>1, <2>3, <1>b, <4>1, <4>2, <4>3
        <3>2. CASE ScheduleFails(i)
            <4>1. p \in pods /\ p[1] # i
                BY <3>2, <2>3 DEF ScheduleFails
            <4> QED
                BY <2>1, <2>3, <1>b, <4>1
        <3>3. CASE RunInPod(i)
            <4>1. task'[i].at = "kill" /\ task'[i].attempt = task[i].attempt /\ pods' = pods
                BY <3>3 DEF RunInPod, TypeInv, TypeOK
            <4> QED
                BY <2>1, <2>3, <1>b, <4>1
        <3>4. CASE KillPod(i)
            <4>1. p \in pods /\ p # <<i, task[i].attempt>>
                BY <3>4, <2>3 DEF KillPod, Killed
            <4>2. p[1] # i
                BY <1>b, <2>3, <4>1
            <4> QED
                BY <2>1, <2>3, <1>b, <4>1, <4>2
        <3> QED
            BY <1>4, <3>1, <3>2, <3>3, <3>4 DEF TaskStep
    <2> QED
        BY <1>a, <2>1, <2>2, <2>3
<1>5. CASE Crash
    <2>1. \A i \in Places : task'[i].at = "none"
        BY <1>5 DEF Crash, NoTask
    <2>2. faults \cap {"crash", "kube"} # {}
        BY <1>5 DEF Crash
    <2> QED
        BY <1>a, <2>1, <2>2
<1>6. CASE UNCHANGED vars
    BY <1>6, <1>a DEF vars
<1> QED
    BY <1>1, <1>2, <1>3, <1>4, <1>5, <1>6 DEF Next, ExecStep, Over

\* While Kubernetes answers and the gateway lives, no pod outlives its attempt, whether
\* its command returns, fails or times out (executor.rs: "a failed run never leaks pods").
THEOREM PodsAreCurrentHolds == Spec => []PodsAreCurrent
<1>1. Init => PodsInv
    BY DEF Init, PodsInv, NoTask
<1>2. TypeInv /\ PodsInv => PodsAreCurrent
    BY DEF TypeInv, TypeOK, PodsInv, PodsAreCurrent, Active
<1>3. Spec => []PodsInv
    BY TypeInvHolds, PodsInvStep, <1>1, PTL DEF Spec
<1> QED
    BY TypeInvHolds, <1>2, <1>3, PTL

-----------------------------------------------------------------------------
(* Progress, where no two steps share an id.                                 *)

\* The columns never hold more than the executor's map, nor anything else; the wave
\* has no result yet.
KeepInv ==
    /\ row.completed \subseteq DOMAIN results
    /\ DOMAIN row.results \subseteq DOMAIN results
    /\ UniqueIds => \A x \in DOMAIN row.results : row.results[x] = results[x]
    /\ UniqueIds /\ after = "launch" => \A i \in wave : Steps[i].id \notin DOMAIN results

OnDependency(i) ==
    Steps[i].condition.op = "none" \/ Steps[i].condition.step \in Steps[i].depends_on

\* A wave runs because its conditions held, and they still do.
WantedInv ==
    /\ UniqueIds /\ after = "launch" =>
           \A i \in wave : OnDependency(i) => Holds(Steps[i].condition, results)
    /\ ConditionsHonoured

\* The executor's map only grows, and keeps what it has unless two steps share an id.
LEMMA ResultsGrow ==
    ASSUME TypeInv, KeepInv, [Next]_vars
    PROVE  /\ DOMAIN results \subseteq DOMAIN results'
           /\ UniqueIds => \A x \in DOMAIN results : results'[x] = results[x]
<1>1. CASE StartWave
    BY <1>1, SkipShape
<1>2. CASE AwaitWave
    <2>1. /\ Succeeded \subseteq wave
          /\ DOMAIN results' = DOMAIN results \cup IdsOf(Succeeded)
          /\ \A x \in DOMAIN results \ IdsOf(Succeeded) : results'[x] = results[x]
        BY <1>2, WaveShape
    <2>2. after = "launch"
        BY <1>2 DEF AwaitWave, TypeInv, AfterPlaced
    <2>3. UniqueIds => DOMAIN results \cap IdsOf(Succeeded) = {}
        BY <2>1, <2>2 DEF KeepInv, IdsOf
    <2> QED
        BY <2>1, <2>3
<1>3. CASE results' = results
    BY <1>3
<1> QED
    BY <1>1, <1>2, <1>3 DEF Next, RunWorkflow, ExecStep, Load, LeaveLoop, SaveArrays, SaveResults,
       Launch, SaveFails, Finalize, AuditRun, TaskStep, SchedulePod, ScheduleFails, RunInPod,
       KillPod, Crash, Over, vars

LEMMA KeepInvStep == TypeInv /\ SafeInv /\ KeepInv /\ [Next]_vars => KeepInv'
<1> SUFFICES ASSUME TypeInv, SafeInv, KeepInv, [Next]_vars PROVE KeepInv'
    OBVIOUS
<1>a. Steps' = Steps /\ Places' = Places /\ UniqueIds' = UniqueIds
    BY WorldKept, StepsKept
<1>b. /\ DOMAIN results \subseteq DOMAIN results'
      /\ UniqueIds => \A x \in DOMAIN results : results'[x] = results[x]
    BY ResultsGrow
<1>1. CASE StartWave
    <2>1. /\ wave' \subseteq Ready /\ Ready \subseteq Places
          /\ DOMAIN results' = DOMAIN results \cup IdsOf(Ready \ wave')
        BY <1>1, SkipShape
    <2>2. UniqueIds => \A i \in wave' : Steps[i].id \notin DOMAIN results'
        <3>1. \A i \in wave' : Steps[i].id \notin DOMAIN results
            BY <2>1 DEF Ready
        <3>2. UniqueIds => \A i \in wave' : Steps[i].id \notin IdsOf(Ready \ wave')
            BY <2>1 DEF UniqueIds, IdsOf
        <3> QED
            BY <2>1, <3>1, <3>2
    <2>3. row' = row
        BY <1>1 DEF StartWave
    <2> QED
        BY <1>a, <1>b, <2>2, <2>3 DEF KeepInv
<1>2. CASE AwaitWave
    <2>1. row' = row /\ after' # "launch"
        BY <1>2 DEF AwaitWave
    <2> QED
        BY <1>a, <1>b, <2>1 DEF KeepInv
<1>3. CASE RunWorkflow \/ Load \/ LeaveLoop \/ SaveFails \/ AuditRun \/ Crash \/ UNCHANGED vars
    BY <1>3, <1>a DEF RunWorkflow, Load, LeaveLoop, SaveFails, AuditRun, Crash, vars, KeepInv,
       TypeInv, RowIsRecord
<1>4. CASE SaveArrays \/ Launch
    <2>1. /\ row'.completed = DOMAIN results /\ row'.results = row.results
          /\ results' = results /\ after' = after /\ wave' = wave
        BY <1>4 DEF SaveArrays, Launch, TypeInv, RowIsRecord
    <2> QED
        BY <1>a, <2>1 DEF KeepInv
<1>5. CASE SaveResults
    <2>1. /\ row'.completed = row.completed /\ row'.results = results
          /\ results' = results /\ after' = after /\ wave' = wave
        BY <1>5 DEF SaveResults, TypeInv, RowIsRecord
    <2> QED
        BY <1>a, <2>1 DEF KeepInv
<1>6. CASE Finalize
    <2>1. /\ row'.completed = row.completed /\ row'.results = row.results
          /\ results' = results /\ after' = after /\ wave' = wave
        BY <1>6 DEF Finalize, TypeInv, RowIsRecord
    <2> QED
        BY <1>a, <2>1 DEF KeepInv
<1>7. ASSUME NEW i \in Places, TaskStep(i)
      PROVE  KeepInv'
    BY <1>7, <1>a DEF TaskStep, SchedulePod, ScheduleFails, RunInPod, KillPod, KeepInv
<1> QED
    BY <1>1, <1>2, <1>3, <1>4, <1>5, <1>6, <1>7 DEF Next, ExecStep, Over

LEMMA KeepInvHolds == Spec => [](TypeInv /\ SafeInv /\ KeepInv)
<1>1. Init => KeepInv
    BY DEF Init, KeepInv, NoResults
<1> QED
    BY SafeInvHolds, KeepInvStep, <1>1, PTL DEF Spec

\* No statement of a run takes progress back: what a client has seen completed stays,
\* with its result, and the row of a run that ended is never written again
\* (update_step_arrays, update_step_results, finalize_run).
THEOREM ProgressKeptHolds == Spec => ProgressKept
<1>1. ASSUME TypeInv, SafeInv, KeepInv, [Next]_vars
      PROVE  [/\ row.completed \subseteq row'.completed
              /\ DOMAIN row.results \subseteq DOMAIN row'.results
              /\ UniqueIds => \A x \in DOMAIN row.results : row'.results[x] = row.results[x]
              /\ row.status \in {"completed", "failed"} => row' = row]_vars
    <2>1. CASE RunWorkflow
        BY <1>1, <2>1 DEF RunWorkflow, TypeInv, RowIsRecord, SafeInv, StatusInv
    <2>2. CASE SaveArrays \/ Launch
        <3>1. /\ row'.completed = DOMAIN results /\ row'.results = row.results
              /\ row.status \notin {"completed", "failed"}
            BY <1>1, <2>2 DEF SaveArrays, Launch, TypeInv, RowIsRecord, SafeInv, StatusInv
        <3> QED
            BY <1>1, <3>1 DEF KeepInv
    <2>3. CASE SaveResults
        <3>1. /\ row'.completed = row.completed /\ row'.results = results
              /\ row.status \notin {"completed", "failed"}
            BY <1>1, <2>3 DEF SaveResults, TypeInv, RowIsRecord, SafeInv, StatusInv
        <3> QED
            BY <1>1, <3>1 DEF KeepInv
    <2>4. CASE Finalize
        BY <2>4, <1>1 DEF Finalize, TypeInv, RowIsRecord, SafeInv, StatusInv
    <2>5. CASE row' = row
        BY <2>5
    <2> QED
        BY <1>1, <2>1, <2>2, <2>3, <2>4, <2>5 DEF Next, ExecStep, Load, LeaveLoop, StartWave,
           SaveFails, AwaitWave, AuditRun, TaskStep, SchedulePod, ScheduleFails, RunInPod, KillPod,
           Crash, Over, vars
<1> QED
    BY KeepInvHolds, <1>1, PTL DEF Spec, ProgressKept

-----------------------------------------------------------------------------
(* What a client sees of the run implements RunProgress.                     *)

StageInv ==
    /\ at = "none" => row.status = "none"
    /\ at \notin {"none", "audit", "over"} => row.status = "running"

\* What the columns still lack had waited only for what they hold; before a wave
\* they lack nothing.
FrontierInv ==
    /\ at \in {"launch", "await"} => row.completed = DOMAIN results
    /\ at = "arrays" => \A x \in DOMAIN results \ row.completed : \E i \in Places :
           Steps[i].id = x /\ Steps[i].depends_on \subseteq row.completed

ViewInv == StageInv /\ FrontierInv

LEMMA ViewInvStep == TypeInv /\ SafeInv /\ ViewInv /\ [Next]_vars => ViewInv'
<1> SUFFICES ASSUME TypeInv, SafeInv, ViewInv, [Next]_vars PROVE ViewInv'
    OBVIOUS
<1>a. Steps' = Steps /\ Places' = Places
    BY WorldKept, StepsKept
<1> USE DEF ViewInv, StageInv, FrontierInv
<1>1. CASE RunWorkflow
    BY <1>1, <1>a DEF RunWorkflow, TypeInv, RowIsRecord
<1>2. CASE Load \/ LeaveLoop \/ SaveFails \/ AuditRun \/ Crash
    BY <1>2, <1>a DEF Load, LeaveLoop, SaveFails, AuditRun, Crash
<1>3. CASE StartWave
    <2>1. /\ wave' \subseteq Ready /\ Ready \subseteq Places
          /\ DOMAIN results' = DOMAIN results \cup IdsOf(Ready \ wave')
        BY <1>3, SkipShape
    <2>2. row' = row /\ row.completed = DOMAIN results /\ at = "walk"
          /\ at' = IF wave' = Ready THEN "launch" ELSE "arrays"
        BY <1>3 DEF StartWave, SafeInv, SavedInv, Saved
    <2>3. wave' = Ready => DOMAIN results' = row.completed
        BY <2>1, <2>2 DEF IdsOf
    <2>4. \A x \in DOMAIN results' \ row.completed : \E i \in Places :
              Steps[i].id = x /\ Steps[i].depends_on \subseteq row.completed
        BY <2>1, <2>2 DEF IdsOf, Ready, DependenciesMet
    <2> QED
        BY <1>a, <2>2, <2>3, <2>4
<1>4. CASE SaveArrays \/ Launch
    <2>1. /\ row'.completed = DOMAIN results /\ row'.status = row.status
          /\ results' = results /\ at \in {"arrays", "launch"} /\ at' \in {"results", "await"}
        BY <1>4 DEF SaveArrays, Launch, TypeInv, RowIsRecord
    <2> QED
        BY <1>a, <2>1
<1>5. CASE SaveResults
    <2>1. /\ row'.completed = row.completed /\ row'.status = row.status /\ results' = results
          /\ at = "results" /\ at' = IF after = "failed" THEN "finalize" ELSE after
        BY <1>5 DEF SaveResults, TypeInv, RowIsRecord
    <2>2. after \in {"walk", "launch", "failed"} /\ row.completed = DOMAIN results
        BY <2>1 DEF TypeInv, AfterPlaced, SafeInv, SavedInv
    <2> QED
        BY <1>a, <2>1, <2>2
<1>6. CASE AwaitWave
    <2>1. /\ Succeeded \subseteq wave
          /\ DOMAIN results' = DOMAIN results \cup IdsOf(Succeeded)
        BY <1>6, WaveShape
    <2>2. wave \subseteq Places /\ \A i \in wave : Steps[i].depends_on \subseteq DOMAIN results
        BY DEF TypeInv, TypeOK, SafeInv, OrderInv
    <2>3. row' = row /\ row.completed = DOMAIN results /\ at = "await" /\ at' = "arrays"
        BY <1>6 DEF AwaitWave
    <2>4. \A x \in DOMAIN results' \ row.completed : \E i \in Places :
              Steps[i].id = x /\ Steps[i].depends_on \subseteq row.completed
        BY <2>1, <2>2, <2>3 DEF IdsOf
    <2> QED
        BY <1>a, <2>3, <2>4
<1>7. CASE Finalize
    BY <1>7, <1>a DEF Finalize
<1>8. ASSUME NEW i \in Places, TaskStep(i)
      PROVE  ViewInv'
    BY <1>8, <1>a DEF TaskStep, SchedulePod, ScheduleFails, RunInPod, KillPod, exec
<1>9. CASE UNCHANGED vars
    BY <1>9, <1>a DEF vars, exec
<1> QED
    BY <1>1, <1>2, <1>3, <1>4, <1>5, <1>6, <1>7, <1>8, <1>9 DEF Next, ExecStep, Over

LEMMA ProgressInit == Init => Progress!Init
    BY DEF Init, Progress!Init, NoResults

\* Every step of the run writes one column or none: a wave, its results, or the end.
LEMMA ProgressStep ==
    TypeInv /\ SafeInv /\ KeepInv /\ ViewInv /\ [Next]_vars => [Progress!Next]_(Progress!vars)
<1> SUFFICES ASSUME TypeInv, SafeInv, KeepInv, ViewInv, [Next]_vars
             PROVE  Progress!Next \/ UNCHANGED Progress!vars
    OBVIOUS
<1>a. Steps' = Steps
    BY WorldKept, StepsKept
<1>1. CASE RunWorkflow
    <2>1. row.status = "none" /\ row'.status = "running"
          /\ row'.completed = row.completed /\ row'.results = row.results
        BY <1>1 DEF RunWorkflow, TypeInv, RowIsRecord, ViewInv, StageInv
    <2> QED
        BY <1>a, <2>1 DEF Progress!Next, Progress!Begin
<1>2. CASE SaveArrays \/ Launch
    <2>1. /\ row'.completed = DOMAIN results /\ row'.status = row.status
          /\ row'.results = row.results /\ at \in {"arrays", "launch"}
        BY <1>2 DEF SaveArrays, Launch, TypeInv, RowIsRecord
    <2>2. row.status = "running" /\ row.completed \subseteq DOMAIN results
        BY <2>1 DEF ViewInv, StageInv, KeepInv
    <2>3. \A x \in DOMAIN results \ row.completed : \E i \in DOMAIN Steps :
              Steps[i].id = x /\ Steps[i].depends_on \subseteq row.completed
        BY <2>1 DEF ViewInv, FrontierInv, Places
    <2> QED
        BY <1>a, <2>1, <2>2, <2>3 DEF Progress!Next, Progress!Wave
<1>3. CASE SaveResults
    <2>1. /\ row'.completed = row.completed /\ row'.status = row.status
          /\ row'.results = results /\ at = "results"
        BY <1>3 DEF SaveResults, TypeInv, RowIsRecord
    <2>2. row.status = "running" /\ row.completed = DOMAIN results
        BY <2>1 DEF ViewInv, StageInv, SafeInv, SavedInv
    <2>3. /\ DOMAIN row.results \subseteq DOMAIN results
          /\ Progress!NoneTwice => \A x \in DOMAIN row.results : results[x] = row.results[x]
        BY DEF KeepInv, UniqueIds, Places, Progress!NoneTwice
    <2> QED
        BY <1>a, <2>1, <2>2, <2>3 DEF Progress!Next, Progress!Publish
<1>4. CASE Finalize
    <2>1. CASE row' = row
        BY <1>a, <2>1 DEF Progress!vars
    <2>2. CASE row' # row
        <3>1. /\ row'.status = after /\ row'.completed = row.completed
              /\ row'.results = row.results /\ at = "finalize"
            BY <1>4, <2>2 DEF Finalize, TypeInv, RowIsRecord
        <3>2. row.status = "running" /\ after \in {"completed", "failed"}
            BY <3>1 DEF ViewInv, StageInv, TypeInv, AfterPlaced
        <3>3. after = "completed" => /\ row.completed = Progress!IdsOfSteps
                                     /\ DOMAIN row.results = Progress!IdsOfSteps
            BY <3>1 DEF SafeInv, SavedInv, Saved, IdsOf, Places, Progress!IdsOfSteps
        <3> QED
            BY <1>a, <3>1, <3>2, <3>3 DEF Progress!Next, Progress!End
    <2> QED
        BY <2>1, <2>2
<1>5. CASE row' = row
    BY <1>a, <1>5 DEF Progress!vars
<1> QED
    BY <1>1, <1>2, <1>3, <1>4, <1>5 DEF Next, ExecStep, Load, LeaveLoop, StartWave,
       SaveFails, AwaitWave, AuditRun, TaskStep, SchedulePod, ScheduleFails, RunInPod, KillPod,
       Crash, Over, vars

\* A client that polls the row sees the run advance one wave at a time, keep every
\* result and end once, for any definition, exit codes and faults.
THEOREM WorkflowShowsProgress == Spec => ShowsProgress
<1>1. Init => ViewInv
    BY DEF Init, ViewInv, StageInv, FrontierInv
<1>2. Spec => [](TypeInv /\ SafeInv /\ KeepInv /\ ViewInv)
    BY <1>1, KeepInvHolds, ViewInvStep, PTL DEF Spec
<1> QED
    BY <1>2, ProgressInit, ProgressStep, PTL DEF Spec, ShowsProgress, Progress!Spec

-----------------------------------------------------------------------------
(* Conditions, where no two steps share an id.                               *)

\* A condition on a step that has its result is decided for good.
LEMMA HoldsStable ==
    ASSUME NEW c, NEW old, NEW new, c.op = "none" \/ c.step \in DOMAIN old,
           DOMAIN old \subseteq DOMAIN new, \A x \in DOMAIN old : new[x] = old[x]
    PROVE  Holds(c, new) <=> Holds(c, old)
    BY DEF Holds, Resolves

\* Under unique ids a step with a result has what it depends on.
LEMMA DependenciesDone ==
    ASSUME OrderInv, UniqueIds, NEW i \in Places, Steps[i].id \in DOMAIN results
    PROVE  Steps[i].depends_on \subseteq DOMAIN results
    BY DEF OrderInv, UniqueIds

LEMMA WantedInvStep == TypeInv /\ SafeInv /\ KeepInv /\ WantedInv /\ [Next]_vars => WantedInv'
<1> SUFFICES ASSUME TypeInv, SafeInv, KeepInv, WantedInv, [Next]_vars PROVE WantedInv'
    OBVIOUS
<1>a. Steps' = Steps /\ Places' = Places /\ UniqueIds' = UniqueIds
    BY WorldKept, StepsKept
<1> SUFFICES ASSUME UniqueIds PROVE WantedInv'
    BY <1>a DEF WantedInv, ConditionsHonoured
<1>b. DOMAIN results \subseteq DOMAIN results' /\ \A x \in DOMAIN results : results'[x] = results[x]
    BY ResultsGrow
<1>c. ASSUME NEW i \in Places, OnDependency(i), Steps[i].depends_on \subseteq DOMAIN results
      PROVE  Holds(Steps[i].condition, results') <=> Holds(Steps[i].condition, results)
    <2>1. Steps[i].condition.op = "none" \/ Steps[i].condition.step \in DOMAIN results
        BY <1>c DEF OnDependency
    <2> QED
        BY <1>b, <2>1, HoldsStable
<1>d. ASSUME NEW i \in Places, OnDependency(i), Steps[i].id \in DOMAIN results
      PROVE  results'[Steps[i].id] = Skipped <=> ~Holds(Steps[i].condition, results')
    <2>1. Steps[i].depends_on \subseteq DOMAIN results
        BY <1>d, DependenciesDone DEF SafeInv
    <2>2. results[Steps[i].id] = Skipped <=> ~Holds(Steps[i].condition, results)
        BY <1>d DEF WantedInv, ConditionsHonoured, OnDependency
    <2> QED
        BY <1>b, <1>c, <1>d, <2>1, <2>2
<1>1. CASE StartWave
    <2>1. /\ wave' = {i \in Ready : Holds(Steps[i].condition, results)}
          /\ wave' \subseteq Ready /\ Ready \subseteq Places
          /\ DOMAIN results' = DOMAIN results \cup IdsOf(Ready \ wave')
          /\ \A x \in IdsOf(Ready \ wave') : results'[x] = Skipped
        BY <1>1, SkipShape
    <2>2. \A i \in Ready : Steps[i].depends_on \subseteq DOMAIN results
        BY DEF Ready, DependenciesMet
    <2>3. ASSUME NEW i \in wave', OnDependency(i)
          PROVE  Holds(Steps[i].condition, results')
        BY <1>c, <2>1, <2>2, <2>3
    <2>4. ASSUME NEW i \in Places, OnDependency(i), Steps[i].id \in IdsOf(Ready \ wave')
          PROVE  results'[Steps[i].id] = Skipped <=> ~Holds(Steps[i].condition, results')
        <3>1. i \in Ready \ wave'
            BY <2>1, <2>4 DEF IdsOf, UniqueIds
        <3>2. ~Holds(Steps[i].condition, results)
            BY <2>1, <3>1
        <3> QED
            BY <1>c, <2>1, <2>2, <2>4, <3>1, <3>2
    <2>5. \A i \in Places : OnDependency(i) /\ Steps[i].id \in DOMAIN results' =>
              (results'[Steps[i].id] = Skipped <=> ~Holds(Steps[i].condition, results'))
        BY <1>d, <2>1, <2>4
    <2> QED
        BY <1>a, <2>3, <2>5 DEF WantedInv, ConditionsHonoured, OnDependency, Holds, Resolves
<1>2. CASE AwaitWave
    <2>1. /\ Succeeded \subseteq wave
          /\ DOMAIN results' = DOMAIN results \cup IdsOf(Succeeded)
          /\ \A x \in IdsOf(Succeeded) : results'[x] \in Codes
        BY <1>2, WaveShape
    <2>2. after = "launch" /\ after' # "launch" /\ wave \subseteq Places
        BY <1>2 DEF AwaitWave, TypeInv, TypeOK, AfterPlaced
    <2>3. ASSUME NEW i \in Places, OnDependency(i), Steps[i].id \in IdsOf(Succeeded)
          PROVE  results'[Steps[i].id] = Skipped <=> ~Holds(Steps[i].condition, results')
        <3>1. i \in wave
            BY <2>1, <2>2, <2>3 DEF IdsOf, UniqueIds
        <3>2. Holds(Steps[i].condition, results) /\ Steps[i].depends_on \subseteq DOMAIN results
            BY <2>2, <2>3, <3>1 DEF WantedInv, SafeInv, OrderInv
        <3>3. results'[Steps[i].id] # Skipped
            BY <2>1, <2>3, WorkflowAssumption
        <3> QED
            BY <1>c, <2>3, <3>2, <3>3
    <2>4. \A i \in Places : OnDependency(i) /\ Steps[i].id \in DOMAIN results' =>
              (results'[Steps[i].id] = Skipped <=> ~Holds(Steps[i].condition, results'))
        BY <1>d, <2>1, <2>3
    <2> QED
        BY <1>a, <2>2, <2>4 DEF WantedInv, ConditionsHonoured, OnDependency, Holds, Resolves
<1>3. CASE results' = results /\ wave' = wave /\ (after' = after \/ after' # "launch")
    <2>1. UniqueIds /\ after' = "launch" =>
              \A i \in wave : OnDependency(i) => Holds(Steps[i].condition, results)
        BY <1>3 DEF WantedInv
    <2>2. ConditionsHonoured'
        BY <1>3, <1>a DEF WantedInv, ConditionsHonoured, Holds, Resolves
    <2> QED
        BY <1>3, <1>a, <2>1, <2>2 DEF WantedInv, OnDependency, Holds, Resolves
<1> QED
    BY <1>1, <1>2, <1>3 DEF Next, RunWorkflow, ExecStep, Load, LeaveLoop, SaveArrays, SaveResults,
       Launch, SaveFails, Finalize, AuditRun, TaskStep, SchedulePod, ScheduleFails, RunInPod,
       KillPod, Crash, Over, vars

\* A step whose condition is on a step it depends on is skipped exactly when that is
\* false of the results the run ends with: later waves cannot overturn the decision
\* (evaluate_condition, the partition in execute_dag).
THEOREM ConditionsHonouredHolds == Spec => []ConditionsHonoured
<1>1. Init => WantedInv
    BY DEF Init, WantedInv, ConditionsHonoured, NoResults
<1>2. WantedInv => ConditionsHonoured
    BY DEF WantedInv
<1> QED
    BY KeepInvHolds, WantedInvStep, <1>1, <1>2, PTL DEF Spec

-----------------------------------------------------------------------------
(* Which definitions complete.                                               *)

\* Among the steps with a result there is always one that depends on none of the others.
AcyclicInv ==
    UniqueIds => \A some \in SUBSET Places :
        some # {} /\ IdsOf(some) \subseteq DOMAIN results =>
            \E i \in some : Steps[i].depends_on \cap IdsOf(some) = {}

CompletedIsSound ==
    /\ at = "finalize" /\ after = "completed" => Sound
    /\ UnsoundRunFails

\* The steps a wave adds, skipped or run, follow all that had a result.
LEMMA AcyclicStep ==
    ASSUME TypeInv, SafeInv, KeepInv, AcyclicInv, [Next]_vars
    PROVE  AcyclicInv'
<1>a. Steps' = Steps /\ Places' = Places /\ UniqueIds' = UniqueIds
    BY WorldKept, StepsKept
<1> SUFFICES ASSUME UniqueIds PROVE AcyclicInv'
    BY <1>a DEF AcyclicInv
<1>1. ASSUME NEW i \in Places, Steps[i].id \in DOMAIN results'
      PROVE  Steps[i].depends_on \subseteq DOMAIN results
    <2>1. CASE Steps[i].id \in DOMAIN results
        BY <2>1, DependenciesDone DEF SafeInv
    <2>2. CASE StartWave /\ Steps[i].id \notin DOMAIN results
        <3>1. Ready \subseteq Places /\ DOMAIN results' = DOMAIN results \cup IdsOf(Ready \ wave')
            BY <2>2, SkipShape
        <3>2. i \in Ready
            BY <1>1, <2>2, <3>1 DEF IdsOf, UniqueIds
        <3> QED
            BY <3>2 DEF Ready, DependenciesMet
    <2>3. CASE AwaitWave /\ Steps[i].id \notin DOMAIN results
        <3>1. Succeeded \subseteq wave /\ DOMAIN results' = DOMAIN results \cup IdsOf(Succeeded)
            BY <2>3, WaveShape
        <3>2. wave \subseteq Places
            BY DEF TypeInv, TypeOK
        <3>3. i \in wave
            BY <1>1, <2>3, <3>1, <3>2 DEF IdsOf, UniqueIds
        <3> QED
            BY <3>3 DEF SafeInv, OrderInv
    <2>4. CASE results' = results
        BY <1>1, <2>1, <2>4
    <2> QED
        BY <2>1, <2>2, <2>3, <2>4 DEF Next, RunWorkflow, ExecStep, Load, LeaveLoop, SaveArrays,
           SaveResults, Launch, SaveFails, Finalize, AuditRun, TaskStep, SchedulePod, ScheduleFails,
           RunInPod, KillPod, Crash, Over, vars
<1>2. ASSUME NEW some \in SUBSET Places, some # {}, IdsOf(some) \subseteq DOMAIN results'
      PROVE  \E i \in some : Steps[i].depends_on \cap IdsOf(some) = {}
    <2> DEFINE before == {i \in some : Steps[i].id \in DOMAIN results}
    <2>1. \A i \in some : Steps[i].depends_on \subseteq DOMAIN results
        BY <1>1, <1>2 DEF IdsOf
    <2>2. IdsOf(some) \cap DOMAIN results = IdsOf(before)
        BY DEF IdsOf
    <2>3. CASE before = {}
        BY <1>2, <2>1, <2>2, <2>3 DEF IdsOf
    <2>4. CASE before # {}
        <3>1. before \in SUBSET Places /\ IdsOf(before) \subseteq DOMAIN results
            BY <2>2
        <3>2. PICK i \in before : Steps[i].depends_on \cap IdsOf(before) = {}
            <4> HIDE DEF before
            <4> QED
                BY <2>4, <3>1 DEF AcyclicInv
        <3> QED
            BY <2>1, <2>2, <3>2
    <2> QED
        BY <2>3, <2>4
<1>3. \A some \in SUBSET Places :
          some # {} /\ IdsOf(some) \subseteq DOMAIN results' =>
              \E i \in some : Steps[i].depends_on \cap IdsOf(some) = {}
    BY <1>2
<1>4. \A some \in SUBSET Places : IdsOf(some)' = IdsOf(some)
    BY <1>a DEF IdsOf
<1> QED
    BY <1>a, <1>3, <1>4 DEF AcyclicInv

LEMMA CompletedIsSoundStep ==
    ASSUME TypeInv, SafeInv, AcyclicInv, CompletedIsSound, [Next]_vars
    PROVE  CompletedIsSound'
<1>a. Sound' = Sound
    BY WorldKept, StepsKept
<1> USE DEF CompletedIsSound, UnsoundRunFails
<1>1. CASE LeaveLoop
    <2>1. CASE Enough
        <3>1. DOMAIN results = IdsOf(Places) /\ UniqueIds
            BY <2>1, EnoughIsAll DEF Enough, TypeInv, ResultsOfSteps
        <3>2. \A i \in Places : Steps[i].depends_on \subseteq IdsOf(Places)
            <4>1. \A i \in Places : Steps[i].id \in DOMAIN results
                BY <3>1 DEF IdsOf
            <4> QED
                BY <3>1, <4>1, DependenciesDone DEF SafeInv
        <3>3. \A some \in SUBSET Places : IdsOf(some) \subseteq DOMAIN results
            BY <3>1 DEF IdsOf
        <3>4. Sound
            BY <3>1, <3>2, <3>3 DEF Sound, AcyclicInv
        <3> QED
            BY <1>1, <1>a, <3>4 DEF LeaveLoop
    <2>2. CASE ~Enough
        BY <1>1, <1>a, <2>2 DEF LeaveLoop
    <2> QED
        BY <2>1, <2>2
<1>2. CASE Finalize
    <2>1. \/ row' = row
          \/ row'.status = after
        BY <1>2 DEF Finalize, TypeInv, RowIsRecord
    <2>2. at = "finalize" /\ at' # "finalize"
        BY <1>2 DEF Finalize
    <2> QED
        BY <1>a, <2>1, <2>2
<1>3. CASE row'.status \in {row.status, "running"} /\ (at' = "finalize" => after' # "completed")
    BY <1>3, <1>a
<1>4. CASE UNCHANGED <<row, at, after>>
    BY <1>4, <1>a
<1>5. CASE SaveResults
    <2>1. row'.status = row.status /\ after' = after /\ after \in {"walk", "launch", "failed"}
        BY <1>5 DEF SaveResults, TypeInv, RowIsRecord, AfterPlaced
    <2> QED
        BY <1>a, <2>1
<1> QED
    BY <1>1, <1>2, <1>3, <1>4, <1>5 DEF Next, RunWorkflow, ExecStep, Load, StartWave, SaveArrays,
       Launch, SaveFails, AwaitWave, AuditRun, TaskStep, SchedulePod, ScheduleFails, RunInPod,
       KillPod, Crash, Over, vars, TypeInv, RowIsRecord

\* A definition with a cycle, with a dependency on no step or with an id used twice is
\* never reported completed (execute_dag: "Workflow stuck").
THEOREM UnsoundRunFailsHolds == Spec => []UnsoundRunFails
<1>1. Init => AcyclicInv /\ CompletedIsSound
    <2>1. Init => DOMAIN results = {} /\ at = "none" /\ row.status = "none"
        BY DEF Init, NoResults
    <2>2. \A some \in SUBSET Places : IdsOf(some) \subseteq {} => some = {}
        BY DEF IdsOf
    <2> QED
        BY <2>1, <2>2 DEF AcyclicInv, CompletedIsSound, UnsoundRunFails
<1>2. TypeInv /\ SafeInv /\ KeepInv /\ AcyclicInv /\ CompletedIsSound /\ [Next]_vars =>
          (AcyclicInv /\ CompletedIsSound)'
    BY AcyclicStep, CompletedIsSoundStep
<1>3. CompletedIsSound => UnsoundRunFails
    BY DEF CompletedIsSound
<1> QED
    BY KeepInvHolds, <1>1, <1>2, <1>3, PTL DEF Spec

\* Where nothing is wrong with the definition or its surroundings, nothing fails.
WellInv ==
    Sound /\ faults = {} =>
        /\ row.status # "failed" /\ after # "failed"
        /\ \A i \in Places : /\ task[i].at # "failed"
                             /\ task[i].at = "kill" => task[i].answer # NoAnswer

\* While a sound definition has a step without a result, one of them is ready.
LEMMA SoundIsNeverStuck ==
    ASSUME TypeInv, Sound, Ready = {}
    PROVE  Enough
<1> DEFINE left == {i \in Places : Steps[i].id \notin DOMAIN results}
<1>1. CASE left # {}
    <2>1. PICK i \in left : Steps[i].depends_on \cap IdsOf(left) = {}
        <3>1. left \in SUBSET Places
            OBVIOUS
        <3> HIDE DEF left
        <3> QED
            BY <1>1, <3>1 DEF Sound
    <2>2. Steps[i].depends_on \subseteq IdsOf(Places)
        BY DEF Sound
    <2>3. IdsOf(Places) \subseteq DOMAIN results \cup IdsOf(left)
        BY DEF IdsOf
    <2>4. i \in Ready
        BY <2>1, <2>2, <2>3 DEF Ready, DependenciesMet
    <2> QED
        BY <2>4
<1>2. CASE left = {}
    <2> DEFINE f == [i \in Places |-> Steps[i].id]
    <2>1. IdsOf(Places) = DOMAIN results
        BY <1>2 DEF IdsOf, TypeInv, ResultsOfSteps
    <2>2. IsFiniteSet(Places) /\ Cardinality(Places) = Len(Steps) /\ Len(Steps) \in Nat
        BY StepsListed DEF TypeInv
    <2>3. f \in Surjection(Places, IdsOf(Places)) /\ f \in Injection(Places, IdsOf(Places))
        BY DEF Surjection, Injection, IsInjective, IdsOf, Sound, UniqueIds
    <2>4. Cardinality(IdsOf(Places)) = Cardinality(Places)
        <3> HIDE DEF f
        <3> QED
            BY <2>2, <2>3, FS_Surjection
    <2> QED
        BY <2>1, <2>2, <2>4 DEF Enough
<1> QED
    BY <1>1, <1>2

LEMMA WellInvStep == TypeInv /\ WellInv /\ [Next]_vars => WellInv'
<1> SUFFICES ASSUME TypeInv, WellInv, [Next]_vars PROVE WellInv'
    OBVIOUS
<1>a. Sound' = Sound /\ Places' = Places /\ faults' = faults
    BY WorldKept, StepsKept
<1> SUFFICES ASSUME Sound, faults = {} PROVE WellInv'
    BY <1>a DEF WellInv
<1>b. /\ row.status # "failed" /\ after # "failed"
      /\ \A i \in Places : /\ task[i].at # "failed"
                           /\ task[i].at = "kill" => task[i].answer # NoAnswer
    BY DEF WellInv
<1>1. CASE LeaveLoop
    <2>1. after' # "failed" /\ row' = row /\ task' = task
        BY <1>1, SoundIsNeverStuck DEF LeaveLoop, NothingReady
    <2> QED
        BY <1>a, <1>b, <2>1 DEF WellInv
<1>2. CASE StartWave
    BY <1>2, <1>a, <1>b DEF StartWave, WellInv
<1>3. CASE AwaitWave
    <2>1. Succeeded = wave
        <3>1. wave \subseteq Places /\ \A i \in wave : task[i].at \in {"ok", "failed"}
            BY <1>3 DEF AwaitWave, EveryTaskEnded, TypeInv, TypeOK
        <3>2. \A i \in Places : task[i].at # "failed"
            BY <1>b
        <3>3. \A i \in wave : task[i].at = "ok"
            BY <3>1, <3>2
        <3> QED
            BY <3>3 DEF Succeeded
    <2>2. after' = "walk" /\ row' = row /\ \A i \in Places : task'[i].at = "none"
        BY <1>3, <2>1 DEF AwaitWave, NoTask
    <2> QED
        BY <1>a, <1>b, <2>2 DEF WellInv
<1>4. CASE Finalize
    <2>1. (row' = row \/ row'.status = after) /\ after' = after /\ task' = task
        BY <1>4 DEF Finalize, TypeInv, RowIsRecord
    <2> QED
        BY <1>a, <1>b, <2>1 DEF WellInv
<1>5. CASE Launch
    <2>1. row'.status = row.status /\ after' = after
        BY <1>5 DEF Launch, TypeInv, RowIsRecord
    <2>2. \A i \in Places : task'[i].at \in {"none", "schedule"}
        BY <1>5 DEF Launch, NoTask
    <2> QED
        BY <1>a, <1>b, <2>1, <2>2 DEF WellInv
<1>6. CASE RunWorkflow \/ Load \/ SaveArrays \/ SaveResults \/ AuditRun \/ UNCHANGED vars
    <2>1. row'.status \in {row.status, "running"} /\ after' = after /\ task' = task
        BY <1>6 DEF RunWorkflow, Load, SaveArrays, SaveResults, AuditRun, vars, TypeInv, RowIsRecord
    <2> QED
        BY <1>a, <1>b, <2>1 DEF WellInv
<1>7. ASSUME NEW i \in Places, TaskStep(i)
      PROVE  WellInv'
    <2>1. row' = row /\ after' = after
        BY <1>7 DEF TaskStep, SchedulePod, ScheduleFails, RunInPod, KillPod
    <2>2. /\ \A j \in Places \ {i} : task'[j] = task[j]
          /\ \/ task'[i].at \in {"exec", "ok"}
             \/ task'[i].at = "kill" /\ task'[i].answer # NoAnswer
        <3>1. CASE SchedulePod(i)
            <4>1. task' = [task EXCEPT ![i].at = "exec"]
                BY <3>1 DEF SchedulePod
            <4>2. task'[i].at = "exec"
                BY <4>1 DEF TypeInv, TypeOK
            <4>3. \A j \in Places \ {i} : task'[j] = task[j]
                BY <4>1 DEF TypeInv, TypeOK
            <4> QED
                BY <4>2, <4>3
        <3>2. ~ScheduleFails(i)
            BY DEF ScheduleFails
        <3>3. CASE RunInPod(i)
            BY <3>3, WorkflowAssumption DEF RunInPod, TypeInv, TypeOK
        <3>4. CASE KillPod(i)
            <4>1. task[i].answer # NoAnswer
                BY <3>4, <1>b DEF KillPod
            <4> QED
                BY <3>4, <4>1 DEF KillPod, AfterAttempt, TypeInv, TypeOK
        <3> QED
            BY <1>7, <3>1, <3>2, <3>3, <3>4 DEF TaskStep
    <2> QED
        BY <1>a, <1>b, <2>1, <2>2 DEF WellInv
<1>8. ~SaveFails /\ ~Crash
    BY DEF SaveFails, Crash
<1> QED
    BY <1>1, <1>2, <1>3, <1>4, <1>5, <1>6, <1>7, <1>8 DEF Next, ExecStep, Over

\* A definition whose steps can be ordered never fails by itself: neither a skipped step
\* nor the order in which a wave ends makes execute_dag take it for stuck.
THEOREM SoundRunCompletesHolds == Spec => []SoundRunCompletes
<1>1. Init => WellInv
    BY DEF Init, WellInv, NoTask
<1>2. WellInv => SoundRunCompletes
    BY DEF WellInv, SoundRunCompletes
<1> QED
    BY TypeInvHolds, WellInvStep, <1>1, <1>2, PTL DEF Spec
=============================================================================
