---------------------------- MODULE TaskDispatch ----------------------------
(***************************************************************************)
(* Task dispatch of one tenant: routes/next_work.rs hands work to machines  *)
(* that ask for it, routes/tasks.rs takes results and queues the phase      *)
(* after, routes/instruct.rs queues sub-tasks.                              *)
(*                                                                         *)
(* No handler awaits anything that can suspend it between its SQL           *)
(* statements, and none runs in a transaction.  A call holds its runtime    *)
(* thread from its first statement to its last; each statement is a step,   *)
(* and the statements of calls on other threads come in between.            *)
(***************************************************************************)
EXTENDS Integers, Sequences, FiniteSets, FiniteSetsExt

CONSTANTS
    Machines,       \* the tenant's active machines, each with an agent that calls
    NumPhases,      \* the phases of the blueprint pipeline (7 in the code)
    NumCoding,      \* the entries of CODING_TASKS (15 in the code)
    MaxTasks,       \* bound on rows of tasks
    MaxOwn,         \* bound on the rows that are a caller's own
    MaxThreads      \* bound on the worker threads of the tokio runtime

ASSUME DispatchAssumption ==
    /\ IsFiniteSet(Machines)
    /\ NumPhases \in Nat /\ NumCoding \in Nat
    /\ MaxTasks \in Nat /\ MaxOwn \in Nat /\ MaxThreads \in Nat \ {0}

\* A piece of work is a number: a phase by its place in the pipeline, then a coding
\* task by its place in CODING_TASKS.  0 is an instruction of a caller's own.
Phases == 1 .. NumPhases
Coding == NumPhases + 1 .. NumPhases + NumCoding
Own == 0
NoMachine == "none"
NoCall == [do |-> "idle"]

VARIABLES
    tasks,      \* the rows of tasks in the order of created_at
    call,       \* the call each machine's agent has in progress: its next step and locals
    commits,    \* the machines with a git_commit entry in audit_entries
    threads,    \* the worker threads of this runtime, fixed at its start
    handed      \* the answers of next_work so far: <<machine, task>>

vars == <<tasks, call, commits, threads, handed>>

Ids == DOMAIN tasks
Busy == {m \in Machines : call[m] # NoCall}
ItemsIn(statuses) == {tasks[t].item : t \in {u \in Ids : tasks[u].status \in statuses}}
AnyStatus == {"queued", "running", "completed", "failed"}

NewTask(item, status, m) == [item |-> item, status |-> status, machine |-> m]

Init ==
    /\ tasks = <<>>
    /\ call = [m \in Machines |-> NoCall]
    /\ commits = {}
    /\ threads \in 1 .. MaxThreads
    /\ handed = {}

Return(m) == call' = [call EXCEPT ![m] = NoCall]
ThreadFree == Cardinality(Busy) < threads

-----------------------------------------------------------------------------
(* Broken variants of the definitions below.                                *)

\* next_work that serves only rows no machine is named in.
ServableUnassigned == {t \in Ids : tasks[t].status = "queued" /\ tasks[t].machine = NoMachine}

\* next_work that updates the row it selected whatever its status is by now.
LockQueuedUnchecked(m) ==
    /\ call[m].do = "lock"
    /\ LET t == call[m].task IN
        /\ tasks' = [tasks EXCEPT ![t].status = "running", ![t].machine = m]
        /\ handed' = handed \cup {<<m, t>>}
    /\ Return(m)
    /\ UNCHANGED <<commits, threads>>

\* next_work that counts only what is running as taken.
DispatchedRunning == ItemsIn({"running"})

\* next_work that starts coding when any phase is taken.
BlueprintDoneAny(covered) == Phases \cap covered # {}

-----------------------------------------------------------------------------
(* create_task, and inject of instruct.rs in mode "task", which names a      *)
(* machine.                                                                 *)

CreateTask ==
    /\ ThreadFree
    /\ Len(tasks) < MaxTasks /\ Cardinality({t \in Ids : tasks[t].item = Own}) < MaxOwn
    /\ \E m \in Machines \cup {NoMachine} : tasks' = Append(tasks, NewTask(Own, "queued", m))
    /\ UNCHANGED <<call, commits, threads, handed>>

-----------------------------------------------------------------------------
(* next_work.                                                               *)

Servable == {t \in Ids : tasks[t].status = "queued"}

\* The SELECT of the oldest queued row.
PickQueued(m) ==
    /\ call[m] = NoCall
    /\ ThreadFree
    /\ call' = [call EXCEPT ![m] = IF Servable = {} THEN [do |-> "phases"]
                                   ELSE [do |-> "lock", task |-> Min(Servable)]]
    /\ UNCHANGED <<tasks, commits, threads, handed>>

\* The SELECT fails: its error is dropped (.ok()), as if nothing were queued.
QueueUnread(m) ==
    /\ call[m] = NoCall
    /\ ThreadFree
    /\ call' = [call EXCEPT ![m] = [do |-> "phases"]]
    /\ UNCHANGED <<tasks, commits, threads, handed>>

\* The UPDATE ... WHERE status = 'queued'.  When it finds the row taken the call
\* goes on as if nothing were queued.
LockQueued(m) ==
    /\ call[m].do = "lock"
    /\ LET t == call[m].task IN
        IF tasks[t].status = "queued"
        THEN /\ tasks' = [tasks EXCEPT ![t].status = "running", ![t].machine = m]
             /\ handed' = handed \cup {<<m, t>>}
             /\ Return(m)
        ELSE /\ call' = [call EXCEPT ![m] = [do |-> "phases"]]
             /\ UNCHANGED <<tasks, handed>>
    /\ UNCHANGED <<commits, threads>>

\* A phase that is running counts as done: the next one need not wait for it.
BlueprintDone(covered) == Phases \subseteq covered

\* completed_phases, and the first phase not among them.
ReadPhases(m) ==
    /\ call[m].do = "phases"
    /\ LET covered == ItemsIn({"completed", "running"}) IN
        call' = [call EXCEPT ![m] = IF BlueprintDone(covered) THEN [do |-> "coding"]
                                    ELSE [do |-> "insert", item |-> Min(Phases \ covered)]]
    /\ UNCHANGED <<tasks, commits, threads, handed>>

\* dispatched_task_ids: a coding task is given out once, failed or not.
Dispatched == ItemsIn(AnyStatus)

\* The first coding task not among them; without one, the answer is "idle".
ReadCoding(m) ==
    /\ call[m].do = "coding"
    /\ call' = [call EXCEPT ![m] = IF Coding \subseteq Dispatched THEN NoCall
                                   ELSE [do |-> "insert", item |-> Min(Coding \ Dispatched)]]
    /\ UNCHANGED <<tasks, commits, threads, handed>>

\* The INSERT of a row that is running from the start.
InsertWork(m) ==
    /\ call[m].do = "insert"
    /\ Len(tasks) < MaxTasks
    /\ tasks' = Append(tasks, NewTask(call[m].item, "running", m))
    /\ handed' = handed \cup {<<m, Len(tasks) + 1>>}
    /\ Return(m)
    /\ UNCHANGED <<commits, threads>>

-----------------------------------------------------------------------------
(* submit_result, by any agent of the tenant for any task of the tenant: a   *)
(* row in any status takes a result, the first or a later one.               *)

\* The SELECT of the row's machine.
SubmitRead(m) ==
    /\ call[m] = NoCall
    /\ ThreadFree
    /\ \E t \in Ids, exit \in {"completed", "failed"} :
           call' = [call EXCEPT ![m] = [do |-> "result", task |-> t, exit |-> exit,
                                        machine |-> tasks[t].machine]]
    /\ UNCHANGED <<tasks, commits, threads, handed>>

\* The UPDATE, then the audit entry and the message.  Only a completed task that
\* had a machine can have a task after it.
SubmitUpdate(m) ==
    /\ call[m].do = "result"
    /\ tasks' = [tasks EXCEPT ![call[m].task].status = call[m].exit]
    /\ call' = [call EXCEPT ![m] =
           IF call[m].exit = "completed" /\ call[m].machine # NoMachine
           THEN [do |-> "gate", task |-> call[m].task, machine |-> call[m].machine]
           ELSE NoCall]
    /\ UNCHANGED <<commits, threads, handed>>

\* CD2: a git_commit entry of the machine with ts > created_at.  Both are texts:
\* ts has a T between date and time where created_at has a space, so that every
\* commit of the row's day is greater.  The model stays within one day.
HasCommit(m) == m \in commits

\* A query that fails counts as a commit (unwrap_or(true)).
CheckCommit(m) ==
    /\ call[m].do = "gate"
    /\ \E found \in {HasCommit(call[m].machine), TRUE} :
           call' = [call EXCEPT ![m] =
               IF found THEN [do |-> "next", task |-> call[m].task, machine |-> call[m].machine]
               ELSE NoCall]
    /\ UNCHANGED <<tasks, commits, threads, handed>>

PhaseAfter(item) == item + 1

\* The INSERT of the phase after a phase, queued, and named in the answer.
AutoCreate(m) ==
    /\ call[m].do = "next"
    /\ LET item == tasks[call[m].task].item IN
        IF item \in Phases /\ PhaseAfter(item) \in Phases
        THEN /\ Len(tasks) < MaxTasks
             /\ tasks' = Append(tasks, NewTask(PhaseAfter(item), "queued", call[m].machine))
        ELSE UNCHANGED tasks
    /\ Return(m)
    /\ UNCHANGED <<commits, threads, handed>>

-----------------------------------------------------------------------------
(* What goes on around the calls.                                           *)

\* git::commit writes its git_commit entry.
Commit(m) ==
    /\ ThreadFree
    /\ m \notin commits
    /\ commits' = commits \cup {m}
    /\ UNCHANGED <<tasks, call, threads, handed>>

\* A statement fails, or the gateway goes down with the call.
CallFails(m) ==
    /\ call[m] # NoCall
    /\ Return(m)
    /\ UNCHANGED <<tasks, commits, threads, handed>>

NextWork(m) ==
    PickQueued(m) \/ QueueUnread(m) \/ LockQueued(m) \/ ReadPhases(m) \/ ReadCoding(m) \/ InsertWork(m)
SubmitResult(m) == SubmitRead(m) \/ SubmitUpdate(m) \/ CheckCommit(m) \/ AutoCreate(m)

Next ==
    \/ CreateTask
    \/ \E m \in Machines : NextWork(m) \/ SubmitResult(m) \/ Commit(m) \/ CallFails(m)

Spec == Init /\ [][Next]_vars

\* A call runs on to its end; every agent asks for work again and again (the loop
\* of its instructions), and the database does not refuse it every time.
FairSpec ==
    /\ Spec
    /\ \A m \in Machines :
        /\ WF_vars(call[m] # NoCall /\ (NextWork(m) \/ SubmitResult(m) \/ CallFails(m)))
        /\ SF_vars(PickQueued(m)) /\ SF_vars(LockQueued(m))

-----------------------------------------------------------------------------
(* Properties.                                                              *)

CallOK(c) ==
    /\ c.do \in {"idle", "lock", "phases", "coding", "insert", "result", "gate", "next"}
    /\ c.do \in {"lock", "result", "gate", "next"} => c.task \in Ids
    /\ c.do = "insert" => c.item \in Phases \cup Coding
    /\ c.do = "result" => c.exit \in {"completed", "failed"} /\ c.machine \in Machines \cup {NoMachine}
    /\ c.do \in {"gate", "next"} => c.machine \in Machines

TypeOK ==
    /\ tasks \in Seq([item: {Own} \cup Phases \cup Coding, status: AnyStatus,
                      machine: Machines \cup {NoMachine}])
    /\ DOMAIN call = Machines /\ \A m \in Machines : CallOK(call[m])
    /\ commits \subseteq Machines
    /\ threads \in 1 .. MaxThreads
    /\ handed \subseteq Machines \X Ids

\* next_work never answers two machines with one task, however their statements
\* interleave (the UPDATE ... WHERE status = 'queued').
LockedOnce ==
    \A a, b \in handed : a[2] = b[2] => a[1] = b[1]

\* Work is given out in dependency order: before a row for a phase or a coding task
\* there is one for each that precedes it, whoever made the rows and whatever
\* results were submitted, twice, late or never (next_work.rs: "in dependency order").
PipelineOrder ==
    \A t \in Ids : \A j \in 1 .. tasks[t].item - 1 : \E u \in 1 .. t - 1 : tasks[u].item = j

\* On a runtime with one thread a coding task is given out once
\* (next_work.rs, dispatched_task_ids).
CodingOnce ==
    threads = 1 => \A t, u \in Ids : tasks[t].item = tasks[u].item /\ tasks[t].item \in Coding => t = u

\* A queued task is taken sooner or later, whoever it was queued by or for.
QueueDrains ==
    \A t \in 1 .. MaxTasks : (t \in Ids /\ tasks[t].status = "queued") ~>
                             (t \in Ids /\ tasks[t].status # "queued")

\* Each agent gets a different task (next_work.rs: "locked, no double assignment"):
\* no two machines are running rows of one phase or coding task.
NoDoubleAssignment ==
    \A t, u \in Ids :
        tasks[t].status = "running" /\ tasks[u].status = "running"
        /\ tasks[t].machine # tasks[u].machine => tasks[t].item = Own \/ tasks[t].item # tasks[u].item
=============================================================================
