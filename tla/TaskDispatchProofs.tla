------------------------- MODULE TaskDispatchProofs -------------------------
(***************************************************************************)
(* Proofs about task dispatch, for any machines, phases, coding tasks and    *)
(* bounds, and any interleaving of the calls' statements.                    *)
(*                                                                         *)
(* What an answer or a row says depends on what its call read statements     *)
(* ago, so each invariant carries that reading along with the call.          *)
(***************************************************************************)
EXTENDS TaskDispatch, Extrema, SequenceTheorems, FiniteSetTheorems, TLAPS

Rows == [item: {Own} \cup Phases \cup Coding, status: AnyStatus,
         machine: Machines \cup {NoMachine}]

\* An answer of next_work names a row that its machine took.
HandedTaken ==
    \A a \in handed : tasks[a[2]].machine = a[1] /\ tasks[a[2]].status # "queued"

\* There is a row for each piece of work before the item.
Preceded(item) == \A j \in 1 .. item - 1 : \E u \in Ids : tasks[u].item = j

\* What a call about to insert has read: all that precedes its item.
CallsPreceded ==
    \A m \in Machines :
        /\ call[m].do = "insert" => Preceded(call[m].item)
        /\ call[m].do = "coding" => Preceded(NumPhases + 1)

\* A coding task about to be inserted has no row yet, when nothing can intervene.
CodingFresh ==
    threads = 1 =>
        /\ \A m, n \in Busy : m = n
        /\ \A m \in Machines : call[m].do = "insert" /\ call[m].item \in Coding =>
               \A u \in Ids : tasks[u].item # call[m].item

DispatchInv == TypeOK /\ HandedTaken /\ CallsPreceded /\ PipelineOrder
OnceInv == TypeOK /\ CodingFresh /\ CodingOnce

-----------------------------------------------------------------------------
(* How the rows change: one more at the end, or a row's status and machine.  *)

\* A sequence of rows is a function on 1 .. Len.
LEMMA RowsAreIndexed ==
    ASSUME tasks \in Seq(Rows)
    PROVE  /\ Len(tasks) \in Nat /\ Ids = 1 .. Len(tasks)
           /\ \A t \in Ids : tasks[t] \in Rows
BY LenProperties, ElementOfSeq DEF Ids

\* A new row leaves the others alone.
LEMMA RowAppended ==
    ASSUME tasks \in Seq(Rows), NEW item, NEW status, NEW m,
           NewTask(item, status, m) \in Rows,
           tasks' = Append(tasks, NewTask(item, status, m))
    PROVE  /\ tasks' \in Seq(Rows)
           /\ Len(tasks) \in Nat /\ Ids = 1 .. Len(tasks) /\ Ids' = 1 .. Len(tasks) + 1
           /\ \A t \in Ids : tasks'[t] = tasks[t]
           /\ tasks'[Len(tasks) + 1].item = item
           /\ tasks'[Len(tasks) + 1].status = status
           /\ tasks'[Len(tasks) + 1].machine = m
<1> DEFINE r == NewTask(item, status, m)
<1>1. /\ tasks' \in Seq(Rows)
      /\ Len(tasks) \in Nat /\ Ids = 1 .. Len(tasks) /\ Ids' = 1 .. Len(tasks) + 1
      /\ \A t \in Ids : tasks'[t] = tasks[t]
      /\ tasks'[Len(tasks) + 1] = r
    <2> HIDE DEF r
    <2>1. r \in Rows /\ tasks' = Append(tasks, r)
        BY DEF r
    <2> QED
        BY <2>1, AppendProperties, LenProperties DEF Ids
<1> QED
    BY <1>1 DEF NewTask

\* An update of a row's status, and perhaps its machine, changes no item.
LEMMA RowUpdated ==
    ASSUME tasks \in Seq(Rows), NEW t \in Ids, NEW status \in AnyStatus,
           NEW m \in Machines \cup {NoMachine},
           \/ tasks' = [tasks EXCEPT ![t].status = status, ![t].machine = m]
           \/ tasks' = [tasks EXCEPT ![t].status = status] /\ m = tasks[t].machine
    PROVE  /\ tasks' \in Seq(Rows)
           /\ Ids' = Ids
           /\ \A u \in Ids : tasks'[u].item = tasks[u].item
           /\ \A u \in Ids : u # t => tasks'[u] = tasks[u]
           /\ tasks'[t].status = status /\ tasks'[t].machine = m
<1>1. /\ Len(tasks) \in Nat /\ Ids = 1 .. Len(tasks) /\ tasks \in [1 .. Len(tasks) -> Rows]
      /\ tasks[t] \in Rows
    BY LenProperties, ElementOfSeq DEF Ids
<1> DEFINE r == [item |-> tasks[t].item, status |-> status, machine |-> m]
<1>2. r \in Rows /\ r.item = tasks[t].item /\ r.status = status /\ r.machine = m
    BY <1>1 DEF Rows
<1>3. tasks' = [tasks EXCEPT ![t] = r]
    BY <1>1 DEF Rows
<1> HIDE DEF r
<1>4. tasks' \in [1 .. Len(tasks) -> Rows]
    BY <1>1, <1>2, <1>3
<1>5. tasks' \in Seq(Rows) /\ Ids' = Ids
    BY <1>1, <1>4, SeqDef DEF Ids
<1> QED
    BY <1>1, <1>2, <1>3, <1>5

\* NewTask makes a row.
LEMMA NewTaskIsRow ==
    ASSUME NEW item \in {Own} \cup Phases \cup Coding, NEW status \in AnyStatus,
           NEW m \in Machines \cup {NoMachine}
    PROVE  NewTask(item, status, m) \in Rows
BY DEF NewTask, Rows

-----------------------------------------------------------------------------
(* The types.                                                               *)

\* Another call's locals stay well typed when the rows only grow.
LEMMA CallStaysOK ==
    ASSUME NEW c, CallOK(c), Ids \subseteq Ids'
    PROVE  CallOK(c)'
BY DEF CallOK

\* TypeOK is inductive.
LEMMA TypeStep ==
    ASSUME TypeOK, [Next]_vars
    PROVE  TypeOK'
<1> USE DispatchAssumption
<1>0. tasks \in Seq(Rows) /\ DOMAIN call = Machines /\ \A m \in Machines : CallOK(call[m])
    BY DEF TypeOK, Rows
<1>a. Len(tasks) \in Nat /\ Ids = 1 .. Len(tasks) /\ \A t \in Ids : tasks[t] \in Rows
    BY <1>0, RowsAreIndexed
<1> DEFINE Only(m, c) == call' = [call EXCEPT ![m] = c]
<1>b. ASSUME NEW m \in Machines, NEW c, Only(m, c), CallOK(c)', Ids \subseteq Ids'
      PROVE  DOMAIN call' = Machines /\ \A n \in Machines : CallOK(call[n])'
    <2>1. DOMAIN call' = Machines /\ call'[m] = c /\ \A n \in Machines \ {m} : call'[n] = call[n]
        BY <1>0, <1>b
    <2>2. ASSUME NEW n \in Machines \ {m}
          PROVE  CallOK(call[n])'
        <3>1. PICK d : d = call[n]
            OBVIOUS
        <3>2. CallOK(d)'
            BY <1>0, <1>b, <3>1, CallStaysOK
        <3> QED
            BY <2>1, <3>1, <3>2
    <2>3. CallOK(call[m])'
        BY <1>b, <2>1
    <2> QED
        BY <2>1, <2>2, <2>3
<1>c. CallOK(NoCall)'
    BY DEF CallOK, NoCall
<1>1. CASE CreateTask
    <2>1. PICK m \in Machines \cup {NoMachine} : tasks' = Append(tasks, NewTask(Own, "queued", m))
        BY <1>1 DEF CreateTask
    <2>2. NewTask(Own, "queued", m) \in Rows
        BY NewTaskIsRow DEF AnyStatus
    <2>3. tasks' \in Seq(Rows) /\ Ids \subseteq Ids'
        BY <1>0, <2>1, <2>2, RowAppended
    <2>4. UNCHANGED <<call, commits, threads, handed>>
        BY <1>1 DEF CreateTask
    <2>5. \A n \in Machines : CallOK(call[n])'
        <3>1. ASSUME NEW n \in Machines
              PROVE  CallOK(call[n])'
            <4>1. PICK d : d = call[n]
                OBVIOUS
            <4>2. CallOK(d)'
                BY <1>0, <2>3, <4>1, CallStaysOK
            <4> QED
                BY <2>4, <4>1, <4>2
        <3> QED
            BY <3>1
    <2> QED
        BY <1>0, <2>3, <2>4, <2>5 DEF TypeOK, Rows
<1>2. ASSUME NEW m \in Machines, PickQueued(m)
      PROVE  TypeOK'
    <2>1. UNCHANGED <<tasks, commits, threads, handed>>
        BY <1>2 DEF PickQueued
    <2>2. PICK c : c = IF Servable = {} THEN [do |-> "phases"]
                       ELSE [do |-> "lock", task |-> Min(Servable)]
        OBVIOUS
    <2>3. Servable # {} => Min(Servable) \in Ids
        <3>1. Servable \in SUBSET Nat
            BY <1>a DEF Servable
        <3> QED
            BY <3>1, MinIsLeast DEF Servable
    <2>4. CallOK(c)'
        BY <2>1, <2>2, <2>3 DEF CallOK, Ids
    <2>5. DOMAIN call' = Machines /\ \A n \in Machines : CallOK(call[n])'
        BY <1>2, <1>b, <2>1, <2>2, <2>4 DEF PickQueued, Ids
    <2> QED
        BY <1>0, <2>1, <2>5 DEF TypeOK, Ids
<1>14. ASSUME NEW m \in Machines, QueueUnread(m)
       PROVE  TypeOK'
    <2>1. UNCHANGED <<tasks, commits, threads, handed>>
        BY <1>14 DEF QueueUnread
    <2>2. PICK c : c = [do |-> "phases"]
        OBVIOUS
    <2>3. CallOK(c)'
        BY <2>2 DEF CallOK
    <2>4. DOMAIN call' = Machines /\ \A n \in Machines : CallOK(call[n])'
        BY <1>14, <1>b, <2>1, <2>2, <2>3 DEF QueueUnread, Ids
    <2> QED
        BY <1>0, <2>1, <2>4 DEF TypeOK, Ids
<1>3. ASSUME NEW m \in Machines, LockQueued(m)
      PROVE  TypeOK'
    <2>1. UNCHANGED <<commits, threads>> /\ call[m].do = "lock"
        BY <1>3 DEF LockQueued
    <2>2. PICK t : t = call[m].task /\ t \in Ids
        BY <1>0, <2>1 DEF CallOK
    <2>3. CASE tasks[t].status = "queued"
        <3>1. /\ tasks' = [tasks EXCEPT ![t].status = "running", ![t].machine = m]
              /\ handed' = handed \cup {<<m, t>>}
              /\ Only(m, NoCall)
            BY <1>3, <2>2, <2>3 DEF LockQueued, Return
        <3>2. tasks' \in Seq(Rows) /\ Ids' = Ids
            BY <1>0, <2>2, <3>1, RowUpdated DEF AnyStatus
        <3>3. DOMAIN call' = Machines /\ \A n \in Machines : CallOK(call[n])'
            BY <1>b, <1>c, <3>1, <3>2
        <3> QED
            BY <2>1, <2>2, <3>1, <3>2, <3>3 DEF TypeOK, Rows
    <2>4. CASE tasks[t].status # "queued"
        <3>1. Only(m, [do |-> "phases"]) /\ UNCHANGED <<tasks, handed>>
            BY <1>3, <2>2, <2>4 DEF LockQueued
        <3>2. CallOK([do |-> "phases"])'
            BY DEF CallOK
        <3>3. DOMAIN call' = Machines /\ \A n \in Machines : CallOK(call[n])'
            BY <1>b, <3>1, <3>2 DEF Ids
        <3> QED
            BY <1>0, <2>1, <3>1, <3>3 DEF TypeOK, Ids
    <2> QED
        BY <2>3, <2>4
<1>4. ASSUME NEW m \in Machines, ReadPhases(m)
      PROVE  TypeOK'
    <2> DEFINE covered == ItemsIn({"completed", "running"})
    <2>1. UNCHANGED <<tasks, commits, threads, handed>>
        BY <1>4 DEF ReadPhases
    <2>2. PICK c : c = IF BlueprintDone(covered) THEN [do |-> "coding"]
                       ELSE [do |-> "insert", item |-> Min(Phases \ covered)]
        OBVIOUS
    <2>3. ~BlueprintDone(covered) => Min(Phases \ covered) \in Phases
        <3>1. Phases \ covered \in SUBSET Nat
            BY DEF Phases
        <3> QED
            BY <3>1, MinIsLeast DEF BlueprintDone
    <2>4. CallOK(c)'
        <3> HIDE DEF covered
        <3> QED
            BY <2>2, <2>3 DEF CallOK
    <2>5. DOMAIN call' = Machines /\ \A n \in Machines : CallOK(call[n])'
        BY <1>4, <1>b, <2>1, <2>2, <2>4 DEF ReadPhases, Ids
    <2> QED
        BY <1>0, <2>1, <2>5 DEF TypeOK, Ids
<1>5. ASSUME NEW m \in Machines, ReadCoding(m)
      PROVE  TypeOK'
    <2>1. UNCHANGED <<tasks, commits, threads, handed>>
        BY <1>5 DEF ReadCoding
    <2>2. PICK c : c = IF Coding \subseteq Dispatched THEN NoCall
                       ELSE [do |-> "insert", item |-> Min(Coding \ Dispatched)]
        OBVIOUS
    <2>3. ~(Coding \subseteq Dispatched) => Min(Coding \ Dispatched) \in Coding
        <3>1. Coding \ Dispatched \in SUBSET Nat
            BY DEF Coding
        <3> QED
            BY <3>1, MinIsLeast
    <2>4. CallOK(c)'
        BY <1>c, <2>2, <2>3 DEF CallOK
    <2>5. DOMAIN call' = Machines /\ \A n \in Machines : CallOK(call[n])'
        BY <1>5, <1>b, <2>1, <2>2, <2>4 DEF ReadCoding, Ids
    <2> QED
        BY <1>0, <2>1, <2>5 DEF TypeOK, Ids
<1>6. ASSUME NEW m \in Machines, InsertWork(m)
      PROVE  TypeOK'
    <2>1. /\ UNCHANGED <<commits, threads>>
          /\ tasks' = Append(tasks, NewTask(call[m].item, "running", m))
          /\ handed' = handed \cup {<<m, Len(tasks) + 1>>}
          /\ Only(m, NoCall)
        BY <1>6 DEF InsertWork, Return
    <2>2. NewTask(call[m].item, "running", m) \in Rows
        BY <1>0, <1>6, NewTaskIsRow DEF InsertWork, CallOK, AnyStatus
    <2>3. tasks' \in Seq(Rows) /\ Ids \subseteq Ids' /\ Len(tasks) + 1 \in Ids'
        BY <1>0, <1>a, <2>1, <2>2, RowAppended
    <2>4. DOMAIN call' = Machines /\ \A n \in Machines : CallOK(call[n])'
        BY <1>b, <1>c, <2>1, <2>3
    <2> QED
        BY <2>1, <2>3, <2>4 DEF TypeOK, Rows
<1>7. ASSUME NEW m \in Machines, SubmitRead(m)
      PROVE  TypeOK'
    <2>1. UNCHANGED <<tasks, commits, threads, handed>>
        BY <1>7 DEF SubmitRead
    <2>2. PICK t \in Ids, exit \in {"completed", "failed"} :
              Only(m, [do |-> "result", task |-> t, exit |-> exit, machine |-> tasks[t].machine])
        BY <1>7 DEF SubmitRead
    <2>3. PICK c : c = [do |-> "result", task |-> t, exit |-> exit, machine |-> tasks[t].machine]
        OBVIOUS
    <2>4. CallOK(c)'
        BY <1>a, <2>1, <2>3 DEF CallOK, Ids, Rows
    <2>5. DOMAIN call' = Machines /\ \A n \in Machines : CallOK(call[n])'
        BY <1>b, <2>1, <2>2, <2>3, <2>4 DEF Ids
    <2> QED
        BY <1>0, <2>1, <2>5 DEF TypeOK, Ids
<1>8. ASSUME NEW m \in Machines, SubmitUpdate(m)
      PROVE  TypeOK'
    <2>1. UNCHANGED <<commits, threads, handed>> /\ call[m].do = "result"
        BY <1>8 DEF SubmitUpdate
    <2>2. PICK t : t = call[m].task /\ t \in Ids
        BY <1>0, <2>1 DEF CallOK
    <2>3. tasks' = [tasks EXCEPT ![t].status = call[m].exit]
        BY <1>8, <2>2 DEF SubmitUpdate
    <2>4. tasks' \in Seq(Rows) /\ Ids' = Ids
        <3>1. call[m].exit \in AnyStatus
            BY <1>0, <2>1 DEF CallOK, AnyStatus
        <3>2. tasks[t].machine \in Machines \cup {NoMachine}
            BY <1>a, <2>2 DEF Rows
        <3> QED
            BY <1>0, <2>2, <2>3, <3>1, <3>2, RowUpdated
    <2>5. PICK c : c = IF call[m].exit = "completed" /\ call[m].machine # NoMachine
                       THEN [do |-> "gate", task |-> call[m].task, machine |-> call[m].machine]
                       ELSE NoCall
        OBVIOUS
    <2>6. CallOK(c)'
        BY <1>0, <1>c, <2>1, <2>2, <2>4, <2>5 DEF CallOK
    <2>7. DOMAIN call' = Machines /\ \A n \in Machines : CallOK(call[n])'
        BY <1>8, <1>b, <2>4, <2>5, <2>6 DEF SubmitUpdate
    <2> QED
        BY <2>1, <2>4, <2>7 DEF TypeOK, Rows
<1>9. ASSUME NEW m \in Machines, CheckCommit(m)
      PROVE  TypeOK'
    <2>1. UNCHANGED <<tasks, commits, threads, handed>> /\ call[m].do = "gate"
        BY <1>9 DEF CheckCommit
    <2>a. PICK found \in {HasCommit(call[m].machine), TRUE} :
              call' = [call EXCEPT ![m] =
                  IF found THEN [do |-> "next", task |-> call[m].task, machine |-> call[m].machine]
                  ELSE NoCall]
        BY <1>9 DEF CheckCommit
    <2>2. PICK c : c = IF found THEN [do |-> "next", task |-> call[m].task, machine |-> call[m].machine]
                       ELSE NoCall
        OBVIOUS
    <2>3. CallOK(c)'
        BY <1>0, <1>c, <2>1, <2>2 DEF CallOK, Ids
    <2>4. DOMAIN call' = Machines /\ \A n \in Machines : CallOK(call[n])'
        BY <1>b, <2>a, <2>1, <2>2, <2>3 DEF Ids
    <2> QED
        BY <1>0, <2>1, <2>4 DEF TypeOK, Ids
<1>10. ASSUME NEW m \in Machines, AutoCreate(m)
       PROVE  TypeOK'
    <2>1. /\ UNCHANGED <<commits, threads, handed>> /\ call[m].do = "next"
          /\ Only(m, NoCall)
        BY <1>10 DEF AutoCreate, Return
    <2>2. PICK item : item = PhaseAfter(tasks[call[m].task].item)
        OBVIOUS
    <2>3. tasks' \in Seq(Rows) /\ Ids \subseteq Ids'
        <3>1. CASE UNCHANGED tasks
            BY <1>0, <3>1 DEF Ids
        <3>2. CASE item \in Phases /\ tasks' = Append(tasks, NewTask(item, "queued", call[m].machine))
            <4>1. NewTask(item, "queued", call[m].machine) \in Rows
                BY <1>0, <2>1, <3>2, NewTaskIsRow DEF CallOK, AnyStatus
            <4> QED
                BY <1>0, <1>a, <3>2, <4>1, RowAppended
        <3> QED
            BY <1>10, <2>2, <3>1, <3>2 DEF AutoCreate
    <2>4. DOMAIN call' = Machines /\ \A n \in Machines : CallOK(call[n])'
        BY <1>b, <1>c, <2>1, <2>3
    <2>5. handed' \subseteq Machines \X Ids'
        BY <2>1, <2>3 DEF TypeOK
    <2> QED
        BY <2>1, <2>3, <2>4, <2>5 DEF TypeOK, Rows
<1>11. ASSUME NEW m \in Machines, Commit(m)
       PROVE  TypeOK'
    BY <1>11 DEF Commit, TypeOK, CallOK, Ids
<1>12. ASSUME NEW m \in Machines, CallFails(m)
       PROVE  TypeOK'
    <2>1. UNCHANGED <<tasks, commits, threads, handed>> /\ Only(m, NoCall)
        BY <1>12 DEF CallFails, Return
    <2>2. DOMAIN call' = Machines /\ \A n \in Machines : CallOK(call[n])'
        BY <1>b, <1>c, <2>1 DEF Ids
    <2> QED
        BY <1>0, <2>1, <2>2 DEF TypeOK, Ids
<1>13. CASE UNCHANGED vars
    BY <1>13 DEF vars, TypeOK, CallOK, Ids
<1> QED
    BY <1>1, <1>2, <1>14, <1>3, <1>4, <1>5, <1>6, <1>7, <1>8, <1>9, <1>10, <1>11, <1>12, <1>13
    DEF Next, NextWork, SubmitResult

\* An empty table and no calls are typed.
LEMMA TypeCorrectInit ==
    Init => TypeOK
BY DispatchAssumption DEF Init, TypeOK, CallOK, NoCall, Ids

\* The rows, the calls in progress and the answers keep their types.
THEOREM TypeCorrect == Spec => []TypeOK
<1>1. Init => TypeOK
    BY TypeCorrectInit
<1>2. TypeOK /\ [Next]_vars => TypeOK'
    BY TypeStep
<1> QED
    BY <1>1, <1>2, PTL DEF Spec

-----------------------------------------------------------------------------
(* Who was handed what, and in which order.                                 *)

\* What the rows' types say.
LEMMA TypedRows ==
    ASSUME TypeOK
    PROVE  /\ tasks \in Seq(Rows) /\ DOMAIN call = Machines
           /\ Len(tasks) \in Nat /\ Ids = 1 .. Len(tasks)
           /\ \A t \in Ids : tasks[t] \in Rows
           /\ handed \subseteq Machines \X Ids
<1>1. tasks \in Seq(Rows) /\ DOMAIN call = Machines /\ handed \subseteq Machines \X Ids
    BY DEF TypeOK, Rows
<1> QED
    BY <1>1, RowsAreIndexed

\* What precedes an item still does when rows are added or updated.
LEMMA PrecededStays ==
    ASSUME NEW item, Preceded(item), Ids \subseteq Ids',
           \A u \in Ids : tasks'[u].item = tasks[u].item
    PROVE  Preceded(item)'
BY DEF Preceded

\* What one step does to the rows and the answers: it adds a row that what it is for
\* precedes, or takes a queued row, or gives a row that is taken a status.
RowStep ==
    \/ UNCHANGED <<tasks, handed>>
    \/ \E item \in {Own} \cup Phases \cup Coding, status \in {"queued", "running"},
          m \in Machines \cup {NoMachine} :
           /\ tasks' = Append(tasks, NewTask(item, status, m))
           /\ Preceded(item)
           /\ \/ handed' = handed
              \/ status = "running" /\ handed' = handed \cup {<<m, Len(tasks) + 1>>}
    \/ \E t \in Ids, m \in Machines :
           /\ tasks[t].status = "queued"
           /\ tasks' = [tasks EXCEPT ![t].status = "running", ![t].machine = m]
           /\ handed' = handed \cup {<<m, t>>}
    \/ \E t \in Ids, status \in {"completed", "failed"} :
           /\ tasks' = [tasks EXCEPT ![t].status = status]
           /\ handed' = handed

\* Every step is one of those.
LEMMA NextIsRowStep ==
    ASSUME DispatchInv, [Next]_vars
    PROVE  RowStep
<1> USE DispatchAssumption
<1>0. /\ Len(tasks) \in Nat /\ Ids = 1 .. Len(tasks) /\ \A t \in Ids : tasks[t] \in Rows
      /\ \A m \in Machines : CallOK(call[m])
    BY TypedRows DEF DispatchInv, TypeOK
<1>1. CASE CreateTask
    <2>1. Preceded(Own)
        BY DEF Preceded, Own
    <2> QED
        BY <1>1, <2>1 DEF CreateTask, RowStep
<1>2. ASSUME NEW m \in Machines, LockQueued(m)
      PROVE  RowStep
    <2>1. call[m].task \in Ids
        BY <1>0, <1>2 DEF LockQueued, CallOK
    <2> QED
        BY <1>2, <2>1 DEF LockQueued, RowStep
<1>3. ASSUME NEW m \in Machines, InsertWork(m)
      PROVE  RowStep
    <2>1. call[m].item \in Phases \cup Coding /\ Preceded(call[m].item)
        BY <1>0, <1>3 DEF InsertWork, CallOK, DispatchInv, CallsPreceded
    <2> QED
        BY <1>3, <2>1 DEF InsertWork, RowStep
<1>4. ASSUME NEW m \in Machines, SubmitUpdate(m)
      PROVE  RowStep
    <2>1. call[m].task \in Ids /\ call[m].exit \in {"completed", "failed"}
        BY <1>0, <1>4 DEF SubmitUpdate, CallOK
    <2> QED
        BY <1>4, <2>1 DEF SubmitUpdate, RowStep
<1>5. ASSUME NEW m \in Machines, AutoCreate(m)
      PROVE  RowStep
    <2>1. PICK t : t = call[m].task /\ t \in Ids /\ call[m].machine \in Machines
        BY <1>0, <1>5 DEF AutoCreate, CallOK
    <2>2. PICK item : item = tasks[t].item
        OBVIOUS
    <2>3. CASE item \in Phases /\ PhaseAfter(item) \in Phases
        <3>1. Preceded(PhaseAfter(item))
            <4> SUFFICES ASSUME NEW j \in 1 .. item
                         PROVE  \E u \in Ids : tasks[u].item = j
                BY <2>3 DEF Preceded, PhaseAfter, Phases
            <4>1. CASE j = item
                BY <2>1, <2>2, <4>1
            <4>2. CASE j \in 1 .. item - 1
                BY <1>0, <2>1, <2>2, <4>2 DEF DispatchInv, PipelineOrder
            <4> QED
                BY <2>3, <4>1, <4>2 DEF Phases
        <3>2. /\ tasks' = Append(tasks, NewTask(PhaseAfter(item), "queued", call[m].machine))
              /\ handed' = handed
            BY <1>5, <2>1, <2>2, <2>3 DEF AutoCreate
        <3> QED
            BY <2>1, <2>3, <3>1, <3>2 DEF RowStep
    <2>4. CASE ~(item \in Phases /\ PhaseAfter(item) \in Phases)
        BY <1>5, <2>1, <2>2, <2>4 DEF AutoCreate, RowStep
    <2> QED
        BY <2>3, <2>4
<1>6. ASSUME NEW m \in Machines,
             PickQueued(m) \/ QueueUnread(m) \/ ReadPhases(m) \/ ReadCoding(m) \/ SubmitRead(m)
             \/ CheckCommit(m) \/ Commit(m) \/ CallFails(m)
      PROVE  RowStep
    BY <1>6 DEF PickQueued, QueueUnread, ReadPhases, ReadCoding, SubmitRead, CheckCommit, Commit, CallFails,
                RowStep
<1>7. CASE UNCHANGED vars
    BY <1>7 DEF vars, RowStep
<1> QED
    BY <1>1, <1>2, <1>3, <1>4, <1>5, <1>6, <1>7 DEF Next, NextWork, SubmitResult

\* A row step keeps the answers true and the pipeline in order.
LEMMA RowStepKeeps ==
    ASSUME TypeOK, HandedTaken, PipelineOrder, RowStep
    PROVE  /\ HandedTaken' /\ PipelineOrder'
           /\ Ids \subseteq Ids' /\ \A u \in Ids : tasks'[u].item = tasks[u].item
<1>0. /\ tasks \in Seq(Rows) /\ Len(tasks) \in Nat /\ Ids = 1 .. Len(tasks)
      /\ \A t \in Ids : tasks[t] \in Rows
      /\ handed \subseteq Machines \X Ids
    BY TypedRows
<1>1. CASE UNCHANGED <<tasks, handed>>
    BY <1>1 DEF HandedTaken, PipelineOrder, Ids
<1>2. ASSUME NEW item \in {Own} \cup Phases \cup Coding, NEW status \in {"queued", "running"},
             NEW m \in Machines \cup {NoMachine},
             tasks' = Append(tasks, NewTask(item, status, m)), Preceded(item),
             \/ handed' = handed
             \/ status = "running" /\ handed' = handed \cup {<<m, Len(tasks) + 1>>}
      PROVE  /\ HandedTaken' /\ PipelineOrder'
             /\ Ids \subseteq Ids' /\ \A u \in Ids : tasks'[u].item = tasks[u].item
    <2>1. NewTask(item, status, m) \in Rows
        BY NewTaskIsRow DEF AnyStatus
    <2>2. /\ Ids' = 1 .. Len(tasks) + 1
          /\ \A t \in Ids : tasks'[t] = tasks[t]
          /\ tasks'[Len(tasks) + 1].item = item
          /\ tasks'[Len(tasks) + 1].status = status
          /\ tasks'[Len(tasks) + 1].machine = m
        BY <1>0, <1>2, <2>1, RowAppended
    <2>3. HandedTaken'
        BY <1>0, <1>2, <2>2 DEF HandedTaken
    <2>4. ASSUME NEW t \in Ids', NEW j \in 1 .. tasks'[t].item - 1
          PROVE  \E u \in 1 .. t - 1 : tasks'[u].item = j
        <3>1. CASE t \in Ids
            <4>1. PICK u \in 1 .. t - 1 : tasks[u].item = j
                BY <2>2, <2>4, <3>1 DEF PipelineOrder
            <4>2. u \in Ids
                BY <1>0, <3>1
            <4> QED
                BY <2>2, <4>1, <4>2
        <3>2. CASE t = Len(tasks) + 1
            <4>1. PICK u \in Ids : tasks[u].item = j
                BY <1>2, <2>2, <2>4, <3>2 DEF Preceded
            <4> QED
                BY <1>0, <2>2, <3>2, <4>1
        <3> QED
            BY <1>0, <2>2, <3>1, <3>2
    <2> QED
        BY <1>0, <2>2, <2>3, <2>4 DEF PipelineOrder
<1>3. ASSUME NEW t \in Ids, NEW m \in Machines, tasks[t].status = "queued",
             tasks' = [tasks EXCEPT ![t].status = "running", ![t].machine = m],
             handed' = handed \cup {<<m, t>>}
      PROVE  /\ HandedTaken' /\ PipelineOrder'
             /\ Ids \subseteq Ids' /\ \A u \in Ids : tasks'[u].item = tasks[u].item
    <2>1. /\ Ids' = Ids
          /\ \A u \in Ids : tasks'[u].item = tasks[u].item
          /\ \A u \in Ids : u # t => tasks'[u] = tasks[u]
          /\ tasks'[t].status = "running" /\ tasks'[t].machine = m
        BY <1>0, <1>3, RowUpdated DEF AnyStatus
    <2>2. \A a \in handed : a[2] \in Ids /\ a[2] # t
        BY <1>0, <1>3 DEF HandedTaken
    <2>3. HandedTaken'
        <3>1. ASSUME NEW a \in handed'
              PROVE  tasks'[a[2]].machine = a[1] /\ tasks'[a[2]].status # "queued"
            <4>1. CASE a \in handed
                <5>1. tasks'[a[2]] = tasks[a[2]]
                    BY <2>1, <2>2, <4>1
                <5> QED
                    BY <4>1, <5>1 DEF HandedTaken
            <4>2. CASE a = <<m, t>>
                BY <2>1, <4>2
            <4> QED
                BY <1>3, <4>1, <4>2
        <3> QED
            BY <3>1 DEF HandedTaken
    <2>4. PipelineOrder'
        BY <1>0, <2>1 DEF PipelineOrder
    <2> QED
        BY <2>1, <2>3, <2>4
<1>4. ASSUME NEW t \in Ids, NEW status \in {"completed", "failed"},
             tasks' = [tasks EXCEPT ![t].status = status], handed' = handed
      PROVE  /\ HandedTaken' /\ PipelineOrder'
             /\ Ids \subseteq Ids' /\ \A u \in Ids : tasks'[u].item = tasks[u].item
    <2>0. tasks[t].machine \in Machines \cup {NoMachine}
        BY <1>0 DEF Rows
    <2>1. /\ Ids' = Ids
          /\ \A u \in Ids : tasks'[u].item = tasks[u].item
          /\ \A u \in Ids : u # t => tasks'[u] = tasks[u]
          /\ tasks'[t].status = status /\ tasks'[t].machine = tasks[t].machine
        BY <1>0, <1>4, <2>0, RowUpdated DEF AnyStatus
    <2>2. \A a \in handed : a[2] \in Ids
        BY <1>0
    <2>3. HandedTaken'
        BY <1>4, <2>1, <2>2 DEF HandedTaken
    <2>4. PipelineOrder'
        BY <1>0, <2>1 DEF PipelineOrder
    <2> QED
        BY <2>1, <2>3, <2>4
<1> QED
    BY <1>1, <1>2, <1>3, <1>4 DEF RowStep

\* What a call has read to be taken still is, and what it reads now is taken.
LEMMA CallsPrecededStep ==
    ASSUME DispatchInv, [Next]_vars,
           Ids \subseteq Ids', \A u \in Ids : tasks'[u].item = tasks[u].item
    PROVE  CallsPreceded'
<1> USE DispatchAssumption
<1>0. /\ Ids = 1 .. Len(tasks) /\ DOMAIN call = Machines
      /\ \A t \in Ids : tasks[t] \in Rows
    BY TypedRows DEF DispatchInv
<1>a. \A item : Preceded(item) => Preceded(item)'
    BY PrecededStays
<1>b. ASSUME NEW m \in Machines, NEW c, call' = [call EXCEPT ![m] = c],
             c.do = "insert" => Preceded(c.item),
             c.do = "coding" => Preceded(NumPhases + 1)
      PROVE  CallsPreceded'
    <2>1. call'[m] = c /\ \A n \in Machines \ {m} : call'[n] = call[n]
        BY <1>0, <1>b
    <2> QED
        BY <1>a, <1>b, <2>1 DEF DispatchInv, CallsPreceded
<1>1. CASE UNCHANGED call
    BY <1>a, <1>1 DEF DispatchInv, CallsPreceded
<1>2. ASSUME NEW m \in Machines, ReadPhases(m)
      PROVE  CallsPreceded'
    <2> DEFINE covered == ItemsIn({"completed", "running"})
    <2>1. \A j \in covered : \E u \in Ids : tasks[u].item = j
        BY DEF ItemsIn
    <2>2. CASE BlueprintDone(covered)
        <3>1. Preceded(NumPhases + 1)
            <4> HIDE DEF covered
            <4> QED
                BY <2>1, <2>2 DEF BlueprintDone, Preceded, Phases
        <3>2. call' = [call EXCEPT ![m] = [do |-> "coding"]]
            BY <1>2, <2>2 DEF ReadPhases
        <3> QED
            BY <1>b, <3>1, <3>2
    <2>3. CASE ~BlueprintDone(covered)
        <3> DEFINE k == Min(Phases \ covered)
        <3>1. k \in Phases \ covered /\ \A j \in Phases \ covered : k <= j
            <4>1. Phases \ covered \in SUBSET Nat /\ Phases \ covered # {}
                BY <2>3 DEF BlueprintDone, Phases
            <4> HIDE DEF covered
            <4> QED
                BY <4>1, MinIsLeast
        <3>2. call' = [call EXCEPT ![m] = [do |-> "insert", item |-> k]]
            BY <1>2, <2>3 DEF ReadPhases
        <3> HIDE DEF k, covered
        <3>3. \A j \in 1 .. k - 1 : j \in covered
            BY <3>1 DEF Phases
        <3>4. Preceded(k)
            BY <2>1, <3>3 DEF Preceded
        <3> QED
            BY <1>b, <3>2, <3>4
    <2> QED
        BY <2>2, <2>3
<1>3. ASSUME NEW m \in Machines, ReadCoding(m)
      PROVE  CallsPreceded'
    <2>1. \A j \in Dispatched : \E u \in Ids : tasks[u].item = j
        BY DEF Dispatched, ItemsIn
    <2>2. CASE Coding \subseteq Dispatched
        <3>1. call' = [call EXCEPT ![m] = NoCall]
            BY <1>3, <2>2 DEF ReadCoding
        <3> QED
            BY <1>b, <3>1 DEF NoCall
    <2>3. CASE ~(Coding \subseteq Dispatched)
        <3> DEFINE k == Min(Coding \ Dispatched)
        <3>1. k \in Coding \ Dispatched /\ \A j \in Coding \ Dispatched : k <= j
            <4>1. Coding \ Dispatched \in SUBSET Nat /\ Coding \ Dispatched # {}
                BY <2>3 DEF Coding
            <4> QED
                BY <4>1, MinIsLeast
        <3>2. call' = [call EXCEPT ![m] = [do |-> "insert", item |-> k]]
            BY <1>3, <2>3 DEF ReadCoding
        <3> HIDE DEF k
        <3>3. Preceded(NumPhases + 1)
            BY <1>3 DEF ReadCoding, DispatchInv, CallsPreceded
        <3>4. \A j \in 1 .. k - 1 : j \in Dispatched \/ j \in 1 .. NumPhases
            BY <3>1 DEF Coding
        <3>5. Preceded(k)
            BY <2>1, <3>3, <3>4 DEF Preceded
        <3> QED
            BY <1>b, <3>2, <3>5
    <2> QED
        BY <2>2, <2>3
<1>4. ASSUME NEW m \in Machines,
             PickQueued(m) \/ QueueUnread(m) \/ LockQueued(m) \/ InsertWork(m) \/ SubmitRead(m) \/ SubmitUpdate(m)
             \/ CheckCommit(m) \/ AutoCreate(m) \/ CallFails(m)
      PROVE  CallsPreceded'
    <2>1. UNCHANGED call \/ \E c : /\ call' = [call EXCEPT ![m] = c]
                                   /\ c.do \notin {"insert", "coding"}
        BY <1>4 DEF PickQueued, QueueUnread, LockQueued, InsertWork, SubmitRead, SubmitUpdate, CheckCommit,
                    AutoCreate, CallFails, Return, NoCall
    <2> QED
        BY <1>1, <1>b, <2>1
<1>5. CASE CreateTask \/ (\E m \in Machines : Commit(m)) \/ UNCHANGED vars
    BY <1>1, <1>5 DEF CreateTask, Commit, vars
<1> QED
    BY <1>2, <1>3, <1>4, <1>5 DEF Next, NextWork, SubmitResult

\* DispatchInv is inductive.
LEMMA DispatchInvHolds == Spec => []DispatchInv
<1>1. Init => DispatchInv
    BY TypeCorrectInit DEF Init, DispatchInv, HandedTaken, CallsPreceded, PipelineOrder, NoCall, Ids
<1>2. DispatchInv /\ [Next]_vars => DispatchInv'
    BY TypeStep, NextIsRowStep, RowStepKeeps, CallsPrecededStep DEF DispatchInv
<1> QED
    BY <1>1, <1>2, PTL DEF Spec

\* No two machines are answered with one task.
THEOREM LockedOnceHolds == Spec => []LockedOnce
<1>1. DispatchInv => LockedOnce
    BY DEF DispatchInv, HandedTaken, LockedOnce
<1> QED
    BY <1>1, DispatchInvHolds, PTL

\* Work is given out in dependency order.
THEOREM PipelineOrderHolds == Spec => []PipelineOrder
<1>1. DispatchInv => PipelineOrder
    BY DEF DispatchInv
<1> QED
    BY <1>1, DispatchInvHolds, PTL

-----------------------------------------------------------------------------
(* One thread: a coding task is given out once.                             *)

\* On one thread, a thread is free only when no call is in progress.
LEMMA NoneBusy ==
    ASSUME threads = 1, ThreadFree
    PROVE  Busy = {}
<1>1. IsFiniteSet(Busy)
    <2>1. Busy \subseteq Machines /\ IsFiniteSet(Machines)
        BY DispatchAssumption DEF Busy
    <2> QED
        BY <2>1, FS_Subset
<1>2. Cardinality(Busy) < 1 /\ Cardinality(Busy) \in Nat
    BY <1>1, FS_CardinalityType DEF ThreadFree
<1> QED
    BY <1>1, <1>2, FS_EmptySet

\* A step that adds no row for a coding task, and leaves at most one call, that is
\* not about to insert one that has a row, keeps OnceInv.
LEMMA OnceKept ==
    ASSUME OnceInv, TypeOK', UNCHANGED threads,
           Ids \subseteq Ids', \A u \in Ids : tasks'[u].item = tasks[u].item,
           \A u \in Ids' \ Ids : tasks'[u].item \notin Coding,
           threads = 1 => \A m, n \in Busy' : m = n,
           \A m \in Machines : threads = 1 /\ call'[m].do = "insert" /\ call'[m].item \in Coding =>
               \A u \in Ids : tasks[u].item # call'[m].item
    PROVE  OnceInv'
<1>1. \A u \in Ids' : tasks'[u].item \in Coding => u \in Ids
    OBVIOUS
<1>2. CodingOnce'
    BY <1>1 DEF OnceInv, CodingOnce
<1>3. CodingFresh'
    BY <1>1 DEF CodingFresh
<1> QED
    BY <1>2, <1>3 DEF OnceInv

\* OnceInv is inductive: on one thread nothing adds a row between dispatched_task_ids
\* and the INSERT.
LEMMA OnceInvStep ==
    ASSUME OnceInv, [Next]_vars
    PROVE  OnceInv'
<1> USE DispatchAssumption
<1>0. /\ TypeOK /\ tasks \in Seq(Rows) /\ Len(tasks) \in Nat /\ Ids = 1 .. Len(tasks)
      /\ DOMAIN call = Machines
      /\ \A t \in Ids : tasks[t] \in Rows
      /\ \A m \in Machines : CallOK(call[m])
    BY TypedRows DEF OnceInv, TypeOK
<1>a. TypeOK'
    BY TypeStep DEF OnceInv
<1>b. Phases \cap Coding = {} /\ Own \notin Coding
    BY DEF Phases, Coding, Own
<1>c. ASSUME NEW m \in Machines, NEW c, call' = [call EXCEPT ![m] = c]
      PROVE  /\ call'[m] = c /\ \A n \in Machines \ {m} : call'[n] = call[n]
             /\ Busy' \subseteq Busy \cup {m} /\ (c = NoCall => Busy' = Busy \ {m})
    BY <1>0, <1>c DEF Busy
<1>d. \A m \in Machines : call[m].do # "idle" => m \in Busy
    BY DEF Busy, NoCall
\* The calls that read, update a status or return.
<1>1. ASSUME NEW m \in Machines, NEW c, call' = [call EXCEPT ![m] = c], UNCHANGED threads,
             Ids' = Ids, \A u \in Ids : tasks'[u].item = tasks[u].item,
             m \in Busy \/ ThreadFree,
             c.do = "insert" /\ c.item \in Coding => \A u \in Ids : tasks[u].item # c.item
      PROVE  OnceInv'
    <2>a. call'[m] = c /\ (\A n \in Machines \ {m} : call'[n] = call[n]) /\ Busy' \subseteq Busy \cup {m}
        BY <1>1, <1>c
    <2>b. threads = 1 => Busy \subseteq {m}
        <3>1. threads = 1 /\ m \in Busy => Busy \subseteq {m}
            BY DEF OnceInv, CodingFresh
        <3>2. threads = 1 /\ ThreadFree => Busy = {}
            BY NoneBusy
        <3> QED
            BY <1>1, <3>1, <3>2
    <2>1. threads = 1 => \A k, n \in Busy' : k = n
        BY <2>a, <2>b
    <2>2. ASSUME NEW n \in Machines, threads = 1, call'[n].do = "insert", call'[n].item \in Coding
          PROVE  \A u \in Ids : tasks[u].item # call'[n].item
        BY <1>1, <2>a, <2>2 DEF OnceInv, CodingFresh
    <2> QED
        BY <1>1, <1>a, <2>1, <2>2, OnceKept
\* The calls that add a row and return.
<1>2. ASSUME NEW m \in Machines, call' = [call EXCEPT ![m] = NoCall], m \in Busy,
             UNCHANGED threads,
             Ids \subseteq Ids', \A u \in Ids : tasks'[u].item = tasks[u].item,
             \A u \in Ids' \ Ids : tasks'[u].item \notin Coding
      PROVE  OnceInv'
    <2>a. Busy' = Busy \ {m}
        BY <1>2, <1>c
    <2>b. threads = 1 => Busy \subseteq {m}
        BY <1>2 DEF OnceInv, CodingFresh
    <2>1. threads = 1 => Busy' = {}
        BY <2>a, <2>b
    <2>2. \A n \in Machines : call'[n].do = "insert" => n \in Busy'
        BY DEF Busy, NoCall
    <2> QED
        BY <1>2, <1>a, <2>1, <2>2, OnceKept
<1>3. CASE CreateTask
    <2>1. PICK m \in Machines \cup {NoMachine} : tasks' = Append(tasks, NewTask(Own, "queued", m))
        BY <1>3 DEF CreateTask
    <2>2. /\ Ids' = 1 .. Len(tasks) + 1 /\ \A t \in Ids : tasks'[t] = tasks[t]
          /\ tasks'[Len(tasks) + 1].item = Own
        BY <1>0, <2>1, NewTaskIsRow, RowAppended DEF AnyStatus
    <2>3. UNCHANGED <<call, threads>> /\ (threads = 1 => Busy = {} /\ Busy' = {})
        BY <1>3, NoneBusy DEF CreateTask, Busy
    <2>4. \A u \in Ids' \ Ids : tasks'[u].item \notin Coding
        BY <1>0, <1>b, <2>2
    <2>5. \A n \in Machines : call'[n].do = "insert" => n \in Busy'
        BY DEF Busy, NoCall
    <2> QED
        BY <1>0, <1>a, <2>2, <2>3, <2>4, <2>5, OnceKept
<1>4. ASSUME NEW m \in Machines,
             PickQueued(m) \/ QueueUnread(m) \/ SubmitRead(m) \/ CheckCommit(m) \/ CallFails(m)
      PROVE  OnceInv'
    <2>1. /\ UNCHANGED <<tasks, threads>> /\ (m \in Busy \/ ThreadFree)
          /\ \E c : call' = [call EXCEPT ![m] = c] /\ c.do # "insert"
        BY <1>4, <1>d DEF PickQueued, QueueUnread, SubmitRead, CheckCommit, CallFails, Return, NoCall, Busy
    <2> QED
        BY <1>1, <2>1 DEF Ids
<1>5. ASSUME NEW m \in Machines, LockQueued(m)
      PROVE  OnceInv'
    <2>1. call[m].task \in Ids /\ m \in Busy /\ UNCHANGED threads
        BY <1>0, <1>d, <1>5 DEF LockQueued, CallOK
    <2>2. /\ Ids' = Ids /\ \A u \in Ids : tasks'[u].item = tasks[u].item
        BY <1>0, <1>5, <2>1, RowUpdated DEF LockQueued, AnyStatus, Ids
    <2>3. \E c : call' = [call EXCEPT ![m] = c] /\ c.do # "insert"
        <3>1. CASE tasks[call[m].task].status = "queued"
            BY <1>5, <3>1 DEF LockQueued, Return, NoCall
        <3>2. CASE tasks[call[m].task].status # "queued"
            <4> DEFINE c == [do |-> "phases"]
            <4>1. call' = [call EXCEPT ![m] = c]
                BY <1>5, <3>2 DEF LockQueued
            <4>2. c.do # "insert"
                OBVIOUS
            <4> HIDE DEF c
            <4> QED
                BY <4>1, <4>2
        <3> QED
            BY <3>1, <3>2
    <2> QED
        BY <1>1, <2>1, <2>2, <2>3
<1>6. ASSUME NEW m \in Machines, SubmitUpdate(m)
      PROVE  OnceInv'
    <2>1. /\ call[m].task \in Ids /\ m \in Busy /\ UNCHANGED threads
          /\ call[m].exit \in AnyStatus
        BY <1>0, <1>d, <1>6 DEF SubmitUpdate, CallOK, AnyStatus
    <2>2. /\ Ids' = Ids /\ \A u \in Ids : tasks'[u].item = tasks[u].item
        <3>1. tasks[call[m].task].machine \in Machines \cup {NoMachine}
            BY <1>0, <2>1 DEF Rows
        <3> QED
            BY <1>0, <1>6, <2>1, <3>1, RowUpdated DEF SubmitUpdate
    <2>3. \E c : call' = [call EXCEPT ![m] = c] /\ c.do # "insert"
        <3> DEFINE gate == [do |-> "gate", task |-> call[m].task, machine |-> call[m].machine]
        <3>1. call' = [call EXCEPT ![m] = gate] \/ call' = [call EXCEPT ![m] = NoCall]
            BY <1>6 DEF SubmitUpdate
        <3>2. gate.do # "insert" /\ NoCall.do # "insert"
            BY DEF NoCall
        <3> HIDE DEF gate
        <3> QED
            BY <3>1, <3>2
    <2> QED
        BY <1>1, <2>1, <2>2, <2>3
<1>7. ASSUME NEW m \in Machines, ReadPhases(m)
      PROVE  OnceInv'
    <2> DEFINE covered == ItemsIn({"completed", "running"})
    <2>1. UNCHANGED <<tasks, threads>> /\ m \in Busy
        BY <1>d, <1>7 DEF ReadPhases
    <2>2. PICK c : /\ call' = [call EXCEPT ![m] = c]
                   /\ c = IF BlueprintDone(covered) THEN [do |-> "coding"]
                          ELSE [do |-> "insert", item |-> Min(Phases \ covered)]
        BY <1>7 DEF ReadPhases
    <2>3. c.do = "insert" => c.item \in Phases
        <3>1. Phases \ covered \in SUBSET Nat
            BY DEF Phases
        <3>2. ~BlueprintDone(covered) => Min(Phases \ covered) \in Phases
            BY <3>1, MinIsLeast DEF BlueprintDone
        <3> HIDE DEF covered
        <3> QED
            BY <2>2, <3>2
    <2> QED
        BY <1>1, <1>b, <2>1, <2>2, <2>3 DEF Ids
<1>8. ASSUME NEW m \in Machines, ReadCoding(m)
      PROVE  OnceInv'
    <2>1. UNCHANGED <<tasks, threads>> /\ m \in Busy
        BY <1>d, <1>8 DEF ReadCoding
    <2>2. PICK c : /\ call' = [call EXCEPT ![m] = c]
                   /\ c = IF Coding \subseteq Dispatched THEN NoCall
                          ELSE [do |-> "insert", item |-> Min(Coding \ Dispatched)]
        BY <1>8 DEF ReadCoding
    <2>3. c.do = "insert" => c.item \in Coding \ Dispatched
        <3>1. Coding \ Dispatched \in SUBSET Nat
            BY DEF Coding
        <3>2. ~(Coding \subseteq Dispatched) => Min(Coding \ Dispatched) \in Coding \ Dispatched
            BY <3>1, MinIsLeast
        <3> QED
            BY <2>2, <3>2 DEF NoCall
    <2>4. \A u \in Ids : tasks[u].item \in Dispatched
        BY <1>0 DEF Dispatched, ItemsIn, Rows
    <2>5. c.do = "insert" /\ c.item \in Coding => \A u \in Ids : tasks[u].item # c.item
        BY <2>3, <2>4
    <2> QED
        BY <1>1, <2>1, <2>2, <2>5 DEF Ids
<1>9. ASSUME NEW m \in Machines, AutoCreate(m)
      PROVE  OnceInv'
    <2>1. /\ UNCHANGED threads /\ m \in Busy /\ call' = [call EXCEPT ![m] = NoCall]
          /\ call[m].machine \in Machines
        BY <1>0, <1>d, <1>9 DEF AutoCreate, Return, CallOK
    <2>2. PICK item : item = PhaseAfter(tasks[call[m].task].item)
        OBVIOUS
    <2>3. CASE UNCHANGED tasks
        <3>1. Ids' = Ids
            BY <2>3 DEF Ids
        <3> QED
            BY <1>2, <2>1, <2>3, <3>1
    <2>4. CASE item \in Phases /\ tasks' = Append(tasks, NewTask(item, "queued", call[m].machine))
        <3>1. /\ Ids' = 1 .. Len(tasks) + 1 /\ \A t \in Ids : tasks'[t] = tasks[t]
              /\ tasks'[Len(tasks) + 1].item = item
            BY <1>0, <2>1, <2>4, NewTaskIsRow, RowAppended DEF AnyStatus
        <3>2. Ids \subseteq Ids' /\ \A u \in Ids' \ Ids : tasks'[u].item \notin Coding
            BY <1>0, <1>b, <2>4, <3>1
        <3>3. \A u \in Ids : tasks'[u].item = tasks[u].item
            BY <3>1
        <3> QED
            BY <1>2, <2>1, <3>2, <3>3
    <2>5. UNCHANGED tasks
          \/ /\ item \in Phases
             /\ tasks' = Append(tasks, NewTask(item, "queued", call[m].machine))
        BY <1>9, <2>2 DEF AutoCreate
    <2> QED
        BY <2>3, <2>4, <2>5
<1>10. ASSUME NEW m \in Machines, InsertWork(m)
       PROVE  OnceInv'
    <2>1. /\ UNCHANGED threads /\ m \in Busy /\ call' = [call EXCEPT ![m] = NoCall]
          /\ tasks' = Append(tasks, NewTask(call[m].item, "running", m))
          /\ call[m].do = "insert" /\ call[m].item \in Phases \cup Coding
        BY <1>0, <1>d, <1>10 DEF InsertWork, Return, CallOK
    <2>2. /\ Ids' = 1 .. Len(tasks) + 1 /\ \A t \in Ids : tasks'[t] = tasks[t]
          /\ tasks'[Len(tasks) + 1].item = call[m].item
        BY <1>0, <2>1, NewTaskIsRow, RowAppended DEF AnyStatus
    <2>3. CASE call[m].item \notin Coding
        <3>1. Ids \subseteq Ids' /\ \A u \in Ids' \ Ids : tasks'[u].item \notin Coding
            BY <1>0, <2>2, <2>3
        <3>2. \A u \in Ids : tasks'[u].item = tasks[u].item
            BY <2>2
        <3> QED
            BY <1>2, <2>1, <3>1, <3>2
    <2>4. CASE call[m].item \in Coding
        <3>1. threads = 1 => \A u \in Ids : tasks[u].item # call[m].item
            BY <2>1, <2>4 DEF OnceInv, CodingFresh
        <3>2. CodingOnce'
            BY <1>0, <2>1, <2>2, <3>1 DEF OnceInv, CodingOnce
        <3>a. Busy' = Busy \ {m}
            BY <2>1, <1>c
        <3>b. threads = 1 => Busy \subseteq {m}
            BY <2>1 DEF OnceInv, CodingFresh
        <3>3. threads = 1 => Busy' = {}
            BY <3>a, <3>b
        <3>4. \A n \in Machines : call'[n].do = "insert" => n \in Busy'
            BY DEF Busy, NoCall
        <3> QED
            BY <1>a, <2>1, <3>2, <3>3, <3>4 DEF OnceInv, CodingFresh
    <2> QED
        BY <2>3, <2>4
<1>11. CASE (\E m \in Machines : Commit(m)) \/ UNCHANGED vars
    <2>1. UNCHANGED <<tasks, call, threads>>
        BY <1>11 DEF Commit, vars
    <2> QED
        BY <1>a, <2>1 DEF OnceInv, CodingFresh, CodingOnce, Busy, Ids
<1> QED
    BY <1>3, <1>4, <1>5, <1>6, <1>7, <1>8, <1>9, <1>10, <1>11 DEF Next, NextWork, SubmitResult

\* On a runtime with one thread no coding task is given out twice.
THEOREM CodingOnceHolds == Spec => []CodingOnce
<1>1. Init => OnceInv
    BY TypeCorrectInit DEF Init, OnceInv, CodingFresh, CodingOnce, Busy, NoCall, Ids
<1>2. OnceInv /\ [Next]_vars => OnceInv'
    BY OnceInvStep
<1>3. OnceInv => CodingOnce
    BY DEF OnceInv
<1> QED
    BY <1>1, <1>2, <1>3, PTL DEF Spec
=============================================================================
