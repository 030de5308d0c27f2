--------------------------- MODULE OversightProofs --------------------------
(***************************************************************************)
(* Proofs about those who oversee the agents: the watchdog, for any          *)
(* machines, tasks, commands and window, and the operator with the           *)
(* administration, for any requests at once, any roles and any images.       *)
(*                                                                         *)
(* The watchdog climbs its ladder rung by rung because the level in memory   *)
(* counts the ultimata issued since the last good score, but for the one in  *)
(* the making; of the arithmetic of dedication.rs nothing is used.  What the *)
(* operator is told is true because tables only grow: rows are never         *)
(* removed, only marked, and no image loses its build.                       *)
(***************************************************************************)
EXTENDS Watchdog, Operator, Extrema, SequenceTheorems, FiniteSetTheorems, TLAPS

\* The ultimata a machine has got, the one in the making included.
Reached(m) == IF m = issuing THEN level[m] + 1 ELSE level[m]

\* The counter is the number of low scores, and the level that of the ultimata.
Ladder ==
    \A m \in Machines :
        /\ count[m] = decline[m].lows
        /\ decline[m].issued = 1 .. Reached(m)
        /\ m = issuing => level[m] <= 2

\* An escalation in the making has its row; without faults a directive has one.
OnRecord ==
    /\ at = "escalating" => level[issuing] = 2 /\ 3 \in recorded[issuing]
    /\ faults = {} => \A m \in Machines : level[m] >= 2 => 2 \in recorded[m]

WatchdogInv == TypeOK /\ Ladder /\ UltimatumEarned /\ OnRecord /\ EscalationIsRecorded

-----------------------------------------------------------------------------
(* The rungs.                                                               *)

\* Capped counters stay in their range.
LEMMA OneMore ==
    ASSUME NEW n \in 0 .. CountCap
    PROVE  /\ Min({n + 1, CountCap}) \in 0 .. CountCap
           /\ n <= Min({n + 1, CountCap})
<1>1. CountCap = 7
    BY DEF CountCap, Threshold
<1>2. {n + 1, 7} \subseteq Nat /\ {n + 1, 7} # {}
    BY <1>1
<1>3. /\ Min({n + 1, 7}) \in {n + 1, 7}
      /\ \A j \in {n + 1, 7} : Min({n + 1, 7}) <= j
    BY <1>2, MinIsLeast
<1>4. PICK x : x = Min({n + 1, 7})
    OBVIOUS
<1>5. x \in {n + 1, 7} /\ x <= 7
    BY <1>3, <1>4
<1>6. x \in 0 .. 7 /\ n <= x
    BY <1>1, <1>5
<1> QED
    BY <1>1, <1>4, <1>6

\* When an ultimatum is due it is the one after the level (monitor_cycle's if and else
\* if in the order of the levels).
LEMMA NextRung ==
    ASSUME NEW m \in Machines, level[m] \in 0 .. 3, count'[m] \in 0 .. CountCap, Due(m) # {}
    PROVE  /\ Min(Due(m)) = level[m] + 1
           /\ level[m] <= 2
           /\ count'[m] >= Threshold[level[m] + 1]
<1>1. Due(m) \subseteq Nat
    BY DEF Due
<1>2. /\ Min(Due(m)) \in Due(m)
      /\ \A j \in Due(m) : Min(Due(m)) <= j
    BY <1>1, MinIsLeast
<1>3. PICK k \in 1 .. 3 : k = Min(Due(m)) /\ count'[m] >= Threshold[k] /\ level[m] < k
    BY <1>2 DEF Due
<1>4. count'[m] \in Int /\ level[m] \in Int /\ level[m] + 1 \in 1 .. 3
    BY <1>3 DEF CountCap, Threshold
<1>5. Threshold[level[m] + 1] <= Threshold[k]
    BY <1>3, <1>4 DEF Threshold
<1>6. Threshold[level[m] + 1] \in Int /\ Threshold[k] \in Int
    BY <1>3, <1>4 DEF Threshold
<1>7. count'[m] >= Threshold[level[m] + 1]
    BY <1>3, <1>4, <1>5, <1>6
<1>8. level[m] + 1 \in Due(m)
    BY <1>4, <1>7 DEF Due
<1> QED
    BY <1>2, <1>3, <1>4, <1>7, <1>8

-----------------------------------------------------------------------------
(* The steps.                                                               *)

LEMMA InitSound == WatchdogInit => WatchdogInv
<1> SUFFICES ASSUME WatchdogInit
             PROVE  WatchdogInv
    OBVIOUS
<1>1. TypeOK
    <2>1. 0 \in 0 .. CountCap
        BY DEF CountCap, Threshold
    <2>2. \A m \in Machines : log[m] \in Seq(Texts) /\ Len(log[m]) <= Window
        BY WatchdogAssumption DEF WatchdogInit
    <2> QED
        BY <2>1, <2>2 DEF WatchdogInit, TypeOK
<1>2. Ladder
    <2>1. \A m \in Machines : Reached(m) = 0
        BY WatchdogAssumption DEF WatchdogInit, Reached
    <2>2. 1 .. 0 = {}
        OBVIOUS
    <2> QED
        BY <2>1, <2>2, WatchdogAssumption DEF WatchdogInit, Ladder
<1>3. UltimatumEarned
    BY DEF WatchdogInit, UltimatumEarned
<1>4. OnRecord /\ EscalationIsRecorded
    BY DEF WatchdogInit, OnRecord, EscalationIsRecorded
<1> QED
    BY <1>1, <1>2, <1>3, <1>4 DEF WatchdogInv

\* The steps that leave the ladder and the tables alone: those of the agents, the cycle
\* between two rows, a cycle that fails.
LEMMA OffTheLadder ==
    ASSUME WatchdogInv, TypeOK',
           at' = "escalating" => at = "escalating",
           UNCHANGED <<faults, issuing, count, level, tables, decline>>
    PROVE  WatchdogInv'
<1>1. Ladder'
    BY DEF WatchdogInv, Ladder, Reached
<1>2. UltimatumEarned'
    BY DEF WatchdogInv, UltimatumEarned
<1>3. OnRecord' /\ EscalationIsRecorded'
    BY DEF WatchdogInv, OnRecord, EscalationIsRecorded, tables
<1> QED
    BY <1>1, <1>2, <1>3 DEF WatchdogInv

\* exec_command keeps the last entries of a machine.
LEMMA ExecSound ==
    ASSUME WatchdogInv, NEW m \in Machines, Exec(m)
    PROVE  WatchdogInv'
<1>1. PICK c \in Commands : log' = [log EXCEPT ![m] = Keep(@, Payload(c))]
    BY DEF Exec
<1>2. Payload(c) \in Texts
    BY WatchdogAssumption DEF Payload
<1>3. ASSUME NEW n \in Machines
      PROVE  log'[n] \in Seq(Texts) /\ Len(log'[n]) <= Window
    BY <1>1, <1>2, <1>3, WatchdogAssumption DEF WatchdogInv, TypeOK, Keep
<1>4. TypeOK'
    BY <1>3 DEF WatchdogInv, TypeOK, Exec, memory, tables
<1> QED
    BY <1>4, OffTheLadder DEF Exec, memory, tables

\* A low score: the count and the level keep in step, and the ultimatum is the next.
LEMMA SinkSound ==
    ASSUME WatchdogInv, NEW m \in Machines, at = "cycle", Sink(m),
           rows' \subseteq Tasks, UNCHANGED <<world, tables>>
    PROVE  WatchdogInv'
<1> DEFINE lows == Min({count[m] + 1, CountCap})
<1>1. /\ issuing = NoMachine /\ NoMachine \notin Machines
      /\ count \in [Machines -> 0 .. CountCap] /\ level \in [Machines -> 0 .. 3]
      /\ decline \in [Machines -> [lows : 0 .. CountCap, issued : SUBSET (1 .. 3)]]
    BY WatchdogAssumption DEF WatchdogInv, TypeOK
<1>2. /\ count[m] = decline[m].lows
      /\ \A n \in Machines : decline[n].issued = 1 .. level[n]
    BY <1>1 DEF WatchdogInv, Ladder, Reached
<1>3. lows \in 0 .. CountCap /\ count[m] <= lows
    BY <1>1, OneMore
<1> HIDE DEF lows
<1>4. /\ count' = [count EXCEPT ![m] = lows] /\ count'[m] = lows
      /\ level' = level
    BY <1>1 DEF Sink, lows
<1>5. CASE Due(m) = {}
    <2>1. /\ decline' = [decline EXCEPT ![m].lows = lows]
          /\ at' = at /\ issuing' = issuing
        BY <1>2, <1>5 DEF Sink, lows
    <2>2. TypeOK'
        BY <1>1, <1>3, <1>4, <2>1 DEF WatchdogInv, TypeOK, world, tables
    <2>3. Ladder'
        BY <1>1, <1>2, <1>4, <2>1 DEF WatchdogInv, Ladder, Reached
    <2>4. UltimatumEarned'
        <3> SUFFICES ASSUME NEW n \in Machines, NEW k \in decline'[n].issued
                     PROVE  decline'[n].lows >= Threshold[k] /\ 1 .. k \subseteq decline'[n].issued
            BY DEF UltimatumEarned
        <3>1. decline'[n].issued = decline[n].issued /\ decline[n].lows <= decline'[n].lows
            BY <1>1, <1>2, <1>3, <2>1 DEF CountCap, Threshold
        <3>2. decline[n].lows >= Threshold[k] /\ 1 .. k \subseteq decline[n].issued /\ k \in 1 .. 3
            BY <1>1, <3>1 DEF WatchdogInv, UltimatumEarned
        <3>3. decline[n].lows \in Int /\ decline'[n].lows \in Int /\ Threshold[k] \in Int
            BY <1>1, <1>3, <2>1, <3>2 DEF CountCap, Threshold
        <3> QED
            BY <3>1, <3>2, <3>3
    <2>5. OnRecord' /\ EscalationIsRecorded'
        BY <1>4, <2>1 DEF WatchdogInv, OnRecord, EscalationIsRecorded, world, tables
    <2> QED
        BY <2>2, <2>3, <2>4, <2>5 DEF WatchdogInv
<1>6. CASE Due(m) # {}
    <2>1. /\ Min(Due(m)) = level[m] + 1
          /\ level[m] <= 2
          /\ lows >= Threshold[level[m] + 1]
        BY <1>1, <1>3, <1>4, <1>6, NextRung
    <2>2. /\ decline' = [decline EXCEPT ![m] = [lows |-> lows,
                                                issued |-> @.issued \cup {level[m] + 1}]]
          /\ at' = "recording" /\ issuing' = m
        BY <1>2, <1>6, <2>1 DEF Sink, lows
    <2>3. decline[m].issued \cup {level[m] + 1} = 1 .. (level[m] + 1)
        BY <1>1, <1>2, <2>1
    <2>4. /\ decline' = [decline EXCEPT ![m] =
                            [lows |-> lows, issued |-> 1 .. (level[m] + 1)]]
          /\ 1 .. (level[m] + 1) \in SUBSET (1 .. 3)
        <3>1. decline' = [decline EXCEPT ![m] =
                            [lows |-> lows, issued |-> decline[m].issued \cup {level[m] + 1}]]
            BY <1>1, <2>2
        <3>2. level[m] \in 0 .. 2
            BY <1>1, <2>1
        <3>3. 1 .. (level[m] + 1) \in SUBSET (1 .. 3)
            BY <3>2
        <3> QED
            BY <2>3, <3>1, <3>3, Zenon
    <2>5. TypeOK'
        <3>1. decline' \in [Machines -> [lows : 0 .. CountCap, issued : SUBSET (1 .. 3)]]
            BY <1>1, <1>3, <2>4
        <3>2. count' \in [Machines -> 0 .. CountCap] /\ level' \in [Machines -> 0 .. 3]
            BY <1>1, <1>3, <1>4
        <3> QED
            BY <1>1, <2>2, <3>1, <3>2 DEF WatchdogInv, TypeOK, world, tables
    <2>6. Ladder'
        <3>1. ASSUME NEW n \in Machines, n # m
              PROVE  /\ count'[n] = decline'[n].lows
                     /\ decline'[n].issued = 1 .. level[n]
            BY <1>1, <1>2, <1>4, <2>4, <3>1 DEF WatchdogInv, Ladder
        <3>2. count'[m] = decline'[m].lows /\ decline'[m].issued = 1 .. (level[m] + 1)
            BY <1>1, <1>4, <2>4
        <3> QED
            BY <1>4, <2>1, <2>2, <3>1, <3>2 DEF Ladder, Reached
    <2>7. UltimatumEarned'
        <3> SUFFICES ASSUME NEW n \in Machines, NEW k \in decline'[n].issued
                     PROVE  decline'[n].lows >= Threshold[k] /\ 1 .. k \subseteq decline'[n].issued
            BY DEF UltimatumEarned
        <3>1. CASE n # m
            BY <2>4, <3>1 DEF WatchdogInv, UltimatumEarned
        <3>2. CASE n = m
            <4>1. k \in 1 .. (level[m] + 1) /\ level[m] \in 0 .. 2
                BY <1>1, <2>1, <2>4, <3>2
            <4>2. Threshold[k] <= Threshold[level[m] + 1]
                BY <4>1 DEF Threshold
            <4>3. Threshold[k] \in Int /\ Threshold[level[m] + 1] \in Int /\ lows \in Int
                BY <1>3, <4>1 DEF CountCap, Threshold
            <4>4. lows >= Threshold[k]
                BY <2>1, <4>2, <4>3
            <4>5. decline'[m] = [lows |-> lows, issued |-> 1 .. (level[m] + 1)]
                BY <1>1, <2>4
            <4>6. 1 .. k \subseteq 1 .. (level[m] + 1)
                BY <4>1
            <4> QED
                BY <3>2, <4>4, <4>5, <4>6
        <3> QED
            BY <3>1, <3>2
    <2>8. OnRecord' /\ EscalationIsRecorded'
        BY <1>4, <2>2 DEF WatchdogInv, OnRecord, EscalationIsRecorded, world, tables
    <2> QED
        BY <2>5, <2>6, <2>7, <2>8 DEF WatchdogInv
<1> QED
    BY <1>5, <1>6

\* A good score takes the machine off the ladder.
LEMMA RecoverSound ==
    ASSUME WatchdogInv, NEW m \in Machines, at = "cycle", Recover(m),
           rows' \subseteq Tasks, UNCHANGED <<at, issuing, world, tables>>
    PROVE  WatchdogInv'
<1>1. TypeOK'
    BY DEF WatchdogInv, TypeOK, Recover, world, tables, CountCap, Threshold
<1>2. Ladder'
    BY WatchdogAssumption DEF WatchdogInv, TypeOK, Ladder, Reached, Recover
<1>3. UltimatumEarned'
    BY DEF WatchdogInv, TypeOK, UltimatumEarned, Recover
<1>4. OnRecord' /\ EscalationIsRecorded'
    BY DEF WatchdogInv, TypeOK, OnRecord, EscalationIsRecorded, Recover, world, tables
<1> QED
    BY <1>1, <1>2, <1>3, <1>4 DEF WatchdogInv

\* Back in monitor_cycle with an ultimatum issued: the level follows.
LEMMA IssuedClimbs ==
    ASSUME WatchdogInv, NEW m \in Machines, issuing = m, Issued(m),
           UNCHANGED <<rows, count, world, decline>>,
           recorded' \in [Machines -> SUBSET {2, 3}], posted' \subseteq Machines
    PROVE  TypeOK' /\ Ladder' /\ UltimatumEarned'
<1>1. /\ level \in [Machines -> 0 .. 3] /\ level[m] <= 2
      /\ issuing # NoMachine /\ issuing' = NoMachine
    BY WatchdogAssumption DEF WatchdogInv, TypeOK, Ladder, Issued
<1>2. level' = [level EXCEPT ![m] = @ + 1]
    BY DEF Issued
<1>3. TypeOK'
    <2>1. level' \in [Machines -> 0 .. 3]
        BY <1>1, <1>2
    <2>2. at' = "cycle"
        BY DEF Issued
    <2> QED
        BY <1>1, <2>1, <2>2 DEF WatchdogInv, TypeOK, world
<1>4. Ladder'
    BY <1>1, <1>2, WatchdogAssumption DEF WatchdogInv, Ladder, Reached
<1>5. UltimatumEarned'
    BY DEF WatchdogInv, UltimatumEarned
<1> QED
    BY <1>3, <1>4, <1>5

\* The row of an ultimatum is there before its level counts, and that of an escalation
\* before the planner is told.
LEMMA RecordSound ==
    ASSUME WatchdogInv, NEW m \in Machines, Record(m)
    PROVE  WatchdogInv'
<1>1. /\ at = "recording" /\ issuing = m
      /\ level \in [Machines -> 0 .. 3] /\ level[m] <= 2
      /\ recorded \in [Machines -> SUBSET {2, 3}]
      /\ UNCHANGED <<rows, count, faults, open, log, posted, decline>>
    BY DEF WatchdogInv, TypeOK, Ladder, Record, world
<1>2. CASE level[m] # 2
    <2>1. /\ Issued(m)
          /\ recorded' = IF level[m] = 0 THEN recorded
                         ELSE [recorded EXCEPT ![m] = @ \cup {2}]
        <3>1. CASE level[m] = 0
            BY <3>1 DEF Record
        <3>2. CASE level[m] = 1
            BY <3>2 DEF Record
        <3> QED
            BY <1>1, <1>2, <3>1, <3>2
    <2>2. recorded' \in [Machines -> SUBSET {2, 3}] /\ posted' \subseteq Machines
        BY <1>1, <2>1 DEF WatchdogInv, TypeOK
    <2>3. TypeOK' /\ Ladder' /\ UltimatumEarned'
        BY <1>1, <2>1, <2>2, IssuedClimbs DEF world
    <2>4. \A n \in Machines : recorded[n] \subseteq recorded'[n]
                              /\ (3 \in recorded'[n] => 3 \in recorded[n])
        BY <1>1, <2>1
    <2>5. level' = [level EXCEPT ![m] = @ + 1] /\ at' = "cycle"
        BY <2>1 DEF Issued
    <2>6. level[m] = 1 => 2 \in recorded'[m]
        BY <1>1, <2>1
    <2>7. OnRecord'
        BY <1>1, <1>2, <2>4, <2>5, <2>6 DEF WatchdogInv, OnRecord
    <2>8. EscalationIsRecorded'
        BY <1>1, <2>4 DEF WatchdogInv, TypeOK, EscalationIsRecorded
    <2> QED
        BY <2>3, <2>7, <2>8 DEF WatchdogInv
<1>3. CASE level[m] = 2
    <2>1. /\ recorded' = [recorded EXCEPT ![m] = @ \cup {3}]
          /\ at' = "escalating" /\ UNCHANGED <<issuing, level>>
        BY <1>1, <1>3 DEF Record
    <2>2. TypeOK'
        BY <1>1, <2>1, WatchdogAssumption DEF WatchdogInv, TypeOK
    <2>3. Ladder' /\ UltimatumEarned'
        BY <1>1, <2>1 DEF WatchdogInv, Ladder, Reached, UltimatumEarned
    <2>4. /\ \A n \in Machines : recorded[n] \subseteq recorded'[n]
          /\ \A n \in Machines \ {m} : recorded'[n] = recorded[n]
          /\ 3 \in recorded'[m]
        BY <1>1, <2>1
    <2>5. OnRecord'
        BY <1>1, <1>3, <2>1, <2>4 DEF WatchdogInv, OnRecord
    <2>6. faults = {} => 2 \in recorded'[m]
        BY <1>1, <1>3, <2>4 DEF WatchdogInv, OnRecord
    <2>7. EscalationIsRecorded'
        BY <1>1, <2>4, <2>6 DEF WatchdogInv, TypeOK, EscalationIsRecorded
    <2> QED
        BY <2>2, <2>3, <2>5, <2>7 DEF WatchdogInv
<1> QED
    BY <1>2, <1>3

\* An INSERT that fails: no claim is made of the rows of such a behaviour.
LEMMA RecordFailsSound ==
    ASSUME WatchdogInv, NEW m \in Machines, RecordFails(m)
    PROVE  WatchdogInv'
<1>1. TypeOK' /\ Ladder' /\ UltimatumEarned'
    BY IssuedClimbs DEF WatchdogInv, TypeOK, RecordFails, tables
<1>2. OnRecord' /\ EscalationIsRecorded'
    BY DEF WatchdogInv, OnRecord, EscalationIsRecorded, RecordFails, Issued, tables, world
<1> QED
    BY <1>1, <1>2 DEF WatchdogInv

\* The planner is told of a machine whose escalation has its row.
LEMMA EscalateSound ==
    ASSUME WatchdogInv, NEW m \in Machines, Escalate(m)
    PROVE  WatchdogInv'
<1>1. /\ issuing = m /\ level \in [Machines -> 0 .. 3] /\ level[m] = 2 /\ 3 \in recorded[m]
      /\ posted' \subseteq posted \cup {m}
      /\ at' = "cycle" /\ level' = [level EXCEPT ![m] = @ + 1]
      /\ UNCHANGED <<faults, recorded>>
    BY DEF WatchdogInv, TypeOK, OnRecord, Escalate, Issued, world
<1>2. TypeOK' /\ Ladder' /\ UltimatumEarned'
    BY <1>1, IssuedClimbs DEF WatchdogInv, TypeOK, Escalate
<1>3. OnRecord'
    BY <1>1 DEF WatchdogInv, OnRecord
<1>4. EscalationIsRecorded'
    BY <1>1 DEF WatchdogInv, EscalationIsRecorded
<1> QED
    BY <1>2, <1>3, <1>4 DEF WatchdogInv

\* A restart forgets the ladder and keeps the rows.
LEMMA CrashSound ==
    ASSUME WatchdogInv, Crash
    PROVE  WatchdogInv'
<1>1. TypeOK'
    BY DEF WatchdogInv, TypeOK, Crash, world, tables, CountCap, Threshold
<1>2. Ladder'
    <2>1. \A m \in Machines : Reached(m)' = 0
        BY WatchdogAssumption DEF Reached, Crash
    <2>2. 1 .. 0 = {}
        OBVIOUS
    <2> QED
        BY <2>1, <2>2, WatchdogAssumption DEF Ladder, Crash
<1>3. UltimatumEarned'
    BY DEF UltimatumEarned, Crash
<1>4. OnRecord' /\ EscalationIsRecorded'
    BY DEF WatchdogInv, OnRecord, EscalationIsRecorded, Crash, world, tables
<1> QED
    BY <1>1, <1>2, <1>3, <1>4 DEF WatchdogInv

LEMMA StepSound == WatchdogInv /\ [WatchdogNext]_watchdogVars => WatchdogInv'
<1> SUFFICES ASSUME WatchdogInv, [WatchdogNext]_watchdogVars
             PROVE  WatchdogInv'
    OBVIOUS
<1>1. CASE StartCycle
    <2>1. TypeOK'
        BY <1>1 DEF WatchdogInv, TypeOK, StartCycle, world, tables
    <2> QED
        BY <1>1, <2>1, OffTheLadder DEF StartCycle, world
<1>2. CASE EndCycle
    <2>1. TypeOK'
        BY <1>2 DEF WatchdogInv, TypeOK, EndCycle, world, tables
    <2> QED
        BY <1>2, <2>1, OffTheLadder DEF EndCycle, world
<1>3. ASSUME NEW t \in Tasks, Skip(t)
      PROVE  WatchdogInv'
    <2>1. TypeOK'
        BY <1>3 DEF WatchdogInv, TypeOK, Skip, world, tables
    <2> QED
        BY <1>3, <2>1, OffTheLadder DEF Skip, world
<1>4. ASSUME NEW t \in Tasks, Judge(t)
      PROVE  WatchdogInv'
    <2>1. MachineOf[t] \in Machines /\ rows' \subseteq Tasks
        BY <1>4, WatchdogAssumption DEF WatchdogInv, TypeOK, Judge
    <2> QED
        BY <1>4, <2>1, SinkSound, RecoverSound DEF Judge
<1>5. CASE CycleFails
    <2>1. TypeOK'
        BY <1>5 DEF WatchdogInv, TypeOK, CycleFails, world, tables
    <2> QED
        BY <1>5, <2>1, OffTheLadder DEF CycleFails, world
<1>6. ASSUME NEW t \in Tasks, TaskChanges(t)
      PROVE  WatchdogInv'
    <2>1. TypeOK'
        BY <1>6 DEF WatchdogInv, TypeOK, TaskChanges, memory, tables
    <2> QED
        BY <1>6, <2>1, OffTheLadder DEF TaskChanges, memory
<1>7. CASE UNCHANGED watchdogVars
    <2>1. TypeOK'
        BY <1>7 DEF WatchdogInv, TypeOK, watchdogVars, memory, world, tables
    <2> QED
        BY <1>7, <2>1, OffTheLadder DEF watchdogVars, memory, world
<1> QED
    BY <1>1, <1>2, <1>3, <1>4, <1>5, <1>6, <1>7, CrashSound, ExecSound, RecordSound,
       RecordFailsSound, EscalateSound DEF WatchdogNext, CycleStep

-----------------------------------------------------------------------------
(* The theorems.                                                            *)

\* The counters, the ladder and the tables keep to their types (monitor_cycle).
THEOREM TypeCorrect == WatchdogSpec => []TypeOK
<1>1. WatchdogInv => TypeOK
    BY DEF WatchdogInv
<1> QED
    BY <1>1, InitSound, StepSound, PTL DEF WatchdogSpec

\* No machine gets an ultimatum before its low scores and the ultimata below it, for any
\* number of machines and tasks and whatever fails (monitor_cycle).
THEOREM EarnedAlways == WatchdogSpec => []UltimatumEarned
<1>1. WatchdogInv => UltimatumEarned
    BY DEF WatchdogInv
<1> QED
    BY <1>1, InitSound, StepSound, PTL DEF WatchdogSpec

\* No planner hears of an escalation that has no row (issue_ultimatum, escalate).
THEOREM RecordedAlways == WatchdogSpec => []EscalationIsRecorded
<1>1. WatchdogInv => EscalationIsRecorded
    BY DEF WatchdogInv
<1> QED
    BY <1>1, InitSound, StepSound, PTL DEF WatchdogSpec
-----------------------------------------------------------------------------
(* The administration and its client.                                       *)
(*                                                                         *)
(* A request makes claims on the tables only from certain places on; what    *)
(* any other request does to the tables keeps them, for rows are never       *)
(* removed, only marked, and no image ever loses its build.                  *)

Places ==
    {"none", "here", "quota", "delete", "seeding", "audit", "waits", "tagged", "pushed",
     "dropped", "lost"} \cup Answers

\* The commands whose answer 200 claims something, and where no claim is made.
Claiming == {"tenant", "role_delete", "seed", "build", "push", "pull"}
Ends == {"here", "seeding", "waits", "400", "404", "409", "500", "502", "dropped", "lost"}
Audited == {"role", "role_delete", "seed"}

Named(row, tenant, role) == row.tenant = tenant /\ row.name = role.name

\* The columns of agent_roles.
IsRow(r) ==
    r = [tenant |-> r.tenant, name |-> r.name, allowed |-> r.allowed,
         denied |-> r.denied, live |-> r.live]

RequestShapes ==
    /\ req \in [Callers -> [at : Places, row : Nat, seen : Nat]]
    /\ \A c \in Callers : req[c].at = "audit" => Asked[c].op \in Audited

TableShapes ==
    /\ \E S : tenants \in Seq(S)
    /\ \E S : quotas \in Seq(S)
    /\ \E S : roles \in Seq(S)
    /\ \A i \in DOMAIN roles : IsRow(roles[i])
    /\ script \in [Callers -> {"none", "builds", "pushes", "ended", "failed"}]
    /\ built \in [Images -> Nat] /\ tagged \in [Images -> Nat]
    /\ registry \in [Images -> Nat] /\ node \in [Images -> Nat]

\* The row of quotas of a tenant is inserted by the request that created the tenant.
TenantInv ==
    /\ \A i \in DOMAIN quotas : quotas[i].tenant \in DOMAIN tenants
    /\ \A c \in Callers : Asked[c].op = "tenant" /\ req[c].at \in {"quota", "200"} =>
         /\ req[c].row \in DOMAIN tenants /\ tenants[req[c].row] = Asked[c].name
         /\ req[c].at = "quota" =>
              /\ Asked[c].limit # None
              /\ \A i \in DOMAIN quotas : quotas[i].tenant # req[c].row
         /\ req[c].at = "200" =>
              {quotas[i].limit : i \in {j \in DOMAIN quotas : quotas[j].tenant = req[c].row}}
                = {Asked[c].limit} \ {None}
    /\ \A c, d \in Callers :
         /\ Asked[c].op = "tenant" /\ req[c].at \in {"quota", "200"}
         /\ Asked[d].op = "tenant" /\ req[d].at \in {"quota", "200"}
         /\ req[c].row = req[d].row
         => c = d

\* Who marks a row of roles finds it live, so that no other request has marked it.
DeletionInv ==
    /\ \A c \in Callers : Asked[c].op = "role_delete" =>
         /\ req[c].at = "delete" => req[c].row \in DOMAIN roles
         /\ req[c].at \in {"audit", "200"} =>
              req[c].row \in DOMAIN roles /\ roles[req[c].row].live = FALSE
    /\ \A c, d \in Callers :
         /\ Asked[c].op = "role_delete" /\ req[c].at \in {"audit", "200"}
         /\ Asked[d].op = "role_delete" /\ req[d].at \in {"audit", "200"}
         /\ req[c].row = req[d].row
         => c = d

\* For every default role a seed has passed there is a row, live or not.
SeedInv ==
    \A c \in Callers : Asked[c].op = "seed" =>
        /\ req[c].seen <= Len(Defaults)
        /\ req[c].at \in {"audit", "200"} => req[c].seen = Len(Defaults)
        /\ \A i \in 1 .. req[c].seen : \E j \in DOMAIN roles :
             Named(roles[j], Asked[c].tenant, Defaults[i])

\* What is tagged has been built, and what is pushed has been tagged.
ImageInv ==
    \A c \in Callers :
        /\ script[c] = "pushes" => tagged[RockyBase] # None
        /\ script[c] = "ended" => registry[RockyBase] # None
        /\ Asked[c].op = "build" /\ req[c].at = "200" => registry[RockyBase] # None
        /\ Asked[c].op = "push" /\ req[c].at = "tagged" => tagged[Asked[c].image] # None
        /\ Asked[c].op = "push" /\ req[c].at \in {"pushed", "200"} => registry[Asked[c].image] # None
        /\ Asked[c].op = "pull" /\ req[c].at = "200" => node[Asked[c].image] # None

\* The client prints as done what was answered 200.
ClientInv ==
    /\ cli \in [Callers -> {"off", "new", "sent", "local", "ok", "failed"}]
    /\ \A c \in Callers : cli[c] = "local" => Asked[c].op \in AuditCommands
    /\ \A c \in Callers : cli[c] = "ok" /\ Asked[c].op \in Claiming => req[c].at = "200"

AdminInv == RequestShapes /\ TableShapes /\ TenantInv /\ DeletionInv /\ SeedInv /\ ImageInv
OperatorInv == AdminInv /\ ClientInv

-----------------------------------------------------------------------------
(* What a step of a request does to the claims of all of them.               *)

\* Requests for these operations stay, or go where nothing is claimed.
Passive(ops) ==
    \A c \in Callers : Asked[c].op \in ops =>
        /\ req'[c].at = req[c].at \/ req'[c].at \in Ends
        /\ req'[c].row = req[c].row /\ req'[c].seen = req[c].seen

LEMMA OperatorInitInv == Init => OperatorInv
<1> SUFFICES ASSUME Init
             PROVE  OperatorInv
    OBVIOUS
<1> USE DEF Init, AdminInit, OperatorInit
<1>1. RequestShapes
    BY DEF RequestShapes, Places, Answers, Idle, NoRow
<1>2. TableShapes
    <2>1. <<>> \in Seq({})
        OBVIOUS
    <2> QED
        BY <2>1 DEF TableShapes, None
<1>3. TenantInv /\ DeletionInv
    BY DEF TenantInv, DeletionInv, Idle
<1>4. SeedInv
    <2>1. Len(Defaults) \in Nat
        BY AdminAssumption
    <2> QED
        BY <2>1 DEF SeedInv, Idle
<1>5. ImageInv /\ ClientInv
    BY DEF ImageInv, ClientInv, Idle
<1> QED
    BY <1>1, <1>2, <1>3, <1>4, <1>5 DEF OperatorInv, AdminInv

\* Such requests keep the claims on tables nobody writes.
LEMMA PassiveTenants ==
    ASSUME TenantInv, UNCHANGED <<tenants, quotas>>, Passive({"tenant"})
    PROVE  TenantInv'
<1>1. ASSUME NEW c \in Callers, Asked[c].op = "tenant", req'[c].at \in {"quota", "200"}
      PROVE  req'[c].at = req[c].at /\ req'[c].row = req[c].row
    BY <1>1 DEF Passive, Ends
<1>2. ASSUME NEW c \in Callers, Asked[c].op = "tenant", req'[c].at \in {"quota", "200"}
      PROVE  /\ req'[c].row \in DOMAIN tenants /\ tenants[req'[c].row] = Asked[c].name
             /\ req'[c].at = "quota" =>
                  /\ Asked[c].limit # None
                  /\ \A i \in DOMAIN quotas : quotas[i].tenant # req'[c].row
             /\ req'[c].at = "200" =>
                  {quotas[i].limit : i \in {j \in DOMAIN quotas : quotas[j].tenant = req'[c].row}}
                    = {Asked[c].limit} \ {None}
    <2>1. req'[c].at = req[c].at /\ req'[c].row = req[c].row
        BY <1>1, <1>2
    <2> QED
        BY <1>2, <2>1 DEF TenantInv
<1>3. ASSUME NEW c \in Callers, NEW d \in Callers,
             Asked[c].op = "tenant", req'[c].at \in {"quota", "200"},
             Asked[d].op = "tenant", req'[d].at \in {"quota", "200"},
             req'[c].row = req'[d].row
      PROVE  c = d
    BY <1>1, <1>3 DEF TenantInv
<1>4. \A i \in DOMAIN quotas : quotas[i].tenant \in DOMAIN tenants
    BY DEF TenantInv
<1> QED
    BY <1>2, <1>3, <1>4 DEF TenantInv

LEMMA PassiveDeletions ==
    ASSUME DeletionInv, UNCHANGED roles, Passive({"role_delete"})
    PROVE  DeletionInv'
<1>1. ASSUME NEW c \in Callers, Asked[c].op = "role_delete", req'[c].at \in {"delete", "audit", "200"}
      PROVE  req'[c].at = req[c].at /\ req'[c].row = req[c].row
    BY <1>1 DEF Passive, Ends
<1> QED
    BY <1>1 DEF DeletionInv

LEMMA PassiveSeeds ==
    ASSUME SeedInv, UNCHANGED roles, Passive({"seed"})
    PROVE  SeedInv'
<1>1. ASSUME NEW c \in Callers, Asked[c].op = "seed", req'[c].at \in {"audit", "200"}
      PROVE  req'[c].at = req[c].at
    BY <1>1 DEF Passive, Ends
<1>2. \A c \in Callers : Asked[c].op = "seed" => req'[c].seen = req[c].seen
    BY DEF Passive
<1> QED
    BY <1>1, <1>2 DEF SeedInv

LEMMA PassiveImages ==
    ASSUME ImageInv, UNCHANGED imageVars, Passive({"build", "push", "pull"})
    PROVE  ImageInv'
<1>1. ASSUME NEW c \in Callers, Asked[c].op \in {"build", "push", "pull"},
             req'[c].at \in {"tagged", "pushed", "200"}
      PROVE  req'[c].at = req[c].at
    BY <1>1 DEF Passive, Ends
<1> QED
    BY <1>1 DEF ImageInv, imageVars

LEMMA PassiveKeeps ==
    ASSUME AdminInv, RequestShapes', UNCHANGED <<tenants, quotas, roles, imageVars>>,
           Passive(Claiming)
    PROVE  AdminInv'
<1>1. TableShapes'
    BY DEF AdminInv, TableShapes, imageVars
<1>2. Passive({"tenant"}) /\ Passive({"role_delete"}) /\ Passive({"seed"}) /\ Passive({"build", "push", "pull"})
    BY DEF Passive, Claiming
<1> QED
    BY <1>1, <1>2, PassiveTenants, PassiveDeletions, PassiveSeeds, PassiveImages DEF AdminInv

\* Goto and WithRow change one request.
LEMMA GotoMoves ==
    ASSUME RequestShapes, NEW c \in Callers, NEW x \in Places, Goto(c, x),
           x = "audit" => Asked[c].op \in Audited
    PROVE  /\ RequestShapes'
           /\ req'[c] = [at |-> x, row |-> req[c].row, seen |-> req[c].seen]
           /\ \A d \in Callers \ {c} : req'[d] = req[d]
<1> DEFINE moved == [at |-> x, row |-> req[c].row, seen |-> req[c].seen]
<1>1. req[c] = [at |-> req[c].at, row |-> req[c].row, seen |-> req[c].seen]
    BY DEF RequestShapes
<1>2. req'[c] = moved
    BY <1>1 DEF RequestShapes, Goto
<1>3. \A d \in Callers \ {c} : req'[d] = req[d]
    BY DEF RequestShapes, Goto
<1>4. moved \in [at : Places, row : Nat, seen : Nat]
    BY DEF RequestShapes
<1>5. req' \in [Callers -> [at : Places, row : Nat, seen : Nat]]
    <2>1. req' = [d \in Callers |-> req'[d]]
        BY DEF RequestShapes, Goto
    <2>2. \A d \in Callers : req'[d] \in [at : Places, row : Nat, seen : Nat]
        BY <1>2, <1>3, <1>4 DEF RequestShapes
    <2> QED
        BY <2>1, <2>2
<1> QED
    BY <1>2, <1>3, <1>4, <1>5 DEF RequestShapes

LEMMA WithRowMoves ==
    ASSUME RequestShapes, NEW c \in Callers, NEW x \in Places, NEW i \in Nat, WithRow(c, x, i),
           x = "audit" => Asked[c].op \in Audited
    PROVE  /\ RequestShapes'
           /\ req'[c] = [at |-> x, row |-> i, seen |-> req[c].seen]
           /\ \A d \in Callers \ {c} : req'[d] = req[d]
    BY DEF RequestShapes, WithRow

\* A request that goes where it claims nothing, or claims nothing at all, leaves the rest.
LEMMA EndKeepsAdmin ==
    ASSUME AdminInv, UNCHANGED <<tenants, quotas, roles, imageVars>>, NEW c \in Callers,
           NEW x \in Places \ {"audit"}, Goto(c, x), x \in Ends \/ Asked[c].op \notin Claiming
    PROVE  AdminInv'
<1>1. /\ RequestShapes'
      /\ req'[c] = [at |-> x, row |-> req[c].row, seen |-> req[c].seen]
      /\ \A d \in Callers \ {c} : req'[d] = req[d]
    BY GotoMoves DEF AdminInv
<1>2. Passive(Claiming)
    BY <1>1 DEF Passive
<1> QED
    BY <1>1, <1>2, PassiveKeeps

LEMMA ReadsKeep ==
    ASSUME AdminInv, NEW c \in Callers, GetTenant(c) \/ ReadRoles(c) \/ Browse(c)
    PROVE  AdminInv'
<1> USE DEF Fails, Tells
<1>1. CASE GetTenant(c)
    <2>1. Goto(c, "200") \/ Goto(c, "404")
        BY <1>1 DEF GetTenant
    <2>2. Asked[c].op \notin Claiming
        BY <1>1 DEF GetTenant, Takes, Claiming
    <2> QED
        BY <1>1, <2>1, <2>2, EndKeepsAdmin DEF GetTenant, Places, Answers
<1>2. CASE ReadRoles(c)
    <2>1. Goto(c, "200") \/ Goto(c, "404") \/ Goto(c, "500")
        BY <1>2 DEF ReadRoles
    <2>2. Asked[c].op \notin Claiming
        BY <1>2 DEF ReadRoles, Takes, Claiming
    <2> QED
        BY <1>2, <2>1, <2>2, EndKeepsAdmin DEF ReadRoles, Places, Answers
<1>3. CASE Browse(c)
    <2>1. Goto(c, "200") \/ Goto(c, "500") \/ Goto(c, "502")
        BY <1>3 DEF Browse, ListImages, ListTags, Exists
    <2>2. Asked[c].op \notin Claiming
        BY <1>3 DEF Browse, ListImages, ListTags, Exists, On, Claiming
    <2>3. UNCHANGED <<tenants, quotas, roles, imageVars>>
        BY <1>3 DEF Browse, ListImages, ListTags, Exists
    <2> QED
        BY <2>1, <2>2, <2>3, EndKeepsAdmin DEF Places, Answers
<1> QED
    BY <1>1, <1>2, <1>3

Grown(s, t, row, S) ==
    \E n \in Nat :
        /\ n = Len(s) /\ DOMAIN s = 1 .. n /\ DOMAIN t = 1 .. n + 1
        /\ \A i \in 1 .. n : t[i] = s[i]
        /\ t[n + 1] = row
        /\ t \in Seq(S \cup {row})

\* A table grows by one row at its end.
LEMMA RowAppended ==
    ASSUME NEW S, NEW s \in Seq(S), NEW row, NEW t, t = Append(s, row)
    PROVE  Grown(s, t, row, S)
<1>1. s \in Seq(S \cup {row})
    BY SeqMonotonic
<1>2. Len(s) \in Nat /\ DOMAIN s = 1 .. Len(s)
    BY LenProperties
<1>3. /\ DOMAIN t = 1 .. Len(s) + 1
      /\ \A i \in 1 .. Len(s) : t[i] = s[i]
      /\ t[Len(s) + 1] = row
      /\ t \in Seq(S \cup {row})
    BY <1>1, <1>2, AppendProperties, LenProperties
<1> QED
    BY <1>2, <1>3 DEF Grown

\* Steps of requests for tenants.
LEMMA CreateTenantKeeps ==
    ASSUME AdminInv, NEW c \in Callers, CreateTenant(c)
    PROVE  AdminInv'
<1>1. Asked[c].op = "tenant" /\ UNCHANGED <<quotas, roles, imageVars>>
    BY DEF CreateTenant, Takes
<1>2. CASE Fails(c) /\ tenants' = tenants
    BY <1>1, <1>2, EndKeepsAdmin DEF Fails, Ends, Places, Answers
<1>3. CASE /\ tenants' = Append(tenants, Asked[c].name)
           /\ WithRow(c, IF Asked[c].limit = None THEN "200" ELSE "quota", Len(tenants) + 1)
    <2>1. PICK S : tenants \in Seq(S)
        BY DEF AdminInv, TableShapes
    <2>2. PICK n \in Nat :
            /\ n = Len(tenants) /\ DOMAIN tenants = 1 .. n /\ DOMAIN tenants' = 1 .. n + 1
            /\ \A i \in 1 .. n : tenants'[i] = tenants[i]
            /\ tenants'[n + 1] = Asked[c].name
            /\ tenants' \in Seq(S \cup {Asked[c].name})
        <3>1. PICK name : name = Asked[c].name
            OBVIOUS
        <3>2. tenants' = Append(tenants, name)
            BY <1>3, <3>1
        <3>3. Grown(tenants, tenants', name, S)
            BY <2>1, <3>2, RowAppended
        <3> QED
            BY <3>1, <3>3, Zenon DEF Grown
    <2>3. PICK x \in {"200", "quota"} :
            x = (IF Asked[c].limit = None THEN "200" ELSE "quota")
        OBVIOUS
    <2>4. x \in Places /\ n + 1 \in Nat
        BY DEF Places, Answers
    <2>5. /\ RequestShapes'
          /\ req'[c] = [at |-> x, row |-> n + 1, seen |-> req[c].seen]
          /\ \A d \in Callers \ {c} : req'[d] = req[d]
        BY <1>3, <2>2, <2>3, <2>4, WithRowMoves DEF AdminInv
    <2>6. TableShapes'
        BY <1>1, <2>2 DEF AdminInv, TableShapes, imageVars
    <2>7. Passive({"role_delete"}) /\ Passive({"seed"}) /\ Passive({"build", "push", "pull"})
        BY <1>1, <2>5 DEF Passive
    <2>8. DeletionInv' /\ SeedInv' /\ ImageInv'
        BY <1>1, <2>7, PassiveDeletions, PassiveSeeds, PassiveImages DEF AdminInv
    <2>9. TenantInv'
        <3>1. \A i \in DOMAIN quotas : quotas[i].tenant \in 1 .. n
            BY <2>2 DEF AdminInv, TenantInv
        <3>2. \A i \in DOMAIN quotas : quotas[i].tenant # n + 1 /\ quotas[i].tenant \in 1 .. n + 1
            BY <3>1
        <3>3. \A d \in Callers : Asked[d].op = "tenant" /\ req[d].at \in {"quota", "200"} =>
                req[d].row \in 1 .. n /\ tenants[req[d].row] = Asked[d].name
            BY <2>2 DEF AdminInv, TenantInv
        <3>4. {quotas[i].limit : i \in {j \in DOMAIN quotas : quotas[j].tenant = n + 1}} = {}
            BY <3>2
        <3>5. ASSUME NEW d \in Callers, Asked[d].op = "tenant", req'[d].at \in {"quota", "200"}
              PROVE  /\ req'[d].row \in 1 .. n + 1 /\ tenants'[req'[d].row] = Asked[d].name
                     /\ req'[d].at = "quota" =>
                          /\ Asked[d].limit # None
                          /\ \A i \in DOMAIN quotas : quotas[i].tenant # req'[d].row
                     /\ req'[d].at = "200" =>
                          {quotas[i].limit : i \in {j \in DOMAIN quotas : quotas[j].tenant = req'[d].row}}
                            = {Asked[d].limit} \ {None}
            <4>1. CASE d = c
                <5>1. req'[d].row = n + 1 /\ req'[d].at = x
                    BY <2>5, <4>1
                <5>2. n + 1 \in 1 .. n + 1
                    OBVIOUS
                <5> QED
                    BY <2>2, <2>3, <3>2, <3>4, <4>1, <5>1, <5>2
            <4>2. CASE d # c
                <5>1. req'[d] = req[d]
                    BY <2>5, <4>2
                <5>2. req[d].row \in 1 .. n /\ tenants'[req[d].row] = Asked[d].name
                    BY <2>2, <3>3, <3>5, <5>1
                <5> QED
                    BY <3>5, <5>1, <5>2 DEF AdminInv, TenantInv
            <4> QED
                BY <4>1, <4>2
        <3>6. ASSUME NEW d \in Callers, NEW e \in Callers,
                     Asked[d].op = "tenant", req'[d].at \in {"quota", "200"},
                     Asked[e].op = "tenant", req'[e].at \in {"quota", "200"},
                     req'[d].row = req'[e].row
              PROVE  d = e
            <4>1. \A f \in Callers \ {c} : Asked[f].op = "tenant" /\ req'[f].at \in {"quota", "200"}
                     => req'[f].row \in 1 .. n
                BY <2>5, <3>3
            <4>2. \A f \in Callers \ {c} : Asked[f].op = "tenant" /\ req'[f].at \in {"quota", "200"}
                     => req'[f].row # n + 1
                BY <4>1
            <4>3. req'[c].row = n + 1
                BY <2>5
            <4>4. CASE d # c /\ e # c
                <5>1. req'[d] = req[d] /\ req'[e] = req[e]
                    BY <2>5, <4>4
                <5> QED
                    BY <3>6, <5>1 DEF AdminInv, TenantInv
            <4> QED
                BY <3>6, <4>2, <4>3, <4>4
        <3>7. quotas' = quotas /\ DOMAIN tenants' = 1 .. n + 1
            BY <1>1, <2>2
        <3>8. \A i \in DOMAIN quotas' : quotas'[i].tenant \in DOMAIN tenants'
            BY <3>2, <3>7
        <3>9. \A d \in Callers : Asked[d].op = "tenant" /\ req'[d].at \in {"quota", "200"} =>
                /\ req'[d].row \in DOMAIN tenants' /\ tenants'[req'[d].row] = Asked[d].name
                /\ req'[d].at = "quota" =>
                     /\ Asked[d].limit # None
                     /\ \A i \in DOMAIN quotas' : quotas'[i].tenant # req'[d].row
                /\ req'[d].at = "200" =>
                     {quotas'[i].limit : i \in {j \in DOMAIN quotas' : quotas'[j].tenant = req'[d].row}}
                       = {Asked[d].limit} \ {None}
            BY <3>5, <3>7
        <3> QED
            BY <3>6, <3>8, <3>9 DEF TenantInv
    <2> QED
        BY <2>5, <2>6, <2>8, <2>9 DEF AdminInv
<1> QED
    BY <1>2, <1>3 DEF CreateTenant

LEMMA SetQuotaKeeps ==
    ASSUME AdminInv, NEW c \in Callers, SetQuota(c)
    PROVE  AdminInv'
<1>1. /\ Asked[c].op = "tenant" /\ req[c].at = "quota"
      /\ UNCHANGED <<tenants, roles, imageVars>>
    BY DEF SetQuota, On
<1>2. CASE Fails(c) /\ quotas' = quotas
    BY <1>1, <1>2, EndKeepsAdmin DEF Fails, Ends, Places, Answers
<1>3. CASE /\ quotas' = Append(quotas, [tenant |-> req[c].row, limit |-> Asked[c].limit])
           /\ Goto(c, "200")
    <2>1. PICK S : quotas \in Seq(S)
        BY DEF AdminInv, TableShapes
    <2>2. PICK row : row = [tenant |-> req[c].row, limit |-> Asked[c].limit]
        OBVIOUS
    <2>3. PICK n \in Nat :
            /\ n = Len(quotas) /\ DOMAIN quotas = 1 .. n /\ DOMAIN quotas' = 1 .. n + 1
            /\ \A i \in 1 .. n : quotas'[i] = quotas[i]
            /\ quotas'[n + 1] = row
            /\ quotas' \in Seq(S \cup {row})
        <3>1. quotas' = Append(quotas, row)
            BY <1>3, <2>2
        <3>2. Grown(quotas, quotas', row, S)
            BY <2>1, <3>1, RowAppended
        <3> QED
            BY <3>2, Zenon DEF Grown
    <2>4. /\ RequestShapes'
          /\ req'[c] = [at |-> "200", row |-> req[c].row, seen |-> req[c].seen]
          /\ \A d \in Callers \ {c} : req'[d] = req[d]
        BY <1>3, GotoMoves DEF AdminInv, Places, Answers
    <2>5. TableShapes'
        BY <1>1, <2>3 DEF AdminInv, TableShapes, imageVars
    <2>6. Passive({"role_delete"}) /\ Passive({"seed"}) /\ Passive({"build", "push", "pull"})
        BY <1>1, <2>4 DEF Passive
    <2>7. DeletionInv' /\ SeedInv' /\ ImageInv'
        BY <1>1, <2>6, PassiveDeletions, PassiveSeeds, PassiveImages DEF AdminInv
    <2>8. /\ req[c].row \in DOMAIN tenants /\ tenants[req[c].row] = Asked[c].name
          /\ Asked[c].limit # None
          /\ \A i \in 1 .. n : quotas[i].tenant # req[c].row
        BY <1>1, <2>3 DEF AdminInv, TenantInv
    <2>9. \A d \in Callers : Asked[d].op = "tenant" /\ req'[d].at \in {"quota", "200"} =>
            /\ req[d].at \in {"quota", "200"} /\ req'[d].row = req[d].row
            /\ d # c => req'[d] = req[d] /\ req[d].row # req[c].row
        BY <1>1, <2>4 DEF AdminInv, TenantInv
    <2>10. ASSUME NEW k
           PROVE  {quotas'[i].limit : i \in {j \in 1 .. n + 1 : quotas'[j].tenant = k}} =
                    {quotas[i].limit : i \in {j \in 1 .. n : quotas[j].tenant = k}}
                    \cup (IF k = req[c].row THEN {Asked[c].limit} ELSE {})
        <3>1. \A j \in 1 .. n + 1 : j \in 1 .. n \/ j = n + 1
            OBVIOUS
        <3>2. n + 1 \in 1 .. n + 1 /\ \A j \in 1 .. n : j \in 1 .. n + 1
            OBVIOUS
        <3>3. quotas'[n + 1].tenant = req[c].row /\ quotas'[n + 1].limit = Asked[c].limit
            BY <2>2, <2>3
        <3> QED
            BY <2>3, <3>1, <3>2, <3>3
    <2>11. ASSUME NEW d \in Callers, Asked[d].op = "tenant", req'[d].at \in {"quota", "200"}
           PROVE  /\ req'[d].row \in DOMAIN tenants /\ tenants[req'[d].row] = Asked[d].name
                  /\ req'[d].at = "quota" =>
                       /\ Asked[d].limit # None
                       /\ \A i \in 1 .. n + 1 : quotas'[i].tenant # req'[d].row
                  /\ req'[d].at = "200" =>
                       {quotas'[i].limit : i \in {j \in 1 .. n + 1 : quotas'[j].tenant = req'[d].row}}
                         = {Asked[d].limit} \ {None}
        <3>1. CASE d = c
            <4>1. {quotas[i].limit : i \in {j \in 1 .. n : quotas[j].tenant = req[c].row}} = {}
                BY <2>8
            <4>2. req'[d].row = req[c].row /\ req'[d].at = "200"
                BY <2>4, <3>1
            <4>3. {quotas'[i].limit : i \in {j \in 1 .. n + 1 : quotas'[j].tenant = req[c].row}}
                    = {Asked[c].limit} \ {None}
                <5>1. {quotas'[i].limit : i \in {j \in 1 .. n + 1 : quotas'[j].tenant = req[c].row}}
                        = {} \cup {Asked[c].limit}
                    BY <2>10, <4>1
                <5>2. {Asked[c].limit} \ {None} = {} \cup {Asked[c].limit}
                    BY <2>8
                <5> QED
                    BY Zenon, <5>1, <5>2
            <4>4. req'[d].row \in DOMAIN tenants /\ tenants[req'[d].row] = Asked[d].name
                BY <2>8, <3>1, <4>2
            <4>5. {quotas'[i].limit : i \in {j \in 1 .. n + 1 : quotas'[j].tenant = req'[d].row}}
                    = {Asked[d].limit} \ {None}
                BY Zenon, <3>1, <4>2, <4>3
            <4> QED
                BY <4>2, <4>4, <4>5
        <3>2. CASE d # c
            <4>1. req'[d] = req[d] /\ req[d].row # req[c].row
                BY <2>9, <2>11, <3>2
            <4>2. \A i \in 1 .. n + 1 : i \in 1 .. n \/ i = n + 1
                OBVIOUS
            <4>3. quotas'[n + 1].tenant = req[c].row
                BY <2>2, <2>3
            <4>4. req'[d].at = "quota" => \A i \in 1 .. n + 1 : quotas'[i].tenant # req[d].row
                BY <2>3, <2>11, <4>1, <4>2, <4>3 DEF AdminInv, TenantInv
            <4>5. {quotas'[i].limit : i \in {j \in 1 .. n + 1 : quotas'[j].tenant = req[d].row}}
                    = {quotas[i].limit : i \in {j \in 1 .. n : quotas[j].tenant = req[d].row}}
                <5>1. \A i \in 1 .. n : i \in 1 .. n + 1
                    OBVIOUS
                <5>2. \A i \in 1 .. n + 1 : quotas'[i].tenant = req[d].row => i \in 1 .. n
                    BY <4>1, <4>2, <4>3
                <5> QED
                    BY <2>3, <5>1, <5>2
            <4>6. /\ req[d].row \in DOMAIN tenants /\ tenants[req[d].row] = Asked[d].name
                  /\ req'[d].at = "quota" => Asked[d].limit # None
                  /\ req'[d].at = "200" =>
                       {quotas[i].limit : i \in {j \in 1 .. n : quotas[j].tenant = req[d].row}}
                         = {Asked[d].limit} \ {None}
                BY <2>3, <2>11, <4>1 DEF AdminInv, TenantInv
            <4>7. req'[d].at = "200" =>
                    {quotas'[i].limit : i \in {j \in 1 .. n + 1 : quotas'[j].tenant = req[d].row}}
                      = {Asked[d].limit} \ {None}
                BY Zenon, <4>5, <4>6
            <4>8. req'[d].row = req[d].row
                BY <4>1
            <4> QED
                BY <4>4, <4>6, <4>7, <4>8
        <3> QED
            BY <3>1, <3>2
    <2>12. ASSUME NEW i \in 1 .. n + 1
           PROVE  quotas'[i].tenant \in DOMAIN tenants
        <3>1. CASE i \in 1 .. n
            BY <2>3, <3>1 DEF AdminInv, TenantInv
        <3>2. CASE i = n + 1
            BY <2>2, <2>3, <2>8, <3>2
        <3> QED
            BY <3>1, <3>2
    <2>13. ASSUME NEW d \in Callers, NEW e \in Callers,
                  Asked[d].op = "tenant", req'[d].at \in {"quota", "200"},
                  Asked[e].op = "tenant", req'[e].at \in {"quota", "200"},
                  req'[d].row = req'[e].row
           PROVE  d = e
        BY <2>9, <2>13 DEF AdminInv, TenantInv
    <2>14. TenantInv'
        BY <1>1, <2>3, <2>11, <2>12, <2>13 DEF TenantInv
    <2> QED
        BY <2>4, <2>5, <2>7, <2>14 DEF AdminInv
<1> QED
    BY <1>2, <1>3 DEF SetQuota

\* Steps of requests for roles.
LEMMA DeletionsStay ==
    ASSUME DeletionInv, Passive({"role_delete"}),
           \A i \in DOMAIN roles : i \in DOMAIN roles' /\ roles'[i] = roles[i]
    PROVE  DeletionInv'
<1>1. ASSUME NEW c \in Callers, Asked[c].op = "role_delete", req'[c].at \in {"delete", "audit", "200"}
      PROVE  req'[c].at = req[c].at /\ req'[c].row = req[c].row
    BY <1>1 DEF Passive, Ends
<1> QED
    BY <1>1 DEF DeletionInv

LEMMA SeedsStay ==
    ASSUME SeedInv, Passive({"seed"}),
           \A i \in DOMAIN roles : /\ i \in DOMAIN roles'
                                   /\ roles'[i].tenant = roles[i].tenant
                                   /\ roles'[i].name = roles[i].name
    PROVE  SeedInv'
<1>1. ASSUME NEW c \in Callers, Asked[c].op = "seed"
      PROVE  /\ req'[c].seen = req[c].seen
             /\ req'[c].at \in {"audit", "200"} => req'[c].at = req[c].at
    BY <1>1 DEF Passive, Ends
<1>2. ASSUME NEW c \in Callers, Asked[c].op = "seed", NEW i \in 1 .. req'[c].seen
      PROVE  \E j \in DOMAIN roles' : Named(roles'[j], Asked[c].tenant, Defaults[i])
    <2>1. PICK j \in DOMAIN roles : Named(roles[j], Asked[c].tenant, Defaults[i])
        BY <1>1, <1>2 DEF SeedInv
    <2> QED
        BY <2>1 DEF Named
<1> QED
    BY <1>1, <1>2 DEF SeedInv

LEMMA RowShape ==
    ASSUME NEW tenant, NEW role
    PROVE  /\ IsRow(Row(tenant, role)) /\ Row(tenant, role).live
           /\ Named(Row(tenant, role), tenant, role)
    BY DEF IsRow, Row, Named

LEMMA RowMarked ==
    ASSUME NEW r, IsRow(r), NEW s, s = [r EXCEPT !.live = FALSE]
    PROVE  IsRow(s) /\ s.live = FALSE /\ s.tenant = r.tenant /\ s.name = r.name
<1>1. PICK t, nm, a, d, l :
        r = [tenant |-> t, name |-> nm, allowed |-> a, denied |-> d, live |-> l]
    BY Zenon DEF IsRow
<1>2. s = [tenant |-> t, name |-> nm, allowed |-> a, denied |-> d, live |-> FALSE]
    BY <1>1
<1> QED
    BY <1>1, <1>2 DEF IsRow

LEMMA RoleAdded ==
    ASSUME AdminInv, NEW row, IsRow(row), roles' = Append(roles, row),
           UNCHANGED <<tenants, quotas, imageVars>>
    PROVE  /\ TableShapes'
           /\ \E n \in Nat : /\ n = Len(roles) /\ DOMAIN roles = 1 .. n /\ DOMAIN roles' = 1 .. n + 1
                             /\ \A i \in 1 .. n : roles'[i] = roles[i]
                             /\ roles'[n + 1] = row
<1>1. PICK S : roles \in Seq(S)
    BY DEF AdminInv, TableShapes
<1>2. PICK n \in Nat :
        /\ n = Len(roles) /\ DOMAIN roles = 1 .. n /\ DOMAIN roles' = 1 .. n + 1
        /\ \A i \in 1 .. n : roles'[i] = roles[i]
        /\ roles'[n + 1] = row
        /\ roles' \in Seq(S \cup {row})
    <2>1. PICK s, t : s = roles /\ t = roles'
        OBVIOUS
    <2>2. s \in Seq(S) /\ t = Append(s, row)
        BY <1>1, <2>1
    <2>3. Grown(s, t, row, S)
        BY <2>2, RowAppended, Zenon
    <2> QED
        BY <2>1, <2>3, Zenon DEF Grown
<1>3. \A i \in 1 .. n + 1 : IsRow(roles'[i])
    <2>1. ASSUME NEW i \in 1 .. n + 1
          PROVE  IsRow(roles'[i])
        <3>1. CASE i \in 1 .. n
            <4>1. roles'[i] = roles[i] /\ IsRow(roles[i])
                BY <1>2, <3>1 DEF AdminInv, TableShapes
            <4> QED
                BY Zenon, <4>1
        <3>2. CASE i = n + 1
            BY Zenon, <1>2, <3>2
        <3>3. i \in 1 .. n \/ i = n + 1
            OBVIOUS
        <3> QED
            BY Zenon, <3>1, <3>2, <3>3
    <2> QED
        BY <2>1
<1>4. DOMAIN roles' = 1 .. n + 1 /\ roles' \in Seq(S \cup {row})
    BY <1>2
<1>5. TableShapes'
    BY <1>3, <1>4 DEF AdminInv, TableShapes, imageVars
<1> QED
    BY <1>2, <1>5

LEMMA CreateRoleKeeps ==
    ASSUME AdminInv, NEW c \in Callers, CreateRole(c)
    PROVE  AdminInv'
<1>1. Asked[c].op = "role" /\ UNCHANGED <<tenants, quotas, imageVars>>
    BY DEF CreateRole, Takes
<1>2. CASE roles' = roles /\ (Goto(c, "409") \/ Goto(c, "500"))
    BY <1>1, <1>2, EndKeepsAdmin DEF Ends, Places, Answers
<1>3. CASE /\ roles' = Append(roles, Row(Asked[c].tenant, Asked[c].role))
           /\ WithRow(c, "audit", Len(roles) + 1)
    <2>1. PICK n \in Nat :
            /\ n = Len(roles) /\ DOMAIN roles = 1 .. n /\ DOMAIN roles' = 1 .. n + 1
            /\ \A i \in 1 .. n : roles'[i] = roles[i]
        BY <1>1, <1>3, RowShape, RoleAdded
    <2>2. TableShapes'
        BY <1>1, <1>3, RowShape, RoleAdded
    <2>3. RequestShapes' /\ \A d \in Callers \ {c} : req'[d] = req[d]
        <3>1. n + 1 \in Nat /\ WithRow(c, "audit", n + 1)
            BY <1>3, <2>1
        <3>2. "audit" \in Places /\ Asked[c].op \in Audited
            BY <1>1 DEF Places, Audited
        <3> QED
            BY <3>1, <3>2, WithRowMoves DEF AdminInv
    <2>4. Passive(Claiming \ {"role"})
        BY <1>1, <2>3 DEF Passive
    <2>5. /\ Passive({"tenant"}) /\ Passive({"role_delete"}) /\ Passive({"seed"})
          /\ Passive({"build", "push", "pull"})
        BY <2>4 DEF Passive, Claiming
    <2>6. \A i \in DOMAIN roles : i \in DOMAIN roles' /\ roles'[i] = roles[i]
        BY <2>1
    <2> QED
        BY <1>1, <2>2, <2>3, <2>5, <2>6, PassiveTenants, DeletionsStay, SeedsStay, PassiveImages
           DEF AdminInv
<1> QED
    BY <1>2, <1>3 DEF CreateRole, Fails

LEMMA FindRoleKeeps ==
    ASSUME AdminInv, NEW c \in Callers, FindRole(c)
    PROVE  AdminInv'
<1>1. Asked[c].op = "role_delete" /\ UNCHANGED <<tenants, quotas, roles, imageVars>>
    BY DEF FindRole, Takes
<1>2. CASE Goto(c, "404") \/ Goto(c, "500")
    BY <1>1, <1>2, EndKeepsAdmin DEF Ends, Places, Answers
<1>3. ASSUME NEW i, i = Asked[c].id, i \in DOMAIN roles, WithRow(c, "delete", i)
      PROVE  AdminInv'
    <2>1. i \in Nat
        <3>1. PICK S : roles \in Seq(S)
            BY DEF AdminInv, TableShapes
        <3>2. DOMAIN roles = 1 .. Len(roles) /\ Len(roles) \in Nat
            BY <3>1, LenProperties
        <3> QED
            BY <1>3, <3>2
    <2>2. /\ RequestShapes'
          /\ req'[c] = [at |-> "delete", row |-> i, seen |-> req[c].seen]
          /\ \A d \in Callers \ {c} : req'[d] = req[d]
        BY <1>3, <2>1, WithRowMoves DEF AdminInv, Places
    <2>3. TableShapes'
        BY <1>1 DEF AdminInv, TableShapes, imageVars
    <2>4. Passive({"tenant"}) /\ Passive({"seed"}) /\ Passive({"build", "push", "pull"})
        BY <1>1, <2>2 DEF Passive
    <2>5. ASSUME NEW d \in Callers, Asked[d].op = "role_delete", req'[d].at \in {"audit", "200"}
          PROVE  req'[d] = req[d]
        BY <2>2, <2>5
    <2>6. DeletionInv'
        BY <1>1, <1>3, <2>2, <2>5 DEF AdminInv, DeletionInv
    <2> QED
        BY <1>1, <2>2, <2>3, <2>4, <2>6, PassiveTenants, PassiveSeeds, PassiveImages DEF AdminInv
<1> QED
    BY <1>2, <1>3 DEF FindRole, Fails

LEMMA DropRoleKeeps ==
    ASSUME AdminInv, NEW c \in Callers, DropRole(c)
    PROVE  AdminInv'
<1>1. /\ Asked[c].op = "role_delete" /\ req[c].at = "delete"
      /\ UNCHANGED <<tenants, quotas, imageVars>>
    BY DEF DropRole, On
<1>2. CASE roles' = roles /\ (Goto(c, "404") \/ Goto(c, "500"))
    BY <1>1, <1>2, EndKeepsAdmin DEF Ends, Places, Answers
<1>3. ASSUME NEW k, k = req[c].row, roles[k].live, roles' = [roles EXCEPT ![k].live = FALSE],
             Goto(c, "audit")
      PROVE  AdminInv'
    <2>1. PICK S : roles \in Seq(S)
        BY DEF AdminInv, TableShapes
    <2>2. PICK n \in Nat : n = Len(roles) /\ DOMAIN roles = 1 .. n
        BY <2>1, LenProperties
    <2>3. k \in 1 .. n
        BY <1>1, <1>3, <2>2 DEF AdminInv, DeletionInv
    <2>4. /\ RequestShapes'
          /\ req'[c] = [at |-> "audit", row |-> k, seen |-> req[c].seen]
          /\ \A d \in Callers \ {c} : req'[d] = req[d]
        BY <1>1, <1>3, GotoMoves DEF AdminInv, Places, Audited
    <2>5. PICK row : row = [roles[k] EXCEPT !.live = FALSE]
        OBVIOUS
    <2>6. IsRow(row) /\ row.live = FALSE /\ row.tenant = roles[k].tenant /\ row.name = roles[k].name
        <3>1. IsRow(roles[k])
            BY <2>2, <2>3 DEF AdminInv, TableShapes
        <3> QED
            BY <2>5, <3>1, RowMarked
    <2>7. roles' = [roles EXCEPT ![k] = row]
        BY <1>3, <2>5
    <2>8. /\ DOMAIN roles' = 1 .. n /\ roles'[k] = row
          /\ \A i \in 1 .. n : i # k => roles'[i] = roles[i]
        BY <2>2, <2>3, <2>7
    <2>9. roles' \in Seq(S \cup {row})
        <3>1. roles \in Seq(S \cup {row})
            BY <2>1, SeqMonotonic
        <3> QED
            BY <2>2, <2>3, <2>7, <3>1, ExceptSeq
    <2>10. \A i \in DOMAIN roles' : IsRow(roles'[i])
        <3>1. ASSUME NEW i \in 1 .. n
              PROVE  IsRow(roles'[i])
            <4>1. CASE i = k
                BY Zenon, <2>6, <2>8, <4>1
            <4>2. CASE i # k
                <5>1. roles'[i] = roles[i] /\ IsRow(roles[i])
                    BY <2>2, <2>8, <4>2 DEF AdminInv, TableShapes
                <5> QED
                    BY Zenon, <5>1
            <4> QED
                BY <4>1, <4>2
        <3> QED
            BY <2>8, <3>1
    <2>11. TableShapes'
        BY <1>1, <2>9, <2>10 DEF AdminInv, TableShapes, imageVars
    <2>12. Passive({"tenant"}) /\ Passive({"seed"}) /\ Passive({"build", "push", "pull"})
        BY <1>1, <2>4 DEF Passive
    <2>13. \A i \in DOMAIN roles : /\ i \in DOMAIN roles'
                                   /\ roles'[i].tenant = roles[i].tenant
                                   /\ roles'[i].name = roles[i].name
        BY <2>2, <2>6, <2>8
    <2>14. \A i \in DOMAIN roles : i \in DOMAIN roles' /\ (roles[i].live = FALSE => roles'[i].live = FALSE)
        BY <2>2, <2>6, <2>8
    <2>15. \A d \in Callers : Asked[d].op = "role_delete" /\ req[d].at \in {"audit", "200"}
             => req[d].row # k
        BY <1>3 DEF AdminInv, DeletionInv
    <2>16. ASSUME NEW d \in Callers, Asked[d].op = "role_delete"
           PROVE  /\ req'[d].at = "delete" => req'[d].row \in DOMAIN roles'
                  /\ req'[d].at \in {"audit", "200"} =>
                       req'[d].row \in DOMAIN roles' /\ roles'[req'[d].row].live = FALSE
        <3>1. CASE d = c
            <4>1. req'[d].at = "audit" /\ req'[d].row = k
                BY <2>4, <3>1
            <4>2. k \in DOMAIN roles' /\ roles'[k].live = FALSE
                BY <2>3, <2>6, <2>8
            <4> QED
                BY <4>1, <4>2
        <3>2. CASE d # c
            <4>1. req'[d] = req[d]
                BY <2>4, <3>2
            <4> QED
                BY <2>14, <2>16, <4>1 DEF AdminInv, DeletionInv
        <3> QED
            BY <3>1, <3>2
    <2>17. ASSUME NEW d \in Callers, NEW e \in Callers,
                  Asked[d].op = "role_delete", req'[d].at \in {"audit", "200"},
                  Asked[e].op = "role_delete", req'[e].at \in {"audit", "200"},
                  req'[d].row = req'[e].row
           PROVE  d = e
        <3>1. \A f \in Callers \ {c} : req'[f] = req[f]
            BY <2>4
        <3>2. req'[c].row = k
            BY <2>4
        <3> QED
            BY <2>15, <2>17, <3>1, <3>2 DEF AdminInv, DeletionInv
    <2>18. DeletionInv'
        BY <2>16, <2>17 DEF DeletionInv
    <2> QED
        BY <1>1, <2>4, <2>11, <2>12, <2>13, <2>18, PassiveTenants, SeedsStay, PassiveImages
           DEF AdminInv
<1> QED
    BY <1>2, <1>3 DEF DropRole, Fails

LEMMA SeedStarts ==
    ASSUME AdminInv, NEW c \in Callers, Seed(c)
    PROVE  AdminInv'
    BY EndKeepsAdmin DEF Seed, Ends, Places

\* A seed passes a default role when a row has its name.
LEMMA SeedOneKeeps ==
    ASSUME AdminInv, NEW c \in Callers, SeedOne(c)
    PROVE  AdminInv'
<1>1. /\ Asked[c].op = "seed" /\ req[c].at = "seeding" /\ req[c].seen < Len(Defaults)
      /\ UNCHANGED <<tenants, quotas, imageVars>>
    BY DEF SeedOne, On
<1>2. CASE Fails(c) /\ roles' = roles
    BY <1>1, <1>2, EndKeepsAdmin DEF Fails, Ends, Places, Answers
<1>3. ASSUME NEW role, role = Defaults[req[c].seen + 1], NEW tenant, tenant = Asked[c].tenant,
             req' = [req EXCEPT ![c].seen = @ + 1],
             roles' = IF RoleOf(tenant, role.name) # {} THEN roles
                      ELSE Append(roles, Row(tenant, role))
      PROVE  AdminInv'
    <2>1. PICK m \in Nat : m = req[c].seen
        BY DEF AdminInv, RequestShapes
    <2>2. PICK top \in Nat : top = Len(Defaults) /\ m + 1 <= top
        <3>1. Len(Defaults) \in Nat
            BY AdminAssumption
        <3> QED
            BY <1>1, <2>1, <3>1
    <2>3. /\ RequestShapes'
          /\ req'[c] = [at |-> "seeding", row |-> req[c].row, seen |-> m + 1]
          /\ \A d \in Callers \ {c} : req'[d] = req[d]
        <3>1. req[c] = [at |-> "seeding", row |-> req[c].row, seen |-> m]
            BY <1>1, <2>1 DEF AdminInv, RequestShapes
        <3>2. req'[c] = [at |-> "seeding", row |-> req[c].row, seen |-> m + 1]
            BY <1>3, <3>1 DEF AdminInv, RequestShapes
        <3>3. \A d \in Callers \ {c} : req'[d] = req[d]
            BY <1>3 DEF AdminInv, RequestShapes
        <3>4. req'[c] \in [at : Places, row : Nat, seen : Nat]
            BY <3>2 DEF AdminInv, RequestShapes, Places
        <3>5. req' = [d \in Callers |-> req'[d]]
            BY <1>3 DEF AdminInv, RequestShapes
        <3>6. \A d \in Callers : req'[d] \in [at : Places, row : Nat, seen : Nat]
            BY <3>3, <3>4 DEF AdminInv, RequestShapes
        <3>7. req' \in [Callers -> [at : Places, row : Nat, seen : Nat]]
            BY <3>5, <3>6
        <3> QED
            BY <3>2, <3>3, <3>7 DEF AdminInv, RequestShapes
    <2>4. /\ TableShapes'
          /\ \A i \in DOMAIN roles : i \in DOMAIN roles' /\ roles'[i] = roles[i]
          /\ \E j \in DOMAIN roles' : Named(roles'[j], tenant, role)
        <3>1. CASE RoleOf(tenant, role.name) # {}
            <4>1. roles' = roles
                BY <1>3, <3>1
            <4>2. PICK j \in DOMAIN roles : Named(roles[j], tenant, role)
                BY <3>1 DEF RoleOf, Named
            <4> QED
                BY <1>1, <4>1, <4>2 DEF AdminInv, TableShapes, imageVars
        <3>2. CASE RoleOf(tenant, role.name) = {}
            <4>1. PICK row : row = Row(tenant, role)
                OBVIOUS
            <4>2. IsRow(row) /\ Named(row, tenant, role)
                BY <4>1, RowShape
            <4>3. roles' = Append(roles, row)
                BY <1>3, <3>2, <4>1
            <4>4. TableShapes'
                BY <1>1, <4>2, <4>3, RoleAdded
            <4>5. PICK n \in Nat : /\ DOMAIN roles = 1 .. n /\ DOMAIN roles' = 1 .. n + 1
                                   /\ \A i \in 1 .. n : roles'[i] = roles[i]
                                   /\ roles'[n + 1] = row
                BY <1>1, <4>2, <4>3, RoleAdded
            <4>6. n + 1 \in DOMAIN roles' /\ Named(roles'[n + 1], tenant, role)
                BY <4>2, <4>5
            <4>7. \A i \in DOMAIN roles : i \in DOMAIN roles' /\ roles'[i] = roles[i]
                BY <4>5
            <4> QED
                BY <4>4, <4>6, <4>7
        <3> QED
            BY <3>1, <3>2
    <2>5. /\ Passive({"tenant"}) /\ Passive({"role_delete"})
          /\ Passive({"build", "push", "pull"})
        BY <1>1, <2>3 DEF Passive
    <2>6. ASSUME NEW d \in Callers, Asked[d].op = "seed"
          PROVE  /\ req'[d].seen <= Len(Defaults)
                 /\ req'[d].at \in {"audit", "200"} => req'[d].seen = Len(Defaults)
                 /\ \A i \in 1 .. req'[d].seen : \E j \in DOMAIN roles' :
                      Named(roles'[j], Asked[d].tenant, Defaults[i])
        <3>1. ASSUME NEW i \in 1 .. req[d].seen
              PROVE  \E j \in DOMAIN roles' : Named(roles'[j], Asked[d].tenant, Defaults[i])
            <4>1. PICK j \in DOMAIN roles : Named(roles[j], Asked[d].tenant, Defaults[i])
                BY <2>6, <3>1 DEF AdminInv, SeedInv
            <4>2. j \in DOMAIN roles' /\ roles'[j] = roles[j]
                BY <2>4
            <4> QED
                BY <4>1, <4>2
        <3>2. CASE d # c
            <4>1. req'[d] = req[d]
                BY <2>3, <3>2
            <4> QED
                BY <2>6, <3>1, <4>1 DEF AdminInv, SeedInv
        <3>3. CASE d = c
            <4>1. req'[d].at = "seeding" /\ req'[d].seen = m + 1 /\ req[d].seen = m
                BY <2>1, <2>3, <3>3
            <4>2. ASSUME NEW i \in 1 .. m + 1
                  PROVE  \E j \in DOMAIN roles' : Named(roles'[j], Asked[d].tenant, Defaults[i])
                <5>1. CASE i \in 1 .. m
                    BY <3>1, <4>1, <5>1
                <5>2. CASE i = m + 1
                    <6>1. role = Defaults[i] /\ tenant = Asked[d].tenant
                        BY <1>3, <2>1, <3>3, <5>2
                    <6> QED
                        BY <2>4, <6>1
                <5>3. i \in 1 .. m \/ i = m + 1
                    OBVIOUS
                <5> QED
                    BY <5>1, <5>2, <5>3
            <4> QED
                BY <2>2, <4>1, <4>2
        <3> QED
            BY <3>2, <3>3
    <2>7. SeedInv'
        BY <2>6 DEF SeedInv
    <2> QED
        BY <1>1, <2>3, <2>4, <2>5, <2>7, PassiveTenants, DeletionsStay, PassiveImages DEF AdminInv
<1> QED
    BY <1>2, <1>3 DEF SeedOne

LEMMA SeedEndsKeeps ==
    ASSUME AdminInv, NEW c \in Callers, SeedEnds(c)
    PROVE  AdminInv'
<1>1. /\ Asked[c].op = "seed" /\ req[c].at = "seeding" /\ req[c].seen = Len(Defaults)
      /\ Goto(c, "audit") /\ UNCHANGED <<tenants, quotas, roles, imageVars>>
    BY DEF SeedEnds, On
<1>2. /\ RequestShapes'
      /\ req'[c] = [at |-> "audit", row |-> req[c].row, seen |-> req[c].seen]
      /\ \A d \in Callers \ {c} : req'[d] = req[d]
    BY <1>1, GotoMoves DEF AdminInv, Places, Audited
<1>3. TableShapes'
    BY <1>1 DEF AdminInv, TableShapes, imageVars
<1>4. Passive({"tenant"}) /\ Passive({"role_delete"}) /\ Passive({"build", "push", "pull"})
    BY <1>1, <1>2 DEF Passive
<1>5. ASSUME NEW d \in Callers
      PROVE  /\ req'[d].seen = req[d].seen
             /\ req'[d].at \in {"audit", "200"} => d = c \/ req'[d].at = req[d].at
    BY <1>2
<1>6. SeedInv'
    BY <1>1, <1>5 DEF AdminInv, SeedInv
<1> QED
    BY <1>1, <1>2, <1>3, <1>4, <1>6, PassiveTenants, PassiveDeletions, PassiveImages DEF AdminInv

\* The entry of the audit log comes last; whether it is written, the answer is 200.
LEMMA RecordRoleKeeps ==
    ASSUME AdminInv, NEW c \in Callers, RecordRole(c)
    PROVE  AdminInv'
<1>1. /\ req[c].at = "audit" /\ Goto(c, "200")
      /\ UNCHANGED <<tenants, quotas, roles, imageVars>>
    BY DEF RecordRole
<1>2. Asked[c].op \in Audited
    BY <1>1 DEF AdminInv, RequestShapes
<1>3. /\ RequestShapes'
      /\ req'[c] = [at |-> "200", row |-> req[c].row, seen |-> req[c].seen]
      /\ \A d \in Callers \ {c} : req'[d] = req[d]
    BY <1>1, GotoMoves DEF AdminInv, Places, Answers
<1>4. TableShapes'
    BY <1>1 DEF AdminInv, TableShapes, imageVars
<1>5. Passive({"tenant"}) /\ Passive({"build", "push", "pull"})
    BY <1>2, <1>3 DEF Passive, Audited
<1>6. ASSUME NEW d \in Callers
      PROVE  /\ req'[d].row = req[d].row /\ req'[d].seen = req[d].seen
             /\ req'[d].at = "delete" => req[d].at = "delete"
             /\ req'[d].at \in {"audit", "200"} => req[d].at \in {"audit", "200"}
    <2>1. CASE d = c
        BY <1>1, <1>3, <2>1
    <2>2. CASE d # c
        BY <1>3, <2>2
    <2> QED
        BY <2>1, <2>2
<1>7. DeletionInv'
    BY <1>1, <1>6 DEF AdminInv, DeletionInv
<1>8. SeedInv'
    BY <1>1, <1>6 DEF AdminInv, SeedInv
<1> QED
    BY <1>1, <1>3, <1>4, <1>5, <1>7, <1>8, PassiveTenants, PassiveImages DEF AdminInv

-----------------------------------------------------------------------------
(* Steps of requests for images, and of the scripts they start.              *)

\* The claims of ImageInv, when no table forgets a build and every new claim holds.
LEMMA ImageClaims ==
    ASSUME ImageInv,
           \A i \in Images : /\ tagged[i] # None => tagged'[i] # None
                             /\ registry[i] # None => registry'[i] # None
                             /\ node[i] # None => node'[i] # None,
           \A d \in Callers :
             /\ script'[d] = "pushes" => script[d] = "pushes" \/ tagged'[RockyBase] # None
             /\ script'[d] = "ended" => script[d] = "ended" \/ registry'[RockyBase] # None
             /\ req'[d].at = "200" =>
                  \/ req[d].at = "200"
                  \/ /\ Asked[d].op = "build" => registry'[RockyBase] # None
                     /\ Asked[d].op = "push" => registry'[Asked[d].image] # None
                     /\ Asked[d].op = "pull" => node'[Asked[d].image] # None
             /\ req'[d].at = "tagged" =>
                  \/ req[d].at = "tagged"
                  \/ Asked[d].op = "push" => tagged'[Asked[d].image] # None
             /\ req'[d].at = "pushed" =>
                  \/ req[d].at = "pushed"
                  \/ Asked[d].op = "push" => registry'[Asked[d].image] # None
    PROVE  ImageInv'
<1>1. RockyBase \in Images /\ \A d \in Callers : Asked[d].image \in Images
    BY AdminAssumption
<1> QED
    BY <1>1 DEF ImageInv

LEMMA ImageStepKeeps ==
    ASSUME AdminInv, RequestShapes', TableShapes', ImageInv',
           UNCHANGED <<tenants, quotas, roles>>, Passive({"tenant", "role_delete", "seed"})
    PROVE  AdminInv'
<1>1. Passive({"tenant"}) /\ Passive({"role_delete"}) /\ Passive({"seed"})
    BY DEF Passive
<1> QED
    BY <1>1, PassiveTenants, PassiveDeletions, PassiveSeeds DEF AdminInv

LEMMA TellsMoves ==
    ASSUME AdminInv, NEW c \in Callers, Asked[c].op \in {"build", "push", "pull"},
           NEW x \in Places \ {"audit"}, Tells(c, x)
    PROVE  /\ RequestShapes' /\ UNCHANGED <<tenants, quotas, roles>>
           /\ Passive({"tenant", "role_delete", "seed"})
           /\ req'[c].at = x
           /\ \A d \in Callers \ {c} : req'[d] = req[d]
<1>1. /\ RequestShapes'
      /\ req'[c] = [at |-> x, row |-> req[c].row, seen |-> req[c].seen]
      /\ \A d \in Callers \ {c} : req'[d] = req[d]
    BY GotoMoves DEF AdminInv, Tells
<1> QED
    BY <1>1 DEF Passive, Tells

LEMMA BuildKeeps ==
    ASSUME AdminInv, NEW c \in Callers, Build(c)
    PROVE  AdminInv'
<1>1. Asked[c].op = "build" /\ req[c].at = "here" /\ UNCHANGED <<built, tagged, registry, node>>
    BY DEF Build, On
<1>2. PICK x \in {"waits", "500"} : Tells(c, x)
    BY DEF Build
<1>3. x \in Places \ {"audit"}
    BY DEF Places, Answers
<1>4. script' = script \/ script' = [script EXCEPT ![c] = "builds"]
    BY DEF Build
<1>5. /\ RequestShapes' /\ UNCHANGED <<tenants, quotas, roles>>
      /\ Passive({"tenant", "role_delete", "seed"})
      /\ req'[c].at = x /\ \A d \in Callers \ {c} : req'[d] = req[d]
    BY <1>1, <1>2, <1>3, TellsMoves
<1>6. TableShapes'
    BY <1>1, <1>4, <1>5 DEF AdminInv, TableShapes
<1>7. \A d \in Callers : script'[d] = script[d] \/ script'[d] = "builds"
    BY <1>4 DEF AdminInv, TableShapes
<1>8. ImageInv'
    BY <1>1, <1>5, <1>7, ImageClaims DEF AdminInv
<1> QED
    BY <1>5, <1>6, <1>8, ImageStepKeeps

LEMMA ScriptStepKeeps ==
    ASSUME AdminInv, NEW c \in Callers, ScriptBuilds(c) \/ ScriptPushes(c)
    PROVE  AdminInv'
<1>1. RequestShapes' /\ UNCHANGED <<req, tenants, quotas, roles, node>>
    BY DEF ScriptBuilds, ScriptPushes, gatewayVars, AdminInv, RequestShapes
<1>2. RockyBase \in Images
    BY AdminAssumption
<1>3. CASE ScriptBuilds(c)
    <2>1. PICK b \in Nat : b = built[RockyBase] + 1 /\ b # None
        <3>1. built[RockyBase] \in Nat
            BY <1>2 DEF AdminInv, TableShapes
        <3> QED
            BY <3>1 DEF None
    <2>2. registry' = registry
        BY <1>3 DEF ScriptBuilds
    <2>3. built' \in {built, [built EXCEPT ![RockyBase] = b]}
        BY <1>3, <2>1 DEF ScriptBuilds
    <2>4. \/ tagged' = [tagged EXCEPT ![RockyBase] = b] /\ script' = [script EXCEPT ![c] = "pushes"]
          \/ tagged' = tagged /\ script' = [script EXCEPT ![c] = "failed"]
        BY <1>3, <2>1 DEF ScriptBuilds
    <2>5. TableShapes'
        BY <1>1, <1>2, <2>2, <2>3, <2>4 DEF AdminInv, TableShapes
    <2>6. \A i \in Images : tagged[i] # None => tagged'[i] # None
        BY <2>1, <2>4 DEF AdminInv, TableShapes
    <2>7. \A d \in Callers :
            /\ script'[d] = "pushes" => script[d] = "pushes" \/ tagged'[RockyBase] # None
            /\ script'[d] = "ended" => script[d] = "ended"
        <3>1. CASE tagged' = [tagged EXCEPT ![RockyBase] = b] /\ script' = [script EXCEPT ![c] = "pushes"]
            <4>1. tagged'[RockyBase] = b
                BY <1>2, <3>1 DEF AdminInv, TableShapes
            <4>2. \A d \in Callers : script'[d] = "ended" => script[d] = "ended"
                BY <3>1 DEF AdminInv, TableShapes
            <4> QED
                BY <2>1, <4>1, <4>2
        <3>2. CASE tagged' = tagged /\ script' = [script EXCEPT ![c] = "failed"]
            BY <3>2 DEF AdminInv, TableShapes
        <3> QED
            BY <2>4, <3>1, <3>2
    <2>8. ImageInv'
        BY <1>1, <2>2, <2>6, <2>7, ImageClaims DEF AdminInv
    <2> QED
        BY <1>1, <2>5, <2>8, ImageStepKeeps DEF Passive
<1>4. CASE ScriptPushes(c)
    <2>1. script[c] = "pushes" /\ UNCHANGED <<built, tagged>>
        BY <1>4 DEF ScriptPushes
    <2>2. PICK b \in Nat : b = tagged[RockyBase] /\ b # None
        BY <1>2, <2>1 DEF AdminInv, TableShapes, ImageInv
    <2>3. \/ registry' = [registry EXCEPT ![RockyBase] = b] /\ script' = [script EXCEPT ![c] = "ended"]
          \/ registry' = registry /\ script' = [script EXCEPT ![c] = "failed"]
        BY <1>4, <2>2 DEF ScriptPushes
    <2>4. TableShapes'
        BY <1>1, <1>2, <2>1, <2>3 DEF AdminInv, TableShapes
    <2>5. \A i \in Images : registry[i] # None => registry'[i] # None
        BY <2>2, <2>3 DEF AdminInv, TableShapes
    <2>6. \A d \in Callers :
            /\ script'[d] = "pushes" => script[d] = "pushes"
            /\ script'[d] = "ended" => script[d] = "ended" \/ registry'[RockyBase] # None
        <3>1. CASE registry' = [registry EXCEPT ![RockyBase] = b] /\ script' = [script EXCEPT ![c] = "ended"]
            <4>1. registry'[RockyBase] = b
                BY <1>2, <3>1 DEF AdminInv, TableShapes
            <4>2. \A d \in Callers : script'[d] = "pushes" => script[d] = "pushes"
                BY <3>1 DEF AdminInv, TableShapes
            <4> QED
                BY <2>2, <4>1, <4>2
        <3>2. CASE registry' = registry /\ script' = [script EXCEPT ![c] = "failed"]
            BY <3>2 DEF AdminInv, TableShapes
        <3> QED
            BY <2>3, <3>1, <3>2
    <2>7. ImageInv'
        BY <1>1, <2>1, <2>5, <2>6, ImageClaims DEF AdminInv
    <2> QED
        BY <1>1, <2>4, <2>7, ImageStepKeeps DEF Passive
<1> QED
    BY <1>3, <1>4

LEMMA BuildEndsKeeps ==
    ASSUME AdminInv, NEW c \in Callers, BuildEnds(c)
    PROVE  AdminInv'
<1>1. Asked[c].op = "build" /\ UNCHANGED imageVars
    BY DEF BuildEnds, On
<1>2. PICK x \in {"200", "500"} : Tells(c, x) /\ (x = "200" => script[c] = "ended")
    BY DEF BuildEnds
<1>3. x \in Places \ {"audit"}
    BY DEF Places, Answers
<1>4. /\ RequestShapes' /\ UNCHANGED <<tenants, quotas, roles>>
      /\ Passive({"tenant", "role_delete", "seed"})
      /\ req'[c].at = x /\ \A d \in Callers \ {c} : req'[d] = req[d]
    BY <1>1, <1>2, <1>3, TellsMoves
<1>5. TableShapes'
    BY <1>1, <1>4 DEF AdminInv, TableShapes, imageVars
<1>6. x = "200" => registry'[RockyBase] # None
    BY <1>1, <1>2 DEF AdminInv, ImageInv, imageVars
<1>7. ImageInv'
    BY <1>1, <1>4, <1>6, ImageClaims DEF AdminInv, imageVars
<1> QED
    BY <1>4, <1>5, <1>7, ImageStepKeeps

LEMMA TagKeeps ==
    ASSUME AdminInv, NEW c \in Callers, Tag(c)
    PROVE  AdminInv'
<1>1. Asked[c].op = "push" /\ UNCHANGED <<script, built, registry, node>>
    BY DEF Tag, On
<1>2. PICK i \in Images : i = Asked[c].image
    BY AdminAssumption
<1>3. PICK x \in {"tagged", "500"} :
        /\ Tells(c, x)
        /\ \/ x = "tagged" /\ built[i] # None /\ tagged' = [tagged EXCEPT ![i] = built[i]]
           \/ x = "500" /\ tagged' = tagged
    BY <1>2 DEF Tag
<1>4. x \in Places \ {"audit"}
    BY DEF Places, Answers
<1>5. /\ RequestShapes' /\ UNCHANGED <<tenants, quotas, roles>>
      /\ Passive({"tenant", "role_delete", "seed"})
      /\ req'[c].at = x /\ \A d \in Callers \ {c} : req'[d] = req[d]
    BY <1>1, <1>3, <1>4, TellsMoves
<1>6. TableShapes'
    BY <1>1, <1>3, <1>5 DEF AdminInv, TableShapes
<1>7. \A k \in Images : tagged[k] # None => tagged'[k] # None
    BY <1>3 DEF AdminInv, TableShapes
<1>8. x = "tagged" => tagged'[i] # None
    BY <1>3 DEF AdminInv, TableShapes
<1>9. ImageInv'
    BY <1>1, <1>2, <1>5, <1>7, <1>8, ImageClaims DEF AdminInv
<1> QED
    BY <1>5, <1>6, <1>9, ImageStepKeeps

LEMMA PushTaggedKeeps ==
    ASSUME AdminInv, NEW c \in Callers, PushTagged(c)
    PROVE  AdminInv'
<1>1. Asked[c].op = "push" /\ req[c].at = "tagged" /\ UNCHANGED <<script, built, tagged, node>>
    BY DEF PushTagged, On
<1>2. PICK i \in Images : i = Asked[c].image
    BY AdminAssumption
<1>3. PICK x \in {"pushed", "500"} :
        /\ Tells(c, x)
        /\ \/ x = "pushed" /\ registry' = [registry EXCEPT ![i] = tagged[i]]
           \/ x = "500" /\ registry' = registry
    BY <1>2 DEF PushTagged
<1>4. tagged[i] # None
    BY <1>1, <1>2 DEF AdminInv, ImageInv
<1>5. x \in Places \ {"audit"}
    BY DEF Places, Answers
<1>6. /\ RequestShapes' /\ UNCHANGED <<tenants, quotas, roles>>
      /\ Passive({"tenant", "role_delete", "seed"})
      /\ req'[c].at = x /\ \A d \in Callers \ {c} : req'[d] = req[d]
    BY <1>1, <1>3, <1>5, TellsMoves
<1>7. TableShapes'
    BY <1>1, <1>3, <1>6 DEF AdminInv, TableShapes
<1>8. \A k \in Images : registry[k] # None => registry'[k] # None
    BY <1>3, <1>4 DEF AdminInv, TableShapes
<1>9. x = "pushed" => registry'[i] # None
    BY <1>3, <1>4 DEF AdminInv, TableShapes
<1>10. ImageInv'
    BY <1>1, <1>2, <1>6, <1>8, <1>9, ImageClaims DEF AdminInv
<1> QED
    BY <1>6, <1>7, <1>10, ImageStepKeeps

LEMMA DigestKeeps ==
    ASSUME AdminInv, NEW c \in Callers, Digest(c)
    PROVE  AdminInv'
<1>1. Asked[c].op = "push" /\ req[c].at = "pushed" /\ UNCHANGED imageVars
    BY DEF Digest, On
<1>2. PICK x \in {"200", "500"} : Tells(c, x)
    BY DEF Digest
<1>3. x \in Places \ {"audit"}
    BY DEF Places, Answers
<1>4. /\ RequestShapes' /\ UNCHANGED <<tenants, quotas, roles>>
      /\ Passive({"tenant", "role_delete", "seed"})
      /\ req'[c].at = x /\ \A d \in Callers \ {c} : req'[d] = req[d]
    BY <1>1, <1>2, <1>3, TellsMoves
<1>5. TableShapes'
    BY <1>1, <1>4 DEF AdminInv, TableShapes, imageVars
<1>6. registry'[Asked[c].image] # None
    BY <1>1 DEF AdminInv, ImageInv, imageVars
<1>7. ImageInv'
    BY <1>1, <1>4, <1>6, ImageClaims DEF AdminInv, imageVars
<1> QED
    BY <1>4, <1>5, <1>7, ImageStepKeeps

LEMMA PullKeeps ==
    ASSUME AdminInv, NEW c \in Callers, Pull(c)
    PROVE  AdminInv'
<1>1. Asked[c].op = "pull" /\ UNCHANGED <<script, built, tagged, registry>>
    BY DEF Pull, On
<1>2. PICK i \in Images : i = Asked[c].image
    BY AdminAssumption
<1>3. PICK x \in {"200", "500"} :
        /\ Tells(c, x)
        /\ \/ registry[i] # None /\ node' = [node EXCEPT ![i] = registry[i]]
           \/ x = "500" /\ node' = node
    BY <1>2 DEF Pull
<1>4. x \in Places \ {"audit"}
    BY DEF Places, Answers
<1>5. /\ RequestShapes' /\ UNCHANGED <<tenants, quotas, roles>>
      /\ Passive({"tenant", "role_delete", "seed"})
      /\ req'[c].at = x /\ \A d \in Callers \ {c} : req'[d] = req[d]
    BY <1>1, <1>3, <1>4, TellsMoves
<1>6. TableShapes'
    BY <1>1, <1>3, <1>5 DEF AdminInv, TableShapes
<1>7. \A k \in Images : node[k] # None => node'[k] # None
    BY <1>3 DEF AdminInv, TableShapes
<1>8. x = "200" => node'[i] # None
    BY <1>3 DEF AdminInv, TableShapes
<1>9. ImageInv'
    BY <1>1, <1>2, <1>5, <1>7, <1>8, ImageClaims DEF AdminInv
<1> QED
    BY <1>5, <1>6, <1>9, ImageStepKeeps

LEMMA AdminStepKeeps == AdminInv /\ AdminStep => AdminInv'
<1> SUFFICES ASSUME AdminInv, AdminStep
             PROVE  AdminInv'
    OBVIOUS
<1>1. PICK c \in Callers :
        \/ CreateTenant(c) \/ SetQuota(c) \/ GetTenant(c)
        \/ CreateRole(c) \/ FindRole(c) \/ DropRole(c) \/ Seed(c) \/ SeedOne(c) \/ SeedEnds(c)
        \/ RecordRole(c) \/ ReadRoles(c)
        \/ Build(c) \/ ScriptBuilds(c) \/ ScriptPushes(c) \/ BuildEnds(c)
        \/ Tag(c) \/ PushTagged(c) \/ Digest(c) \/ Pull(c) \/ Browse(c)
    BY DEF AdminStep
<1>2. CASE CreateTenant(c) \/ SetQuota(c)
    BY <1>2, CreateTenantKeeps, SetQuotaKeeps
<1>3. CASE CreateRole(c) \/ FindRole(c) \/ DropRole(c)
    BY <1>3, CreateRoleKeeps, FindRoleKeeps, DropRoleKeeps
<1>4. CASE Seed(c) \/ SeedOne(c) \/ SeedEnds(c) \/ RecordRole(c)
    BY <1>4, SeedStarts, SeedOneKeeps, SeedEndsKeeps, RecordRoleKeeps
<1>5. CASE GetTenant(c) \/ ReadRoles(c) \/ Browse(c)
    BY <1>5, ReadsKeep
<1>6. CASE Build(c) \/ ScriptBuilds(c) \/ ScriptPushes(c) \/ BuildEnds(c)
    BY <1>6, BuildKeeps, ScriptStepKeeps, BuildEndsKeeps
<1>7. CASE Tag(c) \/ PushTagged(c) \/ Digest(c) \/ Pull(c)
    BY <1>7, TagKeeps, PushTaggedKeeps, DigestKeeps, PullKeeps
<1> QED
    BY <1>1, <1>2, <1>3, <1>4, <1>5, <1>6, <1>7

\* An answer stays until the client has read it.
LEMMA AnswersStay ==
    ASSUME RequestShapes, AdminStep
    PROVE  \A d \in Callers : req[d].at = "200" => req'[d] = req[d]
<1>1. PICK c \in Callers :
        \/ CreateTenant(c) \/ SetQuota(c) \/ GetTenant(c)
        \/ CreateRole(c) \/ FindRole(c) \/ DropRole(c) \/ Seed(c) \/ SeedOne(c) \/ SeedEnds(c)
        \/ RecordRole(c) \/ ReadRoles(c)
        \/ Build(c) \/ ScriptBuilds(c) \/ ScriptPushes(c) \/ BuildEnds(c)
        \/ Tag(c) \/ PushTagged(c) \/ Digest(c) \/ Pull(c) \/ Browse(c)
    BY DEF AdminStep
<1>2. ASSUME NEW x, Goto(c, x)
      PROVE  \A d \in Callers \ {c} : req'[d] = req[d]
    BY <1>2 DEF Goto, RequestShapes
<1>3. ASSUME NEW x, NEW i, WithRow(c, x, i)
      PROVE  \A d \in Callers \ {c} : req'[d] = req[d]
    BY <1>3 DEF WithRow, RequestShapes
<1>4. CASE CreateTenant(c) \/ SetQuota(c) \/ GetTenant(c)
    BY <1>2, <1>3, <1>4 DEF CreateTenant, SetQuota, GetTenant, Takes, On, Fails
<1>5. CASE CreateRole(c) \/ FindRole(c) \/ DropRole(c)
    BY <1>2, <1>3, <1>5 DEF CreateRole, FindRole, DropRole, Takes, On, Fails
<1>6. CASE Seed(c) \/ SeedEnds(c) \/ RecordRole(c) \/ ReadRoles(c)
    BY <1>2, <1>6 DEF Seed, SeedEnds, RecordRole, ReadRoles, Takes, On, Fails
<1>7. CASE SeedOne(c)
    <2>1. req[c].at = "seeding"
        BY <1>7 DEF SeedOne, On
    <2>2. \A d \in Callers \ {c} : req'[d] = req[d]
        <3>1. CASE req' = [req EXCEPT ![c].seen = @ + 1]
            BY <3>1 DEF RequestShapes
        <3>2. CASE Fails(c)
            BY <1>2, <3>2 DEF Fails
        <3> QED
            BY <1>7, <3>1, <3>2 DEF SeedOne
    <2> QED
        BY <2>1, <2>2
<1>8. CASE Build(c) \/ BuildEnds(c) \/ Tag(c) \/ PushTagged(c)
    BY <1>2, <1>8 DEF Build, BuildEnds, Tag, PushTagged, On, Tells
<1>9. CASE Digest(c) \/ Pull(c) \/ Browse(c)
    BY <1>2, <1>9 DEF Digest, Pull, Browse, ListImages, ListTags, Exists, On, Tells
<1>10. CASE ScriptBuilds(c) \/ ScriptPushes(c)
    BY <1>10 DEF ScriptBuilds, ScriptPushes, gatewayVars
<1> QED
    BY <1>1, <1>4, <1>5, <1>6, <1>7, <1>8, <1>9, <1>10

-----------------------------------------------------------------------------
(* Steps of the client and of the gateway as a whole.                        *)

\* What no claim of the administration speaks of.
LEMMA TablesStay ==
    ASSUME AdminInv, UNCHANGED <<gatewayVars, imageVars>>
    PROVE  AdminInv'
<1>1. RequestShapes'
    BY DEF AdminInv, RequestShapes, gatewayVars
<1>2. Passive(Claiming)
    BY DEF Passive, gatewayVars
<1> QED
    BY <1>1, <1>2, PassiveKeeps DEF gatewayVars

\* A command shows how it stands; only what is answered 200 is shown as done.
LEMMA ShowsKeeps ==
    ASSUME ClientInv, NEW c \in Callers, NEW s \in {"off", "new", "sent", "local", "ok", "failed"},
           Shows(c, s),
           s = "local" => Asked[c].op \in AuditCommands,
           s = "ok" /\ Asked[c].op \in Claiming => req'[c].at = "200",
           \A d \in Callers \ {c} : req[d].at = "200" => req'[d].at = "200"
    PROVE  ClientInv'
<1>1. cli'[c] = s /\ \A d \in Callers \ {c} : cli'[d] = cli[d]
    BY DEF ClientInv, Shows
<1>2. cli' \in [Callers -> {"off", "new", "sent", "local", "ok", "failed"}]
    BY DEF ClientInv, Shows
<1> QED
    BY <1>1, <1>2 DEF ClientInv

LEMMA AuditClaimsNothing == AuditCommands \cap Claiming = {}
<1>1. AuditCommands = {"audit_verify", "audit_export"}
    BY DEF AuditCommands, AuditRequests
<1> QED
    BY <1>1 DEF Claiming

LEMMA GivesUpKeeps ==
    ASSUME ClientInv, NEW c \in Callers, GivesUp(c),
           \A d \in Callers \ {c} : req[d].at = "200" => req'[d].at = "200"
    PROVE  ClientInv'
    BY ShowsKeeps DEF GivesUp

LEMMA CommandKeeps ==
    ASSUME OperatorInv, NEW c \in Callers, Command(c)
    PROVE  OperatorInv'
<1> USE DEF OperatorInv
<1>1. CASE Refuse(c) \/ Unreachable(c) \/ LocalOnly(c)
    <2>1. UNCHANGED <<gatewayVars, imageVars>>
        BY <1>1 DEF Refuse, Unreachable, LocalOnly
    <2>2. UNCHANGED req
        BY <2>1 DEF gatewayVars
    <2>3. GivesUp(c) \/ Shows(c, "failed") \/ (Shows(c, "local") /\ Asked[c].op \in AuditCommands)
        BY <1>1 DEF Refuse, Unreachable, LocalOnly
    <2>4. ClientInv'
        BY <2>2, <2>3, GivesUpKeeps, ShowsKeeps
    <2> QED
        BY <2>1, <2>4, TablesStay
<1>2. CASE PrintOnly(c) \/ ReadFile(c)
    <2>1. UNCHANGED <<gatewayVars, imageVars>>
        BY <1>2 DEF PrintOnly, ReadFile
    <2>2. UNCHANGED req
        BY <2>1 DEF gatewayVars
    <2>3. Asked[c].op \notin Claiming
        <3>1. CASE PrintOnly(c)
            BY <3>1 DEF PrintOnly, Claiming
        <3>2. CASE ReadFile(c)
            BY <3>2, AuditClaimsNothing DEF ReadFile, ClientInv
        <3> QED
            BY <1>2, <3>1, <3>2
    <2>4. Shows(c, "ok") \/ Shows(c, "failed")
        BY <1>2 DEF PrintOnly, ReadFile
    <2>5. ClientInv'
        BY <2>2, <2>3, <2>4, ShowsKeeps
    <2> QED
        BY <2>1, <2>5, TablesStay
<1>3. CASE Receive(c)
    <2>1. UNCHANGED <<gatewayVars, imageVars>>
        BY <1>3 DEF Receive
    <2>2. UNCHANGED req
        BY <2>1 DEF gatewayVars
    <2>3. GivesUp(c) \/ (Shows(c, "ok") /\ req[c].at = "200")
        BY <1>3 DEF Receive
    <2>4. ClientInv'
        BY <2>2, <2>3, GivesUpKeeps, ShowsKeeps
    <2> QED
        BY <2>1, <2>4, TablesStay
<1>4. CASE Send(c)
    <2>1. PICK x \in {"here", "404"} : Goto(c, x)
        BY <1>4 DEF Send
    <2>2. Shows(c, "sent") /\ UNCHANGED <<tenants, quotas, roles, imageVars>>
        BY <1>4 DEF Send
    <2>3. AdminInv'
        BY <2>1, <2>2, EndKeepsAdmin DEF Ends, Places, Answers
    <2>4. \A d \in Callers \ {c} : req'[d] = req[d]
        BY <2>1, GotoMoves DEF AdminInv, Places, Answers
    <2>5. ClientInv'
        BY <2>2, <2>4, ShowsKeeps
    <2> QED
        BY <2>3, <2>5
<1>5. CASE Hang(c)
    <2>1. GivesUp(c) /\ UNCHANGED <<tenants, quotas, roles, imageVars>>
        BY <1>5 DEF Hang
    <2>2. CASE Goto(c, "dropped")
        <3>1. AdminInv'
            BY <2>1, <2>2, EndKeepsAdmin DEF Ends, Places
        <3>2. \A d \in Callers \ {c} : req'[d] = req[d]
            BY <2>2, GotoMoves DEF AdminInv, Places
        <3> QED
            BY <2>1, <3>1, <3>2, GivesUpKeeps
    <2>3. CASE req' = req
        <3>1. RequestShapes'
            BY <2>3 DEF AdminInv, RequestShapes
        <3>2. Passive(Claiming)
            BY <2>3 DEF Passive
        <3> QED
            BY <2>1, <2>3, <3>1, <3>2, PassiveKeeps, GivesUpKeeps
    <2> QED
        BY <1>5, <2>2, <2>3 DEF Hang
<1> QED
    BY <1>1, <1>2, <1>3, <1>4, <1>5 DEF Command

LEMMA KillKeeps ==
    ASSUME OperatorInv, Kill
    PROVE  OperatorInv'
<1>1. UNCHANGED <<tenants, quotas, roles, imageVars>>
    BY DEF Kill
<1>2. \A d \in Callers :
        /\ req'[d] \in [at : Places, row : Nat, seen : Nat]
        /\ req'[d].row = req[d].row /\ req'[d].seen = req[d].seen
        /\ req'[d].at = req[d].at \/ req'[d].at = "lost"
        /\ req[d].at = "200" => req'[d].at = "200"
    <2>1. ASSUME NEW d \in Callers
          PROVE  /\ req'[d] \in [at : Places, row : Nat, seen : Nat]
                 /\ req'[d].row = req[d].row /\ req'[d].seen = req[d].seen
                 /\ req'[d].at = req[d].at \/ req'[d].at = "lost"
                 /\ req[d].at = "200" => req'[d].at = "200"
        <3>1. req[d] = [at |-> req[d].at, row |-> req[d].row, seen |-> req[d].seen]
            BY DEF OperatorInv, AdminInv, RequestShapes
        <3>2. req[d] \in [at : Places, row : Nat, seen : Nat]
            BY DEF OperatorInv, AdminInv, RequestShapes
        <3>3. CASE req[d].at \in Answers \cup {"none"}
            <4>1. req'[d] = req[d]
                BY <3>3 DEF Kill
            <4> QED
                BY <3>2, <4>1
        <3>4. CASE req[d].at \notin Answers \cup {"none"}
            <4>1. req'[d] = [at |-> "lost", row |-> req[d].row, seen |-> req[d].seen]
                BY <3>1, <3>4 DEF Kill
            <4> QED
                BY <3>2, <3>4, <4>1 DEF Places, Answers
        <3> QED
            BY <3>3, <3>4
    <2> QED
        BY <2>1
<1>3. RequestShapes'
    <2>1. req' = [d \in Callers |-> req'[d]]
        BY DEF Kill
    <2>2. req' \in [Callers -> [at : Places, row : Nat, seen : Nat]]
        BY <1>2, <2>1
    <2> QED
        BY <1>2, <2>2 DEF OperatorInv, AdminInv, RequestShapes
<1>4. Passive(Claiming)
    BY <1>2 DEF Passive, Ends
<1>5. \A d \in Callers : cli'[d] = cli[d] \/ cli'[d] = "failed"
                          \/ (cli'[d] = "local" /\ Asked[d].op \in AuditCommands)
    BY DEF Kill
<1>6. cli' \in [Callers -> {"off", "new", "sent", "local", "ok", "failed"}]
    <2>1. cli' = [d \in Callers |-> cli'[d]]
        BY DEF Kill
    <2>2. \A d \in Callers : cli'[d] \in {"off", "new", "sent", "local", "ok", "failed"}
        BY <1>5 DEF OperatorInv, ClientInv
    <2> QED
        BY <2>1, <2>2
<1>7. ClientInv'
    BY <1>2, <1>5, <1>6 DEF OperatorInv, ClientInv
<1> QED
    BY <1>1, <1>3, <1>4, <1>7, PassiveKeeps DEF OperatorInv

LEMMA OperatorInvStep == OperatorInv /\ [Next]_vars => OperatorInv'
<1> SUFFICES ASSUME OperatorInv, [Next]_vars
             PROVE  OperatorInv'
    OBVIOUS
<1>1. CASE AdminStep /\ UNCHANGED <<cli, up, containerfile>>
    <2>1. AdminInv'
        BY <1>1, AdminStepKeeps DEF OperatorInv
    <2>2. \A d \in Callers : req[d].at = "200" => req'[d] = req[d]
        BY <1>1, AnswersStay DEF OperatorInv, AdminInv
    <2>3. ClientInv'
        BY <1>1, <2>2 DEF OperatorInv, ClientInv
    <2> QED
        BY <2>1, <2>3 DEF OperatorInv
<1>2. CASE \E c \in Callers : Command(c)
    BY <1>2, CommandKeeps
<1>3. CASE Kill
    BY <1>3, KillKeeps
<1>4. CASE UNCHANGED <<gatewayVars, imageVars, cli>>
    <2>1. AdminInv'
        BY <1>4, TablesStay DEF OperatorInv
    <2>2. ClientInv'
        BY <1>4 DEF OperatorInv, ClientInv, gatewayVars
    <2> QED
        BY <2>1, <2>2 DEF OperatorInv
<1> QED
    BY <1>1, <1>2, <1>3, <1>4 DEF Next, vars, Restart

\* Whatever a client is told is done has been done, whatever is lost, late or
\* killed on the way: the tenant of create_tenant has its limit, the role of
\* delete_role is gone and one caller was told so, the image is where it should be.
THEOREM PrintedHolds == Spec => []PrintedIsTrue
<1>1. OperatorInv => PrintedIsTrue
    <2> SUFFICES ASSUME OperatorInv
                 PROVE  PrintedIsTrue
        OBVIOUS
    <2>1. \A op \in Claiming : \A c \in Told(op) :
            c \in Callers /\ Asked[c].op = op /\ req[c].at = "200"
        BY DEF OperatorInv, ClientInv, Told
    <2>2. TenantsAreTrue
        <3>1. ASSUME NEW c \in Told("tenant")
              PROVE  /\ tenants[req[c].row] = Asked[c].name
                     /\ {quotas[i].limit : i \in {j \in DOMAIN quotas : quotas[j].tenant = req[c].row}}
                          = {Asked[c].limit} \ {None}
            <4>1. c \in Callers /\ Asked[c].op = "tenant" /\ req[c].at = "200"
                BY <2>1, <3>1 DEF Claiming
            <4> QED
                BY <4>1 DEF OperatorInv, AdminInv, TenantInv
        <3> QED
            BY <3>1 DEF TenantsAreTrue
    <2>3. DeletionsAreTrue
        BY <2>1 DEF DeletionsAreTrue, Claiming, OperatorInv, AdminInv, DeletionInv
    <2>4. ImagesAreTrue
        BY <2>1 DEF ImagesAreTrue, Claiming, OperatorInv, AdminInv, ImageInv
    <2> QED
        BY <2>2, <2>3, <2>4 DEF PrintedIsTrue
<1> QED
    BY <1>1, OperatorInitInv, OperatorInvStep, PTL DEF Spec

\* Once seed_roles has answered 200 for a tenant, check_tool_allowed refuses
\* what the default roles deny, until a caller deletes one of them or had made a
\* role of that name.
THEOREM SeedsHold == Spec => []SeededRolesHold
<1>1. OperatorInv => SeededRolesHold
    <2> SUFFICES ASSUME OperatorInv, NEW c \in Callers, Asked[c].op = "seed", req[c].at = "200",
                        NEW i \in DOMAIN Defaults, NEW tool \in Defaults[i].denied,
                        check_tool_allowed(Asked[c].tenant, Defaults[i].name, tool)
                 PROVE  \E j \in DOMAIN roles :
                          /\ roles[j].tenant = Asked[c].tenant /\ roles[j].name = Defaults[i].name
                          /\ roles[j] # Row(Asked[c].tenant, Defaults[i])
        BY DEF SeededRolesHold
    <2>1. i \in 1 .. req[c].seen
        <3>1. DOMAIN Defaults = 1 .. Len(Defaults)
            BY AdminAssumption
        <3>2. req[c].seen = Len(Defaults)
            BY DEF OperatorInv, AdminInv, SeedInv
        <3> QED
            BY <3>1, <3>2
    <2>2. PICK j \in DOMAIN roles : Named(roles[j], Asked[c].tenant, Defaults[i])
        BY <2>1 DEF OperatorInv, AdminInv, SeedInv
    <2>3. roles[j].live /\ tool \in roles[j].denied => FALSE
        BY <2>2 DEF check_tool_allowed, RoleOf, Named
    <2>4. Row(Asked[c].tenant, Defaults[i]).live /\ tool \in Row(Asked[c].tenant, Defaults[i]).denied
        BY DEF Row
    <2>5. roles[j] # Row(Asked[c].tenant, Defaults[i])
        BY Zenon, <2>3, <2>4
    <2> QED
        BY <2>2, <2>5 DEF Named
<1> QED
    BY <1>1, OperatorInitInv, OperatorInvStep, PTL DEF Spec

-----------------------------------------------------------------------------
(* FlattenSeq of SequencesExt.                                              *)

\* Its recursion defines a function.
LEMMA FlattenExists ==
    ASSUME NEW n \in Nat \ {0}, NEW seqs
    PROVE  \E f : f = [i \in 1 .. n |-> IF i = 1 THEN seqs[i] ELSE f[i - 1] \o seqs[i]]
<1> DEFINE Upto(k) == \E f : f = [i \in 1 .. k |-> IF i = 1 THEN seqs[i] ELSE f[i - 1] \o seqs[i]]
           S == {k \in 0 .. n : Upto(k)}
<1>1. 0 \in S
    <2>1. <<>> = [i \in 1 .. 0 |-> IF i = 1 THEN seqs[i] ELSE <<>>[i - 1] \o seqs[i]]
        OBVIOUS
    <2>2. Upto(0)
        BY <2>1
    <2> HIDE DEF Upto
    <2> QED
        BY <2>2
<1>2. ASSUME NEW k \in 0 .. n - 1, k \in S
      PROVE  k + 1 \in S
    <2>1. PICK f : f = [i \in 1 .. k |-> IF i = 1 THEN seqs[i] ELSE f[i - 1] \o seqs[i]]
        BY <1>2
    <2> DEFINE last == IF k = 0 THEN seqs[1] ELSE f[k] \o seqs[k + 1]
               g == [i \in 1 .. k + 1 |-> IF i = k + 1 THEN last ELSE f[i]]
    <2>2. ASSUME NEW i \in 1 .. k + 1
          PROVE  g[i] = IF i = 1 THEN seqs[i] ELSE g[i - 1] \o seqs[i]
        <3>1. CASE i = k + 1 /\ k = 0
            BY <3>1
        <3>2. CASE i = k + 1 /\ k # 0
            <4>1. i - 1 = k /\ k + 1 = i /\ i # 1
                BY <3>2
            <4>2. g[i] = f[k] \o seqs[i]
                <5>1. g[i] = last
                    BY <3>2
                <5> QED
                    BY <5>1, <4>1, <3>2, Zenon
            <4>3. g[k] = f[k]
                <5>1. k \in 1 .. k + 1 /\ k # k + 1
                    BY <3>2
                <5> QED
                    BY <5>1
            <4> QED
                BY <4>1, <4>2, <4>3, Zenon
        <3>3. CASE i # k + 1
            <4>1. i \in 1 .. k /\ g[i] = f[i]
                BY <3>3
            <4>2. i # 1 => g[i - 1] = f[i - 1]
                BY <3>3
            <4>3. f[i] = IF i = 1 THEN seqs[i] ELSE f[i - 1] \o seqs[i]
                <5> HIDE DEF g
                <5> QED
                    BY <2>1, <4>1
            <4> QED
                BY <4>1, <4>2, <4>3
        <3> QED
            BY <3>1, <3>2, <3>3
    <2>3. g = [i \in 1 .. k + 1 |-> IF i = 1 THEN seqs[i] ELSE g[i - 1] \o seqs[i]]
        <3>1. g = [i \in 1 .. k + 1 |-> g[i]]
            OBVIOUS
        <3> HIDE DEF g
        <3> QED
            BY <2>2, <3>1, Zenon
    <2>4. Upto(k + 1)
        <3> HIDE DEF g
        <3> QED
            BY <2>3
    <2>5. k + 1 \in 0 .. n
        OBVIOUS
    <2> HIDE DEF Upto
    <2> QED
        BY <2>4, <2>5
<1>3. n \in S
    <2> HIDE DEF S
    <2> QED
        BY <1>1, <1>2, UpTo
<1> QED
    BY <1>3

\* It is the last of the concatenations.
LEMMA FlattenIs ==
    ASSUME NEW seqs, NEW n \in Nat \ {0}, n = Len(seqs)
    PROVE  \E f : /\ \A i \in 1 .. n : f[i] = IF i = 1 THEN seqs[i] ELSE f[i - 1] \o seqs[i]
                  /\ FlattenSeq(seqs) = f[n]
<1> DEFINE f == CHOOSE f : f = [i \in 1 .. n |-> IF i = 1 THEN seqs[i] ELSE f[i - 1] \o seqs[i]]
<1>1. f = [i \in 1 .. n |-> IF i = 1 THEN seqs[i] ELSE f[i - 1] \o seqs[i]]
    BY FlattenExists, Zenon
<1>2. FlattenSeq(seqs) = f[n]
    BY Zenon DEF FlattenSeq
<1> HIDE DEF f
<1>3. \A i \in 1 .. n : f[i] = IF i = 1 THEN seqs[i] ELSE f[i - 1] \o seqs[i]
    BY <1>1, Zenon
<1> QED
    BY <1>2, <1>3

\* flat consists of the first n pieces, one after the other: piece k after start[k].
Located(flat, seqs, n, start) ==
    /\ \A k \in 1 .. n : \A m \in 1 .. Len(seqs[k]) :
          start[k] + m \in 1 .. Len(flat) /\ flat[start[k] + m] = seqs[k][m]
    /\ \A t \in 1 .. Len(flat) : \E k \in 1 .. n : \E m \in 1 .. Len(seqs[k]) : t = start[k] + m

LEMMA LocatedOneMore ==
    ASSUME NEW U, NEW flat \in Seq(U), NEW N \in Nat, NEW n \in 0 .. N - 1, NEW seqs,
           NEW start \in [1 .. N -> Nat], NEW piece \in Seq(U),
           seqs[n + 1] = piece, start[n + 1] = Len(flat), Located(flat, seqs, n, start)
    PROVE  Located(flat \o piece, seqs, n + 1, start)
<1> DEFINE new == flat \o piece
<1>1. PICK a \in Nat : a = Len(flat)
    OBVIOUS
<1>2. PICK b \in Nat : b = Len(piece)
    OBVIOUS
<1>3. /\ new \in Seq(U) /\ Len(new) = a + b
      /\ \A i \in 1 .. a + b : new[i] = IF i <= a THEN flat[i] ELSE piece[i - a]
    BY <1>1, <1>2, ConcatProperties
<1> HIDE DEF new
<1>4. ASSUME NEW k \in 1 .. n + 1, NEW m \in 1 .. Len(seqs[k])
      PROVE  start[k] + m \in 1 .. Len(new) /\ new[start[k] + m] = seqs[k][m]
    <2>1. CASE k \in 1 .. n
        <3>1. start[k] + m \in 1 .. a /\ flat[start[k] + m] = seqs[k][m]
            BY <1>1, <2>1 DEF Located
        <3>2. start[k] + m \in 1 .. a + b /\ start[k] + m <= a
            BY <3>1
        <3> QED
            BY <1>3, <3>1, <3>2
    <2>2. CASE k = n + 1
        <3>1. m \in 1 .. b /\ start[k] = a
            BY <1>1, <1>2, <2>2
        <3>2. PICK i \in 1 .. a + b : start[k] + m = i /\ ~(i <= a) /\ i - a = m
            BY <3>1
        <3>3. new[i] = piece[m]
            <4>1. new[i] = piece[i - a]
                BY <1>3, <3>2
            <4> QED
                BY <3>2, <4>1, Zenon
        <3> QED
            BY <1>3, <2>2, <3>2, <3>3, Zenon
    <2>3. k \in 1 .. n \/ k = n + 1
        OBVIOUS
    <2> QED
        BY <2>1, <2>2, <2>3
<1>5. ASSUME NEW t \in 1 .. Len(new)
      PROVE  \E k \in 1 .. n + 1 : \E m \in 1 .. Len(seqs[k]) : t = start[k] + m
    <2>1. CASE t \in 1 .. a
        <3>1. PICK k \in 1 .. n : \E m \in 1 .. Len(seqs[k]) : t = start[k] + m
            BY <1>1, <2>1 DEF Located
        <3>2. k \in 1 .. n + 1
            OBVIOUS
        <3> QED
            BY <3>1, <3>2
    <2>2. CASE t \notin 1 .. a
        <3>1. t - a \in 1 .. b /\ t = a + (t - a)
            BY <1>3, <2>2
        <3>2. n + 1 \in 1 .. n + 1
            OBVIOUS
        <3>3. t - a \in 1 .. Len(seqs[n + 1]) /\ t = start[n + 1] + (t - a)
            BY <1>1, <1>2, <3>1
        <3> QED
            BY <3>2, <3>3
    <2> QED
        BY <2>1, <2>2
<1> QED
    BY <1>4, <1>5 DEF Located, new

\* FlattenSeq loses nothing, adds nothing and keeps every piece in one stretch.
LEMMA Flattened ==
    ASSUME NEW U, NEW seqs \in Seq(Seq(U))
    PROVE  /\ FlattenSeq(seqs) \in Seq(U)
           /\ \E start \in [1 .. Len(seqs) -> Nat] :
                 Located(FlattenSeq(seqs), seqs, Len(seqs), start)
<1>1. PICK n \in Nat : n = Len(seqs)
    OBVIOUS
<1>2. CASE n = 0
    <2>1. seqs = <<>>
        BY <1>1, <1>2, EmptySeq
    <2>2. FlattenSeq(seqs) = <<>>
        <3>1. FlattenSeq(seqs) = seqs
            BY <1>1, <1>2, Zenon DEF FlattenSeq
        <3> QED
            BY <2>1, <3>1
    <2> DEFINE start == [k \in 1 .. Len(seqs) |-> 0]
    <2>3. Located(<<>>, seqs, Len(seqs), start)
        BY <1>1, <1>2 DEF Located
    <2>4. start \in [1 .. Len(seqs) -> Nat] /\ <<>> \in Seq(U)
        OBVIOUS
    <2> HIDE DEF start
    <2> QED
        BY <2>2, <2>3, <2>4, Zenon
<1>3. CASE n # 0
    <2>1. PICK f : /\ \A i \in 1 .. n : f[i] = IF i = 1 THEN seqs[i] ELSE f[i - 1] \o seqs[i]
                   /\ FlattenSeq(seqs) = f[n]
        <3>1. n \in Nat \ {0}
            BY <1>3
        <3> QED
            BY <1>1, <3>1, FlattenIs, Zenon
    <2> DEFINE start == [k \in 1 .. n |-> IF k = 1 THEN 0 ELSE Len(f[k - 1])]
               S == {k \in 0 .. n : k = 0 \/ f[k] \in Seq(U)}
               R == {k \in 0 .. n : k = 0 \/ Located(f[k], seqs, k, start)}
    <2>2. \A k \in 1 .. n : seqs[k] \in Seq(U)
        BY <1>1
    <2>3. \A k \in 0 .. n : k \in S
        <3>1. ASSUME NEW k \in 0 .. n - 1, k \in S
              PROVE  k + 1 \in S
            <4>1. k + 1 \in 1 .. n
                OBVIOUS
            <4>2. seqs[k + 1] \in Seq(U)
                BY <2>2, <4>1
            <4>3. CASE k = 0
                <5>1. f[k + 1] = seqs[k + 1]
                    BY <2>1, <4>1, <4>3
                <5> QED
                    BY <4>1, <4>2, <5>1
            <4>4. CASE k # 0
                <5>1. f[k + 1] = f[k] \o seqs[k + 1]
                    <6>1. k + 1 # 1 /\ (k + 1) - 1 = k
                        BY <4>4
                    <6> QED
                        BY <2>1, <4>1, <6>1
                <5>2. f[k] \in Seq(U)
                    BY <3>1, <4>4
                <5>3. f[k + 1] \in Seq(U)
                    BY <4>2, <5>1, <5>2, ConcatProperties
                <5> QED
                    BY <4>1, <5>3
            <4> QED
                BY <4>3, <4>4
        <3>2. 0 \in S
            OBVIOUS
        <3> HIDE DEF S
        <3> QED
            BY <3>1, <3>2, UpTo
    <2>4. \A k \in 1 .. n : f[k] \in Seq(U)
        BY <2>3
    <2>5. start \in [1 .. n -> Nat]
        <3>1. ASSUME NEW k \in 1 .. n, k # 1
              PROVE  Len(f[k - 1]) \in Nat
            <4>1. k - 1 \in 1 .. n
                BY <3>1
            <4> QED
                BY <2>4, <4>1
        <3> QED
            BY <3>1
    <2>6. start[1] = 0 /\ \A k \in 1 .. n - 1 : start[k + 1] = Len(f[k])
        BY <1>3
    <2> HIDE DEF start
    <2>7. \A k \in 0 .. n : k \in R
        <3>1. ASSUME NEW k \in 0 .. n - 1, k \in R
              PROVE  k + 1 \in R
            <4>1. k + 1 \in 1 .. n /\ k + 1 \in 0 .. n
                OBVIOUS
            <4>2. PICK piece \in Seq(U) : seqs[k + 1] = piece
                BY <2>2, <4>1
            <4>3. CASE k = 0
                <5>1. f[k + 1] = <<>> \o piece
                    <6>1. f[k + 1] = piece
                        BY <2>1, <4>1, <4>2, <4>3
                    <6>2. <<>> \o piece = piece
                        BY ConcatEmptySeq
                    <6> QED
                        BY <6>1, <6>2
                <5>2. Located(<<>>, seqs, k, start)
                    BY <4>3 DEF Located
                <5>3. start[k + 1] = Len(<<>>) /\ <<>> \in Seq(U)
                    BY <2>6, <4>3
                <5>4. Located(<<>> \o piece, seqs, k + 1, start)
                    BY <2>5, <4>2, <5>2, <5>3, LocatedOneMore
                <5>5. Located(f[k + 1], seqs, k + 1, start)
                    BY <5>1, <5>4, Zenon
                <5> QED
                    BY <4>1, <5>5
            <4>4. CASE k # 0
                <5>1. f[k + 1] = f[k] \o piece
                    <6>1. k + 1 # 1 /\ (k + 1) - 1 = k
                        BY <4>4
                    <6> QED
                        BY <2>1, <4>1, <4>2, <6>1
                <5>2. Located(f[k], seqs, k, start)
                    BY <3>1, <4>4
                <5>3. k \in 1 .. n - 1 /\ k \in 1 .. n
                    BY <4>4
                <5>4. start[k + 1] = Len(f[k]) /\ f[k] \in Seq(U)
                    BY <2>4, <2>6, <5>3
                <5>5. Located(f[k] \o piece, seqs, k + 1, start)
                    BY <2>5, <4>2, <5>2, <5>4, LocatedOneMore
                <5>6. Located(f[k + 1], seqs, k + 1, start)
                    BY <5>1, <5>5, Zenon
                <5> QED
                    BY <4>1, <5>6
            <4> QED
                BY <4>3, <4>4
        <3>2. 0 \in R
            OBVIOUS
        <3> HIDE DEF R
        <3> QED
            BY <3>1, <3>2, UpTo
    <2>8. n \in 1 .. n /\ n \in 0 .. n
        BY <1>3
    <2>9. f[n] \in Seq(U) /\ Located(f[n], seqs, n, start)
        BY <1>3, <2>4, <2>7, <2>8
    <2> QED
        BY <1>1, <2>1, <2>5, <2>9, Zenon
<1> QED
    BY <1>2, <1>3


LEMMA One ==
    ASSUME NEW U, NEW x \in U
    PROVE  <<x>> \in Seq(U) /\ Len(<<x>>) = 1 /\ <<x>>[1] = x
    OBVIOUS

-----------------------------------------------------------------------------
(* The PATH after the instructions.                                         *)

Dirs == {"cargo", "go", "elan"}
Entries == Dirs \cup {"/usr/bin"}
Adds == {AddToPath(dir) : dir \in Dirs}
Has(path, dir) == \E i \in 1 .. Len(path) : path[i] = dir

\* The recursion of PathAfter defines a function.
LEMMA PathExists ==
    ASSUME NEW n \in Nat, NEW lines
    PROVE  \E f : f = [k \in 0 .. n |-> IF k = 0 THEN DefaultPath ELSE After(f[k - 1], lines[k])]
<1> DEFINE Upto(k) == \E f : f = [i \in 0 .. k |-> IF i = 0 THEN DefaultPath
                                                   ELSE After(f[i - 1], lines[i])]
           S == {k \in 0 .. n : Upto(k)}
<1>1. 0 \in S
    <2> DEFINE g == [i \in 0 .. 0 |-> DefaultPath]
    <2>1. g = [i \in 0 .. 0 |-> IF i = 0 THEN DefaultPath ELSE After(g[i - 1], lines[i])]
        OBVIOUS
    <2>2. Upto(0)
        <3> HIDE DEF g
        <3> QED
            BY <2>1
    <2> HIDE DEF Upto
    <2> QED
        BY <2>2
<1>2. ASSUME NEW k \in 0 .. n - 1, k \in S
      PROVE  k + 1 \in S
    <2>1. PICK f : f = [i \in 0 .. k |-> IF i = 0 THEN DefaultPath ELSE After(f[i - 1], lines[i])]
        BY <1>2
    <2> DEFINE last == After(f[k], lines[k + 1])
               g == [i \in 0 .. k + 1 |-> IF i = k + 1 THEN last ELSE f[i]]
    <2>2. ASSUME NEW i \in 0 .. k + 1
          PROVE  g[i] = IF i = 0 THEN DefaultPath ELSE After(g[i - 1], lines[i])
        <3>1. CASE i = k + 1
            <4>1. i - 1 = k /\ k + 1 = i /\ i # 0
                BY <3>1
            <4>2. g[i] = After(f[k], lines[i])
                <5>1. g[i] = last
                    BY <3>1
                <5> QED
                    BY <5>1, <4>1, Zenon
            <4>3. g[k] = f[k]
                <5>1. k \in 0 .. k + 1 /\ k # k + 1
                    OBVIOUS
                <5> QED
                    BY <5>1
            <4> QED
                BY <4>1, <4>2, <4>3, Zenon
        <3>2. CASE i # k + 1
            <4>1. i \in 0 .. k /\ g[i] = f[i]
                BY <3>2
            <4>2. i # 0 => g[i - 1] = f[i - 1]
                BY <3>2
            <4>3. f[i] = IF i = 0 THEN DefaultPath ELSE After(f[i - 1], lines[i])
                <5> HIDE DEF g
                <5> QED
                    BY <2>1, <4>1
            <4> QED
                BY <4>1, <4>2, <4>3
        <3> QED
            BY <3>1, <3>2
    <2>3. g = [i \in 0 .. k + 1 |-> IF i = 0 THEN DefaultPath ELSE After(g[i - 1], lines[i])]
        <3>1. g = [i \in 0 .. k + 1 |-> g[i]]
            OBVIOUS
        <3> HIDE DEF g
        <3> QED
            BY <2>2, <3>1, Zenon
    <2>4. Upto(k + 1)
        <3> HIDE DEF g
        <3> QED
            BY <2>3
    <2>5. k + 1 \in 0 .. n
        OBVIOUS
    <2> HIDE DEF Upto
    <2> QED
        BY <2>4, <2>5
<1>3. n \in S
    <2> HIDE DEF S
    <2> QED
        BY <1>1, <1>2, UpTo
<1> QED
    BY <1>3

LEMMA PathIs ==
    ASSUME NEW lines, NEW n \in Nat, n = Len(lines)
    PROVE  \E f : /\ f[0] = DefaultPath
                  /\ \A k \in 1 .. n : f[k] = After(f[k - 1], lines[k])
                  /\ PathAfter(lines) = f[n]
<1> DEFINE f == CHOOSE f : f = [k \in 0 .. n |-> IF k = 0 THEN DefaultPath
                                                  ELSE After(f[k - 1], lines[k])]
<1>1. f = [k \in 0 .. n |-> IF k = 0 THEN DefaultPath ELSE After(f[k - 1], lines[k])]
    BY PathExists, Zenon
<1>2. PathAfter(lines) = f[n]
    BY Zenon DEF PathAfter
<1> HIDE DEF f
<1>3. \A k \in 0 .. n : f[k] = IF k = 0 THEN DefaultPath ELSE After(f[k - 1], lines[k])
    BY <1>1, Zenon
<1>4. f[0] = DefaultPath
    BY <1>3
<1>5. \A k \in 1 .. n : f[k] = After(f[k - 1], lines[k])
    BY <1>3
<1> QED
    BY <1>2, <1>4, <1>5

\* ENV PATH="<dir>:${PATH}" puts a directory before the others.
LEMMA AfterAdd ==
    ASSUME NEW dir \in Dirs, NEW path \in Seq(Entries)
    PROVE  After(path, AddToPath(dir)) = <<dir>> \o path
<1> DEFINE line == AddToPath(dir)
           Filled(i) == CASE line[2][i] = "${PATH}" -> path
                          [] line[2][i] = "{path}"  -> DefaultPath
                          [] OTHER                  -> <<line[2][i]>>
           seqs == [i \in DOMAIN line[2] |-> Filled(i)]
<1>1. line[1] = "path" /\ line[2] = <<dir, "${PATH}">>
    BY DEF AddToPath
<1>2. After(path, line) = FlattenSeq(seqs)
    BY <1>1, Zenon DEF After
<1>3. Filled(1) = <<dir>>
    <2>1. line[2][1] = dir /\ dir # "${PATH}" /\ dir # "{path}"
        <3>1. <<dir, "${PATH}">>[1] = dir
            OBVIOUS
        <3>2. dir # "${PATH}" /\ dir # "{path}"
            BY DEF Dirs
        <3> QED
            BY <1>1, <3>1, <3>2, Zenon
    <2> HIDE DEF line
    <2> QED
        BY <2>1
<1>4. Filled(2) = path
    <2>1. line[2][2] = "${PATH}"
        <3>1. <<dir, "${PATH}">>[2] = "${PATH}"
            OBVIOUS
        <3> QED
            BY <1>1, <3>1, Zenon
    <2> HIDE DEF line
    <2> QED
        BY <2>1
<1>5. DOMAIN line[2] = 1 .. 2
    <2>1. DOMAIN <<dir, "${PATH}">> = 1 .. 2
        OBVIOUS
    <2> QED
        BY <1>1, <2>1, Zenon
<1> HIDE DEF line, Filled
<1>6. seqs[1] = <<dir>> /\ seqs[2] = path /\ Len(seqs) = 2
    BY <1>3, <1>4, <1>5
<1> HIDE DEF seqs
<1>7. PICK f : /\ \A i \in 1 .. 2 : f[i] = IF i = 1 THEN seqs[i] ELSE f[i - 1] \o seqs[i]
               /\ FlattenSeq(seqs) = f[2]
    <2>1. 2 \in Nat \ {0} /\ 2 = Len(seqs)
        BY <1>6
    <2> QED
        BY <2>1, FlattenIs, Zenon
<1>8. f[1] = seqs[1] /\ f[2] = f[1] \o seqs[2]
    <2>1. 1 \in 1 .. 2 /\ 2 \in 1 .. 2 /\ 2 # 1 /\ 2 - 1 = 1
        OBVIOUS
    <2> QED
        BY <1>7, <2>1
<1>9. FlattenSeq(seqs) = <<dir>> \o path
    BY <1>6, <1>7, <1>8, Zenon
<1> QED
    BY <1>2, <1>9, Zenon DEF line

LEMMA AfterKeeps ==
    ASSUME NEW path \in Seq(Entries), NEW line, line[1] = "path" => line \in Adds
    PROVE  /\ After(path, line) \in Seq(Entries)
           /\ \A dir : Has(path, dir) => Has(After(path, line), dir)
<1>1. CASE line[1] # "path"
    BY <1>1 DEF After
<1>2. CASE line[1] = "path"
    <2>1. PICK d \in Dirs : line = AddToPath(d)
        BY <1>2 DEF Adds
    <2>2. After(path, line) = <<d>> \o path
        BY <2>1, AfterAdd, Zenon
    <2>3. <<d>> \in Seq(Entries) /\ Len(<<d>>) = 1
        <3>1. d \in Entries
            BY DEF Entries
        <3> QED
            BY <3>1, One
    <2> DEFINE one == <<d>>
               new == one \o path
    <2> HIDE DEF one
    <2>4. /\ new \in Seq(Entries) /\ Len(new) = 1 + Len(path)
          /\ \A i \in 1 .. 1 + Len(path) : new[i] = IF i <= 1 THEN one[i] ELSE path[i - 1]
        BY <2>3, ConcatProperties DEF one
    <2> HIDE DEF new
    <2>5. ASSUME NEW dir, Has(path, dir)
          PROVE  Has(new, dir)
        <3>1. PICK i \in 1 .. Len(path) : path[i] = dir
            BY <2>5 DEF Has
        <3>2. i + 1 \in 1 .. 1 + Len(path) /\ ~(i + 1 <= 1) /\ (i + 1) - 1 = i
            OBVIOUS
        <3>3. new[i + 1] = dir
            BY <2>4, <3>1, <3>2
        <3> QED
            BY <2>4, <3>2, <3>3 DEF Has
    <2>6. After(path, line) = new
        BY <2>2, Zenon DEF new, one
    <2> QED
        BY <2>4, <2>5, <2>6, Zenon
<1> QED
    BY <1>1, <1>2

LEMMA AfterAdds ==
    ASSUME NEW dir \in Dirs, NEW path \in Seq(Entries)
    PROVE  Has(After(path, AddToPath(dir)), dir)
<1>1. After(path, AddToPath(dir)) = <<dir>> \o path
    BY AfterAdd
<1>2. <<dir>> \in Seq(Entries) /\ Len(<<dir>>) = 1 /\ <<dir>>[1] = dir
    <2>1. dir \in Entries
        BY DEF Entries
    <2> QED
        BY <2>1, One
<1> DEFINE one == <<dir>>
<1> HIDE DEF one
<1>3. Len(one \o path) = 1 + Len(path) /\ (one \o path)[1] = one[1]
    <2>1. 1 \in 1 .. 1 + Len(path)
        OBVIOUS
    <2> QED
        BY <1>2, <2>1, ConcatProperties DEF one
<1>4. Has(one \o path, dir)
    <2>1. 1 \in 1 .. Len(one \o path)
        BY <1>3
    <2> QED
        BY <1>2, <1>3, <2>1 DEF Has, one
<1> QED
    BY <1>1, <1>4, Zenon DEF one

\* What an instruction has put on the PATH stays there while every other one keeps it.
LEMMA Kept ==
    ASSUME NEW U, NEW lines \in Seq(U),
           \A k \in 1 .. Len(lines) : lines[k][1] = "path" => lines[k] \in Adds,
           NEW dir \in Dirs, NEW i \in 1 .. Len(lines), lines[i] = AddToPath(dir)
    PROVE  OnPath(dir, lines)
<1>1. PICK n \in Nat : n = Len(lines)
    OBVIOUS
<1>2. PICK f : /\ f[0] = DefaultPath
               /\ \A k \in 1 .. n : f[k] = After(f[k - 1], lines[k])
               /\ PathAfter(lines) = f[n]
    BY <1>1, PathIs, Zenon
<1> DEFINE S == {k \in 0 .. n : f[k] \in Seq(Entries) /\ (i <= k => Has(f[k], dir))}
<1>3. 0 \in S
    <2>1. DefaultPath \in Seq(Entries)
        <3>1. "/usr/bin" \in Entries
            BY DEF Entries
        <3> QED
            BY <3>1, One DEF DefaultPath
    <2>2. ~(i <= 0)
        OBVIOUS
    <2> QED
        BY <1>2, <2>1, <2>2
<1>4. ASSUME NEW k \in 0 .. n - 1, k \in S
      PROVE  k + 1 \in S
    <2>1. k + 1 \in 1 .. n /\ k + 1 \in 0 .. n /\ (k + 1) - 1 = k
        OBVIOUS
    <2>2. f[k + 1] = After(f[k], lines[k + 1])
        BY <1>2, <2>1
    <2>3. f[k] \in Seq(Entries) /\ (lines[k + 1][1] = "path" => lines[k + 1] \in Adds)
        BY <1>1, <1>4, <2>1
    <2>4. /\ f[k + 1] \in Seq(Entries)
          /\ Has(f[k], dir) => Has(f[k + 1], dir)
        BY <2>2, <2>3, AfterKeeps
    <2>5. i <= k + 1 => Has(f[k + 1], dir)
        <3>1. CASE i <= k
            BY <1>4, <2>4, <3>1
        <3>2. CASE i = k + 1
            BY <2>2, <2>3, <3>2, AfterAdds
        <3>3. i <= k + 1 => i <= k \/ i = k + 1
            OBVIOUS
        <3> QED
            BY <3>1, <3>2, <3>3
    <2> QED
        BY <2>1, <2>4, <2>5
<1>5. n \in S
    <2> HIDE DEF S
    <2>1. \A k \in 0 .. n : k \in S
        BY <1>3, <1>4, UpTo
    <2> QED
        BY <2>1
<1>6. f[n] \in Seq(Entries) /\ Has(f[n], dir)
    BY <1>1, <1>5
<1>7. DOMAIN f[n] = 1 .. Len(f[n])
    BY <1>6
<1> QED
    BY <1>2, <1>6, <1>7, Zenon DEF OnPath, Has


-----------------------------------------------------------------------------
(* The lines of a Containerfile.                                            *)

Steps == Adds \cup {Calls("curl"), Calls("cargo"), Calls("dnf"), Calls("npm")}

LEMMA LineKinds ==
    /\ \A p : Calls(p)[1] = "run"
    /\ \A p, q : Calls(p) = Calls(q) => p = q
    /\ \A d : AddToPath(d)[1] = "path"
    /\ \A l \in Steps : l[1] = "path" => l \in Adds
    /\ \A l \in Adds : l # Calls("cargo")
<1>1. \A p : Calls(p)[1] = "run" /\ Calls(p)[2] = p
    BY DEF Calls
<1>2. \A d : AddToPath(d)[1] = "path"
    BY DEF AddToPath
<1>3. ASSUME NEW p, NEW q, Calls(p) = Calls(q)
      PROVE  p = q
    <2>1. Calls(p)[2] = Calls(q)[2]
        BY <1>3, Zenon
    <2>2. Calls(p)[2] = p /\ Calls(q)[2] = q
        BY <1>1
    <2> QED
        BY <2>1, <2>2
<1>4. ASSUME NEW l \in Steps, l[1] = "path"
      PROVE  l \in Adds
    <2>1. "run" # "path"
        OBVIOUS
    <2> QED
        BY <1>1, <1>4, <2>1, Zenon DEF Steps
<1>5. ASSUME NEW l \in Adds
      PROVE  l # Calls("cargo")
    <2>1. PICK d \in Dirs : l = AddToPath(d)
        BY Zenon DEF Adds
    <2>2. l[1] = "path" /\ Calls("cargo")[1] = "run" /\ "run" # "path"
        BY <1>1, <1>2, <2>1
    <2> QED
        BY <2>2
<1> QED
    BY <1>1, <1>2, <1>3, <1>4, <1>5

\* Appending lines leaves those before them where they are.
LEMMA ConcatPrefix ==
    ASSUME NEW U, NEW s \in Seq(U), NEW t \in Seq(U)
    PROVE  /\ s \o t \in Seq(U)
           /\ \A i \in 1 .. Len(s) : i \in 1 .. Len(s \o t) /\ (s \o t)[i] = s[i]
           /\ \A i \in 1 .. Len(s \o t) : i \notin 1 .. Len(s) =>
                 i - Len(s) \in 1 .. Len(t) /\ (s \o t)[i] = t[i - Len(s)]
<1>1. PICK a \in Nat : a = Len(s)
    OBVIOUS
<1>2. PICK b \in Nat : b = Len(t)
    OBVIOUS
<1> DEFINE new == s \o t
<1>3. /\ new \in Seq(U) /\ Len(new) = a + b
      /\ \A i \in 1 .. a + b : new[i] = IF i <= a THEN s[i] ELSE t[i - a]
    BY <1>1, <1>2, ConcatProperties
<1> HIDE DEF new
<1>4. \A i \in 1 .. a : i \in 1 .. a + b /\ i <= a
    OBVIOUS
<1>5. \A i \in 1 .. a + b : i \notin 1 .. a => i - a \in 1 .. b /\ ~(i <= a)
    OBVIOUS
<1>6. \A i \in 1 .. a : i \in 1 .. Len(new) /\ new[i] = s[i]
    BY <1>3, <1>4
<1>7. \A i \in 1 .. Len(new) : i \notin 1 .. a => i - a \in 1 .. b /\ new[i] = t[i - a]
    BY <1>3, <1>5
<1> QED
    BY <1>1, <1>2, <1>3, <1>6, <1>7 DEF new

LEMMA EachTyped ==
    ASSUME NEW n \in Nat
    PROVE  Each("cargo", n) \in Seq(Steps)
<1>1. Calls("cargo") \in Steps
    BY DEF Steps
<1> QED
    BY <1>1 DEF Each

\* rust calls its programs after it has put them on the PATH.
LEMMA RustLines ==
    ASSUME NEW fields
    PROVE  /\ ToolchainLines("rust", fields) \in Seq(Steps)
           /\ 2 \in 1 .. Len(ToolchainLines("rust", fields))
           /\ ToolchainLines("rust", fields)[1] = Calls("curl")
           /\ ToolchainLines("rust", fields)[2] = AddToPath("cargo")
<1> DEFINE e1 == Each("cargo", IF "date" \in fields THEN 2 ELSE 1)
           e2 == Each("cargo", IF "targets" \in fields THEN 1 ELSE 0)
           e3 == Each("cargo", IF "components" \in fields THEN 1 ELSE 0)
           s == <<Calls("curl"), AddToPath("cargo")>>
<1>1. e1 \in Seq(Steps) /\ e2 \in Seq(Steps) /\ e3 \in Seq(Steps)
    BY EachTyped
<1>2. /\ s \in Seq(Steps) /\ 1 \in 1 .. Len(s) /\ 2 \in 1 .. Len(s)
      /\ s[1] = Calls("curl") /\ s[2] = AddToPath("cargo")
    <2>1. PICK a \in Steps : a = Calls("curl")
        BY DEF Steps
    <2>2. PICK b \in Steps : b = AddToPath("cargo")
        BY DEF Steps, Adds, Dirs
    <2>3. /\ <<a, b>> \in Seq(Steps) /\ 1 \in 1 .. Len(<<a, b>>) /\ 2 \in 1 .. Len(<<a, b>>)
          /\ <<a, b>>[1] = a /\ <<a, b>>[2] = b
        OBVIOUS
    <2> QED
        BY <2>1, <2>2, <2>3
<1>3. ToolchainLines("rust", fields) = ((s \o e1) \o e2) \o e3
    BY DEF ToolchainLines
<1> HIDE DEF e1, e2, e3, s
<1>4. /\ s \o e1 \in Seq(Steps) /\ 1 \in 1 .. Len(s \o e1) /\ 2 \in 1 .. Len(s \o e1)
      /\ (s \o e1)[1] = Calls("curl") /\ (s \o e1)[2] = AddToPath("cargo")
    BY <1>1, <1>2, ConcatPrefix
<1> DEFINE t == s \o e1
<1> HIDE DEF t
<1>5. /\ t \o e2 \in Seq(Steps) /\ 1 \in 1 .. Len(t \o e2) /\ 2 \in 1 .. Len(t \o e2)
      /\ (t \o e2)[1] = Calls("curl") /\ (t \o e2)[2] = AddToPath("cargo")
    BY <1>1, <1>4, ConcatPrefix DEF t
<1> DEFINE u == t \o e2
<1> HIDE DEF u
<1>6. /\ u \o e3 \in Seq(Steps) /\ 2 \in 1 .. Len(u \o e3)
      /\ (u \o e3)[1] = Calls("curl") /\ (u \o e3)[2] = AddToPath("cargo")
    BY <1>1, <1>5, ConcatPrefix DEF u
<1> QED
    BY <1>3, <1>6, Zenon DEF t, u

\* Every toolchain that parses has its lines; the ones with programs of their own put
\* them on the PATH.
LEMMA ToolchainTyped ==
    ASSUME NEW kind \in DOMAIN Required, NEW fields
    PROVE  ToolchainLines(kind, fields) \in Seq(Steps)
<1>1. kind \in {"rust", "node", "python", "go", "elan"}
    BY DEF Required
<1>2. Calls("curl") \in Steps /\ Calls("dnf") \in Steps /\ Calls("npm") \in Steps
    BY DEF Steps
<1>3. AddToPath("go") \in Steps /\ AddToPath("elan") \in Steps
    BY DEF Steps, Adds, Dirs
<1>4. CASE kind = "rust"
    BY <1>4, RustLines
<1>5. CASE kind = "node"
    BY <1>2, <1>5 DEF ToolchainLines
<1>6. CASE kind = "python"
    BY <1>2, <1>6 DEF ToolchainLines
<1>7. CASE kind = "go"
    BY <1>2, <1>3, <1>7 DEF ToolchainLines
<1>8. CASE kind = "elan"
    BY <1>2, <1>3, <1>8 DEF ToolchainLines
<1> QED
    BY <1>1, <1>4, <1>5, <1>6, <1>7, <1>8

LEMMA ToolchainInstalls ==
    ASSUME NEW kind \in DOMAIN Installs, NEW fields
    PROVE  /\ Installs[kind] \in Dirs
           /\ \E q \in 1 .. Len(ToolchainLines(kind, fields)) :
                 ToolchainLines(kind, fields)[q] = AddToPath(Installs[kind])
<1>1. kind \in {"rust", "go", "elan"}
    BY DEF Installs
<1>2. CASE kind = "rust"
    <2>1. Installs[kind] = "cargo" /\ "cargo" \in Dirs
        BY <1>2 DEF Installs, Dirs
    <2> QED
        BY <1>2, <2>1, RustLines
<1>3. CASE kind = "go"
    <2>1. Installs[kind] = "go" /\ "go" \in Dirs
        BY <1>3 DEF Installs, Dirs
    <2>2. ToolchainLines(kind, fields) = <<Calls("curl"), AddToPath("go")>>
        BY <1>3 DEF ToolchainLines
    <2>3. /\ 2 \in 1 .. Len(<<Calls("curl"), AddToPath("go")>>)
          /\ <<Calls("curl"), AddToPath("go")>>[2] = AddToPath("go")
        OBVIOUS
    <2> QED
        BY <2>1, <2>2, <2>3, Zenon
<1>4. CASE kind = "elan"
    <2>1. Installs[kind] = "elan" /\ "elan" \in Dirs
        BY <1>4 DEF Installs, Dirs
    <2>2. ToolchainLines(kind, fields) = <<Calls("curl"), AddToPath("elan")>>
        BY <1>4 DEF ToolchainLines
    <2>3. /\ 2 \in 1 .. Len(<<Calls("curl"), AddToPath("elan")>>)
          /\ <<Calls("curl"), AddToPath("elan")>>[2] = AddToPath("elan")
        OBVIOUS
    <2> QED
        BY <2>1, <2>2, <2>3, Zenon
<1> QED
    BY <1>1, <1>2, <1>3, <1>4

LEMMA ToolchainCalls ==
    ASSUME NEW kind \in DOMAIN Required, NEW fields,
           NEW o \in 1 .. Len(ToolchainLines(kind, fields)),
           ToolchainLines(kind, fields)[o] = Calls("cargo")
    PROVE  \E q \in 1 .. o - 1 : ToolchainLines(kind, fields)[q] = AddToPath("cargo")
<1>1. kind \in {"rust", "node", "python", "go", "elan"}
    BY DEF Required
<1>2. Calls("cargo") # Calls("curl") /\ Calls("cargo") # Calls("dnf") /\ Calls("cargo") # Calls("npm")
    BY LineKinds
<1>3. AddToPath("go") # Calls("cargo") /\ AddToPath("elan") # Calls("cargo")
      /\ AddToPath("cargo") # Calls("cargo")
    BY LineKinds DEF Adds, Dirs
<1>4. CASE kind = "rust"
    <2>1. o # 1 /\ o # 2
        BY <1>2, <1>3, <1>4, RustLines
    <2>2. PICK n \in Nat : n = Len(ToolchainLines(kind, fields))
        BY <1>4, RustLines
    <2>3. 2 \in 1 .. o - 1
        BY <2>1, <2>2
    <2> QED
        BY <1>4, <2>3, RustLines
<1>5. CASE kind = "node"
    BY <1>2, <1>5 DEF ToolchainLines
<1>6. CASE kind = "python"
    BY <1>2, <1>6 DEF ToolchainLines
<1>7. CASE kind = "go"
    BY <1>2, <1>3, <1>7 DEF ToolchainLines
<1>8. CASE kind = "elan"
    BY <1>2, <1>3, <1>8 DEF ToolchainLines
<1> QED
    BY <1>1, <1>4, <1>5, <1>6, <1>7, <1>8


\* Lines that call nothing of a toolchain, and set no PATH unless they may.
Quiet(s, mayset) ==
    \A i \in 1 .. Len(s) : s[i] # Calls("cargo") /\ (s[i][1] = "path" => mayset)

LEMMA QuietConcat ==
    ASSUME NEW U, NEW s \in Seq(U), NEW t \in Seq(U), NEW mayset, Quiet(s, mayset), Quiet(t, mayset)
    PROVE  s \o t \in Seq(U) /\ Quiet(s \o t, mayset)
<1> DEFINE new == s \o t
<1>1. /\ new \in Seq(U)
      /\ \A i \in 1 .. Len(s) : i \in 1 .. Len(new) /\ new[i] = s[i]
      /\ \A i \in 1 .. Len(new) : i \notin 1 .. Len(s) =>
            i - Len(s) \in 1 .. Len(t) /\ new[i] = t[i - Len(s)]
    BY ConcatPrefix
<1> HIDE DEF new
<1>2. ASSUME NEW i \in 1 .. Len(new)
      PROVE  new[i] # Calls("cargo") /\ (new[i][1] = "path" => mayset)
    <2>1. CASE i \in 1 .. Len(s)
        BY <1>1, <2>1, Zenon DEF Quiet
    <2>2. CASE i \notin 1 .. Len(s)
        BY <1>1, <2>2, Zenon DEF Quiet
    <2> QED
        BY <2>1, <2>2
<1> QED
    BY <1>1, <1>2, Zenon DEF Quiet, new

LEMMA QuietIf ==
    ASSUME NEW U, NEW line \in U, NEW present, NEW mayset,
           line # Calls("cargo"), line[1] # "path"
    PROVE  If(present, <<line>>) \in Seq(U) /\ Quiet(If(present, <<line>>), mayset)
<1>1. Quiet(<<line>>, mayset) /\ <<line>> \in Seq(U)
    <2>1. <<line>> \in Seq(U) /\ Len(<<line>>) = 1 /\ <<line>>[1] = line
        BY One
    <2>2. \A i \in 1 .. 1 : i = 1
        OBVIOUS
    <2> QED
        BY <2>1, <2>2, Zenon DEF Quiet
<1>2. Quiet(<<>>, mayset) /\ <<>> \in Seq(U)
    BY DEF Quiet
<1> QED
    BY <1>1, <1>2, Zenon DEF If

\* The lines of the toolchains, the first after line a, among quiet lines.
Layout(lines, mid, a, mayset) ==
    /\ a \in Nat
    /\ \A i \in 1 .. Len(mid) : a + i \in 1 .. Len(lines) /\ lines[a + i] = mid[i]
    /\ \A i \in 1 .. Len(lines) : i - a \in 1 .. Len(mid) \/ lines[i] # Calls("cargo")
    /\ \A i \in 1 .. Len(lines) : i - a \in 1 .. Len(mid) \/ (i > a /\ mayset) \/ lines[i][1] # "path"

LEMMA LayoutFirst ==
    ASSUME NEW U, NEW s \in Seq(U), NEW mid \in Seq(U), NEW mayset, Quiet(s, FALSE)
    PROVE  s \o mid \in Seq(U) /\ Layout(s \o mid, mid, Len(s), mayset)
<1> DEFINE new == s \o mid
<1>1. PICK a \in Nat : a = Len(s)
    OBVIOUS
<1>2. PICK b \in Nat : b = Len(mid)
    OBVIOUS
<1>3. /\ new \in Seq(U) /\ Len(new) = a + b
      /\ \A i \in 1 .. a + b : new[i] = IF i <= a THEN s[i] ELSE mid[i - a]
    BY <1>1, <1>2, ConcatProperties
<1> HIDE DEF new
<1>4. ASSUME NEW i \in 1 .. b
      PROVE  a + i \in 1 .. Len(new) /\ new[a + i] = mid[i]
    <2>1. PICK j \in 1 .. a + b : j = a + i /\ ~(j <= a) /\ j - a = i
        OBVIOUS
    <2>2. new[j] = mid[j - a]
        BY <1>3, <2>1
    <2> QED
        BY <1>3, <2>1, <2>2
<1>5. ASSUME NEW i \in 1 .. Len(new), i - a \notin 1 .. b
      PROVE  new[i] # Calls("cargo") /\ new[i][1] # "path"
    <2>1. i \in 1 .. a /\ i <= a /\ i \in 1 .. a + b
        BY <1>3, <1>5
    <2>2. new[i] = s[i]
        BY <1>3, <2>1
    <2> QED
        BY <1>1, <2>1, <2>2 DEF Quiet
<1>6. Layout(new, mid, a, mayset)
    BY <1>2, <1>4, <1>5, Zenon DEF Layout
<1> QED
    BY <1>1, <1>3, <1>6, Zenon DEF new

LEMMA LayoutMore ==
    ASSUME NEW U, NEW lines \in Seq(U), NEW t \in Seq(U), NEW mid \in Seq(U), NEW a, NEW mayset,
           Layout(lines, mid, a, mayset), Quiet(t, mayset), a <= Len(lines)
    PROVE  /\ lines \o t \in Seq(U) /\ Layout(lines \o t, mid, a, mayset)
           /\ a <= Len(lines \o t)
<1> DEFINE new == lines \o t
<1>1. PICK n \in Nat : n = Len(lines)
    OBVIOUS
<1>2. PICK b \in Nat : b = Len(t)
    OBVIOUS
<1>3. /\ new \in Seq(U) /\ Len(new) = n + b
      /\ \A i \in 1 .. n + b : new[i] = IF i <= n THEN lines[i] ELSE t[i - n]
    BY <1>1, <1>2, ConcatProperties
<1> HIDE DEF new
<1>4. a \in Nat
    BY DEF Layout
<1>5. ASSUME NEW i \in 1 .. Len(mid)
      PROVE  a + i \in 1 .. Len(new) /\ new[a + i] = mid[i]
    <2>1. a + i \in 1 .. n /\ lines[a + i] = mid[i]
        BY <1>1 DEF Layout
    <2>2. PICK j \in 1 .. n : j = a + i
        BY <2>1
    <2>3. j \in 1 .. n + b /\ j <= n
        OBVIOUS
    <2>4. new[j] = lines[j]
        BY <1>3, <2>3
    <2> QED
        BY <1>3, <2>1, <2>2, <2>3, <2>4
<1>6. ASSUME NEW i \in 1 .. Len(new), i - a \notin 1 .. Len(mid)
      PROVE  new[i] # Calls("cargo") /\ ((i > a /\ mayset) \/ new[i][1] # "path")
    <2>1. i \in 1 .. n + b
        BY <1>3
    <2>2. CASE i <= n
        <3>1. i \in 1 .. n
            BY <2>1, <2>2
        <3>2. new[i] = lines[i]
            BY <1>3, <2>1, <2>2, Zenon
        <3> QED
            BY <1>1, <1>6, <3>1, <3>2 DEF Layout
    <2>3. CASE ~(i <= n)
        <3>1. i - n \in 1 .. b /\ new[i] = t[i - n] /\ i > a
            BY <1>1, <1>3, <1>4, <2>1, <2>3
        <3> QED
            BY <1>2, <3>1 DEF Quiet
    <2> QED
        BY <2>2, <2>3
<1>7. Layout(new, mid, a, mayset)
    BY <1>4, <1>5, <1>6, Zenon DEF Layout
<1>8. a <= Len(new)
    BY <1>1, <1>3, <1>4
<1> QED
    BY <1>3, <1>7, <1>8, Zenon DEF new


\* An order of a finite map meets every key.
LEMMA OrderMeetsAll ==
    ASSUME NEW T, IsFiniteSet(T), NEW s \in SetToSeqs(T)
    PROVE  \E n \in Nat : /\ DOMAIN s = 1 .. n /\ s \in [1 .. n -> T]
                          /\ \A x \in T : \E k \in 1 .. n : s[k] = x
<1>1. PICK n \in Nat : n = Cardinality(T)
    BY FS_CardinalityType
<1>2. s \in [1 .. n -> T] /\ \A i, j \in 1 .. n : i # j => s[i] # s[j]
    BY <1>1 DEF SetToSeqs
<1>3. s \in Injection(1 .. n, T)
    BY <1>2 DEF Injection, IsInjective
<1>4. Cardinality(1 .. n) = n
    <2>1. Cardinality(1 .. n) = IF 1 > n THEN 0 ELSE n - 1 + 1
        BY FS_Interval
    <2> QED
        BY <2>1
<1>5. s \in Surjection(1 .. n, T)
    <2>1. Cardinality(1 .. n) = Cardinality(T)
        BY <1>1, <1>4
    <2> QED
        BY <1>3, <2>1, FS_Injection
<1>6. \A x \in T : \E k \in 1 .. n : s[k] = x
    BY <1>5 DEF Surjection
<1> QED
    BY <1>2, <1>6

\* The lines of the toolchains of a spec, in one order of its map.
ToolchainPieces(spec, kinds) ==
    [i \in DOMAIN kinds |-> ToolchainLines(kinds[i], spec.toolchains[kinds[i]])]

LEMMA PiecesTyped ==
    ASSUME NEW spec, Parses(spec), NEW kinds, NEW n \in Nat, DOMAIN kinds = 1 .. n,
           kinds \in [1 .. n -> DOMAIN spec.toolchains]
    PROVE  /\ ToolchainPieces(spec, kinds) \in Seq(Seq(Steps))
           /\ Len(ToolchainPieces(spec, kinds)) = n
           /\ \A k \in 1 .. n :
                 /\ kinds[k] \in DOMAIN Required
                 /\ ToolchainPieces(spec, kinds)[k]
                      = ToolchainLines(kinds[k], spec.toolchains[kinds[k]])
<1> DEFINE pieces == ToolchainPieces(spec, kinds)
<1>1. \A k \in 1 .. n : kinds[k] \in DOMAIN Required
    BY DEF Parses, Deserializes
<1>2. \A k \in 1 .. n : ToolchainLines(kinds[k], spec.toolchains[kinds[k]]) \in Seq(Steps)
    BY <1>1, ToolchainTyped
<1>3. pieces = [k \in 1 .. n |-> ToolchainLines(kinds[k], spec.toolchains[kinds[k]])]
    BY Zenon DEF ToolchainPieces
<1> HIDE DEF pieces
<1>4. pieces \in [1 .. n -> Seq(Steps)]
    BY <1>2, <1>3
<1>5. pieces \in Seq(Seq(Steps)) /\ Len(pieces) = n
    BY <1>4
<1>6. \A k \in 1 .. n : pieces[k] = ToolchainLines(kinds[k], spec.toolchains[kinds[k]])
    BY <1>3, Zenon
<1> QED
    BY <1>1, <1>5, <1>6, Zenon DEF pieces

\* The variables set nothing that is a PATH unless PATH is one of them.
LEMMA EnvQuiet ==
    ASSUME NEW spec, NEW names, NEW n \in Nat, DOMAIN names = 1 .. n,
           names \in [1 .. n -> DOMAIN spec.env]
    PROVE  /\ Len(EnvLines(spec, names)) = n /\ DOMAIN EnvLines(spec, names) = 1 .. n
           /\ Quiet(EnvLines(spec, names), "PATH" \in DOMAIN spec.env)
<1> DEFINE lines == EnvLines(spec, names)
<1>1. lines = [i \in 1 .. n |-> IF names[i] = "PATH" THEN <<"path", spec.env["PATH"]>>
                                                    ELSE <<"env", names[i]>>]
    BY Zenon DEF EnvLines
<1> HIDE DEF lines
<1>2. ASSUME NEW i \in 1 .. n
      PROVE  lines[i] # Calls("cargo") /\ (lines[i][1] = "path" => "PATH" \in DOMAIN spec.env)
    <2>1. \A x : <<"path", x>>[1] = "path" /\ <<"env", x>>[1] = "env"
        OBVIOUS
    <2>2. CASE names[i] = "PATH"
        <3>1. lines[i] = <<"path", spec.env["PATH"]>>
            BY <1>1, <2>2, Zenon
        <3>2. lines[i][1] = "path" /\ Calls("cargo")[1] = "run"
            BY <2>1, <3>1, LineKinds, Zenon
        <3>3. "PATH" \in DOMAIN spec.env
            BY <2>2
        <3> QED
            BY <3>2, <3>3
    <2>3. CASE names[i] # "PATH"
        <3>1. lines[i] = <<"env", names[i]>>
            BY <1>1, <2>3, Zenon
        <3>2. lines[i][1] = "env" /\ Calls("cargo")[1] = "run"
            BY <2>1, <3>1, LineKinds, Zenon
        <3> QED
            BY <3>2
    <2> QED
        BY <2>2, <2>3
<1>3. DOMAIN lines = 1 .. n /\ Len(lines) = n
    BY <1>1
<1> QED
    BY <1>2, <1>3, Zenon DEF Quiet, lines

\* The generator puts the toolchains before the variables, and both among lines that
\* concern neither.
LEMMA ContainerfileLayout ==
    ASSUME NEW spec, Parses(spec), IsFiniteSet(DOMAIN spec.env),
           NEW kinds, NEW n \in Nat, DOMAIN kinds = 1 .. n,
           kinds \in [1 .. n -> DOMAIN spec.toolchains],
           NEW names \in SetToSeqs(DOMAIN spec.env)
    PROVE  \E U, a : /\ Containerfile(spec, kinds, names) \in Seq(U)
                     /\ Layout(Containerfile(spec, kinds, names),
                               FlattenSeq(ToolchainPieces(spec, kinds)), a,
                               "PATH" \in DOMAIN spec.env)
<1> DEFINE mayset == "PATH" \in DOMAIN spec.env
           env == EnvLines(spec, names)
           from == <<"from", "stronghold/", spec.extends>>
           U == {from} \cup {Calls("pre"), Calls("dnf"), Calls("post"), Calls("snippet")}
                \cup Steps \cup {env[i] : i \in DOMAIN env}
           mid == FlattenSeq(ToolchainPieces(spec, kinds))
           s2 == If(spec.pre, <<Calls("pre")>>)
           s3 == If(spec.dnf, <<Calls("dnf")>>)
           t2 == If(spec.post, <<Calls("post")>>)
           t3 == If(spec.snippets, <<Calls("snippet")>>)
<1>1. Containerfile(spec, kinds, names)
        = (((((<<from>> \o s2) \o s3) \o mid) \o env) \o t2) \o t3
    BY Zenon DEF Containerfile, ToolchainPieces
<1>2. mid \in Seq(U)
    <2>1. mid \in Seq(Steps)
        BY PiecesTyped, Flattened
    <2>2. Steps \subseteq U
        OBVIOUS
    <2> HIDE DEF mid, U
    <2> QED
        BY <2>1, <2>2, SeqMonotonic
<1>3. env \in Seq(U) /\ Quiet(env, mayset)
    <2>1. PICK m \in Nat : DOMAIN names = 1 .. m /\ names \in [1 .. m -> DOMAIN spec.env]
        BY OrderMeetsAll, Zenon
    <2>2. DOMAIN env = 1 .. m /\ Quiet(env, mayset)
        BY <2>1, EnvQuiet, Zenon
    <2>3. env = [i \in 1 .. m |-> env[i]]
        BY <2>2 DEF EnvLines
    <2>4. \A i \in 1 .. m : env[i] \in U
        BY <2>2
    <2> HIDE DEF env, U
    <2>5. env \in [1 .. m -> U]
        BY <2>3, <2>4, Zenon
    <2>6. env \in Seq(U)
        BY <2>5
    <2> QED
        BY <2>2, <2>6
<1>4. from \in U /\ Calls("pre") \in U /\ Calls("dnf") \in U /\ Calls("post") \in U
      /\ Calls("snippet") \in U
    OBVIOUS
<1>5. from # Calls("cargo") /\ from[1] # "path"
    <2>1. from[1] = "from" /\ Calls("cargo")[1] = "run"
        BY LineKinds
    <2> QED
        BY <2>1
<1>6. \A p \in {"pre", "dnf", "post", "snippet"} :
        Calls(p) # Calls("cargo") /\ Calls(p)[1] # "path"
    BY LineKinds
<1> HIDE DEF from, U, env, mayset, mid
<1>7. <<from>> \in Seq(U) /\ Quiet(<<from>>, FALSE)
    <2>1. If(TRUE, <<from>>) \in Seq(U) /\ Quiet(If(TRUE, <<from>>), FALSE)
        BY <1>4, <1>5, QuietIf
    <2>2. If(TRUE, <<from>>) = <<from>>
        BY Zenon DEF If
    <2> QED
        BY <2>1, <2>2, Zenon
<1>8. /\ s2 \in Seq(U) /\ Quiet(s2, FALSE) /\ s3 \in Seq(U) /\ Quiet(s3, FALSE)
    BY <1>4, <1>6, QuietIf
<1>9. /\ t2 \in Seq(U) /\ Quiet(t2, mayset) /\ t3 \in Seq(U) /\ Quiet(t3, mayset)
    BY <1>4, <1>6, QuietIf
<1> HIDE DEF s2, s3, t2, t3
<1> DEFINE f1 == <<from>>
           f2 == f1 \o s2
           f3 == f2 \o s3
           f4 == f3 \o mid
           f5 == f4 \o env
           f6 == f5 \o t2
           f7 == f6 \o t3
<1>10. Containerfile(spec, kinds, names) = f7
    BY <1>1, Zenon
<1> HIDE DEF f1, f2, f3, f4, f5, f6, f7
<1>11. f1 \in Seq(U) /\ Quiet(f1, FALSE)
    BY <1>7, Zenon DEF f1
<1>12. f2 \in Seq(U) /\ Quiet(f2, FALSE)
    <2>1. f1 \o s2 \in Seq(U) /\ Quiet(f1 \o s2, FALSE)
        BY <1>8, <1>11, QuietConcat
    <2> QED
        BY <2>1, Zenon DEF f2
<1>13. f3 \in Seq(U) /\ Quiet(f3, FALSE)
    <2>1. f2 \o s3 \in Seq(U) /\ Quiet(f2 \o s3, FALSE)
        BY <1>8, <1>12, QuietConcat
    <2> QED
        BY <2>1, Zenon DEF f3
<1>14. PICK a : a = Len(f3)
    OBVIOUS
<1>15. f4 \in Seq(U) /\ Layout(f4, mid, a, mayset) /\ a <= Len(f4)
    <2>1. f3 \o mid \in Seq(U) /\ Layout(f3 \o mid, mid, a, mayset)
        BY <1>2, <1>13, <1>14, LayoutFirst
    <2>2. Len(f3) <= Len(f3 \o mid)
        BY <1>2, <1>13, ConcatProperties
    <2> QED
        BY <1>14, <2>1, <2>2, Zenon DEF f4
<1>16. f5 \in Seq(U) /\ Layout(f5, mid, a, mayset) /\ a <= Len(f5)
    <2>1. f4 \o env \in Seq(U) /\ Layout(f4 \o env, mid, a, mayset) /\ a <= Len(f4 \o env)
        BY <1>2, <1>3, <1>15, LayoutMore
    <2> QED
        BY <2>1, Zenon DEF f5
<1>17. f6 \in Seq(U) /\ Layout(f6, mid, a, mayset) /\ a <= Len(f6)
    <2>1. f5 \o t2 \in Seq(U) /\ Layout(f5 \o t2, mid, a, mayset) /\ a <= Len(f5 \o t2)
        BY <1>2, <1>9, <1>16, LayoutMore
    <2> QED
        BY <2>1, Zenon DEF f6
<1>18. f7 \in Seq(U) /\ Layout(f7, mid, a, mayset)
    <2>1. f6 \o t3 \in Seq(U) /\ Layout(f6 \o t3, mid, a, mayset) /\ a <= Len(f6 \o t3)
        BY <1>2, <1>9, <1>17, LayoutMore
    <2> QED
        BY <2>1, Zenon DEF f7
<1> QED
    BY <1>10, <1>18, Zenon DEF mid, mayset


\* Every program of a toolchain is found while the toolchains are installed, and in the
\* image, for every order of the two maps.
LEMMA GeneratedFinds ==
    ASSUME NEW spec, Parses(spec), IsFiniteSet(DOMAIN spec.env),
           NEW kinds \in SetToSeqs(DOMAIN spec.toolchains),
           NEW names \in SetToSeqs(DOMAIN spec.env),
           NEW lines, lines = Containerfile(spec, kinds, names)
    PROVE  /\ \A i \in DOMAIN lines :
                 lines[i] = Calls("cargo") => OnPath("cargo", SubSeq(lines, 1, i - 1))
           /\ "PATH" \notin DOMAIN spec.env =>
                 \A kind \in DOMAIN spec.toolchains \cap DOMAIN Installs :
                     OnPath(Installs[kind], lines)
<1>1. PICK n \in Nat : /\ DOMAIN kinds = 1 .. n /\ kinds \in [1 .. n -> DOMAIN spec.toolchains]
                       /\ \A x \in DOMAIN spec.toolchains : \E k \in 1 .. n : kinds[k] = x
    <2>1. IsFiniteSet(DOMAIN spec.toolchains)
        <3>1. DOMAIN spec.toolchains \subseteq DOMAIN Required
            BY DEF Parses, Deserializes
        <3>2. DOMAIN Required = {"rust", "node", "python", "go", "elan"}
            BY DEF Required
        <3>3. IsFiniteSet({"rust", "node", "python", "go", "elan"})
            <4>1. \A S, x : IsFiniteSet(S) => IsFiniteSet(S \cup {x})
                BY FS_AddElement
            <4>2. IsFiniteSet({"rust"} \cup {"node"})
                BY <4>1, FS_Singleton
            <4>3. IsFiniteSet((({"rust"} \cup {"node"}) \cup {"python"}) \cup {"go"})
                BY <4>1, <4>2
            <4>4. IsFiniteSet(((({"rust"} \cup {"node"}) \cup {"python"}) \cup {"go"}) \cup {"elan"})
                BY <4>1, <4>3, Zenon
            <4>5. ((({"rust"} \cup {"node"}) \cup {"python"}) \cup {"go"}) \cup {"elan"}
                    = {"rust", "node", "python", "go", "elan"}
                OBVIOUS
            <4> QED
                BY <4>4, <4>5, Zenon
        <3> QED
            BY <3>1, <3>2, <3>3, FS_Subset
    <2> QED
        BY <2>1, OrderMeetsAll
<1> DEFINE pieces == ToolchainPieces(spec, kinds)
           mid == FlattenSeq(pieces)
           mayset == "PATH" \in DOMAIN spec.env
<1>2. PICK U, a : lines \in Seq(U) /\ Layout(lines, mid, a, mayset)
    BY <1>1, ContainerfileLayout
<1>3. /\ pieces \in Seq(Seq(Steps)) /\ Len(pieces) = n
      /\ \A k \in 1 .. n :
            /\ kinds[k] \in DOMAIN Required
            /\ pieces[k] = ToolchainLines(kinds[k], spec.toolchains[kinds[k]])
    BY <1>1, PiecesTyped
<1> HIDE DEF pieces
<1>4. PICK start : /\ mid \in Seq(Steps) /\ start \in [1 .. n -> Nat]
                   /\ Located(mid, pieces, n, start)
    BY <1>3, Flattened
<1> HIDE DEF mid, mayset
<1>5. PICK N \in Nat : N = Len(lines) /\ DOMAIN lines = 1 .. N
    BY <1>2
<1>6. PICK b \in Nat : b = Len(mid)
    BY <1>4
<1>7. /\ a \in Nat
      /\ \A i \in 1 .. b : a + i \in 1 .. N /\ lines[a + i] = mid[i]
      /\ \A i \in 1 .. N : i - a \in 1 .. b \/ lines[i] # Calls("cargo")
      /\ \A i \in 1 .. N : i - a \in 1 .. b \/ (i > a /\ mayset) \/ lines[i][1] # "path"
    BY <1>2, <1>5, <1>6 DEF Layout
<1>8. ASSUME NEW i \in 1 .. N, i - a \in 1 .. b
      PROVE  lines[i][1] = "path" => lines[i] \in Adds
    <2>1. lines[i] = mid[i - a]
        <3>1. a + (i - a) = i
            BY <1>7
        <3> QED
            BY <1>7, <1>8, <3>1
    <2>2. mid[i - a] \in Steps
        BY <1>4, <1>6, <1>8
    <2> QED
        BY <2>1, <2>2, LineKinds
<1>9. ASSUME NEW i \in DOMAIN lines, lines[i] = Calls("cargo")
      PROVE  OnPath("cargo", SubSeq(lines, 1, i - 1))
    <2>1. i \in 1 .. N /\ i - a \in 1 .. b
        BY <1>5, <1>7, <1>9
    <2>2. mid[i - a] = Calls("cargo")
        <3>1. a + (i - a) = i
            BY <1>7, <2>1
        <3> QED
            BY <1>7, <1>9, <2>1, <3>1
    <2>3. PICK k \in 1 .. n : \E m \in 1 .. Len(pieces[k]) : i - a = start[k] + m
        BY <1>4, <1>6, <2>1 DEF Located
    <2>4. PICK m \in 1 .. Len(pieces[k]) : i - a = start[k] + m
        BY <2>3
    <2>5. pieces[k][m] = Calls("cargo")
        <3>1. mid[start[k] + m] = pieces[k][m]
            BY <1>4 DEF Located
        <3> QED
            BY <2>2, <2>4, <3>1
    <2>6. PICK q \in 1 .. m - 1 : pieces[k][q] = AddToPath("cargo")
        <3>1. PICK kind, fields : kind = kinds[k] /\ fields = spec.toolchains[kinds[k]]
            OBVIOUS
        <3>2. kind \in DOMAIN Required /\ pieces[k] = ToolchainLines(kind, fields)
            BY <1>3, <3>1
        <3>3. \E q \in 1 .. m - 1 : ToolchainLines(kind, fields)[q] = AddToPath("cargo")
            BY <2>5, <3>2, ToolchainCalls
        <3> QED
            BY <3>2, <3>3, Zenon
    <2>7. pieces[k] \in Seq(Steps) /\ start[k] \in Nat
        <3>1. start[k] \in Nat
            BY <1>4
        <3>2. k \in DOMAIN pieces
            BY <1>3
        <3>3. \A t \in Seq(Seq(Steps)) : \A j \in DOMAIN t : t[j] \in Seq(Steps)
            OBVIOUS
        <3> QED
            BY <1>3, <3>1, <3>2, <3>3, Zenon
    <2>8. q \in 1 .. Len(pieces[k]) /\ q < m
        BY <2>7
    <2>9. mid[start[k] + q] = AddToPath("cargo") /\ start[k] + q \in 1 .. b
        BY <1>4, <1>6, <2>6, <2>8 DEF Located
    <2>10. PICK j \in 1 .. i - 1 : lines[j] = AddToPath("cargo")
        <3>1. PICK j : j = a + (start[k] + q)
            OBVIOUS
        <3>2. lines[j] = AddToPath("cargo") /\ j \in 1 .. N
            BY <1>7, <2>9, <3>1
        <3>3. j < i
            BY <1>7, <2>1, <2>4, <2>7, <2>8, <3>1
        <3>4. j \in 1 .. i - 1
            BY <2>1, <3>2, <3>3
        <3> QED
            BY <3>2, <3>4
    <2> DEFINE before == SubSeq(lines, 1, i - 1)
    <2>11. /\ before \in Seq(U) /\ Len(before) = i - 1
           /\ \A l \in 1 .. i - 1 : before[l] = lines[l]
        <3>1. 1 \in 1 .. N + 1 /\ i - 1 \in 0 .. N
            BY <2>1
        <3> QED
            BY <1>2, <1>5, <2>1, <3>1
    <2> HIDE DEF before
    <2>12. ASSUME NEW l \in 1 .. i - 1, lines[l][1] = "path"
           PROVE  lines[l] \in Adds
        <3>1. l \in 1 .. N /\ l < i
            BY <2>1
        <3>2. CASE l - a \in 1 .. b
            BY <1>8, <2>12, <3>1, <3>2
        <3>3. CASE l - a \notin 1 .. b
            <4>1. ~(l > a)
                BY <1>7, <2>1, <3>1, <3>3
            <4> QED
                BY <1>7, <2>12, <3>1, <3>3, <4>1
        <3> QED
            BY <3>2, <3>3
    <2>13. OnPath("cargo", before)
        <3>1. \A l \in 1 .. Len(before) : before[l][1] = "path" => before[l] \in Adds
            BY <2>11, <2>12
        <3>2. j \in 1 .. Len(before) /\ before[j] = AddToPath("cargo") /\ "cargo" \in Dirs
            BY <2>10, <2>11 DEF Dirs
        <3> QED
            BY <2>11, <3>1, <3>2, Kept
    <2> QED
        BY <2>13 DEF before
<1>10. ASSUME "PATH" \notin DOMAIN spec.env,
              NEW kind \in DOMAIN spec.toolchains \cap DOMAIN Installs
       PROVE  OnPath(Installs[kind], lines)
    <2>1. PICK k \in 1 .. n : kinds[k] = kind
        BY <1>1
    <2>2. pieces[k] = ToolchainLines(kind, spec.toolchains[kind])
        BY <1>3, <2>1
    <2>3. PICK q \in 1 .. Len(pieces[k]) : pieces[k][q] = AddToPath(Installs[kind])
        BY <2>2, ToolchainInstalls
    <2>4. mid[start[k] + q] = AddToPath(Installs[kind]) /\ start[k] + q \in 1 .. b
        BY <1>4, <1>6, <2>3 DEF Located
    <2>5. PICK j \in 1 .. N : lines[j] = AddToPath(Installs[kind])
        BY <1>7, <2>4
    <2>6. \A l \in 1 .. N : lines[l][1] = "path" => lines[l] \in Adds
        BY <1>7, <1>8, <1>10 DEF mayset
    <2> QED
        BY <1>2, <1>5, <2>5, <2>6, ToolchainInstalls, Kept
<1> QED
    BY <1>9, <1>10

-----------------------------------------------------------------------------
(* Images: what has been generated comes from a spec that parses.           *)

FileInv ==
    \/ containerfile = NoFile
    \/ \E spec \in {s \in Specs : Parses(s)} :
          \E kinds \in SetToSeqs(DOMAIN spec.toolchains), names \in SetToSeqs(DOMAIN spec.env) :
              containerfile = [spec |-> spec, lines |-> Containerfile(spec, kinds, names)]

\* Whatever the order in which the maps give the toolchains and the variables,
\* generate_containerfile puts the PATH of every toolchain before the first call of its
\* programs and takes none away, unless the env section sets a PATH.
THEOREM GeneratedHolds == Spec => []ToolchainsOnPath
<1>1. Init => FileInv
    BY Zenon DEF Init, OperatorInit, FileInv
<1>2. FileInv /\ [Next]_vars => FileInv'
    <2> SUFFICES ASSUME FileInv, [Next]_vars
                 PROVE  FileInv'
        OBVIOUS
    <2>1. CASE Generate
        BY <2>1, Zenon DEF Generate, FileInv
    <2>2. CASE UNCHANGED containerfile
        BY <2>2, Zenon DEF FileInv
    <2> QED
        BY <2>1, <2>2 DEF Next, vars
<1>3. FileInv => ToolchainsOnPath
    <2> SUFFICES ASSUME FileInv, containerfile # NoFile
                 PROVE  ToolchainsOnPath
        BY DEF ToolchainsOnPath
    <2>1. PICK spec \in {s \in Specs : Parses(s)} :
              \E kinds \in SetToSeqs(DOMAIN spec.toolchains), names \in SetToSeqs(DOMAIN spec.env) :
                  containerfile = [spec |-> spec, lines |-> Containerfile(spec, kinds, names)]
        BY Zenon DEF FileInv
    <2>2. PICK kinds \in SetToSeqs(DOMAIN spec.toolchains),
               names \in SetToSeqs(DOMAIN spec.env) :
              containerfile = [spec |-> spec, lines |-> Containerfile(spec, kinds, names)]
        BY <2>1, Zenon
    <2>3. PICK lines : lines = Containerfile(spec, kinds, names)
        OBVIOUS
    <2>4. containerfile.spec = spec /\ containerfile.lines = lines
        BY <2>2, <2>3
    <2>5. Parses(spec) /\ IsFiniteSet(DOMAIN spec.env)
        BY SpecsAssumption
    <2>6. /\ \A i \in DOMAIN lines :
                lines[i] = Calls("cargo") => OnPath("cargo", SubSeq(lines, 1, i - 1))
          /\ "PATH" \notin DOMAIN spec.env =>
                \A kind \in DOMAIN spec.toolchains \cap DOMAIN Installs :
                    OnPath(Installs[kind], lines)
        BY <2>3, <2>5, GeneratedFinds
    <2> QED
        BY <2>4, <2>6, Zenon DEF ToolchainsOnPath
<1> QED
    BY <1>1, <1>2, <1>3, PTL DEF Spec
=============================================================================
