------------------------------ MODULE Watchdog ------------------------------
(***************************************************************************)
(* The watchdog: watchdog/monitor.rs scores every active machine once per   *)
(* minute by its last audit entries (dedication.rs) and climbs a ladder of   *)
(* three ultimata while the score is low (ultimatum.rs).  Its counters are   *)
(* in memory; ultimata of the levels 2 and 3 are rows, and a level 3 is     *)
(* posted to the planner.                                                   *)
(*                                                                         *)
(* The query of a cycle joins machines with their open tasks: a machine has *)
(* a row, and is scored, once per task.  What is injected into its terminal *)
(* is the subject of Terminal.                                              *)
(***************************************************************************)
EXTENDS Integers, Sequences, FiniteSets, FiniteSetsExt, SequencesExt

CONSTANTS
    Machines,       \* the active machines
    Tasks,          \* the tasks
    MachineOf,      \* the machine of each task
    Commands,       \* the commands agents run: a program and its arguments
    Window,         \* the entries a score looks at (50 in the code)
    FaultSets       \* the sets of faults a behaviour may be exposed to

FaultKinds == {"database", "crash"}
NoMachine == "none"

\* A text is known by the tasks with a keyword in it, how many of files_changed,
\* tests_run and commits it counts for.
Texts == [for : SUBSET Tasks, progress : 0 .. 3]

ASSUME WatchdogAssumption ==
    /\ NoMachine \notin Machines
    /\ MachineOf \in [Tasks -> Machines]
    /\ Commands \subseteq [cmd : Texts, args : Texts]
    /\ Window \in Nat \ {0}
    /\ FaultSets \subseteq SUBSET FaultKinds

VARIABLES
    faults,     \* of this behaviour
    at,         \* where the watchdog stands
    rows,       \* the rows of this cycle not yet treated: tasks, each with its machine
    issuing,    \* the machine an ultimatum is being issued to
    count,      \* low_dedication_counts
    level,      \* ultimatum_levels
    open,       \* the tasks that are queued or running
    log,        \* the last entries of each machine in audit_entries
    recorded,   \* the levels in ultimata, per machine
    posted,     \* the machines in the planner's messages
    decline     \* since its last good score: low scores, and ultimata

memory == <<at, rows, issuing, count, level>>
world == <<faults, open, log>>
tables == <<recorded, posted>>
watchdogVars == <<memory, world, tables, decline>>

Threshold == <<3, 5, 7>>
CountCap == Threshold[3]        \* the count is compared with nothing greater

WatchdogInit ==
    /\ faults \in FaultSets
    /\ at = "asleep" /\ rows = {} /\ issuing = NoMachine
    /\ count = [m \in Machines |-> 0] /\ level = [m \in Machines |-> 0]
    /\ open \in SUBSET Tasks
    /\ log = [m \in Machines |-> <<>>]
    /\ recorded = [m \in Machines |-> {}]
    /\ posted = {}
    /\ decline = [m \in Machines |-> [lows |-> 0, issued |-> {}]]

-----------------------------------------------------------------------------
(* dedication.rs.                                                            *)

\* from_audit_entries, over the window.
Progress(entries) == FoldSeq(LAMBDA e, sum : e.progress + sum, 0, entries)

Relevant(entries, t) == Len(SelectSeq(entries, LAMBDA e : t \in e.for))

\* compute_dedication below 0.3: relevance * progress rate * alignment, where the
\* progress rate is capped at 1 from five on and nothing relevant makes it 0.
Low(entries, t) ==
    10 * Relevant(entries, t) * Min({Progress(entries), 5}) < 15 * Len(entries)

-----------------------------------------------------------------------------
(* Broken variants of the definitions below.                                *)

\* A recovery that resets the level and not the count.
RecoverLevelOnly(m) ==
    /\ level' = [level EXCEPT ![m] = 0]
    /\ decline' = [decline EXCEPT ![m] = [lows |-> 0, issued |-> {}]]
    /\ UNCHANGED count

\* A ladder without its last rung.
DueNeverThree(m) == {k \in 1 .. 2 : count'[m] >= Threshold[k] /\ level[m] < k}

\* issue_ultimatum that escalates when the INSERT failed.
RecordFailsSwallowed(m) ==
    /\ "database" \in faults
    /\ at = "recording" /\ issuing = m /\ level[m] = 2
    /\ at' = "escalating"
    /\ UNCHANGED <<rows, issuing, count, level, world, tables, decline>>

-----------------------------------------------------------------------------
(* The agents.                                                               *)

\* The entry that exec_command writes has the program and not its arguments.
Payload(c) == c.cmd

\* Of the entries of a machine, those that get_recent_audit_entries reads.
Keep(recent, entry) == Append(IF Len(recent) < Window THEN recent ELSE Tail(recent), entry)

\* exec_command, after the command has run.
Exec(m) ==
    /\ \E c \in Commands : log' = [log EXCEPT ![m] = Keep(@, Payload(c))]
    /\ UNCHANGED <<memory, faults, open, tables, decline>>

\* A task is queued for its machine, or ends.
TaskChanges(t) ==
    /\ open' = IF t \in open THEN open \ {t} ELSE open \cup {t}
    /\ UNCHANGED <<memory, faults, log, tables, decline>>

-----------------------------------------------------------------------------
(* spawn_watchdog and monitor_cycle.                                         *)

\* get_active_machines: a row per open task.  The order of the rows is the database's.
StartCycle ==
    /\ at = "asleep"
    /\ rows' = open
    /\ at' = "cycle"
    /\ UNCHANGED <<issuing, count, level, world, tables, decline>>

\* The rows are done: sleep for 60 seconds.
EndCycle ==
    /\ at = "cycle" /\ rows = {}
    /\ at' = "asleep"
    /\ UNCHANGED <<rows, issuing, count, level, world, tables, decline>>

\* A row whose machine has no entries yet.
Skip(t) ==
    /\ at = "cycle" /\ t \in rows
    /\ log[MachineOf[t]] = <<>>
    /\ rows' = rows \ {t}
    /\ UNCHANGED <<at, issuing, count, level, world, tables, decline>>

\* Dedication recovered.
Recover(m) ==
    /\ count' = [count EXCEPT ![m] = 0]
    /\ level' = [level EXCEPT ![m] = 0]
    /\ decline' = [decline EXCEPT ![m] = [lows |-> 0, issued |-> {}]]

\* The ultimata that are due: the least of them is issued, one per row.
Due(m) == {k \in 1 .. 3 : count'[m] >= Threshold[k] /\ level[m] < k}

\* One more low score, and an ultimatum when one is due; the level is set when
\* issue_level has returned.
Sink(m) ==
    /\ count' = [count EXCEPT ![m] = Min({@ + 1, CountCap})]
    /\ IF Due(m) = {}
       THEN /\ decline' = [decline EXCEPT ![m].lows = Min({@ + 1, CountCap})]
            /\ UNCHANGED <<at, issuing>>
       ELSE /\ at' = "recording" /\ issuing' = m
            /\ decline' = [decline EXCEPT ![m] = [lows |-> Min({@.lows + 1, CountCap}),
                                                  issued |-> @.issued \cup {Min(Due(m))}]]
    /\ UNCHANGED level

\* get_recent_audit_entries, the score, store_watchdog_report, the counters.
Judge(t) ==
    /\ at = "cycle" /\ t \in rows
    /\ rows' = rows \ {t}
    /\ LET m == MachineOf[t] IN
        /\ log[m] # <<>>
        /\ IF Low(log[m], t) THEN Sink(m) ELSE Recover(m) /\ UNCHANGED <<at, issuing>>
    /\ UNCHANGED <<world, tables>>

\* A statement of the cycle fails: the rows that are left are not looked at.
CycleFails ==
    /\ "database" \in faults
    /\ at = "cycle"
    /\ at' = "asleep" /\ rows' = {}
    /\ UNCHANGED <<issuing, count, level, world, tables, decline>>

-----------------------------------------------------------------------------
(* issue_level and issue_ultimatum.                                          *)

\* Back in monitor_cycle, which takes the ultimatum for issued whatever happened.
Issued(m) ==
    /\ at' = "cycle" /\ issuing' = NoMachine
    /\ level' = [level EXCEPT ![m] = @ + 1]

\* The row of a directive or an escalation; a warning leaves none.
Record(m) ==
    /\ at = "recording" /\ issuing = m
    /\ LET k == level[m] + 1 IN
        /\ recorded' = IF k = 1 THEN recorded ELSE [recorded EXCEPT ![m] = @ \cup {k}]
        /\ IF k = 3 THEN at' = "escalating" /\ UNCHANGED <<issuing, level>> ELSE Issued(m)
    /\ UNCHANGED <<rows, count, world, posted, decline>>

\* The INSERT fails: an error that issue_level logs.
RecordFails(m) ==
    /\ "database" \in faults
    /\ at = "recording" /\ issuing = m /\ level[m] > 0
    /\ Issued(m)
    /\ UNCHANGED <<rows, count, world, tables, decline>>

\* escalate: the message to the planner, then the push to the phone, both best effort.
Escalate(m) ==
    /\ at = "escalating" /\ issuing = m
    /\ \/ posted' = posted \cup {m}
       \/ "database" \in faults /\ UNCHANGED posted
    /\ Issued(m)
    /\ UNCHANGED <<rows, count, world, recorded, decline>>

\* The gateway dies and is started again: the counters begin at zero.
Crash ==
    /\ "crash" \in faults
    /\ at' = "asleep" /\ rows' = {} /\ issuing' = NoMachine
    /\ count' = [m \in Machines |-> 0] /\ level' = [m \in Machines |-> 0]
    /\ decline' = [m \in Machines |-> [lows |-> 0, issued |-> {}]]
    /\ UNCHANGED <<world, tables>>

-----------------------------------------------------------------------------
CycleStep ==
    \/ StartCycle \/ EndCycle
    \/ \E t \in Tasks : Skip(t) \/ Judge(t)
    \/ \E m \in Machines : Record(m) \/ Escalate(m)

WatchdogNext ==
    \/ CycleStep \/ CycleFails \/ Crash
    \/ \E m \in Machines : Exec(m) \/ RecordFails(m)
    \/ \E t \in Tasks : TaskChanges(t)

WatchdogSpec == WatchdogInit /\ [][WatchdogNext]_watchdogVars

\* The runtime polls the watchdog's task and its sleep ends.
FairWatchdogSpec == WatchdogSpec /\ WF_watchdogVars(CycleStep)

-----------------------------------------------------------------------------
(* Properties.                                                              *)

TypeOK ==
    /\ faults \in FaultSets
    /\ at \in {"asleep", "cycle", "recording", "escalating"}
    /\ rows \subseteq Tasks /\ open \subseteq Tasks
    /\ issuing \in Machines \cup {NoMachine}
    /\ (issuing = NoMachine) = (at \in {"asleep", "cycle"})
    /\ count \in [Machines -> 0 .. CountCap] /\ level \in [Machines -> 0 .. 3]
    /\ \A m \in Machines : log[m] \in Seq(Texts) /\ Len(log[m]) <= Window
    /\ recorded \in [Machines -> SUBSET {2, 3}]
    /\ posted \subseteq Machines
    /\ decline \in [Machines -> [lows : 0 .. CountCap, issued : SUBSET (1 .. 3)]]

\* An ultimatum is earned: since its machine last scored well, or the gateway started,
\* it scored low as often as the level asks for, and got every level below
\* (monitor_cycle), whatever statements failed.
UltimatumEarned ==
    \A m \in Machines : \A k \in decline[m].issued :
        decline[m].lows >= Threshold[k] /\ 1 .. k \subseteq decline[m].issued

\* What the planner is told has a row behind it, and unless a statement failed or the
\* gateway died the row of the directive that preceded (issue_ultimatum, escalate).
EscalationIsRecorded ==
    \A m \in Machines :
        /\ m \in posted => 3 \in recorded[m]
        /\ 3 \in recorded[m] /\ faults = {} => 2 \in recorded[m]

\* A machine that is low in all its tasks from some moment on, one of which is always
\* open, is escalated, however well it did before; a task that has ended since the
\* cycle began is still scored, so it must be low in those too (monitor_cycle).
StrayIsEscalated ==
    \A m \in Machines :
        LET Strays == /\ \E t \in open : MachineOf[t] = m
                      /\ log[m] # <<>>
                      /\ \A t \in Tasks : MachineOf[t] = m => Low(log[m], t)
        IN  faults = {} /\ <>[]Strays => <>[](level[m] = 3)
=============================================================================
