----------------------------- MODULE WatchdogMC -----------------------------
(* Watchdog for TLC: a machine with two tasks.                               *)
EXTENDS Watchdog, TLC

CONSTANTS m1, t1, t2

OneMachine == {m1}
TwoTasks == {t1, t2}
SameMachine == [t \in TwoTasks |-> m1]
Faults == {{}, {"database"}, {"crash"}}

Text(for, progress) == [for |-> for, progress |-> progress]

\* Off task; on one task, on both, with progress; and a client that has all but the
\* program in the arguments.
Off == Text({}, 0)
Lines ==
    {[cmd |-> x, args |-> Off] : x \in {Off, Text({t1}, 3), Text({t1, t2}, 2)}}
    \cup {[cmd |-> Off, args |-> Text({t1}, 3)]}
=============================================================================
