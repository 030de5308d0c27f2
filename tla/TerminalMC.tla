----------------------------- MODULE TerminalMC -----------------------------
(* Terminal for TLC: two connections to one machine, a caller, the watchdog.  *)
EXTENDS Terminal, TLC

CONSTANTS c1, c2, p1, m1, m2

TwoMachines == {m1, m2}
TwoConns == {c1, c2}
SameMachine == [c \in TwoConns |-> m1]
ToThatMachine == [p \in Callers |-> m1]
OneFault == {{}, {"panic"}, {"shell"}}
NoFault == {{}}
=============================================================================
