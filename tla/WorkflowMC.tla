----------------------------- MODULE WorkflowMC -----------------------------
(* Workflow for TLC: one definition of each kind that execute_dag can meet.    *)
EXTENDS Workflow

Condition(op, step, code) == [op |-> op, step |-> step, code |-> code]
Always == Condition("none", "a", "0")
Step(id, depends_on, condition) == [id |-> id, depends_on |-> depends_on, condition |-> condition]
Definition(steps) == [parses |-> TRUE, steps |-> steps]

FourIds == {"a", "b", "c", "d"}
TwoCodes == {"0", "1"}

\* Two steps wait for one and run, or not, by its exit code; a fourth joins them.
Diamond == Definition(<<Step("d", {"b", "c"}, Condition("==", "c", "0")),
                        Step("a", {}, Always),
                        Step("b", {"a"}, Always),
                        Step("c", {"a"}, Condition("==", "a", "0"))>>)
\* Two steps run side by side; a third only when the second did not return 0.
Side == Definition(<<Step("a", {}, Always), Step("b", {}, Always),
                     Step("c", {"a", "b"}, Condition("!=", "b", "0"))>>)
\* A chain that begins with skips: of a condition that no text matches, and of one
\* on a step that never has an exit code.
Skips == Definition(<<Step("a", {}, Condition("bad", "a", "0")),
                      Step("b", {"a"}, Condition("==", "a", "0")),
                      Step("c", {"b"}, Condition("!=", "b", "0"))>>)
\* A cycle behind a step that can run.
Cycle == Definition(<<Step("a", {}, Always), Step("b", {"a", "c"}, Always),
                      Step("c", {"b"}, Always)>>)
\* One id twice, and a step after it.
Twice == Definition(<<Step("a", {}, Always), Step("a", {}, Always), Step("b", {"a"}, Always)>>)
\* A dependency that no step has.
Missing == Definition(<<Step("a", {"d"}, Always), Step("b", {}, Always)>>)
Empty == Definition(<<>>)
\* A definition that does not deserialize, like agent/templates/*.json, where a
\* step's task is an object and not a text.
Template == [parses |-> FALSE, steps |-> <<>>]

EveryDag == {Diamond, Side, Skips, Cycle, Twice, Missing, Empty, Template}
SomeFaults == {{}, {"timeout"}, {"timeout", "database"}, FaultKinds}
NoFaults == {{}}
=============================================================================
