---------------------------- MODULE OrderedFeed ----------------------------
(***************************************************************************)
(* What a stream over an append-only table promises to its client: on each  *)
(* connection every row that concerns it, from the first one, in the order  *)
(* of the ids, without a gap and without a repetition.                      *)
(***************************************************************************)
EXTENDS Integers

CONSTANT Readers

VARIABLES
    source,     \* the ids of the rows that concern each reader
    got         \* the ids it has received over its connection

vars == <<source, got>>

Init ==
    /\ source \in [Readers -> SUBSET Nat]
    /\ got = [r \in Readers |-> {}]

\* Rows are added, behind those that are there.
Grow ==
    /\ source' \in [Readers -> SUBSET Nat]
    /\ \A r \in Readers :
         /\ source[r] \subseteq source'[r]
         /\ \A old \in source[r], new \in source'[r] \ source[r] : old < new
    /\ UNCHANGED got

\* The reader receives the first row that it has not received.
Take(r) ==
    /\ \E i \in source[r] \ got[r] :
         /\ \A j \in source[r] \ got[r] : i <= j
         /\ got' = [got EXCEPT ![r] = @ \cup {i}]
    /\ UNCHANGED source

\* Its connection ends; the next one starts from the first row.
Restart(r) == got' = [got EXCEPT ![r] = {}] /\ UNCHANGED source

\* The process that serves the connections ends.
RestartAll == got' = [r \in Readers |-> {}] /\ UNCHANGED source

Next ==
    \/ Grow
    \/ \E r \in Readers : Take(r) \/ Restart(r)
    \/ RestartAll

Spec == Init /\ [][Next]_vars

\* A row that concerns a reader is received, on every connection.
Arrives(r, i) == (i \in source[r]) ~> (i \in got[r])
=============================================================================
