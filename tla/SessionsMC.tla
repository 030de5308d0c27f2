----------------------------- MODULE SessionsMC -----------------------------
(* Constants of Sessions for TLC.  Requests are model values; every ORDER     *)
(* asks for one CPU, so that the machine count and the CPU budget bind alike. *)
EXTENDS Sessions

CONSTANTS agent, phone

OneCpu == [o \in Orders |-> 1]

\* Every request comes from a client of its own: any two may overlap.
OwnClient == [r \in Sessions \cup Decides |-> r]

\* One agent and one phone: requests of a kind come one after the other.
TwoClients == [r \in Sessions \cup Decides |-> IF r \in Decides THEN phone ELSE agent]

AllFaults == FaultKinds
NoFaults == {}

=============================================================================
