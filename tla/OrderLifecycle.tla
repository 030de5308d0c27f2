--------------------------- MODULE OrderLifecycle ---------------------------
(***************************************************************************)
(* What the session protocol promises a tenant about one ORDER: a machine   *)
(* runs only after consent was given, an ORDER turned down never runs, and  *)
(* a machine that ended never runs again.  Sessions implements it.          *)
(***************************************************************************)
CONSTANT Orders

VARIABLES
    life,       \* how far each ORDER has come
    consent     \* the ORDERs the tenant has consented to

vars == <<life, consent>>

Stages == {"idle", "asked", "granted", "running", "refused", "ended"}

Init ==
    /\ life = [o \in Orders |-> "idle"]
    /\ consent = {}

Move(o, from, to) ==
    /\ life[o] = from
    /\ life' = [life EXCEPT ![o] = to]
    /\ UNCHANGED consent

Ask(o)   == Move(o, "idle", "asked")
Grant(o) == o \in consent /\ Move(o, "asked", "granted")
Start(o) == Move(o, "granted", "running")
End(o)   == Move(o, "running", "ended")

\* Consent counts once the ORDER exists, and is never taken back.
Consent(o) ==
    /\ life[o] # "idle"
    /\ consent' = consent \cup {o}
    /\ UNCHANGED life

\* A refusal, a timeout or a failure ends one ORDER; a crash ends every ORDER
\* that is not running yet.
Refuse(os) ==
    /\ \A o \in os : life[o] \in {"asked", "granted"}
    /\ life' = [o \in Orders |-> IF o \in os THEN "refused" ELSE life[o]]
    /\ UNCHANGED consent

Next ==
    \/ \E o \in Orders : Ask(o) \/ Grant(o) \/ Start(o) \/ End(o) \/ Consent(o)
    \/ \E os \in SUBSET Orders : Refuse(os)

Spec == Init /\ [][Next]_vars
=============================================================================
