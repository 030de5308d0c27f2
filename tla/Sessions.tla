------------------------------ MODULE Sessions ------------------------------
(***************************************************************************)
(* The session protocol of the gateway: an agent ORDERs a machine or asks   *)
(* to EXTEND one, the tenant's phone decides, the gateway creates a pod and *)
(* records a machine, and the machine is RELEASEd by the agent or REVOKEd   *)
(* from the phone.  Sources: routes/agent.rs, routes/phone.rs,              *)
(* sessions/manager.rs, crypto/webauthn.rs (challenges), tenants/quotas.rs, *)
(* machines/scheduler.rs.                                                   *)
(*                                                                         *)
(* Every HTTP request is a process.  A step of it is one SQL statement or   *)
(* one external call: the gateway runs every statement on a pooled          *)
(* connection in autocommit mode, so other requests run in between.         *)
(* One tenant is modelled: no statement below reads another tenant's rows.  *)
(*                                                                         *)
(* An ORDER schedules at most one pod, named by a fresh ULID that is also   *)
(* the machine's id, so the ORDER itself stands for session, pod and        *)
(* machine.                                                                 *)
(***************************************************************************)
EXTENDS Integers, FiniteSets

CONSTANTS
    Orders,         \* ORDER requests
    Extends,        \* EXTEND requests
    Decides,        \* POST /phone/decide requests
    Kills,          \* RELEASE and REVOKE requests
    Client,         \* the client that sends a session or decide request; a
                    \* client has one request in flight at a time
    Cpu,            \* the CPUs an ORDER asks for
    MaxMachines,    \* quotas.max_concurrent_machines
    MaxCpu,         \* quotas.max_cpu_per_machine
    CpuBudget,      \* quotas.total_cpu_budget
    Faults          \* the faults the environment may commit

Sessions == Orders \cup Extends

FaultKinds == {"crash", "disconnect", "database", "kube", "ntfy", "podloss"}

ASSUME SessionsAssumption ==
    /\ IsFiniteSet(Orders) /\ IsFiniteSet(Extends)
    /\ Orders \cap Extends = {}
    /\ Sessions \cap Decides = {}
    /\ DOMAIN Client = Sessions \cup Decides
    /\ Cpu \in [Orders -> Nat]
    /\ MaxMachines \in Nat /\ MaxCpu \in Nat /\ CpuBudget \in Nat
    /\ Faults \subseteq FaultKinds

VARIABLES
    session,    \* pending_sessions.status, "none" before the INSERT
    challenge,  \* the phone_challenges row keyed by the session's id
    machine,    \* machines.status, "none" before the INSERT
    pods,       \* the agent pods that exist in k3s
    audit,      \* the machine events of the audit log
    at,         \* where each ORDER/EXTEND handler stands, or how it ended
    decideAt,   \* the same for each decide handler
    decideReq,  \* the body of each decide request
    killAt,     \* the same for each release/revoke handler
    killReq     \* the body of each release/revoke request

dbVars     == <<session, challenge, machine, audit>>
decideVars == <<decideAt, decideReq>>
killVars   == <<killAt, killReq>>
vars == <<session, challenge, machine, pods, audit, at, decideAt, decideReq, killAt, killReq>>

-----------------------------------------------------------------------------
(* Types.  The terminal places of a handler are the answers its client      *)
(* gets: "ok" 200, "denied" 403, "timeout" 408, "refused" 401/400,          *)
(* "error" 5xx; "dropped" is no answer at all.                              *)

Ended == {"released", "revoked"}

SessionPlaces ==
    {"idle", "inserted", "pushing", "waiting", "approved", "creating",
     "created", "recorded"}
SessionAnswers == {"ok", "denied", "timeout", "error", "dropped"}

DecidePlaces  == {"idle", "read", "taken"}
DecideAnswers == {"ok", "refused", "error", "dropped"}

KillPlaces  == {"idle", "killing", "killed", "marked"}
KillAnswers == {"ok", "error", "dropped"}

\* What a decide request carries: the session, the decision, and whether the
\* assertion is one that verify_assertion accepts.  A decision string that is
\* neither of the two is answered like a bad assertion, after the same steps.
DecideRequests == [session: Sessions, decision: {"approved", "denied"}, genuine: BOOLEAN]
\* What a release (agent) or revoke (phone) request carries.
KillRequests == [machine: Orders, status: Ended]
NoRequest == [none |-> "none"]

AuditEvents == {"session_started"} \cup Ended

TypeOK ==
    /\ session \in [Sessions -> {"none", "pending", "approved", "denied"}]
    /\ challenge \in [Sessions -> {"none", "fresh", "used"}]
    /\ machine \in [Orders -> {"none", "active"} \cup Ended]
    /\ pods \subseteq Orders
    /\ audit \subseteq (AuditEvents \X Orders)
    /\ at \in [Sessions -> SessionPlaces \cup SessionAnswers]
    /\ decideAt \in [Decides -> DecidePlaces \cup DecideAnswers]
    /\ decideReq \in [Decides -> DecideRequests \cup {NoRequest}]
    /\ killAt \in [Kills -> KillPlaces \cup KillAnswers]
    /\ killReq \in [Kills -> KillRequests \cup {NoRequest}]
    /\ \A d \in Decides : decideAt[d] # "idle" => decideReq[d] \in DecideRequests
    /\ \A k \in Kills : killAt[k] # "idle" => killReq[k] \in KillRequests

Init ==
    /\ session = [s \in Sessions |-> "none"]
    /\ challenge = [s \in Sessions |-> "none"]
    /\ machine = [o \in Orders |-> "none"]
    /\ pods = {}
    /\ audit = {}
    /\ at = [s \in Sessions |-> "idle"]
    /\ decideAt = [d \in Decides |-> "idle"]
    /\ decideReq = [d \in Decides |-> NoRequest]
    /\ killAt = [k \in Kills |-> "idle"]
    /\ killReq = [k \in Kills |-> NoRequest]

-----------------------------------------------------------------------------
(* Helpers.                                                                 *)

ActiveMachines == {o \in Orders : machine[o] = "active"}

\* The SUM over some machine rows' CPUs, as the number of those CPUs.
Cpus(machines) == UNION {{o} \X (1 .. Cpu[o]) : o \in machines}
CpuInUse == Cardinality(Cpus(ActiveMachines))

\* A client waits for the answer of its request before it sends the next.
ClientFree(r) ==
    /\ \A s \in Sessions \ {r} : Client[s] = Client[r] =>
           at[s] \in {"idle"} \cup SessionAnswers
    /\ \A d \in Decides \ {r} : Client[d] = Client[r] =>
           decideAt[d] \in {"idle"} \cup DecideAnswers

GoTo(s, place) == at' = [at EXCEPT ![s] = place]

-----------------------------------------------------------------------------
(* Broken variants of the definitions below: each is a slip the code avoids, *)
(* and breaks a property when it stands in for the definition it varies.    *)

\* check_capacity with <= for <.
HasCapacityOffByOne(o) ==
    /\ Cpu[o] <= MaxCpu
    /\ Cardinality(ActiveMachines) <= MaxMachines
    /\ CpuInUse + Cpu[o] <= CpuBudget

\* wait_for_decision that lets an ORDER through when nobody answers.
TimeoutFailsOpen(s) ==
    /\ at[s] = "waiting"
    /\ GoTo(s, "approved")
    /\ UNCHANGED <<dbVars, pods, decideVars, killVars>>

\* wait_for_decision that looks at its deadline only after a decision.
TimeoutNeedsDecision(s) ==
    /\ at[s] = "waiting" /\ session[s] # "pending"
    /\ GoTo(s, "timeout")
    /\ UNCHANGED <<dbVars, pods, decideVars, killVars>>

\* finalize_session that answers although the audit entry failed.
AuditStartSwallowed(o) ==
    /\ at[o] = "recorded"
    /\ GoTo(o, "ok")
    /\ UNCHANGED <<dbVars, pods, decideVars, killVars>>

\* take_challenge without the UPDATE.
DecideTakeUnmarked(d) ==
    /\ decideAt[d] = "read"
    /\ decideAt' = [decideAt EXCEPT ![d] = "taken"]
    /\ UNCHANGED <<dbVars, pods, at, decideReq, killVars>>

\* decide without verify_assertion.
DecideApplyUnverified(d) ==
    /\ decideAt[d] = "taken"
    /\ session' = [session EXCEPT ![decideReq[d].session] = decideReq[d].decision]
    /\ decideAt' = [decideAt EXCEPT ![d] = "ok"]
    /\ UNCHANGED <<challenge, machine, pods, audit, at, decideReq, killVars>>

\* release_session that marks the row before it deletes the pod.
KillPodAfterMark(k) ==
    /\ killAt[k] = "killing"
    /\ machine' = [machine EXCEPT ![killReq[k].machine] = killReq[k].status]
    /\ killAt' = [killAt EXCEPT ![k] = "killed"]
    /\ UNCHANGED <<session, challenge, pods, audit, at, decideVars, killReq>>

-----------------------------------------------------------------------------
\* quotas::check_capacity: the per-machine cap, the count of active rows and
\* their CPU sum.  Memory is checked by the same code as CPU.
HasCapacity(o) ==
    /\ Cpu[o] <= MaxCpu
    /\ Cardinality(ActiveMachines) < MaxMachines
    /\ CpuInUse + Cpu[o] <= CpuBudget

-----------------------------------------------------------------------------
(* ORDER and EXTEND: the handlers in routes/agent.rs.                       *)

\* create_pending and create_extend_request: the INSERT into pending_sessions.
\* create_extend_request seeds no challenge and goes straight on to the push.
InsertPending(s) ==
    /\ at[s] = "idle"
    /\ ClientFree(s)
    /\ session' = [session EXCEPT ![s] = "pending"]
    /\ GoTo(s, IF s \in Orders THEN "inserted" ELSE "pushing")
    /\ UNCHANGED <<challenge, machine, pods, audit, decideVars, killVars>>

\* create_pending: the second INSERT, into phone_challenges.
SeedChallenge(o) ==
    /\ at[o] = "inserted"
    /\ challenge' = [challenge EXCEPT ![o] = "fresh"]
    /\ GoTo(o, "pushing")
    /\ UNCHANGED <<session, machine, pods, audit, decideVars, killVars>>

\* push_approval_request and push_extend_request accepted by the ntfy server.
Push(s) ==
    /\ at[s] = "pushing"
    /\ GoTo(s, "waiting")
    /\ UNCHANGED <<dbVars, pods, decideVars, killVars>>

\* wait_for_decision: a poll that finds the session decided.
PollDecision(s) ==
    /\ at[s] = "waiting"
    /\ session[s] \in {"approved", "denied"}
    /\ GoTo(s, session[s])
    /\ UNCHANGED <<dbVars, pods, decideVars, killVars>>

\* wait_for_decision: 60 seconds have passed.  The deadline cuts the sleep
\* between two polls, so a decision taken since the last poll is not seen.
\* The row keeps its status.
Timeout(s) ==
    /\ at[s] = "waiting"
    /\ GoTo(s, "timeout")
    /\ UNCHANGED <<dbVars, pods, decideVars, killVars>>

\* scheduler::schedule: check_capacity, then on to the Kubernetes calls.
CheckCapacity(o) ==
    /\ at[o] = "approved"
    /\ GoTo(o, IF HasCapacity(o) THEN "creating" ELSE "error")
    /\ UNCHANGED <<dbVars, pods, decideVars, killVars>>

\* scheduler::schedule: ensure_pvc and pods.create succeed.
CreatePod(o) ==
    /\ at[o] = "creating"
    /\ pods' = pods \cup {o}
    /\ GoTo(o, "created")
    /\ UNCHANGED <<dbVars, decideVars, killVars>>

\* finalize_session: the INSERT into machines.
RecordMachine(o) ==
    /\ at[o] = "created"
    /\ machine' = [machine EXCEPT ![o] = "active"]
    /\ GoTo(o, "recorded")
    /\ UNCHANGED <<session, challenge, pods, audit, decideVars, killVars>>

\* finalize_session: the audit entry, then the 200 answer.
AuditStart(o) ==
    /\ at[o] = "recorded"
    /\ audit' = audit \cup {<<"session_started", o>>}
    /\ GoTo(o, "ok")
    /\ UNCHANGED <<session, challenge, machine, pods, decideVars, killVars>>

\* A fallible call of the handler fails and the handler answers 5xx.
OrderFails(s) ==
    /\ \/ "database" \in Faults /\ at[s] \in {"inserted", "waiting", "approved", "created", "recorded"}
       \/ "ntfy" \in Faults /\ at[s] = "pushing"
       \/ "kube" \in Faults /\ at[s] = "creating"
    /\ GoTo(s, "error")
    /\ UNCHANGED <<dbVars, pods, decideVars, killVars>>

\* pods.create took effect but its answer was lost: to the handler a failure
\* like any other; or the agent's connection went away meanwhile.
CreatePodLost(o) ==
    /\ at[o] = "creating"
    /\ pods' = pods \cup {o}
    /\ \/ "kube" \in Faults /\ GoTo(o, "error")
       \/ "disconnect" \in Faults /\ GoTo(o, "dropped")
    /\ UNCHANGED <<dbVars, decideVars, killVars>>

\* The agent closes the connection: the handler's future is dropped at the
\* await it stands at (the push, the poll's sleep, a Kubernetes call).
OrderDropped(s) ==
    /\ "disconnect" \in Faults
    /\ at[s] \in {"pushing", "waiting", "creating"}
    /\ GoTo(s, "dropped")
    /\ UNCHANGED <<dbVars, pods, decideVars, killVars>>

-----------------------------------------------------------------------------
(* POST /phone/decide: the handler in routes/phone.rs.  It never awaits, so  *)
(* only a crash can cut it short.                                           *)

\* take_challenge: the SELECT of the unused row.  The phone knows a session's
\* id from the pending row (the SSE stream or the push), not before.
DecideRead(d) ==
    /\ decideAt[d] = "idle"
    /\ ClientFree(d)
    /\ \E req \in DecideRequests :
        /\ session[req.session] # "none"
        /\ decideReq' = [decideReq EXCEPT ![d] = req]
        /\ decideAt' = [decideAt EXCEPT ![d] =
               IF challenge[req.session] = "fresh" THEN "read" ELSE "refused"]
    /\ UNCHANGED <<dbVars, pods, at, killVars>>

\* take_challenge: the UPDATE of used_at, by id alone.
DecideTake(d) ==
    /\ decideAt[d] = "read"
    /\ challenge' = [challenge EXCEPT ![decideReq[d].session] = "used"]
    /\ decideAt' = [decideAt EXCEPT ![d] = "taken"]
    /\ UNCHANGED <<session, machine, pods, audit, at, decideReq, killVars>>

\* verify_assertion and the match on the decision, then approve_session or
\* deny_session: an UPDATE by id, whatever the status was.
DecideApply(d) ==
    /\ decideAt[d] = "taken"
    /\ LET req == decideReq[d] IN
        \/ /\ req.genuine
           /\ session' = [session EXCEPT ![req.session] = req.decision]
           /\ decideAt' = [decideAt EXCEPT ![d] = "ok"]
        \/ /\ ~req.genuine
           /\ decideAt' = [decideAt EXCEPT ![d] = "refused"]
           /\ UNCHANGED session
    /\ UNCHANGED <<challenge, machine, pods, audit, at, decideReq, killVars>>

\* A statement of the handler fails.
DecideFails(d) ==
    /\ "database" \in Faults
    /\ decideAt[d] \in {"read", "taken"}
    /\ decideAt' = [decideAt EXCEPT ![d] = "error"]
    /\ UNCHANGED <<dbVars, pods, at, decideReq, killVars>>

-----------------------------------------------------------------------------
(* release_session and revoke_session: the pod, then the row, then the audit *)
(* log.  The two differ in the status they write.                           *)

\* The caller knows the machine's id from its row, never before.
KillRequested(k) ==
    /\ killAt[k] = "idle"
    /\ \E req \in KillRequests :
        /\ machine[req.machine] # "none"
        /\ killReq' = [killReq EXCEPT ![k] = req]
    /\ killAt' = [killAt EXCEPT ![k] = "killing"]
    /\ UNCHANGED <<dbVars, pods, at, decideVars>>

\* kill_pod: deleted, or not found, which counts as deleted.
KillPod(k) ==
    /\ killAt[k] = "killing"
    /\ pods' = pods \ {killReq[k].machine}
    /\ killAt' = [killAt EXCEPT ![k] = "killed"]
    /\ UNCHANGED <<dbVars, at, decideVars, killReq>>

\* The UPDATE of machines, by id, whatever the status was.
MarkEnded(k) ==
    /\ killAt[k] = "killed"
    /\ machine' = [machine EXCEPT ![killReq[k].machine] = killReq[k].status]
    /\ killAt' = [killAt EXCEPT ![k] = "marked"]
    /\ UNCHANGED <<session, challenge, pods, audit, at, decideVars, killReq>>

\* The audit entry, then the 200 answer.
AuditEnd(k) ==
    /\ killAt[k] = "marked"
    /\ audit' = audit \cup {<<killReq[k].status, killReq[k].machine>>}
    /\ killAt' = [killAt EXCEPT ![k] = "ok"]
    /\ UNCHANGED <<session, challenge, machine, pods, at, decideVars, killReq>>

\* A fallible call fails; a delete whose answer is lost has taken effect.
KillFails(k) ==
    /\ \/ /\ "kube" \in Faults
          /\ killAt[k] = "killing"
          /\ pods' \in {pods, pods \ {killReq[k].machine}}
       \/ /\ "database" \in Faults
          /\ killAt[k] \in {"killed", "marked"}
          /\ UNCHANGED pods
    /\ killAt' = [killAt EXCEPT ![k] = "error"]
    /\ UNCHANGED <<dbVars, at, decideVars, killReq>>

\* The client closes the connection during the Kubernetes call.
KillDropped(k) ==
    /\ "disconnect" \in Faults
    /\ killAt[k] = "killing"
    /\ pods' \in {pods, pods \ {killReq[k].machine}}
    /\ killAt' = [killAt EXCEPT ![k] = "dropped"]
    /\ UNCHANGED <<dbVars, at, decideVars, killReq>>

-----------------------------------------------------------------------------
(* The environment.                                                         *)

InFlight(place, answers) == place \notin {"idle"} \cup answers

\* The gateway process dies and is started again: every handler is gone, the
\* database and the cluster keep what they have.
Crash ==
    /\ "crash" \in Faults
    /\ \/ \E s \in Sessions : InFlight(at[s], SessionAnswers)
       \/ \E d \in Decides : InFlight(decideAt[d], DecideAnswers)
       \/ \E k \in Kills : InFlight(killAt[k], KillAnswers)
    /\ at' = [s \in Sessions |->
           IF InFlight(at[s], SessionAnswers) THEN "dropped" ELSE at[s]]
    /\ decideAt' = [d \in Decides |->
           IF InFlight(decideAt[d], DecideAnswers) THEN "dropped" ELSE decideAt[d]]
    /\ killAt' = [k \in Kills |->
           IF InFlight(killAt[k], KillAnswers) THEN "dropped" ELSE killAt[k]]
    /\ UNCHANGED <<dbVars, pods, decideReq, killReq>>

\* A pod ends on its own (restartPolicy is Never): no code looks.
PodLost(o) ==
    /\ "podloss" \in Faults
    /\ o \in pods
    /\ pods' = pods \ {o}
    /\ UNCHANGED <<dbVars, at, decideVars, killVars>>

\* No request is in flight: the gateway waits for the next one.
Quiet ==
    /\ \A s \in Sessions : ~InFlight(at[s], SessionAnswers)
    /\ \A d \in Decides : ~InFlight(decideAt[d], DecideAnswers)
    /\ \A k \in Kills : ~InFlight(killAt[k], KillAnswers)
    /\ UNCHANGED vars

-----------------------------------------------------------------------------
OrderStep(o) ==
    SeedChallenge(o) \/ CheckCapacity(o) \/ CreatePod(o) \/ RecordMachine(o) \/ AuditStart(o)
WaitStep(s) == Push(s) \/ PollDecision(s) \/ Timeout(s)
DecideStep(d) == DecideTake(d) \/ DecideApply(d)
KillStep(k) == KillPod(k) \/ MarkEnded(k) \/ AuditEnd(k)

Next ==
    \/ \E s \in Sessions : InsertPending(s) \/ WaitStep(s) \/ OrderFails(s) \/ OrderDropped(s)
    \/ \E o \in Orders : OrderStep(o) \/ CreatePodLost(o) \/ PodLost(o)
    \/ \E d \in Decides : DecideRead(d) \/ DecideStep(d) \/ DecideFails(d)
    \/ \E k \in Kills : KillRequested(k) \/ KillStep(k) \/ KillFails(k) \/ KillDropped(k)
    \/ Crash
    \/ Quiet

\* The runtime keeps polling a handler that is ready, the poll loop has a
\* deadline, and the calls out of the gateway are assumed to return.
Fairness ==
    /\ \A s \in Sessions : WF_vars(WaitStep(s))
    /\ \A o \in Orders : WF_vars(OrderStep(o))
    /\ \A d \in Decides : WF_vars(DecideStep(d))
    /\ \A k \in Kills : WF_vars(KillStep(k))

Spec == Init /\ [][Next]_vars
FairSpec == Spec /\ Fairness

-----------------------------------------------------------------------------
(* Properties.                                                              *)

\* A decide request applied with a verified assertion and the decision to approve.
Consented == {s \in Sessions : \E d \in Decides :
    /\ decideAt[d] = "ok"
    /\ decideReq[d].session = s
    /\ decideReq[d].genuine
    /\ decideReq[d].decision = "approved"}

\* No pod is created and no machine recorded for an ORDER unless a phone
\* approved it with an assertion that verified (agent.rs order, phone.rs decide),
\* whatever other decisions, timeouts and crashes happen around it.
PodNeedsConsent ==
    \A o \in Orders : o \in pods \/ machine[o] # "none" => o \in Consented

\* A machine marked released or revoked has no pod left running, even when the
\* gateway dies or a call fails half way (release_session, revoke_session).
EndedMachineHasNoPod ==
    \A o \in Orders : machine[o] \in Ended => o \notin pods

\* The answer to an ORDER is true of the state left behind: after a 200 the
\* machine is recorded and its start audited, after a 403 or a 408 there is
\* neither a pod nor a machine (agent.rs order).
OrderAnswerIsTrue ==
    \A o \in Orders :
        /\ at[o] = "ok" => machine[o] # "none" /\ <<"session_started", o>> \in audit
        /\ at[o] \in {"denied", "timeout"} => machine[o] = "none" /\ o \notin pods

\* A RELEASE or REVOKE answered 200 has ended the machine for good: its row is
\* terminal, its pod gone, its end audited (release_session, revoke_session).
KillAnswerIsTrue ==
    \A k \in Kills : killAt[k] = "ok" =>
        /\ machine[killReq[k].machine] \in Ended
        /\ killReq[k].machine \notin pods
        /\ <<killReq[k].status, killReq[k].machine>> \in audit

\* The quota of active machines and CPUs is never exceeded (quotas.rs:
\* "Tenant has not exceeded max_concurrent_machines"; check_capacity).
QuotaRespected ==
    /\ Cardinality(ActiveMachines) <= MaxMachines
    /\ CpuInUse <= CpuBudget

\* A decided session keeps its decision: the single-use challenge lets one
\* assertion through, so no later decide overwrites it (phone.rs decide).
DecisionFinal ==
    [][\A s \in Sessions : session[s] \in {"approved", "denied"} => session'[s] = session[s]]_vars

\* An EXTEND that the phone answers with a verified assertion is decided by it
\* (agent.rs: "Extend a session (triggers phone approval)").
ExtendIsDecidable ==
    \A d \in Decides :
        decideAt[d] \in {"ok", "refused"} /\ decideReq[d].genuine /\ decideReq[d].session \in Extends
            => session[decideReq[d].session] # "pending"

\* Every request gets an answer, or its connection or the gateway died under
\* it: the long-poll's deadline holds even when no phone ever decides
\* (wait_for_decision), and no handler waits for another one.
EveryRequestEnds ==
    /\ \A s \in Sessions : InFlight(at[s], SessionAnswers) ~> at[s] \in SessionAnswers
    /\ \A d \in Decides : InFlight(decideAt[d], DecideAnswers) ~> decideAt[d] \in DecideAnswers
    /\ \A k \in Kills : InFlight(killAt[k], KillAnswers) ~> killAt[k] \in KillAnswers

-----------------------------------------------------------------------------
(* Why the four safety invariants hold: what each place of a handler says    *)
(* about the rows and pods it has already touched.                          *)

\* Consent stands behind every approved row and every handler past the poll.
ConsentBehindApproval ==
    \A o \in Orders :
        session[o] = "approved" \/ at[o] \in {"approved", "creating", "created", "recorded", "ok"}
            => o \in Consented

\* A machine row is written by the handler that created the pod, and only then.
RowsFollowHandler ==
    \A o \in Orders :
        /\ machine[o] # "none" => at[o] \in {"recorded", "ok", "error", "dropped"}
        /\ o \in pods => at[o] \in {"created", "recorded", "ok", "error", "dropped"}
        /\ at[o] \in {"recorded", "ok"} => machine[o] # "none"
        /\ at[o] = "ok" => <<"session_started", o>> \in audit

\* A kill works on a recorded machine, and what it has done stays done.
KillsStick ==
    \A k \in Kills : killAt[k] # "idle" => LET o == killReq[k].machine IN
        /\ machine[o] # "none"
        /\ killAt[k] \in {"killed", "marked", "ok"} => o \notin pods
        /\ killAt[k] \in {"marked", "ok"} => machine[o] \in Ended
        /\ killAt[k] = "ok" => <<killReq[k].status, o>> \in audit

\* A decide request names a session whose handler has begun.
DecidesFollowRequest ==
    /\ \A s \in Sessions : session[s] # "none" => at[s] # "idle"
    /\ \A d \in Decides : decideAt[d] # "idle" => session[decideReq[d].session] # "none"

\* Where one client sends every ORDER, at most one is in flight, and what
\* check_capacity found still holds when finalize_session records the machine.
OneClient == \A o, p \in Orders : Client[o] = Client[p]

QuotaInv ==
    /\ QuotaRespected
    /\ \A o, p \in Orders :
           InFlight(at[o], SessionAnswers) /\ InFlight(at[p], SessionAnswers) => o = p
    /\ \A o \in Orders : at[o] \in {"creating", "created"} =>
           /\ Cardinality(ActiveMachines) < MaxMachines
           /\ CpuInUse + Cpu[o] <= CpuBudget

\* Where one phone sends every decide request, at most one is in flight, and the session
\* whose challenge it has read or taken is undecided still.
OnePhone == \A d, e \in Decides : Client[d] = Client[e]

FinalInv ==
    /\ \A d, e \in Decides :
           InFlight(decideAt[d], DecideAnswers) /\ InFlight(decideAt[e], DecideAnswers) => d = e
    /\ \A d \in Decides : InFlight(decideAt[d], DecideAnswers) =>
           session[decideReq[d].session] = "pending" /\ challenge[decideReq[d].session] # "none"
    /\ \A d \in Decides : decideAt[d] = "taken" => challenge[decideReq[d].session] = "used"
    /\ \A s \in Sessions : session[s] \in {"approved", "denied"} => challenge[s] = "used"
    /\ \A s \in Sessions : at[s] \in {"idle", "inserted"} => challenge[s] = "none"

SafeInv ==
    /\ DecidesFollowRequest
    /\ ConsentBehindApproval
    /\ PodNeedsConsent
    /\ RowsFollowHandler
    /\ KillsStick
    /\ EndedMachineHasNoPod

-----------------------------------------------------------------------------
(* The promise to the tenant, OrderLifecycle, is kept: the stage of an ORDER *)
(* is read off its machine row and the place of its handler.                *)

Stage(o) ==
    CASE machine[o] \in Ended -> "ended"
      [] machine[o] = "active" -> "running"
      [] machine[o] = "none" /\ at[o] \in SessionAnswers -> "refused"
      [] machine[o] = "none" /\ at[o] \in {"approved", "creating", "created"} -> "granted"
      [] machine[o] = "none" /\ at[o] \in {"inserted", "pushing", "waiting", "recorded"} -> "asked"
      [] machine[o] = "none" /\ at[o] = "idle" -> "idle"

Lifecycle == INSTANCE OrderLifecycle WITH
    life <- [o \in Orders |-> Stage(o)],
    consent <- Consented \cap Orders

\* Sessions implements OrderLifecycle: no machine without consent, none after
\* a refusal, none after its end (the handlers order, decide, release, revoke).
KeepsLifecycle == Lifecycle!Spec
=============================================================================
