--------------------------- MODULE SessionsProofs ---------------------------
(***************************************************************************)
(* Theorems about Sessions, for every set of requests, every quota and every *)
(* choice of faults.                                                        *)
(***************************************************************************)
EXTENDS Sessions, FiniteSetTheorems, TLAPS

USE DEF Sessions, Ended, SessionPlaces, SessionAnswers, DecidePlaces, DecideAnswers,
        KillPlaces, KillAnswers, AuditEvents, DecideRequests, KillRequests, NoRequest,
        dbVars, decideVars, killVars

\* Every variable keeps its type, whatever the order of the handlers' steps,
\* the faults and the crashes (the status columns hold the schema's words).
THEOREM TypeCorrect == Spec => []TypeOK
<1>1. Init => TypeOK
  BY DEF Init, TypeOK
<1>2. TypeOK /\ [Next]_vars => TypeOK'
  <2> SUFFICES ASSUME TypeOK, [Next]_vars PROVE TypeOK'
    OBVIOUS
  <2> USE DEF TypeOK, GoTo
  <2>1. ASSUME NEW s \in Sessions, InsertPending(s) PROVE TypeOK'
    BY <2>1 DEF InsertPending
  <2>2. ASSUME NEW s \in Sessions, WaitStep(s) PROVE TypeOK'
    BY <2>2 DEF WaitStep, Push, PollDecision, Timeout
  <2>3. ASSUME NEW s \in Sessions, OrderFails(s) \/ OrderDropped(s) PROVE TypeOK'
    BY <2>3 DEF OrderFails, OrderDropped
  <2>4. ASSUME NEW o \in Orders, OrderStep(o) PROVE TypeOK'
    <3>1. CASE SeedChallenge(o)  BY <3>1 DEF SeedChallenge
    <3>2. CASE CheckCapacity(o)  BY <3>2 DEF CheckCapacity
    <3>3. CASE CreatePod(o)      BY <3>3 DEF CreatePod
    <3>4. CASE RecordMachine(o)  BY <3>4 DEF RecordMachine
    <3>5. CASE AuditStart(o)     BY <3>5 DEF AuditStart
    <3> QED BY <2>4, <3>1, <3>2, <3>3, <3>4, <3>5 DEF OrderStep
  <2>5. ASSUME NEW o \in Orders, CreatePodLost(o) \/ PodLost(o) PROVE TypeOK'
    BY <2>5 DEF CreatePodLost, PodLost
  <2>6. ASSUME NEW d \in Decides, DecideRead(d) PROVE TypeOK'
    BY <2>6 DEF DecideRead
  <2>7. ASSUME NEW d \in Decides, DecideStep(d) PROVE TypeOK'
    <3>1. decideReq[d] \in DecideRequests
      BY <2>7 DEF DecideStep, DecideTake, DecideApply
    <3>2. CASE DecideTake(d)   BY <3>1, <3>2 DEF DecideTake
    <3>3. CASE DecideApply(d)  BY <3>1, <3>3 DEF DecideApply
    <3> QED BY <2>7, <3>2, <3>3 DEF DecideStep
  <2>8. ASSUME NEW d \in Decides, DecideFails(d) PROVE TypeOK'
    BY <2>8 DEF DecideFails
  <2>9. ASSUME NEW k \in Kills, KillRequested(k) PROVE TypeOK'
    BY <2>9 DEF KillRequested
  <2>10. ASSUME NEW k \in Kills, KillStep(k) PROVE TypeOK'
    <3>1. killReq[k] \in KillRequests
      BY <2>10 DEF KillStep, KillPod, MarkEnded, AuditEnd
    <3>2. CASE KillPod(k)    BY <3>1, <3>2 DEF KillPod
    <3>3. CASE MarkEnded(k)  BY <3>1, <3>3 DEF MarkEnded
    <3>4. CASE AuditEnd(k)   BY <3>1, <3>4 DEF AuditEnd
    <3> QED BY <2>10, <3>2, <3>3, <3>4 DEF KillStep
  <2>11. ASSUME NEW k \in Kills, KillFails(k) \/ KillDropped(k) PROVE TypeOK'
    BY <2>11 DEF KillFails, KillDropped
  <2>12. CASE Crash
    BY <2>12 DEF Crash, InFlight
  <2>13. CASE UNCHANGED vars
    BY <2>13 DEF vars
  <2> QED
    BY <2>1, <2>2, <2>3, <2>4, <2>5, <2>6, <2>7, <2>8, <2>9, <2>10, <2>11, <2>12, <2>13
       DEF Next, Quiet
<1> QED
  BY <1>1, <1>2, PTL DEF Spec

-----------------------------------------------------------------------------
(* Consent is never taken back: a decide request that was applied stays      *)
(* applied, so the set Consented only grows.                                *)

LEMMA ConsentGrows ==
    ASSUME TypeOK, [Next]_vars
    PROVE  Consented \subseteq Consented'
<1>1. SUFFICES ASSUME NEW d \in Decides, decideAt[d] = "ok"
               PROVE  decideAt'[d] = "ok" /\ decideReq'[d] = decideReq[d]
  BY DEF Consented
<1> USE DEF TypeOK
<1>2. ASSUME NEW e \in Decides, DecideRead(e) \/ DecideStep(e) \/ DecideFails(e)
      PROVE  decideAt'[d] = "ok" /\ decideReq'[d] = decideReq[d]
  BY <1>1, <1>2 DEF DecideRead, DecideStep, DecideTake, DecideApply, DecideFails
<1>3. ASSUME Crash
      PROVE  decideAt'[d] = "ok" /\ decideReq'[d] = decideReq[d]
  BY <1>1, <1>3 DEF Crash, InFlight
<1>4. ASSUME UNCHANGED decideVars
      PROVE  decideAt'[d] = "ok" /\ decideReq'[d] = decideReq[d]
  BY <1>1, <1>4
<1>5. UNCHANGED decideVars \/ Crash
        \/ \E e \in Decides : DecideRead(e) \/ DecideStep(e) \/ DecideFails(e)
  BY DEF Next, vars, Quiet, InsertPending, WaitStep, Push, PollDecision, Timeout, OrderFails,
         OrderDropped, OrderStep, SeedChallenge, CheckCapacity, CreatePod, RecordMachine,
         AuditStart, CreatePodLost, PodLost, KillRequested, KillStep, KillPod, MarkEnded,
         AuditEnd, KillFails, KillDropped
<1> QED
  BY <1>2, <1>3, <1>4, <1>5

-----------------------------------------------------------------------------
(* SafeInv is inductive relative to TypeOK.  The steps of the decide handler *)
(* touch consent alone, those of the order handler the row and the pod, and  *)
(* those of a kill the pod, the row and the log.                            *)

LEMMA SafeInvInit == Init => SafeInv
BY DEF Init, SafeInv, DecidesFollowRequest, ConsentBehindApproval, PodNeedsConsent, RowsFollowHandler, KillsStick,
       EndedMachineHasNoPod

LEMMA SafeInvStep == TypeOK /\ SafeInv /\ [Next]_vars => SafeInv'
<1> SUFFICES ASSUME TypeOK, SafeInv, [Next]_vars PROVE SafeInv'
  OBVIOUS
<1> USE DEF TypeOK, SafeInv, DecidesFollowRequest, ConsentBehindApproval, PodNeedsConsent, RowsFollowHandler,
            KillsStick, EndedMachineHasNoPod, GoTo
<1>0. Consented \subseteq Consented'
  BY ConsentGrows
<1>1. ASSUME NEW s \in Sessions, InsertPending(s) PROVE SafeInv'
  BY <1>0, <1>1 DEF InsertPending
<1>2. ASSUME NEW s \in Sessions, WaitStep(s) PROVE SafeInv'
  BY <1>0, <1>2 DEF WaitStep, Push, PollDecision, Timeout
<1>3. ASSUME NEW s \in Sessions, OrderFails(s) \/ OrderDropped(s) PROVE SafeInv'
  BY <1>0, <1>3 DEF OrderFails, OrderDropped
<1>4. ASSUME NEW o \in Orders, OrderStep(o) PROVE SafeInv'
  <2>1. CASE SeedChallenge(o)  BY <1>0, <2>1 DEF SeedChallenge
  <2>2. CASE CheckCapacity(o)  BY <1>0, <2>2 DEF CheckCapacity
  <2>3. CASE CreatePod(o)      BY <1>0, <2>3 DEF CreatePod
  <2>4. CASE RecordMachine(o)
    <3>1. /\ at[o] = "created" /\ machine[o] = "none"
          /\ machine' = [machine EXCEPT ![o] = "active"]
          /\ at' = [at EXCEPT ![o] = "recorded"]
          /\ UNCHANGED <<session, pods, audit, killAt, killReq>>
      BY <2>4 DEF RecordMachine
    <3>2. PodNeedsConsent' /\ ConsentBehindApproval'
      BY <1>0, <3>1
    <3>6. DecidesFollowRequest'
      BY <2>4 DEF RecordMachine
    <3>3. RowsFollowHandler' /\ EndedMachineHasNoPod'
      BY <3>1
    <3>4. \A k \in Kills : killAt[k] # "idle" =>
            killReq[k].machine \in Orders /\ killReq[k].machine # o
      BY <3>1
    <3>5. KillsStick'
      BY <3>1, <3>4
    <3> QED BY <3>2, <3>3, <3>5, <3>6
  <2>5. CASE AuditStart(o)     BY <1>0, <2>5 DEF AuditStart
  <2> QED BY <1>4, <2>1, <2>2, <2>3, <2>4, <2>5 DEF OrderStep
<1>5. ASSUME NEW o \in Orders, CreatePodLost(o) \/ PodLost(o) PROVE SafeInv'
  <2>1. CASE CreatePodLost(o)
    <3>1. machine[o] = "none" /\ o \in Consented
      BY <2>1 DEF CreatePodLost
    <3>2. \A k \in Kills : killAt[k] # "idle" =>
            killReq[k].machine \in Orders /\ killReq[k].machine # o
      <4> SUFFICES ASSUME NEW k \in Kills, killAt[k] # "idle"
                   PROVE  killReq[k].machine \in Orders /\ killReq[k].machine # o
        OBVIOUS
      <4>1. killReq[k] \in KillRequests
        OBVIOUS
      <4>2. machine[killReq[k].machine] # "none"
        OBVIOUS
      <4> QED BY <3>1, <4>1, <4>2
    <3> QED BY <1>0, <2>1, <3>1, <3>2 DEF CreatePodLost
  <2>2. CASE PodLost(o)
    BY <1>0, <2>2 DEF PodLost
  <2> QED BY <1>5, <2>1, <2>2
<1>6. ASSUME NEW d \in Decides, DecideRead(d) PROVE SafeInv'
  BY <1>0, <1>6 DEF DecideRead
<1>7. ASSUME NEW d \in Decides, DecideTake(d) \/ DecideFails(d) PROVE SafeInv'
  BY <1>0, <1>7 DEF DecideTake, DecideFails
<1>8. ASSUME NEW d \in Decides, DecideApply(d) PROVE SafeInv'
  <2>1. ASSUME NEW o \in Orders, session'[o] = "approved" PROVE o \in Consented'
    <3>1. CASE session[o] = "approved"
      BY <1>0, <3>1
    <3>2. CASE session[o] # "approved"
      BY <1>8, <2>1, <3>2 DEF DecideApply, Consented
    <3> QED BY <3>1, <3>2
  <2> QED BY <1>0, <1>8, <2>1 DEF DecideApply
<1>9. ASSUME NEW k \in Kills, KillRequested(k) PROVE SafeInv'
  BY <1>0, <1>9 DEF KillRequested
<1>10. ASSUME NEW k \in Kills, KillStep(k) PROVE SafeInv'
  <2>1. CASE KillPod(k)    BY <1>0, <2>1 DEF KillPod
  <2>2. CASE MarkEnded(k)
    <3> DEFINE o == killReq[k].machine
    <3>1. /\ o \in Orders /\ o \notin pods /\ machine[o] # "none"
          /\ killReq[k].status \in Ended
          /\ machine' = [machine EXCEPT ![o] = killReq[k].status]
          /\ killAt' = [killAt EXCEPT ![k] = "marked"]
          /\ UNCHANGED <<session, pods, audit, at, killReq>>
      BY <2>2 DEF MarkEnded
    <3> HIDE DEF o
    <3>2. \A p \in Orders : machine'[p] = machine[p] \/ (p = o /\ machine'[p] \in Ended)
      BY <3>1
    <3>3. PodNeedsConsent' /\ ConsentBehindApproval' /\ RowsFollowHandler' /\ EndedMachineHasNoPod'
      BY <1>0, <3>1, <3>2
    <3>5. DecidesFollowRequest'
      BY <2>2 DEF MarkEnded
    <3>4. KillsStick'
      <4>1. machine'[killReq[k].machine] \in Ended
        BY <3>1 DEF o
      <4>2. \A j \in Kills : killAt'[j] # "idle" => killReq[j].machine \in Orders
        BY <2>2 DEF MarkEnded
      <4> QED BY <3>1, <3>2, <4>1, <4>2
    <3> QED BY <3>3, <3>4, <3>5
  <2>3. CASE AuditEnd(k)   BY <1>0, <2>3 DEF AuditEnd
  <2> QED BY <1>10, <2>1, <2>2, <2>3 DEF KillStep
<1>11. ASSUME NEW k \in Kills, KillFails(k) \/ KillDropped(k) PROVE SafeInv'
  BY <1>0, <1>11 DEF KillFails, KillDropped
<1>12. CASE Crash
  BY <1>0, <1>12 DEF Crash, InFlight
<1>13. CASE UNCHANGED vars
  BY <1>0, <1>13 DEF vars
<1> QED
  BY <1>1, <1>2, <1>3, <1>4, <1>5, <1>6, <1>7, <1>8, <1>9, <1>10, <1>11, <1>12, <1>13
     DEF Next, Quiet, DecideStep

\* The invariant of the session protocol, for any number of concurrent orders,
\* decisions and kills, and under every fault (order, decide, release, revoke).
THEOREM SafeInvHolds == Spec => []SafeInv
<1>1. Init => SafeInv
  BY SafeInvInit
<1>2. TypeOK /\ SafeInv /\ [Next]_vars => SafeInv'
  BY SafeInvStep
<1> QED
  BY <1>1, <1>2, TypeCorrect, PTL DEF Spec

\* No pod and no machine without a phone's verified approval.
THEOREM ConsentHolds == Spec => []PodNeedsConsent
BY SafeInvHolds, PTL DEF SafeInv

\* A machine marked as ended has no pod (release_session, revoke_session).
THEOREM EndedHolds == Spec => []EndedMachineHasNoPod
BY SafeInvHolds, PTL DEF SafeInv

\* Every answer the gateway gives to an ORDER, a RELEASE or a REVOKE is true of
\* the state it leaves behind (agent.rs order, release_session, revoke_session).
THEOREM AnswersHold == Spec => [](OrderAnswerIsTrue /\ KillAnswerIsTrue)
<1>1. TypeOK /\ SafeInv => OrderAnswerIsTrue /\ KillAnswerIsTrue
  <2> SUFFICES ASSUME TypeOK, SafeInv PROVE OrderAnswerIsTrue /\ KillAnswerIsTrue
    OBVIOUS
  <2>1. OrderAnswerIsTrue
    BY DEF SafeInv, TypeOK, RowsFollowHandler, OrderAnswerIsTrue
  <2>2. KillAnswerIsTrue
    BY DEF SafeInv, TypeOK, KillsStick, KillAnswerIsTrue
  <2> QED BY <2>1, <2>2
<1> QED
  BY <1>1, TypeCorrect, SafeInvHolds, PTL

-----------------------------------------------------------------------------
(* Sessions implements OrderLifecycle.  Only five kinds of steps change the   *)
(* stage of an ORDER or the set of consents; each is the lifecycle's step of *)
(* the same name, and a crash is a Refuse of every ORDER without a machine.  *)

StageMap == [o \in Orders |-> Stage(o)]

LEMMA StageValues ==
    ASSUME TypeOK, SafeInv, NEW o \in Orders
    PROVE  /\ machine[o] \in Ended => Stage(o) = "ended"
           /\ machine[o] = "active" => Stage(o) = "running"
           /\ machine[o] = "none" =>
                /\ at[o] \in SessionAnswers => Stage(o) = "refused"
                /\ at[o] \in {"approved", "creating", "created"} => Stage(o) = "granted"
                /\ at[o] \in {"inserted", "pushing", "waiting"} => Stage(o) = "asked"
                /\ at[o] = "idle" => Stage(o) = "idle"
BY DEF TypeOK, Stage

LEMMA LifecycleInit == Init => Lifecycle!Init
BY DEF Init, Lifecycle!Init, Stage, Consented

\* Where a step leaves the decide handlers and every ORDER but o alone, the
\* lifecycle moves at most in o.
LEMMA OneOrderMoves ==
    ASSUME TypeOK, TypeOK', NEW o \in Orders, UNCHANGED decideVars,
           \A p \in Orders \ {o} : machine'[p] = machine[p] /\ at'[p] = at[p]
    PROVE  /\ StageMap' = [StageMap EXCEPT ![o] = Stage(o)']
           /\ (Consented \cap Orders)' = Consented \cap Orders
<1>1. \A p \in Orders \ {o} : Stage(p)' = Stage(p)
  BY DEF Stage
<1>2. (Consented \cap Orders)' = Consented \cap Orders
  BY DEF Consented
<1> QED
  BY <1>1, <1>2 DEF StageMap

LEMMA LifecycleStep ==
    ASSUME TypeOK, SafeInv, TypeOK', SafeInv', [Next]_vars
    PROVE  [Lifecycle!Next]_(Lifecycle!vars)
<1> DEFINE Still == UNCHANGED <<StageMap, Consented \cap Orders>>
           Moves(o, from, to) ==
               /\ Stage(o) = from
               /\ StageMap' = [StageMap EXCEPT ![o] = to]
               /\ (Consented \cap Orders)' = Consented \cap Orders
<1>1. ASSUME Still PROVE UNCHANGED Lifecycle!vars
  BY <1>1 DEF Lifecycle!vars, StageMap
<1>2. ASSUME NEW o \in Orders, Moves(o, "idle", "asked") PROVE Lifecycle!Next
  BY <1>2 DEF Lifecycle!Next, Lifecycle!Ask, Lifecycle!Move, StageMap
<1>3. ASSUME NEW o \in Orders, o \in Consented, Moves(o, "asked", "granted") PROVE Lifecycle!Next
  BY <1>3 DEF Lifecycle!Next, Lifecycle!Grant, Lifecycle!Move, StageMap
<1>4. ASSUME NEW o \in Orders, Moves(o, "granted", "running") PROVE Lifecycle!Next
  BY <1>4 DEF Lifecycle!Next, Lifecycle!Start, Lifecycle!Move, StageMap
<1>5. ASSUME NEW o \in Orders, Moves(o, "running", "ended") PROVE Lifecycle!Next
  BY <1>5 DEF Lifecycle!Next, Lifecycle!End, Lifecycle!Move, StageMap
<1>6. ASSUME NEW o \in Orders, Moves(o, "asked", "refused") \/ Moves(o, "granted", "refused")
      PROVE  Lifecycle!Next
  <2>1. Lifecycle!Refuse({o})
    BY <1>6 DEF Lifecycle!Refuse, StageMap
  <2> QED BY <2>1 DEF Lifecycle!Next
<1> DEFINE Goal == [Lifecycle!Next]_(Lifecycle!vars)
           Allowed(o) ==
               \/ Stage(o)' = Stage(o)
               \/ Stage(o) = "idle" /\ Stage(o)' = "asked"
               \/ Stage(o) = "asked" /\ Stage(o)' = "granted" /\ o \in Consented
               \/ Stage(o) = "granted" /\ Stage(o)' = "running"
               \/ Stage(o) = "running" /\ Stage(o)' = "ended"
               \/ Stage(o) \in {"asked", "granted"} /\ Stage(o)' = "refused"
           OnlyMoves(o) ==
               /\ UNCHANGED decideVars
               /\ \A p \in Orders \ {o} : machine'[p] = machine[p] /\ at'[p] = at[p]
<1>7. ASSUME NEW o \in Orders, OnlyMoves(o), Allowed(o) PROVE Goal
  <2>1. /\ StageMap' = [StageMap EXCEPT ![o] = Stage(o)']
        /\ (Consented \cap Orders)' = Consented \cap Orders
    BY <1>7, OneOrderMoves
  <2>2. Stage(o)' = Stage(o) => Still
    BY <2>1 DEF StageMap
  <2> HIDE DEF Still
  <2> QED BY <1>1, <1>2, <1>3, <1>4, <1>5, <1>6, <1>7, <2>1, <2>2
<1>8. ASSUME UNCHANGED decideVars, \A p \in Orders : machine'[p] = machine[p] /\ at'[p] = at[p]
      PROVE  Goal
  <2>1. \A p \in Orders : Stage(p)' = Stage(p)
    BY <1>8 DEF Stage
  <2>2. (Consented \cap Orders)' = Consented \cap Orders
    BY <1>8 DEF Consented
  <2> QED BY <2>1, <2>2, <1>1 DEF StageMap
<1>9. \A o \in Orders :
        /\ machine[o] \in Ended => Stage(o) = "ended"
        /\ machine[o] = "active" => Stage(o) = "running"
        /\ machine[o] = "none" =>
             /\ at[o] \in SessionAnswers => Stage(o) = "refused"
             /\ at[o] \in {"approved", "creating", "created"} => Stage(o) = "granted"
             /\ at[o] \in {"inserted", "pushing", "waiting"} => Stage(o) = "asked"
             /\ at[o] = "idle" => Stage(o) = "idle"
  BY StageValues
<1>10. \A o \in Orders :
        /\ machine'[o] \in Ended => Stage(o)' = "ended"
        /\ machine'[o] = "active" => Stage(o)' = "running"
        /\ machine'[o] = "none" =>
             /\ at'[o] \in SessionAnswers => Stage(o)' = "refused"
             /\ at'[o] \in {"approved", "creating", "created"} => Stage(o)' = "granted"
             /\ at'[o] \in {"inserted", "pushing", "waiting"} => Stage(o)' = "asked"
             /\ at'[o] = "idle" => Stage(o)' = "idle"
  BY DEF TypeOK, Stage
<1> HIDE DEF Goal, Still, Moves
<1> USE DEF TypeOK, GoTo
<1>11. Orders \cap Extends = {}
  BY SessionsAssumption
<1>12. RowsFollowHandler /\ ConsentBehindApproval /\ DecidesFollowRequest /\ KillsStick
  BY DEF SafeInv
<1>13. ASSUME NEW s \in Sessions,
              InsertPending(s) \/ WaitStep(s) \/ OrderFails(s) \/ OrderDropped(s)
       PROVE  Goal
  <2> USE DEF InsertPending, WaitStep, Push, PollDecision, Timeout, OrderFails, OrderDropped
  <2>1. CASE s \in Extends
    BY <1>8, <1>11, <1>13, <2>1
  <2>2. CASE s \in Orders
    <3>1. OnlyMoves(s)
      BY <1>13, <2>2
    <3>2. machine'[s] = machine[s] /\ machine[s] \in {"none", "active"} \cup Ended
      BY <1>13, <2>2
    <3>3. \/ at[s] = "idle" /\ at'[s] \in {"inserted", "pushing"}
          \/ at[s] = "pushing" /\ at'[s] = "waiting"
          \/ at[s] = "waiting" /\ at'[s] = "approved" /\ s \in Consented
          \/ at[s] \in {"inserted", "pushing", "waiting", "approved", "creating", "created", "recorded"}
             /\ at'[s] \in {"denied", "timeout", "error", "dropped"}
      BY <1>12, <1>13, <2>2 DEF ConsentBehindApproval
    <3>4. machine[s] # "none" => at[s] \in {"recorded", "ok", "error", "dropped"}
      BY <1>12, <2>2 DEF RowsFollowHandler
    <3>5. at[s] = "recorded" => machine[s] # "none"
      BY <1>12, <2>2 DEF RowsFollowHandler
    <3>6. Allowed(s)
      BY <1>9, <1>10, <2>2, <3>2, <3>3, <3>4, <3>5
    <3> QED BY <1>7, <2>2, <3>1, <3>6
  <2> QED BY <2>1, <2>2
<1>14. ASSUME NEW o \in Orders, OrderStep(o) \/ CreatePodLost(o) \/ PodLost(o) PROVE Goal
  <2> USE DEF OrderStep, SeedChallenge, CheckCapacity, CreatePod, RecordMachine, AuditStart,
              CreatePodLost, PodLost
  <2>1. OnlyMoves(o)
    BY <1>14
  <2>2. machine[o] # "none" => at[o] \in {"recorded", "ok", "error", "dropped"}
    BY <1>12 DEF RowsFollowHandler
  <2>3. at[o] = "recorded" => machine[o] # "none"
    BY <1>12 DEF RowsFollowHandler
  <2>4. ASSUME at[o] = "created" /\ at'[o] = "recorded" /\ machine'[o] = "active"
        PROVE  Allowed(o)
    BY <1>9, <1>10, <2>2, <2>4
  <2>5. ASSUME /\ machine'[o] = machine[o]
               /\ \/ at'[o] = at[o]
                  \/ at[o] = "inserted" /\ at'[o] = "pushing"
                  \/ at[o] = "approved" /\ at'[o] \in {"creating", "error"}
                  \/ at[o] = "creating" /\ at'[o] \in {"created", "error", "dropped"}
                  \/ at[o] = "recorded" /\ at'[o] = "ok"
        PROVE  Allowed(o)
    <3>1. machine[o] \in {"none", "active"} \cup Ended
      OBVIOUS
    <3> QED BY <1>9, <1>10, <2>2, <2>3, <2>5, <3>1 DEF Stage
  <2>6. Allowed(o)
    BY <1>14, <2>4, <2>5
  <2> QED BY <1>7, <2>1, <2>6
<1>15. ASSUME NEW k \in Kills, KillRequested(k) \/ KillPod(k) \/ AuditEnd(k) \/ KillFails(k) \/ KillDropped(k)
       PROVE  Goal
  BY <1>8, <1>15 DEF KillRequested, KillPod, AuditEnd, KillFails, KillDropped
<1>16. ASSUME NEW k \in Kills, MarkEnded(k) PROVE Goal
  <2>1. killReq[k] \in KillRequests /\ machine[killReq[k].machine] # "none"
    BY <1>12, <1>16 DEF MarkEnded, KillsStick
  <2>2. PICK o \in Orders : o = killReq[k].machine
    BY <2>1
  <2>3. machine[o] \in {"active"} \cup Ended /\ machine'[o] \in Ended
    BY <1>16, <2>1, <2>2 DEF MarkEnded
  <2>4. OnlyMoves(o)
    BY <1>16, <2>2 DEF MarkEnded
  <2>5. Allowed(o)
    BY <1>9, <1>10, <2>3
  <2> QED BY <1>7, <2>4, <2>5
<1>17. ASSUME NEW d \in Decides, DecideRead(d) \/ DecideTake(d) \/ DecideFails(d) PROVE Goal
  <2>1. Consented' = Consented
    BY <1>17 DEF DecideRead, DecideTake, DecideFails, Consented
  <2>2. \A p \in Orders : Stage(p)' = Stage(p)
    BY <1>17 DEF DecideRead, DecideTake, DecideFails, Stage
  <2>3. Still
    BY <2>1, <2>2 DEF Still, StageMap
  <2> QED BY <1>1, <2>3 DEF Goal
<1>18. ASSUME NEW d \in Decides, DecideApply(d) PROVE Goal
  <2>1. \A p \in Orders : Stage(p)' = Stage(p)
    BY <1>18 DEF DecideApply, Stage
  <2> DEFINE s == decideReq[d].session
  <2>2. s \in Sessions /\ session[s] # "none" /\ at[s] # "idle"
    BY <1>12, <1>18 DEF DecideApply, DecidesFollowRequest
  <2>3. Consented' = Consented \/ Consented' = Consented \cup {s}
    BY <1>18 DEF DecideApply, Consented
  <2>4. CASE (Consented \cap Orders)' = Consented \cap Orders
    BY <1>1, <2>1, <2>4 DEF Still, StageMap, Goal
  <2>5. CASE s \in Orders /\ Consented' = Consented \cup {s}
    <3>1. Stage(s) # "idle"
      BY <1>9, <1>12, <2>2, <2>5 DEF RowsFollowHandler
    <3>2. Lifecycle!Consent(s)
      BY <2>1, <2>5, <3>1 DEF Lifecycle!Consent
    <3> QED BY <2>5, <3>2 DEF Goal, Lifecycle!Next
  <2> QED BY <2>2, <2>3, <2>4, <2>5
<1>19. ASSUME Crash PROVE Goal
  <2> DEFINE cut == {o \in Orders : machine[o] = "none" /\ InFlight(at[o], SessionAnswers)}
  <2>1. Consented' = Consented
    BY <1>19 DEF Crash, Consented, InFlight
  <2>2. \A o \in cut : Stage(o) \in {"asked", "granted"} /\ Stage(o)' = "refused"
    BY <1>9, <1>10, <1>12, <1>19 DEF Crash, InFlight, RowsFollowHandler
  <2>3. \A o \in Orders \ cut : Stage(o)' = Stage(o)
    BY <1>9, <1>10, <1>12, <1>19 DEF Crash, InFlight, RowsFollowHandler
  <2>4. Lifecycle!Refuse(cut)
    BY <2>1, <2>2, <2>3 DEF Lifecycle!Refuse
  <2>5. cut \in SUBSET Orders
    OBVIOUS
  <2> HIDE DEF cut
  <2> QED BY <2>4, <2>5 DEF Goal, Lifecycle!Next
<1>20. ASSUME UNCHANGED vars PROVE Goal
  <2>1. UNCHANGED decideVars /\ machine' = machine /\ at' = at
    BY <1>20 DEF vars
  <2> QED BY <1>8, <2>1
<1> QED
  BY <1>13, <1>14, <1>15, <1>16, <1>17, <1>18, <1>19, <1>20
     DEF Goal, Next, Quiet, DecideStep, KillStep

\* The session protocol implements its promise to the tenant: a machine runs
\* only with consent, an ORDER turned down never gets one, and a machine that
\* ended stays ended (order, decide, release_session, revoke_session).
THEOREM SessionsKeepLifecycle == Spec => KeepsLifecycle
<1>1. TypeOK /\ SafeInv /\ TypeOK' /\ SafeInv' /\ [Next]_vars => [Lifecycle!Next]_(Lifecycle!vars)
  BY LifecycleStep
<1> QED
  BY <1>1, LifecycleInit, TypeCorrect, SafeInvHolds, PTL DEF Spec, KeepsLifecycle, Lifecycle!Spec

-----------------------------------------------------------------------------
(* The quota holds where one client sends every ORDER.  Between the count of *)
(* check_capacity and the INSERT of finalize_session no other ORDER runs, and *)
(* a kill only lowers the counts.                                           *)

\* The CPUs of one machine.
LEMMA CpusOfOne ==
    ASSUME NEW o \in Orders
    PROVE  IsFiniteSet({o} \X (1 .. Cpu[o])) /\ Cardinality({o} \X (1 .. Cpu[o])) = Cpu[o]
<1>1. Cpu[o] \in Nat
  BY SessionsAssumption
<1>2. IsFiniteSet({o}) /\ Cardinality({o}) = 1
  BY FS_Singleton
<1>3. IsFiniteSet(1 .. Cpu[o]) /\ Cardinality(1 .. Cpu[o]) = Cpu[o]
  BY <1>1, FS_Interval
<1>4. /\ IsFiniteSet({o} \X (1 .. Cpu[o]))
      /\ Cardinality({o} \X (1 .. Cpu[o])) = Cardinality({o}) * Cardinality(1 .. Cpu[o])
  BY <1>2, <1>3, FS_Product
<1> QED
  BY <1>1, <1>2, <1>3, <1>4

\* Finitely many machines have finitely many CPUs.
LEMMA CpusFinite ==
    ASSUME NEW S \in SUBSET Orders
    PROVE  IsFiniteSet(S) /\ IsFiniteSet(Cpus(S))
<1> DEFINE T == {{o} \X (1 .. Cpu[o]) : o \in S}
           f == [o \in S |-> {o} \X (1 .. Cpu[o])]
<1>1. IsFiniteSet(S)
  BY SessionsAssumption, FS_Subset
<1>2. f \in Surjection(S, T)
  BY DEF Surjection
<1>3. \A U \in T : IsFiniteSet(U)
  BY CpusOfOne
<1> HIDE DEF T, f
<1>4. IsFiniteSet(T)
  BY <1>1, <1>2, FS_Surjection
<1>5. IsFiniteSet(UNION T)
  BY <1>3, <1>4, FS_UNION
<1> QED
  BY <1>1, <1>5 DEF T, Cpus

\* A machine more adds its CPUs to the sum.
LEMMA CpusAdd ==
    ASSUME NEW S \in SUBSET Orders, NEW o \in Orders \ S
    PROVE  Cardinality(Cpus(S \cup {o})) = Cardinality(Cpus(S)) + Cpu[o]
<1> DEFINE U == {o} \X (1 .. Cpu[o])
<1>1. Cpus(S \cup {o}) = Cpus(S) \cup U
  BY DEF Cpus
<1>2. Cpus(S) \cap U = {}
  BY DEF Cpus
<1>3. IsFiniteSet(Cpus(S))
  BY CpusFinite
<1>4. IsFiniteSet(U) /\ Cardinality(U) = Cpu[o]
  BY CpusOfOne
<1>5. Cardinality(Cpus(S)) \in Nat /\ Cpu[o] \in Nat
  BY <1>3, FS_CardinalityType, SessionsAssumption
<1> HIDE DEF U
<1>6. Cardinality(Cpus(S) \cup U) =
        Cardinality(Cpus(S)) + Cardinality(U) - Cardinality(Cpus(S) \cap U)
  BY <1>3, <1>4, FS_Union
<1>7. Cardinality(Cpus(S) \cap U) = 0
  BY <1>2, FS_EmptySet, Zenon
<1>8. Cardinality(Cpus(S \cup {o})) = Cardinality(Cpus(S) \cup U)
  BY <1>1, Zenon
<1> QED
  BY <1>4, <1>5, <1>6, <1>7, <1>8

\* Fewer machines have no more CPUs.
LEMMA FewerCount ==
    ASSUME NEW S \in SUBSET Orders, NEW T \in SUBSET S
    PROVE  /\ Cardinality(S) \in Nat /\ Cardinality(T) \in Nat
           /\ Cardinality(Cpus(S)) \in Nat /\ Cardinality(Cpus(T)) \in Nat
           /\ Cardinality(T) <= Cardinality(S)
           /\ Cardinality(Cpus(T)) <= Cardinality(Cpus(S))
<1>1. IsFiniteSet(S) /\ IsFiniteSet(Cpus(S)) /\ IsFiniteSet(T) /\ IsFiniteSet(Cpus(T))
  BY CpusFinite
<1>2. Cpus(T) \in SUBSET Cpus(S)
  BY DEF Cpus
<1>3. Cardinality(T) <= Cardinality(S)
  BY <1>1, FS_Subset
<1>4. Cardinality(Cpus(T)) <= Cardinality(Cpus(S))
  BY <1>1, <1>2, FS_Subset
<1> QED
  BY <1>1, <1>3, <1>4, FS_CardinalityType

LEMMA QuotaInvInit == Init => QuotaInv
<1> SUFFICES ASSUME Init PROVE QuotaInv
  OBVIOUS
<1>1. ActiveMachines = {}
  BY DEF Init, ActiveMachines
<1>2. Cpus({}) = {}
  BY DEF Cpus
<1>3. Cardinality(ActiveMachines) = 0 /\ CpuInUse = 0
  BY <1>1, <1>2, FS_EmptySet DEF CpuInUse
<1>4. QuotaRespected
  BY <1>3, SessionsAssumption DEF QuotaRespected
<1> QED
  BY <1>4 DEF Init, QuotaInv, InFlight

\* A step that starts no machine and lets no handler past check_capacity keeps the quota.
LEMMA QuotaKept ==
    ASSUME TypeOK, QuotaInv,
           \A o \in Orders : machine'[o] = "active" => machine[o] = "active",
           \A o \in Orders : InFlight(at'[o], SessionAnswers) => InFlight(at[o], SessionAnswers),
           \A o \in Orders : at'[o] \in {"creating", "created"} => at[o] \in {"creating", "created"}
    PROVE  QuotaInv'
<1>1. ActiveMachines \in SUBSET Orders /\ ActiveMachines' \in SUBSET ActiveMachines
  BY DEF ActiveMachines
<1>2. /\ Cardinality(ActiveMachines) \in Nat /\ Cardinality(ActiveMachines') \in Nat
      /\ Cardinality(ActiveMachines') <= Cardinality(ActiveMachines)
      /\ CpuInUse \in Nat /\ CpuInUse' \in Nat /\ CpuInUse' <= CpuInUse
  BY <1>1, FewerCount DEF CpuInUse
<1>3. QuotaRespected'
  BY <1>2, SessionsAssumption DEF QuotaInv, QuotaRespected
<1>4. ASSUME NEW o \in Orders, at'[o] \in {"creating", "created"}
      PROVE  Cardinality(ActiveMachines)' < MaxMachines /\ CpuInUse' + Cpu[o] <= CpuBudget
  <2>1. Cardinality(ActiveMachines) < MaxMachines /\ CpuInUse + Cpu[o] <= CpuBudget
    BY <1>4 DEF QuotaInv
  <2>2. Cpu[o] \in Nat /\ MaxMachines \in Nat /\ CpuBudget \in Nat
    BY SessionsAssumption
  <2> QED
    BY <1>2, <2>1, <2>2
<1> QED
  BY <1>3, <1>4 DEF QuotaInv

LEMMA QuotaInvStep ==
    ASSUME OneClient, TypeOK, SafeInv, QuotaInv, [Next]_vars
    PROVE  QuotaInv'
<1> USE DEF TypeOK, GoTo
<1>1. ASSUME NEW s \in Sessions, InsertPending(s) PROVE QuotaInv'
  <2>1. /\ machine' = machine
        /\ \A o \in Orders : o # s => at'[o] = at[o]
        /\ at'[s] \in {"inserted", "pushing"}
    BY <1>1 DEF InsertPending
  <2>2. CASE s \notin Orders
    BY <2>1, <2>2, QuotaKept
  <2>3. CASE s \in Orders
    <3>1. \A o \in Orders : o # s => ~InFlight(at[o], SessionAnswers)
      BY <1>1, <2>3 DEF InsertPending, ClientFree, OneClient, InFlight
    <3>2. \A o \in Orders : InFlight(at'[o], SessionAnswers) => o = s
      BY <2>1, <3>1
    <3>3. ActiveMachines' = ActiveMachines /\ CpuInUse' = CpuInUse
      BY <2>1 DEF ActiveMachines, CpuInUse
    <3>4. \A o \in Orders : at'[o] \notin {"creating", "created"}
      BY <2>1, <3>2 DEF InFlight
    <3> QED BY <3>2, <3>3, <3>4 DEF QuotaInv, QuotaRespected
  <2> QED BY <2>2, <2>3
<1>2. ASSUME NEW s \in Sessions, WaitStep(s) \/ OrderFails(s) \/ OrderDropped(s) PROVE QuotaInv'
  BY <1>2, QuotaKept DEF WaitStep, Push, PollDecision, Timeout, OrderFails, OrderDropped, InFlight
<1>3. ASSUME NEW o \in Orders, SeedChallenge(o) \/ CreatePod(o) \/ AuditStart(o) \/ CreatePodLost(o) \/ PodLost(o)
      PROVE  QuotaInv'
  BY <1>3, QuotaKept DEF SeedChallenge, CreatePod, AuditStart, CreatePodLost, PodLost, InFlight
<1>4. ASSUME NEW o \in Orders, CheckCapacity(o) PROVE QuotaInv'
  <2>1. /\ machine' = machine /\ at[o] = "approved"
        /\ \A p \in Orders : p # o => at'[p] = at[p]
        /\ at'[o] \in {"creating", "error"}
        /\ at'[o] = "creating" => HasCapacity(o)
    BY <1>4 DEF CheckCapacity
  <2>2. \A p \in Orders : InFlight(at'[p], SessionAnswers) => InFlight(at[p], SessionAnswers)
    BY <2>1 DEF InFlight
  <2>3. ActiveMachines' = ActiveMachines /\ CpuInUse' = CpuInUse
    BY <2>1 DEF ActiveMachines, CpuInUse
  <2>4. \A p \in Orders : at'[p] \in {"creating", "created"} =>
          Cardinality(ActiveMachines) < MaxMachines /\ CpuInUse + Cpu[p] <= CpuBudget
    BY <2>1 DEF QuotaInv, HasCapacity
  <2> QED BY <2>2, <2>3, <2>4 DEF QuotaInv, QuotaRespected
<1>5. ASSUME NEW o \in Orders, RecordMachine(o) PROVE QuotaInv'
  <2>1. /\ at[o] = "created"
        /\ machine' = [machine EXCEPT ![o] = "active"]
        /\ \A p \in Orders : p # o => at'[p] = at[p]
        /\ at'[o] = "recorded"
    BY <1>5 DEF RecordMachine
  <2>2. machine[o] = "none"
    BY <2>1 DEF SafeInv, RowsFollowHandler
  <2>3. \A p \in Orders : p # o => ~InFlight(at[p], SessionAnswers)
    BY <2>1 DEF QuotaInv, InFlight
  <2>4. \A p \in Orders : InFlight(at'[p], SessionAnswers) => p = o
    BY <2>1, <2>3
  <2>5. \A p \in Orders : at'[p] \notin {"creating", "created"}
    BY <2>1, <2>4 DEF InFlight
  <2>6. Cardinality(ActiveMachines) < MaxMachines /\ CpuInUse + Cpu[o] <= CpuBudget
    BY <2>1 DEF QuotaInv
  <2>7. ActiveMachines' = ActiveMachines \cup {o} /\ o \notin ActiveMachines
    BY <2>1, <2>2 DEF ActiveMachines
  <2>8. ActiveMachines \in SUBSET Orders
    BY DEF ActiveMachines
  <2>9. CpuInUse' = CpuInUse + Cpu[o]
    BY <2>7, <2>8, CpusAdd DEF CpuInUse
  <2>10. IsFiniteSet(ActiveMachines)
    BY <2>8, CpusFinite
  <2>11. Cardinality(ActiveMachines') = Cardinality(ActiveMachines) + 1 /\ Cardinality(ActiveMachines) \in Nat
    BY <2>7, <2>10, FS_AddElement, FS_CardinalityType
  <2>12. QuotaRespected'
    BY <2>6, <2>9, <2>11, SessionsAssumption DEF QuotaRespected
  <2> QED BY <2>4, <2>5, <2>12 DEF QuotaInv
<1>6. ASSUME NEW d \in Decides, DecideRead(d) \/ DecideTake(d) \/ DecideApply(d) \/ DecideFails(d)
      PROVE  QuotaInv'
  <2>1. UNCHANGED <<machine, at>>
    BY <1>6 DEF DecideRead, DecideTake, DecideApply, DecideFails
  <2> QED BY <2>1, QuotaKept
<1>7. ASSUME NEW k \in Kills, KillRequested(k) \/ KillPod(k) \/ AuditEnd(k) \/ KillFails(k) \/ KillDropped(k)
      PROVE  QuotaInv'
  <2>1. UNCHANGED <<machine, at>>
    BY <1>7 DEF KillRequested, KillPod, AuditEnd, KillFails, KillDropped
  <2> QED BY <2>1, QuotaKept
<1>8. ASSUME NEW k \in Kills, MarkEnded(k) PROVE QuotaInv'
  <2>1. killReq[k].status \in Ended
    BY <1>8 DEF MarkEnded
  <2>2. \A o \in Orders : machine'[o] = "active" => machine[o] = "active"
    BY <1>8, <2>1 DEF MarkEnded
  <2> QED BY <1>8, <2>2, QuotaKept DEF MarkEnded
<1>9. CASE Crash
  BY <1>9, QuotaKept DEF Crash, InFlight
<1>10. CASE UNCHANGED vars
  <2>1. UNCHANGED <<machine, at>>
    BY <1>10 DEF vars
  <2> QED BY <2>1, QuotaKept
<1> QED
  BY <1>1, <1>2, <1>3, <1>4, <1>5, <1>6, <1>7, <1>8, <1>9, <1>10
     DEF Next, Quiet, OrderStep, DecideStep, KillStep

\* Where one client sends the tenant's ORDERs one after the other, no machine takes
\* the tenant over its quota, whatever fails and whoever kills (check_capacity).
THEOREM QuotaHolds == ASSUME OneClient PROVE Spec => []QuotaRespected
<1>1. Init => QuotaInv
  BY QuotaInvInit
<1>2. TypeOK /\ SafeInv /\ QuotaInv /\ [Next]_vars => QuotaInv'
  BY QuotaInvStep
<1>3. QuotaInv => QuotaRespected
  BY DEF QuotaInv
<1> QED
  BY <1>1, <1>2, <1>3, TypeCorrect, SafeInvHolds, PTL DEF Spec

-----------------------------------------------------------------------------
(* Decisions with one phone.                                                *)

LEMMA FinalInvInit == Init => FinalInv
  BY DEF Init, FinalInv, InFlight

\* What neither decides nor begins a request keeps FinalInv.
LEMMA FinalKept ==
    ASSUME TypeOK, FinalInv, UNCHANGED <<session, challenge, decideReq>>,
           \A d \in Decides : InFlight(decideAt'[d], DecideAnswers) => decideAt'[d] = decideAt[d],
           \A s \in Sessions : at'[s] \in {"idle", "inserted"} => at[s] \in {"idle", "inserted"}
    PROVE  FinalInv'
<1>1. ASSUME NEW d \in Decides, decideAt'[d] = "taken"
      PROVE  decideAt[d] = "taken"
  BY <1>1 DEF InFlight
<1>2. ASSUME NEW d \in Decides, InFlight(decideAt'[d], DecideAnswers)
      PROVE  InFlight(decideAt[d], DecideAnswers)
  BY <1>2
<1> QED
  BY <1>1, <1>2 DEF FinalInv

LEMMA FinalInvStep ==
    ASSUME OnePhone, TypeOK, DecidesFollowRequest, FinalInv, [Next]_vars
    PROVE  FinalInv'
<1> USE DEF TypeOK, GoTo
<1>1. ASSUME NEW s \in Sessions, InsertPending(s) PROVE FinalInv'
  <2>1. /\ UNCHANGED <<challenge, decideAt, decideReq>>
        /\ at[s] = "idle" /\ session' = [session EXCEPT ![s] = "pending"]
        /\ \A r \in Sessions : at'[r] \in {"idle", "inserted"} => at[r] \in {"idle", "inserted"}
    BY <1>1 DEF InsertPending
  <2>2. \A r \in Sessions : session'[r] = IF r = s THEN "pending" ELSE session[r]
    BY <2>1
  <2>3. ASSUME NEW d \in Decides, InFlight(decideAt[d], DecideAnswers)
        PROVE  session'[decideReq[d].session] = "pending"
    BY <2>2, <2>3 DEF FinalInv, InFlight
  <2> QED
    BY <2>1, <2>2, <2>3 DEF FinalInv
<1>2. ASSUME NEW s \in Sessions, WaitStep(s) \/ OrderFails(s) \/ OrderDropped(s) PROVE FinalInv'
  BY <1>2, FinalKept DEF WaitStep, Push, PollDecision, Timeout, OrderFails, OrderDropped
<1>3. ASSUME NEW o \in Orders, SeedChallenge(o) PROVE FinalInv'
  <2>1. /\ UNCHANGED <<session, decideAt, decideReq>>
        /\ at[o] = "inserted" /\ challenge' = [challenge EXCEPT ![o] = "fresh"]
        /\ at' = [at EXCEPT ![o] = "pushing"]
    BY <1>3 DEF SeedChallenge
  <2>2. challenge[o] = "none" /\ session[o] \notin {"approved", "denied"}
    BY <2>1 DEF FinalInv
  <2>3. \A s \in Sessions : s # o => challenge'[s] = challenge[s]
    BY <2>1
  <2>4. ASSUME NEW d \in Decides, decideAt[d] = "taken"
        PROVE  challenge'[decideReq[d].session] = "used"
    BY <2>2, <2>3, <2>4 DEF FinalInv
  <2> QED
    BY <2>1, <2>2, <2>3, <2>4 DEF FinalInv
<1>4. ASSUME NEW o \in Orders,
             \/ CheckCapacity(o) \/ CreatePod(o) \/ RecordMachine(o) \/ AuditStart(o)
             \/ CreatePodLost(o) \/ PodLost(o)
      PROVE  FinalInv'
  BY <1>4, FinalKept
     DEF CheckCapacity, CreatePod, RecordMachine, AuditStart, CreatePodLost, PodLost
<1>5. ASSUME NEW d \in Decides, DecideRead(d) PROVE FinalInv'
  <2>1. PICK req \in DecideRequests :
          /\ session[req.session] # "none"
          /\ decideReq' = [decideReq EXCEPT ![d] = req]
          /\ decideAt' = [decideAt EXCEPT ![d] =
                 IF challenge[req.session] = "fresh" THEN "read" ELSE "refused"]
    BY <1>5 DEF DecideRead
  <2>2. UNCHANGED <<session, challenge, at>>
    BY <1>5 DEF DecideRead
  <2>3. \A e \in Decides : e # d =>
          /\ ~InFlight(decideAt[e], DecideAnswers)
          /\ decideAt'[e] = decideAt[e] /\ decideReq'[e] = decideReq[e]
    BY <1>5, <2>1 DEF DecideRead, ClientFree, OnePhone, InFlight
  <2>4. decideAt'[d] # "taken" /\ decideReq'[d] = req
    BY <2>1
  <2>5. InFlight(decideAt'[d], DecideAnswers) =>
          session[req.session] = "pending" /\ challenge[req.session] # "none"
    <3>1. SUFFICES ASSUME InFlight(decideAt'[d], DecideAnswers)
                   PROVE  session[req.session] = "pending" /\ challenge[req.session] # "none"
      OBVIOUS
    <3>2. challenge[req.session] = "fresh"
      BY <2>1, <3>1 DEF InFlight
    <3> QED BY <2>1, <3>2 DEF FinalInv
  <2>6. \A e \in Decides : InFlight(decideAt'[e], DecideAnswers) => e = d
    BY <2>3
  <2>7. \A e \in Decides : decideAt'[e] # "taken"
    BY <2>4, <2>6 DEF InFlight
  <2> QED
    BY <2>2, <2>4, <2>5, <2>6, <2>7 DEF FinalInv
<1>6. ASSUME NEW d \in Decides, DecideStep(d) PROVE FinalInv'
  <2>1. decideReq[d] \in DecideRequests /\ InFlight(decideAt[d], DecideAnswers)
    BY <1>6 DEF DecideStep, DecideTake, DecideApply, InFlight
  <2>2. \A e \in Decides : e # d => ~InFlight(decideAt[e], DecideAnswers)
    BY <2>1 DEF FinalInv
  <2>3. CASE DecideTake(d)
    <3>1. /\ UNCHANGED <<session, at, decideReq>>
          /\ challenge' = [challenge EXCEPT ![decideReq[d].session] = "used"]
          /\ decideAt' = [decideAt EXCEPT ![d] = "taken"]
      BY <2>3 DEF DecideTake
    <3>2. session[decideReq[d].session] = "pending"
      BY <2>1 DEF FinalInv
    <3>3. at[decideReq[d].session] \notin {"idle", "inserted"}
      <4>1. challenge[decideReq[d].session] # "none"
        BY <2>1 DEF FinalInv
      <4> QED BY <2>1, <4>1 DEF FinalInv
    <3> QED BY <2>1, <2>2, <3>1, <3>2, <3>3 DEF FinalInv
  <2>4. CASE DecideApply(d)
    <3>1. /\ UNCHANGED <<challenge, at, decideReq>> /\ decideAt[d] = "taken"
          /\ \/ session' = [session EXCEPT ![decideReq[d].session] = decideReq[d].decision]
             \/ session' = session
          /\ decideAt'[d] \in {"ok", "refused"}
          /\ \A e \in Decides : e # d => decideAt'[e] = decideAt[e]
      BY <2>4 DEF DecideApply
    <3>2. challenge[decideReq[d].session] = "used"
      BY <3>1 DEF FinalInv
    <3>3. \A e \in Decides : ~InFlight(decideAt'[e], DecideAnswers)
      BY <2>2, <3>1 DEF InFlight
    <3>4. \A e \in Decides : decideAt'[e] # "taken"
      BY <3>3 DEF InFlight
    <3>5. \A s \in Sessions : session'[s] \in {"approved", "denied"} => challenge[s] = "used"
      BY <2>1, <3>1, <3>2 DEF FinalInv
    <3> QED BY <3>1, <3>3, <3>4, <3>5 DEF FinalInv
  <2> QED BY <1>6, <2>3, <2>4 DEF DecideStep
<1>7. ASSUME NEW d \in Decides, DecideFails(d) PROVE FinalInv'
  BY <1>7, FinalKept DEF DecideFails, InFlight
<1>8. ASSUME NEW k \in Kills,
             KillRequested(k) \/ KillStep(k) \/ KillFails(k) \/ KillDropped(k)
      PROVE  FinalInv'
  <2>1. UNCHANGED <<session, challenge, at, decideAt, decideReq>>
    BY <1>8 DEF KillRequested, KillStep, KillPod, MarkEnded, AuditEnd, KillFails, KillDropped
  <2> QED BY <2>1, FinalKept
<1>9. CASE Crash
  BY <1>9, FinalKept DEF Crash, InFlight
<1>10. CASE UNCHANGED vars
  BY <1>10, FinalKept DEF vars
<1> QED
  BY <1>1, <1>2, <1>3, <1>4, <1>5, <1>6, <1>7, <1>8, <1>9, <1>10 DEF Next, Quiet, OrderStep

\* Where one phone sends the decisions one after the other, a decided session keeps its
\* decision: what take_challenge has found unused is unused still when decide marks it.
THEOREM DecisionHolds == ASSUME OnePhone PROVE Spec => DecisionFinal
<1> DEFINE Stays == \A s \in Sessions : session[s] \in {"approved", "denied"} => session'[s] = session[s]
<1>1. TypeOK /\ SafeInv /\ FinalInv /\ [Next]_vars => FinalInv'
  BY FinalInvStep DEF SafeInv
<1>2. TypeOK /\ SafeInv /\ FinalInv /\ [Next]_vars => Stays
  <2> SUFFICES ASSUME TypeOK, SafeInv, FinalInv, [Next]_vars, NEW s \in Sessions,
                      session[s] \in {"approved", "denied"}, session'[s] # session[s]
               PROVE  FALSE
    OBVIOUS
  <2> USE DEF TypeOK, GoTo
  <2>1. ~UNCHANGED session
    OBVIOUS
  <2>2. \/ \E r \in Sessions : InsertPending(r)
        \/ \E d \in Decides : DecideApply(d)
    BY <2>1 DEF Next, WaitStep, OrderStep, DecideStep, KillStep, Push, PollDecision, Timeout,
       SeedChallenge, CheckCapacity, CreatePod, RecordMachine, AuditStart, OrderFails, CreatePodLost,
       OrderDropped, PodLost, DecideRead, DecideTake, DecideFails, KillRequested, KillPod, MarkEnded,
       AuditEnd, KillFails, KillDropped, Crash, Quiet, vars
  <2>3. ASSUME NEW r \in Sessions, InsertPending(r) PROVE FALSE
    <3>1. r = s /\ at[s] = "idle"
      BY <2>3 DEF InsertPending
    <3> QED BY <3>1 DEF SafeInv, DecidesFollowRequest
  <2>4. ASSUME NEW d \in Decides, DecideApply(d) PROVE FALSE
    <3>1. decideReq[d].session = s
      BY <2>4 DEF DecideApply
    <3>2. session[s] = "pending"
      BY <2>4, <3>1 DEF FinalInv, DecideApply, InFlight
    <3> QED BY <3>2
  <2> QED BY <2>2, <2>3, <2>4
<1>3. Spec => [][Stays]_vars
  BY <1>1, <1>2, FinalInvInit, TypeCorrect, SafeInvHolds, PTL DEF Spec
<1> QED
  BY <1>3 DEF DecisionFinal
=============================================================================
