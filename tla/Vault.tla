--------------------------------- MODULE Vault --------------------------------
(***************************************************************************)
(* Credentials of tenants (routes/credentials.rs, crypto/vault.rs) and the   *)
(* commands the gateway runs in pods (routes/exec.rs, routes/git.rs), on top *)
(* of the key files and the process (KeyStore) and of Access.               *)
(*                                                                         *)
(* A credential is sealed with a key derived from the audit key in memory.  *)
(* A handler takes one of plan.pool database connections for each statement; *)
(* get_credential keeps its own while the audit entry asks for another.     *)
(* The pod of a machine is started with the credentials that have an         *)
(* env_var in its environment (load_credential_env_vars, scheduler.rs).      *)
(***************************************************************************)
EXTENDS Access

CONSTANTS
    Secrets, Asked,     \* calls about credentials, and what each asks for
    Commands, Sent,     \* calls of exec and git, and what each sends
    Machines, OwnerOf,  \* machines, and their tenants
    Tenants

Ops == {"create", "get", "agent", "rotate", "delete"}
Kinds == {"exec", "clone", "branch", "commit", "push", "status", "log", "pr"}

ASSUME VaultAssumption ==
    /\ Secrets \cap Commands = {} /\ (Secrets \cup Commands) \cap (Finishes \cup Asserts) = {}
    /\ OwnerOf \in [Machines -> Tenants]
    /\ \A s \in Secrets : /\ Asked[s].op \in Ops
                          /\ Asked[s].tenant \in Tenants
                          /\ Asked[s].env \in BOOLEAN
                          /\ Asked[s].machine \in Machines
    /\ \A c \in Commands : Sent[c].kind \in Kinds /\ Sent[c].machine \in Machines

VARIABLES
    stored,     \* the rows of agent_credentials; the index is the id
    ask,        \* where each call about credentials stands, and the row it read
    active,     \* the machines with status 'active'
    env,        \* of each pod: its row of credentials, and those left out
    cmd,        \* where each command stands, its exit code, its audit_seq
    pod,        \* what became of each command in its pod
    hub,        \* pull requests at GitHub, by the call that created them
    entries     \* audit entries; the index is seq

machineVars == <<active, env>>
vaultVars == <<stored, ask, machineVars, cmd, pod, hub, entries>>
vars == <<plan, busy, keyVars, accessVars, vaultVars>>

VaultInit ==
    /\ stored = <<>>
    /\ ask = [s \in Secrets |-> [at |-> Due(s), row |-> 0, seal |-> 0]]
    /\ active = Machines
    /\ env = [m \in Machines |-> [has |-> {}, missed |-> {}]]
    /\ cmd = [c \in Commands |-> [at |-> Due(c), code |-> 0, seq |-> 0]]
    /\ pod = [c \in Commands |-> [at |-> "none", code |-> 0]]
    /\ hub = {}
    /\ entries = <<>>

Entry(tenant, machine, by) == [tenant |-> tenant, machine |-> machine, by |-> by]
Log(entry) == entries' = Append(entries, entry)

\* get_credential and rotate_credential hold a connection between statements.
Holding == {s \in Secrets : ask[s].at \in {"held", "rotating"}}
Free == plan.pool - Cardinality(Holding)

Goto(s, at) == ask' = [ask EXCEPT ![s].at = at]
Read(s, i, at) ==
    ask' = [ask EXCEPT ![s] = [at |-> at, row |-> i, seal |-> stored[i].seal]]

\* decrypt succeeds with the key that encrypted; it is derived from the audit key.
Sealing == keys[<<"audit", "key">>]
Opens(seal) == seal = Sealing

Live(tenant, name) ==
    {i \in DOMAIN stored : stored[i].live /\ stored[i].tenant = tenant /\ stored[i].name = name}

-----------------------------------------------------------------------------
(* Broken variants of the definitions below.                                *)

\* The sequence number of the newest entry, whatever its machine.
NewestAnywhere(machine) == Len(entries)

-----------------------------------------------------------------------------
(* Credentials.                                                             *)

\* create_credential: UNIQUE(tenant_id, name) refuses a second row.
Create(s) ==
    LET q == Asked[s]
    IN  /\ Serving /\ Free > 0
        /\ q.op = "create" /\ ask[s].at = "new"
        /\ IF Live(q.tenant, q.name) # {}
           THEN Goto(s, "409") /\ stored' = stored
           ELSE /\ Goto(s, "ok")
                /\ stored' = Append(stored, [tenant |-> q.tenant, name |-> q.name,
                                 value |-> q.value, env |-> q.env, seal |-> Sealing,
                                 live |-> TRUE])
        /\ UNCHANGED <<plan, busy, keyVars, accessVars, machineVars, cmd, pod, hub, entries>>

\* get_credential, up to the value; the connection stays with the call.
GetRead(s) ==
    /\ Asked[s].op = "get" /\ ask[s].at = "new"
    /\ Free > 0 /\ Enter(s)
    /\ \E i \in Live(Asked[s].tenant, Asked[s].name) : Read(s, i, "held")
    /\ UNCHANGED <<plan, keyVars, accessVars, stored, machineVars, cmd, pod, hub, entries>>

\* agent_get_credential: the token's tenant must be the machine's; the
\* connection is dropped after the row is read.
AgentRead(s) ==
    LET q == Asked[s]
    IN  /\ q.op = "agent" /\ ask[s].at = "new"
        /\ Free > 0 /\ Enter(s)
        /\ OwnerOf[q.machine] = q.tenant
        /\ \E i \in Live(q.tenant, q.name) : Read(s, i, "read")
        /\ UNCHANGED <<plan, keyVars, accessVars, stored, machineVars, cmd, pod, hub, entries>>

\* 404, 403: no such row, or a machine of another tenant.
Denied(s) ==
    LET q == Asked[s]
    IN  /\ Serving /\ Free > 0 /\ ask[s].at = "new"
        /\ \/ q.op \in {"get", "agent"} /\ Live(q.tenant, q.name) = {}
           \/ q.op = "agent" /\ OwnerOf[q.machine] # q.tenant
        /\ Goto(s, "denied")
        /\ UNCHANGED <<plan, busy, keyVars, accessVars, stored, machineVars, cmd, pod, hub, entries>>

\* decrypt fails: 500, and no entry.
Sealed(s) ==
    /\ ask[s].at \in {"held", "read"} /\ ~Opens(ask[s].seal)
    /\ Goto(s, "sealed") /\ Leave(s)
    /\ UNCHANGED <<plan, keyVars, accessVars, stored, machineVars, cmd, pod, hub, entries>>

\* The entry credential_accessed, on a connection of its own, and the answer.
\* get_credential logs no machine.  An entry that fails is only logged.
Hand(s) ==
    LET q == Asked[s]
    IN  /\ ask[s].at \in {"held", "read"} /\ Opens(ask[s].seal)
        /\ Goto(s, "ok") /\ Leave(s)
        /\ \/ /\ Free > 0
              /\ Log(Entry(stored[ask[s].row].tenant,
                           IF q.op = "get" THEN "" ELSE q.machine, s))
           \/ Free <= 0 /\ entries' = entries      \* Pool::get gives up
           \/ plan.faults /\ entries' = entries
        /\ UNCHANGED <<plan, keyVars, accessVars, stored, machineVars, cmd, pod, hub>>

\* rotate_credential, SELECT; the id is that of a row which may be gone.
RotateRead(s) ==
    /\ Asked[s].op = "rotate" /\ ask[s].at = "new" /\ Free > 0
    /\ \E i \in DOMAIN stored :
         IF stored[i].live THEN Enter(s) /\ Read(s, i, "rotating")
                           ELSE Serving /\ busy' = busy /\ Goto(s, "denied")
    /\ UNCHANGED <<plan, keyVars, accessVars, stored, machineVars, cmd, pod, hub, entries>>

\* rotate_credential, UPDATE: the number of rows it changed is not looked at.
RotateWrite(s) ==
    LET i == ask[s].row
    IN  /\ ask[s].at = "rotating"
        /\ Goto(s, "ok") /\ Leave(s)
        /\ stored' = IF stored[i].live
                     THEN [stored EXCEPT ![i].value = Asked[s].value, ![i].seal = Sealing]
                     ELSE stored
        /\ UNCHANGED <<plan, keyVars, accessVars, machineVars, cmd, pod, hub, entries>>

\* delete_credential.
Delete(s) ==
    /\ Serving /\ Free > 0
    /\ Asked[s].op = "delete" /\ ask[s].at = "new"
    /\ \E i \in DOMAIN stored :
         /\ Goto(s, IF stored[i].live THEN "ok" ELSE "denied")
         /\ stored' = [stored EXCEPT ![i].live = FALSE]
    /\ UNCHANGED <<plan, busy, keyVars, accessVars, machineVars, cmd, pod, hub, entries>>

\* load_credential_env_vars, when a machine's pod is started: the rows with an env_var,
\* but for those that do not decrypt; none when a statement fails.  Nothing is logged.
Spawn(m) ==
    LET wanted == {i \in DOMAIN stored : stored[i].live /\ stored[i].env
                                          /\ stored[i].tenant = OwnerOf[m]}
    IN  /\ Serving /\ Free > 0 /\ m \in active
        /\ Spend("spawns")
        /\ \E read \in {wanted} \cup (IF plan.faults THEN {{}} ELSE {}) :
             LET has == {i \in read : Opens(stored[i].seal)}
             IN  env' = [env EXCEPT ![m] = [has |-> has, missed |-> wanted \ has]]
        /\ UNCHANGED <<busy, keyVars, accessVars, stored, ask, active, cmd, pod, hub, entries>>

-----------------------------------------------------------------------------
(* Commands in pods.                                                        *)

To(c, at) == cmd' = [cmd EXCEPT ![c].at = at]

\* verify_connect_token: a machine that is not active has no hash to compare
\* with, and passes.
TokenPasses(c) == Sent[c].machine \in active => Sent[c].token = "right"

\* The rows decrypt_git_token may see: github-pat, then git-token, and none when
\* the query fails.
GitToken(tenant) ==
    {IF Live(tenant, "github-pat") # {} THEN Live(tenant, "github-pat")
                                        ELSE Live(tenant, "git-token")}
    \cup (IF plan.faults THEN {{}} ELSE {})

Locked(rows) == \E i \in rows : ~Opens(stored[i].seal)

\* The call has its token verified; what follows is the answer, or "go".
Accept(c, kind, next) ==
    /\ Serving /\ Free > 0
    /\ Sent[c].kind = kind /\ cmd[c].at = "new"
    /\ To(c, IF TokenPasses(c) THEN next ELSE "401")
    /\ UNCHANGED <<plan, busy, keyVars, accessVars, stored, ask, machineVars, pod, hub, entries>>

Exec(c)   == Accept(c, "exec", "go")
Branch(c) == Accept(c, "branch", "go")
Commit(c) == Accept(c, "commit", "go")
Push(c)   == Accept(c, "push", "go")
Status(c) == Accept(c, "status", "go")
LogOf(c)  == Accept(c, "log", "go")

\* A clone goes on without a token, but not with one that does not decrypt.
Clone(c) ==
    \E rows \in GitToken(OwnerOf[Sent[c].machine]) :
        Accept(c, "clone", IF Locked(rows) THEN "500" ELSE "go")

\* A pull request needs a token.
CreatePr(c) ==
    \E rows \in GitToken(OwnerOf[Sent[c].machine]) :
        Accept(c, "pr", IF rows = {} THEN "400" ELSE IF Locked(rows) THEN "500" ELSE "go")

\* exec_in_pod, run_pod_exec: the pod starts the command, or kube refuses.
CmdRun(c) ==
    /\ cmd[c].at = "go"
    /\ \/ /\ Sent[c].machine \in active
          /\ To(c, "running") /\ pod' = [pod EXCEPT ![c].at = "running"]
       \/ To(c, "502") /\ pod' = pod
    /\ UNCHANGED <<plan, busy, keyVars, accessVars, stored, ask, machineVars, hub, entries>>

\* The command ends in the pod, whether or not someone still waits.
PodEnds(c) ==
    /\ pod[c].at = "running"
    /\ \E code \in {0, 1} : pod' = [pod EXCEPT ![c] = [at |-> "ended", code |-> code]]
    /\ UNCHANGED <<plan, busy, keyVars, accessVars, stored, ask, machineVars, cmd, hub, entries>>

\* The exit codes a reply can carry; a stream without a status counts as success.
Reported(c) == {pod[c].code} \cup (IF plan.faults THEN {0} ELSE {})

\* With the exit code: status, log and create_pr answer 502 to a failure, the
\* others report it; create_pr goes on to GitHub.
CmdReply(c) ==
    /\ cmd[c].at = "running" /\ pod[c].at = "ended"
    /\ \E code \in Reported(c) :
         cmd' = [cmd EXCEPT ![c] = [@ EXCEPT !.code = code, !.at =
                    IF Sent[c].kind \in {"status", "log", "pr"} /\ code # 0 THEN "502"
                    ELSE IF Sent[c].kind = "pr" THEN "post" ELSE "ran"]]
    /\ UNCHANGED <<plan, busy, keyVars, accessVars, stored, ask, machineVars, pod, hub, entries>>

\* abort ends the stream, not the command: 504.
CmdTimeout(c) ==
    /\ cmd[c].at = "running"
    /\ To(c, "504")
    /\ UNCHANGED <<plan, busy, keyVars, accessVars, stored, ask, machineVars, pod, hub, entries>>

\* The request to GitHub, which has one pull request per machine's branch, or
\* refuses; its answer may be lost or unreadable.
PrPost(c) ==
    LET known == \E d \in hub : Sent[d].machine = Sent[c].machine
    IN  /\ cmd[c].at = "post"
        /\ \/ /\ ~known /\ hub' = hub \cup {c}
              /\ To(c, "ran") \/ (plan.faults /\ To(c, "502"))
           \/ known /\ hub' = hub /\ To(c, "422")
           \/ hub' = hub /\ plan.faults /\ To(c, "502")
        /\ UNCHANGED <<plan, busy, keyVars, accessVars, stored, ask, machineVars, pod, entries>>

\* write_audit_and_get_seq, the entry; its failure is only logged.
CmdLog(c) ==
    /\ cmd[c].at = "ran" /\ Enter(c)
    /\ To(c, "logged")
    /\ \/ Free > 0 /\ Log(Entry(OwnerOf[Sent[c].machine], Sent[c].machine, c))
       \/ (Free <= 0 \/ plan.faults) /\ entries' = entries
    /\ UNCHANGED <<plan, keyVars, accessVars, stored, ask, machineVars, pod, hub>>

Newest(seqs) == IF seqs = {} THEN 0 ELSE CHOOSE i \in seqs : \A j \in seqs : j <= i

\* SELECT COALESCE(MAX(seq), 0) for the machine and its tenant.
NewestSeq(machine) ==
    Newest({i \in DOMAIN entries : /\ entries[i].machine = machine
                                   /\ entries[i].tenant = OwnerOf[machine]})

\* write_audit_and_get_seq, the number, and the answer; 0 when the query fails.
CmdSeq(c) ==
    /\ cmd[c].at = "logged"
    /\ \E seq \in (IF Free > 0 THEN {NewestSeq(Sent[c].machine)} ELSE {0})
                  \cup (IF plan.faults THEN {0} ELSE {}) :
         cmd' = [cmd EXCEPT ![c] = [@ EXCEPT !.at = "ok", !.seq = seq]]
    /\ Leave(c)
    /\ UNCHANGED <<plan, keyVars, accessVars, stored, ask, machineVars, pod, hub, entries>>

\* The machine ends (sessions/manager.rs); its pod goes with it.
Ends(m) ==
    /\ m \in active /\ Spend("ends")
    /\ active' = active \ {m}
    /\ UNCHANGED <<env, busy, keyVars, accessVars, stored, ask, cmd, pod, hub, entries>>

-----------------------------------------------------------------------------
(* The whole.                                                               *)

Waiting == {"go", "running", "post", "ran"}

\* A kill ends the calls under way with the process.
Killed ==
    /\ Kill
    /\ finish' = Dropped(finish)
    /\ assert' = Dropped(assert)
    /\ ask' = [s \in Secrets |-> IF s \in busy THEN [ask[s] EXCEPT !.at = "lost"] ELSE ask[s]]
    /\ cmd' = [c \in Commands |-> IF c \in busy \/ cmd[c].at \in Waiting
                                  THEN [cmd[c] EXCEPT !.at = "lost"] ELSE cmd[c]]
    /\ UNCHANGED <<challenge, credential, accepted, stored, machineVars, pod, hub, entries>>

VaultStep ==
    \/ \E s \in Secrets : Create(s) \/ GetRead(s) \/ AgentRead(s) \/ Denied(s) \/ Sealed(s)
                             \/ Hand(s) \/ RotateRead(s) \/ RotateWrite(s) \/ Delete(s)
    \/ \E c \in Commands : Exec(c) \/ Clone(c) \/ Branch(c) \/ Commit(c) \/ Push(c)
                             \/ Status(c) \/ LogOf(c) \/ CreatePr(c) \/ CmdRun(c) \/ PodEnds(c) \/ CmdReply(c)
                             \/ CmdTimeout(c) \/ PrPost(c) \/ CmdLog(c) \/ CmdSeq(c)
    \/ \E m \in Machines : Ends(m) \/ Spawn(m)

Init == KeyInit /\ AccessInit /\ VaultInit

Next ==
    \/ (StartStep \/ InitCommand \/ ClientInit) /\ UNCHANGED <<accessVars, vaultVars>>
    \/ AccessStep /\ UNCHANGED vaultVars
    \/ VaultStep
    \/ Killed

Spec == Init /\ [][Next]_vars

\* The supervisor starts a gateway that has ended, and a process goes on.
FairSpec == Spec /\ WF_vars(StartStep /\ UNCHANGED <<accessVars, vaultVars>>)

-----------------------------------------------------------------------------
(* Properties.                                                              *)

LoggedBy(c) == {i \in DOMAIN entries : entries[i].by = c}

\* A credential that was handed out has its one entry: with more connections
\* than threads the entry never waits for those who hold one.
ReadsAreLogged ==
    plan.pool > plan.threads =>
        \A s \in Secrets : Asked[s].op \in {"get", "agent"} /\ ask[s].at = "ok"
                             => Cardinality(LoggedBy(s)) = 1

\* A command answered with 200 has run with that exit code and has its one
\* entry; its audit_seq is an entry of its machine, its own or a later one,
\* and its own when one thread handles all calls.
AnswersAreTrue ==
    plan.pool > plan.threads =>
        \A c \in Commands : cmd[c].at = "ok" =>
            /\ pod[c] = [at |-> "ended", code |-> cmd[c].code]
            /\ Cardinality(LoggedBy(c)) = 1
            /\ \A own \in LoggedBy(c) :
                 /\ own <= cmd[c].seq
                 /\ entries[cmd[c].seq].machine = Sent[c].machine
                 /\ plan.threads = 1 => cmd[c].seq = own

\* A pull request at GitHub is in the log, or whoever asked for it was not told
\* that it exists, or is still waiting.
PullRequestsAreLogged ==
    plan.pool > plan.threads =>
        \A c \in hub : LoggedBy(c) # {} \/ cmd[c].at \in {"ran", "502", "lost"}

\* What pods and GitHub did and what was read is accounted for, unless a
\* statement failed or an answer was lost.
Accounted == ~plan.faults => ReadsAreLogged /\ AnswersAreTrue /\ PullRequestsAreLogged

\* What was stored can be read, by whichever gateway runs, and no pod is started without
\* a credential it should have, unless init has replaced the audit key (decrypt;
\* load_credential_env_vars leaves out what it cannot decrypt, and the order succeeds).
SecretsStayReadable ==
    ~rekeyed => /\ \A s \in Secrets : ask[s].at # "sealed"
                /\ plan.faults \/ \A m \in Machines : env[m].missed = {}
=============================================================================
