--------------------------------- MODULE Admin --------------------------------
(***************************************************************************)
(* The administration of the gateway: tenants (routes/admin.rs, tenants/    *)
(* registry.rs, tenants/quotas.rs), roles (routes/roles.rs) and images      *)
(* (routes/images.rs, images/registry.rs).                                  *)
(*                                                                         *)
(* Handlers of tenants and roles never await: each holds one of             *)
(* plan.threads runtime threads from its first statement to its answer, and *)
(* what comes between two statements is on another thread.  Handlers of     *)
(* images await the programs they start; a client that hangs up drops them  *)
(* there, while the program goes on.                                        *)
(***************************************************************************)
EXTENDS Integers, Sequences, FiniteSets

CONSTANTS
    Plans,          \* scenarios: who calls, threads, kills, whether things fail
    Callers,        \* requests, and what each asks for
    Asked,
    Images,         \* image names; the one that scripts/build_rocky_base.py builds
    RockyBase,
    Defaults        \* the roles of DEFAULT_ROLES that are seeded, in order

Role(name, allowed, denied) == [name |-> name, allowed |-> allowed, denied |-> denied]

\* The tools of the nine roles; their prompts are texts.
Writing == {"git_branch", "git_commit", "git_push", "git_pr"}
Viewer == {"git_clone", "exec", "result"}

DEFAULT_ROLES ==
    <<Role("planner", Viewer \cup {"workflow_create"}, Writing),
      Role("coder", Viewer \cup Writing, {}),
      Role("reviewer", Viewer, Writing),
      Role("tester", Viewer, Writing),
      Role("integrator", Viewer, {"git_branch", "git_commit"}),
      Role("watchdog", {"exec", "result"}, Writing \cup {"git_clone", "workflow_create"}),
      Role("oracle", Viewer, Writing),
      Role("architect", Viewer, Writing),
      Role("facilitator", Viewer, Writing)>>

ASSUME AdminAssumption ==
    /\ RockyBase \in Images
    /\ \A c \in Callers : Asked[c].image \in Images
    /\ Defaults \in Seq({DEFAULT_ROLES[j] : j \in DOMAIN DEFAULT_ROLES})

VARIABLES
    plan,       \* what is left of this scenario
    req,        \* each request at the gateway: where it stands, the row it is
                \* about, how many default roles it has passed
    tenants,    \* the rows of tenants; the index is the id
    quotas,     \* rows of quotas: the limit of each tenant that has one
    roles,      \* the rows of agent_roles; the index is the id
    entries,    \* audit entries
    script,     \* the build script that each request has started
    built,      \* the newest build of each image in the local store
    tagged,     \* and under its name with the registry in front
    registry,   \* the build each tag of the registry points to
    node        \* and the one containerd has

gatewayVars == <<req, tenants, quotas, roles, entries>>
imageVars == <<script, built, tagged, registry, node>>

None == 0
NoRow == 0
Idle == [at |-> "none", row |-> NoRow, seen |-> 0]

AdminInit ==
    /\ plan \in Plans
    /\ req = [c \in Callers |-> Idle]
    /\ tenants = <<>>
    /\ quotas = <<>>
    /\ roles = <<>>
    /\ entries = <<>>
    /\ script = [c \in Callers |-> "none"]
    /\ built = [i \in Images |-> None]
    /\ tagged = [i \in Images |-> None]
    /\ registry = [i \in Images |-> None]
    /\ node = [i \in Images |-> None]

\* Where a request of tenants or roles is between two statements.
Between == {"quota", "audit", "delete", "seeding"}
Running == {c \in Callers : req[c].at \in Between}

Takes(c, op) == /\ req[c].at = "here" /\ Asked[c].op = op
                /\ Cardinality(Running) < plan.threads
On(c, op, at) == req[c].at = at /\ Asked[c].op = op

Goto(c, at) == req' = [req EXCEPT ![c].at = at]
WithRow(c, at, row) == req' = [req EXCEPT ![c] = [@ EXCEPT !.at = at, !.row = row]]

\* A statement that fails is answered 500.
Fails(c) == plan.faults /\ Goto(c, "500")

RoleOf(tenant, name) ==
    {i \in DOMAIN roles : roles[i].live /\ roles[i].tenant = tenant /\ roles[i].name = name}

Row(tenant, role) ==
    [tenant |-> tenant, name |-> role.name, allowed |-> role.allowed,
     denied |-> role.denied, live |-> TRUE]

-----------------------------------------------------------------------------
(* Broken variants of the definitions below.                                *)

\* create_tenant that only logs a quota it could not set.
SetQuotaLogged(c) ==
    /\ On(c, "tenant", "quota")
    /\ Goto(c, "200")
    /\ \/ quotas' = Append(quotas, [tenant |-> req[c].row, limit |-> Asked[c].limit])
       \/ plan.faults /\ quotas' = quotas
    /\ UNCHANGED <<plan, tenants, roles, entries, imageVars>>

\* seed_roles that takes any failed INSERT for a role that is there.
SeedOneSkips(c) ==
    LET tenant == Asked[c].tenant
        role == Defaults[req[c].seen + 1]
    IN  /\ On(c, "seed", "seeding") /\ req[c].seen < Len(Defaults)
        /\ req' = [req EXCEPT ![c].seen = @ + 1]
        /\ \/ roles' = IF RoleOf(tenant, role.name) # {} THEN roles
                       ELSE Append(roles, Row(tenant, role))
           \/ plan.faults /\ roles' = roles
        /\ UNCHANGED <<plan, tenants, quotas, entries, imageVars>>

-----------------------------------------------------------------------------
(* Tenants.                                                                 *)

\* registry::create; without max_concurrent_machines that is all, and the
\* tenant has no row of quotas.
CreateTenant(c) ==
    /\ Takes(c, "tenant")
    /\ \/ /\ tenants' = Append(tenants, Asked[c].name)
          /\ WithRow(c, IF Asked[c].limit = None THEN "200" ELSE "quota", Len(tenants) + 1)
       \/ Fails(c) /\ tenants' = tenants
    /\ UNCHANGED <<plan, quotas, roles, entries, imageVars>>

\* quotas::set; the tenant stays when it fails.
SetQuota(c) ==
    /\ On(c, "tenant", "quota")
    /\ \/ /\ quotas' = Append(quotas, [tenant |-> req[c].row, limit |-> Asked[c].limit])
          /\ Goto(c, "200")
       \/ Fails(c) /\ quotas' = quotas
    /\ UNCHANGED <<plan, tenants, roles, entries, imageVars>>

\* get_tenant: any error of the query is a 404.
GetTenant(c) ==
    /\ Takes(c, "tenant_get")
    /\ \/ Goto(c, IF Asked[c].tenant \in DOMAIN tenants THEN "200" ELSE "404")
       \/ plan.faults /\ Goto(c, "404")
    /\ UNCHANGED <<plan, tenants, quotas, roles, entries, imageVars>>

-----------------------------------------------------------------------------
(* Roles.                                                                   *)

\* create_role: UNIQUE(tenant_id, name) is a 409; the tenant need not exist.
CreateRole(c) ==
    LET q == Asked[c]
    IN  /\ Takes(c, "role")
        /\ \/ /\ RoleOf(q.tenant, q.role.name) # {}
              /\ Goto(c, "409") /\ roles' = roles
           \/ /\ RoleOf(q.tenant, q.role.name) = {}
              /\ roles' = Append(roles, Row(q.tenant, q.role))
              /\ WithRow(c, "audit", Len(roles) + 1)
           \/ Fails(c) /\ roles' = roles
        /\ UNCHANGED <<plan, tenants, quotas, entries, imageVars>>

\* delete_role, SELECT.
FindRole(c) ==
    LET i == Asked[c].id
    IN  /\ Takes(c, "role_delete")
        /\ \/ /\ i \in DOMAIN roles /\ roles[i].live
              /\ WithRow(c, "delete", i)
           \/ ~(i \in DOMAIN roles /\ roles[i].live) /\ Goto(c, "404")
           \/ Fails(c)
        /\ UNCHANGED <<plan, tenants, quotas, roles, entries, imageVars>>

\* delete_role, DELETE: 404 when another call has deleted the row by now.
DropRole(c) ==
    LET i == req[c].row
    IN  /\ On(c, "role_delete", "delete")
        /\ \/ /\ roles[i].live
              /\ roles' = [roles EXCEPT ![i].live = FALSE]
              /\ Goto(c, "audit")
           \/ ~roles[i].live /\ roles' = roles /\ Goto(c, "404")
           \/ Fails(c) /\ roles' = roles
        /\ UNCHANGED <<plan, tenants, quotas, entries, imageVars>>

\* seed_roles; the loop runs over DEFAULT_ROLES.
Seed(c) ==
    /\ Takes(c, "seed")
    /\ Goto(c, "seeding")
    /\ UNCHANGED <<plan, tenants, quotas, roles, entries, imageVars>>

\* One INSERT of the loop: a role that is there is skipped, any other error
\* ends the call, with the roles it has inserted and without an entry.
SeedOne(c) ==
    LET tenant == Asked[c].tenant
        role == Defaults[req[c].seen + 1]
    IN  /\ On(c, "seed", "seeding") /\ req[c].seen < Len(Defaults)
        /\ \/ /\ req' = [req EXCEPT ![c].seen = @ + 1]
              /\ roles' = IF RoleOf(tenant, role.name) # {} THEN roles
                          ELSE Append(roles, Row(tenant, role))
           \/ Fails(c) /\ roles' = roles
        /\ UNCHANGED <<plan, tenants, quotas, entries, imageVars>>

SeedEnds(c) ==
    /\ On(c, "seed", "seeding") /\ req[c].seen = Len(Defaults)
    /\ Goto(c, "audit")
    /\ UNCHANGED <<plan, tenants, quotas, roles, entries, imageVars>>

TenantOf(c) == IF Asked[c].op = "role_delete" THEN roles[req[c].row].tenant ELSE Asked[c].tenant

\* The audit entry of create_role, delete_role and seed_roles, and the answer.
\* The entry needs a row of tenants; without it, it is only logged as failed.
RecordRole(c) ==
    /\ req[c].at = "audit"
    /\ Goto(c, "200")
    /\ \/ TenantOf(c) \in DOMAIN tenants /\ entries' = Append(entries, c)
       \/ (plan.faults \/ TenantOf(c) \notin DOMAIN tenants) /\ entries' = entries
    /\ UNCHANGED <<plan, tenants, quotas, roles, imageVars>>

\* list_roles, get_role; get_constitution needs no database.
ReadRoles(c) ==
    LET i == Asked[c].id
    IN  /\ \/ Takes(c, "roles") /\ (Goto(c, "200") \/ Fails(c))
           \/ /\ Takes(c, "role_get")
              /\ \/ Goto(c, IF i \in DOMAIN roles /\ roles[i].live THEN "200" ELSE "404")
                 \/ Fails(c)
           \/ Takes(c, "constitution") /\ Goto(c, "200")
        /\ UNCHANGED <<plan, tenants, quotas, roles, entries, imageVars>>

\* check_tool_allowed for a machine whose newest task names this role, when its
\* statements succeed: a role that is not there allows everything.
check_tool_allowed(tenant, name, tool) ==
    \A i \in RoleOf(tenant, name) :
        /\ tool \notin roles[i].denied
        /\ roles[i].allowed = {} \/ tool \in roles[i].allowed

-----------------------------------------------------------------------------
(* Images.                                                                  *)

Tells(c, at) == Goto(c, at) /\ UNCHANGED <<plan, tenants, quotas, roles, entries>>

\* build_from_spec: the script is the one of rocky-base, whatever the name.
Build(c) ==
    /\ On(c, "build", "here")
    /\ \/ /\ Asked[c].image \in plan.specs
          /\ Tells(c, "waits")
          /\ script' = [script EXCEPT ![c] = "builds"]
       \/ /\ Asked[c].image \notin plan.specs \/ plan.faults
          /\ Tells(c, "500")
          /\ script' = script
    /\ UNCHANGED <<built, tagged, registry, node>>

\* scripts/build_rocky_base.py builds, tags and pushes, whether or not the
\* request still waits for it.
ScriptBuilds(c) ==
    /\ script[c] = "builds"
    /\ \/ /\ built' = [built EXCEPT ![RockyBase] = @ + 1]
          /\ tagged' = [tagged EXCEPT ![RockyBase] = built[RockyBase] + 1]
          /\ script' = [script EXCEPT ![c] = "pushes"]
       \/ /\ plan.faults
          /\ built' \in {built, [built EXCEPT ![RockyBase] = @ + 1]}
          /\ script' = [script EXCEPT ![c] = "failed"]
          /\ tagged' = tagged
    /\ UNCHANGED <<plan, gatewayVars, registry, node>>

ScriptPushes(c) ==
    /\ script[c] = "pushes"
    /\ \/ /\ registry' = [registry EXCEPT ![RockyBase] = tagged[RockyBase]]
          /\ script' = [script EXCEPT ![c] = "ended"]
       \/ plan.faults /\ script' = [script EXCEPT ![c] = "failed"] /\ registry' = registry
    /\ UNCHANGED <<plan, gatewayVars, built, tagged, node>>

\* build_from_spec goes on with the exit code.
BuildEnds(c) ==
    /\ On(c, "build", "waits") /\ script[c] \in {"ended", "failed"}
    /\ Tells(c, IF script[c] = "ended" THEN "200" ELSE "500")
    /\ UNCHANGED imageVars

\* push: buildah tag.
Tag(c) ==
    LET i == Asked[c].image
    IN  /\ On(c, "push", "here")
        /\ \/ /\ built[i] # None
              /\ tagged' = [tagged EXCEPT ![i] = built[i]]
              /\ Tells(c, "tagged")
           \/ (built[i] = None \/ plan.faults) /\ Tells(c, "500") /\ tagged' = tagged
        /\ UNCHANGED <<script, built, registry, node>>

\* push: buildah push of whatever the name stands for by now.
PushTagged(c) ==
    LET i == Asked[c].image
    IN  /\ On(c, "push", "tagged")
        /\ \/ registry' = [registry EXCEPT ![i] = tagged[i]] /\ Tells(c, "pushed")
           \/ plan.faults /\ Tells(c, "500") /\ registry' = registry
        /\ UNCHANGED <<script, built, tagged, node>>

\* push: get_manifest_digest asks the registry.
Digest(c) ==
    /\ On(c, "push", "pushed")
    /\ Tells(c, "200") \/ (plan.faults /\ Tells(c, "500"))
    /\ UNCHANGED imageVars

\* pull: crictl pull; what crictl images prints does not matter, but it may fail
\* after the pull.
Pull(c) ==
    LET i == Asked[c].image
    IN  /\ On(c, "pull", "here")
        /\ \/ /\ registry[i] # None
              /\ node' = [node EXCEPT ![i] = registry[i]]
              /\ Tells(c, "200")
           \/ /\ registry[i] = None \/ plan.faults
              /\ node' \in {node} \cup (IF registry[i] = None THEN {}
                                        ELSE {[node EXCEPT ![i] = registry[i]]})
              /\ Tells(c, "500")
        /\ UNCHANGED <<script, built, tagged, registry>>

\* GET /v2/_catalog.
ListImages(c) ==
    /\ On(c, "images", "here")
    /\ Tells(c, "200") \/ (plan.faults /\ Tells(c, "502"))

\* GET tags/list, which the registry refuses for a repository it does not have.
ListTags(c) ==
    /\ On(c, "tags", "here")
    /\ \/ registry[Asked[c].image] # None /\ Tells(c, "200")
       \/ (registry[Asked[c].image] = None \/ plan.faults) /\ Tells(c, "502")

\* exists takes any error of the registry for an absence.
Exists(c) == On(c, "exists", "here") /\ Tells(c, "200")

Browse(c) == (ListImages(c) \/ ListTags(c) \/ Exists(c)) /\ UNCHANGED imageVars

AdminStep ==
    \E c \in Callers :
        \/ CreateTenant(c) \/ SetQuota(c) \/ GetTenant(c)
        \/ CreateRole(c) \/ FindRole(c) \/ DropRole(c) \/ Seed(c) \/ SeedOne(c) \/ SeedEnds(c)
        \/ RecordRole(c) \/ ReadRoles(c)
        \/ Build(c) \/ ScriptBuilds(c) \/ ScriptPushes(c) \/ BuildEnds(c)
        \/ Tag(c) \/ PushTagged(c) \/ Digest(c) \/ Pull(c) \/ Browse(c)
=============================================================================
