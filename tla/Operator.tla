-------------------------------- MODULE Operator -------------------------------
(***************************************************************************)
(* The command-line client (src/cli/src/main.rs) and the administration of  *)
(* the gateway (Admin) that it calls over a network, and whoever calls the  *)
(* routes of the roles, for which the client has no command.                *)
(*                                                                         *)
(* A command resolves its settings, sends one request, waits at most 120    *)
(* seconds and prints; audit commands fall back to the database file.       *)
(***************************************************************************)
EXTENDS Admin, ImageSpec

VARIABLES
    cli,    \* each command: "new", "sent", "local", then "ok" or "failed"
    up      \* whether the gateway serves

vars == <<plan, gatewayVars, imageVars, cli, up, containerfile>>

Request(method, path) == <<method, path>>

\* handle_tenant and the five handlers like it: the request of each command.
TenantRequests ==
    [tenant      |-> Request("POST", "/admin/tenant"),
     tenant_list |-> Request("GET", "/admin/tenant"),
     tenant_get  |-> Request("GET", "/admin/tenant/:id")]

CredentialRequests ==
    [credential_list   |-> Request("GET", "/admin/tenant/:id/credentials"),
     credential_revoke |-> Request("DELETE", "/admin/credential/:id")]

TokenRequests ==
    [token_mint   |-> Request("POST", "/admin/agent-token"),
     token_list   |-> Request("GET", "/admin/tenant/:id/agent-token"),
     token_revoke |-> Request("POST", "/admin/agent-token/revoke")]

ImageRequests ==
    [build  |-> Request("POST", "/admin/images/build"),
     images |-> Request("GET", "/admin/images"),
     push   |-> Request("POST", "/admin/images/push"),
     pull   |-> Request("POST", "/admin/images/pull"),
     tags   |-> Request("GET", "/admin/images/:name/tags"),
     exists |-> Request("GET", "/admin/images/:name/exists")]

WorkerRequests ==
    [worker_add  |-> Request("POST", "/admin/worker"),
     worker_list |-> Request("GET", "/admin/worker")]

KeyRequests ==
    [rotate_audit |-> Request("POST", "/admin/keys/rotate-audit"),
     rotate_push  |-> Request("POST", "/admin/keys/rotate-push")]

\* try_remote_audit_verify, client_request_for_export.
AuditRequests ==
    [audit_verify |-> Request("GET", "/admin/audit/:tenant/verify"),
     audit_export |-> Request("GET", "/admin/audit/:tenant/export")]

\* The routes of roles, called without the client.
RoleRequests ==
    [role         |-> Request("POST", "/admin/roles"),
     roles        |-> Request("GET", "/admin/roles"),
     role_get     |-> Request("GET", "/admin/roles/:id"),
     role_delete  |-> Request("DELETE", "/admin/roles/:id"),
     seed         |-> Request("POST", "/admin/roles/seed"),
     constitution |-> Request("GET", "/admin/constitution")]

Merge(f, g) == [x \in DOMAIN f \cup DOMAIN g |-> IF x \in DOMAIN f THEN f[x] ELSE g[x]]

\* The commands that send a request.
RequestOf ==
    FoldLeft(Merge, RoleRequests,
             <<TenantRequests, CredentialRequests, TokenRequests, ImageRequests,
               WorkerRequests, KeyRequests, AuditRequests>>)

AuditCommands == DOMAIN AuditRequests

\* build_router, of what is under /admin: nothing for tokens, workers, keys and
\* the audit log.
Routes ==
    {RequestOf[op] : op \in {"tenant", "tenant_get"} \cup DOMAIN ImageRequests
                            \cup DOMAIN RoleRequests}

OperatorInit ==
    /\ cli = [c \in Callers |-> IF c \in plan.clients THEN "new" ELSE "off"]
    /\ up = TRUE
    /\ containerfile = NoFile

Init == AdminInit /\ OperatorInit

Shows(c, at) == cli' = [cli EXCEPT ![c] = at]

-----------------------------------------------------------------------------
(* Settings.                                                                *)

\* Config::load: a missing file is an empty one, a bad one an error.
Loads(c) == Asked[c].config # "bad"

\* Settings::resolve: the flag or the variable before the file.
Url(c) ==
    IF Asked[c].flag # "" THEN Asked[c].flag
    ELSE IF Asked[c].config = "missing" THEN "" ELSE Asked[c].config

\* completions reads no settings.
NeedsSettings(c) == Asked[c].op # "completions"

\* No configuration, or from_settings or enroll without a URL.
Refuse(c) ==
    /\ cli[c] = "new" /\ NeedsSettings(c)
    /\ ~Loads(c) \/ (Url(c) = "" /\ Asked[c].op \notin AuditCommands)
    /\ Shows(c, "failed")
    /\ UNCHANGED <<plan, gatewayVars, imageVars, up>>

\* handle_completions, and enroll, which prints the URL.
PrintOnly(c) ==
    /\ cli[c] = "new"
    /\ \/ Asked[c].op = "completions"
       \/ Asked[c].op = "enroll" /\ Loads(c) /\ Url(c) # ""
    /\ Shows(c, "ok")
    /\ UNCHANGED <<plan, gatewayVars, imageVars, up>>

-----------------------------------------------------------------------------
(* Requests.                                                                *)

\* handle_audit falls back to the database file after any error.
GivesUp(c) == Shows(c, IF Asked[c].op \in AuditCommands THEN "local" ELSE "failed")

Sends(c) == cli[c] = "new" /\ Asked[c].op \in DOMAIN RequestOf /\ Loads(c) /\ Url(c) # ""

\* The request arrives; without a route the answer is 404 or 405.
Send(c) ==
    /\ Sends(c) /\ up
    /\ Shows(c, "sent")
    /\ Goto(c, IF RequestOf[Asked[c].op] \in Routes THEN "here" ELSE "404")
    /\ UNCHANGED <<plan, tenants, quotas, roles, entries, imageVars, up>>

\* format_connect_error.
Unreachable(c) ==
    /\ Sends(c) /\ (~up \/ plan.faults)
    /\ GivesUp(c)
    /\ UNCHANGED <<plan, gatewayVars, imageVars, up>>

Answers == {"200", "400", "404", "409", "500", "502"}

\* GatewayClient::send, send_empty: any status but success is an error.
Receive(c) ==
    /\ cli[c] = "sent" /\ req[c].at \in Answers
    /\ \/ IF req[c].at = "200" THEN Shows(c, "ok") ELSE GivesUp(c)
       \/ plan.faults /\ GivesUp(c)
    /\ UNCHANGED <<plan, gatewayVars, imageVars, up>>

\* The timeout of the client, which a build can take longer than.  A handler
\* that awaits is dropped with the connection, any other goes on.
Hang(c) ==
    /\ cli[c] = "sent" /\ req[c].at \notin Answers
    /\ Asked[c].op = "build" \/ plan.faults
    /\ GivesUp(c)
    /\ IF Asked[c].op \in DOMAIN ImageRequests THEN Goto(c, "dropped") ELSE req' = req
    /\ UNCHANGED <<plan, tenants, quotas, roles, entries, imageVars, up>>

\* Audit commands without a URL go to the file at once.
LocalOnly(c) ==
    /\ cli[c] = "new" /\ Asked[c].op \in AuditCommands /\ Loads(c) /\ Url(c) = ""
    /\ Shows(c, "local")
    /\ UNCHANGED <<plan, gatewayVars, imageVars, up>>

\* local_audit_verify and local_audit_export open the file or do not.
ReadFile(c) ==
    /\ cli[c] = "local"
    /\ Shows(c, "ok") \/ (plan.faults /\ Shows(c, "failed"))
    /\ UNCHANGED <<plan, gatewayVars, imageVars, up>>

-----------------------------------------------------------------------------
(* The gateway ends and starts again.                                       *)

Kill ==
    /\ up /\ plan.kills > 0
    /\ up' = FALSE
    /\ plan' = [plan EXCEPT !.kills = @ - 1]
    /\ cli' = [c \in Callers |-> IF cli[c] # "sent" THEN cli[c]
                                 ELSE IF Asked[c].op \in AuditCommands THEN "local" ELSE "failed"]
    /\ req' = [c \in Callers |-> IF req[c].at \in Answers \cup {"none"} THEN req[c]
                                 ELSE [req[c] EXCEPT !.at = "lost"]]
    /\ UNCHANGED <<tenants, quotas, roles, entries, imageVars>>

Restart ==
    /\ ~up /\ up' = TRUE
    /\ UNCHANGED <<plan, gatewayVars, imageVars, cli>>

Command(c) ==
    \/ Refuse(c) \/ PrintOnly(c) \/ Send(c) \/ Unreachable(c) \/ Receive(c)
    \/ Hang(c) \/ LocalOnly(c) \/ ReadFile(c)

\* The generator is a library function that shares nothing with the rest: a
\* scenario without commands calls it.
Next ==
    \/ AdminStep /\ UNCHANGED <<cli, up, containerfile>>
    \/ (\E c \in Callers : Command(c)) /\ UNCHANGED containerfile
    \/ Kill /\ UNCHANGED containerfile
    \/ Restart /\ UNCHANGED containerfile
    \/ plan.clients = {} /\ Generate /\ UNCHANGED <<plan, gatewayVars, imageVars, cli, up>>

Spec == Init /\ [][Next]_vars

-----------------------------------------------------------------------------
(* Properties.                                                              *)

Told(op) == {c \in Callers : Asked[c].op = op /\ cli[c] = "ok"}

\* A tenant reported as created is there, with the limit that was asked for,
\* if one was (create_tenant, its two statements).
TenantsAreTrue ==
    \A c \in Told("tenant") :
        /\ tenants[req[c].row] = Asked[c].name
        /\ {quotas[i].limit : i \in {j \in DOMAIN quotas : quotas[j].tenant = req[c].row}}
             = {Asked[c].limit} \ {None}

\* A role reported as deleted is gone, and one caller was told so.
DeletionsAreTrue ==
    \A c, d \in Told("role_delete") :
        /\ ~roles[req[c].row].live
        /\ req[c].row = req[d].row => c = d

\* An image reported as pushed, or as pulled, is there.
ImagesAreTrue ==
    /\ \A c \in Told("push") : registry[Asked[c].image] # None
    /\ \A c \in Told("pull") : node[Asked[c].image] # None
    /\ Told("build") # {} => registry[RockyBase] # None

\* Whatever is lost, late, killed or fails on the way, what a command prints
\* as done has been done.
PrintedIsTrue == TenantsAreTrue /\ DeletionsAreTrue /\ ImagesAreTrue

\* After a seed of a tenant that was answered 200, a task with a default role
\* is refused the tools this role denies, though a role that is missing allows
\* everything; unless someone deleted the role, or made one of that name.
SeededRolesHold ==
    \A c \in Callers : Asked[c].op = "seed" /\ req[c].at = "200" =>
        LET tenant == Asked[c].tenant
        IN  \A i \in DOMAIN Defaults : \A tool \in Defaults[i].denied :
                \/ ~check_tool_allowed(tenant, Defaults[i].name, tool)
                \/ \E j \in DOMAIN roles :
                     /\ roles[j].tenant = tenant /\ roles[j].name = Defaults[i].name
                     /\ roles[j] # Row(tenant, Defaults[i])
=============================================================================
