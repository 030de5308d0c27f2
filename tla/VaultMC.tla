-------------------------------- MODULE VaultMC -------------------------------
(* Vault for TLC: each scenario exercises one part of the gateway.            *)
EXTENDS Vault, TLC

Attest(c, k, n, fmt, flaws) ==
    [ceremony |-> c, key |-> k, count |-> n, fmt |-> fmt, alg |-> "ES256", flaws |-> flaws]
Enrolments ==
    [f1 |-> Attest("c1", "k1", 1, "none", {"statement"}), f2 |-> Attest("c1", "k2", 0, "packed", {}),
     f3 |-> Attest("c2", "k1", 0, "packed", {}), f4 |-> Attest("c2", "k1", 0, "tpm", {}),
     f5 |-> Attest("c1", "k3", 0, "none", {"hint"}), 
     f6 |-> [Attest("c2", "k2", 0, "none", {}) EXCEPT !.alg = "RS256"]]
Finishing == DOMAIN Enrolments

Sign(k, n, flaws) == [key |-> k, count |-> n, flaws |-> flaws]
Signed ==
    [a1 |-> Sign("k1", 2, {}), a2 |-> Sign("k1", 2, {}), a3 |-> Sign("k1", 0, {}),
     a4 |-> Sign("k1", 3, {"signature"}), a5 |-> Sign("k1", 1, {}),
     a6 |-> Sign("k1", 3, {"uv"})]
Signing == DOMAIN Signed

Call(op, tenant, name, value, machine) ==
    [op |-> op, tenant |-> tenant, name |-> name, value |-> value, machine |-> machine,
     env |-> name = "pat"]
Calls ==
    [n1 |-> Call("create", "t1", "pat", 1, "m1"), n2 |-> Call("create", "t1", "pat", 2, "m1"),
     g1 |-> Call("get", "t1", "pat", 0, "m1"), g2 |-> Call("get", "t1", "pat", 0, "m1"),
     b1 |-> Call("agent", "t1", "pat", 0, "m1"), b2 |-> Call("agent", "t1", "pat", 0, "m2"),
     r1 |-> Call("rotate", "t1", "pat", 3, "m1"), d1 |-> Call("delete", "t1", "pat", 0, "m1"),
     p1 |-> Call("create", "t1", "github-pat", 4, "m1")]
Asking == DOMAIN Calls

Send(kind, machine, token) == [kind |-> kind, machine |-> machine, token |-> token]
Lines ==
    [x1 |-> Send("exec", "m1", "right"), x2 |-> Send("exec", "m2", "right"),
     x3 |-> Send("status", "m1", "right"), x4 |-> Send("exec", "m1", "wrong"),
     i1 |-> Send("clone", "m1", "right"), i2 |-> Send("branch", "m1", "right"),
     i3 |-> Send("commit", "m1", "right"), i4 |-> Send("push", "m1", "right"),
     i5 |-> Send("log", "m1", "right"), i6 |-> Send("clone", "m2", "wrong"),
     h1 |-> Send("pr", "m1", "right"), h2 |-> Send("pr", "m1", "right")]
Sending == DOMAIN Lines
Owners == [m1 |-> "t1", m2 |-> "t2"]
Hosts == DOMAIN Owners

Quiet == [clients |-> {}, threads |-> 1, pool |-> 2, faults |-> FALSE, kills |-> 0,
          inits |-> 0, clients_init |-> 0, ends |-> 0, spawns |-> 0, migrated |-> 6, early |-> FALSE]

\* A gateway finds no database, or one of an earlier gateway.
Upgrades ==
    {[Quiet EXCEPT !.kills = 1, !.migrated = n, !.early = early] : n \in 0 .. 6, early \in BOOLEAN}
Scenarios ==
    Upgrades \cup
    {[Quiet EXCEPT !.kills = 2, !.inits = 1],
     [Quiet EXCEPT !.kills = 2, !.clients_init = 1],
     [Quiet EXCEPT !.clients = {"c1", "c2", "f1", "f2", "f3", "f4", "f5", "f6"}, !.kills = 1],
     [Quiet EXCEPT !.clients = {"c1", "f1", "f2", "f5"}, !.threads = 2, !.faults = TRUE],
     [Quiet EXCEPT !.clients = {"c1", "c2", "f1", "f3", "a1", "a2", "a3", "a5", "a6"}],
     [Quiet EXCEPT !.clients = {"c1", "f1", "a1", "a2", "a4"}, !.threads = 2, !.faults = TRUE],
     [Quiet EXCEPT !.clients = {"n1", "n2", "g1", "b1", "b2", "r1", "d1"}, !.threads = 2,
                   !.pool = 3],
     [Quiet EXCEPT !.clients = {"n1", "g1", "g2", "b1"}, !.threads = 2],
     [Quiet EXCEPT !.clients = {"n1", "g1", "b1", "r1"}, !.kills = 1, !.inits = 1],
     [Quiet EXCEPT !.clients = {"n1", "p1", "r1", "d1"}, !.kills = 1, !.spawns = 1],
     [Quiet EXCEPT !.clients = {"n1", "g1", "d1"}, !.faults = TRUE, !.spawns = 1],
     [Quiet EXCEPT !.clients = {"x1", "x2", "x3"}, !.threads = 2, !.pool = 3],
     [Quiet EXCEPT !.clients = {"x1", "x4", "b1", "n1"}, !.ends = 1],
     [Quiet EXCEPT !.clients = {"i1", "i2", "i3"}, !.threads = 2, !.pool = 3],
     [Quiet EXCEPT !.clients = {"i3", "i4", "i6"}, !.faults = TRUE, !.ends = 1],
     [Quiet EXCEPT !.clients = {"p1", "i1", "i5"}, !.kills = 1, !.inits = 1],
     [Quiet EXCEPT !.clients = {"p1", "h1", "h2", "x1"}, !.threads = 2, !.pool = 3],
     [Quiet EXCEPT !.clients = {"p1", "h1", "h2", "n1", "b1"}, !.faults = TRUE],
     [Quiet EXCEPT !.clients = {"p1", "h1", "x3"}, !.kills = 1, !.inits = 1]}
=============================================================================
