------------------------------ MODULE OperatorMC ------------------------------
(* Operator for TLC: each scenario is a set of commands given at once.        *)
EXTENDS Operator, TLC

Roles == <<DEFAULT_ROLES[1], DEFAULT_ROLES[2], DEFAULT_ROLES[6]>>
Custom == [name |-> "planner", allowed |-> {}, denied |-> {}]

Ask(op) == [op |-> op, flag |-> "gw", config |-> "missing", name |-> "n", limit |-> 0,
            tenant |-> 1, id |-> 1, role |-> Custom, image |-> "base"]

Commands ==
    [t1 |-> [Ask("tenant") EXCEPT !.limit = 2], t2 |-> [Ask("tenant") EXCEPT !.limit = 3],
     t3 |-> Ask("tenant"), g1 |-> Ask("tenant_get"), l1 |-> Ask("tenant_list"),
     s1 |-> Ask("seed"), s2 |-> Ask("seed"), r1 |-> Ask("role"),
     d1 |-> Ask("role_delete"), d2 |-> Ask("role_delete"), q1 |-> Ask("roles"),
     q2 |-> Ask("role_get"), q3 |-> Ask("constitution"),
     b1 |-> Ask("build"), b2 |-> [Ask("build") EXCEPT !.image = "other"],
     p1 |-> Ask("push"), p2 |-> [Ask("push") EXCEPT !.image = "other"],
     f1 |-> Ask("pull"), x1 |-> Ask("exists"), x2 |-> Ask("tags"), x3 |-> Ask("images"),
     a1 |-> Ask("audit_verify"), a2 |-> [Ask("audit_export") EXCEPT !.flag = ""],
     a3 |-> [Ask("audit_verify") EXCEPT !.flag = "", !.config = "bad"],
     m1 |-> Ask("token_mint"), w1 |-> [Ask("worker_add") EXCEPT !.flag = "", !.config = "gw"],
     k1 |-> Ask("rotate_audit"), c1 |-> [Ask("completions") EXCEPT !.config = "bad"],
     e1 |-> Ask("enroll"), e2 |-> [Ask("enroll") EXCEPT !.flag = ""]]
Callees == DOMAIN Commands

Plain == [clients |-> {}, threads |-> 1, faults |-> FALSE, kills |-> 0, specs |-> {"base"}]
Scenarios ==
    {Plain,
     [Plain EXCEPT !.clients = {"t1", "t2", "g1"}, !.threads = 2, !.faults = TRUE, !.kills = 1],
     [Plain EXCEPT !.clients = {"t3", "s1", "s2"}, !.threads = 2],
     [Plain EXCEPT !.clients = {"s1", "s2", "q1"}, !.threads = 2, !.faults = TRUE],
     [Plain EXCEPT !.clients = {"s1", "r1", "d1"}, !.threads = 2, !.faults = TRUE],
     [Plain EXCEPT !.clients = {"t3", "r1", "d1", "d2"}, !.threads = 2, !.kills = 1],
     [Plain EXCEPT !.clients = {"q2", "q3", "l1", "r1"}],
     [Plain EXCEPT !.clients = {"b1", "p1", "f1"}, !.faults = TRUE],
     [Plain EXCEPT !.clients = {"b1", "p1", "f1", "x2"}, !.kills = 1],
     [Plain EXCEPT !.clients = {"b1", "b2", "p2", "x1"}, !.specs = {"base", "other"}],
     [Plain EXCEPT !.clients = {"x1", "x2", "x3"}, !.faults = TRUE],
     [Plain EXCEPT !.clients = {"a1", "a2", "a3"}, !.faults = TRUE, !.kills = 1],
     [Plain EXCEPT !.clients = {"m1", "w1", "k1", "c1"}],
     [Plain EXCEPT !.clients = {"e1", "e2"}, !.kills = 1]}

Toml(name, extends, toolchains, env) ==
    [name |-> name, extends |-> extends, toolchains |-> toolchains, env |-> env,
     pre |-> FALSE, dnf |-> TRUE, post |-> TRUE, snippets |-> FALSE]
Version == {"version"}
Tomls ==
    {Toml("rocky-base", "", <<>>, [PATH |-> <<"/home/dev/.cargo/bin", "/usr/bin">>]),
     Toml("devbox", "rocky-base", [rust |-> {"channel", "date", "components"}, elan |-> {"channel"}],
          [LEAN |-> <<>>, HOME |-> <<>>]),
     Toml("all", "stronghold/X", [rust |-> {"channel", "targets"}, node |-> Version,
          python |-> Version, go |-> Version, elan |-> {"channel"}], [LEAN |-> <<>>]),
     Toml("gpu", "rocky-base", [python |-> Version], [PATH |-> <<"cuda", "{path}">>]),
     Toml("bad", "debian", [go |-> Version], <<>>),
     Toml("worse", "rocky-base", [zig |-> Version], <<>>)}
=============================================================================
