------------------------------- MODULE KeyStore -------------------------------
(***************************************************************************)
(* The key files of the gateway (crypto/hybrid_sig.rs, crypto/              *)
(* hybrid_kem.rs, crypto/tls.rs) over starts, `stronghold-gateway init` and  *)
(* kills of the process (main.rs), and `stronghold init` of the client.      *)
(* Either command of the gateway opens the database first (Schema).         *)
(*                                                                         *)
(* A set of keys is saved file after file; a secret key is renamed into     *)
(* place, any other file is truncated and then filled.  A start looks only  *)
(* at the first file of a set to choose between loading and generating.     *)
(* The content of a file is the number of the generation that wrote it.     *)
(***************************************************************************)
EXTENDS Schema

CONSTANTS
    Plans   \* scenarios: records that bound what their actors do

\* Who calls, the worker threads and database connections there are, whether statements
\* may fail, how often each event happens, and which gateway made the database.
IsScenario(p) ==
    p \in [clients : {p.clients}, threads : Nat, pool : Nat, faults : BOOLEAN,
           kills : Nat, inits : Nat, clients_init : Nat, ends : Nat, spawns : Nat,
           migrated : 0 .. 6, early : BOOLEAN]

ASSUME PlansAssumption == \A p \in Plans : IsScenario(p)

VARIABLES
    plan,       \* what is left of this scenario
    disk,       \* the content of each file
    process,    \* its stage, the files it has to write, whether one is half
                \* written, with what, and whether these are keys it generated
    keys,       \* the keys in memory, by file
    gens,       \* generations so far
    first,      \* the keys of the first gateway that served
    rekeyed,    \* init has run over keys that were there
    busy        \* calls inside a stretch of code without an await

store == <<disk, schemaVars>>
keyVars == <<store, process, keys, gens, first, rekeyed>>

Absent == 0
Torn == -1

Hybrid == {"audit", "push"}
Stages == Hybrid \cup {"tls"}
Parts(s) == IF s = "tls" THEN <<"crt", "key">> ELSE <<"key", "pub", "pqkey", "pqpub">>
Files(s) == [i \in DOMAIN Parts(s) |-> <<s, Parts(s)[i]>>]
AllFiles == UNION {{Files(s)[i] : i \in DOMAIN Files(s)} : s \in Stages}
NoKeys == [f \in AllFiles |-> Absent]

\* write_secret_file renames a finished file; tls.key, and every file of the
\* client, is written in place.
Atomic(f) == f[1] \in Hybrid /\ f[2] \in {"key", "pqkey"} /\ process.at # "client"

Spend(what) == plan[what] > 0 /\ plan' = [plan EXCEPT ![what] = @ - 1]
Serving == process.at = "up"
Idle(at) == [at |-> at, todo |-> <<>>, half |-> FALSE, gen |-> Absent, new |-> FALSE]

KeyInit ==
    /\ plan \in Plans
    /\ SchemaInit(plan.migrated, plan.early)
    /\ disk = NoKeys
    /\ process = Idle("down")
    /\ keys = NoKeys
    /\ gens = 0
    /\ first = NoKeys
    /\ rekeyed = FALSE
    /\ busy = {}

-----------------------------------------------------------------------------
(* Broken variants of the definitions below.                                *)

\* serve generates the audit keys (generate_keys) at every start.
StartGenerates ==
    /\ process.at = "down"
    /\ gens' = gens + 1
    /\ process' = [Idle("audit") EXCEPT !.todo = Files("audit"), !.gen = gens + 1,
                                        !.new = TRUE]
    /\ UNCHANGED <<plan, store, keys, first, rekeyed, busy>>

\* PushKeys::save leaves out its last file.
SavedButLast(s) == IF s = "push" THEN SubSeq(Files(s), 1, 3) ELSE Files(s)

-----------------------------------------------------------------------------
(* Writing files.                                                           *)

\* Whether load_or_generate_keys, or serve, takes the keys to be there.
Present(s) == disk[Head(Files(s))] # Absent

\* What save writes, in its order.
Saved(s) == Files(s)

WriteAtomically ==
    /\ process.todo # <<>> /\ Atomic(Head(process.todo))
    /\ disk' = [disk EXCEPT ![Head(process.todo)] = process.gen]
    /\ process' = [process EXCEPT !.todo = Tail(@)]
    /\ UNCHANGED <<plan, schemaVars, keys, gens, first, rekeyed, busy>>

WriteInPlace ==
    /\ process.todo # <<>> /\ ~Atomic(Head(process.todo))
    /\ disk' = [disk EXCEPT ![Head(process.todo)] =
                    IF process.half THEN process.gen ELSE Torn]
    /\ process' = [process EXCEPT !.half = ~@,
                                  !.todo = IF process.half THEN Tail(@) ELSE @]
    /\ UNCHANGED <<plan, schemaVars, keys, gens, first, rekeyed, busy>>

-----------------------------------------------------------------------------
(* serve.                                                                   *)

Start ==
    /\ process.at = "down"
    /\ process' = Idle("database")
    /\ UNCHANGED <<plan, store, keys, gens, first, rekeyed, busy>>

\* init_pool: the migrations, then the first set of keys.
init_pool ==
    /\ process.at \in {"database", "init database"}
    /\ Migrate
    /\ UNCHANGED <<plan, disk, process, keys, gens, first, rekeyed, busy>>

Opened ==
    /\ process.at = "database" /\ Migrated
    /\ process' = Idle("audit")
    /\ UNCHANGED <<plan, store, keys, gens, first, rekeyed, busy>>

At(s) == process.at = s /\ process.todo = <<>>

\* load_or_generate_keys, or serve, without the first file.
Generate(s) ==
    /\ At(s) /\ ~process.new /\ ~Present(s)
    /\ gens' = gens + 1
    /\ process' = [process EXCEPT !.todo = Saved(s), !.gen = gens + 1, !.new = s \in Hybrid]
    /\ UNCHANGED <<plan, store, keys, first, rekeyed, busy>>

\* load writes a missing public key that it can derive.
Derive(s) ==
    /\ At(s) /\ ~process.new /\ Present(s) /\ s \in Hybrid
    /\ disk[<<s, "pub">>] = Absent /\ disk[<<s, "key">>] # Torn
    /\ process' = [process EXCEPT !.todo = <<<<s, "pub">>>>, !.gen = disk[<<s, "key">>]]
    /\ UNCHANGED <<plan, store, keys, gens, first, rekeyed, busy>>

\* load insists on the pair it can compare; the ML-DSA files of the audit keys
\* may be missing, and nothing looks into them.
Loadable(s) ==
    CASE s = "audit" -> disk[<<s, "key">>] # Torn /\ disk[<<s, "key">>] = disk[<<s, "pub">>]
      [] s = "push"  -> /\ disk[<<s, "key">>] = disk[<<s, "pub">>]
                        /\ disk[<<s, "pqkey">>] # Absent
                        /\ disk[<<s, "pqpub">>] \notin {Absent, Torn}
      [] s = "tls"   -> \A f \in {<<s, "crt">>, <<s, "key">>} : disk[f] \notin {Absent, Torn}

Readable(s) == /\ At(s) /\ ~process.new /\ Present(s)
               /\ s \in Hybrid => disk[<<s, "pub">>] # Absent \/ disk[<<s, "key">>] = Torn

Following == [audit |-> "push", push |-> "tls", tls |-> "up"]

\* The keys of a set are as loaded or, saved just before, as generated; with
\* the last set the gateway serves.
Take(s, content) ==
    /\ process' = Idle(Following[s])
    /\ keys' = [f \in AllFiles |-> IF f[1] = s THEN content[f] ELSE keys[f]]
    /\ first' = IF s = "tls" /\ first = NoKeys THEN keys' ELSE first
    /\ UNCHANGED <<plan, store, gens, rekeyed, busy>>

Load(s) == Readable(s) /\ Loadable(s) /\ Take(s, disk)

Generated(s) == At(s) /\ process.new /\ Take(s, [f \in AllFiles |-> process.gen])

\* load returns an error, serve returns it, the process ends.
LoadFails(s) ==
    /\ Readable(s) /\ ~Loadable(s)
    /\ process' = Idle("down")
    /\ keys' = NoKeys
    /\ UNCHANGED <<plan, store, gens, first, rekeyed, busy>>

-----------------------------------------------------------------------------
(* init of the gateway and of the client, and a kill.                       *)

InitCommand ==
    /\ process.at = "down"
    /\ Spend("inits")
    /\ process' = Idle("init database")
    /\ UNCHANGED <<store, keys, gens, first, rekeyed, busy>>

\* init generates both sets whether or not there are keys.
InitGenerates ==
    /\ process.at = "init database" /\ Migrated
    /\ gens' = gens + 1
    /\ process' = [Idle("init") EXCEPT !.todo = Saved("audit") \o Saved("push"),
                                       !.gen = gens + 1]
    /\ rekeyed' = (rekeyed \/ Present("audit") \/ Present("push"))
    /\ UNCHANGED <<plan, store, keys, first, busy>>

\* generate_audit_ed25519_keys of the client, unless the secret key is there:
\* the ML-DSA files are left to a gateway that takes them to be there.
ClientInit ==
    /\ process.at = "down" /\ ~Present("audit")
    /\ Spend("clients_init")
    /\ gens' = gens + 1
    /\ process' = [Idle("client") EXCEPT !.todo = <<<<"audit", "key">>, <<"audit", "pub">>>>,
                                         !.gen = gens + 1]
    /\ UNCHANGED <<store, keys, first, rekeyed, busy>>

InitEnds ==
    /\ At("init") \/ At("client")
    /\ process' = Idle("down")
    /\ UNCHANGED <<plan, store, keys, gens, first, rekeyed, busy>>

Kill ==
    /\ process.at # "down"
    /\ Spend("kills")
    /\ process' = Idle("down")
    /\ keys' = NoKeys
    /\ busy' = {}
    /\ Rollback
    /\ UNCHANGED <<disk, gens, first, rekeyed>>

StartStep ==
    \/ Start \/ init_pool \/ Opened \/ InitGenerates \/ WriteAtomically \/ WriteInPlace \/ InitEnds
    \/ \E s \in Stages : Generate(s) \/ Generated(s) \/ Derive(s) \/ Load(s) \/ LoadFails(s)

-----------------------------------------------------------------------------
(* Properties.                                                              *)

\* Whatever the points at which it is killed, a gateway serves with the keys,
\* all ten files, that the first one served with, unless init has run over
\* them: the audit chain and the stored credentials depend on it.
SameKeys == Serving /\ ~rekeyed => keys = first

\* A gateway that serves finds every table and column it uses, whatever gateway made the
\* database and wherever its migrations were cut short; the init command leaves no less.
SchemaIsWhole ==
    Serving \/ process.at = "init" =>
        database.has = WholeSchema /\ database.applied = Migrations

\* What a gateway must find to serve.
ServesWhole == SameKeys /\ SchemaIsWhole

\* Once it has served it can always serve again: a kill at any point leaves files that
\* the next start can load; and a database of any earlier gateway is brought up to date,
\* wherever a kill interrupted it.
StartsAgain ==
    /\ (first # NoKeys /\ ~rekeyed) ~> (Serving \/ rekeyed)
    /\ (database.applied # {}) ~> (database.has = WholeSchema)
=============================================================================
