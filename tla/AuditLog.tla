------------------------------ MODULE AuditLog ------------------------------
(***************************************************************************)
(* The audit log: audit/log.rs appends hash-chained, signed entries and     *)
(* rotates the signing keys, audit/verify.rs walks the log.                 *)
(*                                                                         *)
(* audit::log::entry reads the tenant's last hash with one statement and    *)
(* inserts with another, on a connection of its own and outside any         *)
(* transaction.  It never awaits, so it holds its runtime thread between    *)
(* the two: what can come in between is a call on another thread.           *)
(***************************************************************************)
EXTENDS Integers, Sequences, FiniteSets, FiniteSetsExt

CONSTANTS
    Calls,          \* calls of audit::log::entry
    Tenants,
    MaxThreads,     \* bound on the worker threads of the tokio runtime
    MaxRotations,   \* bound on key rotations
    MaxEdits        \* bound on edits of the database behind the gateway's back

ASSUME AuditAssumption ==
    /\ IsFiniteSet(Calls) /\ "altered" \notin Calls
    /\ MaxThreads \in Nat \ {0}
    /\ MaxRotations \in Nat /\ MaxEdits \in Nat

VARIABLES
    log,        \* the rows of audit_entries by seq
    at,         \* where each call stands
    call,       \* what each call holds in its locals
    key,        \* the number of the key pair the gateway signs with
    threads,    \* the worker threads of this runtime, fixed at its start
    edits       \* how the rows were edited: a sequence of "altered", "cut", "tail"

vars == <<log, at, call, key, threads, edits>>

Zero == <<>>
NoCall == [none |-> "none"]

\* SHA-256 over ts|tenant|machine|event|payload|prev_hash: collisions aside, the
\* hash is the chain of what went into it.  A call's ts, machine, event and payload
\* are its own: the call stands for them.
Hash(tenant, body, prev) == Append(prev, <<tenant, body>>)

\* The tenant's row with the highest seq.
RowsOf(t) == {i \in DOMAIN log : log[i].tenant = t}
LastHash(t) == IF RowsOf(t) = {} THEN Zero ELSE log[Max(RowsOf(t))].hash

Init ==
    /\ log = <<>>
    /\ at = [c \in Calls |-> "idle"]
    /\ call = [c \in Calls |-> NoCall]
    /\ key = 0
    /\ threads \in 1 .. MaxThreads
    /\ edits = <<>>

-----------------------------------------------------------------------------
(* Broken variants of the definitions below.                                *)

\* rotate_audit_keys that signs its entry with the new keys.
SignerNewKey(held) == IF held.rotates THEN held.key + 1 ELSE held.key

\* verify that takes the stored hash on trust.
HashBrokenIgnored(i) == FALSE

\* verify that expects the row before it, of whatever tenant.
HashBeforeAnyTenant(i) == IF i = 1 THEN Zero ELSE log[i - 1].hash

-----------------------------------------------------------------------------
(* The writer.                                                              *)

\* entry: the SELECT of the previous hash.  The call rotates the keys when it is
\* the one rotate_audit_keys makes.
ReadPrev(c) ==
    /\ at[c] = "idle"
    /\ Cardinality({d \in Calls : at[d] = "read"}) < threads
    /\ \E t \in Tenants, rotates \in (IF key < MaxRotations THEN BOOLEAN ELSE {FALSE}) :
           call' = [call EXCEPT ![c] =
               [tenant |-> t, rotates |-> rotates, key |-> key, prev |-> LastHash(t)]]
    /\ at' = [at EXCEPT ![c] = "read"]
    /\ UNCHANGED <<log, key, threads, edits>>

\* The keys an entry is signed with: for a rotation, the old ones.
Signer(held) == held.key

\* entry: the INSERT.  The caller of rotate_audit_keys then switches to the keys
\* it returns.
AppendEntry(c) ==
    /\ at[c] = "read"
    /\ LET held == call[c] IN
        /\ log' = Append(log, [tenant |-> held.tenant, body |-> c, prev |-> held.prev,
                               hash |-> Hash(held.tenant, c, held.prev),
                               key |-> Signer(held), rotates |-> held.rotates])
        /\ key' = IF held.rotates THEN held.key + 1 ELSE key
    /\ at' = [at EXCEPT ![c] = "done"]
    /\ UNCHANGED <<call, threads, edits>>

\* A statement of entry fails, or the gateway dies between the two: no row.
LoseEntry(c) ==
    /\ at[c] = "read"
    /\ at' = [at EXCEPT ![c] = "failed"]
    /\ UNCHANGED <<log, call, key, threads, edits>>

\* Someone edits the database file: alters a row's payload or deletes a row.
Without(i) == [j \in 1 .. Len(log) - 1 |-> IF j < i THEN log[j] ELSE log[j + 1]]

EditRow ==
    /\ Len(edits) < MaxEdits
    /\ \E i \in DOMAIN log :
        \/ /\ log' = [log EXCEPT ![i].body = "altered"]
           /\ edits' = Append(edits, "altered")
        \/ /\ log' = Without(i)
           /\ edits' = Append(edits, IF i = Max(RowsOf(log[i].tenant)) THEN "tail" ELSE "cut")
    /\ UNCHANGED <<at, call, key, threads>>

\* Every call has come and gone.
Quiet == (\A c \in Calls : at[c] \in {"done", "failed"}) /\ UNCHANGED vars

Next ==
    \/ \E c \in Calls : ReadPrev(c) \/ AppendEntry(c) \/ LoseEntry(c)
    \/ EditRow
    \/ Quiet

Spec == Init /\ [][Next]_vars

-----------------------------------------------------------------------------
(* The verifier: verify_with_pool, with the tenant's rows in seq order.      *)

\* The hash the verifier carries over from the row before.
HashBefore(i) ==
    LET before == {j \in RowsOf(log[i].tenant) : j < i}
    IN  IF before = {} THEN Zero ELSE log[Max(before)].hash

ChainBroken(i) == log[i].prev # HashBefore(i)
HashBroken(i) == log[i].hash # Hash(log[i].tenant, log[i].body, log[i].prev)
\* AuditKeys::verify: the signatures cover what the hash covers, and were made with the
\* key pairs the verifier holds.  (An empty ML-DSA-65 signature passes; the model's
\* gateway has both seeds and writes none.)
SigBroken(i, k) == log[i].key # k \/ HashBroken(i)

\* What `stronghold audit verify` finds in the file: it has no keys.
LocalErrors(t) == {i \in RowsOf(t) : ChainBroken(i) \/ HashBroken(i)}

Errors(t, k) == {i \in RowsOf(t) : ChainBroken(i) \/ HashBroken(i) \/ SigBroken(i, k)}

\* What `stronghold-gateway verify-audit` finds: when the keys cannot be loaded it
\* warns, and looks at no signature.
NoKeys == -1
TenantErrors(t, k) == IF k = NoKeys THEN LocalErrors(t) ELSE Errors(t, k)

-----------------------------------------------------------------------------
(* Properties.                                                              *)

Entries == [tenant: Tenants, body: Calls \cup {"altered"}, key: 0 .. MaxRotations, rotates: BOOLEAN]

TypeOK ==
    /\ \A i \in DOMAIN log : [tenant |-> log[i].tenant, body |-> log[i].body,
                              key |-> log[i].key, rotates |-> log[i].rotates] \in Entries
    /\ at \in [Calls -> {"idle", "read", "done", "failed"}]
    /\ \A c \in Calls : at[c] # "idle" => call[c].tenant \in Tenants /\ call[c].key \in Nat
    /\ key \in 0 .. MaxRotations
    /\ threads \in 1 .. MaxThreads
    /\ edits \in Seq({"altered", "cut", "tail"})

Untouched == edits = <<>>

\* On a runtime with one thread the chain of every tenant verifies, whatever
\* calls fail in between (audit/log.rs entry, audit/verify.rs check 1).
SingleThreadChain ==
    threads = 1 /\ Untouched => \A i \in DOMAIN log : ~ChainBroken(i) /\ ~HashBroken(i)

\* On any runtime, a row links to the zero hash or to an earlier row of its own
\* tenant: concurrent calls can fork a tenant's chain, never mix two tenants'
\* chains or leave a row without a predecessor (the SELECT in entry).
LinksBackward ==
    Untouched => \A i \in DOMAIN log :
        log[i].prev = Zero \/ \E j \in 1 .. i - 1 :
            log[j].tenant = log[i].tenant /\ log[j].hash = log[i].prev

\* Whatever the edits, and with calls still appending, every verifier finds them, with
\* keys or without, unless a row was cut off the end of a tenant's chain, which leaves
\* no trace (verify_with_pool, checks 1 and 2; verify_tenant; local_audit_verify of the
\* client).  Two threads may fork a chain, and a row of a fork can be cut without a trace.
EditsAreFound ==
    threads = 1 /\ ~Untouched /\ (\A n \in DOMAIN edits : edits[n] # "tail") =>
        \E t \in Tenants : \A found \in {LocalErrors(t), TenantErrors(t, NoKeys), TenantErrors(t, key)} :
            found # {}

\* A new key first signs right after a rotation entry that the old key signed, so
\* the rotation is provable from the log alone (rotate_audit_keys, steps 2 and 3).
RotationAnchored ==
    threads = 1 /\ Untouched => \A i \in DOMAIN log : i > 1 /\ log[i].key # log[i - 1].key =>
        log[i - 1].rotates /\ log[i].key = log[i - 1].key + 1

\* An untouched log, never rotated, verifies (verify.rs: "Hash chain is unbroken").
LogVerifies ==
    Untouched /\ key = 0 => \A t \in Tenants : Errors(t, key) = {}

=============================================================================
