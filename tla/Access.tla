-------------------------------- MODULE Access --------------------------------
(***************************************************************************)
(* Enrolling the credentials of phones and checking their assertions         *)
(* (crypto/webauthn.rs, routes/phone.rs, tenants/auth.rs).                  *)
(*                                                                         *)
(* These handlers have no await between their statements: one occupies a    *)
(* worker thread from Enter to Leave, and the statements of as many handlers *)
(* interleave as there are threads.  What a phone sends is a constant: what  *)
(* it claims, and what is wrong with it.  One tenant.                       *)
(***************************************************************************)
EXTENDS KeyStore

CONSTANTS
    Ceremonies,         \* calls of ceremony_begin
    Finishes, Attested, \* calls of enroll and ceremony_finish; what each sends
    Asserts, Asserted   \* assertions; what each sends

\* What an attestation or an assertion can be refused for.
ClientDataFlaws == {"type", "origin", "challenge"}
AuthDataFlaws == {"rpid", "uv"}
Flaws == ClientDataFlaws \cup AuthDataFlaws
         \cup {"object", "attested", "key", "statement", "signature", "hint"}

\* generate_ceremony_options: the algorithms a phone may choose from.
OfferedAlgs == {"ES256", "RS256"}

\* A call is of one kind.
ASSUME AccessAssumption ==
    /\ Finishes \cap Asserts = {}
    /\ \A f \in Finishes : /\ Attested[f].ceremony \in Ceremonies
                           /\ Attested[f].count \in Nat
                           /\ Attested[f].fmt \in {"none", "packed", "tpm"}
                           /\ Attested[f].alg \in OfferedAlgs
                           /\ Attested[f].flaws \subseteq Flaws
    /\ \A a \in Asserts : /\ Asserted[a].count \in Nat
                          /\ Asserted[a].flaws \subseteq Flaws

VARIABLES
    challenge,  \* phone_challenges: "new", "open" (used_at IS NULL) or "used"
    finish,     \* where each call that finishes a ceremony stands
    credential, \* the rows of credentials, oldest first
    assert,     \* where each assertion stands
    accepted    \* the assertions accepted so far

accessVars == <<challenge, finish, credential, assert, accepted>>

\* The calls made in this scenario.
Due(c) == IF c \in plan.clients THEN "new" ELSE "absent"

AccessInit ==
    /\ challenge = [c \in Ceremonies |-> Due(c)]
    /\ finish = [f \in Finishes |-> Due(f)]
    /\ credential = <<>>
    /\ assert = [a \in Asserts |-> Due(a)]
    /\ accepted = <<>>

\* A worker thread takes the handler, and lets it go.
Enter(c) == Serving /\ Cardinality(busy) < plan.threads /\ busy' = busy \cup {c}
Leave(c) == busy' = busy \ {c}

\* plan.faults: statements may fail (the database is locked, the pool is empty).

-----------------------------------------------------------------------------
(* Broken variants of the definitions below.                                *)

\* The challenge is marked only when the credential has been stored.
FinishMarkForgets(f) ==
    /\ finish[f] = "taken"
    /\ finish' = [finish EXCEPT ![f] = "marked"]
    /\ UNCHANGED <<plan, busy, keyVars, challenge, credential, assert, accepted>>

\* An equal counter passes.
CounterNotLower(stored, asserted) == stored = 0 \/ asserted = 0 \/ asserted >= stored

-----------------------------------------------------------------------------
(* Ceremonies.                                                              *)

store_challenge(c) == challenge' = [challenge EXCEPT ![c] = "open"]

Begin(c) ==
    /\ Serving /\ challenge[c] = "new"
    /\ store_challenge(c)
    /\ UNCHANGED <<plan, busy, keyVars, finish, credential, assert, accepted>>

\* take_challenge_by_id, SELECT.
FinishTake(f) ==
    /\ finish[f] = "new"
    /\ challenge[Attested[f].ceremony] \in {"open", "used"}   \* the client has its id
    /\ IF challenge[Attested[f].ceremony] = "open"
       THEN Enter(f) /\ finish' = [finish EXCEPT ![f] = "taken"]
       ELSE Serving /\ busy' = busy /\ finish' = [finish EXCEPT ![f] = "401"]
    /\ UNCHANGED <<plan, keyVars, challenge, credential, assert, accepted>>

\* take_challenge_by_id, UPDATE, whatever used_at has become.
FinishMark(f) ==
    /\ finish[f] = "taken"
    /\ challenge' = [challenge EXCEPT ![Attested[f].ceremony] = "used"]
    /\ finish' = [finish EXCEPT ![f] = "marked"]
    /\ UNCHANGED <<plan, busy, keyVars, credential, assert, accepted>>

\* The checks of verify_attestation, in their order; "none" proves nothing.
ClientDataOk(sent) == sent.flaws \cap ClientDataFlaws = {}
ObjectOk(sent) == "object" \notin sent.flaws
AuthDataOk(sent) == sent.flaws \cap AuthDataFlaws = {}
AttestedDataOk(sent) == "attested" \notin sent.flaws
KeyOk(sent) == sent.alg = "ES256" /\ "key" \notin sent.flaws
PackedOk(sent) == sent.fmt = "packed" /\ "statement" \notin sent.flaws

verify_attestation(sent) ==
    /\ ClientDataOk(sent) /\ ObjectOk(sent) /\ AuthDataOk(sent)
    /\ AttestedDataOk(sent) /\ KeyOk(sent)
    /\ sent.fmt = "none" \/ PackedOk(sent)

\* finish_ceremony: the challenge is spent whatever the verdict.
Verdict(f) ==
    CASE ~verify_attestation(Attested[f]) -> "401"
      [] "hint" \in Attested[f].flaws     -> "400"   \* the hinted id is another
      [] OTHER                            -> "ok"

\* store_credential_from_attestation, or the refusal.
FinishEnd(f) ==
    /\ finish[f] = "marked"
    /\ finish' = [finish EXCEPT ![f] = Verdict(f)]
    /\ credential' = IF Verdict(f) = "ok"
                     THEN Append(credential, [key |-> Attested[f].key,
                                              count |-> Attested[f].count, by |-> f])
                     ELSE credential
    /\ Leave(f)
    /\ UNCHANGED <<plan, keyVars, challenge, assert, accepted>>

\* The UPDATE or the INSERT fails: 500.
FinishFails(f) ==
    /\ finish[f] = "taken" \/ (finish[f] = "marked" /\ Verdict(f) = "ok")
    /\ plan.faults
    /\ finish' = [finish EXCEPT ![f] = "500"]
    /\ Leave(f)
    /\ UNCHANGED <<plan, keyVars, challenge, credential, assert, accepted>>

-----------------------------------------------------------------------------
(* Assertions.                                                              *)

Rows(key) == {i \in DOMAIN credential : credential[i].key = key}

\* load_credential_counter takes the first row of the query.
StoredCount(key) ==
    credential[CHOOSE i \in Rows(key) : \A j \in Rows(key) : i <= j].count

counter_is_valid(stored, asserted) == stored = 0 \/ asserted = 0 \/ asserted > stored

\* verify_assertion up to the counter; an error of the query passes the check,
\* and without a row it is the signature that cannot be verified.
AssertCheck(a) ==
    LET sent == Asserted[a]
        passes == \/ Rows(sent.key) = {}
                  \/ counter_is_valid(StoredCount(sent.key), sent.count)
    IN  \E fails \in {FALSE, plan.faults} :
        /\ assert[a] = "new"
        /\ IF ~ClientDataOk(sent) \/ ~AuthDataOk(sent)
           THEN /\ Serving /\ busy' = busy
                /\ assert' = [assert EXCEPT ![a] = "refused"]
           ELSE /\ Enter(a)
                /\ assert' = [assert EXCEPT ![a] = IF passes \/ fails THEN "checked" ELSE "late"]
        /\ UNCHANGED <<plan, keyVars, challenge, finish, credential, accepted>>

\* verify_assertion_signature.
Genuine(a) == Rows(Asserted[a].key) # {} /\ "signature" \notin Asserted[a].flaws

\* The refusal of an assertion that got as far as the counter.
AssertRefused(a) ==
    /\ assert[a] = "late" \/ (assert[a] = "checked" /\ ~Genuine(a))
    /\ assert' = [assert EXCEPT ![a] = "refused"]
    /\ Leave(a)
    /\ UNCHANGED <<plan, keyVars, challenge, finish, credential, accepted>>

\* update_credential_counter sets every row of the credential; its error is
\* logged and the assertion stands.
AssertEnd(a) ==
    LET sent == Asserted[a]
    IN  /\ assert[a] = "checked" /\ Genuine(a)
        /\ assert' = [assert EXCEPT ![a] = "accepted"]
        /\ \E stored \in BOOLEAN :
             /\ stored \/ plan.faults
             /\ credential' = [i \in DOMAIN credential |->
                    IF stored /\ i \in Rows(sent.key)
                    THEN [credential[i] EXCEPT !.count = sent.count] ELSE credential[i]]
        /\ accepted' = Append(accepted, a)
        /\ Leave(a)
        /\ UNCHANGED <<plan, keyVars, challenge, finish>>

-----------------------------------------------------------------------------
\* A kill ends the calls under way; their clients get no answer.
Dropped(calls) == [c \in DOMAIN calls |-> IF c \in busy THEN "lost" ELSE calls[c]]

AccessStep ==
    \/ \E c \in Ceremonies : Begin(c)
    \/ \E f \in Finishes : FinishTake(f) \/ FinishMark(f) \/ FinishEnd(f) \/ FinishFails(f)
    \/ \E a \in Asserts : AssertCheck(a) \/ AssertRefused(a) \/ AssertEnd(a)

-----------------------------------------------------------------------------
(* Properties.                                                              *)

\* However calls overlap, are refused, fail or are killed, a challenge enrols
\* no more credentials than there are worker threads: one with one thread.
\* (The code means one: take_challenge_by_id "atomically" consumes it.)
ChallengeUse ==
    \A c \in Ceremonies :
        Cardinality({i \in DOMAIN credential : Attested[credential[i].by].ceremony = c})
            <= plan.threads

\* Two accepted assertions of a key that follow each other do not repeat or
\* lower the counter, unless it is 0 (the authenticator has none), a statement
\* failed, or two of them were checked at the same time.
CountersIncrease ==
    plan.threads = 1 /\ ~plan.faults =>
        \A i, j \in DOMAIN accepted :
            LET before == Asserted[accepted[i]]
                after == Asserted[accepted[j]]
            IN  /\ i < j /\ before.key = after.key /\ after.count # 0
                /\ \A k \in (i + 1)..(j - 1) : Asserted[accepted[k]].key # before.key
                => before.count < after.count
=============================================================================
