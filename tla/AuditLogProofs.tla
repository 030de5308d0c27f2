--------------------------- MODULE AuditLogProofs ---------------------------
(***************************************************************************)
(* Proofs about the audit log, for any calls, tenants, threads, rotations.  *)
(*                                                                         *)
(* The invariants say of the calls that have read and not yet inserted what  *)
(* they say of the rows: that is what makes them inductive.                 *)
(***************************************************************************)
EXTENDS AuditLog, Extrema, SequenceTheorems, FiniteSetTheorems, TLAPS

\* log is a sequence of whatever rows it holds.
LogIsSeq == log \in Seq({log[i] : i \in DOMAIN log})
EditsAreSeq == edits \in Seq({"altered", "cut", "tail"})
CallsPlaced == DOMAIN at = Calls /\ DOMAIN call = Calls

\* h is the zero hash or that of one of the tenant's rows before i.
LinksTo(t, h, i) ==
    h = Zero \/ \E j \in 1 .. i - 1 : log[j].tenant = t /\ log[j].hash = h

\* The inductive form of LinksBackward.
LinkInv ==
    /\ EditsAreSeq /\ CallsPlaced
    /\ Untouched =>
        /\ LogIsSeq
        /\ \A c \in Calls : at[c] = "read" => LinksTo(call[c].tenant, call[c].prev, Len(log) + 1)
        /\ \A i \in DOMAIN log : LinksTo(log[i].tenant, log[i].prev, i)

\* The inductive form of SingleThreadChain.
ChainInv ==
    /\ EditsAreSeq /\ CallsPlaced
    /\ threads = 1 /\ Untouched =>
        /\ LogIsSeq
        /\ \A c, d \in Calls : at[c] = "read" /\ at[d] = "read" => c = d
        /\ \A c \in Calls : at[c] = "read" => call[c].prev = LastHash(call[c].tenant)
        /\ \A i \in DOMAIN log : ~ChainBroken(i) /\ ~HashBroken(i)

\* An edit is never undone: a step that records one leaves the log touched.
LEMMA EditTouches ==
    ASSUME EditsAreSeq, EditRow
    PROVE  EditsAreSeq' /\ ~Untouched'
<1>1. PICK e \in {"altered", "cut", "tail"} : edits' = Append(edits, e)
    BY DEF EditRow
<1> QED
    BY <1>1, AppendProperties DEF EditsAreSeq, Untouched

\* What entry's INSERT does to the log, for the proofs of both invariants.
LEMMA AppendGrows ==
    ASSUME LogIsSeq, NEW c \in Calls, AppendEntry(c)
    PROVE  /\ LogIsSeq'
           /\ Len(log) \in Nat /\ DOMAIN log = 1 .. Len(log)
           /\ Len(log') = Len(log) + 1 /\ DOMAIN log' = 1 .. Len(log) + 1
           /\ \A i \in 1 .. Len(log) : log'[i] = log[i]
           /\ log'[Len(log) + 1].tenant = call[c].tenant
           /\ log'[Len(log) + 1].body = c
           /\ log'[Len(log) + 1].prev = call[c].prev
           /\ log'[Len(log) + 1].hash = Hash(call[c].tenant, c, call[c].prev)
           /\ log'[Len(log) + 1].key = call[c].key
           /\ log'[Len(log) + 1].rotates = call[c].rotates
           /\ log'[Len(log) + 1] =
                  [tenant |-> log'[Len(log) + 1].tenant, body |-> log'[Len(log) + 1].body,
                   prev |-> log'[Len(log) + 1].prev, hash |-> log'[Len(log) + 1].hash,
                   key |-> log'[Len(log) + 1].key, rotates |-> log'[Len(log) + 1].rotates]
<1> DEFINE S == {log[i] : i \in DOMAIN log}
           r == [tenant |-> call[c].tenant, body |-> c, prev |-> call[c].prev,
                 hash |-> Hash(call[c].tenant, c, call[c].prev),
                 key |-> Signer(call[c]), rotates |-> call[c].rotates]
<1>1. log \in Seq(S \cup {r}) /\ r \in S \cup {r}
    BY DEF LogIsSeq
<1>2. log' = Append(log, r)
    BY DEF AppendEntry
<1> HIDE DEF S
<1>3. /\ Len(log) \in Nat /\ DOMAIN log = 1 .. Len(log)
      /\ Len(log') = Len(log) + 1 /\ DOMAIN log' = 1 .. Len(log) + 1
      /\ \A i \in 1 .. Len(log) : log'[i] = log[i]
      /\ log'[Len(log) + 1] = r
      /\ log' \in Seq(S \cup {r})
    <2> HIDE DEF r
    <2> QED
        BY <1>1, <1>2, AppendProperties, LenProperties
<1>4. LogIsSeq'
    <2> DEFINE T == {log'[j] : j \in DOMAIN log'}
    <2>1. \A i \in 1 .. Len(log) + 1 : log'[i] \in T
        BY <1>3
    <2>2. log' = [i \in 1 .. Len(log) + 1 |-> log'[i]]
        BY <1>3
    <2> HIDE DEF T
    <2>3. log' \in [1 .. Len(log) + 1 -> T] /\ Len(log) + 1 \in Nat
        BY <1>3, <2>1, <2>2
    <2>4. log' \in Seq(T)
        BY <2>3, SeqDef
    <2> QED
        BY <2>4 DEF LogIsSeq, T
<1> QED
    BY <1>3, <1>4 DEF Signer

-----------------------------------------------------------------------------
(* Every row links backward, whatever the threads do.                       *)

\* The last hash of a tenant is one a next row may link to.
LEMMA LastHashLinks ==
    ASSUME LogIsSeq, NEW t \in Tenants
    PROVE  LinksTo(t, LastHash(t), Len(log) + 1)
<1>1. Len(log) \in Nat /\ DOMAIN log = 1 .. Len(log)
    BY LenProperties DEF LogIsSeq
<1>2. CASE RowsOf(t) = {}
    BY <1>2 DEF LastHash, LinksTo
<1>3. CASE RowsOf(t) # {}
    <2>1. RowsOf(t) \in SUBSET (1 .. Len(log))
        BY <1>1 DEF RowsOf
    <2>2. Max(RowsOf(t)) \in RowsOf(t)
        BY <1>1, <1>3, <2>1, MaxIsMember
    <2>3. LastHash(t) = log[Max(RowsOf(t))].hash
        BY <1>3 DEF LastHash
    <2>4. log[Max(RowsOf(t))].tenant = t /\ Max(RowsOf(t)) \in 1 .. (Len(log) + 1) - 1
        BY <1>1, <2>2 DEF RowsOf
    <2> QED
        BY <2>3, <2>4 DEF LinksTo
<1> QED
    BY <1>2, <1>3

\* LinkInv is inductive: a call carries a hash that stays in the log.
LEMMA LinkInvStep ==
    ASSUME LinkInv, [Next]_vars
    PROVE  LinkInv'
<1>1. ASSUME NEW c \in Calls, ReadPrev(c)
      PROVE  LinkInv'
    <2>1. PICK t \in Tenants, b \in BOOLEAN :
              call' = [call EXCEPT ![c] = [tenant |-> t, rotates |-> b, key |-> key,
                                           prev |-> LastHash(t)]]
        BY <1>1 DEF ReadPrev
    <2>2. UNCHANGED <<log, edits>> /\ at' = [at EXCEPT ![c] = "read"]
        BY <1>1 DEF ReadPrev
    <2>3. /\ Untouched' <=> Untouched
          /\ LogIsSeq' <=> LogIsSeq
          /\ \A u, h, i : LinksTo(u, h, i)' <=> LinksTo(u, h, i)
        BY <2>2 DEF Untouched, LogIsSeq, LinksTo
    <2>4. LogIsSeq => LinksTo(t, LastHash(t), Len(log) + 1)
        BY LastHashLinks
    <2> QED
        BY <2>1, <2>2, <2>3, <2>4 DEF LinkInv, EditsAreSeq, CallsPlaced
<1>2. ASSUME NEW c \in Calls, AppendEntry(c)
      PROVE  LinkInv'
    <2>1. /\ edits' = edits /\ call' = call /\ at[c] = "read"
          /\ at' = [at EXCEPT ![c] = "done"]
        BY <1>2 DEF AppendEntry
    <2> SUFFICES ASSUME Untouched
                 PROVE  LinkInv'
        BY <2>1 DEF LinkInv, EditsAreSeq, CallsPlaced, Untouched
    <2>2. LogIsSeq
        BY DEF LinkInv
    <2>3. /\ LogIsSeq'
          /\ Len(log) \in Nat /\ DOMAIN log = 1 .. Len(log)
          /\ Len(log') = Len(log) + 1 /\ DOMAIN log' = 1 .. Len(log) + 1
          /\ \A i \in 1 .. Len(log) : log'[i] = log[i]
          /\ log'[Len(log) + 1].tenant = call[c].tenant
          /\ log'[Len(log) + 1].prev = call[c].prev
        BY <1>2, <2>2, AppendGrows
    <2>4. \A t, h : \A i \in 1 .. Len(log) + 1 : LinksTo(t, h, i) => LinksTo(t, h, i)'
        BY <2>3 DEF LinksTo
    <2>5. \A t, h : LinksTo(t, h, Len(log) + 1) => LinksTo(t, h, Len(log) + 1)'
        BY <2>3 DEF LinksTo
    <2>6. \A d \in Calls : at'[d] = "read" => at[d] = "read"
        BY <2>1 DEF LinkInv, CallsPlaced
    <2>7. \A d \in Calls : at'[d] = "read" =>
              LinksTo(call[d].tenant, call[d].prev, Len(log) + 1)'
        BY <2>1, <2>5, <2>6 DEF LinkInv
    <2>8. ASSUME NEW i \in 1 .. Len(log) + 1
          PROVE  LinksTo(log[i].tenant, log[i].prev, i)'
        <3>1. CASE i \in 1 .. Len(log)
            BY <2>3, <2>4, <3>1 DEF LinkInv
        <3>2. CASE i = Len(log) + 1
            BY <2>1, <2>3, <2>4, <3>2 DEF LinkInv
        <3> QED
            BY <2>3, <3>1, <3>2
    <2> QED
        BY <2>1, <2>3, <2>7, <2>8 DEF LinkInv, EditsAreSeq, CallsPlaced
<1>3. ASSUME NEW c \in Calls, LoseEntry(c)
      PROVE  LinkInv'
    BY <1>3 DEF LoseEntry, LinkInv, EditsAreSeq, CallsPlaced, Untouched, LogIsSeq, LinksTo
<1>4. CASE EditRow
    <2>1. UNCHANGED <<at, call>>
        BY <1>4 DEF EditRow
    <2> QED
        BY <1>4, <2>1, EditTouches DEF LinkInv, CallsPlaced
<1>5. CASE UNCHANGED vars
    BY <1>5 DEF vars, LinkInv, EditsAreSeq, CallsPlaced, Untouched, LogIsSeq, LinksTo
<1> QED
    BY <1>1, <1>2, <1>3, <1>4, <1>5 DEF Next, Quiet

\* A row links to the zero hash or to an earlier row of its own tenant: the SELECT
\* in entry, on any runtime.
THEOREM LinksHold == Spec => []LinksBackward
<1>1. Init => LinkInv
    BY DEF Init, LinkInv, EditsAreSeq, CallsPlaced, LogIsSeq, LinksTo
<1>2. LinkInv /\ [Next]_vars => LinkInv'
    BY LinkInvStep
<1>3. LinkInv => LinksBackward
    BY DEF LinkInv, LinksBackward, LinksTo
<1> QED
    BY <1>1, <1>2, <1>3, PTL DEF Spec

-----------------------------------------------------------------------------
(* One thread: the chain never breaks.                                      *)

\* On one thread a call reads only when no other is between its two statements.
LEMMA OneReader ==
    ASSUME threads = 1, NEW c \in Calls, ReadPrev(c)
    PROVE  \A d \in Calls : at[d] # "read"
<1> DEFINE S == {d \in Calls : at[d] = "read"}
<1>1. IsFiniteSet(S)
    <2>1. S \subseteq Calls /\ IsFiniteSet(Calls)
        BY AuditAssumption
    <2> QED
        BY <2>1, FS_Subset
<1>2. Cardinality(S) < 1
    BY DEF ReadPrev
<1>3. Cardinality(S) \in Nat
    BY <1>1, FS_CardinalityType
<1>4. S = {}
    <2> HIDE DEF S
    <2> QED
        BY <1>1, <1>2, <1>3, FS_EmptySet
<1> QED
    BY <1>4

\* The INSERT of the only call between its two statements links its row to the
\* tenant's last one, and leaves what the verifier sees of the others alone.
LEMMA AppendKeepsChain ==
    ASSUME LogIsSeq, NEW c \in Calls, AppendEntry(c),
           call[c].prev = LastHash(call[c].tenant),
           \A i \in DOMAIN log : ~ChainBroken(i) /\ ~HashBroken(i)
    PROVE  \A i \in DOMAIN log' : (~ChainBroken(i) /\ ~HashBroken(i))'
<1>1. /\ Len(log) \in Nat /\ DOMAIN log = 1 .. Len(log)
      /\ DOMAIN log' = 1 .. Len(log) + 1
      /\ \A i \in 1 .. Len(log) : log'[i] = log[i]
      /\ log'[Len(log) + 1].tenant = call[c].tenant
      /\ log'[Len(log) + 1].body = c
      /\ log'[Len(log) + 1].prev = call[c].prev
      /\ log'[Len(log) + 1].hash = Hash(call[c].tenant, c, call[c].prev)
    BY AppendGrows
<1> DEFINE Before(t, i) == {j \in RowsOf(t) : j < i}
<1>2. ASSUME NEW i \in 1 .. Len(log) + 1, NEW t
      PROVE  /\ Before(t, i)' = Before(t, i)
             /\ Before(t, i) # {} => log'[Max(Before(t, i))] = log[Max(Before(t, i))]
    <2>1. Before(t, i)' = Before(t, i)
        BY <1>1 DEF RowsOf
    <2>2. Before(t, i) \in SUBSET (1 .. Len(log))
        BY <1>1 DEF RowsOf
    <2>3. Before(t, i) # {} => Max(Before(t, i)) \in Before(t, i)
        <3> HIDE DEF Before
        <3> QED
            BY <1>1, <2>2, MaxIsMember
    <2>4. Before(t, i) # {} => Max(Before(t, i)) \in 1 .. Len(log)
        <3> HIDE DEF Before
        <3> QED
            BY <2>2, <2>3
    <2> HIDE DEF Before
    <2> QED
        BY <1>1, <2>1, <2>4
<1>3. ASSUME NEW i \in 1 .. Len(log)
      PROVE  (~ChainBroken(i) /\ ~HashBroken(i))'
    <2>1. log'[i] = log[i] /\ i \in 1 .. Len(log) + 1
        BY <1>1
    <2>2. HashBefore(i)' = HashBefore(i)
        <3>1. HashBefore(i) = IF Before(log[i].tenant, i) = {} THEN Zero
                              ELSE log[Max(Before(log[i].tenant, i))].hash
            BY DEF HashBefore
        <3>2. HashBefore(i)' = IF Before(log[i].tenant, i)' = {} THEN Zero
                               ELSE log'[Max(Before(log[i].tenant, i)')].hash
            BY DEF HashBefore
        <3>3. Before(log[i].tenant, i)' = Before(log[i].tenant, i)
            BY <1>1, <2>1 DEF RowsOf
        <3>4. Before(log[i].tenant, i) # {} =>
                  log'[Max(Before(log[i].tenant, i))] = log[Max(Before(log[i].tenant, i))]
            BY <1>2, <2>1
        <3> HIDE DEF Before
        <3> QED
            BY <3>1, <3>2, <3>3, <3>4
    <2>3. ~ChainBroken(i) /\ ~HashBroken(i)
        BY <1>1
    <2> QED
        BY <2>1, <2>2, <2>3 DEF ChainBroken, HashBroken
<1>4. ASSUME NEW i, i = Len(log) + 1
      PROVE  (~ChainBroken(i) /\ ~HashBroken(i))'
    <2>1. PICK t : t = call[c].tenant
        OBVIOUS
    <2>2. Before(t, i) = RowsOf(t) /\ i \in 1 .. Len(log) + 1
        BY <1>1, <1>4 DEF RowsOf
    <2>3. /\ Before(t, i)' = RowsOf(t)
          /\ RowsOf(t) # {} => log'[Max(RowsOf(t))] = log[Max(RowsOf(t))]
        <3> HIDE DEF Before
        <3> QED
            BY <1>2, <2>2
    <2>4. /\ log'[i].tenant = t /\ log'[i].body = c /\ log'[i].prev = LastHash(t)
          /\ log'[i].hash = Hash(t, c, log'[i].prev)
        BY <1>1, <1>4, <2>1
    <2>5. HashBefore(i)' = IF Before(t, i)' = {} THEN Zero
                           ELSE log'[Max(Before(t, i)')].hash
        BY <2>4 DEF HashBefore
    <2>6. HashBefore(i)' = LastHash(t)
        <3> HIDE DEF Before
        <3> QED
            BY <2>3, <2>5 DEF LastHash
    <2> QED
        BY <2>4, <2>6 DEF ChainBroken, HashBroken
<1> QED
    BY <1>1, <1>3, <1>4

\* What the writer and the verifier see of a log depends on the log alone.
LEMMA SameLog ==
    ASSUME UNCHANGED log
    PROVE  /\ LogIsSeq' <=> LogIsSeq
           /\ \A t : LastHash(t)' = LastHash(t)
           /\ \A i : ChainBroken(i)' <=> ChainBroken(i)
           /\ \A i : HashBroken(i)' <=> HashBroken(i)
BY DEF LogIsSeq, LastHash, RowsOf, ChainBroken, HashBroken, HashBefore

\* ChainInv is inductive: on one thread what a call read is still the tenant's last
\* hash when it inserts.
LEMMA ChainInvStep ==
    ASSUME ChainInv, [Next]_vars
    PROVE  ChainInv'
<1>1. ASSUME NEW c \in Calls, ReadPrev(c)
      PROVE  ChainInv'
    <2>1. PICK t \in Tenants, b \in BOOLEAN :
              call' = [call EXCEPT ![c] = [tenant |-> t, rotates |-> b, key |-> key,
                                           prev |-> LastHash(t)]]
        BY <1>1 DEF ReadPrev
    <2>2. UNCHANGED <<log, edits, threads>> /\ at' = [at EXCEPT ![c] = "read"]
        BY <1>1 DEF ReadPrev
    <2>3. /\ LogIsSeq' <=> LogIsSeq
          /\ \A u : LastHash(u)' = LastHash(u)
          /\ \A i : (ChainBroken(i)' <=> ChainBroken(i)) /\ (HashBroken(i)' <=> HashBroken(i))
        BY <2>2, SameLog
    <2>4. threads = 1 => \A d \in Calls : at[d] # "read"
        BY <1>1, OneReader
    <2>5. threads = 1 => \A d \in Calls : at'[d] = "read" => d = c
        BY <2>2, <2>4 DEF ChainInv, CallsPlaced
    <2>6. call'[c].tenant = t /\ call'[c].prev = LastHash(t)
        BY <2>1 DEF ChainInv, CallsPlaced
    <2>7. EditsAreSeq' /\ CallsPlaced'
        BY <2>1, <2>2 DEF ChainInv, EditsAreSeq, CallsPlaced
    <2> QED
        BY <2>2, <2>3, <2>5, <2>6, <2>7 DEF ChainInv, Untouched
<1>2. ASSUME NEW c \in Calls, AppendEntry(c)
      PROVE  ChainInv'
    <2>1. /\ UNCHANGED <<edits, threads, call>> /\ at[c] = "read"
          /\ at' = [at EXCEPT ![c] = "done"]
        BY <1>2 DEF AppendEntry
    <2>2. EditsAreSeq' /\ CallsPlaced'
        BY <2>1 DEF ChainInv, EditsAreSeq, CallsPlaced
    <2> SUFFICES ASSUME threads = 1, Untouched
                 PROVE  ChainInv'
        BY <2>1, <2>2 DEF ChainInv, Untouched
    <2>3. /\ LogIsSeq
          /\ call[c].prev = LastHash(call[c].tenant)
          /\ \A i \in DOMAIN log : ~ChainBroken(i) /\ ~HashBroken(i)
        BY <2>1 DEF ChainInv
    <2>4. /\ LogIsSeq'
          /\ \A i \in DOMAIN log' : (~ChainBroken(i) /\ ~HashBroken(i))'
        BY <1>2, <2>3, AppendGrows, AppendKeepsChain
    <2>5. \A d \in Calls : at'[d] # "read"
        BY <2>1 DEF ChainInv, CallsPlaced
    <2> QED
        BY <2>2, <2>4, <2>5 DEF ChainInv
<1>3. ASSUME NEW c \in Calls, LoseEntry(c)
      PROVE  ChainInv'
    <2>1. UNCHANGED <<log, edits, threads, call>> /\ at' = [at EXCEPT ![c] = "failed"]
        BY <1>3 DEF LoseEntry
    <2>2. \A d \in Calls : at'[d] = "read" => at[d] = "read"
        BY <2>1 DEF ChainInv, CallsPlaced
    <2>3. EditsAreSeq' /\ CallsPlaced'
        BY <2>1 DEF ChainInv, EditsAreSeq, CallsPlaced
    <2> QED
        BY <2>1, <2>2, <2>3, SameLog DEF ChainInv, Untouched
<1>4. CASE EditRow
    <2>1. UNCHANGED <<at, call>>
        BY <1>4 DEF EditRow
    <2> QED
        BY <1>4, <2>1, EditTouches DEF ChainInv, CallsPlaced
<1>5. CASE UNCHANGED vars
    <2>1. UNCHANGED log
        BY <1>5 DEF vars
    <2> QED
        BY <1>5, <2>1, SameLog DEF vars, ChainInv, EditsAreSeq, CallsPlaced, Untouched
<1> QED
    BY <1>1, <1>2, <1>3, <1>4, <1>5 DEF Next, Quiet

\* On a runtime with one thread every tenant's chain verifies, whatever calls fail.
THEOREM ChainHolds == Spec => []SingleThreadChain
<1>1. Init => ChainInv
    BY DEF Init, ChainInv, EditsAreSeq, CallsPlaced, LogIsSeq
<1>2. ChainInv /\ [Next]_vars => ChainInv'
    BY ChainInvStep
<1>3. ChainInv => SingleThreadChain
    BY DEF ChainInv, SingleThreadChain
<1> QED
    BY <1>1, <1>2, <1>3, PTL DEF Spec

-----------------------------------------------------------------------------
(* One thread: a rotation is provable from the log.                         *)

\* The inductive form of RotationAnchored: the keys in use are those the last row
\* leaves, and a call that has read holds them.
RotationInv ==
    /\ EditsAreSeq /\ CallsPlaced
    /\ threads = 1 /\ Untouched =>
        /\ LogIsSeq
        /\ \A c, d \in Calls : at[c] = "read" /\ at[d] = "read" => c = d
        /\ \A c \in Calls : at[c] = "read" => call[c].key = key
        /\ log # <<>> =>
               key = IF log[Len(log)].rotates THEN log[Len(log)].key + 1 ELSE log[Len(log)].key
        /\ \A i \in DOMAIN log : i > 1 /\ log[i].key # log[i - 1].key =>
               log[i - 1].rotates /\ log[i].key = log[i - 1].key + 1

\* RotationInv is inductive: on one thread no rotation comes between a call's two
\* statements.
LEMMA RotationInvStep ==
    ASSUME RotationInv, [Next]_vars
    PROVE  RotationInv'
<1>1. ASSUME NEW c \in Calls, ReadPrev(c)
      PROVE  RotationInv'
    <2>1. PICK t \in Tenants, b \in BOOLEAN :
              call' = [call EXCEPT ![c] = [tenant |-> t, rotates |-> b, key |-> key,
                                           prev |-> LastHash(t)]]
        BY <1>1 DEF ReadPrev
    <2>2. UNCHANGED <<log, key, edits, threads>> /\ at' = [at EXCEPT ![c] = "read"]
        BY <1>1 DEF ReadPrev
    <2>3. threads = 1 => \A d \in Calls : at[d] # "read"
        BY <1>1, OneReader
    <2>4. threads = 1 => \A d \in Calls : at'[d] = "read" => d = c
        BY <2>2, <2>3 DEF RotationInv, CallsPlaced
    <2>5. call'[c].key = key
        BY <2>1 DEF RotationInv, CallsPlaced
    <2>6. EditsAreSeq' /\ CallsPlaced'
        BY <2>1, <2>2 DEF RotationInv, EditsAreSeq, CallsPlaced
    <2> QED
        BY <2>2, <2>4, <2>5, <2>6, SameLog DEF RotationInv, Untouched
<1>2. ASSUME NEW c \in Calls, AppendEntry(c)
      PROVE  RotationInv'
    <2>1. /\ UNCHANGED <<edits, threads, call>> /\ at[c] = "read"
          /\ at' = [at EXCEPT ![c] = "done"]
          /\ key' = IF call[c].rotates THEN call[c].key + 1 ELSE key
        BY <1>2 DEF AppendEntry
    <2>2. EditsAreSeq' /\ CallsPlaced'
        BY <2>1 DEF RotationInv, EditsAreSeq, CallsPlaced
    <2> SUFFICES ASSUME threads = 1, Untouched
                 PROVE  RotationInv'
        BY <2>1, <2>2 DEF RotationInv, Untouched
    <2>3. LogIsSeq /\ call[c].key = key
        BY <2>1 DEF RotationInv
    <2>4. /\ LogIsSeq'
          /\ Len(log) \in Nat /\ DOMAIN log = 1 .. Len(log)
          /\ Len(log') = Len(log) + 1 /\ DOMAIN log' = 1 .. Len(log) + 1
          /\ \A i \in 1 .. Len(log) : log'[i] = log[i]
          /\ log'[Len(log) + 1].key = call[c].key
          /\ log'[Len(log) + 1].rotates = call[c].rotates
        BY <1>2, <2>3, AppendGrows
    <2>5. \A d \in Calls : at'[d] # "read"
        BY <2>1 DEF RotationInv, CallsPlaced
    <2>6. key' = IF log'[Len(log')].rotates THEN log'[Len(log')].key + 1 ELSE log'[Len(log')].key
        BY <2>1, <2>3, <2>4
    <2>7. ASSUME NEW i \in DOMAIN log', i > 1, log'[i].key # log'[i - 1].key
          PROVE  log'[i - 1].rotates /\ log'[i].key = log'[i - 1].key + 1
        <3>1. CASE i \in 1 .. Len(log)
            <4>1. i - 1 \in 1 .. Len(log)
                BY <2>4, <2>7, <3>1
            <4>2. log'[i] = log[i] /\ log'[i - 1] = log[i - 1] /\ i \in DOMAIN log
                BY <2>4, <3>1, <4>1
            <4> QED
                BY <2>7, <4>2 DEF RotationInv
        <3>2. CASE i = Len(log) + 1
            <4>1. i - 1 = Len(log) /\ Len(log) \in 1 .. Len(log)
                BY <2>4, <2>7, <3>2
            <4>2. log # <<>>
                BY <2>4, <4>1
            <4>3. log'[i].key = key /\ log'[i - 1] = log[Len(log)]
                BY <2>3, <2>4, <3>2, <4>1
            <4>4. key = IF log[Len(log)].rotates THEN log[Len(log)].key + 1 ELSE log[Len(log)].key
                BY <4>2 DEF RotationInv
            <4> QED
                BY <2>7, <4>3, <4>4
        <3> QED
            BY <2>4, <2>7, <3>1, <3>2
    <2> QED
        BY <2>2, <2>4, <2>5, <2>6, <2>7 DEF RotationInv
<1>3. ASSUME NEW c \in Calls, LoseEntry(c)
      PROVE  RotationInv'
    <2>1. UNCHANGED <<log, key, edits, threads, call>> /\ at' = [at EXCEPT ![c] = "failed"]
        BY <1>3 DEF LoseEntry
    <2>2. \A d \in Calls : at'[d] = "read" => at[d] = "read"
        BY <2>1 DEF RotationInv, CallsPlaced
    <2>3. EditsAreSeq' /\ CallsPlaced'
        BY <2>1 DEF RotationInv, EditsAreSeq, CallsPlaced
    <2> QED
        BY <2>1, <2>2, <2>3, SameLog DEF RotationInv, Untouched
<1>4. CASE EditRow
    <2>1. UNCHANGED <<at, call>>
        BY <1>4 DEF EditRow
    <2> QED
        BY <1>4, <2>1, EditTouches DEF RotationInv, CallsPlaced
<1>5. CASE UNCHANGED vars
    <2>1. UNCHANGED <<log, key>>
        BY <1>5 DEF vars
    <2> QED
        BY <1>5, <2>1, SameLog DEF vars, RotationInv, EditsAreSeq, CallsPlaced, Untouched
<1> QED
    BY <1>1, <1>2, <1>3, <1>4, <1>5 DEF Next, Quiet

\* On a runtime with one thread, a row signed with another key than the row before
\* follows a rotation entry that the key before signed (rotate_audit_keys).
THEOREM RotationsAreAnchored == Spec => []RotationAnchored
<1>1. Init => RotationInv
    BY DEF Init, RotationInv, EditsAreSeq, CallsPlaced, LogIsSeq
<1>2. RotationInv /\ [Next]_vars => RotationInv'
    BY RotationInvStep
<1>3. RotationInv => RotationAnchored
    BY DEF RotationInv, RotationAnchored
<1> QED
    BY <1>1, <1>2, <1>3, PTL DEF Spec

-----------------------------------------------------------------------------
(* One thread: every edit but a cut at the end of a chain is found.           *)

\* What goes into a hash, one entry after the other.
Links == Tenants \X Calls

\* A row as entry wrote it, its body aside.
RowFine(r) ==
    /\ r = [tenant |-> r.tenant, body |-> r.body, prev |-> r.prev, hash |-> r.hash,
            key |-> r.key, rotates |-> r.rotates]
    /\ r.tenant \in Tenants /\ r.prev \in Seq(Links)
    /\ \E c \in Calls : r.hash = Hash(r.tenant, c, r.prev)

\* prev comes after every row of the tenant before position n: a hash is longer than
\* those that went into it.
Follows(t, prev, n) ==
    \A k \in 1 .. n - 1 : log[k].tenant = t => Len(log[k].hash) <= Len(prev)

\* The row whose hash row i names is gone.
Orphan(i) ==
    /\ log[i].prev # Zero
    /\ \A j \in DOMAIN log : log[j].tenant = log[i].tenant => log[j].hash # log[i].prev

\* What an edit leaves for the verifier to find.
Scar == \E i \in DOMAIN log : log[i].body = "altered" \/ Orphan(i)

Traceable == ~Untouched /\ \A n \in DOMAIN edits : edits[n] # "tail"

\* The inductive form of EditsAreFound.
EditInv ==
    /\ EditsAreSeq /\ CallsPlaced
    /\ threads = 1 =>
        /\ LogIsSeq
        /\ \A c, d \in Calls : at[c] = "read" /\ at[d] = "read" => c = d
        /\ \A c \in Calls : at[c] = "read" =>
               /\ call[c].tenant \in Tenants /\ call[c].prev \in Seq(Links)
               /\ Follows(call[c].tenant, call[c].prev, Len(log) + 1)
        /\ \A i \in DOMAIN log : RowFine(log[i]) /\ Follows(log[i].tenant, log[i].prev, i)
        /\ Traceable => Scar

\* A hash is one link longer than what it was computed from.
LEMMA HashGrows ==
    ASSUME NEW t \in Tenants, NEW c \in Calls, NEW prev \in Seq(Links)
    PROVE  /\ Len(prev) \in Nat
           /\ Hash(t, c, prev) \in Seq(Links)
           /\ Len(Hash(t, c, prev)) = Len(prev) + 1
           /\ Hash(t, c, prev) # Hash(t, "altered", prev)
<1> DEFINE All == Tenants \X (Calls \cup {"altered"})
<1>1. <<t, c>> \in Links /\ <<t, c>> \in All /\ <<t, "altered">> \in All
    BY DEF Links
<1>2. Links \subseteq All
    BY DEF Links
<1> HIDE DEF All
<1>3. prev \in Seq(All) /\ Len(prev) \in Nat
    BY <1>2, SeqMonotonic, LenProperties
<1>4. /\ Append(prev, <<t, c>>) \in Seq(Links)
      /\ Len(Append(prev, <<t, c>>)) = Len(prev) + 1
    BY <1>1, AppendProperties
<1>5. /\ Append(prev, <<t, c>>)[Len(prev) + 1] = <<t, c>>
      /\ Append(prev, <<t, "altered">>)[Len(prev) + 1] = <<t, "altered">>
    BY <1>1, <1>3, AppendProperties
<1>6. <<t, c>> # <<t, "altered">>
    BY AuditAssumption
<1> QED
    BY <1>3, <1>4, <1>5, <1>6 DEF Hash

LEMMA RowGrows ==
    ASSUME NEW r, RowFine(r)
    PROVE  /\ r.prev \in Seq(Links) /\ Len(r.prev) \in Nat
           /\ r.hash \in Seq(Links) /\ Len(r.hash) = Len(r.prev) + 1
           /\ r.hash # Hash(r.tenant, "altered", r.prev)
BY HashGrows DEF RowFine

\* The verifier finds a row with another body, and a row whose predecessor is gone
\* (verify_with_pool, checks 1 and 2).
LEMMA ScarsShow ==
    ASSUME LogIsSeq, NEW i \in DOMAIN log, RowFine(log[i]),
           log[i].body = "altered" \/ Orphan(i)
    PROVE  ChainBroken(i) \/ HashBroken(i)
<1>1. CASE log[i].body = "altered"
    <2>1. log[i].hash # Hash(log[i].tenant, "altered", log[i].prev)
        BY RowGrows
    <2> QED
        BY <1>1, <2>1 DEF HashBroken
<1>2. CASE Orphan(i)
    <2> DEFINE before == {j \in RowsOf(log[i].tenant) : j < i}
    <2>1. Len(log) \in Nat /\ DOMAIN log = 1 .. Len(log)
        BY LenProperties DEF LogIsSeq
    <2>2. before \in SUBSET (1 .. Len(log))
        BY <2>1 DEF RowsOf
    <2>3. before # {} => Max(before) \in before
        <3> HIDE DEF before
        <3> QED
            BY <2>1, <2>2, MaxIsMember
    <2>4. before # {} => log[Max(before)].tenant = log[i].tenant /\ Max(before) \in DOMAIN log
        BY <2>3 DEF RowsOf
    <2>5. HashBefore(i) = IF before = {} THEN Zero ELSE log[Max(before)].hash
        BY DEF HashBefore
    <2>6. HashBefore(i) # log[i].prev
        <3> HIDE DEF before
        <3> QED
            BY <1>2, <2>4, <2>5 DEF Orphan
    <2> QED
        BY <2>6 DEF ChainBroken
<1> QED
    BY <1>1, <1>2

\* The tenant's last hash is longer than any other of the tenant's.
LEMMA LastFollows ==
    ASSUME LogIsSeq, NEW t,
           \A i \in DOMAIN log : RowFine(log[i]) /\ Follows(log[i].tenant, log[i].prev, i)
    PROVE  LastHash(t) \in Seq(Links) /\ Follows(t, LastHash(t), Len(log) + 1)
<1>1. Len(log) \in Nat /\ DOMAIN log = 1 .. Len(log)
    BY LenProperties DEF LogIsSeq
<1>2. CASE RowsOf(t) = {}
    <2>1. LastHash(t) = <<>> /\ <<>> \in Seq(Links)
        BY <1>2, EmptySeq DEF LastHash, Zero
    <2>2. \A k \in 1 .. Len(log) : log[k].tenant # t
        BY <1>1, <1>2 DEF RowsOf
    <2> QED
        BY <1>1, <2>1, <2>2 DEF Follows
<1>3. CASE RowsOf(t) # {}
    <2>1. RowsOf(t) \in SUBSET (1 .. Len(log))
        BY <1>1 DEF RowsOf
    <2>2. PICK m : m = Max(RowsOf(t))
        OBVIOUS
    <2>3. m \in RowsOf(t) /\ \A j \in RowsOf(t) : j <= m
        BY <1>1, <1>3, <2>1, <2>2, MaxIsGreatest
    <2>4. m \in 1 .. Len(log) /\ log[m].tenant = t /\ LastHash(t) = log[m].hash
        BY <1>1, <1>3, <2>2, <2>3 DEF RowsOf, LastHash
    <2>5. /\ log[m].hash \in Seq(Links)
          /\ Len(log[m].hash) = Len(log[m].prev) + 1 /\ Len(log[m].prev) \in Nat
        BY <1>1, <2>4, RowGrows
    <2>6. ASSUME NEW k \in 1 .. Len(log), log[k].tenant = t
          PROVE  Len(log[k].hash) <= Len(log[m].hash)
        <3>1. k <= m
            BY <1>1, <2>3, <2>6 DEF RowsOf
        <3>2. CASE k = m
            BY <2>5, <3>2
        <3>3. CASE k < m
            <4>1. Follows(log[m].tenant, log[m].prev, m) /\ k \in 1 .. m - 1
                BY <1>1, <2>4, <3>3
            <4>2. Len(log[k].hash) <= Len(log[m].prev)
                BY <2>4, <2>6, <4>1 DEF Follows
            <4>3. Len(log[k].hash) \in Nat
                BY <1>1, RowGrows, LenProperties
            <4> QED
                BY <2>5, <4>2, <4>3
        <3> QED
            BY <1>1, <2>4, <3>1, <3>2, <3>3
    <2>7. Len(log) + 1 - 1 = Len(log)
        BY <1>1
    <2> QED
        BY <2>4, <2>5, <2>6, <2>7 DEF Follows
<1> QED
    BY <1>2, <1>3

\* The rows entry wrote and how they follow each other.
RowsFine == \A i \in DOMAIN log : RowFine(log[i]) /\ Follows(log[i].tenant, log[i].prev, i)

\* entry's INSERT adds a row like the others, whose hash is too long to be the one
\* an orphan names.
LEMMA AppendKeepsRows ==
    ASSUME LogIsSeq, RowsFine, NEW c \in Calls, AppendEntry(c),
           call[c].tenant \in Tenants, call[c].prev \in Seq(Links),
           Follows(call[c].tenant, call[c].prev, Len(log) + 1)
    PROVE  LogIsSeq' /\ RowsFine' /\ (Scar => Scar')
<1> DEFINE n == Len(log) + 1
<1>1. /\ LogIsSeq'
      /\ Len(log) \in Nat /\ DOMAIN log = 1 .. Len(log)
      /\ DOMAIN log' = 1 .. n
      /\ \A i \in 1 .. Len(log) : log'[i] = log[i]
      /\ log'[n].tenant = call[c].tenant
      /\ log'[n].prev = call[c].prev
      /\ log'[n].hash = Hash(call[c].tenant, c, call[c].prev)
      /\ log'[n] = [tenant |-> log'[n].tenant, body |-> log'[n].body,
                    prev |-> log'[n].prev, hash |-> log'[n].hash,
                    key |-> log'[n].key, rotates |-> log'[n].rotates]
    BY AppendGrows
<1>2. RowFine(log'[n])
    BY <1>1 DEF RowFine
<1>3. ASSUME NEW i \in 1 .. Len(log), NEW k \in 1 .. i - 1, log'[k].tenant = log'[i].tenant
      PROVE  Len(log'[k].hash) <= Len(log'[i].prev)
    <2>1. i \in DOMAIN log /\ k \in 1 .. Len(log)
        BY <1>1
    <2>2. log'[i] = log[i] /\ log'[k] = log[k]
        BY <1>1, <2>1
    <2> QED
        BY <1>3, <2>1, <2>2 DEF RowsFine, Follows
<1>4. RowsFine'
    <2>1. ASSUME NEW k \in 1 .. n - 1, log'[k].tenant = log'[n].tenant
          PROVE  Len(log'[k].hash) <= Len(log'[n].prev)
        BY <1>1, <2>1 DEF Follows
    <2>2. \A i \in DOMAIN log' : \A k \in 1 .. i - 1 : log'[k].tenant = log'[i].tenant =>
              Len(log'[k].hash) <= Len(log'[i].prev)
        <3>1. \A i \in DOMAIN log' : i \in 1 .. Len(log) \/ i = n
            BY <1>1
        <3> HIDE DEF n
        <3> QED
            BY <1>3, <2>1, <3>1
    <2>3. \A i \in DOMAIN log' : RowFine(log'[i])
        BY <1>1, <1>2 DEF RowsFine
    <2> QED
        BY <2>2, <2>3 DEF RowsFine, Follows
<1>5. ASSUME Scar
      PROVE  Scar'
    <2>1. PICK i \in 1 .. Len(log) : log[i].body = "altered" \/ Orphan(i)
        BY <1>1, <1>5 DEF Scar
    <2>2. i \in DOMAIN log' /\ log'[i] = log[i]
        BY <1>1
    <2>3. CASE log[i].body = "altered"
        BY <2>2, <2>3 DEF Scar
    <2>4. CASE Orphan(i)
        <3>1. ASSUME log[i].tenant = call[c].tenant
              PROVE  log'[n].hash # log[i].prev
            <4>1. Len(log[i].hash) <= Len(call[c].prev)
                BY <1>1, <3>1 DEF Follows
            <4>2. Len(log[i].hash) = Len(log[i].prev) + 1 /\ Len(log[i].prev) \in Nat
                BY <1>1, RowGrows DEF RowsFine
            <4>3. Len(log'[n].hash) = Len(call[c].prev) + 1 /\ Len(call[c].prev) \in Nat
                BY <1>1, HashGrows
            <4> QED
                BY <4>1, <4>2, <4>3
        <3>2. ASSUME NEW j \in DOMAIN log', log'[j].tenant = log[i].tenant
              PROVE  log'[j].hash # log[i].prev
            <4>1. CASE j \in 1 .. Len(log)
                BY <1>1, <2>4, <3>2, <4>1 DEF Orphan
            <4>2. CASE j = n
                BY <1>1, <3>1, <3>2, <4>2
            <4> QED
                BY <1>1, <4>1, <4>2
        <3>3. Orphan(i)'
            BY <2>2, <2>4, <3>2 DEF Orphan
        <3> QED
            BY <2>2, <3>3 DEF Scar
    <2> QED
        BY <2>1, <2>3, <2>4
<1> QED
    BY <1>1, <1>4, <1>5

\* An altered row keeps its place in the chain, and the alteration is a scar.
LEMMA AlterScars ==
    ASSUME LogIsSeq, RowsFine, NEW i \in DOMAIN log,
           log' = [log EXCEPT ![i].body = "altered"]
    PROVE  /\ LogIsSeq' /\ RowsFine' /\ Scar'
           /\ \A t, prev : Follows(t, prev, Len(log) + 1) => Follows(t, prev, Len(log) + 1)'
           /\ Len(log') = Len(log)
<1>1. Len(log) \in Nat /\ DOMAIN log = 1 .. Len(log) /\ DOMAIN log' = 1 .. Len(log)
    BY LenProperties DEF LogIsSeq
<1>2. LogIsSeq' /\ Len(log') = Len(log)
    <2> DEFINE T == {log'[j] : j \in DOMAIN log'}
    <2>1. \A j \in 1 .. Len(log) : log'[j] \in T
        BY <1>1
    <2>2. log' = [j \in 1 .. Len(log) |-> log'[j]]
        BY <1>1
    <2> HIDE DEF T
    <2>3. log' \in [1 .. Len(log) -> T]
        BY <2>1, <2>2
    <2>4. log' \in Seq(T)
        BY <1>1, <2>3, SeqDef
    <2>5. Len(log') \in Nat /\ DOMAIN log' = 1 .. Len(log')
        BY <2>4, LenProperties
    <2> QED
        BY <1>1, <2>4, <2>5 DEF LogIsSeq, T
<1>3. log'[i] = [log[i] EXCEPT !.body = "altered"] /\ \A j \in 1 .. Len(log) : j # i => log'[j] = log[j]
    BY <1>1
<1>4. log[i] = [tenant |-> log[i].tenant, body |-> log[i].body, prev |-> log[i].prev,
                hash |-> log[i].hash, key |-> log[i].key, rotates |-> log[i].rotates]
    BY DEF RowsFine, RowFine
<1>5. log'[i] = [tenant |-> log[i].tenant, body |-> "altered", prev |-> log[i].prev,
                 hash |-> log[i].hash, key |-> log[i].key, rotates |-> log[i].rotates]
    BY <1>3, <1>4
<1>6. /\ log'[i].body = "altered"
      /\ \A j \in 1 .. Len(log) : /\ log'[j].tenant = log[j].tenant
                                  /\ log'[j].prev = log[j].prev
                                  /\ log'[j].hash = log[j].hash
    BY <1>3, <1>5
<1>7. ASSUME NEW t, NEW prev, NEW n \in 1 .. Len(log) + 1, Follows(t, prev, n)
      PROVE  Follows(t, prev, n)'
    BY <1>1, <1>6, <1>7 DEF Follows
<1>8. \A j \in 1 .. Len(log) : RowFine(log'[j])
    BY <1>1, <1>3, <1>5 DEF RowsFine, RowFine
<1>9. ASSUME NEW j \in 1 .. Len(log), NEW k \in 1 .. j - 1, log'[k].tenant = log'[j].tenant
      PROVE  Len(log'[k].hash) <= Len(log'[j].prev)
    <2>1. Follows(log[j].tenant, log[j].prev, j)
        BY <1>1 DEF RowsFine
    <2>2. k \in 1 .. Len(log)
        BY <1>1
    <2> QED
        BY <1>6, <1>9, <2>1, <2>2 DEF Follows
<1>10. RowsFine'
    BY <1>1, <1>8, <1>9 DEF RowsFine, Follows
<1>11. Scar'
    BY <1>1, <1>6 DEF Scar
<1>12. Len(log) + 1 \in 1 .. Len(log) + 1
    BY <1>1
<1> QED
    BY <1>2, <1>7, <1>10, <1>11, <1>12

\* A cut moves the rows after it up by one, and orphans the tenant's next row: the
\* rows before the cut have shorter hashes than the one it names, those after it longer.
LEMMA CutScars ==
    ASSUME LogIsSeq, RowsFine, NEW i \in DOMAIN log, log' = Without(i)
    PROVE  /\ LogIsSeq' /\ RowsFine'
           /\ Len(log) \in Nat /\ Len(log') = Len(log) - 1
           /\ \A t, prev : Follows(t, prev, Len(log) + 1) =>
                  \A k \in 1 .. Len(log) - 1 :
                      log'[k].tenant = t => Len(log'[k].hash) <= Len(prev)
           /\ i # Max(RowsOf(log[i].tenant)) => Scar'
<1> DEFINE old(j) == IF j < i THEN j ELSE j + 1
<1>1. Len(log) \in Nat /\ DOMAIN log = 1 .. Len(log) /\ i \in 1 .. Len(log)
    BY LenProperties DEF LogIsSeq
<1>2. /\ DOMAIN log' = 1 .. Len(log) - 1
      /\ \A j \in 1 .. Len(log) - 1 : log'[j] = log[old(j)]
    BY DEF Without
<1>3. \A j \in 1 .. Len(log) - 1 : old(j) \in 1 .. Len(log) /\ old(j) # i
    BY <1>1
<1>4. \A j, k \in 1 .. Len(log) - 1 : k < j => old(k) < old(j)
    BY <1>1
<1>5. LogIsSeq' /\ Len(log') = Len(log) - 1
    <2> DEFINE T == {log'[j] : j \in DOMAIN log'}
    <2>1. \A j \in 1 .. Len(log) - 1 : log'[j] \in T
        BY <1>2
    <2>2. log' = [j \in 1 .. Len(log) - 1 |-> log'[j]]
        BY <1>2 DEF Without
    <2> HIDE DEF T
    <2>3. log' \in [1 .. Len(log) - 1 -> T] /\ Len(log) - 1 \in Nat
        BY <1>1, <2>1, <2>2
    <2>4. log' \in Seq(T)
        BY <2>3, SeqDef
    <2>5. Len(log') \in Nat /\ DOMAIN log' = 1 .. Len(log')
        BY <2>4, LenProperties
    <2>6. Len(log') = Len(log) - 1
        BY <1>2, <2>3, <2>5
    <2> QED
        BY <2>4, <2>6 DEF LogIsSeq, T
<1> HIDE DEF old
<1>6. ASSUME NEW j \in 1 .. Len(log) - 1, NEW k \in 1 .. j - 1, log'[k].tenant = log'[j].tenant
      PROVE  Len(log'[k].hash) <= Len(log'[j].prev)
    <2>1. k \in 1 .. Len(log) - 1 /\ k < j
        BY <1>1
    <2>2. old(j) \in 1 .. Len(log) /\ old(k) \in 1 .. old(j) - 1
        BY <1>1, <1>3, <1>4, <2>1
    <2>3. log'[j] = log[old(j)] /\ log'[k] = log[old(k)]
        BY <1>2, <2>1
    <2> QED
        BY <1>1, <1>6, <2>2, <2>3 DEF RowsFine, Follows
<1>7. RowsFine'
    <2>1. \A j \in DOMAIN log' : RowFine(log'[j])
        BY <1>1, <1>2, <1>3 DEF RowsFine
    <2> QED
        BY <1>2, <1>6, <2>1 DEF RowsFine, Follows
<1>8. ASSUME NEW t, NEW prev, Follows(t, prev, Len(log) + 1),
             NEW k \in 1 .. Len(log) - 1, log'[k].tenant = t
      PROVE  Len(log'[k].hash) <= Len(prev)
    <2>1. old(k) \in 1 .. (Len(log) + 1) - 1
        BY <1>1, <1>3
    <2> QED
        BY <1>2, <1>8, <2>1 DEF Follows
<1>9. ASSUME i # Max(RowsOf(log[i].tenant))
      PROVE  Scar'
    <2> DEFINE rows == RowsOf(log[i].tenant)
               later == {j \in rows : j > i}
    <2>1. rows \in SUBSET (1 .. Len(log)) /\ i \in rows
        BY <1>1 DEF RowsOf
    <2>2. Max(rows) \in rows /\ i <= Max(rows)
        <3> HIDE DEF rows
        <3> QED
            BY <1>1, <2>1, MaxIsGreatest
    <2>3. later # {} /\ later \in SUBSET Nat
        <3> HIDE DEF rows
        <3>1. Max(rows) \in 1 .. Len(log) /\ Max(rows) > i
            BY <1>1, <1>9, <2>1, <2>2 DEF rows
        <3> QED
            BY <1>1, <2>1, <2>2, <3>1
    <2>4. PICK n \in later : \A j \in later : n <= j
        <3> HIDE DEF later
        <3> QED
            BY <2>3, MinIsLeast
    <2>5. n \in 1 .. Len(log) /\ n > i /\ log[n].tenant = log[i].tenant
        BY <1>1, <2>4 DEF RowsOf
    <2>6. \A j \in 1 .. Len(log) : j > i /\ log[j].tenant = log[i].tenant => n <= j
        BY <1>1, <2>4 DEF RowsOf
    <2> HIDE DEF later, rows
    <2>7. Len(log[i].hash) <= Len(log[n].prev)
        <3>1. i \in 1 .. n - 1 /\ Follows(log[n].tenant, log[n].prev, n)
            BY <1>1, <2>5 DEF RowsFine
        <3> QED
            BY <2>5, <3>1 DEF Follows
    <2>8. \A j \in 1 .. Len(log) :
              /\ Len(log[j].prev) \in Nat /\ Len(log[j].hash) = Len(log[j].prev) + 1
        BY <1>1, RowGrows DEF RowsFine
    <2>9. log[n].prev # Zero
        <3>1. Len(log[n].prev) # 0
            BY <1>1, <2>5, <2>7, <2>8
        <3> QED
            BY <3>1, EmptySeq DEF Zero
    <2>10. ASSUME NEW j \in 1 .. Len(log), j # i, log[j].tenant = log[i].tenant
           PROVE  log[j].hash # log[n].prev
        <3>1. CASE j < i
            <4>1. j \in 1 .. i - 1 /\ Follows(log[i].tenant, log[i].prev, i)
                BY <1>1, <3>1 DEF RowsFine
            <4>2. Len(log[j].hash) <= Len(log[i].prev)
                BY <2>10, <4>1 DEF Follows
            <4>3. Len(log[j].hash) < Len(log[n].prev)
                BY <1>1, <2>5, <2>7, <2>8, <4>2
            <4> QED
                BY <2>5, <2>8, <4>3
        <3>2. CASE j = n
            BY <2>5, <2>8, <3>2
        <3>3. CASE j > n
            <4>1. n \in 1 .. j - 1 /\ Follows(log[j].tenant, log[j].prev, j)
                BY <1>1, <2>5, <3>3 DEF RowsFine
            <4>2. Len(log[n].hash) <= Len(log[j].prev)
                BY <2>5, <2>10, <4>1 DEF Follows
            <4>3. Len(log[n].prev) < Len(log[j].hash)
                BY <2>5, <2>8, <4>2
            <4> QED
                BY <2>5, <2>8, <4>3
        <3>4. j < i \/ j = n \/ j > n
            BY <1>1, <2>5, <2>6, <2>10
        <3> QED
            BY <3>1, <3>2, <3>3, <3>4
    <2>11. n - 1 \in 1 .. Len(log) - 1 /\ old(n - 1) = n
        BY <1>1, <2>5 DEF old
    <2>12. log'[n - 1] = log[n]
        BY <1>2, <2>11
    <2>13. \A j \in DOMAIN log' : log'[j].tenant = log[n].tenant => log'[j].hash # log[n].prev
        BY <1>2, <1>3, <2>5, <2>10
    <2>14. ASSUME NEW m, m = n - 1
           PROVE  Orphan(m)'
        BY <2>9, <2>12, <2>13, <2>14 DEF Orphan
    <2> QED
        BY <1>2, <2>11, <2>14 DEF Scar
<1> QED
    BY <1>1, <1>5, <1>7, <1>8, <1>9

\* EditInv is inductive: only a cut at the end of a chain leaves no scar, and no
\* later entry heals one.
LEMMA EditInvStep ==
    ASSUME EditInv, [Next]_vars
    PROVE  EditInv'
<1> USE DEF RowsFine
<1>1. ASSUME NEW c \in Calls, ReadPrev(c)
      PROVE  EditInv'
    <2>1. PICK t \in Tenants, b \in BOOLEAN :
              call' = [call EXCEPT ![c] = [tenant |-> t, rotates |-> b, key |-> key,
                                           prev |-> LastHash(t)]]
        BY <1>1 DEF ReadPrev
    <2>2. UNCHANGED <<log, edits, threads>> /\ at' = [at EXCEPT ![c] = "read"]
        BY <1>1 DEF ReadPrev
    <2>3. EditsAreSeq' /\ CallsPlaced'
        BY <2>1, <2>2 DEF EditInv, EditsAreSeq, CallsPlaced
    <2> SUFFICES ASSUME threads = 1
                 PROVE  EditInv'
        BY <2>2, <2>3 DEF EditInv
    <2>4. \A d \in Calls : at[d] # "read"
        BY <1>1, OneReader
    <2>5. \A d \in Calls : at'[d] = "read" => d = c
        BY <2>2, <2>4 DEF EditInv, CallsPlaced
    <2>6. call'[c].tenant = t /\ call'[c].prev = LastHash(t)
        BY <2>1 DEF EditInv, CallsPlaced
    <2>7. LogIsSeq /\ RowsFine /\ (Traceable => Scar)
        BY DEF EditInv
    <2>8. LastHash(t) \in Seq(Links) /\ Follows(t, LastHash(t), Len(log) + 1)
        BY <2>7, LastFollows
    <2>9. \A u, prev, n : Follows(u, prev, n)' <=> Follows(u, prev, n)
        BY <2>2 DEF Follows
    <2>10. \A d \in Calls : at'[d] = "read" =>
               /\ call'[d].tenant \in Tenants /\ call'[d].prev \in Seq(Links)
               /\ \A k \in 1 .. Len(log) + 1 - 1 : log[k].tenant = call'[d].tenant =>
                      Len(log[k].hash) <= Len(call'[d].prev)
        BY <2>5, <2>6, <2>8 DEF Follows
    <2>11. LogIsSeq' /\ RowsFine' /\ (Traceable => Scar)'
        BY <2>2, <2>7, SameLog DEF Follows, Traceable, Untouched, Scar, Orphan
    <2> QED
        BY <2>2, <2>3, <2>5, <2>10, <2>11 DEF EditInv, Follows
<1>2. ASSUME NEW c \in Calls, AppendEntry(c)
      PROVE  EditInv'
    <2>1. /\ UNCHANGED <<edits, threads, call>> /\ at[c] = "read"
          /\ at' = [at EXCEPT ![c] = "done"]
        BY <1>2 DEF AppendEntry
    <2>2. EditsAreSeq' /\ CallsPlaced'
        BY <2>1 DEF EditInv, EditsAreSeq, CallsPlaced
    <2> SUFFICES ASSUME threads = 1
                 PROVE  EditInv'
        BY <2>1, <2>2 DEF EditInv
    <2>3. /\ LogIsSeq /\ RowsFine /\ (Traceable => Scar)
          /\ call[c].tenant \in Tenants /\ call[c].prev \in Seq(Links)
          /\ Follows(call[c].tenant, call[c].prev, Len(log) + 1)
        BY <2>1 DEF EditInv
    <2>4. LogIsSeq' /\ RowsFine' /\ (Scar => Scar')
        BY <1>2, <2>3, AppendKeepsRows
    <2>5. \A d \in Calls : at'[d] # "read"
        BY <2>1 DEF EditInv, CallsPlaced
    <2>6. Traceable' => Traceable
        BY <2>1 DEF Traceable, Untouched
    <2> QED
        BY <2>2, <2>3, <2>4, <2>5, <2>6 DEF EditInv
<1>3. ASSUME UNCHANGED <<log, edits, threads, call>>,
             \/ at' = at
             \/ \E c \in Calls : at' = [at EXCEPT ![c] = "failed"]
      PROVE  EditInv'
    <2>1. \A d \in Calls : at'[d] = "read" => at[d] = "read"
        BY <1>3 DEF EditInv, CallsPlaced
    <2>2. EditsAreSeq' /\ CallsPlaced'
        BY <1>3 DEF EditInv, EditsAreSeq, CallsPlaced
    <2>3. threads = 1 => LogIsSeq' /\ RowsFine' /\ (Traceable => Scar)'
        BY <1>3, SameLog DEF EditInv, Follows, Traceable, Untouched, Scar, Orphan
    <2> QED
        BY <1>3, <2>1, <2>2, <2>3 DEF EditInv, Follows
<1>4. CASE EditRow
    <2>1. UNCHANGED <<at, call, threads>>
        BY <1>4 DEF EditRow
    <2>2. EditsAreSeq' /\ CallsPlaced'
        BY <1>4, <2>1, EditTouches DEF EditInv, CallsPlaced
    <2> SUFFICES ASSUME threads = 1
                 PROVE  EditInv'
        BY <2>1, <2>2 DEF EditInv
    <2>3. LogIsSeq /\ RowsFine
        BY DEF EditInv
    <2>4. PICK i \in DOMAIN log :
              \/ log' = [log EXCEPT ![i].body = "altered"]
              \/ /\ log' = Without(i)
                 /\ edits' = Append(edits, IF i = Max(RowsOf(log[i].tenant)) THEN "tail" ELSE "cut")
        BY <1>4 DEF EditRow
    <2>5. CASE log' = [log EXCEPT ![i].body = "altered"]
        <3>1. /\ LogIsSeq' /\ RowsFine' /\ Scar'
              /\ \A t, prev : Follows(t, prev, Len(log) + 1) => Follows(t, prev, Len(log) + 1)'
              /\ Len(log') = Len(log)
            BY <2>3, <2>5, AlterScars
        <3>2. \A c \in Calls : at[c] = "read" =>
                  \A k \in 1 .. Len(log') + 1 - 1 : log'[k].tenant = call[c].tenant =>
                      Len(log'[k].hash) <= Len(call[c].prev)
            <4>1. \A c \in Calls : at[c] = "read" =>
                      Follows(call[c].tenant, call[c].prev, Len(log) + 1)'
                BY <2>1, <3>1 DEF EditInv
            <4> QED
                BY <2>1, <3>1, <4>1 DEF Follows
        <3> QED
            BY <2>1, <2>2, <3>1, <3>2 DEF EditInv, Follows
    <2>6. CASE /\ log' = Without(i)
               /\ edits' = Append(edits, IF i = Max(RowsOf(log[i].tenant)) THEN "tail" ELSE "cut")
        <3>1. /\ LogIsSeq' /\ RowsFine'
              /\ Len(log) \in Nat /\ Len(log') = Len(log) - 1
              /\ \A t, prev : Follows(t, prev, Len(log) + 1) =>
                     \A k \in 1 .. Len(log) - 1 :
                         log'[k].tenant = t => Len(log'[k].hash) <= Len(prev)
              /\ i # Max(RowsOf(log[i].tenant)) => Scar'
            BY <2>3, <2>6, CutScars
        <3>2. \A c \in Calls : at[c] = "read" =>
                  \A k \in 1 .. Len(log') + 1 - 1 : log'[k].tenant = call[c].tenant =>
                      Len(log'[k].hash) <= Len(call[c].prev)
            BY <3>1 DEF EditInv
        <3>3. ASSUME i = Max(RowsOf(log[i].tenant))
              PROVE  ~Traceable'
            <4>1. edits' = Append(edits, "tail")
                BY <2>6, <3>3
            <4>2. DOMAIN edits' = 1 .. Len(edits) + 1 /\ edits'[Len(edits) + 1] = "tail" /\ Len(edits) \in Nat
                <5>1. edits \in Seq({"altered", "cut", "tail"})
                    BY DEF EditInv, EditsAreSeq
                <5> QED
                    BY <4>1, <5>1, AppendProperties, LenProperties
            <4> QED
                BY <4>2 DEF Traceable
        <3> QED
            BY <2>1, <2>2, <3>1, <3>2, <3>3 DEF EditInv, Follows
    <2> QED
        BY <2>4, <2>5, <2>6
<1> QED
    BY <1>1, <1>2, <1>3, <1>4 DEF Next, Quiet, LoseEntry, vars

\* On a runtime with one thread every verifier finds the edits of the database,
\* unless a row was cut off the end of a tenant's chain, with calls still appending
\* (verify_with_pool, verify_tenant, local_audit_verify).
THEOREM EditsFound == Spec => []EditsAreFound
<1>1. Init => EditInv
    BY DEF Init, EditInv, EditsAreSeq, CallsPlaced, LogIsSeq, Traceable, Untouched
<1>2. EditInv /\ [Next]_vars => EditInv'
    BY EditInvStep
<1>3. EditInv => EditsAreFound
    <2> SUFFICES ASSUME EditInv, threads = 1, Traceable
                 PROVE  \E t \in Tenants : \A found \in {LocalErrors(t), TenantErrors(t, NoKeys), TenantErrors(t, key)} :
                            found # {}
        BY DEF EditsAreFound, Traceable
    <2>1. PICK i \in DOMAIN log : log[i].body = "altered" \/ Orphan(i)
        BY DEF EditInv, Scar
    <2>2. RowFine(log[i]) /\ LogIsSeq
        BY DEF EditInv
    <2>3. ChainBroken(i) \/ HashBroken(i)
        BY <2>1, <2>2, ScarsShow
    <2>4. log[i].tenant \in Tenants /\ i \in RowsOf(log[i].tenant)
        BY <2>2 DEF RowFine, RowsOf
    <2>5. \A k : i \in LocalErrors(log[i].tenant) /\ i \in Errors(log[i].tenant, k)
        BY <2>3, <2>4 DEF LocalErrors, Errors
    <2>6. \A k : i \in TenantErrors(log[i].tenant, k)
        BY <2>5 DEF TenantErrors
    <2> QED
        BY <2>4, <2>5, <2>6
<1> QED
    BY <1>1, <1>2, <1>3, PTL DEF Spec
=============================================================================
