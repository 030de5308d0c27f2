---------------------------- MODULE StreamProofs ----------------------------
(***************************************************************************)
(* Proofs about what clients follow by polling (Bus) and about terminals,    *)
(* for any clients, rows, connections and callers.                          *)
(***************************************************************************)
EXTENDS Bus, Terminal, Extrema, SequenceTheorems, FiniteSetTheorems, TLAPS

-----------------------------------------------------------------------------
(* Streams: Bus implements OrderedFeed, for logs of any length.             *)
(*                                                                         *)
(* What a reader has got is what concerns it up to its last_id; what is      *)
(* fetched and not sent is, from there on, without a gap.  Rows that are     *)
(* inserted while a batch is sent are behind both.                           *)

\* Each table is a sequence of rows; nothing is needed of what is in them.
Logs ==
    /\ DOMAIN log = Tables
    /\ \A t \in Tables : \E S : log[t] \in Seq(S)

Shapes ==
    /\ conn \in [Readers -> [up : BOOLEAN, cursor : Nat, batch : SUBSET Nat]]
    /\ got \in [Readers -> SUBSET Nat]

\* last_id and the rows of the last query.
Cursors ==
    \A r \in Readers :
        /\ conn[r].cursor <= Len(log[FeedOf[r].table])
        /\ got[r] = {i \in Matching(r) : i <= conn[r].cursor}
        /\ conn[r].batch \subseteq {i \in Matching(r) : i > conn[r].cursor}
        /\ \A i \in Matching(r), j \in conn[r].batch :
               i > conn[r].cursor /\ i < j => i \in conn[r].batch

FeedInv == Logs /\ Shapes /\ Cursors

-----------------------------------------------------------------------------
(* The tables.                                                              *)

\* A row is inserted behind the others, which keep their ids.
LEMMA AppendRow ==
    ASSUME NEW s, NEW S, s \in Seq(S), NEW row
    PROVE  /\ Append(s, row) \in Seq(S \cup {row})
           /\ Len(s) \in Nat /\ Len(Append(s, row)) = Len(s) + 1
           /\ DOMAIN s = 1 .. Len(s) /\ DOMAIN Append(s, row) = 1 .. Len(s) + 1
           /\ \A i \in 1 .. Len(s) : Append(s, row)[i] = s[i]
<1>1. s \in Seq(S \cup {row})
    <2>1. S \subseteq S \cup {row}
        OBVIOUS
    <2> QED
        BY <2>1, SeqMonotonic
<1> QED
    BY <1>1, AppendProperties

LEMMA Positions ==
    ASSUME Logs, NEW r \in Readers
    PROVE  /\ Len(log[FeedOf[r].table]) \in Nat
           /\ Matching(r) \subseteq 1 .. Len(log[FeedOf[r].table])
<1>1. FeedOf[r].table \in Tables
    BY BusAssumption
<1>2. PICK S : log[FeedOf[r].table] \in Seq(S)
    BY <1>1 DEF Logs
<1> QED
    BY <1>2 DEF Matching

\* An INSERT grows what concerns a reader by the new row or not at all.
LEMMA InsertGrows ==
    ASSUME Logs, NEW table \in Tables, NEW row, Insert(table, row)
    PROVE  /\ Logs'
           /\ \A r \in Readers :
                LET n == Len(log[FeedOf[r].table])
                IN  /\ Len(log'[FeedOf[r].table]) \in Nat /\ n \in Nat
                    /\ n <= Len(log'[FeedOf[r].table])
                    /\ Matching(r) \subseteq 1 .. n
                    /\ \/ Matching(r)' = Matching(r)
                       \/ Matching(r)' = Matching(r) \cup {n + 1}
<1>1. /\ DOMAIN log' = Tables
      /\ log'[table] = Append(log[table], row)
      /\ \A t \in Tables \ {table} : log'[t] = log[t]
    BY DEF Logs, Insert
<1>2. PICK S : log[table] \in Seq(S)
    BY DEF Logs
<1>3. /\ Append(log[table], row) \in Seq(S \cup {row})
      /\ Len(log[table]) \in Nat /\ Len(Append(log[table], row)) = Len(log[table]) + 1
      /\ DOMAIN log[table] = 1 .. Len(log[table])
      /\ DOMAIN Append(log[table], row) = 1 .. Len(log[table]) + 1
      /\ \A i \in 1 .. Len(log[table]) : Append(log[table], row)[i] = log[table][i]
    BY <1>2, AppendRow
<1>4. Logs'
    BY <1>1, <1>3 DEF Logs
<1>5. ASSUME NEW r \in Readers
      PROVE  LET n == Len(log[FeedOf[r].table])
             IN  /\ Len(log'[FeedOf[r].table]) \in Nat /\ n \in Nat
                 /\ n <= Len(log'[FeedOf[r].table])
                 /\ Matching(r) \subseteq 1 .. n
                 /\ \/ Matching(r)' = Matching(r)
                    \/ Matching(r)' = Matching(r) \cup {n + 1}
    <2> DEFINE t == FeedOf[r].table
    <2>1. t \in Tables /\ Len(log[t]) \in Nat /\ Matching(r) \subseteq 1 .. Len(log[t])
        BY BusAssumption, Positions
    <2>2. CASE t # table
        <3>1. log'[t] = log[t]
            BY <1>1, <2>1, <2>2
        <3>2. Matching(r)' = Matching(r)
            BY <3>1 DEF Matching
        <3> QED
            BY <2>1, <3>1, <3>2
    <2>3. CASE t = table
        <3>1. Len(log'[t]) = Len(log[t]) + 1
            BY <1>1, <1>3, <2>3
        <3> DEFINE In(i) == Concerns(log'[table][i], FeedOf[r])
        <3>2. Matching(r)' = {i \in 1 .. Len(log[table]) + 1 : In(i)}
            BY <1>1, <1>3, <2>3 DEF Matching
        <3>3. Matching(r) = {i \in 1 .. Len(log[table]) : In(i)}
            BY <1>1, <1>3, <2>3 DEF Matching
        <3> HIDE DEF In
        <3>4. \/ Matching(r)' = Matching(r)
              \/ Matching(r)' = Matching(r) \cup {Len(log[table]) + 1}
            BY <1>3, <3>2, <3>3
        <3> QED
            BY <2>1, <2>3, <3>1, <3>4
    <2> QED
        BY <2>2, <2>3
<1> QED
    BY <1>4, <1>5

-----------------------------------------------------------------------------
(* The steps.                                                               *)

LEMMA InitFeed == Init => FeedInv /\ Feed!Init
<1> SUFFICES ASSUME Init
             PROVE  FeedInv /\ Feed!Init
    OBVIOUS
<1>1. Logs
    <2>1. \A t \in Tables : log[t] \in Seq({})
        BY DEF Init
    <2> QED
        BY <2>1 DEF Init, Logs
<1>2. ASSUME NEW r \in Readers
      PROVE  Matching(r) = {} /\ Len(log[FeedOf[r].table]) = 0
    BY BusAssumption DEF Init, Matching
<1>3. Shapes
    BY DEF Init, Shapes, Down
<1>4. Cursors
    BY <1>2 DEF Init, Cursors, Down
<1>5. Feed!Init
    BY <1>2 DEF Init, Feed!Init
<1> QED
    BY <1>1, <1>3, <1>4, <1>5 DEF FeedInv

\* A row is inserted: behind what was fetched and behind what was sent.
LEMMA InsertStep ==
    ASSUME FeedInv, NEW table \in Tables, NEW row, Insert(table, row), UNCHANGED feeds
    PROVE  FeedInv' /\ Feed!Grow
<1>1. /\ Logs'
      /\ \A r \in Readers :
            LET n == Len(log[FeedOf[r].table])
            IN  /\ Len(log'[FeedOf[r].table]) \in Nat /\ n \in Nat
                /\ n <= Len(log'[FeedOf[r].table])
                /\ Matching(r) \subseteq 1 .. n
                /\ \/ Matching(r)' = Matching(r)
                   \/ Matching(r)' = Matching(r) \cup {n + 1}
    BY InsertGrows DEF FeedInv
<1>2. conn' = conn /\ got' = got
    BY DEF feeds
<1>3. Shapes'
    BY <1>2 DEF FeedInv, Shapes
<1>4. Cursors'
    <2> SUFFICES ASSUME NEW r \in Readers
                 PROVE  /\ conn[r].cursor <= Len(log'[FeedOf[r].table])
                        /\ got[r] = {i \in Matching(r)' : i <= conn[r].cursor}
                        /\ conn[r].batch \subseteq {i \in Matching(r)' : i > conn[r].cursor}
                        /\ \A i \in Matching(r)', j \in conn[r].batch :
                               i > conn[r].cursor /\ i < j => i \in conn[r].batch
        BY <1>2 DEF Cursors
    <2> DEFINE n == Len(log[FeedOf[r].table])
    <2>1. /\ n \in Nat /\ Len(log'[FeedOf[r].table]) \in Nat
          /\ n <= Len(log'[FeedOf[r].table])
          /\ Matching(r) \subseteq 1 .. n
          /\ \/ Matching(r)' = Matching(r)
             \/ Matching(r)' = Matching(r) \cup {n + 1}
        BY <1>1
    <2>2. /\ conn[r].cursor \in Nat /\ conn[r].cursor <= n
          /\ got[r] = {i \in Matching(r) : i <= conn[r].cursor}
          /\ conn[r].batch \subseteq {i \in Matching(r) : i > conn[r].cursor}
          /\ \A i \in Matching(r), j \in conn[r].batch :
                 i > conn[r].cursor /\ i < j => i \in conn[r].batch
        BY DEF FeedInv, Shapes, Cursors
    <2> HIDE DEF n
    <2>3. conn[r].cursor <= Len(log'[FeedOf[r].table])
        BY <2>1, <2>2
    <2>4. got[r] = {i \in Matching(r)' : i <= conn[r].cursor}
        BY <2>1, <2>2
    <2>5. conn[r].batch \subseteq {i \in Matching(r)' : i > conn[r].cursor}
        BY <2>1, <2>2
    <2>6. ASSUME NEW i \in Matching(r)', NEW j \in conn[r].batch,
                 i > conn[r].cursor, i < j
          PROVE  i \in conn[r].batch
        BY <2>1, <2>2, <2>6
    <2> QED
        BY <2>3, <2>4, <2>5, <2>6
<1>5. Feed!Grow
    <2>1. \A r \in Readers :
            /\ Matching(r)' \in SUBSET Nat
            /\ Matching(r) \subseteq Matching(r)'
            /\ \A old \in Matching(r), new \in Matching(r)' \ Matching(r) : old < new
        BY <1>1
    <2> QED
        BY <1>2, <2>1 DEF Feed!Grow
<1> QED
    BY <1>1, <1>3, <1>4, <1>5 DEF FeedInv

\* The row that is sent is the first one the reader has not got.
LEMMA DeliverStep ==
    ASSUME FeedInv, NEW r \in Readers, Deliver(r)
    PROVE  FeedInv' /\ Feed!Take(r)
<1>1. PICK i \in conn[r].batch :
        /\ \A j \in conn[r].batch : i <= j
        /\ conn' = [conn EXCEPT ![r] = [up |-> TRUE, cursor |-> i, batch |-> @.batch \ {i}]]
        /\ got' = [got EXCEPT ![r] = @ \cup {i}]
    BY DEF Deliver
<1>2. log' = log /\ \A q \in Readers : Matching(q)' = Matching(q)
    BY DEF Deliver, Matching
<1>3. /\ conn[r].cursor \in Nat
      /\ got[r] = {k \in Matching(r) : k <= conn[r].cursor}
      /\ conn[r].batch \subseteq {k \in Matching(r) : k > conn[r].cursor}
      /\ \A k \in Matching(r), j \in conn[r].batch :
             k > conn[r].cursor /\ k < j => k \in conn[r].batch
      /\ Matching(r) \subseteq 1 .. Len(log[FeedOf[r].table])
      /\ Len(log[FeedOf[r].table]) \in Nat
    BY Positions DEF FeedInv, Shapes, Cursors
<1>4. i \in Matching(r) /\ i \in Nat /\ i <= Len(log[FeedOf[r].table])
      /\ i > conn[r].cursor
    BY <1>1, <1>3
<1>5. \A k \in Matching(r) : k > conn[r].cursor => i <= k
    BY <1>1, <1>3, <1>4
<1>6. Shapes'
    <2>1. [up |-> TRUE, cursor |-> i, batch |-> conn[r].batch \ {i}]
            \in [up : BOOLEAN, cursor : Nat, batch : SUBSET Nat]
        BY <1>3, <1>4
    <2> QED
        BY <1>1, <1>4, <2>1 DEF FeedInv, Shapes
<1>7. /\ conn'[r].cursor = i /\ conn'[r].batch = conn[r].batch \ {i}
      /\ got'[r] = got[r] \cup {i}
      /\ \A q \in Readers \ {r} : conn'[q] = conn[q] /\ got'[q] = got[q]
    BY <1>1 DEF FeedInv, Shapes
<1>8. Cursors'
    <2>1. got'[r] = {k \in Matching(r) : k <= i}
        BY <1>3, <1>4, <1>5, <1>7
    <2>2. conn'[r].batch \subseteq {k \in Matching(r) : k > i}
        BY <1>1, <1>3, <1>4, <1>7
    <2>3. \A k \in Matching(r), j \in conn'[r].batch : k > i /\ k < j => k \in conn'[r].batch
        BY <1>3, <1>4, <1>7
    <2>4. ASSUME NEW q \in Readers, q # r
          PROVE  /\ conn'[q].cursor <= Len(log[FeedOf[q].table])
                 /\ got'[q] = {k \in Matching(q) : k <= conn'[q].cursor}
                 /\ conn'[q].batch \subseteq {k \in Matching(q) : k > conn'[q].cursor}
                 /\ \A k \in Matching(q), j \in conn'[q].batch :
                        k > conn'[q].cursor /\ k < j => k \in conn'[q].batch
        BY <1>7, <2>4 DEF FeedInv, Cursors
    <2> QED
        <3> SUFFICES ASSUME NEW q \in Readers
                     PROVE  /\ conn'[q].cursor <= Len(log[FeedOf[q].table])
                            /\ got'[q] = {k \in Matching(q) : k <= conn'[q].cursor}
                            /\ conn'[q].batch \subseteq {k \in Matching(q) : k > conn'[q].cursor}
                            /\ \A k \in Matching(q), j \in conn'[q].batch :
                                   k > conn'[q].cursor /\ k < j => k \in conn'[q].batch
            BY <1>2 DEF Cursors
        <3>1. CASE q = r
            BY <1>4, <1>7, <2>1, <2>2, <2>3, <3>1
        <3>2. CASE q # r
            BY <2>4, <3>2
        <3> QED
            BY <3>1, <3>2
<1>9. Feed!Take(r)
    <2>1. i \in Matching(r) \ got[r]
        BY <1>3, <1>4
    <2>2. \A j \in Matching(r) \ got[r] : i <= j
        BY <1>3, <1>5
    <2>3. UNCHANGED [q \in Readers |-> Matching(q)]
        BY <1>2
    <2> QED
        BY <1>1, <2>1, <2>2, <2>3 DEF Feed!Take
<1> QED
    BY <1>2, <1>6, <1>8, <1>9 DEF FeedInv, Logs

\* A query returns what lies behind last_id.
LEMMA FetchStep ==
    ASSUME FeedInv, NEW r \in Readers, Fetch(r)
    PROVE  FeedInv' /\ UNCHANGED Feed!vars
<1>1. /\ conn' = [conn EXCEPT ![r].batch = {i \in Matching(r) : i > conn[r].cursor}]
      /\ UNCHANGED <<log, got>>
    BY DEF Fetch
<1>2. \A q \in Readers : Matching(q)' = Matching(q)
    BY <1>1 DEF Matching
<1>3. Matching(r) \subseteq Nat
    BY Positions DEF FeedInv
<1>4. Shapes'
    BY <1>1, <1>3 DEF FeedInv, Shapes
<1>5. Cursors'
    BY <1>1, <1>2 DEF FeedInv, Shapes, Cursors
<1> QED
    BY <1>1, <1>2, <1>4, <1>5 DEF FeedInv, Logs, Feed!vars

\* A stream begins.
LEMMA ConnectStep ==
    ASSUME FeedInv, NEW r \in Readers, Connect(r)
    PROVE  FeedInv' /\ UNCHANGED Feed!vars
<1>1. conn' = [conn EXCEPT ![r].up = TRUE] /\ UNCHANGED <<log, got>>
    BY DEF Connect
<1>2. \A q \in Readers : Matching(q)' = Matching(q)
    BY <1>1 DEF Matching
<1>3. Shapes'
    BY <1>1 DEF FeedInv, Shapes
<1>4. \A q \in Readers : conn'[q].cursor = conn[q].cursor /\ conn'[q].batch = conn[q].batch
    BY <1>1 DEF FeedInv, Shapes
<1>5. Cursors'
    BY <1>1, <1>2, <1>4 DEF FeedInv, Cursors
<1> QED
    BY <1>1, <1>2, <1>3, <1>5 DEF FeedInv, Logs, Feed!vars

\* Connections end, one of them or all: what they were at is forgotten.
LEMMA Dropped ==
    ASSUME FeedInv, NEW D \in SUBSET Readers,
           conn' = [r \in Readers |-> IF r \in D THEN Down ELSE conn[r]],
           got' = [r \in Readers |-> IF r \in D THEN {} ELSE got[r]],
           UNCHANGED log
    PROVE  FeedInv' /\ UNCHANGED [r \in Readers |-> Matching(r)]
<1>1. \A q \in Readers : Matching(q)' = Matching(q)
    BY DEF Matching
<1>2. Shapes'
    BY DEF FeedInv, Shapes, Down
<1>3. Cursors'
    <2>1. ASSUME NEW q \in Readers
          PROVE  Len(log[FeedOf[q].table]) \in Nat /\ {i \in Matching(q) : i <= 0} = {}
        BY Positions DEF FeedInv
    <2> QED
        BY <1>1, <2>1 DEF FeedInv, Cursors, Down
<1> QED
    BY <1>1, <1>2, <1>3 DEF FeedInv, Logs

LEMMA LoseStep ==
    ASSUME FeedInv, NEW r \in Readers, Lose(r)
    PROVE  FeedInv' /\ Feed!Restart(r)
<1>1. /\ conn' = [q \in Readers |-> IF q \in {r} THEN Down ELSE conn[q]]
      /\ got' = [q \in Readers |-> IF q \in {r} THEN {} ELSE got[q]]
      /\ UNCHANGED log
    BY DEF Lose, FeedInv, Shapes
<1>2. FeedInv' /\ UNCHANGED [q \in Readers |-> Matching(q)]
    BY <1>1, Dropped
<1> QED
    BY <1>2 DEF Lose, Feed!Restart

LEMMA CrashStep ==
    ASSUME FeedInv, Crash
    PROVE  FeedInv' /\ Feed!RestartAll
<1>1. /\ conn' = [q \in Readers |-> IF q \in Readers THEN Down ELSE conn[q]]
      /\ got' = [q \in Readers |-> IF q \in Readers THEN {} ELSE got[q]]
      /\ UNCHANGED log
    BY DEF Crash
<1>2. FeedInv' /\ UNCHANGED [q \in Readers |-> Matching(q)]
    BY <1>1, Dropped
<1> QED
    BY <1>2 DEF Crash, Feed!RestartAll

\* What touches neither a table nor a stream.
LEMMA ElsewhereStep ==
    ASSUME FeedInv, UNCHANGED <<log, feeds>>
    PROVE  FeedInv' /\ UNCHANGED Feed!vars
<1>1. \A q \in Readers : Matching(q)' = Matching(q)
    BY DEF Matching
<1> QED
    BY <1>1 DEF FeedInv, Logs, Shapes, Cursors, feeds, Feed!vars

LEMMA StepFeed == FeedInv /\ [Next]_vars => FeedInv' /\ [Feed!Next]_(Feed!vars)
<1> SUFFICES ASSUME FeedInv, [Next]_vars
             PROVE  FeedInv' /\ [Feed!Next]_(Feed!vars)
    OBVIOUS
<1>1. ASSUME NEW m \in Posts, Post(m)
      PROVE  FeedInv' /\ Feed!Next
    BY <1>1, InsertStep DEF Post, Tables, feeds, Feed!Next
<1>2. ASSUME NEW machine, AppendAudit(machine)
      PROVE  FeedInv' /\ Feed!Next
    BY <1>2, InsertStep DEF AppendAudit, Tables, feeds, Feed!Next
<1>3. ASSUME NEW q \in Questions, AskOracle(q) \/ OracleAnswers(q)
      PROVE  FeedInv' /\ Feed!Next
    BY <1>3, InsertStep DEF AskOracle, OracleAnswers, Tables, feeds, Feed!Next
<1>4. ASSUME NEW c, Announce(c)
      PROVE  FeedInv' /\ Feed!Next
    BY <1>4, InsertStep DEF Announce, Tables, feeds, Feed!Next
<1>5. ASSUME NEW r \in Readers, Connect(r) \/ Fetch(r)
      PROVE  FeedInv' /\ UNCHANGED Feed!vars
    BY <1>5, ConnectStep, FetchStep
<1>6. ASSUME NEW r \in Readers, Deliver(r) \/ Lose(r)
      PROVE  FeedInv' /\ Feed!Next
    BY <1>6, DeliverStep, LoseStep DEF Feed!Next
<1>7. CASE Crash
    BY <1>7, CrashStep DEF Feed!Next
<1>8. CASE Tick
    BY <1>8, ElsewhereStep DEF Tick
<1>9. ASSUME NEW p \in Pollers, Poll(p)
      PROVE  FeedInv' /\ UNCHANGED Feed!vars
    BY <1>9, ElsewhereStep DEF Poll
<1>10. ASSUME NEW q \in Questions, GetAnswer(q)
       PROVE  FeedInv' /\ UNCHANGED Feed!vars
    BY <1>10, ElsewhereStep DEF GetAnswer
<1>11. ASSUME NEW c, Store(c) \/ Reflect(c) \/ StoreFails(c) \/ AnnounceFails(c)
       PROVE  FeedInv' /\ UNCHANGED Feed!vars
    BY <1>11, ElsewhereStep DEF Store, Reflect, StoreFails, AnnounceFails
<1>12. ASSUME NEW t \in Tasks, TaskChanges(t)
       PROVE  FeedInv' /\ UNCHANGED Feed!vars
    BY <1>12, ElsewhereStep DEF TaskChanges
<1>13. ASSUME NEW x \in Requests, Request(x) \/ Settle(x)
       PROVE  FeedInv' /\ UNCHANGED Feed!vars
    BY <1>13, ElsewhereStep DEF Request, Settle
<1>14. ASSUME NEW w \in Watchers, Watching(w)
       PROVE  FeedInv' /\ UNCHANGED Feed!vars
    BY <1>14, ElsewhereStep DEF Watching, WatchTask, PollTask, WatchRequests, PollRequests
<1>15. CASE UNCHANGED vars
    BY <1>15, ElsewhereStep DEF vars
<1> QED
    BY <1>1, <1>2, <1>3, <1>4, <1>5, <1>6, <1>7, <1>8, <1>9, <1>10, <1>11, <1>12, <1>13,
       <1>14, <1>15 DEF Next, Reading, Asking, Calling

\* Every stream delivers the rows that concern it from the first one, in order, none
\* missing and none twice, on every connection and whatever is inserted, broken or
\* restarted in between (stream_messages, audit_stream).
THEOREM FeedsImplementOrderedFeed == Spec => FeedIsFaithful
    BY InitFeed, StepFeed, PTL DEF Spec, FeedIsFaithful, Feed!Spec

-----------------------------------------------------------------------------
(* Rows and their announcements.                                             *)
(*                                                                         *)
(* A key once written keeps a row, whoever replaces it; a call is answered    *)
(* ok by the step that announces it; reflexions write under keys that no     *)
(* other call uses.                                                         *)

AllCalls == Calls \cup Reports \cup Reflexions

RecordInv ==
    /\ DOMAIN call = AllCalls
    /\ \A c \in AllCalls :
           /\ call[c] = [at |-> call[c].at, key |-> call[c].key]
           /\ call[c].at \in {"stored", "ok"} => Found(c)
           /\ c \in Reflexions => call[c].at # "stored"
    /\ \A c \in Calls \cup Reports : Announced(c) <=> call[c].at = "ok"
    /\ \A r, s \in rows : r.key = s.key => r = s
    /\ \A r \in rows : r.key[1] = "reflexion" =>
           /\ r.by \in Reflexions /\ call[r.by].at = "ok"
           /\ r.key = <<"reflexion", TaskOf[r.by]>>
    /\ \A c \in Reflexions : call[c].at = "ok" =>
           \E r \in rows : r.key = <<"reflexion", TaskOf[c]>>

\* An INSERT into the messages, row by row.
LEMMA MessagesGrow ==
    ASSUME Logs, NEW row, Insert("messages", row)
    PROVE  LET n == Len(log["messages"])
           IN  /\ n \in Nat
               /\ DOMAIN log["messages"] = 1 .. n
               /\ DOMAIN log'["messages"] = 1 .. n + 1
               /\ \A i \in 1 .. n : log'["messages"][i] = log["messages"][i]
               /\ log'["messages"][n + 1] = row
<1>1. /\ "messages" \in Tables /\ DOMAIN log = Tables
      /\ log'["messages"] = Append(log["messages"], row)
    BY DEF Logs, Insert, Tables
<1>2. PICK S : log["messages"] \in Seq(S)
    BY <1>1 DEF Logs
<1> DEFINE s == log["messages"]
<1>3. /\ Append(s, row) \in Seq(S \cup {row})
      /\ Len(s) \in Nat /\ DOMAIN s = 1 .. Len(s)
      /\ DOMAIN Append(s, row) = 1 .. Len(s) + 1
      /\ \A i \in 1 .. Len(s) : Append(s, row)[i] = s[i]
    BY <1>2, AppendRow
<1>4. Append(s, row)[Len(s) + 1] = row
    <2>1. s \in Seq(S \cup {row})
        <3>1. S \subseteq S \cup {row}
            OBVIOUS
        <3> QED
            BY <1>2, <3>1, SeqMonotonic
    <2> QED
        BY <2>1, AppendProperties
<1> QED
    BY <1>1, <1>3, <1>4

\* What it announces.
LEMMA InsertAnnounces ==
    ASSUME Logs, NEW row, Insert("messages", row)
    PROVE  \A c : Announced(c)' <=> Announced(c) \/ row.about = c
<1>1. PICK n \in Nat :
          /\ DOMAIN log["messages"] = 1 .. n
          /\ DOMAIN log'["messages"] = 1 .. n + 1
          /\ \A i \in 1 .. n : log'["messages"][i] = log["messages"][i]
          /\ log'["messages"][n + 1] = row
    BY MessagesGrow
<1>2. ASSUME NEW c, Announced(c)
      PROVE  Announced(c)'
    BY <1>1, <1>2 DEF Announced
<1>3. ASSUME NEW c, row.about = c
      PROVE  Announced(c)'
    <2>1. n + 1 \in DOMAIN log'["messages"] /\ log'["messages"][n + 1].about = c
        BY <1>1, <1>3
    <2> QED
        BY <2>1 DEF Announced
<1>4. ASSUME NEW c, Announced(c)'
      PROVE  Announced(c) \/ row.about = c
    <2>1. PICK i \in 1 .. n + 1 : log'["messages"][i].about = c
        BY <1>1, <1>4 DEF Announced
    <2>2. CASE i \in 1 .. n
        BY <1>1, <2>1, <2>2 DEF Announced
    <2>3. CASE i = n + 1
        BY <1>1, <2>1, <2>3
    <2> QED
        BY <2>2, <2>3
<1> QED
    BY <1>2, <1>3, <1>4

\* A step that neither writes a row nor moves a call, nor announces one.
LEMMA RecordKept ==
    ASSUME RecordInv, UNCHANGED <<call, rows>>,
           \A c \in Calls \cup Reports : Announced(c)' <=> Announced(c)
    PROVE  RecordInv'
<1>1. \A c \in AllCalls : Found(c)' <=> Found(c)
    BY DEF Found
<1> QED
    BY <1>1 DEF RecordInv

\* INSERT OR REPLACE: the row under the call's key is its own, every key that had a
\* row still has one, and no other key gets a second.
LEMMA WriteReplaces ==
    ASSUME RecordInv, NEW c, Write(c)
    PROVE  /\ [key |-> Key(c), by |-> c] \in rows'
           /\ \A r \in rows' : r = [key |-> Key(c), by |-> c] \/ (r \in rows /\ r.key # Key(c))
           /\ \A r \in rows : \E s \in rows' : s.key = r.key
           /\ \A r, s \in rows' : r.key = s.key => r = s
<1>1. PICK new : new = [key |-> Key(c), by |-> c]
    OBVIOUS
<1>2. new.key = Key(c)
    BY <1>1
<1>3. rows' = {r \in rows : r.key # new.key} \cup {new}
    BY <1>1, <1>2 DEF Write
<1>4. \A r \in rows' : r = new \/ (r \in rows /\ r.key # new.key)
    BY <1>3
<1>5. \A r \in rows : \E s \in rows' : s.key = r.key
    BY <1>3
<1>6. \A r, s \in rows' : r.key = s.key => r = s
    BY <1>4 DEF RecordInv
<1> QED
    BY <1>1, <1>2, <1>3, <1>4, <1>5, <1>6

LEMMA StoreKeeps ==
    ASSUME RecordInv, NEW c \in AllCalls, Store(c)
    PROVE  RecordInv'
<1>1. /\ c \notin Reflexions /\ call[c].at = "new"
      /\ call' = [call EXCEPT ![c] = [at |-> "stored", key |-> Key(c)]]
      /\ Write(c) /\ log' = log
    BY DEF Store
<1>2. /\ [key |-> Key(c), by |-> c] \in rows'
      /\ \A r \in rows' : r = [key |-> Key(c), by |-> c] \/ (r \in rows /\ r.key # Key(c))
      /\ \A r \in rows : \E s \in rows' : s.key = r.key
      /\ \A r, s \in rows' : r.key = s.key => r = s
    BY <1>1, WriteReplaces
<1>3. Key(c)[1] # "reflexion"
    BY <1>1 DEF Key, AllCalls
<1>4. \A d : Announced(d)' <=> Announced(d)
    BY <1>1 DEF Announced
<1>5. /\ DOMAIN call' = AllCalls
      /\ call'[c] = [at |-> "stored", key |-> Key(c)]
      /\ \A d \in AllCalls : d # c => call'[d] = call[d]
    BY <1>1 DEF RecordInv
<1>6. \A d \in AllCalls : d # c /\ Found(d) => Found(d)'
    BY <1>2, <1>5 DEF Found
<1>7. Found(c)'
    BY <1>2, <1>5 DEF Found
<1>8. ASSUME NEW d \in AllCalls
      PROVE  /\ call'[d] = [at |-> call'[d].at, key |-> call'[d].key]
             /\ call'[d].at \in {"stored", "ok"} => Found(d)'
             /\ d \in Reflexions => call'[d].at # "stored"
    BY <1>1, <1>5, <1>6, <1>7 DEF RecordInv
<1>9. \A d \in Calls \cup Reports : Announced(d)' <=> call'[d].at = "ok"
    BY <1>1, <1>4, <1>5 DEF RecordInv, AllCalls
<1>10. ASSUME NEW r \in rows', r.key[1] = "reflexion"
       PROVE  /\ r.by \in Reflexions /\ call'[r.by].at = "ok"
              /\ r.key = <<"reflexion", TaskOf[r.by]>>
    <2>1. r \in rows
        BY <1>2, <1>3, <1>10
    <2>2. r.by \in Reflexions /\ call[r.by].at = "ok" /\ r.key = <<"reflexion", TaskOf[r.by]>>
        BY <1>10, <2>1 DEF RecordInv
    <2> QED
        BY <1>1, <1>5, <2>2 DEF AllCalls
<1>11. ASSUME NEW d \in Reflexions, call'[d].at = "ok"
       PROVE  \E r \in rows' : r.key = <<"reflexion", TaskOf[d]>>
    <2>1. call[d].at = "ok"
        BY <1>1, <1>5, <1>11 DEF AllCalls
    <2>2. PICK r \in rows : r.key = <<"reflexion", TaskOf[d]>>
        BY <2>1 DEF RecordInv
    <2> QED
        BY <1>2, <2>2
<1> QED
    BY <1>2, <1>5, <1>8, <1>9, <1>10, <1>11 DEF RecordInv

LEMMA ReflectKeeps ==
    ASSUME RecordInv, NEW c \in AllCalls, Reflect(c)
    PROVE  RecordInv'
<1>1. /\ c \in Reflexions /\ call[c].at = "new"
      /\ call' = [call EXCEPT ![c] = [at |-> "ok", key |-> Key(c)]]
      /\ Write(c) /\ log' = log
    BY DEF Reflect
<1>2. /\ [key |-> Key(c), by |-> c] \in rows'
      /\ \A r \in rows' : r = [key |-> Key(c), by |-> c] \/ (r \in rows /\ r.key # Key(c))
      /\ \A r \in rows : \E s \in rows' : s.key = r.key
      /\ \A r, s \in rows' : r.key = s.key => r = s
    BY <1>1, WriteReplaces
<1>3. c \notin Calls /\ c \notin Reports
    BY <1>1, BusAssumption
<1>4. Key(c) = <<"reflexion", TaskOf[c]>>
    BY <1>1, <1>3 DEF Key
<1>5. \A d : Announced(d)' <=> Announced(d)
    BY <1>1 DEF Announced
<1>6. /\ DOMAIN call' = AllCalls
      /\ call'[c] = [at |-> "ok", key |-> Key(c)]
      /\ \A d \in AllCalls : d # c => call'[d] = call[d]
    BY <1>1 DEF RecordInv
<1>7. \A d \in AllCalls : d # c /\ Found(d) => Found(d)'
    BY <1>2, <1>6 DEF Found
<1>8. Found(c)'
    BY <1>2, <1>6 DEF Found
<1>9. ASSUME NEW d \in AllCalls
      PROVE  /\ call'[d] = [at |-> call'[d].at, key |-> call'[d].key]
             /\ call'[d].at \in {"stored", "ok"} => Found(d)'
             /\ d \in Reflexions => call'[d].at # "stored"
    BY <1>1, <1>6, <1>7, <1>8 DEF RecordInv
<1>10. \A d \in Calls \cup Reports : Announced(d)' <=> call'[d].at = "ok"
    BY <1>3, <1>5, <1>6 DEF RecordInv, AllCalls
<1>11. ASSUME NEW r \in rows', r.key[1] = "reflexion"
       PROVE  /\ r.by \in Reflexions /\ call'[r.by].at = "ok"
              /\ r.key = <<"reflexion", TaskOf[r.by]>>
    <2>1. CASE r = [key |-> Key(c), by |-> c]
        BY <1>1, <1>4, <1>6, <2>1
    <2>2. CASE r \in rows
        <3>1. r.by \in Reflexions /\ call[r.by].at = "ok" /\ r.key = <<"reflexion", TaskOf[r.by]>>
            BY <1>11, <2>2 DEF RecordInv
        <3> QED
            BY <1>1, <1>6, <3>1 DEF AllCalls
    <2> QED
        BY <1>2, <2>1, <2>2
<1>12. ASSUME NEW d \in Reflexions, call'[d].at = "ok"
       PROVE  \E r \in rows' : r.key = <<"reflexion", TaskOf[d]>>
    <2>1. CASE d = c
        BY <1>2, <1>4, <2>1
    <2>2. CASE d # c
        <3>1. call[d].at = "ok"
            BY <1>6, <1>12, <2>2 DEF AllCalls
        <3>2. PICK r \in rows : r.key = <<"reflexion", TaskOf[d]>>
            BY <3>1 DEF RecordInv
        <3> QED
            BY <1>2, <3>2
    <2> QED
        BY <2>1, <2>2
<1> QED
    BY <1>2, <1>6, <1>9, <1>10, <1>11, <1>12 DEF RecordInv

\* Calls that end: a call moves on from new or stored, and is announced where it is
\* answered ok.
LEMMA EndKeeps ==
    ASSUME RecordInv, rows' = rows, DOMAIN call' = AllCalls,
           \A c \in AllCalls : /\ call'[c] = [at |-> call'[c].at, key |-> call[c].key]
                               /\ \/ call'[c].at = call[c].at
                                  \/ call[c].at \in {"new", "stored"} /\ call'[c].at \in {"failed", "lost"}
                                  \/ call[c].at = "stored" /\ call'[c].at = "ok" /\ Announced(c)',
           \A c \in Calls \cup Reports : Announced(c) => Announced(c)',
           \A c \in Calls \cup Reports : Announced(c)' => Announced(c) \/ call'[c].at = "ok"
    PROVE  RecordInv'
<1>1. \A c \in AllCalls : call'[c].key = call[c].key
    OBVIOUS
<1>2. \A c \in AllCalls : Found(c)' <=> Found(c)
    BY <1>1 DEF Found
<1>3. ASSUME NEW c \in AllCalls
      PROVE  /\ call'[c] = [at |-> call'[c].at, key |-> call'[c].key]
             /\ call'[c].at \in {"stored", "ok"} => Found(c)'
             /\ c \in Reflexions => call'[c].at # "stored"
    BY <1>1, <1>2 DEF RecordInv
<1>4. \A c \in Calls \cup Reports : Announced(c)' <=> call'[c].at = "ok"
    BY DEF RecordInv, AllCalls
<1>5. \A c \in Reflexions : call'[c].at = "ok" <=> call[c].at = "ok"
    BY DEF RecordInv, AllCalls
<1> QED
    BY <1>3, <1>4, <1>5 DEF RecordInv
LEMMA RecordInit == Init => RecordInv
<1> SUFFICES ASSUME Init
             PROVE  RecordInv
    OBVIOUS
<1>1. rows = {} /\ DOMAIN call = AllCalls
    BY DEF Init, AllCalls
<1>2. \A c \in AllCalls : call[c] = [at |-> "new", key |-> NoKey]
    BY DEF Init, AllCalls
<1>3. \A c : ~Announced(c)
    BY DEF Init, Announced, Tables
<1> QED
    BY <1>1, <1>2, <1>3 DEF RecordInv, AllCalls

LEMMA RecordStep ==
    ASSUME FeedInv, RecordInv, [Next]_vars
    PROVE  RecordInv'
<1>0. Logs
    BY DEF FeedInv
<1>1. ASSUME NEW m \in Posts, Post(m)
      PROVE  RecordInv'
    <2>1. m.about \notin Calls \cup Reports
        BY BusAssumption
    <2>2. \A c : Announced(c)' <=> Announced(c) \/ m.about = c
        BY <1>0, <1>1, InsertAnnounces DEF Post, Row
    <2> QED
        BY <1>1, <2>1, <2>2, RecordKept DEF Post
<1>2. ASSUME NEW q \in Questions, AskOracle(q) \/ OracleAnswers(q)
      PROVE  RecordInv'
    <2>1. q \notin Calls \cup Reports
        BY BusAssumption
    <2>2. \A c : Announced(c)' <=> Announced(c) \/ q = c
        BY <1>0, <1>2, InsertAnnounces DEF AskOracle, OracleAnswers, Row
    <2> QED
        BY <1>2, <2>1, <2>2, RecordKept DEF AskOracle, OracleAnswers
<1>3. ASSUME NEW machine, AppendAudit(machine)
      PROVE  RecordInv'
    <2>1. log'["messages"] = log["messages"]
        BY <1>0, <1>3 DEF AppendAudit, Insert, Logs, Tables
    <2> QED
        BY <1>3, <2>1, RecordKept DEF AppendAudit, Announced
<1>4. ASSUME UNCHANGED <<log, call, rows>>
      PROVE  RecordInv'
    BY <1>4, RecordKept DEF Announced
<1>5. ASSUME NEW c \in AllCalls, StoreFails(c) \/ AnnounceFails(c)
      PROVE  RecordInv'
    <2>1. /\ call' = [call EXCEPT ![c].at = "failed"] /\ rows' = rows /\ log' = log
          /\ call[c].at \in {"new", "stored"}
        BY <1>5 DEF StoreFails, AnnounceFails
    <2>2. call[c] = [at |-> call[c].at, key |-> call[c].key]
        BY DEF RecordInv
    <2>3. call'[c] = [at |-> "failed", key |-> call[c].key]
        BY <2>1, <2>2 DEF RecordInv
    <2>4. DOMAIN call' = AllCalls /\ \A d \in AllCalls : d # c => call'[d] = call[d]
        BY <2>1 DEF RecordInv
    <2>5. \A d \in AllCalls : call[d] = [at |-> call[d].at, key |-> call[d].key]
        BY DEF RecordInv
    <2>6. ASSUME NEW d \in AllCalls
          PROVE  /\ call'[d] = [at |-> call'[d].at, key |-> call[d].key]
                 /\ \/ call'[d].at = call[d].at
                    \/ call[d].at \in {"new", "stored"} /\ call'[d].at \in {"failed", "lost"}
        <3>1. CASE d = c
            BY <2>1, <2>3, <3>1
        <3>2. CASE d # c
            BY <2>4, <2>5, <3>2
        <3> QED
            BY <3>1, <3>2
    <2>7. \A d : Announced(d)' <=> Announced(d)
        BY <2>1 DEF Announced
    <2> QED
        BY <2>1, <2>4, <2>6, <2>7, EndKeeps
<1>6. ASSUME NEW c \in AllCalls, Announce(c)
      PROVE  RecordInv'
    <2>1. /\ call' = [call EXCEPT ![c].at = "ok"] /\ rows' = rows
          /\ call[c].at = "stored"
        BY <1>6 DEF Announce
    <2>2. \A d \in AllCalls : call[d] = [at |-> call[d].at, key |-> call[d].key]
        BY DEF RecordInv
    <2>3. call'[c] = [at |-> "ok", key |-> call[c].key]
        BY <2>1, <2>2 DEF RecordInv
    <2>4. DOMAIN call' = AllCalls /\ \A d \in AllCalls : d # c => call'[d] = call[d]
        BY <2>1 DEF RecordInv
    <2>5. \A d : Announced(d)' <=> Announced(d) \/ c = d
        BY <1>0, <1>6, InsertAnnounces DEF Announce, Row
    <2>6. ASSUME NEW d \in AllCalls
          PROVE  /\ call'[d] = [at |-> call'[d].at, key |-> call[d].key]
                 /\ \/ call'[d].at = call[d].at
                    \/ call[d].at = "stored" /\ call'[d].at = "ok" /\ Announced(d)'
        <3>1. CASE d = c
            BY <2>1, <2>3, <2>5, <3>1
        <3>2. CASE d # c
            BY <2>2, <2>4, <3>2
        <3> QED
            BY <3>1, <3>2
    <2>7. \A d \in Calls \cup Reports : Announced(d)' => Announced(d) \/ call'[d].at = "ok"
        BY <2>3, <2>5
    <2> QED
        BY <2>1, <2>4, <2>5, <2>6, <2>7, EndKeeps
<1>7. CASE Crash
    <2>1. /\ call' = [c \in DOMAIN call |->
                        [call[c] EXCEPT !.at = IF call[c].at = "stored" THEN "lost" ELSE call[c].at]]
          /\ rows' = rows /\ log' = log
        BY <1>7 DEF Crash
    <2>2. DOMAIN call' = AllCalls
        BY <2>1 DEF RecordInv
    <2>3. ASSUME NEW d \in AllCalls
          PROVE  /\ call'[d] = [at |-> call'[d].at, key |-> call[d].key]
                 /\ \/ call'[d].at = call[d].at
                    \/ call[d].at \in {"new", "stored"} /\ call'[d].at \in {"failed", "lost"}
        <3>1. PICK place : place = IF call[d].at = "stored" THEN "lost" ELSE call[d].at
            OBVIOUS
        <3>2. call[d] = [at |-> call[d].at, key |-> call[d].key]
            BY DEF RecordInv
        <3>3. call'[d] = [call[d] EXCEPT !.at = place]
            BY <2>1, <3>1 DEF RecordInv
        <3>4. call'[d] = [at |-> place, key |-> call[d].key]
            BY <3>2, <3>3
        <3> QED
            BY <3>1, <3>4
    <2>4. \A d : Announced(d)' <=> Announced(d)
        BY <2>1 DEF Announced
    <2> QED
        BY <2>1, <2>2, <2>3, <2>4, EndKeeps
<1>8. DOMAIN call = AllCalls
    BY DEF RecordInv
<1>9. \/ UNCHANGED <<log, call, rows>> \/ Crash
      \/ \E m \in Posts : Post(m)
      \/ \E machine : AppendAudit(machine)
      \/ \E q \in Questions : AskOracle(q) \/ OracleAnswers(q)
      \/ \E c \in AllCalls : Store(c) \/ Reflect(c) \/ StoreFails(c) \/ Announce(c) \/ AnnounceFails(c)
    <2>1. CASE UNCHANGED vars
        BY <2>1 DEF vars
    <2>2. ASSUME NEW r \in Readers, Reading(r) \/ Lose(r)
          PROVE  UNCHANGED <<log, call, rows>>
        BY <2>2 DEF Reading, Connect, Fetch, Deliver, Lose
    <2>3. ASSUME NEW p \in Pollers, Poll(p)
          PROVE  UNCHANGED <<log, call, rows>>
        BY <2>3 DEF Poll
    <2>4. ASSUME NEW q \in Questions, GetAnswer(q)
          PROVE  UNCHANGED <<log, call, rows>>
        BY <2>4 DEF GetAnswer
    <2>5. ASSUME NEW t \in Tasks, TaskChanges(t)
          PROVE  UNCHANGED <<log, call, rows>>
        BY <2>5 DEF TaskChanges
    <2>6. ASSUME NEW x \in Requests, Request(x) \/ Settle(x)
          PROVE  UNCHANGED <<log, call, rows>>
        BY <2>6 DEF Request, Settle
    <2>7. ASSUME NEW w \in Watchers, Watching(w)
          PROVE  UNCHANGED <<log, call, rows>>
        BY <2>7 DEF Watching, WatchTask, PollTask, WatchRequests, PollRequests
    <2>8. CASE Tick
        BY <2>8 DEF Tick
    <2> QED
        BY <1>8, <2>1, <2>2, <2>3, <2>4, <2>5, <2>6, <2>7, <2>8 DEF Next, Asking, Calling
<1> QED
    BY <1>1, <1>2, <1>3, <1>4, <1>5, <1>6, <1>7, <1>9, StoreKeeps, ReflectKeeps

\* A disagreement or report answered ok has been announced, what is announced can be
\* looked up, and the reflexions a tenant finds are the last ones stored on each task,
\* after every error and restart in between (submit_disagreement, submit_progress,
\* submit_reflexion).
THEOREM AnnouncementsHold == Spec => []AnnouncementsAreTrue
<1>1. Spec => []FeedInv
    BY InitFeed, StepFeed, PTL DEF Spec
<1>2. Spec => []RecordInv
    <2>1. FeedInv /\ RecordInv /\ [Next]_vars => RecordInv'
        BY RecordStep
    <2> QED
        BY <1>1, <2>1, RecordInit, PTL DEF Spec
<1>3. RecordInv => AnnouncementsAreTrue
    <2> SUFFICES ASSUME RecordInv
                 PROVE  AnnouncementsAreTrue
        OBVIOUS
    <2> DEFINE Stored(t) == {c \in Reflexions : call[c].at = "ok" /\ TaskOf[c] = t}
    <2>1. \A c \in Calls \cup Reports : /\ call[c].at = "ok" => Announced(c)
                                        /\ Announced(c) => Found(c)
        BY DEF RecordInv, AllCalls
    <2>2. ASSUME NEW t \in Tasks
          PROVE  /\ ReflexionsOn(t) \subseteq Stored(t)
                 /\ Cardinality(ReflexionsOn(t)) = Cardinality({t} \cap ListedTasks)
                 /\ t \in ListedTasks <=> Stored(t) # {}
        <3>1. \A r \in rows : r.key = <<"reflexion", t>> => r.by \in Stored(t)
            BY DEF RecordInv
        <3>2. ReflexionsOn(t) \subseteq Stored(t)
            BY <3>1 DEF ReflexionsOn
        <3>3. \A r \in rows : r.key[1] = "reflexion" /\ TaskOf[r.by] = t => r.key = <<"reflexion", t>>
            BY DEF RecordInv
        <3>4. \A r \in rows : r.key = <<"reflexion", t>> => r.key[1] = "reflexion" /\ TaskOf[r.by] = t
            BY <3>1
        <3>5. t \in ListedTasks <=> \E r \in rows : r.key = <<"reflexion", t>>
            BY <3>3, <3>4 DEF ListedTasks
        <3>6. Stored(t) # {} => \E r \in rows : r.key = <<"reflexion", t>>
            BY DEF RecordInv
        <3>7. t \in ListedTasks <=> Stored(t) # {}
            BY <3>1, <3>5, <3>6
        <3>8. CASE t \in ListedTasks
            <4>1. PICK r \in rows : r.key = <<"reflexion", t>>
                BY <3>5, <3>8
            <4>2. \A s \in rows : s.key = <<"reflexion", t>> => s = r
                BY <4>1 DEF RecordInv
            <4>3. ReflexionsOn(t) = {r.by}
                BY <4>1, <4>2 DEF ReflexionsOn
            <4>4. {t} \cap ListedTasks = {t}
                BY <3>8
            <4> QED
                BY <3>2, <3>7, <4>3, <4>4, FS_Singleton
        <3>9. CASE t \notin ListedTasks
            <4>1. ReflexionsOn(t) = {} /\ {t} \cap ListedTasks = {}
                BY <3>5, <3>9 DEF ReflexionsOn
            <4> QED
                BY <3>2, <3>7, <4>1
        <3> QED
            BY <3>8, <3>9
    <2> QED
        BY <2>1, <2>2 DEF AnnouncementsAreTrue
<1> QED
    BY <1>2, <1>3, PTL

-----------------------------------------------------------------------------
(* Clients that poll.                                                       *)
(*                                                                         *)
(* created_at never decreases with the id, so what a poll does not return is  *)
(* no newer than since, and what it leaves out of that second came later.     *)

\* Rounding to seconds keeps the order.
LEMMA SecondsOrdered ==
    ASSUME NEW a \in Nat, NEW b \in Nat, a <= b
    PROVE  Second(a) \in Nat /\ Second(b) \in Nat /\ Second(a) <= Second(b)
<1> DEFINE n == PerSecond
<1>1. n \in Nat /\ n > 0
    BY BusAssumption
<1>2. PICK p \in Nat : p = a \div n
    BY <1>1
<1>3. PICK q \in Nat : q = b \div n
    BY <1>1
<1>4. n * p <= a /\ b < n * q + n
    BY <1>1, <1>2, <1>3
<1>5. p <= q
    <2>1. ASSUME q + 1 <= p
          PROVE  FALSE
        <3>1. n * (q + 1) <= n * p
            BY <1>1, <2>1
        <3>2. n * (q + 1) = n * q + n
            BY <1>1
        <3> QED
            BY <1>1, <1>4, <3>1, <3>2
    <2> QED
        BY <2>1
<1> QED
    BY <1>2, <1>3, <1>5 DEF Second

\* A finite set of ids can be listed in their order.
LEMMA OrderExists ==
    ASSUME NEW N \in Nat, NEW S \in SUBSET (1 .. N)
    PROVE  \E s \in [1 .. Cardinality(S) -> S] : \A i, j \in DOMAIN s : i < j => s[i] < s[j]
<1> DEFINE Listed(T) == \E s \in [1 .. Cardinality(T) -> T] :
                            \A i, j \in DOMAIN s : i < j => s[i] < s[j]
           Bad == {n \in Nat : \E T \in SUBSET (1 .. N) : Cardinality(T) = n /\ ~Listed(T)}
<1>1. ASSUME NEW T \in SUBSET (1 .. N)
      PROVE  IsFiniteSet(T) /\ Cardinality(T) \in Nat
    <2>1. IsFiniteSet(1 .. N)
        BY FS_Interval
    <2>2. IsFiniteSet(T)
        BY <2>1, FS_Subset
    <2> QED
        BY <2>2, FS_CardinalityType
<1>2. ASSUME Bad # {}
      PROVE  FALSE
    <2>1. PICK n \in Bad : \A m \in Bad : n <= m
        <3> HIDE DEF Bad
        <3>1. Bad \in SUBSET Nat
            BY DEF Bad
        <3> QED
            BY <1>2, <3>1, MinIsLeast
    <2>2. PICK T \in SUBSET (1 .. N) : Cardinality(T) = n /\ ~Listed(T)
        BY <2>1
    <2>3. CASE T = {}
        <3>1. Cardinality(T) = 0
            BY <2>3, FS_EmptySet
        <3>2. <<>> \in [1 .. 0 -> T]
            OBVIOUS
        <3>3. \A i, j \in DOMAIN <<>> : FALSE
            OBVIOUS
        <3> QED
            BY <2>2, <3>1, <3>2, <3>3
    <2>4. CASE T # {}
        <3>1. PICK m \in T : \A j \in T : j <= m
            BY <2>4, MaxIsGreatest
        <3> DEFINE U == T \ {m}
        <3>2. U \in SUBSET (1 .. N) /\ Cardinality(U) = n - 1 /\ n \in Nat /\ n - 1 \in Nat
            <4>1. IsFiniteSet(T) /\ Cardinality(U) = n - 1
                BY <1>1, <2>2, FS_RemoveElement
            <4>2. n \in Nat /\ Cardinality(U) \in Nat
                BY <1>1, <2>2
            <4> QED
                BY <4>1, <4>2
        <3>3. n - 1 \notin Bad
            BY <2>1, <3>2
        <3>4. PICK s \in [1 .. n - 1 -> U] : \A i, j \in DOMAIN s : i < j => s[i] < s[j]
            <4>1. Listed(U)
                BY <3>2, <3>3
            <4> QED
                BY <3>2, <4>1
        <3> HIDE DEF Bad, Listed
        <3> DEFINE t == [k \in 1 .. n |-> IF k = n THEN m ELSE s[k]]
        <3>5. \A k \in 1 .. n : k # n => k \in 1 .. n - 1 /\ s[k] \in U
            BY <3>2, <3>4
        <3>6. t \in [1 .. n -> T]
            BY <3>1, <3>5
        <3>7. \A u \in U : u < m
            BY <3>1
        <3>8. ASSUME NEW i \in 1 .. n, NEW j \in 1 .. n, i < j
              PROVE  t[i] < t[j]
            <4>1. i # n /\ i \in 1 .. n - 1 /\ t[i] = s[i] /\ s[i] \in U
                BY <3>2, <3>5, <3>8
            <4>2. CASE j = n
                BY <3>7, <4>1, <4>2
            <4>3. CASE j # n
                BY <3>4, <3>5, <3>8, <4>1, <4>3
            <4> QED
                BY <4>2, <4>3
        <3>9. Listed(T)
            BY <2>2, <3>6, <3>8 DEF Listed
        <3> QED
            BY <2>2, <3>9
    <2> QED
        BY <2>3, <2>4
<1>3. Listed(S)
    <2>1. Cardinality(S) \in Nat
        BY <1>1
    <2> QED
        BY <1>2, <2>1
<1> QED
    BY <1>3

\* ORDER BY id lists all of them, each once, the greatest last.
LEMMA InOrderLists ==
    ASSUME NEW N \in Nat, NEW S \in SUBSET (1 .. N), S # {}
    PROVE  LET s == InOrder(S)
               n == Cardinality(S)
           IN  /\ n \in Nat \ {0}
               /\ s \in Seq(S) /\ Len(s) = n
               /\ \A i, j \in 1 .. n : i < j => s[i] < s[j]
               /\ S = {s[k] : k \in 1 .. n}
               /\ s[n] \in S /\ \A j \in S : j <= s[n]
<1> DEFINE s == InOrder(S)
           n == Cardinality(S)
<1>1. IsFiniteSet(S) /\ n \in Nat /\ n # 0
    <2>1. IsFiniteSet(1 .. N)
        BY FS_Interval
    <2>2. IsFiniteSet(S)
        BY <2>1, FS_Subset
    <2> QED
        BY <2>2, FS_CardinalityType, FS_EmptySet
<1>2. s \in [1 .. n -> S] /\ \A i, j \in DOMAIN s : i < j => s[i] < s[j]
    BY OrderExists, Zenon DEF InOrder
<1> HIDE DEF s, n
<1>3. \A i, j \in 1 .. n : i < j => s[i] < s[j]
    BY <1>2
<1>4. s \in Injection(1 .. n, S)
    <2>1. ASSUME NEW i \in 1 .. n, NEW j \in 1 .. n, s[i] = s[j]
          PROVE  i = j
        <3>1. s[i] \in 1 .. N /\ s[j] \in 1 .. N
            BY <1>2
        <3>2. ~(i < j) /\ ~(j < i)
            BY <1>3, <2>1, <3>1
        <3> QED
            BY <1>1, <3>2
    <2> QED
        BY <1>2, <2>1 DEF Injection, IsInjective
<1>5. IsFiniteSet(1 .. n) /\ Cardinality(1 .. n) = n
    BY <1>1, FS_Interval
<1>6. s \in Surjection(1 .. n, S)
    <2>1. Cardinality(1 .. n) = Cardinality(S)
        BY <1>5 DEF n
    <2> QED
        BY <1>1, <1>4, <2>1, FS_Injection
<1>7. S = {s[k] : k \in 1 .. n}
    BY <1>2, <1>6 DEF Surjection
<1>8. s \in Seq(S) /\ Len(s) = n
    <2>1. s \in Seq(S)
        BY <1>1, <1>2, SeqDef
    <2>2. DOMAIN s = 1 .. n /\ DOMAIN s = 1 .. Len(s) /\ Len(s) \in Nat
        BY <1>2, <2>1, LenProperties
    <2> QED
        BY <1>1, <2>1, <2>2
<1>9. n \in 1 .. n
    BY <1>1
<1>10. ASSUME NEW j \in S
       PROVE  j <= s[n]
    <2>1. PICK k \in 1 .. n : j = s[k]
        BY <1>7
    <2>2. k = n \/ k < n
        BY <1>1
    <2>3. s[k] \in 1 .. N /\ s[n] \in 1 .. N
        BY <1>2, <1>9
    <2> QED
        BY <1>3, <1>9, <2>1, <2>2, <2>3
<1> QED
    BY <1>1, <1>2, <1>3, <1>7, <1>8, <1>9, <1>10 DEF s, n

Messages == log["messages"]

\* The clock, and the times of the messages.
ClockInv ==
    /\ now \in Nat
    /\ \A i \in DOMAIN Messages : Messages[i].at \in Nat /\ Messages[i].at <= Second(now)
    /\ \A i, j \in DOMAIN Messages : i < j => Messages[i].at <= Messages[j].at

\* since is the time of a message the client has; the rest is PollLosesOnlyTies.
PollFine(p) ==
    LET heard == poll[p].heard
        Heard == {heard[k] : k \in DOMAIN heard}
    IN  /\ poll[p].since \in Int /\ heard \in Seq(Nat)
        /\ \A k, l \in DOMAIN heard : k # l => heard[k] # heard[l]
        /\ \A i \in Heard : i \in DOMAIN Messages /\ Messages[i].at <= poll[p].since
        /\ poll[p].since = -1 \/ \E i \in Heard : Messages[i].at = poll[p].since
        /\ \A i \in DOMAIN Messages \ Heard :
             Concerns(Messages[i], PollOf[p]) /\ Messages[i].at <= poll[p].since
             => \E j \in Heard : j < i /\ Messages[j].at = Messages[i].at

PollInv ==
    /\ ClockInv
    /\ DOMAIN poll = Pollers
    /\ \A p \in Pollers : PollFine(p)

LEMMA PollInit == Init => PollInv
<1> SUFFICES ASSUME Init
             PROVE  PollInv
    OBVIOUS
<1>1. Messages = <<>> /\ now = 0
    BY DEF Init, Messages, Tables
<1>2. \A i \in DOMAIN <<>> : FALSE
    OBVIOUS
<1>3. ClockInv
    BY <1>1, <1>2 DEF ClockInv
<1>4. ASSUME NEW p \in Pollers
      PROVE  PollFine(p)
    <2>1. poll[p].since = -1 /\ poll[p].heard = <<>> /\ <<>> \in Seq(Nat) /\ -1 \in Int
        BY DEF Init
    <2> QED
        BY <1>1, <1>2, <2>1 DEF PollFine
<1> QED
    BY <1>3, <1>4 DEF Init, PollInv

\* What neither inserts a message nor polls; the clock may tick.
LEMMA PollKept ==
    ASSUME PollInv, log'["messages"] = log["messages"], poll' = poll, now' \in {now, now + 1}
    PROVE  PollInv'
<1>1. now \in Nat /\ now' \in Nat /\ now <= now'
    BY DEF PollInv, ClockInv
<1>2. Second(now) \in Nat /\ Second(now') \in Nat /\ Second(now) <= Second(now')
    BY <1>1, SecondsOrdered
<1>3. Second(now)' = Second(now')
    BY DEF Second
<1>4. ClockInv'
    <2>1. ASSUME NEW i \in DOMAIN Messages
          PROVE  Messages[i].at \in Nat /\ Messages[i].at <= Second(now')
        BY <1>2 DEF PollInv, ClockInv
    <2> QED
        BY <1>1, <1>3, <2>1 DEF PollInv, ClockInv, Messages
<1>5. \A p \in Pollers : PollFine(p)'
    BY DEF PollInv, PollFine, Messages
<1> QED
    BY <1>4, <1>5 DEF PollInv

\* A new message is in the second of the last one or later: a client whose since is
\* that second has a message of it, posted before.
LEMMA InsertPolls ==
    ASSUME Logs, PollInv, NEW row, Insert("messages", row), row.at = Second(now),
           poll' = poll, now' = now
    PROVE  PollInv'
<1>1. PICK n \in Nat :
          /\ DOMAIN Messages = 1 .. n
          /\ DOMAIN Messages' = 1 .. n + 1
          /\ \A i \in 1 .. n : Messages'[i] = Messages[i]
          /\ Messages'[n + 1] = row
    BY MessagesGrow DEF Messages
<1>2. Second(now) \in Nat /\ Second(now)' = Second(now) /\ now \in Nat
    BY SecondsOrdered DEF PollInv, ClockInv, Second
<1>3. \A i \in 1 .. n : Messages[i].at \in Nat /\ Messages[i].at <= Second(now)
    BY <1>1 DEF PollInv, ClockInv
<1>4. ClockInv'
    <2>1. ASSUME NEW i \in 1 .. n + 1
          PROVE  Messages'[i].at \in Nat /\ Messages'[i].at <= Second(now)
        BY <1>1, <1>2, <1>3
    <2>2. ASSUME NEW i \in 1 .. n + 1, NEW j \in 1 .. n + 1, i < j
          PROVE  Messages'[i].at <= Messages'[j].at
        <3>1. i \in 1 .. n
            BY <2>2
        <3>2. CASE j \in 1 .. n
            BY <1>1, <2>2, <3>1, <3>2 DEF PollInv, ClockInv
        <3>3. CASE j = n + 1
            BY <1>1, <1>3, <3>1, <3>3
        <3> QED
            BY <3>2, <3>3
    <2> QED
        BY <1>1, <1>2, <2>1, <2>2 DEF ClockInv
<1>5. ASSUME NEW p \in Pollers
      PROVE  PollFine(p)'
    <2> DEFINE heard == poll[p].heard
               Heard == {heard[k] : k \in DOMAIN heard}
               since == poll[p].since
    <2>1. /\ since \in Int /\ heard \in Seq(Nat)
          /\ \A k, l \in DOMAIN heard : k # l => heard[k] # heard[l]
          /\ \A i \in Heard : i \in 1 .. n /\ Messages[i].at <= since
          /\ since = -1 \/ \E i \in Heard : Messages[i].at = since
          /\ \A i \in (1 .. n) \ Heard :
               Concerns(Messages[i], PollOf[p]) /\ Messages[i].at <= since
               => \E j \in Heard : j < i /\ Messages[j].at = Messages[i].at
        BY <1>1 DEF PollInv, PollFine
    <2> HIDE DEF Heard
    <2>2. \A i \in Heard : i \in 1 .. n + 1 /\ Messages'[i].at <= since
        BY <1>1, <2>1
    <2>3. since = -1 \/ \E i \in Heard : Messages'[i].at = since
        BY <1>1, <2>1
    <2>4. ASSUME NEW i \in (1 .. n + 1) \ Heard,
                 Concerns(Messages'[i], PollOf[p]), Messages'[i].at <= since
          PROVE  \E j \in Heard : j < i /\ Messages'[j].at = Messages'[i].at
        <3>1. CASE i \in 1 .. n
            <4>1. PICK j \in Heard : j < i /\ Messages[j].at = Messages[i].at
                BY <1>1, <2>1, <2>4, <3>1
            <4> QED
                BY <1>1, <2>1, <3>1, <4>1
        <3>2. CASE i = n + 1
            <4>1. Messages'[i].at = Second(now)
                BY <1>1, <3>2
            <4>2. PICK j \in Heard : Messages[j].at = since
                BY <1>2, <2>1, <2>4, <4>1
            <4>3. j \in 1 .. n /\ Messages[j].at <= Second(now)
                BY <1>3, <2>1, <4>2
            <4>4. Messages[j].at = Second(now) /\ j < i
                BY <1>2, <2>1, <2>4, <3>2, <4>1, <4>2, <4>3
            <4> QED
                BY <1>1, <4>1, <4>3, <4>4
        <3> QED
            BY <3>1, <3>2
    <2>5. /\ poll'[p].since = since /\ poll'[p].heard = heard
          /\ {poll'[p].heard[k] : k \in DOMAIN poll'[p].heard} = Heard
        BY DEF Heard
    <2> HIDE DEF heard, since
    <2> QED
        BY <1>1, <2>1, <2>2, <2>3, <2>4, <2>5 DEF PollFine
<1> QED
    BY <1>4, <1>5 DEF PollInv

\* What is heard grows by what is new: each once, in the order it came.
LEMMA HeardGrows ==
    ASSUME NEW h \in Seq(Nat), NEW s \in Seq(Nat),
           \A k, l \in DOMAIN h : k # l => h[k] # h[l],
           \A k, l \in DOMAIN s : k < l => s[k] < s[l],
           \A k \in DOMAIN h, l \in DOMAIN s : h[k] # s[l]
    PROVE  /\ h \o s \in Seq(Nat)
           /\ \A k, l \in DOMAIN (h \o s) : k # l => (h \o s)[k] # (h \o s)[l]
           /\ {(h \o s)[k] : k \in DOMAIN (h \o s)}
                = {h[k] : k \in DOMAIN h} \cup {s[k] : k \in DOMAIN s}
<1>1. PICK a \in Nat : a = Len(h) /\ DOMAIN h = 1 .. a
    BY LenProperties
<1>2. PICK b \in Nat : b = Len(s) /\ DOMAIN s = 1 .. b
    BY LenProperties
<1>3. PICK both : both = h \o s
    OBVIOUS
<1>4. /\ both \in Seq(Nat) /\ Len(both) = a + b
      /\ \A k \in 1 .. a + b : both[k] = IF k <= a THEN h[k] ELSE s[k - a]
    BY <1>1, <1>2, <1>3, ConcatProperties
<1>5. DOMAIN both = 1 .. a + b
    BY <1>4, LenProperties
<1>6. \A k \in 1 .. a + b : k <= a => k \in 1 .. a /\ both[k] = h[k]
    BY <1>4
<1>7. \A k \in 1 .. a + b : ~(k <= a) => k - a \in 1 .. b /\ both[k] = s[k - a]
    BY <1>4
<1>8. \A k \in 1 .. b : s[k] \in Nat
    BY <1>2, ElementOfSeq
<1>9. ASSUME NEW k \in 1 .. a + b, NEW l \in 1 .. a + b, k < l
      PROVE  both[k] # both[l]
    <2>1. CASE l <= a
        <3>1. k <= a /\ k # l
            BY <1>9, <2>1
        <3> QED
            BY <1>1, <1>6, <2>1, <3>1
    <2>2. CASE k <= a /\ ~(l <= a)
        BY <1>1, <1>2, <1>6, <1>7, <2>2
    <2>3. CASE ~(k <= a)
        <3>1. ~(l <= a) /\ k - a < l - a
            BY <1>9, <2>3
        <3>2. /\ k - a \in 1 .. b /\ both[k] = s[k - a]
              /\ l - a \in 1 .. b /\ both[l] = s[l - a]
            BY <1>7, <2>3, <3>1
        <3>3. s[k - a] < s[l - a]
            BY <1>2, <3>1, <3>2
        <3>4. s[k - a] \in Nat /\ s[l - a] \in Nat
            BY <1>8, <3>2
        <3> QED
            BY <3>2, <3>3, <3>4
    <2> QED
        BY <2>1, <2>2, <2>3
<1>10. ASSUME NEW k \in 1 .. a + b, NEW l \in 1 .. a + b, k # l
       PROVE  both[k] # both[l]
    <2>1. k < l \/ l < k
        BY <1>10
    <2> QED
        BY <1>9, <2>1
<1>11. ASSUME NEW k \in 1 .. b
       PROVE  a + k \in 1 .. a + b /\ both[a + k] = s[k]
    <2>1. a + k \in 1 .. a + b /\ ~(a + k <= a) /\ (a + k) - a = k
        OBVIOUS
    <2> QED
        BY <1>7, <2>1
<1>12. ASSUME NEW k \in 1 .. a
       PROVE  k \in 1 .. a + b /\ both[k] = h[k]
    BY <1>6
<1>13. {both[k] : k \in DOMAIN both} = {h[k] : k \in DOMAIN h} \cup {s[k] : k \in DOMAIN s}
    <2>1. ASSUME NEW k \in 1 .. a + b
          PROVE  both[k] \in {h[i] : i \in DOMAIN h} \cup {s[i] : i \in DOMAIN s}
        <3>1. CASE k <= a
            BY <1>1, <1>6, <3>1
        <3>2. CASE ~(k <= a)
            BY <1>2, <1>7, <3>2
        <3> QED
            BY <3>1, <3>2
    <2>2. \A k \in DOMAIN h : h[k] \in {both[i] : i \in DOMAIN both}
        BY <1>1, <1>5, <1>12
    <2>3. \A k \in DOMAIN s : s[k] \in {both[i] : i \in DOMAIN both}
        BY <1>2, <1>5, <1>11
    <2> QED
        BY <1>5, <2>1, <2>2, <2>3
<1> QED
    BY <1>3, <1>4, <1>5, <1>10, <1>13

\* A poll returns all that is newer than since, in order of the ids and so of time:
\* since becomes the newest time the client has, and nothing it returns was returned
\* before.
LEMMA PollStep ==
    ASSUME Logs, PollInv, NEW p \in Pollers, Poll(p)
    PROVE  PollInv'
<1> DEFINE new == NewSince(p)
           s == InOrder(new)
           n == Cardinality(new)
           N == Len(Messages)
<1>1. N \in Nat /\ DOMAIN Messages = 1 .. N
    <2>1. PICK S : Messages \in Seq(S)
        BY DEF Logs, Messages, Tables
    <2> QED
        BY <2>1, LenProperties
<1>2. /\ new # {} /\ log' = log /\ now' = now
      /\ poll' = [poll EXCEPT ![p] = [since |-> Messages[s[Len(s)]].at,
                                      heard |-> poll[p].heard \o s]]
    BY DEF Poll, Messages
<1>3. /\ new \in SUBSET (1 .. N)
      /\ \A i \in 1 .. N : i \in new <=> Concerns(Messages[i], PollOf[p]) /\ Messages[i].at > poll[p].since
    BY <1>1 DEF NewSince, Messages
<1> HIDE DEF new
<1>4. /\ n \in Nat \ {0}
      /\ s \in Seq(new) /\ Len(s) = n
      /\ \A i, j \in 1 .. n : i < j => s[i] < s[j]
      /\ new = {s[k] : k \in 1 .. n}
      /\ s[n] \in new /\ \A j \in new : j <= s[n]
    BY <1>1, <1>2, <1>3, InOrderLists
<1> HIDE DEF s, n
<1>5. PICK top : top = Messages[s[n]].at
    OBVIOUS
<1>6. poll' = [poll EXCEPT ![p] = [since |-> top, heard |-> poll[p].heard \o s]]
    BY <1>2, <1>4, <1>5
<1> DEFINE heard == poll[p].heard
           Heard == {heard[k] : k \in DOMAIN heard}
           both == heard \o s
           Both == {both[k] : k \in DOMAIN both}
           since == poll[p].since
<1>7. /\ since \in Int /\ heard \in Seq(Nat)
      /\ \A k, l \in DOMAIN heard : k # l => heard[k] # heard[l]
      /\ \A i \in Heard : i \in 1 .. N /\ Messages[i].at <= since
      /\ \A i \in (1 .. N) \ Heard :
           Concerns(Messages[i], PollOf[p]) /\ Messages[i].at <= since
           => \E j \in Heard : j < i /\ Messages[j].at = Messages[i].at
    BY <1>1 DEF PollInv, PollFine
<1>8. /\ \A i \in 1 .. N : Messages[i].at \in Nat
      /\ \A i, j \in 1 .. N : i < j => Messages[i].at <= Messages[j].at
    BY <1>1 DEF PollInv, ClockInv
<1>9. top \in Nat /\ top > since /\ s[n] \in 1 .. N
    BY <1>3, <1>4, <1>5, <1>8
<1>10. \A i \in new : Messages[i].at <= top /\ Messages[i].at > since
    <2> SUFFICES ASSUME NEW i \in new
                 PROVE  Messages[i].at <= top /\ Messages[i].at > since
        OBVIOUS
    <2>1. i \in 1 .. N /\ Messages[i].at > since /\ i <= s[n]
        BY <1>3, <1>4
    <2>2. i = s[n] \/ i < s[n]
        BY <1>9, <2>1
    <2> QED
        BY <1>5, <1>8, <1>9, <2>1, <2>2
<1>11. \A i \in Heard : i \notin new
    BY <1>7, <1>8, <1>10
<1>12. /\ both \in Seq(Nat)
       /\ \A k, l \in DOMAIN both : k # l => both[k] # both[l]
       /\ Both = Heard \cup new
    <2>1. new \subseteq Nat
        BY <1>1, <1>3
    <2>2. s \in Seq(Nat) /\ DOMAIN s = 1 .. n
        BY <1>4, <2>1, SeqMonotonic, LenProperties
    <2>3. \A k, l \in DOMAIN s : k < l => s[k] < s[l]
        BY <1>4, <2>2
    <2>4. \A k \in DOMAIN heard, l \in DOMAIN s : heard[k] # s[l]
        BY <1>4, <1>11, <2>2
    <2>5. new = {s[k] : k \in DOMAIN s}
        BY <1>4, <2>2
    <2> HIDE DEF heard
    <2> QED
        BY <1>7, <2>2, <2>3, <2>4, <2>5, HeardGrows
<1> HIDE DEF Heard, Both, heard, since
<1>16. /\ \A i \in Both : i \in 1 .. N /\ Messages[i].at <= top
       /\ \E i \in Both : Messages[i].at = top
    <2>1. ASSUME NEW i \in Both
          PROVE  i \in 1 .. N /\ Messages[i].at <= top
        <3>1. CASE i \in Heard
            BY <1>7, <1>8, <1>9, <3>1
        <3>2. CASE i \in new
            BY <1>3, <1>10, <3>2
        <3> QED
            BY <1>12, <3>1, <3>2
    <2> QED
        BY <1>4, <1>5, <1>12, <2>1
<1>17. ASSUME NEW i \in (1 .. N) \ Both,
              Concerns(Messages[i], PollOf[p]), Messages[i].at <= top
       PROVE  \E j \in Both : j < i /\ Messages[j].at = Messages[i].at
    <2>1. i \notin new /\ i \notin Heard
        BY <1>12
    <2>2. Messages[i].at <= since
        BY <1>3, <1>7, <1>8, <1>17, <2>1 DEF since
    <2>3. PICK j \in Heard : j < i /\ Messages[j].at = Messages[i].at
        BY <1>7, <1>17, <2>1, <2>2
    <2> QED
        BY <1>12, <2>3
<1> HIDE DEF both
<1>18. /\ poll'[p].since = top /\ poll'[p].heard = both
       /\ DOMAIN poll' = Pollers
       /\ \A q \in Pollers : q # p => poll'[q] = poll[q]
    BY <1>6 DEF PollInv, both, heard
<1>19. PollFine(p)'
    <2>1. Messages' = Messages
        BY <1>2 DEF Messages
    <2>2. {poll'[p].heard[k] : k \in DOMAIN poll'[p].heard} = Both
        BY <1>18 DEF Both
    <2>3. top \in Int
        BY <1>9
    <2> QED
        BY <1>1, <1>12, <1>16, <1>17, <1>18, <2>1, <2>2, <2>3 DEF PollFine
<1>20. ASSUME NEW q \in Pollers, q # p
       PROVE  PollFine(q)'
    <2>1. PollFine(q) /\ poll'[q] = poll[q] /\ Messages' = Messages
        BY <1>2, <1>18, <1>20 DEF PollInv, Messages
    <2> QED
        BY <2>1 DEF PollFine
<1>21. ClockInv'
    BY <1>2 DEF PollInv, ClockInv, Messages, Second
<1> QED
    BY <1>18, <1>19, <1>20, <1>21 DEF PollInv

LEMMA PollInvStep ==
    ASSUME FeedInv, PollInv, [Next]_vars
    PROVE  PollInv'
<1>0. Logs /\ now \in Nat
    BY DEF FeedInv, PollInv, ClockInv
<1>1. ASSUME NEW row, Insert("messages", row), row.at = Second(now), UNCHANGED <<poll, now>>
      PROVE  PollInv'
    BY <1>0, <1>1, InsertPolls
<1>2. ASSUME NEW m \in Posts, Post(m)
      PROVE  PollInv'
    BY <1>1, <1>2 DEF Post, Row
<1>3. ASSUME NEW q \in Questions, AskOracle(q) \/ OracleAnswers(q)
      PROVE  PollInv'
    BY <1>1, <1>3 DEF AskOracle, OracleAnswers, Row
<1>4. ASSUME NEW c, Announce(c)
      PROVE  PollInv'
    BY <1>1, <1>4 DEF Announce, Row
<1>5. ASSUME NEW machine, AppendAudit(machine)
      PROVE  PollInv'
    <2>1. log'["messages"] = log["messages"]
        BY <1>0, <1>5 DEF AppendAudit, Insert, Logs, Tables
    <2> QED
        BY <1>5, <2>1, PollKept DEF AppendAudit
<1>6. CASE Tick
    BY <1>6, PollKept DEF Tick
<1>7. CASE UNCHANGED <<log, poll, now>>
    BY <1>7, PollKept
<1>8. ASSUME NEW p \in Pollers, Poll(p)
      PROVE  PollInv'
    BY <1>0, <1>8, PollStep
<1>9. \/ UNCHANGED <<log, poll, now>> \/ Tick
      \/ \E m \in Posts : Post(m)
      \/ \E machine : AppendAudit(machine)
      \/ \E p \in Pollers : Poll(p)
      \/ \E q \in Questions : AskOracle(q) \/ OracleAnswers(q)
      \/ \E c : Announce(c)
    <2>1. CASE UNCHANGED vars
        BY <2>1 DEF vars
    <2>2. ASSUME NEW r \in Readers, Reading(r) \/ Lose(r)
          PROVE  UNCHANGED <<log, poll, now>>
        BY <2>2 DEF Reading, Connect, Fetch, Deliver, Lose
    <2>3. ASSUME NEW q \in Questions, GetAnswer(q)
          PROVE  UNCHANGED <<log, poll, now>>
        BY <2>3 DEF GetAnswer
    <2>4. ASSUME NEW c, Store(c) \/ Reflect(c) \/ StoreFails(c) \/ AnnounceFails(c)
          PROVE  UNCHANGED <<log, poll, now>>
        BY <2>4 DEF Store, Reflect, StoreFails, AnnounceFails
    <2>5. ASSUME NEW t \in Tasks, TaskChanges(t)
          PROVE  UNCHANGED <<log, poll, now>>
        BY <2>5 DEF TaskChanges
    <2>6. ASSUME NEW x \in Requests, Request(x) \/ Settle(x)
          PROVE  UNCHANGED <<log, poll, now>>
        BY <2>6 DEF Request, Settle
    <2>7. ASSUME NEW w \in Watchers, Watching(w)
          PROVE  UNCHANGED <<log, poll, now>>
        BY <2>7 DEF Watching, WatchTask, PollTask, WatchRequests, PollRequests
    <2>8. CASE Crash
        BY <2>8 DEF Crash
    <2> QED
        BY <2>1, <2>2, <2>3, <2>4, <2>5, <2>6, <2>7, <2>8 DEF Next, Asking, Calling
<1> QED
    BY <1>2, <1>3, <1>4, <1>5, <1>6, <1>7, <1>8, <1>9

\* A client that polls with the created_at of the last message it has hears no message
\* twice, and one it will never hear was posted in the second of a message it has, and
\* after that message (poll_messages; created_at counts seconds).
THEOREM PollsHold == Spec => []PollLosesOnlyTies
<1>1. Spec => []FeedInv
    BY InitFeed, StepFeed, PTL DEF Spec
<1>2. Spec => []PollInv
    <2>1. FeedInv /\ PollInv /\ [Next]_vars => PollInv'
        BY PollInvStep
    <2> QED
        BY <1>1, <2>1, PollInit, PTL DEF Spec
<1>3. PollInv => PollLosesOnlyTies
    <2> SUFFICES ASSUME PollInv, NEW p \in Pollers
                 PROVE  LET heard == poll[p].heard
                            Heard == {heard[k] : k \in DOMAIN heard}
                        IN  /\ \A k, l \in DOMAIN heard : k # l => heard[k] # heard[l]
                            /\ \A i \in DOMAIN Messages \ Heard :
                                 /\ Concerns(Messages[i], PollOf[p])
                                 /\ Messages[i].at <= poll[p].since
                                 => \E j \in Heard : j < i /\ Messages[j].at = Messages[i].at
        BY DEF PollLosesOnlyTies, Messages
    <2> QED
        BY DEF PollInv, PollFine
<1> QED
    BY <1>2, <1>3, PTL

-----------------------------------------------------------------------------
(* Terminals.                                                               *)
(*                                                                         *)
(* A terminal that ends takes the lock of the registry as a writer, after    *)
(* the senders that looked its entry up: that is why none of them finds it   *)
(* gone.  Nothing is needed of the order in which the lock is given.        *)

Live(c) == at[c] \in {"loop", "quorum", "unregister"}

\* What the argument needs of the types; nothing of the queue.
TerminalShapes ==
    /\ at \in [Conns -> Places]
    /\ registry \in [Machines -> Conns \cup {NoConn}]
    /\ sendAt \in [Senders -> {"idle", "waiting", "sending"} \cup Answers]
    /\ to \in [Senders -> Conns \cup {NoConn}]

\* An entry is that of a connection to its machine, which has not returned.
Entries ==
    \A m \in Machines : registry[m] # NoConn =>
        /\ MachineOf[registry[m]] = m
        /\ "panic" \notin faults => Live(registry[m])

\* A sender that waits for room holds the lock, and its terminal is there.
Sending ==
    \A p \in Senders : sendAt[p] = "sending" =>
        /\ p \in readers
        /\ to[p] \in Conns
        /\ "panic" \notin faults => Live(to[p])

\* No caller has been told that the session is no longer active.
NoneGone == "panic" \notin faults => \A p \in Callers : sendAt[p] # "gone"

TerminalInv == TerminalShapes /\ Entries /\ Sending /\ NoneGone

-----------------------------------------------------------------------------
LEMMA InitOpen == TerminalInit => TerminalInv
<1> SUFFICES ASSUME TerminalInit
             PROVE  TerminalInv
    OBVIOUS
<1>1. TerminalShapes
    BY DEF TerminalInit, TerminalShapes, Places, Answers
<1>2. Entries /\ Sending /\ NoneGone
    BY DEF TerminalInit, Entries, Sending, NoneGone, Senders
<1> QED
    BY <1>1, <1>2 DEF TerminalInv

\* A connection that moves without touching the registry or the senders, and does not
\* return while it is live unless it panics.
LEMMA MoveKeeps ==
    ASSUME TerminalInv, NEW c \in Conns, NEW from, NEW where \in Places, Move(c, from, where),
           from \in {"new", "open"} \/ where \in {"loop", "quorum", "unregister"}
             \/ "panic" \in faults,
           UNCHANGED <<faults, readers, registry, sendAt, to>>
    PROVE  TerminalInv'
<1>1. TerminalShapes'
    BY DEF TerminalInv, TerminalShapes, Move
<1>2. \A d \in Conns : Live(d) /\ "panic" \notin faults => Live(d)'
    BY DEF TerminalInv, TerminalShapes, Move, Live
<1>3. Entries'
    BY <1>2 DEF TerminalInv, TerminalShapes, Entries
<1>4. Sending' /\ NoneGone'
    BY <1>2 DEF TerminalInv, Sending, NoneGone
<1> QED
    BY <1>1, <1>3, <1>4 DEF TerminalInv

\* What neither moves a connection nor touches the registry or the senders.
LEMMA IdleKeeps ==
    ASSUME TerminalInv, UNCHANGED <<faults, at, readers, registry, sendAt, to>>
    PROVE  TerminalInv'
BY DEF TerminalInv, TerminalShapes, Entries, Sending, NoneGone, Live

\* The new entry is that of a connection in its loop.
LEMMA RegisterKeeps ==
    ASSUME TerminalInv, NEW c \in Conns, Register(c)
    PROVE  TerminalInv'
<1>1. /\ at[c] = "register" /\ at' = [at EXCEPT ![c] = "loop"]
      /\ registry' = [registry EXCEPT ![MachineOf[c]] = c]
      /\ UNCHANGED <<faults, readers, sendAt, to>>
    BY DEF Register, Move, fixed
<1>2. MachineOf[c] \in Machines /\ c # NoConn
    BY TerminalAssumption
<1>3. TerminalShapes'
    BY <1>1, <1>2 DEF TerminalInv, TerminalShapes, Places
<1>4. Live(c)' /\ \A d \in Conns : Live(d) => Live(d)'
    BY <1>1 DEF TerminalInv, TerminalShapes, Live
<1>5. Entries'
    BY <1>1, <1>2, <1>4 DEF TerminalInv, TerminalShapes, Entries
<1>6. Sending' /\ NoneGone'
    BY <1>1, <1>4 DEF TerminalInv, Sending, NoneGone
<1> QED
    BY <1>3, <1>5, <1>6 DEF TerminalInv

\* The writer's lock: no sender is on its way into the terminal that ends, and the entry
\* that is removed is the only one that could have been its own.
LEMMA UnregisterKeeps ==
    ASSUME TerminalInv, NEW c \in Conns, Unregister(c)
    PROVE  TerminalInv'
<1>1. /\ readers = {} /\ at' = [at EXCEPT ![c] = "closed"]
      /\ registry' = [registry EXCEPT ![MachineOf[c]] = NoConn]
      /\ UNCHANGED <<faults, readers, sendAt, to>>
    BY DEF Unregister, Move, fixed
<1>2. TerminalShapes'
    BY <1>1 DEF TerminalInv, TerminalShapes, Places
<1>3. \A p \in Senders : sendAt[p] # "sending"
    BY <1>1 DEF TerminalInv, Sending
<1>4. Entries'
    <2> SUFFICES ASSUME NEW m \in Machines, registry'[m] # NoConn
                 PROVE  /\ MachineOf[registry'[m]] = m
                        /\ "panic" \notin faults =>
                               at'[registry'[m]] \in {"loop", "quorum", "unregister"}
        BY <1>1 DEF Entries, Live
    <2>1. m # MachineOf[c] /\ registry'[m] = registry[m]
        BY <1>1 DEF TerminalInv, TerminalShapes
    <2>2. /\ MachineOf[registry[m]] = m /\ registry[m] # c /\ registry[m] \in Conns
          /\ "panic" \notin faults => Live(registry[m])
        BY <2>1 DEF TerminalInv, TerminalShapes, Entries
    <2>3. at'[registry[m]] = at[registry[m]]
        BY <1>1, <2>2 DEF TerminalInv, TerminalShapes
    <2> QED
        BY <2>1, <2>2, <2>3 DEF Live
<1>5. Sending' /\ NoneGone'
    BY <1>1, <1>3 DEF TerminalInv, Sending, NoneGone
<1> QED
    BY <1>2, <1>4, <1>5 DEF TerminalInv

\* What a sender looks up is live, and it holds the lock from then on.
LEMMA LookUpKeeps ==
    ASSUME TerminalInv, NEW p \in Senders, LookUp(p)
    PROVE  TerminalInv'
<1>1. UNCHANGED <<faults, at, registry>>
    BY DEF LookUp, fixed
<1>2. PICK m \in IF p = Watchdog THEN Machines ELSE {Target[p]} :
        IF registry[m] = NoConn
        THEN /\ sendAt' = [sendAt EXCEPT ![p] = IF p = Watchdog THEN "idle" ELSE "notfound"]
             /\ UNCHANGED <<readers, to>>
        ELSE /\ sendAt' = [sendAt EXCEPT ![p] = "sending"]
             /\ to' = [to EXCEPT ![p] = registry[m]]
             /\ readers' = readers \cup {p}
    BY DEF LookUp
<1>3. m \in Machines
    BY <1>2, TerminalAssumption DEF Senders
<1>4. CASE registry[m] = NoConn
    <2>1. /\ sendAt' = [sendAt EXCEPT ![p] = IF p = Watchdog THEN "idle" ELSE "notfound"]
          /\ UNCHANGED <<readers, to>>
        BY <1>2, <1>4
    <2>2. TerminalShapes' /\ Entries'
        BY <1>1, <2>1 DEF TerminalInv, TerminalShapes, Entries, Answers, Live
    <2>3. Sending' /\ NoneGone'
        BY <1>1, <2>1 DEF TerminalInv, TerminalShapes, Sending, NoneGone, Senders, Live
    <2> QED
        BY <2>2, <2>3 DEF TerminalInv
<1>5. CASE registry[m] # NoConn
    <2>1. /\ sendAt' = [sendAt EXCEPT ![p] = "sending"]
          /\ to' = [to EXCEPT ![p] = registry[m]]
          /\ readers' = readers \cup {p}
        BY <1>2, <1>5
    <2>2. /\ registry[m] \in Conns
          /\ "panic" \notin faults => Live(registry[m])
        BY <1>3, <1>5 DEF TerminalInv, TerminalShapes, Entries
    <2>3. TerminalShapes' /\ Entries'
        BY <1>1, <2>1, <2>2 DEF TerminalInv, TerminalShapes, Entries, Live
    <2>4. Sending' /\ NoneGone'
        BY <1>1, <2>1, <2>2 DEF TerminalInv, TerminalShapes, Sending, NoneGone, Senders, Live
    <2> QED
        BY <2>3, <2>4 DEF TerminalInv
<1> QED
    BY <1>4, <1>5

\* A send ends in the terminal that was looked up, or fails when it panicked.
LEMMA SendKeeps ==
    ASSUME TerminalInv, NEW p \in Senders, Send(p)
    PROVE  TerminalInv'
<1>1. /\ sendAt[p] = "sending" /\ readers' = readers \ {p}
      /\ UNCHANGED <<faults, at, registry, to>>
    BY DEF Send, fixed
<1>2. PICK answer \in {"idle", "gone", "delivered"} :
        /\ sendAt' = [sendAt EXCEPT ![p] = answer]
        /\ answer = "gone" => at[to[p]] = "closed"
    <2>1. CASE at[to[p]] = "closed"
                 /\ sendAt' = [sendAt EXCEPT ![p] = IF p = Watchdog THEN "idle" ELSE "gone"]
        BY <2>1
    <2>2. CASE sendAt' = [sendAt EXCEPT ![p] = IF p = Watchdog THEN "idle" ELSE "delivered"]
        BY <2>2
    <2> QED
        BY <2>1, <2>2 DEF Send
<1>3. TerminalShapes' /\ Entries'
    BY <1>1, <1>2 DEF TerminalInv, TerminalShapes, Entries, Answers, Live
<1>4. Sending'
    BY <1>1, <1>2 DEF TerminalInv, TerminalShapes, Sending, Live
<1>5. NoneGone'
    BY <1>1, <1>2 DEF TerminalInv, TerminalShapes, Sending, NoneGone, Senders, Live
<1> QED
    BY <1>3, <1>4, <1>5 DEF TerminalInv

\* A sender that does not hold the lock yet, or gives it back unanswered.
LEMMA AskOrGiveUpKeeps ==
    ASSUME TerminalInv, NEW p \in Senders, NEW word \in {"waiting", "dropped"},
           sendAt' = [sendAt EXCEPT ![p] = word],
           readers \ {p} \subseteq readers',
           UNCHANGED <<faults, at, registry, to>>
    PROVE  TerminalInv'
<1>1. TerminalShapes' /\ Entries'
    BY DEF TerminalInv, TerminalShapes, Entries, Answers, Live
<1>2. Sending' /\ NoneGone'
    BY DEF TerminalInv, TerminalShapes, Sending, NoneGone, Senders, Live
<1> QED
    BY <1>1, <1>2 DEF TerminalInv

LEMMA StepOpen == TerminalInv /\ [TerminalNext]_terminalVars => TerminalInv'
<1> SUFFICES ASSUME TerminalInv, [TerminalNext]_terminalVars
             PROVE  TerminalInv'
    OBVIOUS
<1>1. ASSUME NEW c \in Conns, VerifyToken(c) \/ OpenPty(c)
      PROVE  TerminalInv'
    <2>1. UNCHANGED <<faults, readers, registry, sendAt, to>>
        BY <1>1 DEF VerifyToken, OpenPty, fixed, lock
    <2>2. PICK from \in {"new", "open"}, where \in {"open", "register", "closed"} :
            Move(c, from, where)
        BY <1>1 DEF VerifyToken, OpenPty
    <2> QED
        BY <2>1, <2>2, MoveKeeps DEF Places
<1>2. ASSUME NEW c \in Conns, AskQuorum(c) \/ QuorumEnds(c) \/ Leave(c)
      PROVE  TerminalInv'
    <2>1. UNCHANGED <<faults, readers, registry, sendAt, to>>
        BY <1>2 DEF AskQuorum, QuorumEnds, Leave, fixed, lock
    <2>2. PICK from \in Places, where \in {"loop", "quorum", "unregister"} :
            Move(c, from, where)
        BY <1>2 DEF AskQuorum, QuorumEnds, Leave, Places
    <2> QED
        BY <2>1, <2>2, MoveKeeps DEF Places
<1>3. ASSUME NEW c \in Conns, Panic(c)
      PROVE  TerminalInv'
    BY <1>3, MoveKeeps DEF Panic, Places, fixed, lock
<1>4. ASSUME NEW c \in Conns, Inject(c)
      PROVE  TerminalInv'
    <2>1. UNCHANGED <<faults, readers, registry, sendAt, to>>
        BY <1>4 DEF Inject, fixed
    <2>2. UNCHANGED at \/ Move(c, "loop", "unregister")
        BY <1>4 DEF Inject
    <2> QED
        BY <2>1, <2>2, IdleKeeps, MoveKeeps DEF Places
<1>5. ASSUME NEW p \in Senders, Instruct(p)
      PROVE  TerminalInv'
    BY <1>5, AskOrGiveUpKeeps DEF Instruct, fixed
<1>6. CASE IssueUltimatum
    BY <1>6, AskOrGiveUpKeeps DEF IssueUltimatum, fixed, Senders
<1>7. ASSUME NEW p \in Senders, GiveUp(p)
      PROVE  TerminalInv'
    BY <1>7, AskOrGiveUpKeeps DEF GiveUp, fixed
<1>8. CASE UNCHANGED terminalVars
    BY <1>8, IdleKeeps DEF terminalVars, fixed, lock
<1> QED
    BY <1>1, <1>2, <1>3, <1>4, <1>5, <1>6, <1>7, <1>8, RegisterKeeps, UnregisterKeeps,
       LookUpKeeps, SendKeeps DEF TerminalNext, ConnStep

\* The registry never names a connection that is gone, and no call is told so, for any
\* number of connections that come and end in any order (pty_proxy, inject).
THEOREM OpenAlways == TerminalSpec => []RegisteredIsOpen
<1>1. TerminalInv => RegisteredIsOpen
    BY DEF TerminalInv, Entries, NoneGone, RegisteredIsOpen, Live
<1> QED
    BY <1>1, InitOpen, StepOpen, PTL DEF TerminalSpec

-----------------------------------------------------------------------------
(* Room in the channels.                                                    *)
(*                                                                         *)
(* What is in a channel was sent by a caller, once, or by the watchdog, at    *)
(* most once for each ultimatum: a channel holds no more than the callers     *)
(* that were answered and the ultimata that were issued, and one less while   *)
(* an ultimatum is on its way.                                              *)

Delivered == {p \in Callers : sendAt[p] = "delivered"}
OnItsWay == IF sendAt[Watchdog] = "idle" THEN 0 ELSE 1

ChannelShapes ==
    /\ capacity \in Nat
    /\ issued \in 0 .. MaxUltimata
    /\ chan \in [Conns -> Seq(Senders)]

InFlight ==
    \A c \in Conns : Len(chan[c]) + OnItsWay <= Cardinality(Delivered) + issued

\* The terminals that take nothing from their channels any more.
Ended == {"unregister", "closed"}

Held(p) == \E i \in DOMAIN chan[to[p]] : chan[to[p]][i] = p

Kept ==
    \A p \in Delivered :
        to[p] \in Conns /\ (p \in injected \/ at[to[p]] \in Ended \/ Held(p))

FlowInv == ChannelShapes /\ InFlight /\ Kept

LEMMA DeliveredFinite ==
    /\ IsFiniteSet(Delivered) /\ Cardinality(Delivered) \in Nat
    /\ IsFiniteSet(Callers) /\ Cardinality(Callers) \in Nat
<1>1. IsFiniteSet(Callers)
    BY TerminalAssumption
<1>2. Delivered \subseteq Callers
    BY DEF Delivered
<1>3. IsFiniteSet(Delivered)
    BY <1>1, <1>2, FS_Subset
<1> QED
    BY <1>1, <1>3, FS_CardinalityType

LEMMA InitFlow == TerminalInit => FlowInv
<1> SUFFICES ASSUME TerminalInit
             PROVE  FlowInv
    OBVIOUS
<1>1. ChannelShapes
    <2>1. <<>> \in Seq(Senders)
        OBVIOUS
    <2> QED
        BY <2>1, TerminalAssumption DEF TerminalInit, ChannelShapes
<1>2. Delivered = {}
    BY DEF TerminalInit, Delivered, Senders
<1>3. InFlight
    <2>1. OnItsWay = 0 /\ issued = 0 /\ \A c \in Conns : Len(chan[c]) = 0
        BY DEF TerminalInit, OnItsWay, Senders
    <2>2. Cardinality(Delivered) \in Nat
        BY DeliveredFinite
    <2> QED
        BY <2>1, <2>2 DEF InFlight
<1>4. Kept
    BY <1>2 DEF Kept
<1> QED
    BY <1>1, <1>3, <1>4 DEF FlowInv

\* A step that puts nothing into a channel and answers nobody "delivered".
LEMMA FlowKeeps ==
    ASSUME ChannelShapes, InFlight, ChannelShapes',
           issued' = issued, Delivered' = Delivered,
           sendAt[Watchdog] = "idle" => sendAt'[Watchdog] = "idle",
           \A c \in Conns : Len(chan'[c]) <= Len(chan[c])
    PROVE  InFlight'
<1>1. PICK n \in Nat : Cardinality(Delivered) = n /\ Cardinality(Delivered') = n
    BY DeliveredFinite
<1>2. OnItsWay \in 0 .. 1 /\ OnItsWay' \in 0 .. 1 /\ OnItsWay' <= OnItsWay
    BY DEF OnItsWay
<1>3. ASSUME NEW c \in Conns
      PROVE  Len(chan'[c]) + OnItsWay' <= Cardinality(Delivered') + issued'
    <2>1. Len(chan[c]) \in Nat /\ Len(chan'[c]) \in Nat
        BY DEF ChannelShapes
    <2>2. Len(chan[c]) + OnItsWay <= n + issued
        BY <1>1 DEF InFlight
    <2> QED
        BY <1>1, <1>2, <2>1, <2>2 DEF ChannelShapes
<1> QED
    BY <1>3 DEF InFlight

\* A step after which a terminal has the same in its channel, or has ended.
LEMMA KeptKeeps ==
    ASSUME Kept, Delivered' = Delivered,
           \A p \in Delivered : to'[p] = to[p],
           injected \subseteq injected',
           \A c \in Conns : at[c] \in Ended => at'[c] \in Ended,
           \A c \in Conns : chan'[c] = chan[c] \/ at'[c] \in Ended
    PROVE  Kept'
<1>1. ASSUME NEW p \in Delivered
      PROVE  to'[p] \in Conns /\ (p \in injected' \/ at'[to'[p]] \in Ended \/ Held(p)')
    <2>1. to'[p] = to[p] /\ to[p] \in Conns
        BY DEF Kept
    <2>2. p \in injected \/ at[to[p]] \in Ended \/ Held(p)
        BY DEF Kept
    <2>3. CASE Held(p) /\ chan'[to[p]] = chan[to[p]]
        BY <2>1, <2>3 DEF Held
    <2> QED
        BY <2>1, <2>2, <2>3
<1> QED
    BY <1>1 DEF Kept

\* A step of a connection that does not touch the senders and takes nothing out of a
\* channel, unless the terminal ends.
LEMMA ConnFlow ==
    ASSUME TerminalInv, FlowInv, NEW c \in Conns, NEW from, NEW where, Move(c, from, where),
           from \notin Ended \/ where \in Ended,
           UNCHANGED chan \/ (where \in Ended /\ Drop(c)),
           UNCHANGED <<fixed, sendAt, to, injected, issued>>
    PROVE  FlowInv'
<1>1. UNCHANGED <<capacity, sendAt, to, injected, issued>>
    BY DEF fixed
<1>2. Delivered' = Delivered
    BY <1>1 DEF Delivered
<1>3. \A d \in Conns : at'[d] = IF d = c THEN where ELSE at[d]
    BY DEF Move, TerminalInv, TerminalShapes
<1>4. at[c] = from
    BY DEF Move
<1>5. ChannelShapes'
    <2>1. <<>> \in Seq(Senders)
        OBVIOUS
    <2> QED
        BY <1>1, <2>1 DEF FlowInv, ChannelShapes, Drop
<1>6. \A d \in Conns : chan'[d] = chan[d] \/ (chan'[d] = <<>> /\ d = c /\ where \in Ended)
    BY DEF FlowInv, ChannelShapes, Drop
<1>7. \A d \in Conns : Len(chan'[d]) <= Len(chan[d])
    <2> SUFFICES ASSUME NEW d \in Conns
                 PROVE  Len(chan'[d]) <= Len(chan[d])
        OBVIOUS
    <2>1. Len(chan[d]) \in Nat
        BY DEF FlowInv, ChannelShapes
    <2> QED
        BY <1>6, <2>1
<1>8. InFlight'
    BY <1>1, <1>2, <1>5, <1>7, FlowKeeps DEF FlowInv
<1>9. Kept'
    <2>1. \A d \in Conns : at[d] \in Ended => at'[d] \in Ended
        BY <1>3, <1>4
    <2>2. \A d \in Conns : chan'[d] = chan[d] \/ at'[d] \in Ended
        BY <1>3, <1>6
    <2> QED
        BY <1>1, <1>2, <2>1, <2>2, KeptKeeps DEF FlowInv
<1> QED
    BY <1>5, <1>8, <1>9 DEF FlowInv

\* What is taken out of the channel is written, or the terminal ends.
LEMMA InjectFlow ==
    ASSUME TerminalInv, FlowInv, NEW c \in Conns, Inject(c)
    PROVE  FlowInv'
<1>1. /\ at[c] = "loop" /\ chan[c] # <<>> /\ chan' = [chan EXCEPT ![c] = Tail(@)]
      /\ UNCHANGED <<capacity, sendAt, to, issued>>
    BY DEF Inject, fixed
<1>2. \/ injected' = injected \cup ({Head(chan[c])} \cap Callers) /\ at' = at
      \/ injected' = injected /\ at' = [at EXCEPT ![c] = "unregister"]
    BY DEF Inject, Move
<1>3. Delivered' = Delivered
    BY <1>1 DEF Delivered
<1>4. chan \in [Conns -> Seq(Senders)]
    BY DEF FlowInv, ChannelShapes
<1>5. PICK q \in Seq(Senders), n \in Nat : q = chan[c] /\ n = Len(q) /\ q # <<>>
    BY <1>1, <1>4
<1>6. /\ chan'[c] = Tail(q)
      /\ \A d \in Conns : d # c => chan'[d] = chan[d]
    BY <1>1, <1>4, <1>5
<1>7. /\ n > 0 /\ Tail(q) \in Seq(Senders) /\ Len(Tail(q)) = n - 1
      /\ \A i \in 1 .. n - 1 : Tail(q)[i] = q[i + 1]
    BY <1>5
<1>8. ChannelShapes'
    BY <1>1, <1>4, <1>5, <1>7 DEF FlowInv, ChannelShapes
<1>9. \A d \in Conns : Len(chan'[d]) <= Len(chan[d])
    <2> SUFFICES ASSUME NEW d \in Conns
                 PROVE  Len(chan'[d]) <= Len(chan[d])
        OBVIOUS
    <2>1. Len(chan[d]) \in Nat
        BY <1>4
    <2>2. CASE d = c
        <3>1. Len(chan'[d]) = n - 1 /\ Len(chan[d]) = n
            BY <1>5, <1>6, <1>7, <2>2
        <3> QED
            BY <3>1
    <2>3. CASE d # c
        <3>1. chan'[d] = chan[d]
            BY <1>6, <2>3
        <3> QED
            BY <2>1, <3>1
    <2> QED
        BY <2>2, <2>3
<1>10. InFlight'
    BY <1>1, <1>3, <1>8, <1>9, FlowKeeps DEF FlowInv
<1>11. ASSUME NEW p \in Delivered
       PROVE  to'[p] \in Conns /\ (p \in injected' \/ at'[to'[p]] \in Ended \/ Held(p)')
    <2>1. /\ to'[p] = to[p] /\ to[p] \in Conns /\ p \in Callers
          /\ p \in injected \/ at[to[p]] \in Ended \/ Held(p)
        BY <1>1 DEF FlowInv, Kept, Delivered
    <2>2. CASE p \in injected
        BY <1>2, <2>1, <2>2
    <2>3. CASE at[to[p]] \in Ended
        <3>1. to[p] # c
            BY <1>1, <2>3 DEF Ended
        <3> QED
            BY <1>2, <2>1, <2>3, <3>1 DEF TerminalInv, TerminalShapes
    <2>4. CASE Held(p) /\ to[p] # c
        <3>1. chan'[to[p]] = chan[to[p]]
            BY <1>6, <2>1, <2>4
        <3> QED
            BY <2>1, <2>4, <3>1 DEF Held
    <2>5. CASE Held(p) /\ to[p] = c
        <3>1. PICK i \in 1 .. n : q[i] = p
            BY <1>5, <2>5 DEF Held
        <3>2. CASE i = 1
            <4>1. Head(chan[c]) = p
                BY <1>5, <1>7, <3>1, <3>2
            <4>2. p \in injected' \/ at'[c] \in Ended
                BY <1>2, <2>1, <4>1 DEF TerminalInv, TerminalShapes, Ended
            <4> QED
                BY <2>1, <2>5, <4>2
        <3>3. CASE i # 1
            <4>1. i - 1 \in 1 .. n - 1 /\ Tail(q)[i - 1] = p
                BY <1>7, <3>1, <3>3
            <4>2. i - 1 \in DOMAIN Tail(q)
                BY <1>5, <1>7, <4>1
            <4>3. chan'[to'[p]] = Tail(q)
                BY <1>6, <2>1, <2>5
            <4>4. Held(p)'
                BY <4>1, <4>2, <4>3 DEF Held
            <4> QED
                BY <2>1, <4>4
        <3> QED
            BY <3>2, <3>3
    <2> QED
        BY <2>1, <2>2, <2>3, <2>4, <2>5
<1>12. Kept'
    BY <1>3, <1>11 DEF Kept
<1> QED
    BY <1>8, <1>10, <1>12 DEF FlowInv

\* A step of a sender that sends nothing and answers nobody "delivered".
LEMMA AskFlow ==
    ASSUME TerminalInv, FlowInv, NEW p \in Senders,
           NEW answer, sendAt' = [sendAt EXCEPT ![p] = answer],
           sendAt[p] # "delivered", answer # "delivered",
           p = Watchdog /\ sendAt[p] = "idle" => answer = "idle",
           \A x \in Senders : x # p => to'[x] = to[x],
           UNCHANGED <<capacity, at, chan, injected, issued>>
    PROVE  FlowInv'
<1>1. \A x \in Senders : sendAt'[x] = IF x = p THEN answer ELSE sendAt[x]
    BY DEF TerminalInv, TerminalShapes
<1>2. Delivered' = Delivered /\ p \notin Delivered
    BY <1>1 DEF Delivered, Senders
<1>3. ChannelShapes'
    BY DEF FlowInv, ChannelShapes
<1>4. \A c \in Conns : Len(chan'[c]) <= Len(chan[c])
    BY DEF FlowInv, ChannelShapes
<1>5. sendAt[Watchdog] = "idle" => sendAt'[Watchdog] = "idle"
    BY <1>1 DEF Senders
<1>6. InFlight'
    BY <1>2, <1>3, <1>4, <1>5, FlowKeeps DEF FlowInv
<1>7. \A x \in Delivered : to'[x] = to[x]
    BY <1>2 DEF Delivered, Senders
<1>8. Kept'
    BY <1>2, <1>7, KeptKeeps DEF FlowInv
<1> QED
    BY <1>3, <1>6, <1>8 DEF FlowInv

\* An ultimatum is counted when it is issued, before it is in a channel.
LEMMA IssueFlow ==
    ASSUME TerminalInv, FlowInv, IssueUltimatum
    PROVE  FlowInv'
<1>1. /\ sendAt[Watchdog] = "idle" /\ issued < MaxUltimata /\ issued' = issued + 1
      /\ sendAt' = [sendAt EXCEPT ![Watchdog] = "waiting"]
      /\ UNCHANGED <<capacity, at, chan, to, injected>>
    BY DEF IssueUltimatum, fixed
<1>2. \A x \in Senders : sendAt'[x] = IF x = Watchdog THEN "waiting" ELSE sendAt[x]
    BY <1>1 DEF TerminalInv, TerminalShapes
<1>3. Delivered' = Delivered
    BY <1>2, TerminalAssumption DEF Delivered, Senders
<1>4. ChannelShapes'
    BY <1>1, TerminalAssumption DEF FlowInv, ChannelShapes
<1>5. PICK n \in Nat : Cardinality(Delivered) = n /\ Cardinality(Delivered') = n
    BY <1>3, DeliveredFinite
<1>6. OnItsWay = 0 /\ OnItsWay' = 1
    BY <1>1, <1>2 DEF OnItsWay, Senders
<1>7. ASSUME NEW c \in Conns
      PROVE  Len(chan'[c]) + OnItsWay' <= Cardinality(Delivered') + issued'
    <2>1. Len(chan[c]) \in Nat /\ chan'[c] = chan[c]
        BY <1>1 DEF FlowInv, ChannelShapes
    <2>2. Len(chan[c]) + OnItsWay <= n + issued
        BY <1>5 DEF FlowInv, InFlight
    <2> QED
        BY <1>1, <1>5, <1>6, <2>1, <2>2 DEF FlowInv, ChannelShapes
<1>8. InFlight'
    BY <1>7 DEF InFlight
<1>9. Kept'
    BY <1>1, <1>3, KeptKeeps DEF FlowInv
<1> QED
    BY <1>4, <1>8, <1>9 DEF FlowInv

\* A text is put at the end of the channel, and counted: by the answer of its caller, or
\* by the ultimatum that is not on its way any more.
LEMMA DeliverFlow ==
    ASSUME TerminalInv, FlowInv, NEW p \in Senders,
           sendAt[p] = "sending", at[to[p]] # "closed",
           chan' = [chan EXCEPT ![to[p]] = Append(@, p)],
           sendAt' = [sendAt EXCEPT ![p] = IF p = Watchdog THEN "idle" ELSE "delivered"],
           UNCHANGED <<capacity, at, to, injected, issued>>
    PROVE  FlowInv'
<1>1. PICK c \in Conns : c = to[p]
    BY DEF TerminalInv, Sending
<1>2. chan \in [Conns -> Seq(Senders)]
    BY DEF FlowInv, ChannelShapes
<1>3. PICK q \in Seq(Senders), n \in Nat : q = chan[c] /\ n = Len(q)
    BY <1>2
<1>4. /\ Append(q, p) \in Seq(Senders) /\ Len(Append(q, p)) = n + 1
      /\ Append(q, p)[n + 1] = p
      /\ \A i \in 1 .. n : Append(q, p)[i] = q[i]
    BY <1>3
<1>5. /\ chan'[c] = Append(q, p)
      /\ \A d \in Conns : d # c => chan'[d] = chan[d]
    BY <1>1, <1>2, <1>3
<1>6. ChannelShapes'
    BY <1>1, <1>2, <1>3, <1>4 DEF FlowInv, ChannelShapes
<1>7. \A x \in Senders : sendAt'[x] = IF x = p THEN (IF p = Watchdog THEN "idle" ELSE "delivered")
                                               ELSE sendAt[x]
    BY DEF TerminalInv, TerminalShapes
<1>8. Watchdog \notin Callers /\ Watchdog \in Senders /\ \A x \in Callers : x \in Senders
    BY TerminalAssumption DEF Senders
<1>9. p \notin Delivered
    BY DEF Delivered
<1>10. Delivered' = IF p = Watchdog THEN Delivered ELSE Delivered \cup {p}
    <2>1. CASE p = Watchdog
        BY <1>7, <1>8, <2>1 DEF Delivered
    <2>2. CASE p # Watchdog
        <3>1. p \in Callers
            BY <2>2 DEF Senders
        <3> QED
            BY <1>7, <1>8, <2>2, <3>1 DEF Delivered
    <2> QED
        BY <2>1, <2>2
<1>11. PICK k \in Nat : k = Cardinality(Delivered)
    BY DeliveredFinite
<1>12. PICK m \in Nat : m = Cardinality(Delivered') /\ m = IF p = Watchdog THEN k ELSE k + 1
    <2>1. CASE p = Watchdog
        BY <1>10, <1>11, <2>1
    <2>2. CASE p # Watchdog
        <3>1. Cardinality(Delivered \cup {p}) = Cardinality(Delivered) + 1
            BY <1>9, DeliveredFinite, FS_AddElement
        <3> QED
            BY <1>10, <1>11, <2>2, <3>1
    <2> QED
        BY <2>1, <2>2
<1>13. PICK a \in 0 .. 1, b \in 0 .. 1 :
           /\ OnItsWay = a /\ OnItsWay' = b
           /\ IF p = Watchdog THEN a = 1 /\ b = 0 ELSE a = b
    BY <1>7, <1>8 DEF OnItsWay
<1>14. ASSUME NEW d \in Conns
       PROVE  Len(chan'[d]) + OnItsWay' <= Cardinality(Delivered') + issued'
    <2>1. PICK x \in Nat : x = Len(chan[d])
        BY <1>2
    <2>2. PICK y \in Nat : y = Len(chan'[d]) /\ y <= x + 1
        <3>1. CASE d = c
            BY <1>3, <1>4, <1>5, <2>1, <3>1
        <3>2. CASE d # c
            BY <1>5, <2>1, <3>2
        <3> QED
            BY <3>1, <3>2
    <2>3. PICK u \in Nat : u = issued /\ u = issued'
        BY TerminalAssumption DEF FlowInv, ChannelShapes
    <2>4. x + a <= k + u
        BY <1>11, <1>13, <2>1, <2>3 DEF FlowInv, InFlight
    <2>5. y + b <= m + u
        BY <1>12, <1>13, <2>2, <2>3, <2>4
    <2> QED
        BY <1>12, <1>13, <2>2, <2>3, <2>5
<1>15. InFlight'
    BY <1>14 DEF InFlight
<1>16. ASSUME NEW x \in Delivered'
       PROVE  to'[x] \in Conns /\ (x \in injected' \/ at'[to'[x]] \in Ended \/ Held(x)')
    <2>1. CASE x = p
        <3>1. n + 1 \in DOMAIN chan'[c] /\ chan'[c][n + 1] = p
            BY <1>3, <1>4, <1>5
        <3>2. Held(x)'
            BY <1>1, <2>1, <3>1 DEF Held
        <3> QED
            BY <1>1, <2>1, <3>2
    <2>2. CASE x # p
        <3>1. x \in Delivered
            BY <1>10, <2>2
        <3>2. to[x] \in Conns /\ (x \in injected \/ at[to[x]] \in Ended \/ Held(x))
            BY <3>1 DEF FlowInv, Kept
        <3>3. CASE Held(x) /\ to[x] # c
            <4>1. chan'[to[x]] = chan[to[x]]
                BY <1>5, <3>2, <3>3
            <4> QED
                BY <3>2, <3>3, <4>1 DEF Held
        <3>4. CASE Held(x) /\ to[x] = c
            <4>1. PICK i \in 1 .. n : q[i] = x
                BY <1>3, <3>4 DEF Held
            <4>2. i \in DOMAIN chan'[c] /\ chan'[c][i] = x
                BY <1>3, <1>4, <1>5, <4>1
            <4>3. Held(x)'
                BY <3>4, <4>2 DEF Held
            <4> QED
                BY <3>2, <4>3
        <3> QED
            BY <3>2, <3>3, <3>4
    <2> QED
        BY <2>1, <2>2
<1>17. Kept'
    BY <1>16 DEF Kept
<1> QED
    BY <1>6, <1>15, <1>17 DEF FlowInv

LEMMA StepFlow ==
    TerminalInv /\ FlowInv /\ [TerminalNext]_terminalVars => FlowInv'
<1> SUFFICES ASSUME TerminalInv, FlowInv, [TerminalNext]_terminalVars
             PROVE  FlowInv'
    OBVIOUS
<1>1. ASSUME NEW c \in Conns, VerifyToken(c) \/ OpenPty(c)
      PROVE  FlowInv'
    <2>1. UNCHANGED <<fixed, chan, sendAt, to, injected, issued>>
        BY <1>1 DEF VerifyToken, OpenPty
    <2>2. PICK from \in {"new", "open"}, where \in {"open", "register", "closed"} :
            Move(c, from, where)
        BY <1>1 DEF VerifyToken, OpenPty
    <2> QED
        BY <2>1, <2>2, ConnFlow DEF Ended
<1>2. ASSUME NEW c \in Conns, Register(c) \/ AskQuorum(c) \/ QuorumEnds(c) \/ Leave(c)
      PROVE  FlowInv'
    <2>1. UNCHANGED <<fixed, chan, sendAt, to, injected, issued>>
        BY <1>2 DEF Register, AskQuorum, QuorumEnds, Leave
    <2>2. PICK from \in {"register", "loop", "quorum"}, where \in {"loop", "quorum", "unregister"} :
            Move(c, from, where)
        BY <1>2 DEF Register, AskQuorum, QuorumEnds, Leave
    <2> QED
        BY <2>1, <2>2, ConnFlow DEF Ended
<1>3. ASSUME NEW c \in Conns, Panic(c) \/ Unregister(c)
      PROVE  FlowInv'
    <2>1. UNCHANGED <<fixed, sendAt, to, injected, issued>> /\ Drop(c)
        BY <1>3 DEF Panic, Unregister
    <2>2. PICK from \in {"loop", "unregister"} : Move(c, from, "closed")
        BY <1>3 DEF Panic, Unregister
    <2> QED
        BY <2>1, <2>2, ConnFlow DEF Ended
<1>4. ASSUME NEW p \in Senders, Instruct(p)
      PROVE  FlowInv'
    <2>1. /\ p # Watchdog /\ sendAt[p] # "delivered"
          /\ sendAt' = [sendAt EXCEPT ![p] = "waiting"]
          /\ UNCHANGED <<capacity, at, chan, to, injected, issued>>
        BY <1>4, TerminalAssumption DEF Instruct, fixed
    <2> QED
        BY <2>1, AskFlow
<1>5. ASSUME NEW p \in Senders, GiveUp(p)
      PROVE  FlowInv'
    <2>1. /\ sendAt[p] # "delivered" /\ sendAt[p] # "idle"
          /\ sendAt' = [sendAt EXCEPT ![p] = "dropped"]
          /\ UNCHANGED <<capacity, at, chan, to, injected, issued>>
        BY <1>5 DEF GiveUp, fixed
    <2> QED
        BY <2>1, AskFlow
<1>6. ASSUME NEW p \in Senders, LookUp(p)
      PROVE  FlowInv'
    <2>1. /\ sendAt[p] = "waiting"
          /\ UNCHANGED <<capacity, at, chan, injected, issued>>
        BY <1>6 DEF LookUp, fixed
    <2>2. PICK answer \in {"idle", "notfound", "sending"} :
            /\ sendAt' = [sendAt EXCEPT ![p] = answer]
            /\ \/ to' = to
               \/ \E m \in Machines : to' = [to EXCEPT ![p] = registry[m]]
        <3>1. PICK m \in IF p = Watchdog THEN Machines ELSE {Target[p]} :
                IF registry[m] = NoConn
                THEN /\ sendAt' = [sendAt EXCEPT ![p] = IF p = Watchdog THEN "idle" ELSE "notfound"]
                     /\ UNCHANGED <<readers, to>>
                ELSE /\ sendAt' = [sendAt EXCEPT ![p] = "sending"]
                     /\ to' = [to EXCEPT ![p] = registry[m]]
                     /\ readers' = readers \cup {p}
            BY <1>6 DEF LookUp
        <3>2. m \in Machines
            BY <3>1, TerminalAssumption DEF Senders
        <3>3. CASE registry[m] = NoConn
            BY <3>1, <3>3
        <3>4. CASE registry[m] # NoConn
            BY <3>1, <3>2, <3>4
        <3> QED
            BY <3>3, <3>4
    <2>3. \A x \in Senders : x # p => to'[x] = to[x]
        BY <2>2 DEF TerminalInv, TerminalShapes
    <2> QED
        BY <2>1, <2>2, <2>3, AskFlow
<1>7. ASSUME NEW p \in Senders, Send(p)
      PROVE  FlowInv'
    <2>1. /\ sendAt[p] = "sending"
          /\ UNCHANGED <<capacity, at, to, injected, issued>>
        BY <1>7 DEF Send, fixed
    <2>2. CASE /\ at[to[p]] = "closed"
               /\ sendAt' = [sendAt EXCEPT ![p] = IF p = Watchdog THEN "idle" ELSE "gone"]
               /\ UNCHANGED chan
        <3>1. PICK answer \in {"idle", "gone"} : sendAt' = [sendAt EXCEPT ![p] = answer]
            BY <2>2
        <3> QED
            BY <2>1, <2>2, <3>1, AskFlow
    <2>3. CASE /\ at[to[p]] # "closed"
               /\ chan' = [chan EXCEPT ![to[p]] = Append(@, p)]
               /\ sendAt' = [sendAt EXCEPT ![p] = IF p = Watchdog THEN "idle" ELSE "delivered"]
        BY <2>1, <2>3, DeliverFlow
    <2> QED
        BY <1>7, <2>2, <2>3 DEF Send
<1>8. CASE IssueUltimatum
    BY <1>8, IssueFlow
<1>9. CASE UNCHANGED terminalVars
    <2>1. UNCHANGED <<capacity, at, registry, chan, sendAt, to, injected, issued>>
        BY <1>9 DEF terminalVars, fixed
    <2>2. Delivered' = Delivered /\ OnItsWay' = OnItsWay
        BY <2>1 DEF Delivered, OnItsWay
    <2>3. ChannelShapes' /\ InFlight'
        BY <2>1, <2>2 DEF FlowInv, ChannelShapes, InFlight
    <2>4. Kept'
        BY <2>1, <2>2 DEF FlowInv, Kept, Held
    <2> QED
        BY <2>3, <2>4 DEF FlowInv
<1> QED
    BY <1>1, <1>2, <1>3, <1>4, <1>5, <1>6, <1>7, <1>8, <1>9, InjectFlow
    DEF TerminalNext, ConnStep

LEMMA FlowAlways == TerminalSpec => [](TerminalInv /\ FlowInv)
BY InitOpen, StepOpen, InitFlow, StepFlow, PTL DEF TerminalSpec

\* A sender that holds the lock is never kept waiting for room when a channel has room for
\* the callers and the ultimata: its own text is not among those that are counted (inject
\* and issue_ultimatum, send().await).
THEOREM RoomAlways == TerminalSpec => []RoomIsEnough
<1>1. ASSUME TerminalInv, FlowInv, Roomy, NEW p \in Senders,
             sendAt[p] = "sending", at[to[p]] # "closed"
      PROVE  Len(chan[to[p]]) < capacity
    <2>1. PICK c \in Conns : c = to[p]
        BY <1>1 DEF TerminalInv, Sending
    <2>2. PICK n \in Nat, k \in Nat, a \in 0 .. 1, u \in Nat, z \in Nat :
              /\ n = Len(chan[c]) /\ k = Cardinality(Delivered) /\ a = OnItsWay
              /\ u = issued /\ u <= MaxUltimata /\ z = Cardinality(Callers)
        <3>1. OnItsWay \in 0 .. 1
            BY DEF OnItsWay
        <3>2. Len(chan[c]) \in Nat /\ issued \in Nat /\ issued <= MaxUltimata
            BY <1>1, TerminalAssumption DEF FlowInv, ChannelShapes
        <3>3. Cardinality(Delivered) \in Nat /\ Cardinality(Callers) \in Nat
            BY DeliveredFinite
        <3> QED
            BY <3>1, <3>2, <3>3
    <2>3. n + a <= k + u
        BY <1>1, <2>2 DEF FlowInv, InFlight
    <2>4. capacity \in Nat /\ MaxUltimata \in Nat /\ capacity >= z + MaxUltimata
        BY <1>1, <2>2, TerminalAssumption DEF FlowInv, ChannelShapes, Roomy
    <2>5. k <= z
        <3>1. Delivered \subseteq Callers
            BY DEF Delivered
        <3> QED
            BY <2>2, <3>1, DeliveredFinite, FS_Subset
    <2>6. CASE p = Watchdog
        <3>1. a = 1
            BY <1>1, <2>2, <2>6 DEF OnItsWay
        <3> QED
            BY <2>1, <2>2, <2>3, <2>4, <2>5, <3>1
    <2>7. CASE p # Watchdog
        <3>1. p \in Callers /\ p \notin Delivered
            BY <1>1, <2>7 DEF Delivered, Senders
        <3>2. Delivered \cup {p} \subseteq Callers
            BY <3>1 DEF Delivered
        <3>3. Cardinality(Delivered \cup {p}) <= Cardinality(Callers)
            BY <3>2, DeliveredFinite, FS_Subset
        <3>4. Cardinality(Delivered \cup {p}) = k + 1
            BY <2>2, <3>1, DeliveredFinite, FS_AddElement
        <3>5. k + 1 <= z
            BY <2>2, <3>3, <3>4
        <3> QED
            BY <2>1, <2>2, <2>3, <2>4, <3>5
    <2> QED
        BY <2>6, <2>7
<1>2. TerminalInv /\ FlowInv => RoomIsEnough
    BY <1>1 DEF RoomIsEnough
<1> QED
    BY <1>2, FlowAlways, PTL

\* Text that was answered "delivered" is written or still in the channel while its terminal
\* lasts, for any connections to a machine (the branch on instruct_rx).
THEOREM DeliveredKept == TerminalSpec => []DeliveredIsKept
<1>1. FlowInv => DeliveredIsKept
    BY DEF FlowInv, Kept, Held, Ended, Delivered, DeliveredIsKept
<1> QED
    BY <1>1, FlowAlways, PTL
=============================================================================
