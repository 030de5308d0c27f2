--------------------------------- MODULE Bus ---------------------------------
(***************************************************************************)
(* What clients follow by polling: the messages of agents (routes/          *)
(* messages.rs), the audit entries of a machine (audit_stream, routes/      *)
(* pty.rs), questions to the oracle (routes/oracle.rs), disagreements and   *)
(* progress reports and their announcements (routes/facilitator.rs,         *)
(* routes/tasks.rs), reflexions, the status of a task (stream_task) and the *)
(* requests that wait for a decision (pending_approval_stream, sessions/    *)
(* manager.rs).                                                             *)
(*                                                                         *)
(* Every query is a step of its own: SQLite runs one statement at a time.   *)
(* A query that fails changes nothing and is repeated at the next tick.     *)
(* The parts share nothing but the table of messages, so a behaviour runs   *)
(* one scenario of Plans, which bounds what its actors do.                  *)
(***************************************************************************)
EXTENDS Integers, Sequences, FiniteSets

CONSTANTS
    Readers, FeedOf,    \* streams, and the rows each one asks for
    Pollers, PollOf,    \* clients of poll_messages, likewise
    Posts,              \* the messages clients may post
    Questions,          \* calls of ask_oracle
    Oracle,             \* the stream of the agent that answers them
    Calls, Reports,     \* calls of submit_disagreement; of submit_progress
    Reflexions,         \* calls of submit_reflexion
    Tasks, Requests,    \* tasks, and pending session requests
    TaskOf,             \* the task each reflexion is about
    Watchers, WatchOf,  \* clients of the two status streams
    PerSecond,          \* ticks of the clock (milliseconds) per second
    Plans

Tables == {"messages", "audit"}
All == "all"                    \* to_machine IS NULL

ASSUME BusAssumption ==
    /\ FeedOf \in [Readers -> [table : Tables, machine : STRING, channel : STRING]]
    /\ PollOf \in [Pollers -> [table : {"messages"}, machine : STRING, channel : STRING]]
    /\ WatchOf \in [Watchers -> Tasks \cup {All}]
    /\ TaskOf \in [Reflexions -> Tasks]
    /\ Oracle \in Readers /\ FeedOf[Oracle].table = "messages"
    /\ Calls \cap Reports = {} /\ (Calls \cup Reports) \cap Reflexions = {}
    /\ (Calls \cup Reports) \cap (Questions \cup {m.about : m \in Posts}) = {}
    /\ PerSecond \in Nat \ {0}
    /\ \A p \in Plans : /\ {p.posts, p.audits, p.breaks, p.time} \subseteq Nat
                        /\ p.clients \subseteq Readers \cup Pollers \cup Watchers
                        /\ p.questions \subseteq Questions
                        /\ p.calls \subseteq Calls \cup Reports \cup Reflexions
                        /\ p.tasks \subseteq Tasks /\ p.requests \subseteq Requests

VARIABLES
    plan,       \* what is left of this scenario
    now,        \* the clock, in ticks
    log,        \* agent_messages and audit_entries; the index is the id
    conn,       \* of each reader: last_id, and the rows fetched and not sent
    got,        \* the ids each reader has received on its connection
    poll,       \* of each poller: since, and the ids it has received, in order
    question,   \* where each question stands for who asked it
    call,       \* where each call that writes a row of rows stands
    rows,       \* rows of disagreements, and of task_outputs by their keys
    status,     \* the status of each task
    pending,    \* the requests with status 'pending'
    watch       \* of each watcher: its state, and what it has been shown

feeds == <<conn, got>>
streams == <<status, pending, watch>>
vars == <<plan, now, log, feeds, poll, question, call, rows, streams>>

NoKey == <<"none", 0>>
Down == [up |-> FALSE, cursor |-> 0, batch |-> {}]
Second(t) == t \div PerSecond
Spend(what) == plan[what] > 0 /\ plan' = [plan EXCEPT ![what] = @ - 1]

\* AUTOINCREMENT and datetime('now').
Row(to, channel, kind, about) ==
    [to |-> to, channel |-> channel, kind |-> kind, about |-> about, at |-> Second(now)]
Insert(table, row) == log' = [log EXCEPT ![table] = Append(@, row)]

Init ==
    /\ plan \in Plans
    /\ now = 0
    /\ log = [t \in Tables |-> <<>>]
    /\ conn = [r \in Readers |-> Down]
    /\ got = [r \in Readers |-> {}]
    /\ poll = [p \in Pollers |-> [since |-> -1, heard |-> <<>>]]
    /\ question = [q \in Questions |-> "new"]
    /\ call = [c \in Calls \cup Reports \cup Reflexions |-> [at |-> "new", key |-> NoKey]]
    /\ rows = {}
    /\ status = [t \in Tasks |-> "queued"]
    /\ pending = {}
    /\ watch = [w \in Watchers |-> [at |-> "closed", last |-> All, shown |-> {}]]

-----------------------------------------------------------------------------
(* Rows that concern a client.                                              *)

\* A stream of audit entries has no broadcasts and no channels.
Concerns(row, feed) ==
    IF feed.table = "audit"
    THEN row.to = feed.machine
    ELSE row.to \in {feed.machine, All} /\ row.channel = feed.channel

Matching(r) ==
    {i \in DOMAIN log[FeedOf[r].table] : Concerns(log[FeedOf[r].table][i], FeedOf[r])}

-----------------------------------------------------------------------------
(* Broken variants of the definitions below.                                *)

\* The rows of a query are sent newest first (ORDER BY id DESC).
DeliverNewestFirst(r) ==
    /\ conn[r].up
    /\ \E i \in conn[r].batch :
         /\ \A j \in conn[r].batch : j <= i
         /\ conn' = [conn EXCEPT ![r] = [up |-> TRUE, cursor |-> i, batch |-> @.batch \ {i}]]
         /\ got' = [got EXCEPT ![r] = @ \cup {i}]
    /\ UNCHANGED <<plan, now, log, poll, question, call, rows, streams>>

\* A poll with created_at >= since.
NewSinceInclusive(p) ==
    {i \in DOMAIN log["messages"] :
        /\ Concerns(log["messages"][i], PollOf[p])
        /\ log["messages"][i].at >= poll[p].since}

\* get_answer that looks at the newest row about the question only.
AnswerNewest(q) ==
    LET about == {i \in DOMAIN log["messages"] : log["messages"][i].about = q}
    IN  \E i \in about : /\ \A j \in about : j <= i
                         /\ log["messages"][i].kind = "answer"

\* The announcement's error is dropped.
AnnounceSwallows(c) ==
    /\ call[c].at = "stored"
    /\ call' = [call EXCEPT ![c].at = "ok"]
    /\ UNCHANGED <<plan, now, log, feeds, poll, question, rows, streams>>

\* is_terminal without "failed".
TerminalForgets(s) == s \in {"completed", "cancelled"}

-----------------------------------------------------------------------------
(* Writers.                                                                 *)

\* post_message, its token verified.
Post(m) ==
    /\ Spend("posts")
    /\ Insert("messages", Row(m.to, m.channel, m.kind, m.about))
    /\ UNCHANGED <<now, feeds, poll, question, call, rows, streams>>

\* Whatever adds an audit entry for a machine.
AppendAudit(machine) ==
    /\ Spend("audits")
    /\ Insert("audit", Row(machine, "", "entry", All))
    /\ UNCHANGED <<now, feeds, poll, question, call, rows, streams>>

Tick ==
    /\ Spend("time")
    /\ now' = now + 1
    /\ UNCHANGED <<log, feeds, poll, question, call, rows, streams>>

-----------------------------------------------------------------------------
(* stream_messages and audit_stream.                                        *)

\* A new stream has last_id 0 and nothing fetched.
Connect(r) ==
    /\ r \in plan.clients /\ ~conn[r].up
    /\ conn' = [conn EXCEPT ![r].up = TRUE]
    /\ UNCHANGED <<plan, now, log, got, poll, question, call, rows, streams>>

\* A tick of the poll, or the backlog of a new audit stream.
Fetch(r) ==
    /\ conn[r].up /\ conn[r].batch = {}
    /\ conn' = [conn EXCEPT ![r].batch = {i \in Matching(r) : i > conn[r].cursor}]
    /\ UNCHANGED <<plan, now, log, got, poll, question, call, rows, streams>>

\* The rows of a query are sent in the order of their ids.
Deliver(r) ==
    /\ conn[r].up
    /\ \E i \in conn[r].batch :
         /\ \A j \in conn[r].batch : i <= j
         /\ conn' = [conn EXCEPT ![r] = [up |-> TRUE, cursor |-> i, batch |-> @.batch \ {i}]]
         /\ got' = [got EXCEPT ![r] = @ \cup {i}]
    /\ UNCHANGED <<plan, now, log, poll, question, call, rows, streams>>

\* The client goes, or sending to it fails.
Lose(r) ==
    /\ Spend("breaks")
    /\ conn[r].up
    /\ conn' = [conn EXCEPT ![r] = Down]
    /\ got' = [got EXCEPT ![r] = {}]
    /\ UNCHANGED <<now, log, poll, question, call, rows, streams>>

\* The gateway restarts: its connections and the calls it was serving end.
Crash ==
    /\ Spend("breaks")
    /\ conn' = [r \in Readers |-> Down]
    /\ got' = [r \in Readers |-> {}]
    /\ call' = [c \in DOMAIN call |->
                  [call[c] EXCEPT !.at = IF @ = "stored" THEN "lost" ELSE @]]
    /\ watch' = [w \in Watchers |-> [watch[w] EXCEPT !.at = "closed", !.last = All]]
    /\ UNCHANGED <<now, log, poll, question, rows, status, pending>>

-----------------------------------------------------------------------------
(* poll_messages, by a client that passes the created_at of the last        *)
(* message it received as since.                                            *)

NewSince(p) ==
    {i \in DOMAIN log["messages"] :
        /\ Concerns(log["messages"][i], PollOf[p])
        /\ log["messages"][i].at > poll[p].since}

\* ORDER BY id ASC.
InOrder(S) ==
    CHOOSE s \in [1..Cardinality(S) -> S] : \A i, j \in DOMAIN s : i < j => s[i] < s[j]

Poll(p) ==
    /\ p \in plan.clients /\ NewSince(p) # {}
    /\ LET new == InOrder(NewSince(p))
       IN  poll' = [poll EXCEPT ![p] =
                      [since |-> log["messages"][new[Len(new)]].at,
                       heard |-> @.heard \o new]]
    /\ UNCHANGED <<plan, now, log, feeds, question, call, rows, streams>>

-----------------------------------------------------------------------------
(* ask_oracle and get_answer.                                               *)

AskOracle(q) ==
    /\ q \in plan.questions /\ question[q] = "new"
    /\ question' = [question EXCEPT ![q] = "asked"]
    /\ Insert("messages", Row(All, FeedOf[Oracle].channel, "question", q))
    /\ UNCHANGED <<plan, now, feeds, poll, call, rows, streams>>

\* The oracle answers, once, a question it has received (post_message).
OracleAnswers(q) ==
    /\ \E i \in got[Oracle] :
         log["messages"][i].kind = "question" /\ log["messages"][i].about = q
    /\ \A i \in DOMAIN log["messages"] :
         ~(log["messages"][i].kind = "answer" /\ log["messages"][i].about = q)
    /\ Insert("messages", Row(All, FeedOf[Oracle].channel, "answer", q))
    /\ UNCHANGED <<plan, now, feeds, poll, question, call, rows, streams>>

\* Rows about the question, the question itself among them, are skipped
\* until one of type "answer" is met.
Answered(q) ==
    \E i \in DOMAIN log["messages"] :
        /\ log["messages"][i].channel = FeedOf[Oracle].channel
        /\ log["messages"][i].about = q
        /\ log["messages"][i].kind = "answer"

GetAnswer(q) ==
    /\ question[q] = "asked" /\ Answered(q)
    /\ question' = [question EXCEPT ![q] = "answered"]
    /\ UNCHANGED <<plan, now, log, feeds, poll, call, rows, streams>>

-----------------------------------------------------------------------------
(* submit_disagreement and submit_progress: a row, then its announcement,   *)
(* by statements of their own.  A report's key is the millisecond; a second *)
(* one of the same millisecond replaces the row.  submit_reflexion writes   *)
(* one row per task, among the reports, and announces nothing.              *)

Key(c) ==
    CASE c \in Calls      -> <<"disagreement", c>>
      [] c \in Reports    -> <<"progress", now>>
      [] c \in Reflexions -> <<"reflexion", TaskOf[c]>>

\* INSERT OR REPLACE.
Write(c) == rows' = {r \in rows : r.key # Key(c)} \cup {[key |-> Key(c), by |-> c]}

Store(c) ==
    /\ c \in plan.calls \ Reflexions /\ call[c].at = "new"
    /\ call' = [call EXCEPT ![c] = [at |-> "stored", key |-> Key(c)]]
    /\ Write(c)
    /\ UNCHANGED <<plan, now, log, feeds, poll, question, streams>>

Reflect(c) ==
    /\ c \in plan.calls \cap Reflexions /\ call[c].at = "new"
    /\ call' = [call EXCEPT ![c] = [at |-> "ok", key |-> Key(c)]]
    /\ Write(c)
    /\ UNCHANGED <<plan, now, log, feeds, poll, question, streams>>

StoreFails(c) ==
    /\ c \in plan.calls /\ call[c].at = "new"
    /\ call' = [call EXCEPT ![c].at = "failed"]
    /\ UNCHANGED <<plan, now, log, feeds, poll, question, rows, streams>>

Announce(c) ==
    /\ call[c].at = "stored"
    /\ call' = [call EXCEPT ![c].at = "ok"]
    /\ Insert("messages", Row(All, "run", "announcement", c))
    /\ UNCHANGED <<plan, now, feeds, poll, question, rows, streams>>

AnnounceFails(c) ==
    /\ call[c].at = "stored"
    /\ call' = [call EXCEPT ![c].at = "failed"]
    /\ UNCHANGED <<plan, now, log, feeds, poll, question, rows, streams>>

-----------------------------------------------------------------------------
(* What can be looked up: get_decision, get_reflexion and, for a tenant with *)
(* no more tasks than its limit, list_reflexions.                           *)

Found(c) == \E r \in rows : r.key = call[c].key
ReflexionsOn(t) == {r.by : r \in {x \in rows : x.key = <<"reflexion", t>>}}
ListedTasks == {TaskOf[r.by] : r \in {x \in rows : x.key[1] = "reflexion"}}

-----------------------------------------------------------------------------
(* stream_task and pending_approval_stream.                                 *)

IsTerminal(s) == s \in {"completed", "failed", "cancelled"}

\* get_next_task starts a task; submit_result ends it, whatever its status.
TaskChanges(t) ==
    /\ t \in plan.tasks
    /\ \/ status[t] = "queued" /\ status' = [status EXCEPT ![t] = "running"]
       \/ \E s \in {"completed", "failed"} \ {status[t]} :
            status' = [status EXCEPT ![t] = s]
    /\ UNCHANGED <<plan, now, log, feeds, poll, question, call, rows, pending, watch>>

\* The first poll of a new stream is shown whatever it finds.
WatchTask(w) ==
    LET s == status[WatchOf[w]]
    IN  /\ w \in plan.clients /\ WatchOf[w] \in Tasks /\ watch[w].at = "closed"
        /\ ~IsTerminal(watch[w].last)
        /\ watch' = [watch EXCEPT ![w] =
                       [at |-> IF IsTerminal(s) THEN "closed" ELSE "open",
                        last |-> s, shown |-> {s}]]
        /\ UNCHANGED <<plan, now, log, feeds, poll, question, call, rows, status, pending>>

\* A later one when the status is another.
PollTask(w) ==
    LET s == status[WatchOf[w]]
    IN  /\ WatchOf[w] \in Tasks /\ watch[w].at = "open" /\ watch[w].last # s
        /\ watch' = [watch EXCEPT ![w] =
                       [at |-> IF IsTerminal(s) THEN "closed" ELSE "open",
                        last |-> s, shown |-> @.shown \cup {s}]]
        /\ UNCHANGED <<plan, now, log, feeds, poll, question, call, rows, status, pending>>

Request(x) ==
    /\ x \in plan.requests
    /\ plan' = [plan EXCEPT !.requests = @ \ {x}]
    /\ pending' = pending \cup {x}
    /\ UNCHANGED <<now, log, feeds, poll, question, call, rows, status, watch>>

\* Decided, or timed out.
Settle(x) ==
    /\ x \in pending
    /\ pending' = pending \ {x}
    /\ UNCHANGED <<plan, now, log, feeds, poll, question, call, rows, status, watch>>

WatchRequests(w) ==
    /\ w \in plan.clients /\ WatchOf[w] = All /\ watch[w].at = "closed"
    /\ watch' = [watch EXCEPT ![w] = [at |-> "open", last |-> All, shown |-> {}]]
    /\ UNCHANGED <<plan, now, log, feeds, poll, question, call, rows, status, pending>>

\* `seen`: each request is shown once per connection.
PollRequests(w) ==
    /\ WatchOf[w] = All /\ watch[w].at = "open" /\ ~(pending \subseteq watch[w].shown)
    /\ watch' = [watch EXCEPT ![w].shown = @ \cup pending]
    /\ UNCHANGED <<plan, now, log, feeds, poll, question, call, rows, status, pending>>

-----------------------------------------------------------------------------

Reading(r) == Connect(r) \/ Fetch(r) \/ Deliver(r)
Asking(q) == OracleAnswers(q) \/ GetAnswer(q)
Calling(c) == Store(c) \/ Reflect(c) \/ StoreFails(c) \/ Announce(c) \/ AnnounceFails(c)
Watching(w) == WatchTask(w) \/ PollTask(w) \/ WatchRequests(w) \/ PollRequests(w)

Next ==
    \/ \E m \in Posts : Post(m)
    \/ \E r \in Readers : FeedOf[r].table = "audit" /\ AppendAudit(FeedOf[r].machine)
    \/ Tick \/ Crash
    \/ \E r \in Readers : Reading(r) \/ Lose(r)
    \/ \E p \in Pollers : Poll(p)
    \/ \E q \in Questions : AskOracle(q) \/ Asking(q)
    \/ \E c \in DOMAIN call : Calling(c)
    \/ \E t \in Tasks : TaskChanges(t)
    \/ \E x \in Requests : Request(x) \/ Settle(x)
    \/ \E w \in Watchers : Watching(w)

Spec == Init /\ [][Next]_vars

\* Clients come back, the timers of the streams fire, an agent that asks
\* polls for the answer, and the oracle answers what it has received.
FairSpec ==
    /\ Spec
    /\ \A r \in Readers : /\ WF_vars(Connect(r))
                          /\ WF_vars(Fetch(r))
                          /\ WF_vars(Deliver(r))
    /\ \A q \in Questions : WF_vars(OracleAnswers(q)) /\ WF_vars(GetAnswer(q))
    /\ \A w \in Watchers : WF_vars(Watching(w))

-----------------------------------------------------------------------------
(* Properties.                                                              *)

Feed == INSTANCE OrderedFeed WITH source <- [r \in Readers |-> Matching(r)]

\* Every connection of a stream (stream_messages, audit_stream) delivers the
\* rows that concern it from the first one, in order, none missing and none
\* twice, whatever is inserted while a batch is sent.
FeedIsFaithful == Feed!Spec

\* A client of poll_messages that passes the last created_at as since hears
\* no message twice; what it misses for ever was posted in the second of a
\* message it has, and after it (created_at has a precision of one second).
PollLosesOnlyTies ==
    \A p \in Pollers :
        LET heard == poll[p].heard
            msgs == log["messages"]
            Heard == {heard[k] : k \in DOMAIN heard}
        IN  /\ \A k, l \in DOMAIN heard : k # l => heard[k] # heard[l]
            /\ \A i \in DOMAIN msgs \ Heard :
                 /\ Concerns(msgs[i], PollOf[p])
                 /\ msgs[i].at <= poll[p].since
                 => \E j \in Heard : j < i /\ msgs[j].at = msgs[i].at

\* Who asks the oracle is told the answer in the end: the question outlives a
\* lost connection of the oracle, and remarks about it do not hide the answer
\* (get_answer walks all rows about the question).
QuestionsAreAnswered ==
    \A q \in Questions : question[q] = "asked" ~> question[q] = "answered"

Announced(c) == \E i \in DOMAIN log["messages"] : log["messages"][i].about = c

\* submit_disagreement and submit_progress, which write the row and the
\* announcement separately: who is answered ok has been announced, and what is
\* announced can be looked up, after every error and crash in between.  The
\* reflexions a tenant finds are those that were answered "stored", the last one on
\* each task, and no report takes the place of one (submit_reflexion).
AnnouncementsAreTrue ==
    LET Stored(t) == {c \in Reflexions : call[c].at = "ok" /\ TaskOf[c] = t}
    IN  /\ \A c \in Calls \cup Reports :
             /\ call[c].at = "ok" => Announced(c)
             /\ Announced(c) => Found(c)
        /\ \A t \in Tasks :
             /\ ReflexionsOn(t) \subseteq Stored(t)
             /\ Cardinality(ReflexionsOn(t)) = Cardinality({t} \cap ListedTasks)
             /\ t \in ListedTasks <=> Stored(t) # {}

\* Every row arrives at the streams it concerns although connections break and
\* the gateway restarts; who watches a task (stream_task) is told that it ended,
\* and the stream is closed; who watches the requests of a tenant is shown each
\* one that stays pending, on every connection.
WatchersAreServed ==
    /\ \A r \in Readers, i \in 1..4 : r \in plan.clients => Feed!Arrives(r, i)
    /\ \A w \in Watchers :
        IF WatchOf[w] = All
        THEN \A x \in Requests :
               (w \in plan.clients /\ x \in pending) ~> (x \in watch[w].shown \/ x \notin pending)
        ELSE (w \in plan.clients /\ status[WatchOf[w]] \in {"completed", "failed"})
               ~> (watch[w].at = "closed" /\ watch[w].last \in {"completed", "failed"})
=============================================================================
