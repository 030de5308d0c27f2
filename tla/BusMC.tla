-------------------------------- MODULE BusMC --------------------------------
(* Bus for TLC: two streams of messages, one of audit entries, one poller.    *)
EXTENDS Bus, TLC

CONSTANTS d1, g1, g2, f1, f2

Feed3 == [table |-> "messages", machine |-> "m1", channel |-> "team"]
Streams ==
    [team |-> Feed3,
     oracle |-> [table |-> "messages", machine |-> "m2", channel |-> "oracle"],
     entries |-> [table |-> "audit", machine |-> "m1", channel |-> ""]]
StreamNames == DOMAIN Streams
PolledFeeds == [poller |-> Feed3]
Reflected == [c \in {f1, f2} |-> "t1"]
Watched == [task |-> "t1", phone |-> All]

Message(to, channel, kind, about) ==
    [to |-> to, channel |-> channel, kind |-> kind, about |-> about]

\* To one machine, to all, to another one; a remark about the question.
SomePosts ==
    {Message("m1", "team", "text", All), Message(All, "team", "text", All),
     Message("m2", "team", "text", All), Message(All, "oracle", "remark", "q1")}

Idle == [clients |-> {}, posts |-> 0, audits |-> 0, breaks |-> 0, time |-> 0,
         questions |-> {}, calls |-> {}, tasks |-> {}, requests |-> {}]

Scenarios ==
    {[Idle EXCEPT !.clients = {"team"}, !.posts = 4, !.breaks = 2],
     [Idle EXCEPT !.clients = {"entries"}, !.audits = 3, !.posts = 1, !.breaks = 1],
     [Idle EXCEPT !.clients = {"poller"}, !.posts = 4, !.time = 3],
     [Idle EXCEPT !.clients = {"oracle"}, !.posts = 1, !.questions = {"q1"}, !.breaks = 1],
     [Idle EXCEPT !.calls = {d1, g1, g2}, !.time = 1, !.breaks = 1],
     [Idle EXCEPT !.calls = {g1, f1, f2}, !.time = 1, !.breaks = 1],
     [Idle EXCEPT !.clients = {"task", "phone"}, !.tasks = {"t1"},
                  !.requests = {"x1", "x2"}, !.breaks = 1]}
=============================================================================
