SPECIFICATION FairSpec
CONSTANTS
    d1 = d1
    g1 = g1
    g2 = g2
    f1 = f1
    f2 = f2
    Readers <- StreamNames
    FeedOf <- Streams
    Pollers = {"poller"}
    PollOf <- PolledFeeds
    Posts <- SomePosts
    Questions = {"q1"}
    Oracle = "oracle"
    Calls = {d1}
    Reports = {g1, g2}
    Reflexions = {f1, f2}
    TaskOf <- Reflected
    Tasks = {"t1"}
    Requests = {"x1", "x2"}
    Watchers = {"task", "phone"}
    WatchOf <- Watched
    PerSecond = 2
    Plans <- Scenarios
CHECK_DEADLOCK FALSE
INVARIANT PollLosesOnlyTies
 
PROPERTY FeedIsFaithful
PROPERTY QuestionsAreAnswered
PROPERTY WatchersAreServed
