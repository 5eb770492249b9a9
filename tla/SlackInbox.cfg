SPECIFICATION FairSpec
CONSTANTS
    Null = Null post = post reply = reply
    Posts = {post}
    Replies = {reply}
    RootOf <- MCRootOf
    Drains = {1, 2}
    Convs = {c1, c2, c3}
    MaxFaults = 2
INVARIANTS
    LinesKept
    LaunchedOnce
    DoneIsRouted
PROPERTIES
    EveryLineHandled
CONSTRAINT GivenUpOnThePost
CHECK_DEADLOCK FALSE
