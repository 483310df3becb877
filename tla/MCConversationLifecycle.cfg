CONSTANTS
    Request = {r1, r2, r3}
    r1 = r1
    r2 = r2
    r3 = r3
    Kinds = {"start", "resume", "pause", "archive", "message", "channel", "startCommander", "stopCommander"}
    MaxTicks = 1
    None = None
SPECIFICATION Spec
SYMMETRY Symmetry
CHECK_DEADLOCK FALSE
INVARIANTS
    RestsAsAsked
    StartingIsOwned
    FollowsConversation
PROPERTIES
    StoppedSticks
