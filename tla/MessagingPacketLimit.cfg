CONSTANTS
    a = a
    b = b
    Nodes = {a, b}
    Transports = {"lightning"}
    Msgs <- MCMsgs
    Openings <- MCOpenings
    Replies <- MCReplies
    NoReply = NoReply
    MaxData = 20
    MaxSegments = 3
    Capacity = 1
    MaxFaults = 3
SPECIFICATION Spec
INVARIANT PacketsFit
CHECK_DEADLOCK FALSE
