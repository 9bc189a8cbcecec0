CONSTANTS
    a = a
    b = b
    Nodes = {a, b}
    Transports = {"lightning", "nostr", "memory"}
    Msgs <- MCMsgs
    Openings <- MCOpenings
    Replies <- MCReplies
    NoReply = NoReply
    MaxData = 20
    MaxSegments = 3
    Capacity = 1
    MaxFaults = 3
SPECIFICATION Spec
INVARIANT MessagingInv
PROPERTIES HonestPeerStaysConnected SentIsHandled
CHECK_DEADLOCK FALSE
