SPECIFICATION FairSpec
CONSTANTS
    MaxLine = 4
    RioBuf = 2
    Cap = 3
    MaxText = 7
INVARIANTS BytesInOrder FramesAgree
PROPERTIES ImplementsRequestReply Replied
CHECK_DEADLOCK FALSE
