\* Bodies of up to three frames, in each way of forwarding.
SPECIFICATION FairSpec
CONSTANTS
    MaxFrames = 3
    Modes = {"chat", "decoded", "translated"}
CHECK_DEADLOCK FALSE
PROPERTIES
    DeliveryIsHonest
    OutcomeIsPromised
    EveryStreamEnds
