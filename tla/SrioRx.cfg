SPECIFICATION FairSpec
CONSTANTS
    Packets = 3
    Sizes = {1, 2}
    Addrs = {1, 3}
    Page = 4
INVARIANTS EnginesFollowStream BeatsInPlace EachDoorbellAnswered MessageKeptUntilRead
PROPERTIES EveryPacketTaken
