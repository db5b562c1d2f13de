CONSTANTS
    Clients = {c1, c2, c3, c4}
    Duplex = {c1}
    Input = Input
    NumMessages = 2
    Entries = 3
    MaxFaults = 3
    Empty = Empty
    Cut = Cut
    Chatter = Chatter
SPECIFICATION FairSpec
INVARIANTS TypeOK Alternation InOrder AllServed
PROPERTY EndsOrWaits
CHECK_DEADLOCK FALSE
