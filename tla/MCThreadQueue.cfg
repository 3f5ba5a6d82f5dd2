SPECIFICATION FairSpec
CONSTANTS
    NbStreams = 2
    QueueSize = 2
    a = a
    b = b
    h = h
    Senders = {a, b, h}
    Owners = {a, b}
    Receiver = rcv
    StreamOf <- MCStreamOf
    MaxSends = 2
    MaxChokes = 3
INVARIANTS
    TypeOK
    NoLostWakeup
    OwnerNeverRefused
PROPERTIES
    ImplementsChannel
    Termination
