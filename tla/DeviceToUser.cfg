\* A device that publishes a topic three times and a user that asks for it at any
\* moment of the device's life; one Interest of the device and two of the user are lost.
CONSTANTS
    Topics = {t1}
    Round = 3
    FirstSequence = 1
    Fetch <- NoFetch
    MaxInt = 15
    DeviceTimeouts = 1
    UserTimeouts = 2
    MaxChains = 2
    MaxSequence = 5
    MaxU64 = 7
SPECIFICATION FairSpec
CHECK_DEADLOCK FALSE
INVARIANTS
    HeldWhenWithdrawn
    ReceivedUnbroken
PROPERTY
    NoReadingMissed
