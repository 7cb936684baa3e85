SPECIFICATION FairSpec
CONSTANTS
    Queues <- MCBoth
    Entries = 3
    WaitMax = 2
    MaxFrames = 5
    MaxResets = 1
    Machines = {FALSE, TRUE}
INVARIANTS
    RingSound
PROPERTIES
    InOrderOneCpu
    FramesGoOut
