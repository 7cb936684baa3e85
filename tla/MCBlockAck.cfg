CONSTANTS
    Smp = FALSE
    SeqMod = 4
    TokenMod = 2
    Timeouts <- MCTimeouts
SPECIFICATION FairSpec
INVARIANTS
    AttemptTimed
    AgreementHeld
PROPERTIES
    AttemptEnds
CHECK_DEADLOCK FALSE
