CONSTANTS
    UserOps <- MCRestart
    LinkLoss = TRUE
    Preempt = FALSE
    RetryLimit = 2
SPECIFICATION FairSpec
INVARIANTS
    NothingForgotten
    LinkIsReal

    
