CONSTANTS
    UserOps <- MCAll
    LinkLoss = TRUE
    Preempt = FALSE
    RetryLimit = 1
SPECIFICATION Spec
INVARIANTS
    LinkUsable
    SurveyOwnsSem
CHECK_DEADLOCK FALSE
