SPECIFICATION LiveSpec
CONSTANTS
    ExecRetries = 0
    SubmitRetries = 0
    MaxSubmits = 1
    MaxPolls = 1
    Troubles = {"restart"}
    MaxTroubles = 1
    Push = TRUE
    SlowSubmit = FALSE
PROPERTIES
    JobEndKnown
CHECK_DEADLOCK FALSE
