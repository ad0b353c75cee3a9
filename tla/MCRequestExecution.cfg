SPECIFICATION FairSpec
CONSTANTS
    N = 3
    Service <- TwoAccounts
    Claude = {1, 2, 3}
    TargetKey <- OwnKey
    MaxRetries <- OneRetry
    Limits = {3}
    InitialDelay = 0
    MaxDelay = 1
    RetryAfter = {0, 1}
    OverloadCooldown = 2
    OtherRequests = TRUE
INVARIANTS
    ExecutionInv
    AttemptBudget
    NoReturnToLeftTarget
    GivesUpOnlyWhenExhausted
    ReplyIsAboutLastAttempt
PROPERTIES
    SendsOnlyWhatMayBeSent
    BackupsComeFirst
    Termination
