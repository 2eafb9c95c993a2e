SPECIFICATION FairSpec
CONSTANTS
    Deployments = {d1}
    NoDeployment = NoDeployment
    Modes = {"on-request", "absent"}
    MaxRetries = 1
    MaxKvmRetries = 1
    Tokens = {1, 2, 3, 4}
    MaxChanges = 2
    MaxAsks = 1
    MaxFaults = 1
    MaxRestarts = 0
INVARIANT RetryIsScheduled
PROPERTY RetryIsMade
