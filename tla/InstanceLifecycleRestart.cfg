SPECIFICATION Spec
CONSTANTS
    Deployments = {d1}
    NoDeployment = NoDeployment
    Modes = {"on-request"}
    MaxRetries = 0
    MaxKvmRetries = 1
    Tokens = {1, 2, 3, 4}
    MaxChanges = 0
    MaxAsks = 3
    MaxFaults = 1
    MaxRestarts = 1
VIEW View
INVARIANT WithinRetryBudget
PROPERTY RestoresOnlyFresh
