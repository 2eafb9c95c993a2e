SPECIFICATION FairSpec
CONSTANTS
    Deployments = {d1}
    NoDeployment = NoDeployment
    Modes = {"on-request"}
    MaxRetries = 1
    MaxKvmRetries = 1
    Tokens = {1, 2, 3, 4}
    MaxChanges = 0
    MaxAsks = 2
    MaxFaults = 0
    MaxRestarts = 1
PROPERTY EmptyVmmIsReplaced
