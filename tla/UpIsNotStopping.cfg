SPECIFICATION Spec
CONSTANTS
    Deployments = {d1}
    NoDeployment = NoDeployment
    Modes = {"on-request", "running"}
    MaxRetries = 1
    MaxKvmRetries = 1
    Tokens = {1, 2, 3, 4}
    MaxChanges = 1
    MaxAsks = 2
    MaxFaults = 0
    MaxRestarts = 0
VIEW View
INVARIANT UpIsNotStopping
