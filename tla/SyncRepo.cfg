CONSTANTS
    Objects = {"a", "b"}
    Versions = {1, 2, 3}
    Ignored = {3}
    PathOrder <- MCPathOrder
    FirstTree <- MCFirstTree
    Edits <- MCEdits
    Calls = {"d"}
    Requests <- MCRequests
    Timers = {0}
    MaxCommits = 3
    MaxFaults = 1

SPECIFICATION FairSpec
CHECK_DEADLOCK FALSE

PROPERTIES JobReflectsPush PushKeepsOthers DeployLands Converges
