SPECIFICATION FairParts
CONSTANTS
 Attempts = 2
 Sets = {1, 2}
 Goals = {"build"}
 Moves <- PlainMoves
 Passes = {"p1", "p2"}
 ManageFetch = 1
 CancelFetch = 1
 Containers = 2
 LongCommand = {1}
 Executions = 2
 DockerFaults = 1
 MaxLines = 3
 BufferSize = 1
 Posts = {1, 2}
 LogFaults = 2
 Deliveries = {1, 2}
 TaskFaults = 1
 Entries <- TwoEntries
 Globs = {"deps"}
 Puts = {1, 2}
 Restores = {1}
 CacheFaults = 1
 Planner = "p"
 Fulfiller = "f"
 Configs <- SomeConfigs
 MaxStores = 4
INVARIANTS SuccessIsReal FailureHasCause CancelEndsGoals NoneForgotten NoLineLost StateHasCause RestoredOrMissed RejectionsDoNotCascade
PROPERTIES ExecutionsEnd SetsClose CancelEnds StepsHaveCause
\* every component may come to rest
CHECK_DEADLOCK FALSE
