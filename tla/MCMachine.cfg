SPECIFICATION FairParts
CONSTANTS
 build = build
 test = test
 Goals = {build, test}
 Names = {build}
 JobName <- OneName
 Calls = {"first", "again", "test"}
 GoalOf <- TwiceOf
 Tries = 2
 ApiErrors = TRUE
 Cleans = TRUE
 MaxJobs = 3
 ContainerGoals <- SomeGoals
 Schedulings = 2
 Keys = {"k1", "k2"}
 Values = {1}
 Ttls = {0, 1}
 MaxTime = 3
 Users = {1, 2}
 MaxFaults = 1
 Repos <- SomeRepos
 Commands <- SomeCommands
 MaxChanges = 1
 Documents <- SomeDocuments
 Additional = {"build"}
 Makers = {"docker"}
 Referenced = {"npm"}
INVARIANTS OneExecution JobIsValid SecretsArrive OneRepository GoalsInOrder
PROPERTIES CallsComeToAnEnd ImplementsStore
\* every part may come to rest
CHECK_DEADLOCK FALSE
