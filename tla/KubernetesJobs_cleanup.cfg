SPECIFICATION FairSpec
CONSTANTS
 build = build
 test = test
 Goals = {build, test}
 Names = {build, test}
 JobName <- OwnName
 Calls = {"first", "again"}
 GoalOf <- TwiceOf
 Tries = 2
 ApiErrors = FALSE
 Cleans = TRUE
 MaxJobs = 3
PROPERTY DeletedForCause
\* all goals may have been executed
CHECK_DEADLOCK FALSE
