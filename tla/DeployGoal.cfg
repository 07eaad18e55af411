SPECIFICATION Spec
CONSTANTS
 Planner = "planner"
 Other = "other"
 Registrations <- SomeRegistrations
 LocalModes = {FALSE}
 Provides <- SomeContents
 Executors = {"planner", "other"}
 MaxRestarts = 1
 MaxFaults = 1
INVARIANTS SuccessfulGoalIsDeployed
\* the goal is handled to its end
CHECK_DEADLOCK FALSE
