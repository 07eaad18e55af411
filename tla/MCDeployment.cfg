SPECIFICATION Parts
CONSTANTS
 Calls = {"first", "second", "undeploy"}
 Requests <- OneApplication
 Tries = 2
 MaxFaults = 1
 Selections <- SomeSelections
 DefaultKinds <- SomeKinds
 Served <- ServedKinds
 ClusterKinds = {"Namespace", "Role", "Crd"}
 Objects <- SomeObjects
 FirstObjects <- PresentObjects
 MaxChanges = 1
 Planner = "planner"
 Other = "other"
 Registrations <- SomeRegistrations
 LocalModes = {FALSE}
 Provides <- SomeContents
 Executors = {"planner", "other"}
 MaxRestarts = 1
 Versioners = {"version"}
 Commands = {"c1", "c2"}
 Taggers = {"tag"}
 TagOptions <- SomeTags
 SecretPaths <- SomePaths
 Retryable = {"version", "tag"}
 MaxVersion = 2
 MaxRetries = 1
INVARIANTS DeployIsComplete DeployRepairs UndeployIsComplete FetchesWhatIsSelected SuccessIsDeployed DeploysByPriority ResultsArrive
\* all calls may have ended
CHECK_DEADLOCK FALSE
