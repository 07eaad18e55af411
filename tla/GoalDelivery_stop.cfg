SPECIFICATION FairSpec
CONSTANTS
 Goals = {build, test, deploy}
 Pre <- ChainPre
 Method <- MethodOf
 OwnSideEffects = {}
 PreApproval = {}
 Approval = {}
 Retryable = {}
 Cancelable = {build, test}
 Isolated = {build}
 Results = {"success","failure"}
 UserActions = {"cancel"}
 Timeouts = TRUE
 TimeoutState = "canceled"
 Crashes = TRUE
 MaxRuns = 2
 build = build
 test = test
 lint = lint
 deploy = deploy
 SideEffect = {}
 Other = {deploy}
INVARIANTS SkipHasCause
PROPERTIES Settles ComesToRest
\* the goal set may come to rest
CHECK_DEADLOCK FALSE
