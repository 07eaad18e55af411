SPECIFICATION FairSpec
CONSTANTS
 Goals = {build, test, lint, deploy}
 Pre <- LatticePre
 Method <- MethodOf
 OwnSideEffects = {}
 PreApproval = {}
 Approval = {}
 Retryable = {}
 Cancelable = {}
 Isolated = {}
 Results = {"success", "failure", "stopped"}
 UserActions = {}
 Timeouts = FALSE
 TimeoutState = "canceled"
 Crashes = FALSE
 MaxRuns = 2
 build = build
 test = test
 lint = lint
 deploy = deploy
 SideEffect = {build}
 Other = {}
INVARIANTS TypeOK PreconditionsFirst
PROPERTIES NothingLeftBehind AllSucceed InDependencyOrder
\* the goal set may come to rest
CHECK_DEADLOCK FALSE
