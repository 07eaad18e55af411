SPECIFICATION Spec
CONSTANTS
 Goals = {deploy}
 Pre <- SinglePre
 Method <- MethodOf
 OwnSideEffects = {}
 PreApproval = {deploy}
 Approval = {deploy}
 Retryable = {}
 Cancelable = {}
 Isolated = {}
 Results = {"success","failure"}
 UserActions = {"approve"}
 Timeouts = FALSE
 TimeoutState = "canceled"
 Crashes = FALSE
 MaxRuns = 2
 build = build
 test = test
 lint = lint
 deploy = deploy
 SideEffect = {}
 Other = {}
INVARIANTS ApprovalGate
\* the goal set may come to rest
CHECK_DEADLOCK FALSE
