SPECIFICATION Spec
CONSTANTS
 Goals = {build, deploy}
 Pre <- PairPre
 Method <- MethodOf
 OwnSideEffects = {}
 PreApproval = {deploy}
 Approval = {build}
 Retryable = {deploy}
 Cancelable = {}
 Isolated = {}
 Results = {"success","failure"}
 UserActions = {"approve", "restart"}
 Timeouts = FALSE
 TimeoutState = "canceled"
 Crashes = FALSE
 MaxRuns = 1
 build = build
 test = test
 lint = lint
 deploy = deploy
 SideEffect = {}
 Other = {}
CONSTRAINT FewStores
INVARIANTS StartGate ApprovalGate
\* the goal set may come to rest
CHECK_DEADLOCK FALSE
