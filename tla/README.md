# Formal verification of sdm-core

TLA+ models of the core of `@atomist/sdm-core` (`src/lib`), checked with TLC on
small instances and, where it pays, proved with TLAPS for every instance.

sdm-core is the runtime of a *software delivery machine* (SDM). A push is given
a **goal set**: goals with preconditions, which the SDM moves through states
(`planned`, `requested`, `in_process`, ... `success`) by reacting to events.
The backend stores goals and goal sets and notifies subscribers; it keeps the
last value it is given. There are no locks and no transactions: every handler
reads, awaits, and stores what it read with one field changed. Goals run in the
SDM's own process, as Kubernetes jobs, or in containers next to it.

## 1. Inventory

| Component | State it keeps | Operations | What makes it correct |
|---|---|---|---|
| Goal delivery (`handlers/events/delivery/goals`, `pack/goal-state/updateGoal.ts`) | goals in the backend; jobs and in-process executions | fulfill, request downstream, skip downstream, vote, cancel, execute in a job | dependency order; gates of approval; nothing forgotten or stuck |
| Goal-state commands and trigger (`pack/goal-state`) | stored state of goal sets | cancel goal sets, 30 s trigger with timeout, reset, set state | a finished set is stored as finished; cancelling ends, and ends the goals of every pending set |
| Kubernetes goal scheduler (`pack/k8s/scheduler`) | jobs in the cluster | schedule (read, delete, create with retries), clean-up timer | one execution per goal; deletes only what is old or replaced |
| Container goals on Kubernetes (`goal/container/k8s.ts`) | log stream, pod watch, timer, promise | wait for start, watch, read result, cache output | success is real, failure has a cause, the goal ends |
| Container goals on Docker (`goal/container/docker.ts`) | network, spawned containers | create network, spawn, wait, kill, clean up | as above; nothing is left behind |
| Goal cache (`goal/cache`) | archives by classifier; the shared `DefaultExcludes` | put, restore, remove | restore gives what was put; concurrent goals do not disturb each other |
| Container goals as jobs (`goal/container/k8s.ts`, `pack/k8s/scheduler/service.ts`, `KubernetesFulfillmentGoalScheduler.ts`) | the goal's JSON data, the job's spec | fulfillment callback, redirect, add services, secrets, schedule | a job Kubernetes accepts, also the second time; everybody sees one project; secrets arrive |
| Results of goals (`goal/container/execute.ts`, `projectVersioner.ts`, `executeTag.ts`) | version, directories, secrets, tags | version, execute, tag | a result arrives or the goal fails; no secret stays behind |
| Jobs and tasks (`pack/job`) | stored tasks and jobs | execute task, store its state | the state stored is what the command came to |
| Goal signing (`internal/signing`) | keys | sign, verify, reject | a changed goal in scope is rejected, a signed one is not |
| Sync repository (`pack/k8s/sync`) | git repository and cluster | sync application, change from push | cluster and repository converge; own commits are not re-applied |
| Kubernetes resources (`pack/k8s/kubernetes`) | resources in the cluster | create or patch, delete, fetch by selectors | idempotent; partial failure is repaired by the next upsert; what is selected is found |
| Kubernetes deploy goal (`pack/k8s/deploy`, `pack/k8s/events`) | the goal's data | collect application data, hand over, deploy, sync | a successful goal was deployed; sources count by priority |
| Preferences (`internal/preferences`) | a JSON file with a lock, GraphQL, memory | get, put, list, delete | no lost update; the lock is released; creating the file takes nothing from others |
| Progress log (`log`) | buffer of lines | write, flush, close | lines are delivered, in order, once |
| YAML configuration (`machine/yaml`, `machine/configure.ts`) | rules, goals, cached definitions | map goals and rules, convert, bind parameters of commands | goals wait for what their rule says; a command runs for one repository |
| Planning goals (`SetGoalsOn*.ts`, `RespondOnGoalCompletion.ts`) | none | choose and set goals, run completion listeners | the set planned is the set the rules ask for |
| Machine, versions and tags, repository events, commands, generators | little or none | wiring, single external calls, messages | not of interest here |

How they interact: a store of a goal notifies the handlers subscribed to its
new state (`lib/graphql/subscription`). `FulfillGoalOnRequested` executes a goal
in process or asks a goal scheduler; the scheduler creates a job, whose process
runs the same handler for its one goal, and listens for that goal being
canceled. A container goal's job has a second container that runs
`executeK8sJob`. The trigger looks at goals and goal sets from outside, every 30
seconds, whether or not the last pass has ended. Users press buttons that were
made for the state a goal had earlier.

Hard behaviours: stale reads before awaits, last store wins; late, reordered
and repeated notifications; overlapping passes of timers; requests whose answer
is lost; processes that die; callbacks that race to settle one promise; paging
over an answer that shrinks; two stores, cluster and Git, that must agree; data
rewritten by a callback that runs twice. `PROJECT.json` lists each at its line.

`@atomist/sdm` (states, `updateGoal`, `executeGoal`, `chooseAndSetGoals`,
`goalSetState`), `@atomist/automation-client` (`doWithRetry`), the backend and
Kubernetes are not in this repository. They are modelled from how the code here
uses them, and marked external in `PROJECT.json`.

## 2. Modules

### GoalDelivery — the life of the goals of one goal set

`goals` is what the backend stores. Every handler is an action that takes its
notification from `events`, reads `goals` and leaves what it is about to store
in `writes`; `Store` lands one of those, in any order and any time later, over
whatever the store holds by then. A write carries the handler and the goal
it comes from: one event may bring the same store twice, but what different
handlers ask for is not merged. Handlers that store the goal *of the event*
(`Fulfill...`, `VoteOnGoalApprovalRequest`) use `e.rec`, handlers that query
(`RequestDownstream...`, `SkipDownstream...`) use `goals`, as in the code.
`StoreGoal` notifies the subscribers of the new state.

| Code | Action or operator |
|---|---|
| `FulfillGoalOnRequested.handle` | `IgnoreRequest`, `FailUnfulfillable`, `ScheduleGoal`, `FailToSchedule`, `StartInProcess` |
| `goalExecution.ts`, `executeGoal` (external) | `StartJob`, `MarkInProcess`, `FinishGoal`, `Crash` |
| `CancelGoalOnCanceled` | `CancelGoalOnCanceled` |
| `RequestDownstreamGoalsOnGoalSuccess` | action and `GoalsToRequest`, `ShouldBePlannedOrSkipped`, `PreconditionsAreMet` |
| `SkipDownstreamGoalsOnGoalFailure` | action and `GoalsToSkip`, `IsDependentOn` |
| `VoteOnGoalApprovalRequest` | action and `VotedState` |
| `updateGoal.ts`, `cancelGoals.ts`, the timeout of `manageGoalSets.ts` | `Click`, `UpdateGoalState`, `CancelGoalSet`, `TimeoutInProcessGoal` |

`opened`, `succeeded`, `failed`, `started` and `accepted` are history: they
record what happened and no action reads them. `DependencyOrder` is the
abstract specification: goals open after their preconditions succeeded and
succeed after they opened. `GoalDelivery` implements it (`InDependencyOrder`),
with `opened` and `succeeded` as the refinement mapping.

A side effect that is registered with this SDM is executed by it like any other
goal (`FulfillGoalOnRequested.ts:106-110`): its `method` is `"Sdm"`, and the
method `"SideEffect"` stands for those of other SDMs.

What the model shows to be possible, without breaking a property: the same goal
may be requested or executed twice, also at the same time; `Abstain` leaves a
goal in `pre_approved` or `approved` until somebody votes again; the store of
`in_process, "scheduled"` may land after the job stored its success, and then
only the timeout of the trigger ends the goal (this is why `Settles` is checked
with `Timeouts`); a restart is offered only for a failure that is retryable.

### GoalSets — the stored state of goal sets

Passes of `manageGoalSetsTrigger` (`StartPass`, `FetchGoals`, `StorePassState`)
may overlap with each other and with `cancelGoalSetsCommand` (`StartCancel`,
`FetchCancelPage`, `FetchGoalsToCancel`, `CancelGoal`, `CancelGoalSet`). Each
works on a page fetched before. The goals move by a relation `Moves`, which
stands for GoalDelivery. `open` is history: the goals that have not ended since
the command began, of the sets that were pending then. A pass that stores a set
as failed, stopped, canceled or waiting hides it from the command's pages while
goals of it may go on; those are taken out of `open`, so `CancelEndsGoals` says
that there is no other way for the command to leave a goal alone.

### KubernetesJobs — scheduling goals as jobs

Calls to `schedule` (`ReadJob`, `DeleteJob`, `CreateJob`, and their failures,
with answers that get lost) and the clean-up (`ListOldJobs`,
`CleanupDeleteJob`, `CleanupDeletePods`) share the cluster, which launches pods
and removes a deleted job when its pods are gone (foreground propagation). Two
calls for one goal may let one report failure while the job of the other runs.

### ContainerWatch — the promise four callbacks race to settle

`executeK8sJob` polls for the container's start, opens the log stream and the
pod watch and sets a timer. `CloseLog`, `BreakLog`, `SeeExit`, `BreakWatch`,
`EndWatch` and `TimeOut` are the callbacks, `Released` is `containerCleanup`.
Opening the watch is a step of its own (`OpenWatch`): a clean-up before it finds
no watch to abort. `ReadOutput` and `PutCache` are what follows the promise.

### KubernetesApps — deploying and undeploying applications

A request says what an application asks for; `Wanted` is the set of resources
the templates and `upsertRbac` make of it. `cluster` holds, for each resource,
the call that wrote it last: its spec and its labels are those of that call. A
strategic merge patch is taken to install the spec of the call that sends it.

| Code | Action or operator |
|---|---|
| `upsertNamespace` ... `upsertIngress` | `Read`, `FailToRead`, then `Write`, `LoseAnswer`, `Refuse`, `FailToWrite`, for the resources `IsNext` admits |
| `logRetry` | `Retry`, `GiveUp` |
| `deleteApplication`, `deleteAppResources` | `ListKind`, `FailToList`, `Delete`, `FailToDelete`, `LoseDeleteAnswer` |
| labels and selectors | `Selects` |

Each upsert chooses between create and patch from one read, takes any error of
that read for a missing resource, and keeps its choice through all retries: a
create whose answer was lost is refused until the retries are used up.
`hindered`, `replaced` and `late` are history and say who is to blame: a fault or
another call. `upsertSecrets` runs in parallel, everything else in sequence. The
two calls of one application may leave a mix of both in the cluster; nothing in
the code says they may not. In the mode `sync` upserts talk to clients that do
nothing and leave the cluster alone. Specs that override the name of a resource
are not modelled, nor is what merging does to single fields.

### KubernetesFetch — selecting resources of a cluster

`kubernetesFetch` looks up the kinds the selectors include
(`LookupClusterKinds`, `VisitNamespace`), lists them one by one (`ListKind`,
`ListNamespaces`) and applies the selectors to what it got (`SelectResources`).
Lookups that fail are ignored, lists that fail end the fetch, and the cluster
changes meanwhile (`ChangeCluster`). Selectors keep the positions they were
given at, also when those that say nothing are dropped, and a kind is found by
its place in the list of a selector. `Promised` is the rule of the
documentation, the first matching selector decides, stated for a single
resource and independent of the order in which the code works.

### DeployGoal — the Kubernetes deploy goal

`FulfillGoal` lets the planning SDM execute the goal: `Initiate` collects the
application's data, source by source (`Merge`), stores it and hands the goal over
by its fulfillment. `HandleKubernetesDeploy` of the SDM the fulfillment names
deploys (`CheckData`, `UpsertApplication`), syncs (`SyncApplication`) and stores
the result (`Report`). Events
are delivered in any order, each with the goal as it was when it was stored.

### SyncRepo — a Git repository and a cluster

`log` is the branch, each commit with the contents of the spec files. Three
parties work on it and on `cluster`:

| Code | Action or operator |
|---|---|
| `syncApplication` (`sync/application.ts`) with `deploy.ts` | `ChangeCluster`, `CommitResources` (with `SyncedFiles`, `Placements`, `MatchSpec`, `UniqueSpecFile`, `Changed`, `IsClean`), `Push`, `RejectPush`, `PullRebase` (with `Merges`, `Moves`, `MayConflict`), `FailToSync` |
| `kubernetesSync` on a push (`sync/goals.ts`, `diff.ts`, `change.ts`) | `UserPush` and `Push`, which plan the goal (`Receive`, `IsSyncRepoCommit`), `StartSync` (with `CommitsOf`, `DiffPush`), `TakeFile` (with `IsNext`, `CalculateChanges`, `RemovedSpecs`), `ApplySpec`, `DeleteSpec`, `EndJob` |
| the timer (`sync/startup.ts`, `sync.ts`) | `StartRepoSync` (with `SyncApply`), then the steps of a job |

Users push one or two commits (`UserPush`), processes die (`Die`), requests and
pushes fail. A spec is a resource and a version; a version may carry the
annotation that has the SDM ignore it. A job works with the clone it made: the
commits of a push are compared with their parents, not with the branch. Whether
a commit is the SDM's own is told by its message: a push of nothing but own
commits plans no goal, and of any other push the own commits are left out
(`CommitsOf`). Users may push copies of the SDM's commits, so that both occur,
also in one push.

A rebase is git's: of a file that both sides changed it merges the hunks, or it
finds a conflict. Which of the two depends on lines, so both are possible
(`MayConflict`, `Merges`). In a clean merge a spec that one side changed is as
that side has it. What becomes of a spec that both changed (`Mixed`), or that one
changed and the other dropped or renamed, nobody knows: it may be anything. A file
that others moved is changed where it is now (`Moves`). A push whose answer was
lost is in the repository, so its rebase finds nothing to do. `merged` remembers,
for each call, the specs that git made of two; `PushKeepsOthers` and
`DeployLands` say nothing of these and hold of all others.

`JobReflectsPush` also says that no job touches a resource that only own commits
changed (`LeavesOwn`). Its first half is about
resources that stay in their file: one that moves from one file to another, both
of which stay, may be applied from the second file and then deleted as one that
is gone from the first.

### DockerJob — a container goal on Docker

`CreateNetwork`, one spawn per container, the wait for the first container, the
kills of the others, the result file, the removal of the network: `Execute`
takes the execution from one to the next, Docker starts and ends containers at
its own pace, and every command may fail. `Retry` executes the goal again with
the same registration and the same names.

### JobSpec — from a container goal to a job

`Plan` puts the registration, or the containers made of it by
`k8sFulfillmentCallback`, into the goal's data; `Redirect` and `ScheduleK8sJob`
are the two ways to the SDM that has the cluster; `Schedule` builds the job from
the SDM's own pod, adding the services; `RunInit` is the init container that
writes the secrets; `Restart` does it all again with the data the goal has by
then. Containers are records of name, environment and mounts, those of a job
are numbered by service and position: a service's mounts go to the containers of
the pod, of the services before it and its own (`WithMounts`). Secrets in files of
one directory share a volume, and use the one the SDM's pod has mounted there if
there is one (`SecretVolume`, `IsMounted`). A job is refused by Kubernetes
(`Refuse`) unless names and mount paths differ and every volume is there
(`IsAccepted`). Nothing in the code keeps a registration from asking for what no
pod can give, and the model does not either: a name twice, a file of a secret in
or at the project, input or output directory or a directory that a later service
mounts, two secrets at one path (`NamesClash`, `FilesClash`). `JobIsValid` says
that a job is refused for nothing else.

### GoalCache, ProgressLog, JobTasks, GoalResults, GoalSigning

* `GoalCache`: goals that put (`GatherFiles`, `Compress`, `StoreArchive`,
  `FinishMove`) and goals that retrieve (`RetrieveArchive`) share an archive
  store, one in the cloud, a directory on the same device, or one on another
  device, where a move is a copy that others see half done. A copy of an archive
  and its unpacking may break off (`Unpacked`): nobody looks at what `tar` says
  (`CompressingGoalCache.ts:146`) or at a copy that broke off
  (`FileSystemGoalCacheArchiveStore.ts:54`), so that with `tar` part of an archive
  passes for the whole; what reads a zip file throws, which is a miss.
  `RestoredOrMissed` says exactly when a part can pass.
* `ProgressLog`: `Write`, `TimerFlush` and `Close` post what is in the buffer;
  a failed post (`FailedPost`) puts its lines back in front. A post that timed
  out may have been stored (`timedOut`). Posts that are under way at once may be
  answered in any order and reorder their lines without any failure:
  `overlapped` has these pairs, and `StoredInOrder` says that there is no other
  disorder. Nobody posts the buffer of a closed log, but for a late overflow; the
  lines that may stay there are `excused`.
* `JobTasks`: one task, delivered up to twice, through parsing, finding,
  invoking its command and storing its state, where each store may fail.
* `GoalResults`: versioners, commands and taggers of one goal set run at the
  same time below one temporary directory. `execute` is `MountSecret`, one secret
  after the other, `PrepareInputAndOutput`, `ContainerEnvVars`, `RunProgram`,
  `ProcessResult`, `UpdateSdmVersion`, and the `finally`: `RemoveSecret`, one after
  the other, and `RemoveTmpDir`. The secrets are written before the `try`
  (`execute.ts:69-72`), and an unlink that throws ends the `finally`
  (`execute.ts:104-106`): from either the goal goes to `Abandon`, and what it has
  left stays on the disk. Two commands may write a secret at one path: the first
  to clean up removes it for both, and the unlink of the other throws. A tag has
  the name and build metadata of its options and is of the version or its release;
  one with build metadata needs no version, and is then named `undefined+build`.
  `CreateTag` and `PushTag` are separate steps.
* `GoalSigning`: one goal through the events of two SDMs. What a subscription
  delivers is `Delivered`; verification looks at that, not at the goal stored.

### PreferenceStore and FilePreferences — a specification and its implementation

`PreferenceStore` is abstract: calls take effect one at a time between call and
answer, entries expire, a call may fail before or after its effect. The store may
break, after which calls fail. `creating` says that somebody has found no store
(`FindNoStore`) and may reset or create it (`Disturb`, `Lose`); without that
nobody takes an entry from another.

`FilePreferences` is the file store. Each process runs the constructor's `init`
(`Open`) and, when it finds no file, writes an empty one without the lock
(`Truncate`, `Fill`), over what others may have put by then. Calls are `lock`
with its retries, the read outside of the `try`, the operation on a copy,
`writeJson`, `unlock`, which may fail after the effect (`FailToUnlock`), and the
answer of a get, which looks at the time without the lock (`AnswerGet`).
Processes die with the lock, and locks go stale. `ImplementsStore` is the
refinement, `Content` its mapping: while a call writes, its copy is what the
store holds. The file is created at first start only: there a put can be undone,
and nowhere else. A file truncated by a process that died or filled by two at
once maps to a store that is broken.

### MachineYaml and CommandParameters

`MachineYaml` maps rules of several documents to goals (`MapRule`) and converts
them to contributions (`ConvertRule`), with goal makers, shared goals and goals
defined in other repositories, whose definitions are cached. `CommandParameters`
binds the mapped parameters of a command one after the other; asking the user
ends the invocation and the answer starts it anew, while the channel's links
may change.

### MC modules and proofs

`Inputs` holds what an SDM is given in the runs: goals, secrets, selectors,
resources, commands, documents. `Execution`, `Deployment` and `Machine` put
several components into one specification, `Parts`, with the constants of all of
them. The variable `part` names the component
a behaviour is about, the variables of the others rest, so a run of `MCExecution`,
`MCDeployment` or `MCMachine`, which only give the constants their values,
explores the disjoint union of their state graphs, and a theorem about `Parts` is
one about every component in it. They share nothing in the code either:
what interacts is composed in one module above. Properties of such a run are
those of its parts; where a component has several, they are conjuncts of one:

| Property of the run | Of the parts |
|---|---|
| `NoneForgotten` | DockerJob: also `SuccessIsMains` |
| `NoLineLost` | ProgressLog: also `StoredInOrder` |
| `StateHasCause` | JobTasks |
| `RestoredOrMissed` | GoalCache: also `OutputsAreStored` |
| `ResultsArrive` | GoalResults: also `SecretsAreRemoved`, `TagsAreVersions` |
| `RejectionsDoNotCascade` | GoalSigning: also `RejectedForCause` |
| `StepsHaveCause`, an action property | DockerJob `KillsInTime`, GoalCache `MissesForCause` |
| `ExecutionsEnd` | ContainerWatch `Reports`, DockerJob `Ends`, ProgressLog `EventuallyStored`, JobTasks `TaskEnds` |
| `JobIsValid` | JobSpec: also `SharesProject` |
| `GoalsInOrder` | MachineYaml: also `LaterRulesWin`, `FailsForCause` |
| `CallsComeToAnEnd` | KubernetesJobs `CallsEnd`, FilePreferences `EveryCallEnds`, CommandParameters `CommandEnds` |
| `ImplementsStore` | FilePreferences: also `LockLeaksOnlyOnBrokenFile` |

The other MC modules give constants their values: dependency graphs, moves,
calls, requests, edits. `*_proofs` extend the module they are about. Definitions
whose comment begins with "Variant" are plausible mistakes in the definition
below them, used only to confirm that a property notices.

## 3. Runs

| Run | Shows | Instance |
|---|---|---|
| `goals_order` | `PreconditionsFirst`, `NothingLeftBehind`, `AllSucceed`, refinement `InDependencyOrder`, `TypeOK` | four goals in a lattice, one a side effect, in-process executions that succeed, fail or are stopped |
| `goals_stop` | `SkipHasCause`, `Settles`, `ComesToRest` | a chain of a goal executed as a job, one in process and one nobody can fulfill; crashes, scheduler failures, timeouts, the set cancelled at any time, also twice |
| `goals_gates` | `StartGate`, `ApprovalGate` | a goal behind an approval, then one behind a pre-approval that can be restarted |
| `execution` | see 2; `SuccessIsReal`, `FailureHasCause` of ContainerWatch; `CancelEndsGoals`, `SetsClose`, `CancelEnds` of GoalSets | two polls; two sets and two passes; two containers executed twice; three lines, two posts under way; a task delivered twice; two puts and a restore, with tar and zip, on each kind of store; two SDMs with any configuration of keys |
| `deployment` | `DeployIsComplete`, `DeployRepairs`, `UndeployIsComplete` of KubernetesApps; `FetchesWhatIsSelected`; `SuccessIsDeployed`, `DeploysByPriority` of DeployGoal; `ResultsArrive` | two deployments of one application, the first with a secret, the second with a cluster role or a service and ingress, and an undeployment, all at the same time; six lists of selectors; a goal with one restart; a versioner, two commands with two secrets and one, of which two are at one path, and a tagger with build metadata; versioner or tagger repeated |
| `machine` | `OneExecution` of KubernetesJobs; `JobIsValid`, `SecretsArrive`; `OneRepository`; `GoalsInOrder`; `CallsComeToAnEnd`; refinement `ImplementsStore` | two calls for one goal, one for another of the same job name, two attempts, three jobs ever, clean-up; every combination of callback, service, cache and thirteen sets of secrets of a goal, in directories of their own, shared, mounted and taken ones, scheduled twice; two calls on one file, which is there or not; one change of links; documents of three rules |
| `sync` | `JobReflectsPush`, `PushKeepsOthers`, `DeployLands`, `Converges` | two resources in three files, users' pushes of one or two commits, some with the message of the SDM's own, one deployment or undeployment, the timer |
| `goals_denied` | violation of `ApprovalGate` | one goal that needs both kinds of approval |
| `goal_sets_approval` | violation of `SetsClose` | one set whose goal waits for an approval |
| `k8s_jobs_cleanup` | violation of `DeletedForCause` | two calls for one goal, clean-up |
| `container_cache` | violation of `CacheFailureReported` | two polls |
| `deploy_goal` | violation of `SuccessfulGoalIsDeployed` | one deploy goal |

Five runs end in a violation, each a finding in `PROJECT.json`:

* `goals_denied`: the click on *approve* clears `approvalRequired` before the
  vote and nothing restores it on *Denied*; a late click on *start* executes the
  goal again, and now its success is stored at once. One goal with both gates is
  what it takes; with one gate per goal (`goals_gates`) the gates hold.
* `goal_sets_approval`: a set stored in a `waiting_for_` state is not in the
  answer of the query for pending sets, so it is never updated again.
* `k8s_jobs_cleanup`: the clean-up deletes by name what it listed earlier.
* `container_cache`: the container's own result hides that caching failed.
* `deploy_goal`: the deploy handler runs for the `in_process` event that comes
  before the goal's data, finds none and stores success.

### Bounds, and why they are enough

* Goals: a lattice of four has every shape the handlers distinguish (no, one and
  two preconditions, direct and transitive dependencies, a shared precondition).
  The safety properties are proved for every graph anyway.
* `MaxRuns` (2): executions of one goal at the same time. Two is where a second
  execution can overwrite the first; a third does so in the same way.
* `FewStores` (`goals_gates`): at most three stores under way at the same time,
  a constraint on the states explored in a run of invariants only. Three is one
  for each handler that can hold a stale goal. `ApprovalGate` and `StartGate`
  are proved without it.
* Users: what is in `UserActions`, as often as they like. In `GoalSets` users
  cancel once, and a page holds one set, so that two sets already take two
  pages. The code's pages of 50 and 100 differ only in number.
* `MaxJobs` (3) and `Tries` (2): a replaced job, its replacement and another
  goal's job; one attempt that fails and one that does not. `OneExecution` is
  proved for all values.
* `MaxFaults` (1) in `deployment`, for each part: in KubernetesApps a request
  that fails or whose answer is lost. Other calls hinder each other without it;
  the properties are proved for any number of faults, attempts, calls and
  requests. A request brings at most one secret: that several are written at
  once is covered by the proofs only.
* `Attempts` (2, in the code 240): one poll that fails and the last one.
* `Moves` of GoalSets in `execution`: goals without approvals that are
  requested, run and succeed, also after they were cancelled. What a failed goal
  adds is a matter of `goalSetState`, not a race.
* `MaxCommits` (3), `Calls` and `Timers` (one each) in `sync`: a commit before,
  one between and one after whatever a job or a deployment read; a rejected push
  needs one commit in between, a rebase that conflicts or merges one more. The
  user adds a resource to the file of another, marks one to be ignored, or moves a
  file and adds another under the message of an own commit: what a merge, a moved
  file and the filter of own commits need.
* `MaxFaults` (1 or 2) of the other parts: one failure at every possible place;
  two in ProgressLog, where only two can leave lines of two posts behind.
* `SomePaths`, `SomeTags` of GoalResults: a second secret after which a write or an
  unlink may fail, a path of two commands, and the tag of a build, the only one
  that needs no version. Tags of releases and tags with a name are covered by the
  proof only.
* `OneName` of MCKubernetesJobs, in `machine`: both goals have one job name, so
  that scheduling one deletes the job of the other. Jobs of different names meet
  in the clean-up only, which goes through them one by one.

Deadlock is not checked: in each of these systems all goals, calls or the goal
may have ended, and nothing more needs to happen.

### Fairness

`FairSpec` of GoalDelivery: notifications are delivered, promises settle, a job
that was scheduled comes up and ends, the trigger fires every 30 seconds and
each goal's time runs out. Weak fairness per goal is what independent promises
give; nothing asks a user to click, a voter to vote or a process not to crash.
`FairSpec` of GoalSets: passes and the command go on, and goals that have not
ended move. The last is a real restriction: the trigger looks at the 100 oldest
pending sets, and 100 sets that never end starve every younger one.
KubernetesJobs, FilePreferences, JobTasks, DeployGoal and CommandParameters:
each call, handler or listener goes on; a user who is asked answers, whatever
that is. ProgressLog: the interval timer fires and posts end, `timeout: 2500`.
SyncRepo: the timer fires and its jobs go on; nothing asks pushes or deployments
to. DockerJob: Docker starts what it was asked to run, and the first container
ends; nothing asks the others to. ContainerWatch: the executor's
awaits end, `watch()` settles one way or the other and timers fire; a
container may run, and its log be followed, for ever.

## 4. Theorems

Proved for every value of the constants that satisfies the named assumptions:
`GoalsAssumption`, `SetupAssumption`, `JobsAssumption`, `AttemptsAssumption`,
`AppsAssumption`, `SyncAssumption`, and for the compositions
`ExecutionAssumption`, `DeploymentAssumption` and `MachineAssumption`. They say
of which sort the constants are (numbers, sets of the records used, dependencies
within the goal set) and otherwise only what the code's types and registries
give: that a goal has one kind, that a repository is named by its id, that
the mark of the free lock is no user. TLC evaluates each of them in a run.

| Theorem | Argument |
|---|---|
| `GoalDelivery_proofs!TypeCorrect` | `TypeOK` is inductive |
| `PreconditionsAlwaysFirst` | `OrderInv` |
| `ImplementsDependencyOrder` | `OrderInv`, then each step is `Open`, `Succeed` or a stutter |
| `StartGateHolds` | `StartInv`, on top of `OrderInv` |
| `ApprovalGateHolds` | `AcceptInv`, on top of `OrderInv`; see below |
| `SkipAlwaysHasCause` | `SkipInv`, on top of `OrderInv` |
| `KubernetesJobs_proofs!TypeCorrect` | `TypeOK` and `TriesLeft` |
| `OneExecutionHolds` | `JobsInv` |
| `ContainerWatch_proofs!TypeCorrect`, `SuccessIsRealHolds`, `FailureHasCauseHolds` | `IInv` |
| `KubernetesApps_proofs!TypeCorrect` | `TypeOK` is inductive |
| `DeployIsCompleteHolds`, `DeployRepairsHolds`, `UndeployIsCompleteHolds` | `IInv`: `NamespaceInv`, `DoneInv`, `HinderedInv`, `ListedInv` |
| `Execution_proofs!CancelEndsGoalsHolds` | `GoalSetsInv`, with `FirstPage` on pages and `StateOfSucceeded` on the states of sets |
| `NoLineLostHolds` | `LogInv`, with lemmas on appending and joining buffers |
| `StateHasCauseHolds` | `TaskInv` |
| `RestoredOrMissedHolds` | `CacheInv` |
| `NoneForgottenHolds` | `DockerInv` |
| `StepsHaveCauseHolds` (action property) | `DockerInv` and `CacheInv` |
| `RejectionsDoNotCascadeHolds` | `SigningInv` |
| `Deployment_proofs!ResultsArriveHolds` | `ResultsInv` |
| `SuccessIsDeployedHolds`, `DeploysByPriorityHolds` | `DeployInv`, with `MergeCovers` on merging sources |
| `FetchesWhatIsSelectedHolds` | `FetchInv`, with `FirstPlace` on the kinds of the selectors |
| `Machine_proofs!FileImplementsStore` | `FileInv`, then each step is one of `PreferenceStore` or a stutter |
| `OneRepositoryHolds` | `CommandInv` |
| `JobIsValidHolds`, `SecretsArriveHolds` | `SpecInv`, then `JobInv` of every job made of a service |
| `GoalsInOrderHolds` | `YamlInv`, then `DownToFirst` on the groups of a rule |
| `SyncRepo_proofs!PushKeepsOthersHolds`, `DeployLandsHolds` (action properties) | `CallInv` |
| `JobReflectsPushHolds` (action property) | `JobInv`, on top of `CallInv` |

None of the properties is inductive by itself: a store lands arbitrarily late,
so whatever waits to be stored, delivered, clicked or executed must already
carry the reason for it. `OrderInv` therefore says of each pending write,
event, command and execution what `PreconditionsFirst` says of the stored
goals; this works because `succeeded` only grows, so a reason once read stays
true even if the goal it was read from is overwritten. `StartInv` says that a
goal that needs a start nobody granted is *nowhere* in a state beyond the gate,
and that it may have lost its flag only where no handler looks at it again
before the vote. `JobsInv` says that a uid and a name each belong to one job and
that a pod belongs to the one launched job of its uid: a job's name is free only
when its pods are gone, because deletion is in the foreground. `IInv` of
ContainerWatch says what each settled promise was settled for. In
KubernetesApps `HinderedInv` says of every request the cluster *would* refuse,
not only of those given up, that it was hindered, and `ListedInv` of every kind
already listed that what carries the labels is about to be deleted or came
later; that a kind is never overlooked is the lemma `ResourceKinds`, about the
nine kinds of `deleteApplication` and everything a request can ask for.

`ApprovalGate` is not true of every goal (`goals_denied`), so `ApprovalGateHolds`
has a hypothesis, `Approval \subseteq GatedGoals`: the goals that need an
approval need no pre-approval, are not isolated or side effects and cannot be
restarted. `AcceptInv` says that until such a goal was accepted, every record of
it that waits to be stored, delivered or executed still asks for the approval, or
is on its way to the vote or back from it. A goal with both gates, or one that is
restarted, is requested again with the record a click finds, and an isolated job
executes the record it finds when it is up; either may have lost its flag.
`goals_gates` is an instance with a gated goal.

The parts of the compositions:

* `LogInv`: the lines stored, in posts under way and in the buffer are those
  written. What is in the buffer and what is under way is apart; what is stored
  is stored once, but for answers that were late. All is in order, but for pairs
  that were under way at once; while a post that closes the log is under way or
  done, the lines in the buffer are excused.
* `TaskInv`: what a handler is about to store has its cause already.
* `CacheInv`: who wrote what is in an archive, or is being moved to it; half an
  archive is only found in a store on another device; and what a restore has got
  so far was the whole of an archive, or a part for one of the causes the
  property names.
* `DockerInv`: containers are spawned in order, where `Execute` is says which of
  them may still run, and one that runs on is to be killed or its kill was
  missed.
* `SigningInv`: every event that delivers all of a goal has the signature of the
  SDM that stored it. A rejection uses up an event that may be rejected and adds
  none (`PaidFor`), so there are three at most for each other store.
* `GoalSetsInv`: what is open is of pending goal sets and has not ended; goals of
  the set being canceled that are open are about to be canceled; and no pass is
  about to store a set with an open goal as succeeded, because the goals it read
  as succeeded stay so (`StateOfSucceeded`). The command asks for the first page
  until that is empty, and a page that starts with the oldest is empty only when
  nothing is pending (`FirstPage`).
* `ResultsInv`: a result is there, processed or wiped from the moment it is
  written; a secret on disk is one that a command has still to remove, and will
  come to, or one of a command that abandoned its own; and what a tagger knows is
  what was stored.
* `DeployInv`: wherever a goal is on its way, each field of its data comes from
  the highest of the sources asked that have it, and what a handler is about to
  sync or report was upserted.
* `FileInv`: who is between lock and unlock holds the lock, or died with it, so that
  at most one call writes (`HoldersLock`, `LockInv`); its copy is what it read, and
  the file is still that unless a process created it meanwhile. `Content` then maps
  the start of `writeJson` to the abstract call and what a creation does to the
  file to a stutter while the copy hides it, and to `Disturb` afterwards, which
  `BeingCreated` permits.
* `CommandInv`: while the links are steady, each parameter bound is that of the
  one repository they name.
* `CallInv`: a commit that is not pushed changes specs of its request's own
  resources only, and of these none that anybody wrote since the call cloned,
  but for the resources in `merged`. It is kept by a rebase because a clean merge
  takes each spec that is not mixed from the side that changed it. Each spec to
  deploy was in the branch since the clone, is in the commit or is in `merged`.
* `FetchInv`: a resource that was there all the time and is to be found is
  fetched, listed next, or its namespace is still to be visited; what is fetched
  was there and of a kind asked for. `FirstPlace` says that a kind is looked up in
  the first of its versions.
* `SpecInv`: the goal's data holds the registration as its callback left it, and
  the job is that of the goal's own service, alone or before or after another
  one. `JobInv` of Machine_proofs says what every box of such a job has mounted:
  each mount goes to the one volume of its directory (`VolumeAt`), which is in the
  pod, and files of different secrets have different paths unless `FilesClash`.
  What registrations ask for is not assumed to be possible: the properties name
  the clashes. That no container is called like the copy container is an
  assumption (`AreContainerGoals`): the code gives that one a new name each time.
* `YamlInv`: of each name mapped so far there is one entry, made of the last rule
  of the name and at the place of the first, and what is planned is the plan of
  the entries converted. From the latter `ComesLater` follows for a machine that
  fails on a dependency. A group waits for the one before only, so
  `GoalsInOrder` is about sets of goals that may be finished together:
  `DownToFirst` leads from a group that was begun to the first one, whatever
  their number. That no group of a rule is empty is an assumption (`AreRules`):
  the group after an empty one would wait for nothing.
* `JobInv` of SyncRepo_proofs: for each resource of the push, the files still to
  be taken, the specs still to be applied or deleted, or the cluster agree with
  the last commit; and what it wrote, is to write or to delete is of a file that
  a commit of others changed (`TouchesOthers`). `Least` finds the first commit
  at which a file changed, `ChangedBetween` and `RemovedBetween` that the diff
  of the push does not miss it.

What stays with TLC, and why:

* `NothingLeftBehind`, `AllSucceed`, `Settles`, `ComesToRest`, `ExecutionsEnd`,
  `SetsClose`, `CancelEnds`, `CallsComeToAnEnd`, `Converges`: liveness under fairness.

## 5. What is not modelled

Wording, logging, Slack messages, metrics and descriptions; the content of votes
beyond the decision; jobs in several namespaces; the fields of Kubernetes specs
and what a merge does to them; the format and encryption of specs in the sync
repository, and how it is cloned; push tests and placeholders in YAML; the init
container's copy of the project; `setGoalState.ts`, which sets a goal's state
from a chat menu; the GraphQL and team-configuration preference stores. The
components of section 1 that have no module keep no state between two awaits.

Smaller omissions, in modules that are there: a Docker goal executed twice at once
kills containers by name, those of the other execution too (`docker.ts:393`), and
`containerEnvVars` may throw before Docker is asked for anything
(`docker.ts:173`); a selector with an explicitly empty list of `kinds` is taken
for one without; the init containers and volume mounts a registration brings
itself are not in JobSpec.

Some definitions state what one might expect and the code does not do. TLC
refutes each in the instances above; no run of their own reports them. The code
promises `ServiceMountsReachAll` (`service.ts:44-47`: the volume mounts "will be
added to all containers and initContainers"); the others are promised by no line:

| Definition | Why it fails |
|---|---|
| `GoalCache!ExcludesRestored` | the saved excludes are the emptied array itself (`goalCaching.ts:345`) |
| `DockerJob!CommandPrependedOnce` | the arguments of the registration are spliced in place (`docker.ts:309`) |
| `KubernetesFetch!EveryVersionIsTried` | a kind without namespace that is asked for in two versions is looked up once |
| `GoalSigning!TrustedGoalsAreAccepted` | some subscriptions deliver less of a goal than was signed |
| `DeployGoal!IsFulfilled` | an update that fails after the deployment is only logged (`kubernetesDeploy.ts:103`) |
| `JobSpec!ServiceMountsReachAll` | containers added later do not get the mounts of services |
| `MachineYaml!ReferencesHaveTheirParameters` | the definition fetched first is cached with its parameters (`mapGoals.ts:406`) |
| `CommandParameters!AlwaysOneRepository` | links change between the lookups of owner and name (`mapCommand.ts:204`) |

## 6. Plan

| Module | Code | Questions | To prove |
|---|---|---|---|
| `GoalDelivery` | `setGoalState.ts` | a chosen goal that was replaced or moved meanwhile | extend `TypeCorrect` |
| `Planning` | `SetGoalsOn*.ts`, push tests | rules and tests give the goals planned, from a push, a goal or skill output | acyclic rules give acyclic goals, checked by TLC |
| `KubernetesApps` | a second run | applications of one name in two namespaces share their cluster role: undeploying one deletes the other's | — |
| `SyncRepo` | `pack/k8s/sync` | two deployments and two timers at once | — (the theorems cover any number) |
| `GoalSets` | `pack/goal-state` | moves with failures and three sets | — (the theorems cover any number) |
