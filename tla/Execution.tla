------------------------------ MODULE Execution ------------------------------
(***************************************************************************)
(* The components that take part in executing a goal set.  They share no   *)
(* state: a behaviour is one of a single component, named by part, while   *)
(* the variables of the others rest.                                       *)
(***************************************************************************)
EXTENDS ContainerWatch, Sequences

CONSTANTS
    Sets, Goals, Moves, Passes, ManageFetch, CancelFetch,  \* GoalSets
    Containers, LongCommand, Executions, DockerFaults,     \* DockerJob
    MaxLines, BufferSize, Posts, LogFaults,                \* ProgressLog
    Deliveries, TaskFaults,                                \* JobTasks
    Entries, Globs, Puts, Restores, CacheFaults,           \* GoalCache
    Planner, Fulfiller, Configs, MaxStores                 \* GoalSigning

VARIABLES
    part,  \* the component looked at
    goals, stored, passes, cancelCommand, open,
    dockerPc, execution, spawned, failures, toKill, containers, network, args,
    outputCode, dockerCode, missed,
    buffer, post, storedLines, written, logStatus, timedOut, excused, overlapped,
    kind, state, handler, outcomes, taskLost,
    method, store, archive, excludes, put, restore, wrote, removed,
    config, goal, events, rejected, stores, rejections,
    faults

GS == INSTANCE GoalSets WITH cancel <- cancelCommand

DJ == INSTANCE DockerJob WITH
    MaxFaults <- DockerFaults, pc <- dockerPc, container <- containers,
    output <- outputCode, code <- dockerCode

PL == INSTANCE ProgressLog WITH
    MaxFaults <- LogFaults, stored <- storedLines, status <- logStatus

JT == INSTANCE JobTasks WITH MaxFaults <- TaskFaults, lost <- taskLost

GC == INSTANCE GoalCache WITH MaxFaults <- CacheFaults

SG == INSTANCE GoalSigning

(* What the constants are: bounds, and what the source's values are.       *)
ASSUME ExecutionAssumption ==
    /\ GS!AreGoalSets
    /\ Containers \in Nat \ {0} /\ Executions \in Nat \ {0} /\ DockerFaults \in Nat
    /\ MaxLines \in Nat /\ BufferSize \in Nat /\ LogFaults \in Nat
    /\ TaskFaults \in Nat
    /\ Entries \in Seq(STRING) /\ Entries # <<>> /\ Puts \subseteq Nat \ {0} /\ CacheFaults \in Nat
    /\ Configs \subseteq SG!Config /\ MaxStores \in Nat

GoalSetsVars == <<goals, stored, passes, cancelCommand, open>>
DockerVars == <<dockerPc, execution, spawned, failures, toKill, containers, network,
    args, outputCode, dockerCode, missed>>
LogVars == <<buffer, post, storedLines, written, logStatus, timedOut,
    excused, overlapped>>
TaskVars == <<kind, state, handler, outcomes, taskLost>>
CacheVars == <<method, store, archive, excludes, put, restore, wrote, removed>>
SigningVars == <<config, goal, events, rejected, stores, rejections>>

NoDocker == dockerPc = 0 /\ execution = 0 /\ spawned = 0 /\ failures = 0
    /\ toKill = 0 /\ containers = 0 /\ network = 0 /\ args = 0 /\ outputCode = 0
    /\ dockerCode = 0 /\ missed = 0
NoLog == buffer = 0 /\ post = 0 /\ storedLines = 0 /\ written = 0 /\ logStatus = 0
    /\ timedOut = 0 /\ excused = 0 /\ overlapped = 0
NoTask == kind = 0 /\ state = 0 /\ handler = 0 /\ outcomes = 0 /\ taskLost = 0
NoCache == method = 0 /\ store = 0 /\ archive = 0 /\ excludes = 0 /\ put = 0 /\ restore = 0
    /\ wrote = 0 /\ removed = 0
NoSigning == config = 0 /\ goal = 0 /\ events = 0 /\ rejected = 0 /\ stores = 0
    /\ rejections = 0

InitPart ==
    /\ part \in {"container", "goal sets", "docker", "log", "tasks", "cache", "signing"}
    /\ faults = 0
    /\ Init
    /\ GS!Init
    /\ IF part = "docker" THEN DJ!Init ELSE NoDocker
    /\ IF part = "log" THEN PL!Init ELSE NoLog
    /\ IF part = "tasks" THEN JT!Init ELSE NoTask
    /\ IF part = "cache" THEN GC!Init ELSE NoCache
    /\ IF part = "signing" THEN SG!Init ELSE NoSigning

StepContainer ==
    /\ part = "container" /\ Next
    /\ UNCHANGED <<part, faults, GoalSetsVars, DockerVars, LogVars, TaskVars,
          CacheVars, SigningVars>>

StepGoalSets ==
    /\ part = "goal sets" /\ GS!Next
    /\ UNCHANGED <<part, faults, DockerVars, LogVars, TaskVars, CacheVars,
          SigningVars, vars>>

StepDocker ==
    /\ part = "docker" /\ DJ!Next
    /\ UNCHANGED <<part, GoalSetsVars, LogVars, TaskVars, CacheVars, SigningVars,
          vars>>

StepLog ==
    /\ part = "log" /\ PL!Next
    /\ UNCHANGED <<part, GoalSetsVars, DockerVars, TaskVars, CacheVars, SigningVars,
          vars>>

StepTask ==
    /\ part = "tasks" /\ JT!Next
    /\ UNCHANGED <<part, GoalSetsVars, DockerVars, LogVars, CacheVars, SigningVars,
          vars>>

StepCache ==
    /\ part = "cache" /\ GC!Next
    /\ UNCHANGED <<part, GoalSetsVars, DockerVars, LogVars, TaskVars, SigningVars,
          vars>>

StepSigning ==
    /\ part = "signing" /\ SG!Next
    /\ UNCHANGED <<part, faults, GoalSetsVars, DockerVars, LogVars, TaskVars,
          CacheVars, vars>>

NextPart == StepContainer \/ StepGoalSets \/ StepDocker \/ StepLog \/ StepTask
            \/ StepCache \/ StepSigning

allVars == <<part, faults, vars, GoalSetsVars, DockerVars, LogVars, TaskVars,
             CacheVars, SigningVars>>

Parts == InitPart /\ [][NextPart]_allVars

(* Each component is scheduled as its module says.  Docker starts the       *)
(* containers, and the main one ends.                                      *)
FairParts ==
    /\ Parts
    /\ WF_vars(part = "container" /\ Execute)
    /\ WF_vars(part = "container" /\ (OpenWatch \/ FailToOpenWatch))
    /\ WF_vars(part = "container" /\ TimeOut)
    /\ \A p \in Passes : WF_GoalSetsVars(part = "goal sets" /\ GS!RunPass(p))
    /\ WF_GoalSetsVars(part = "goal sets" /\ GS!RunCancel)
    /\ \A s \in Sets, g \in Goals : WF_GoalSetsVars(
         part = "goal sets" /\ goals[s][g] \notin GS!Completed
             /\ \E to \in GS!State : GS!MoveGoal(s, g, to))
    /\ WF_DockerVars(part = "docker" /\ DJ!Execute)
    /\ \A e \in DJ!E, c \in DJ!C : WF_DockerVars(part = "docker" /\ DJ!DockerStarts(e, c))
    /\ \A e \in DJ!E : WF_DockerVars(part = "docker" /\ DJ!ContainerEnds(e, DJ!Main))
    /\ WF_LogVars(part = "log" /\ PL!TimerFlush)
    /\ \A p \in Posts : WF_LogVars(part = "log" /\ (PL!Answered(p) \/ PL!FailedPost(p)))
    /\ \A d \in Deliveries : WF_TaskVars(part = "tasks" /\ JT!Handle(d))

---------------------------------------------------------------------------
(* An execution of a goal ends, whatever its containers, their logs and    *)
(* the cluster do (executeK8sJob, executeDockerJob); its log is stored     *)
(* (RolarProgressLog), and a task gets a state (executeTask), unless what  *)
(* was to do that failed or died.                                          *)
ExecutionsEnd ==
    /\ part = "container" => Reports
    /\ []<>(part = "docker" => dockerPc = "ended")
    /\ \A l \in 1..MaxLines :
         (part = "log" /\ PL!IsOpen(l)) ~> (part = "log" /\ PL!IsDealtWith(l))
    /\ <>(part = "tasks" => JT!IsSettled)

(* When the command to cancel all goal sets is done, every goal of those   *)
(* that were pending has ended since it began, unless a pass of the trigger *)
(* hid its goal set from it (cancelGoalSetsCommand, manageGoalSets).       *)
CancelEndsGoals == part = "goal sets" => GS!CancelEndsGoals

(* A goal set whose goals have all ended is stored as ended for good       *)
(* (manageGoalSetsTrigger).                                                *)
SetsClose == part = "goal sets" => GS!SetsClose

(* Canceling all goal sets ends, although passes of the trigger may store  *)
(* one as pending again (cancelGoalSetsCommand's loop).                    *)
CancelEnds == part = "goal sets" => GS!CancelEnds

(* A goal executed by Docker succeeds only when its main container did,    *)
(* and a container that outlives it is one that was killed before Docker   *)
(* had started it, or whose kill failed (executeDockerJob).                *)
NoneForgotten ==
    part = "docker" => DJ!TypeOK /\ DJ!SuccessIsMains /\ DJ!NoneForgotten

(* A line of the log is in the buffer, under way, or with the service,     *)
(* however posts overlap and fail, and a closed log keeps back none without *)
(* a cause.  The service has the lines once and in their order, but those  *)
(* of overlapping posts and of posts stored without an answer in time      *)
(* (RolarProgressLog.flush).                                               *)
NoLineLost == part = "log" => PL!TypeOK /\ PL!NoLineLost /\ PL!StoredInOrder

(* What a task is said to have come to is what an invocation of its        *)
(* command came to, its event delivered twice or not (executeTask).        *)
StateHasCause == part = "tasks" => JT!TypeOK /\ JT!StateHasCause

(* A restored goal has the whole archive of one put, or its listeners for  *)
(* cache misses made up for it, or tar was stopped half way; the goal's    *)
(* data name what was stored (goalCaching, CompressingGoalCache).          *)
RestoredOrMissed ==
    part = "cache" => GC!TypeOK /\ GC!RestoredOrMissed /\ GC!OutputsAreStored

(* No sidecar is killed before the main container has ended, unless the    *)
(* execution fails (executeDockerJob), and a miss of the cache has a cause *)
(* (goalCaching).                                                          *)
StepsHaveCause ==
    /\ [][part = "docker" => DJ!KillsInTime]_DockerVars
    /\ [][part = "cache" => GC!MissesForCause]_CacheVars

(* A goal is rejected for a cause, and storing a rejected goal is not      *)
(* answered with another rejection, however the SDMs are configured        *)
(* (verifyGoal, rejectGoal).                                               *)
RejectionsDoNotCascade ==
    part = "signing" => SG!RejectedForCause /\ SG!RejectionsDoNotCascade
===============================================================================
