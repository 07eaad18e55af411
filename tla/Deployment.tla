------------------------------ MODULE Deployment ------------------------------
(***************************************************************************)
(* From versions and tags to a deployment on Kubernetes: the results of    *)
(* goals, applications, the goal that deploys them, and fetching resources.*)
(* They share no state: a behaviour is one of a single part, named by      *)
(* part, while the variables of the others rest.                           *)
(***************************************************************************)
EXTENDS KubernetesApps, Integers

CONSTANTS
    Selections, DefaultKinds, Served, ClusterKinds, Objects, FirstObjects,
    MaxChanges,                                                \* KubernetesFetch
    Planner, Other, Registrations, LocalModes, Provides, Executors,
    MaxRestarts,                                               \* DeployGoal
    Versioners, Commands, Taggers, TagOptions, SecretPaths, Retryable, MaxVersion,
    MaxRetries                                                 \* GoalResults

VARIABLES
    part,  \* the component looked at
    selectors, pc, todo, queue, specs, result, objects, seen, throughout, unknown,
    clusterChanges,
    registration, provided, localMode, goal, events, running, upserted, synced,
    reported, restarts,
    options, goalPc, code, version, place, directories, results, secrets, linked, tags, cloned,
    storedVersions, processed, wiped, lost, abandoned, retries

(* What the calls ask for while another part is looked at.                 *)
Rest == req = [c \in Calls |-> CHOOSE r \in Requests[c] : TRUE]

KF == INSTANCE KubernetesFetch WITH
    Resources <- Objects, FirstCluster <- FirstObjects, cluster <- objects,
    changes <- clusterChanges

DG == INSTANCE DeployGoal

GR == INSTANCE GoalResults WITH pc <- goalPc, result <- results, stored <- storedVersions

(* What the constants are: a goal does one thing, the application of a     *)
(* deployment is composed of the sources there are, and resources are in   *)
(* namespaces unless their kind has none.                                  *)
ASSUME DeploymentAssumption ==
    /\ Commands \cap (Versioners \cup Taggers) = {}
    /\ SecretPaths \in [Commands -> Seq(STRING)]
    /\ \A r \in Registrations : r.dataSources \subseteq DG!DataSources
    /\ KF!AreResources

FetchVars == <<selectors, pc, todo, queue, specs, result, objects, seen, throughout,
    unknown, clusterChanges>>
DeployGoalVars == <<registration, provided, localMode, goal, events, running,
    upserted, synced, reported, restarts>>
ResultVars == <<options, goalPc, code, version, place, directories, results, secrets, linked, tags,
    cloned, storedVersions, processed, wiped, lost, abandoned, retries>>

NoFetch == selectors = 0 /\ pc = 0 /\ todo = 0 /\ queue = 0 /\ specs = 0
    /\ result = 0 /\ objects = 0 /\ seen = 0 /\ throughout = 0 /\ unknown = 0
    /\ clusterChanges = 0
NoDeployGoal == registration = 0 /\ provided = 0 /\ localMode = 0 /\ goal = 0
    /\ events = 0 /\ running = 0 /\ upserted = 0 /\ synced = 0 /\ reported = 0
    /\ restarts = 0
NoResult == options = 0 /\ goalPc = 0 /\ code = 0 /\ version = 0 /\ place = 0 /\ directories = 0 /\ results = 0
    /\ secrets = 0 /\ linked = 0 /\ tags = 0 /\ cloned = 0 /\ storedVersions = 0
    /\ processed = 0 /\ wiped = 0 /\ lost = 0 /\ abandoned = 0 /\ retries = 0

InitPart ==
    /\ part \in {"applications", "fetch", "deploy goal", "results"}
    /\ Init /\ (part = "applications" \/ Rest)
    /\ IF part = "fetch" THEN KF!Init ELSE NoFetch
    /\ IF part = "deploy goal" THEN DG!Init ELSE NoDeployGoal
    /\ IF part = "results" THEN GR!Init ELSE NoResult

StepApplications ==
    /\ part = "applications" /\ Next
    /\ UNCHANGED <<part, FetchVars, DeployGoalVars, ResultVars>>

StepFetch ==
    /\ part = "fetch" /\ KF!Next
    /\ UNCHANGED <<part, DeployGoalVars, ResultVars, req, cluster, progress, tries,
          listed, deleting, errors, hindered, replaced, late>>

StepDeployGoal ==
    /\ part = "deploy goal" /\ DG!Next
    /\ UNCHANGED <<part, FetchVars, ResultVars, req, cluster, progress, tries,
          listed, deleting, errors, hindered, replaced, late>>

StepResult ==
    /\ part = "results" /\ GR!Next
    /\ UNCHANGED <<part, FetchVars, DeployGoalVars, req, cluster, progress, tries,
          listed, deleting, errors, hindered, replaced, late>>

NextPart == StepApplications \/ StepFetch \/ StepDeployGoal \/ StepResult

allVars == <<part, vars, FetchVars, DeployGoalVars, ResultVars>>

Parts == InitPart /\ [][NextPart]_allVars

---------------------------------------------------------------------------
(* A fetch that succeeds has the resources the first matching selector     *)
(* includes, and no others (kubernetesFetch).                              *)
FetchesWhatIsSelected == part = "fetch" => KF!FetchesWhatIsSelected

(* A deployment is reported as a success only when its application is in   *)
(* the cluster and the sync repository (deployApplication).                *)
SuccessIsDeployed == part = "deploy goal" => DG!SuccessIsDeployed

(* A deployed field is from the source of the highest priority that has it *)
(* (generateKubernetesGoalEventData).                                      *)
DeploysByPriority == part = "deploy goal" => DG!DeploysByPriority

(* What a command that succeeded has written, its version and its image,   *)
(* arrives, if no other goal of the set removed it (processResult); secrets*)
(* are left only of commands that failed without their clean-up (execute); *)
(* and tags are as their options say (executeTag).                         *)
ResultsArrive ==
    part = "results" => GR!ResultsArrive /\ GR!SecretsAreRemoved /\ GR!TagsAreVersions
===============================================================================
