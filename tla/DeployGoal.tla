----------------------------- MODULE DeployGoal -----------------------------
(***************************************************************************)
(* The Kubernetes deploy goal (pack/k8s/deploy, events/kubernetesDeploy.ts)*)
(* An initiator collects the data of the application in the SDM that plans *)
(* the goal and hands the goal over, by its fulfillment, to the SDM that   *)
(* deploys.  One goal is followed through the events of both SDMs.         *)
(***************************************************************************)
EXTENDS Integers, FiniteSets

CONSTANTS
    Planner, Other,   \* two SDMs with k8sSupport
    Registrations,    \* what KubernetesDeploy.with may be given, see Registration
    LocalModes,       \* is the SDM in local mode?
    Provides,         \* possible contents of the sources: functions to sets of fields
    Executors,        \* SDMs that have an implementation named KubernetesDeployFulfiller
    MaxRestarts,      \* bound: users' restarts
    MaxFaults         \* bound: calls that fail

VARIABLES
    registration, provided, localMode,
    goal,        \* the goal as stored last
    events,      \* [handler, sdm, goal] to be handled
    running,     \* [handler, sdm, goal, phase, result]: executions under way
    upserted,    \* history: the application data upserted into the cluster
    synced,      \* history: those whose resources are in the sync repo, too
    reported,    \* history: [result, data] of executions
    restarts, faults

deployVars == <<registration, provided, localMode, goal, events, running, upserted, synced,
                reported, restarts, faults>>

Sdms == {Planner, Other}
Undefined == "undefined"
KubernetesDeployFulfiller == "kubernetes-deploy-fulfill"

(* Of the data of an application: who provided a field.                    *)
Fields == {"ns", "image", "port", "deploymentSpec"}
NoData == <<>>

(* goalEvent: the data the goal has already, none if they do not parse.    *)
DataSources == {"config", "dockerfile", "spec", "goalEvent"}

(* The callback may change a field, or return nothing.                     *)
Registration == [name : Sdms \cup {Undefined}, dataSources : SUBSET DataSources,
                 applicationData : {"none", "changes", "nothing"}]

From(source) == [f \in provided[source] |-> source]

IfEnabled(source) == IF source \in registration.dataSources THEN From(source) ELSE NoData

(* defaultImage: the image of the commit, one of the version read, or the  *)
(* latest; the name and the workspace are always there.                    *)
Images == IF "image" \in provided["commit"] THEN {"commit"} ELSE {"version", "latest"}
DefaultApplication(image) == [f \in {"image"} |-> image]

FirstWins(old, new) ==                                   \* variant: arguments swapped
    [f \in DOMAIN old \cup DOMAIN new |-> IF f \in DOMAIN old THEN old[f] ELSE new[f]]

(* _.merge: later sources win.                                             *)
Merge(old, new) ==
    [f \in DOMAIN old \cup DOMAIN new |-> IF f \in DOMAIN new THEN new[f] ELSE old[f]]

Generated(g, image) ==
    LET sources == Merge(Merge(Merge(Merge([f \in {"ns"} |-> "default"], IfEnabled("config")),
                                     DefaultApplication(image)),
                               IfEnabled("dockerfile")), IfEnabled("spec"))
        merged == IF "goalEvent" \in registration.dataSources THEN Merge(sources, g.data) ELSE sources
    IN  CASE registration.applicationData = "none" -> merged
          [] registration.applicationData = "changes" -> Merge(merged, From("callback"))
          [] OTHER -> NoData

---------------------------------------------------------------------------
(* Who is told: FulfillGoalOnRequested, if shouldFulfill, and              *)
(* HandleKubernetesDeploy by its subscription, in process and of its name. *)
Told(g) ==
    {[handler |-> "fulfill", sdm |-> s, goal |-> g] :
        s \in {t \in Sdms : /\ g.state = "requested" /\ g.registration = t
                            /\ g.name = KubernetesDeployFulfiller => t \in Executors}} \cup
    {[handler |-> "deploy", sdm |-> s, goal |-> g] :
        s \in {t \in Sdms : g.state = "in_process" /\ g.name = t}}

Store(g, pending) == goal' = g /\ events' = pending \cup Told(g)

Init ==
    /\ registration \in Registrations /\ provided \in Provides /\ localMode \in LocalModes
    /\ \E parses \in {TRUE, provided["goalEvent"] # {}} :
         goal = [state |-> "requested", registration |-> Planner, parses |-> parses,
                 name |-> IF registration.name = Undefined THEN Planner ELSE registration.name,
                 data |-> From("goalEvent")]
    /\ events = Told(goal)
    /\ running = {} /\ upserted = {} /\ synced = {} /\ reported = {}
    /\ restarts = 0 /\ faults = 0

Start(e, g, phase) ==
    running' = running \cup {[handler |-> e.handler, sdm |-> e.sdm, goal |-> g,
                              phase |-> phase, result |-> "none"]}

(* What executeKubernetesDeployFulfill does first: data that do not parse  *)
(* are an error, no data are not.                                          *)
Checked(g) ==
    CASE ~g.parses -> "throws"
      [] g.parses /\ g.data = NoData -> "success"
      [] OTHER -> "none"

(* executeGoal stores the goal as in process before it calls the executor. *)
FulfillGoal(e) ==
    LET g == [e.goal EXCEPT !.state = "in_process"]
        known == e.goal.name = KubernetesDeployFulfiller
    IN  /\ e \in events /\ e.handler = "fulfill"
        /\ Store(g, events \ {e})
        /\ Start(e, g, IF known THEN "check" ELSE "generate")
        /\ UNCHANGED <<registration, provided, localMode, upserted, synced, reported, restarts, faults>>

HandleKubernetesDeploy(e) ==
    /\ e \in events /\ e.handler = "deploy"
    /\ events' = events \ {e}
    /\ Start(e, e.goal, "check")
    /\ UNCHANGED <<registration, provided, localMode, goal, upserted, synced, reported, restarts, faults>>

Continue(r, phase, result) == running' = (running \ {r}) \cup {[r EXCEPT !.phase = phase, !.result = result]}

Fault == faults < MaxFaults /\ faults' = faults + 1

(* initiateKubernetesDeploy: the goal goes back to requested with its data *)
(* and the fulfillment of the SDM that is to deploy; in local mode the     *)
(* initiator deploys itself.                                               *)
Initiate(r) ==
    /\ r \in running /\ r.phase = "generate"
    /\ \/ Fault /\ Continue(r, "report", "failure") /\ UNCHANGED <<goal, events>>
       \/ \E image \in Images :
            LET g == [r.goal EXCEPT !.data = Generated(r.goal, image), !.parses = TRUE,
                                    !.name = KubernetesDeployFulfiller,
                                    !.registration = registration.name]
            IN  /\ IF localMode
                   THEN /\ running' = (running \ {r}) \cup {[r EXCEPT !.goal = g, !.phase = "deploy"]}
                        /\ UNCHANGED <<goal, events>>
                   ELSE /\ running' = running \ {r}
                        /\ Store([g EXCEPT !.state = "requested"], events)
                /\ UNCHANGED faults
    /\ UNCHANGED <<registration, provided, localMode, upserted, synced, reported, restarts>>

CheckData(r) ==
    /\ r \in running /\ r.phase = "check"
    /\ IF Checked(r.goal) = "none" THEN Continue(r, "deploy", "none")
                                   ELSE Continue(r, "report", Checked(r.goal))
    /\ UNCHANGED <<registration, provided, localMode, goal, events, upserted, synced, reported, restarts, faults>>

(* isKubernetesApplication asks for the fields that the defaults provide.  *)
UpsertApplication(r) ==
    /\ r \in running /\ r.phase = "deploy"
    /\ \/ r.goal.data # NoData /\ Continue(r, "sync", "none")
          /\ upserted' = upserted \cup {r.goal.data} /\ UNCHANGED faults
       \/ r.goal.data # NoData /\ Fault /\ Continue(r, "report", "failure") /\ UNCHANGED upserted
       \/ r.goal.data = NoData /\ Continue(r, "report", "failure") /\ UNCHANGED <<upserted, faults>>
    /\ UNCHANGED <<registration, provided, localMode, goal, events, synced, reported, restarts>>

SyncIsBestEffort(r) ==                                   \* variant: errors are only logged
    /\ Continue(r, "report", "success")
    /\ \/ synced' = synced \cup {r.goal.data} /\ UNCHANGED faults
       \/ Fault /\ UNCHANGED synced

SyncResult(r) ==
    \/ synced' = synced \cup {r.goal.data} /\ Continue(r, "report", "success") /\ UNCHANGED faults
    \/ Fault /\ Continue(r, "report", "failure") /\ UNCHANGED synced

SyncApplication(r) ==
    /\ r \in running /\ r.phase = "sync"
    /\ SyncResult(r)
    /\ UNCHANGED <<registration, provided, localMode, goal, events, upserted, reported, restarts>>

(* The goal is stored over whatever was stored meanwhile.  The handler     *)
(* leaves a goal it cannot store as it is.                                 *)
Report(r) ==
    /\ r \in running /\ r.phase = "report"
    /\ running' = running \ {r}
    /\ reported' = reported \cup {[result |-> r.result, data |-> r.goal.data]}
    /\ \/ /\ Store([r.goal EXCEPT !.state = IF r.result = "success" THEN "success" ELSE "failure"], events)
          /\ UNCHANGED faults
       \/ r.handler = "deploy" /\ Fault /\ UNCHANGED <<goal, events>>
    /\ UNCHANGED <<registration, provided, localMode, upserted, synced, restarts>>

Restart ==
    /\ goal.state \in {"success", "failure"} /\ restarts < MaxRestarts /\ restarts' = restarts + 1
    /\ Store([goal EXCEPT !.state = "requested"], events)
    /\ UNCHANGED <<registration, provided, localMode, running, upserted, synced, reported, faults>>

Step ==
    \/ \E e \in events : FulfillGoal(e) \/ HandleKubernetesDeploy(e)
    \/ \E r \in running : Initiate(r) \/ CheckData(r) \/ UpsertApplication(r) \/ SyncApplication(r) \/ Report(r)

Next == Step \/ Restart

Spec == Init /\ [][Next]_deployVars /\ WF_deployVars(Step)

---------------------------------------------------------------------------
(* A deployment is reported as a success only when its application was     *)
(* upserted into the cluster and into the sync repository; or when the goal*)
(* had no application data.                                                *)
SuccessIsDeployed ==
    \A r \in reported : r.result = "success" => r.data = NoData \/ r.data \in upserted \cap synced

(* From lowest to highest, as documented.                                  *)
Priority == <<"default", "config", "version", "latest", "commit", "dockerfile", "spec", "goalEvent", "callback">>
Rank(source) == CHOOSE i \in DOMAIN Priority : Priority[i] = source

(* No enabled source that provides a field has a higher priority than the  *)
(* one its deployed value is from.                                         *)
DeploysByPriority ==
    \A data \in upserted : \A f \in DOMAIN data : \A source \in registration.dataSources :
        f \in provided[source] => Rank(data[f]) >= Rank(source)

(* "Deploying the application is completed by the kubernetesDeployHandler":*)
(* a goal is successful only when its application was deployed.            *)
SuccessfulGoalIsDeployed ==
    goal.state = "success" => upserted # {} \/ registration.applicationData = "nothing"

(* "By default, this goal will be configured such that it is fulfilled by  *)
(* the SDM that creates it."                                               *)
IsFulfilled == <>(goal.state \in {"success", "failure"})
=============================================================================
