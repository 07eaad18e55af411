------------------------------- MODULE JobSpec -------------------------------
(***************************************************************************)
(* What becomes of a container goal on its way to a Kubernetes job: the    *)
(* registration is put into the goal's data, as it is (a function that     *)
(* redirects the goal to a Kubernetes SDM) or with the containers and      *)
(* volumes made of it (goal/container/k8s.ts), services of other           *)
(* registrations join it, and the scheduler adds them all to the pod of    *)
(* the SDM (KubernetesGoalScheduler.ts).                                   *)
(***************************************************************************)
EXTENDS Integers, Sequences

CONSTANTS
    Goals,      \* the goals looked at, see Goal
    Schedulings \* bound: jobs created for a goal

VARIABLES
    goal,       \* what is registered, and where
    pc,
    data,       \* [registration, services]: the JSON data of the goal
    job,        \* the job last created
    written,    \* secrets the job's init container has written to files
    scheduled   \* number of jobs created

jobVars == <<goal, pc, data, job, written, scheduled>>

(* Values a goal is composed of.  A secret is put into the variable name,  *)
(* or into a file of that name in the directory.                           *)
Secret == [name : STRING, dir : Seq(STRING), kind : {"env", "file"},
           type : {"docker", "npm", "maven2", "generic", "scm"}, matches : Nat]

Goal == [where : {"k8s", "faas"},
         callback : {"none", "drops", "adds"},         \* side containers, a secret
         containers : Seq(STRING), secrets : SUBSET Secret,
         service : {"none", "before", "after"},        \* a service's callback, and the goal's
         podCache : BOOLEAN, podInit : BOOLEAN]

(* The name of the copy container is a new one each time.                  *)
AreContainerGoals ==
    /\ Goals \subseteq Goal
    /\ \A g \in Goals :
         /\ g.containers # <<>>
         /\ \A i \in DOMAIN g.containers : g.containers[i] # "copy"

(* Paths, volumes, and mounts of a whole volume or of one secret's file.   *)
ContainerProjectHome == <<"atm", "home">>
ContainerInput == <<"atm", "input">>
ContainerOutput == <<"atm", "output">>
IoPaths == {ContainerProjectHome, ContainerInput, ContainerOutput}
CachePath == <<"opt", "data">>
SharedPath == <<"shared">>
FilePath(s) == Append(s.dir, s.name)

Volume(of, path, n) == [of |-> of, path |-> path, n |-> n]
Mount(path, volume, secret) == [path |-> path, volume |-> volume, secret |-> secret]
Box(name, env, mounts) == [name |-> name, env |-> env, mounts |-> mounts]

None == [containers |-> <<>>, secrets |-> {}]
NoJob == [containers |-> <<>>, inits |-> <<>>, volumes |-> {}, paths |-> {}]

Init ==
    /\ goal \in Goals
    /\ pc = "plan" /\ data = [registration |-> None, services |-> <<>>]
    /\ job = NoJob /\ written = {} /\ scheduled = 0

(* The registration, as the callback leaves it.                            *)
AddedSecret ==
    [name |-> "s3", dir |-> <<"added">>, kind |-> "file", type |-> "scm", matches |-> 1]

Called ==
    [containers |-> IF goal.callback = "drops" THEN <<goal.containers[1]>> ELSE goal.containers,
     secrets |-> IF goal.callback = "adds" THEN goal.secrets \cup {AddedSecret} ELSE goal.secrets]

(* _.merge: containers by position, those the new registration lacks stay. *)
Merge(old, new) ==
    [containers |-> [i \in DOMAIN old.containers \cup DOMAIN new.containers |->
                        IF i \in DOMAIN new.containers THEN new.containers[i] ELSE old.containers[i]],
     secrets |-> old.secrets \cup new.secrets]

---------------------------------------------------------------------------
(* Secrets (goal/container/provider.ts).                                   *)

Unprepared(secrets) ==
    \E s \in secrets : \/ s.kind = "file" /\ s.type \in {"maven2", "generic"}
                       \/ s.kind = "env" /\ s.type # "scm" /\ s.matches > 1

(* Without a matching provider there is still an empty Docker or npm       *)
(* configuration.                                                          *)
Prepared(secrets) == {s \in secrets : s.matches > 0 \/ s.type \in {"docker", "npm"}}

EnvOf(secrets) ==
    LET env == {s \in Prepared(secrets) : s.kind = "env"}
        owned == {s \in env : s.type # "scm" /\ s.matches = 1}
    IN  {<<s.name, "">> : s \in env} \cup {<<s.name, "_USER">> : s \in owned}
          \cup {<<s.name, "_PWD">> : s \in {o \in owned : o.type = "maven2"}}

FilesOf(secrets) == {s \in Prepared(secrets) : s.kind = "file"}

---------------------------------------------------------------------------
(* The service made of a registration, secrets taken from another one.     *)

HostVolume == Volume("host", CachePath, 0)
PodMounts == IF goal.podCache THEN {Mount(CachePath, HostVolume, {})} ELSE {}

IoMounts(n) == {Mount(path, Volume("io", path, n), {}) : path \in IoPaths}

IsBelowMount(dir) ==    \* variant: a mount of a directory above is taken, too
    goal.podCache /\ \E k \in DOMAIN dir : SubSeq(dir, 1, k) = CachePath

(* The pod of the SDM, which the copy container is made of, mounts it.     *)
IsMounted(dir) == goal.podCache /\ dir = CachePath

(* The files of a directory share a volume: the one mounted there already, *)
(* or a new one.                                                           *)
SecretVolume(dir, n) == IF IsMounted(dir) THEN HostVolume ELSE Volume("secret", dir, n)

NewDirs(secrets) == {d \in {s.dir : s \in FilesOf(secrets)} : ~IsMounted(d)}

ContainersOf(spec, secrets, n) ==
    [i \in DOMAIN spec.containers |->
        Box(spec.containers[i], EnvOf(secrets),
            {Mount(FilePath(s), SecretVolume(s.dir, n), {s}) : s \in FilesOf(secrets)})]

CopyContainer(secrets, n) ==
    Box("copy", {}, PodMounts \cup {Mount(d, SecretVolume(d, n), {}) : d \in NewDirs(secrets)})

ContainerService(spec, secrets, n) ==
    [containers |-> ContainersOf(spec, secrets, n),
     inits |-> <<CopyContainer(secrets, n)>>,
     volumes |-> {m.volume : m \in IoMounts(n)}
                   \cup {SecretVolume(d, n) : d \in NewDirs(secrets)},
     mounts |-> IoMounts(n)]

(* A database beside the goal, and a volume for every container.           *)
SharedVolume == Volume("shared", SharedPath, 0)
OtherService ==
    [containers |-> <<Box("db", {}, {})>>, inits |-> <<>>,
     volumes |-> {SharedVolume}, mounts |-> {Mount(SharedPath, SharedVolume, {})}]

(* The callback of the goal, and the one of the other service, before or   *)
(* after it, when the goal is planned.  The callback's own secrets are not *)
(* looked at.                                                              *)
Plan ==
    /\ pc = "plan" /\ goal.where = "k8s"
    /\ IF Unprepared(goal.secrets) THEN pc' = "failed" /\ UNCHANGED data
       ELSE LET own == <<ContainerService(Called, goal.secrets, 1)>> IN
            /\ pc' = "planned"
            /\ data' = [registration |-> Merge(data.registration, Called),
                        services |-> CASE goal.service = "before" -> <<OtherService>> \o own
                                       [] goal.service = "after" -> own \o <<OtherService>>
                                       [] OTHER -> own]
    /\ UNCHANGED <<goal, job, written, scheduled>>

(* KubernetesFulfillmentGoalScheduler: the registration goes with the goal.*)
Redirect ==
    /\ pc = "plan" /\ goal.where = "faas"
    /\ data' = [registration |-> Merge(data.registration, Called),
                services |-> IF goal.service = "none" THEN <<>> ELSE <<OtherService>>]
    /\ pc' = "redirected"
    /\ UNCHANGED <<goal, job, written, scheduled>>

---------------------------------------------------------------------------
(* createJobSpec.                                                          *)

(* A service's mounts go to the containers that are there already: those of*)
(* the SDM's pod (0), of the services before it and its own.  Containers   *)
(* are numbered by service and position.                                   *)
WithMounts(boxes, services) ==
    [p \in UNION {{k} \X DOMAIN boxes[k] : k \in 0..Len(services)} |->
        LET box == boxes[p[1]][p[2]]
            added == UNION {services[k].mounts : k \in {l \in DOMAIN services : p[1] <= l}}
        IN  [box EXCEPT !.mounts = @ \cup added]]

PodContainers == <<Box("sdm", {<<"ISOLATED_GOAL", "">>}, PodMounts)>>
PodInits == IF goal.podInit THEN <<Box("setup", {}, {})>> ELSE <<>>

(* The path of the cache on the host gets the workspace, also when it ends *)
(* with it.                                                                *)
Job(services) ==
    [containers |-> WithMounts([k \in 0..Len(services) |->
                        IF k = 0 THEN PodContainers ELSE services[k].containers], services),
     inits |-> WithMounts([k \in 0..Len(services) |->
                        IF k = 0 THEN PodInits ELSE services[k].inits], services),
     volumes |-> {m.volume : m \in PodMounts} \cup UNION {services[k].volumes : k \in DOMAIN services},
     paths |-> IF goal.podCache THEN {<<"opt", "data", "workspace">>} ELSE {}]

(* Mounts are added to the init containers: there has to be one.           *)
Unbuildable(services) == ~goal.podInit /\ services[1].inits = <<>>

CreateJob(services) ==
    IF Unbuildable(services) THEN pc' = "failed" /\ UNCHANGED <<job, scheduled>>
    ELSE /\ job' = Job(services) /\ scheduled' = scheduled + 1
         /\ pc' = "job"

Schedule ==
    /\ pc = "planned"
    /\ CreateJob(data.services)
    /\ UNCHANGED <<goal, data, written>>

KeepServices(services) == services      \* variant: the services are not wiped out

WipedOut(services) == <<>>

(* scheduleK8sJob: services are wiped out, the registration in the data is *)
(* the one to make containers of.                                          *)
ScheduleK8sJob ==
    LET registration == data.registration
        services == WipedOut(data.services)
                      \o <<ContainerService(registration, registration.secrets, scheduled + 1)>>
    IN
    /\ pc = "redirected"
    /\ IF Unprepared(registration.secrets)
       THEN pc' = "failed" /\ UNCHANGED <<data, job, scheduled>>
       ELSE /\ data' = [registration |-> Merge(registration, registration), services |-> services]
            /\ CreateJob(services)
    /\ UNCHANGED <<goal, written>>

Boxes == {job.containers[i] : i \in DOMAIN job.containers} \cup {job.inits[i] : i \in DOMAIN job.inits}

(* Kubernetes takes a job only if all its containers have different names, *)
(* no container mounts two volumes at one path, and every volume mounted is*)
(* one of the pod.                                                         *)
IsAccepted ==
    /\ \A i, j \in DOMAIN job.containers : i # j => job.containers[i].name # job.containers[j].name
    /\ \A i, j \in DOMAIN job.inits : i # j => job.inits[i].name # job.inits[j].name
    /\ \A i \in DOMAIN job.containers, j \in DOMAIN job.inits :
          job.containers[i].name # job.inits[j].name
    /\ \A b \in Boxes : \A m \in b.mounts :
          /\ m.volume \in job.volumes
          /\ \A k \in b.mounts : k.path = m.path => k = m

Refuse ==
    /\ pc = "job" /\ ~IsAccepted
    /\ pc' = "failed"
    /\ UNCHANGED <<goal, data, job, written, scheduled>>

(* The init container prepares what the registration in the data says.     *)
RunInit ==
    /\ pc = "job" /\ IsAccepted
    /\ written' = FilesOf(data.registration.secrets)
    /\ pc' = "running"
    /\ UNCHANGED <<goal, data, job, scheduled>>

(* The goal is restarted, with the data it has.                            *)
Restart ==
    /\ pc = "running" /\ scheduled < Schedulings
    /\ pc' = IF goal.where = "k8s" THEN "planned" ELSE "redirected"
    /\ written' = {}
    /\ UNCHANGED <<goal, data, job, scheduled>>

Next == Plan \/ Redirect \/ Schedule \/ ScheduleK8sJob \/ Refuse \/ RunInit \/ Restart

Spec == Init /\ [][Next]_jobVars

---------------------------------------------------------------------------
Created == pc \in {"job", "running"}
Main == goal.containers[1]
Named(name) == {b \in Boxes : b.name = name}
At(box, path) == {m.volume : m \in {k \in box.mounts : k.path = path}}

(* The secrets made known to the containers, and those in files.           *)
Mounted == IF goal.where = "k8s" THEN goal.secrets ELSE Called.secrets
Files == FilesOf(Mounted)

(* The other service is in the job: those planned are, unless a function   *)
(* scheduled the goal again.                                               *)
HasDatabase == goal.where = "k8s" /\ goal.service # "none"

(* What registrations may ask for and no pod can give: a name that is      *)
(* another container's, or for a file of a secret a path that is another's,*)
(* or that is, or is directly in, a directory of the goal or one a later   *)
(* service mounts.                                                         *)
NamesClash ==
    \E i \in DOMAIN Called.containers :
        \/ \E j \in DOMAIN Called.containers : i # j /\ Called.containers[i] = Called.containers[j]
        \/ Called.containers[i] = "sdm"
        \/ goal.podInit /\ Called.containers[i] = "setup"
        \/ HasDatabase /\ Called.containers[i] = "db"

Taken == IoPaths \cup (IF HasDatabase /\ goal.service = "after" THEN {SharedPath} ELSE {})

FilesClash ==
    \E s \in Files :
        \/ {s.dir, FilePath(s)} \cap Taken # {}
        \/ \E o \in Files : o # s /\ FilePath(o) = FilePath(s)

(* The job made of a goal, the first time and again after a restart, is one*)
(* that Kubernetes takes, unless the registration itself asks for the      *)
(* impossible: nothing the SDM adds, to several files of one directory, to *)
(* the pod's own mounts or to another service, collides.                   *)
JobIsValid == Created => IsAccepted \/ NamesClash \/ FilesClash

(* The SDM in the init container clones the project and writes the input,  *)
(* the goal's containers work on them, and the SDM beside them reads the   *)
(* output: they all have the same volumes.                                 *)
SharesProject ==
    Created /\ IsAccepted =>
        \A n \in {"sdm", "copy", Main} :
            /\ Named(n) # {}
            /\ \A b \in Named(n), c \in Named("copy") : \A path \in IoPaths :
                 At(b, path) = At(c, path) /\ At(c, path) # {}

(* A secret that is written to a file is written where the main container  *)
(* has it mounted: into the volume, at its directory, of which the main    *)
(* container mounts the file.  It is lost when a callback that ran with the*)
(* planning added it.                                                      *)
SecretsArrive ==
    pc = "running" => \A s \in written :
        \/ \A c \in Named("copy"), b \in Named(Main) :
             At(c, s.dir) = At(b, FilePath(s)) /\ At(c, s.dir) # {}
        \/ goal.where = "k8s" /\ s \notin goal.secrets

(* "Each will be added to all containers and initContainers."              *)
ServiceMountsReachAll ==
    Created => \A i \in DOMAIN data.services : \A b \in Boxes : data.services[i].mounts \subseteq b.mounts
=============================================================================
