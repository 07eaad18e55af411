---------------------------- MODULE KubernetesJobs ----------------------------
(***************************************************************************)
(* How KubernetesGoalScheduler runs isolated goals as Kubernetes jobs, and *)
(* how its timer removes old ones.  Jobs are addressed by a name computed  *)
(* from the goal; a call to schedule reads the job of that name, deletes   *)
(* it if there is one, and creates its own, retrying while the old one is  *)
(* still there.  Each of these is a request of its own, and other calls,   *)
(* the clean-up and the cluster act in between.                            *)
(*                                                                         *)
(* Definitions marked "Variant" are plausible mistakes in the definition   *)
(* that follows them; no run uses them.                                    *)
(***************************************************************************)
EXTENDS Naturals, FiniteSets

CONSTANTS
    Goals,     \* isolated goals
    Names,     \* job names
    JobName,   \* JobName[g]: k8sJobName of g
    Calls,     \* calls to schedule
    GoalOf,    \* GoalOf[c]: the goal call c schedules
    Tries,     \* attempts of doWithRetry to create the job
    ApiErrors, \* may requests to the cluster fail, or their answers be lost?
    Cleans,    \* does the clean-up timer run?
    MaxJobs    \* bound: jobs ever created

ASSUME JobsAssumption ==
    /\ JobName \in [Goals -> Names]
    /\ GoalOf \in [Calls -> Goals]
    /\ Tries \in Nat \ {0} /\ MaxJobs \in Nat
    /\ {ApiErrors, Cleans} \subseteq BOOLEAN

VARIABLES
    jobs,     \* the jobs in the cluster
    pods,     \* the pods running goals
    calls,    \* where each call to schedule is
    cleanup,  \* the names the clean-up still has to delete, and its stage
    created   \* how many jobs were created

vars == <<jobs, pods, calls, cleanup, created>>

(* "old": it started longer ago than the TTL; "launched": its pod was made *)
Job == [name: Names, uid: 1..MaxJobs, goal: Goals, launched: BOOLEAN,
        old: BOOLEAN, deleting: BOOLEAN]

Pod == [name: Names, uid: 1..MaxJobs, goal: Goals]

Call == [at: {"read", "delete", "create", "created", "failed"},
         tries: 0..Tries]

Cleanup == [todo: SUBSET Names, stage: {"job", "pods"}]

---------------------------------------------------------------------------
(* The cluster *)

JobsNamed(n) == {j \in jobs : j.name = n}

(* Variant: deletion in the background: the job is gone before its pod. *)
WithoutJobsNamed(n) == {j \in jobs : j.name # n}

(* Deletion in the foreground: the job stays until its pod is gone. *)
Deleting(n) == {IF j.name = n THEN [j EXCEPT !.deleting = TRUE] ELSE j : j \in jobs}

RunsIn(p, j) == p.uid = j.uid

LaunchPod(j) ==
    /\ j \in jobs
    /\ ~j.launched /\ ~j.deleting
    /\ jobs' = (jobs \ {j}) \cup {[j EXCEPT !.launched = TRUE]}
    /\ pods' = pods \cup {[name |-> j.name, uid |-> j.uid, goal |-> j.goal]}
    /\ UNCHANGED <<calls, cleanup, created>>

EndPod(p) ==
    /\ p \in pods
    /\ pods' = pods \ {p}
    /\ UNCHANGED <<jobs, calls, cleanup, created>>

RemoveJob(j) ==
    /\ j \in jobs
    /\ j.deleting
    /\ \A p \in pods : ~RunsIn(p, j)
    /\ jobs' = jobs \ {j}
    /\ UNCHANGED <<pods, calls, cleanup, created>>

AgeJob(j) ==
    /\ j \in jobs
    /\ Cleans /\ j.launched /\ ~j.old
    /\ jobs' = (jobs \ {j}) \cup {[j EXCEPT !.old = TRUE]}
    /\ UNCHANGED <<pods, calls, cleanup, created>>

---------------------------------------------------------------------------
(* schedule *)

NameOf(c) == JobName[GoalOf[c]]

Goto(c, place) == calls' = [calls EXCEPT ![c].at = place]

(* Any error counts as "there is no such job". *)
ReadJob(c) ==
    /\ calls[c].at = "read"
    /\ \/ JobsNamed(NameOf(c)) # {} /\ Goto(c, "delete")
       \/ (JobsNamed(NameOf(c)) = {} \/ ApiErrors) /\ Goto(c, "create")
    /\ UNCHANGED <<jobs, pods, cleanup, created>>

DeleteJob(c) ==
    /\ calls[c].at = "delete"
    /\ JobsNamed(NameOf(c)) # {}
    /\ jobs' = Deleting(NameOf(c))
    /\ Goto(c, "create")
    /\ UNCHANGED <<pods, cleanup, created>>

(* The request fails, as it does when the job went away since it was read. *)
FailToDelete(c) ==
    /\ calls[c].at = "delete"
    /\ JobsNamed(NameOf(c)) = {} \/ ApiErrors
    /\ Goto(c, "failed")
    /\ UNCHANGED <<jobs, pods, cleanup, created>>

NewJob(c) ==
    [name |-> NameOf(c), uid |-> created + 1, goal |-> GoalOf[c],
     launched |-> FALSE, old |-> FALSE, deleting |-> FALSE]

(* Variant: the attempts are not counted. *)
TryForEver(c) == UNCHANGED calls

TryAgain(c) ==
    calls' = [calls EXCEPT
        ![c] = [at |-> IF calls[c].tries + 1 = Tries THEN "failed" ELSE "create",
                tries |-> calls[c].tries + 1]]

CreateJob(c) ==
    /\ calls[c].at = "create"
    /\ JobsNamed(NameOf(c)) = {}
    /\ created < MaxJobs
    /\ created' = created + 1
    /\ jobs' = jobs \cup {NewJob(c)}
    /\ \/ Goto(c, "created")
       \/ ApiErrors /\ TryAgain(c)  \* the job exists, but the answer is lost
    /\ UNCHANGED <<pods, cleanup>>

FailToCreate(c) ==
    /\ calls[c].at = "create"
    /\ JobsNamed(NameOf(c)) # {} \/ ApiErrors
    /\ TryAgain(c)
    /\ UNCHANGED <<jobs, pods, cleanup, created>>

---------------------------------------------------------------------------
(* cleanupJobs *)

OldNames == {j.name : j \in {x \in jobs : x.old}}

ListOldJobs ==
    /\ Cleans
    /\ cleanup.todo = {}
    /\ OldNames # {}
    /\ cleanup' = [todo |-> OldNames, stage |-> "job"]
    /\ UNCHANGED <<jobs, pods, calls, created>>

(* deleteJob: whatever job has the name now; errors are ignored. *)
CleanupDeleteJob(n) ==
    /\ n \in cleanup.todo
    /\ cleanup.stage = "job"
    /\ \/ jobs' = Deleting(n)
       \/ ApiErrors /\ jobs' = jobs
    /\ cleanup' = [cleanup EXCEPT !.stage = "pods"]
    /\ UNCHANGED <<pods, calls, created>>

(* deletePods: each pod that carries the name. *)
CleanupDeletePods(n) ==
    /\ n \in cleanup.todo
    /\ cleanup.stage = "pods"
    /\ \/ pods' = {p \in pods : p.name # n}
       \/ ApiErrors /\ pods' = pods
    /\ cleanup' = [todo |-> cleanup.todo \ {n}, stage |-> "job"]
    /\ UNCHANGED <<jobs, calls, created>>

---------------------------------------------------------------------------
Init ==
    /\ jobs = {} /\ pods = {}
    /\ calls = [c \in Calls |-> [at |-> "read", tries |-> 0]]
    /\ cleanup = [todo |-> {}, stage |-> "job"]
    /\ created = 0

Schedule(c) ==
    \/ ReadJob(c)
    \/ DeleteJob(c)
    \/ FailToDelete(c)
    \/ CreateJob(c)
    \/ FailToCreate(c)

CleanUp ==
    \/ ListOldJobs
    \/ \E n \in Names : CleanupDeleteJob(n) \/ CleanupDeletePods(n)

Next ==
    \/ \E j \in jobs : LaunchPod(j) \/ RemoveJob(j) \/ AgeJob(j)
    \/ \E p \in pods : EndPod(p)
    \/ \E c \in Calls : Schedule(c)
    \/ CleanUp

Spec == Init /\ [][Next]_vars

FairSpec == Spec /\ \A c \in Calls : WF_vars(Schedule(c))

---------------------------------------------------------------------------
TypeOK ==
    /\ jobs \subseteq Job
    /\ pods \subseteq Pod
    /\ calls \in [Calls -> Call]
    /\ cleanup \in Cleanup
    /\ created \in 0..MaxJobs

(* No goal is executed twice at the same time, however calls to schedule   *)
(* it, their retries and the clean-up race.                                *)
OneExecution ==
    \A p, q \in pods : p.goal = q.goal => p = q

(* Every call to schedule ends, in success or failure. *)
CallsEnd == \A c \in Calls : <>(calls[c].at \in {"created", "failed"})

(* A job is deleted only once it is old, or to schedule its goal anew. *)
DeletedForCause ==
    [][\A j \in jobs, k \in jobs' :
         j.uid = k.uid /\ ~j.deleting /\ k.deleting
           => \/ j.old
              \/ \E c \in Calls : /\ GoalOf[c] = j.goal
                                  /\ calls[c].at = "delete"
                                  /\ calls'[c].at = "create"]_vars

===============================================================================
