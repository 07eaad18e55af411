-------------------------- MODULE KubernetesJobs_proofs --------------------------
(***************************************************************************)
(* Proofs about KubernetesJobs: its type invariant, and that no goal is    *)
(* ever executed by two pods at the same time.                             *)
(***************************************************************************)
EXTENDS KubernetesJobs, TLAPS

(* Jobs are told apart by uid and by name; a pod belongs to the one        *)
(* launched job of its uid, and to no other.                               *)
JobsApart ==
    \A j, k \in jobs : j.uid = k.uid \/ j.name = k.name => j = k

JobsCounted ==
    \A j \in jobs : j.uid <= created /\ j.name = JobName[j.goal]

PodsHaveJobs ==
    \A p \in pods : \E j \in jobs :
        /\ j.launched
        /\ p = [name |-> j.name, uid |-> j.uid, goal |-> j.goal]

(* A call that has not ended has an attempt left. *)
TriesLeft ==
    \A c \in Calls :
        calls[c].at \in {"read", "delete", "create"} => calls[c].tries < Tries

JobsInv == TypeOK /\ TriesLeft /\ JobsApart /\ JobsCounted /\ PodsHaveJobs

LEMMA DeletingType ==
    ASSUME TypeOK, NEW n \in Names
    PROVE  /\ Deleting(n) \subseteq Job
           /\ \A k \in Deleting(n) : \E j \in jobs :
                /\ k.name = j.name /\ k.uid = j.uid /\ k.goal = j.goal
                /\ k = IF j.name = n THEN [j EXCEPT !.deleting = TRUE] ELSE j
           /\ \A j \in jobs : \E k \in Deleting(n) :
                /\ k.name = j.name /\ k.uid = j.uid /\ k.goal = j.goal
                /\ k.launched = j.launched
<1> DEFINE mark(j) == IF j.name = n THEN [j EXCEPT !.deleting = TRUE] ELSE j
<1>1. ASSUME NEW j \in jobs
      PROVE  /\ mark(j) \in Job
             /\ mark(j).name = j.name /\ mark(j).uid = j.uid
             /\ mark(j).goal = j.goal /\ mark(j).launched = j.launched
  BY DEF TypeOK, Job
<1>2. Deleting(n) = {mark(j) : j \in jobs}
  BY DEF Deleting
<1> HIDE DEF mark
<1>3. Deleting(n) \subseteq Job
  BY <1>1, <1>2
<1>4. \A k \in Deleting(n) : \E j \in jobs :
        k.name = j.name /\ k.uid = j.uid /\ k.goal = j.goal /\ k = mark(j)
  BY <1>1, <1>2
<1>5. \A j \in jobs : \E k \in Deleting(n) :
        /\ k.name = j.name /\ k.uid = j.uid /\ k.goal = j.goal
        /\ k.launched = j.launched
  BY <1>1, <1>2
<1> QED
  BY <1>3, <1>4, <1>5 DEF mark

(* Marking jobs as being deleted disturbs nothing else. *)
LEMMA DeletingStep ==
    ASSUME JobsInv, NEW n \in Names, jobs' = Deleting(n),
           pods' \subseteq pods, created' = created
    PROVE  JobsApart' /\ JobsCounted' /\ PodsHaveJobs'
<1>0. TypeOK
  BY DEF JobsInv
<1>1. JobsApart'
  <2> SUFFICES ASSUME NEW k \in jobs', NEW l \in jobs',
                      k.uid = l.uid \/ k.name = l.name
               PROVE  k = l
    BY DEF JobsApart
  <2>1. PICK j \in jobs : /\ k.name = j.name /\ k.uid = j.uid
                          /\ k = IF j.name = n THEN [j EXCEPT !.deleting = TRUE] ELSE j
    BY <1>0, DeletingType
  <2>2. PICK i \in jobs : /\ l.name = i.name /\ l.uid = i.uid
                          /\ l = IF i.name = n THEN [i EXCEPT !.deleting = TRUE] ELSE i
    BY <1>0, DeletingType
  <2>3. i = j
    BY <2>1, <2>2 DEF JobsInv, JobsApart
  <2> QED
    BY <2>1, <2>2, <2>3
<1>2. JobsCounted'
  BY <1>0, DeletingType DEF JobsInv, JobsCounted
<1>3. PodsHaveJobs'
  <2> SUFFICES ASSUME NEW p \in pods
               PROVE  \E k \in jobs' :
                        /\ k.launched
                        /\ p = [name |-> k.name, uid |-> k.uid, goal |-> k.goal]
    BY DEF PodsHaveJobs
  <2>1. PICK j \in jobs :
          j.launched /\ p = [name |-> j.name, uid |-> j.uid, goal |-> j.goal]
    BY DEF JobsInv, PodsHaveJobs
  <2>2. PICK k \in Deleting(n) :
          /\ k.name = j.name /\ k.uid = j.uid /\ k.goal = j.goal
          /\ k.launched = j.launched
    BY <1>0, DeletingType
  <2> QED
    BY <2>1, <2>2
<1> QED
  BY <1>1, <1>2, <1>3

(* A request of a call, and what it leaves of its attempts. *)
LEMMA CallStep ==
    ASSUME TypeOK, TriesLeft, NEW c \in Calls, Schedule(c)
    PROVE  calls' \in [Calls -> Call] /\ TriesLeft'
<1> USE JobsAssumption
<1>0. calls[c] \in Call
  BY DEF TypeOK
<1>1. ASSUME NEW place \in {"delete", "create", "created", "failed"},
             calls[c].at \in {"read", "delete", "create"}, Goto(c, place)
      PROVE  calls' \in [Calls -> Call] /\ TriesLeft'
  <2>1. [calls[c] EXCEPT !.at = place] \in Call
    BY <1>0 DEF Call
  <2>2. calls' = [calls EXCEPT ![c] = [calls[c] EXCEPT !.at = place]]
    BY <1>1 DEF Goto
  <2>3. calls'[c].tries = calls[c].tries /\ calls[c].tries < Tries
    BY <1>0, <1>1, <2>2 DEF TypeOK, TriesLeft, Call
  <2> QED
    BY <2>1, <2>2, <2>3 DEF TypeOK, TriesLeft
<1>2. ASSUME calls[c].at = "create", TryAgain(c)
      PROVE  calls' \in [Calls -> Call] /\ TriesLeft'
  <2>1. calls[c].tries \in 0..Tries /\ calls[c].tries < Tries
    BY <1>0, <1>2 DEF TriesLeft, Call
  <2> DEFINE next == [at |-> IF calls[c].tries + 1 = Tries THEN "failed" ELSE "create",
                      tries |-> calls[c].tries + 1]
  <2>2. next \in Call
    BY <2>1 DEF Call
  <2>3. calls' = [calls EXCEPT ![c] = next]
    BY <1>2 DEF TryAgain
  <2>4. next.at = "create" => next.tries < Tries
    BY <2>1
  <2>5. next.at \in {"failed", "create"}
    OBVIOUS
  <2> HIDE DEF next
  <2> QED
    BY <2>2, <2>3, <2>4, <2>5 DEF TypeOK, TriesLeft
<1>3. CASE ReadJob(c)
  BY <1>1, <1>3 DEF ReadJob
<1>4. CASE DeleteJob(c)
  BY <1>1, <1>4 DEF DeleteJob
<1>5. CASE FailToDelete(c)
  BY <1>1, <1>5 DEF FailToDelete
<1>6. CASE CreateJob(c)
  BY <1>1, <1>2, <1>6 DEF CreateJob
<1>7. CASE FailToCreate(c)
  BY <1>2, <1>7 DEF FailToCreate
<1> QED
  BY <1>3, <1>4, <1>5, <1>6, <1>7 DEF Schedule

LEMMA NewJobType ==
    ASSUME TypeOK, NEW c \in Calls, created < MaxJobs
    PROVE  NewJob(c) \in Job /\ created + 1 \in 0..MaxJobs
  BY JobsAssumption DEF TypeOK, NewJob, NameOf, Job

LEMMA TypeStep == TypeOK /\ TriesLeft /\ [Next]_vars => TypeOK' /\ TriesLeft'
<1> SUFFICES ASSUME TypeOK, TriesLeft, [Next]_vars PROVE TypeOK' /\ TriesLeft'
  OBVIOUS
<1> USE JobsAssumption
<1> DEFINE Goal == TypeOK' /\ TriesLeft'
<1>1. ASSUME NEW j \in jobs, LaunchPod(j) PROVE Goal
  <2>1. [j EXCEPT !.launched = TRUE] \in Job
    BY DEF TypeOK, Job
  <2>2. [name |-> j.name, uid |-> j.uid, goal |-> j.goal] \in Pod
    BY DEF TypeOK, Job, Pod
  <2> QED
    BY <1>1, <2>1, <2>2 DEF LaunchPod, TypeOK, TriesLeft
<1>2. ASSUME NEW j \in jobs, RemoveJob(j) PROVE Goal
  BY <1>2 DEF RemoveJob, TypeOK, TriesLeft
<1>3. ASSUME NEW j \in jobs, AgeJob(j) PROVE Goal
  <2>1. [j EXCEPT !.old = TRUE] \in Job
    BY DEF TypeOK, Job
  <2> QED
    BY <1>3, <2>1 DEF AgeJob, TypeOK, TriesLeft
<1>4. ASSUME NEW p \in pods, EndPod(p) PROVE Goal
  BY <1>4 DEF EndPod, TypeOK, TriesLeft
<1>5. ASSUME NEW c \in Calls, Schedule(c) PROVE Goal
  <2>0. calls' \in [Calls -> Call] /\ TriesLeft'
    BY <1>5, CallStep
  <2>1. NameOf(c) \in Names
    BY DEF NameOf
  <2>2. CASE ReadJob(c)
    BY <2>0, <2>2 DEF ReadJob, TypeOK
  <2>3. CASE DeleteJob(c)
    BY <2>0, <2>1, <2>3, DeletingType DEF DeleteJob, TypeOK
  <2>4. CASE FailToDelete(c)
    BY <2>0, <2>4 DEF FailToDelete, TypeOK
  <2>5. CASE CreateJob(c)
    BY <2>0, <2>5, NewJobType DEF CreateJob, TypeOK
  <2>6. CASE FailToCreate(c)
    BY <2>0, <2>6 DEF FailToCreate, TypeOK
  <2> QED
    BY <1>5, <2>2, <2>3, <2>4, <2>5, <2>6 DEF Schedule
<1>6. CASE CleanUp
  <2>1. CASE ListOldJobs
    <3>1. OldNames \subseteq Names
      BY DEF OldNames, TypeOK, Job
    <3> QED
      BY <2>1, <3>1 DEF ListOldJobs, TypeOK, TriesLeft, Cleanup
  <2>2. ASSUME NEW n \in Names, CleanupDeleteJob(n) PROVE Goal
    BY <2>2, DeletingType DEF CleanupDeleteJob, TypeOK, TriesLeft, Cleanup
  <2>3. ASSUME NEW n \in Names, CleanupDeletePods(n) PROVE Goal
    BY <2>3 DEF CleanupDeletePods, TypeOK, TriesLeft, Cleanup
  <2> QED
    BY <1>6, <2>1, <2>2, <2>3 DEF CleanUp
<1>7. CASE UNCHANGED vars
  BY <1>7 DEF vars, TypeOK, TriesLeft
<1> QED
  BY <1>1, <1>2, <1>3, <1>4, <1>5, <1>6, <1>7 DEF Next

LEMMA TypeInit == Init => TypeOK /\ TriesLeft
  BY JobsAssumption DEF Init, TypeOK, TriesLeft, Call, Cleanup

(* The variables hold what the scheduler and the cluster keep, and a call  *)
(* counts its attempts (KubernetesGoalScheduler).                          *)
THEOREM TypeCorrect == Spec => []TypeOK
  BY TypeInit, TypeStep, PTL DEF Spec

---------------------------------------------------------------------------
LEMMA JobsStep == JobsInv /\ [Next]_vars => JobsInv'
<1> SUFFICES ASSUME JobsInv, [Next]_vars
             PROVE  JobsApart' /\ JobsCounted' /\ PodsHaveJobs'
  BY TypeStep DEF JobsInv
<1> USE JobsAssumption
<1> DEFINE Goal == JobsApart' /\ JobsCounted' /\ PodsHaveJobs'
<1>0. TypeOK /\ JobsApart /\ JobsCounted /\ PodsHaveJobs
  BY DEF JobsInv
<1>1. ASSUME NEW j \in jobs, LaunchPod(j) PROVE Goal
  <2> DEFINE k == [j EXCEPT !.launched = TRUE]
  <2>1. /\ k.name = j.name /\ k.uid = j.uid /\ k.goal = j.goal
        /\ k.launched /\ jobs' = (jobs \ {j}) \cup {k}
    BY <1>0, <1>1 DEF LaunchPod, TypeOK, Job
  <2> HIDE DEF k
  <2>2. JobsApart'
    BY <1>0, <2>1 DEF JobsApart
  <2>3. JobsCounted'
    BY <1>0, <1>1, <2>1 DEF JobsCounted, LaunchPod
  <2>4. \A p \in pods : p # [name |-> j.name, uid |-> j.uid, goal |-> j.goal]
                           => \E i \in jobs \ {j} :
                                /\ i.launched
                                /\ p = [name |-> i.name, uid |-> i.uid, goal |-> i.goal]
    BY <1>0 DEF PodsHaveJobs
  <2>5. PodsHaveJobs'
    BY <1>1, <2>1, <2>4 DEF PodsHaveJobs, LaunchPod
  <2> QED
    BY <2>2, <2>3, <2>5
<1>2. ASSUME NEW j \in jobs, RemoveJob(j) PROVE Goal
  <2>1. \A p \in pods : \E i \in jobs \ {j} :
          i.launched /\ p = [name |-> i.name, uid |-> i.uid, goal |-> i.goal]
    BY <1>0, <1>2 DEF PodsHaveJobs, RemoveJob, RunsIn
  <2> QED
    BY <1>0, <1>2, <2>1 DEF RemoveJob, JobsApart, JobsCounted, PodsHaveJobs
<1>3. ASSUME NEW j \in jobs, AgeJob(j) PROVE Goal
  <2> DEFINE k == [j EXCEPT !.old = TRUE]
  <2>1. /\ k.name = j.name /\ k.uid = j.uid /\ k.goal = j.goal
        /\ k.launched = j.launched /\ jobs' = (jobs \ {j}) \cup {k}
    BY <1>0, <1>3 DEF AgeJob, TypeOK, Job
  <2> HIDE DEF k
  <2>2. JobsApart'
    BY <1>0, <2>1 DEF JobsApart
  <2>3. JobsCounted'
    BY <1>0, <1>3, <2>1 DEF JobsCounted, AgeJob
  <2>4. PodsHaveJobs'
    <3> SUFFICES ASSUME NEW p \in pods
                 PROVE  \E i \in jobs' :
                          /\ i.launched
                          /\ p = [name |-> i.name, uid |-> i.uid, goal |-> i.goal]
      BY <1>3 DEF PodsHaveJobs, AgeJob
    <3>1. PICK i \in jobs :
            i.launched /\ p = [name |-> i.name, uid |-> i.uid, goal |-> i.goal]
      BY <1>0 DEF PodsHaveJobs
    <3>2. CASE i = j
      BY <2>1, <3>1, <3>2
    <3>3. CASE i # j
      BY <2>1, <3>1, <3>3
    <3> QED
      BY <3>2, <3>3
  <2> QED
    BY <2>2, <2>3, <2>4
<1>4. ASSUME NEW p \in pods, EndPod(p) PROVE Goal
  BY <1>0, <1>4 DEF EndPod, JobsApart, JobsCounted, PodsHaveJobs
<1>5. ASSUME NEW c \in Calls, Schedule(c) PROVE Goal
  <2>1. CASE DeleteJob(c)
    <3>1. NameOf(c) \in Names
      BY DEF NameOf
    <3> QED
      BY <2>1, <3>1, DeletingStep DEF DeleteJob
  <2>2. CASE CreateJob(c)
    <3>1. /\ jobs' = jobs \cup {NewJob(c)} /\ created' = created + 1
          /\ NewJob(c).uid = created + 1 /\ NewJob(c).name = NameOf(c)
          /\ NewJob(c).goal = GoalOf[c] /\ pods' = pods
      BY <2>2 DEF CreateJob, NewJob
    <3>2. \A j \in jobs : j.name # NameOf(c) /\ j.uid <= created /\ j.uid \in Nat
      BY <1>0, <2>2 DEF CreateJob, JobsNamed, JobsCounted, TypeOK, Job
    <3>3. created \in Nat
      BY <1>0 DEF TypeOK
    <3>4. \A j \in jobs : j.uid # NewJob(c).uid /\ j.name # NewJob(c).name
      BY <3>1, <3>2, <3>3
    <3>5. JobsApart'
      BY <1>0, <3>1, <3>4 DEF JobsApart
    <3>6. JobsCounted'
      BY <1>0, <3>1, <3>2, <3>3 DEF JobsCounted, NameOf
    <3>7. PodsHaveJobs'
      BY <1>0, <3>1 DEF PodsHaveJobs
    <3> QED
      BY <3>5, <3>6, <3>7
  <2>3. CASE ReadJob(c) \/ FailToDelete(c) \/ FailToCreate(c)
    BY <1>0, <2>3
    DEF ReadJob, FailToDelete, FailToCreate, JobsApart, JobsCounted, PodsHaveJobs
  <2> QED
    BY <1>5, <2>1, <2>2, <2>3 DEF Schedule
<1>6. CASE CleanUp
  <2>1. CASE ListOldJobs
    BY <1>0, <2>1 DEF ListOldJobs, JobsApart, JobsCounted, PodsHaveJobs
  <2>2. ASSUME NEW n \in Names, CleanupDeleteJob(n) PROVE Goal
    <3>1. CASE jobs' = Deleting(n)
      BY <2>2, <3>1, DeletingStep DEF CleanupDeleteJob
    <3>2. CASE jobs' = jobs
      BY <1>0, <2>2, <3>2
      DEF CleanupDeleteJob, JobsApart, JobsCounted, PodsHaveJobs
    <3> QED
      BY <2>2, <3>1, <3>2 DEF CleanupDeleteJob
  <2>3. ASSUME NEW n \in Names, CleanupDeletePods(n) PROVE Goal
    BY <1>0, <2>3 DEF CleanupDeletePods, JobsApart, JobsCounted, PodsHaveJobs
  <2> QED
    BY <1>6, <2>1, <2>2, <2>3 DEF CleanUp
<1>7. CASE UNCHANGED vars
  BY <1>0, <1>7 DEF vars, JobsApart, JobsCounted, PodsHaveJobs
<1> QED
  BY <1>1, <1>2, <1>3, <1>4, <1>5, <1>6, <1>7 DEF Next

LEMMA JobsInit == Init => JobsInv
  BY TypeInit DEF Init, JobsInv, JobsApart, JobsCounted, PodsHaveJobs

(* No goal is executed by two pods at the same time, whatever calls to     *)
(* schedule it, retries and clean-up race, and even when goals share a     *)
(* job name (KubernetesGoalScheduler.schedule, cleanupJobs).               *)
THEOREM OneExecutionHolds == Spec => []OneExecution
<1>1. JobsInv => OneExecution
  <2> SUFFICES ASSUME JobsInv, NEW p \in pods, NEW q \in pods, p.goal = q.goal
               PROVE  p = q
    BY DEF OneExecution
  <2>1. PICK j \in jobs : p = [name |-> j.name, uid |-> j.uid, goal |-> j.goal]
    BY DEF JobsInv, PodsHaveJobs
  <2>2. PICK k \in jobs : q = [name |-> k.name, uid |-> k.uid, goal |-> k.goal]
    BY DEF JobsInv, PodsHaveJobs
  <2>3. j.goal = k.goal
    BY <2>1, <2>2
  <2>4. j.name = k.name
    BY <2>3 DEF JobsInv, JobsCounted
  <2>5. j = k
    BY <2>4 DEF JobsInv, JobsApart
  <2> QED
    BY <2>1, <2>2, <2>5
<1> QED
  BY <1>1, JobsInit, JobsStep, PTL DEF Spec

=============================================================================
