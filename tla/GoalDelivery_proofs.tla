-------------------------- MODULE GoalDelivery_proofs --------------------------
(***************************************************************************)
(* Theorems about GoalDelivery, for every set of goals, dependency graph   *)
(* and setting of the other constants.                                     *)
(***************************************************************************)
EXTENDS GoalDelivery, TLAPS

---------------------------------------------------------------------------
(* Types *)

(* Updating the state of a goal gives a goal. *)
LEMMA UpdatedType ==
    ASSUME NEW by \in Goals, NEW g \in Goals,
           NEW before \in GoalRec, NEW s \in State
    PROVE  Updated(by, g, before, s) \in Write
BY DEF Updated, Write, GoalRec

(* A notification is an event of the goal that was stored, to a subscriber *)
(* of its state.                                                           *)
LEMMA NotificationsType ==
    ASSUME NEW g \in Goals, NEW rec \in GoalRec,
           NEW e \in Notifications(g, rec)
    PROVE  /\ e \in Event
           /\ e.goal = g /\ e.rec = rec /\ e.to \in Subscribers(rec.state)
<1>1. PICK h \in Subscribers(rec.state) : e = [to |-> h, goal |-> g, rec |-> rec]
  BY DEF Notifications
<1>2. h \in Handlers
  BY DEF Subscribers, Handlers
<1> QED
  BY <1>1, <1>2 DEF Event

(* Notifying the jobs changes nothing of an execution but "notified". *)
LEMMA NotifyJobsType ==
    ASSUME NEW g, NEW rec, NEW xs \in SUBSET Execution,
           NEW y \in NotifyJobs(g, rec, xs)
    PROVE  /\ y \in Execution
           /\ \E x \in xs : /\ y.goal = x.goal /\ y.rec = x.rec
                            /\ y.stage = x.stage
<1>1. PICK x \in xs : \/ y = x
                      \/ y = [x EXCEPT !.notified = TRUE]
  BY DEF NotifyJobs
<1> QED
  BY <1>1 DEF Execution

LEMMA StoreGoalType ==
    ASSUME TypeOK, NEW g \in Goals, NEW rec \in GoalRec,
           NEW xs \in SUBSET Execution, StoreGoal(g, rec, xs)
    PROVE  /\ goals' \in [Goals -> GoalRec]
           /\ events' \subseteq Event
           /\ executions' \subseteq Execution
           /\ opened' \subseteq Goals /\ succeeded' \subseteq Goals
           /\ failed' \subseteq Goals
<1>1. goals' \in [Goals -> GoalRec]
  BY DEF TypeOK, StoreGoal
<1>2. events' \subseteq Event
  BY NotificationsType DEF TypeOK, StoreGoal
<1>3. executions' \subseteq Execution
  BY NotifyJobsType DEF StoreGoal
<1>4. opened' \subseteq Goals /\ succeeded' \subseteq Goals /\ failed' \subseteq Goals
  BY DEF TypeOK, StoreGoal, Note
<1> QED
  BY <1>1, <1>2, <1>3, <1>4

(* A launch adds one execution, of the goal as it was read. *)
LEMMA LaunchType ==
    ASSUME NEW g \in Goals, NEW xs \in SUBSET Execution,
           NEW isIsolated \in BOOLEAN, NEW stage \in {"created", "ready"},
           NEW before \in GoalRec, Launch(g, xs, isIsolated, stage, before)
    PROVE  /\ executions' \subseteq Execution
           /\ \A y \in executions' : y \in xs \/ y.goal = g
<1> DEFINE new(r) == [goal |-> g, run |-> r, isolated |-> isIsolated,
                     stage |-> stage, rec |-> before, notified |-> FALSE]
<1>1. PICK r \in FreeRuns(g, xs) : executions' = xs \cup {new(r)}
  BY DEF Launch
<1>2. r \in 1..MaxRuns
  BY DEF FreeRuns
<1>3. new(r) \in Execution
  <2>1. stage \in {"created", "ready", "running"} /\ FALSE \in BOOLEAN
    OBVIOUS
  <2> QED
    BY <1>2, <2>1 DEF Execution
<1>4. new(r).goal = g
  OBVIOUS
<1> HIDE DEF new
<1> QED
  BY <1>1, <1>3, <1>4

(* TypeOK is preserved by every step. *)
LEMMA TypeStep == TypeOK /\ [Next]_vars => TypeOK'
<1> SUFFICES ASSUME TypeOK, [Next]_vars PROVE TypeOK'
  OBVIOUS
<1> USE DEF stored, votes
<1>1. ASSUME NEW w \in writes, Store(w) PROVE TypeOK'
  <2>1. w.goal \in Goals /\ w.rec \in GoalRec
    BY DEF TypeOK, Write
  <2>2. StoreGoal(w.goal, w.rec, executions)
    BY <1>1 DEF Store
  <2> QED
    BY <1>1, <2>1, <2>2, StoreGoalType DEF TypeOK, Store
<1>2. ASSUME NEW e \in events, HandleEvent(e) PROVE TypeOK'
  <2>1. e.goal \in Goals /\ e.rec \in GoalRec /\ e.rec.state \in State
    BY DEF TypeOK, Event, GoalRec
  <2>2. CASE IgnoreRequest(e)
    BY <2>2 DEF TypeOK, IgnoreRequest, Take
  <2>3. CASE FailUnfulfillable(e)
    BY <2>1, <2>3, UpdatedType DEF TypeOK, FailUnfulfillable, Fulfill, Take, State
  <2>4. CASE ScheduleGoal(e)
    <3>1. WithoutJob(e.goal) \in SUBSET Execution
      BY DEF TypeOK, WithoutJob
    <3>2. executions' \subseteq Execution
      BY <2>1, <2>4, <3>1, LaunchType DEF ScheduleGoal
    <3> QED
      BY <2>1, <2>4, <3>2, UpdatedType DEF TypeOK, ScheduleGoal, Fulfill, Take, State
  <2>5. CASE FailToSchedule(e)
    <3>1. WithoutJob(e.goal) \in SUBSET Execution
      BY DEF TypeOK, WithoutJob
    <3>2. executions' \subseteq Execution
      BY <2>1, <2>5, <3>1, LaunchType DEF TypeOK, FailToSchedule
    <3> QED
      BY <2>1, <2>5, <3>2, UpdatedType DEF TypeOK, FailToSchedule, Fulfill, Take, State
  <2>6. CASE StartInProcess(e)
    <3>1. executions' \subseteq Execution
      BY <2>1, <2>6, LaunchType DEF TypeOK, StartInProcess
    <3> QED
      BY <2>6, <3>1 DEF TypeOK, StartInProcess, Fulfill, Take
  <2>7. CASE RequestDownstreamGoalsOnGoalSuccess(e)
    <3>1. \A g \in Goals : Updated(e.goal, g, goals[g], DownstreamState(g)) \in Write
      BY <2>1, UpdatedType DEF TypeOK, DownstreamState, State
    <3>2. writes' \subseteq Write
      BY <2>7, <3>1 DEF TypeOK, RequestDownstreamGoalsOnGoalSuccess, GoalsToRequest
    <3> QED
      BY <2>7, <3>2 DEF TypeOK, RequestDownstreamGoalsOnGoalSuccess, Take
  <2>8. CASE SkipDownstreamGoalsOnGoalFailure(e)
    <3>1. \A g \in Goals : Updated(g, g, goals[g], FailedGoalState(e.rec.state)) \in Write
      BY UpdatedType DEF TypeOK, FailedGoalState, State
    <3>2. writes' \subseteq Write
      BY <2>8, <3>1 DEF TypeOK, SkipDownstreamGoalsOnGoalFailure, GoalsToSkip
    <3> QED
      BY <2>8, <3>2 DEF TypeOK, SkipDownstreamGoalsOnGoalFailure, Take
  <2>9. ASSUME NEW d \in Decisions, VoteOnGoalApprovalRequest(e, d) PROVE TypeOK'
    <3>1. VotedState(e.rec.state, d) \in State
      BY <2>1 DEF VotedState, State
    <3>2. writes' \subseteq Write
      BY <2>1, <2>9, <3>1, UpdatedType DEF TypeOK, VoteOnGoalApprovalRequest
    <3>3. started' \subseteq Goals /\ accepted' \subseteq Goals
      BY <2>1, <2>9 DEF TypeOK, VoteOnGoalApprovalRequest, Note
    <3> QED
      BY <2>9, <3>2, <3>3 DEF TypeOK, VoteOnGoalApprovalRequest, Take
  <2> QED
    BY <1>2, <2>2, <2>3, <2>4, <2>5, <2>6, <2>7, <2>8, <2>9 DEF HandleEvent
<1>3. ASSUME NEW x \in executions, Run(x) PROVE TypeOK'
  <2>1. x \in Execution /\ x.goal \in Goals /\ x.rec \in GoalRec
    BY DEF TypeOK, Execution
  <2>2. CASE StartJob(x)
    <3>1. [x EXCEPT !.stage = "ready", !.rec = goals[x.goal]] \in Execution
      BY <2>1 DEF TypeOK, Execution
    <3>2. executions' \subseteq Execution
      BY <2>2, <3>1 DEF TypeOK, StartJob
    <3> QED
      BY <2>2, <3>2 DEF TypeOK, StartJob
  <2>3. CASE MarkInProcess(x)
    <3> DEFINE rec == [x.rec EXCEPT !.state = "in_process"]
               xs == (executions \ {x}) \cup
                       {[x EXCEPT !.stage = "running", !.rec = rec]}
    <3>1. rec \in GoalRec
      BY <2>1 DEF GoalRec, State
    <3>2. [x EXCEPT !.stage = "running", !.rec = rec] \in Execution
      BY <2>1, <3>1 DEF Execution
    <3>3. xs \in SUBSET Execution
      BY <3>2 DEF TypeOK
    <3>4. StoreGoal(x.goal, rec, xs)
      BY <2>3 DEF MarkInProcess
    <3> HIDE DEF rec, xs
    <3> QED
      BY <2>1, <2>3, <3>1, <3>3, <3>4, StoreGoalType DEF TypeOK, MarkInProcess
  <2>4. ASSUME NEW r \in Results, FinishGoal(x, r) PROVE TypeOK'
    <3> DEFINE rec == [x.rec EXCEPT !.state = ResultState(x.rec, r)]
    <3>1. rec \in GoalRec
      BY <2>1, GoalsAssumption DEF GoalRec, State, ResultState
    <3>2. executions \ {x} \in SUBSET Execution
      BY DEF TypeOK
    <3>3. StoreGoal(x.goal, rec, executions \ {x})
      BY <2>4 DEF FinishGoal
    <3> HIDE DEF rec
    <3> QED
      BY <2>1, <2>4, <3>1, <3>2, <3>3, StoreGoalType DEF TypeOK, FinishGoal
  <2>5. CASE CancelGoalOnCanceled(x)
    BY <2>5 DEF TypeOK, CancelGoalOnCanceled
  <2> QED
    BY <1>3, <2>2, <2>3, <2>4, <2>5 DEF Run
<1>4. ASSUME NEW x \in executions, Crash(x) PROVE TypeOK'
  BY <1>4 DEF TypeOK, Crash
<1>5. ASSUME NEW g \in Goals, NEW r \in Results, SideEffectEnds(g, r) PROVE TypeOK'
  <2> DEFINE rec == [goals[g] EXCEPT !.state = r]
  <2>1. rec \in GoalRec
    BY GoalsAssumption DEF TypeOK, GoalRec, State
  <2>2. executions \in SUBSET Execution
    BY DEF TypeOK
  <2>3. StoreGoal(g, rec, executions)
    BY <1>5 DEF SideEffectEnds
  <2> HIDE DEF rec
  <2> QED
    BY <1>5, <2>1, <2>2, <2>3, StoreGoalType DEF TypeOK, SideEffectEnds
<1>6. ASSUME NEW g \in Goals, Click(g) PROVE TypeOK'
  <2>1. commands' \subseteq Command
    BY <1>6 DEF TypeOK, Click, Buttons, Command
  <2> QED
    BY <1>6, <2>1 DEF TypeOK, Click
<1>7. ASSUME NEW c \in commands, UpdateGoalState(c) PROVE TypeOK'
  <2>1. c.goal \in Goals /\ c.state \in State
    BY DEF TypeOK, Command, State
  <2> DEFINE rec == [goals[c.goal] EXCEPT
                       !.state = c.state,
                       !.preApprovalRequired =
                           IF c.state = "pre_approved" THEN FALSE ELSE @,
                       !.approvalRequired =
                           IF c.state = "approved" THEN FALSE ELSE @]
  <2>2. rec \in GoalRec
    BY <2>1 DEF TypeOK, GoalRec
  <2>3. [by |-> c.goal, goal |-> c.goal, rec |-> rec] \in Write
    BY <2>1, <2>2 DEF Write
  <2>4. writes' = writes \cup {[by |-> c.goal, goal |-> c.goal, rec |-> rec]}
    BY <1>7 DEF UpdateGoalState
  <2>5. writes' \subseteq Write
    BY <2>3, <2>4 DEF TypeOK
  <2> QED
    BY <1>7, <2>5 DEF TypeOK, UpdateGoalState
<1>8. ASSUME CancelGoalSet PROVE TypeOK'
  <2>1. \A g \in Goals : Updated(g, g, goals[g], "canceled") \in Write
    BY UpdatedType DEF TypeOK, State
  <2>2. writes' \subseteq Write
    BY <1>8, <2>1 DEF TypeOK, CancelGoalSet, CancelableNow
  <2> QED
    BY <1>8, <2>2 DEF TypeOK, CancelGoalSet
<1>9. ASSUME NEW g \in Goals, TimeoutInProcessGoal(g) PROVE TypeOK'
  <2>1. Updated(g, g, goals[g], TimeoutState) \in Write
    BY UpdatedType, GoalsAssumption DEF TypeOK, State
  <2> QED
    BY <1>9, <2>1 DEF TypeOK, TimeoutInProcessGoal
<1>10. CASE UNCHANGED vars
  BY <1>10 DEF TypeOK, vars
<1> QED
  BY <1>1, <1>2, <1>3, <1>4, <1>5, <1>6, <1>7, <1>8, <1>9, <1>10 DEF Next

LEMMA TypeInit == Init => TypeOK
<1> SUFFICES ASSUME Init PROVE TypeOK
  OBVIOUS
<1>1. goals \in [Goals -> GoalRec]
  BY DEF Init, PlannedState, GoalRec, State
<1>2. events \subseteq Event
  <2> SUFFICES ASSUME NEW e \in events PROVE e \in Event
    OBVIOUS
  <2>1. PICK g \in Goals : e \in Notifications(g, goals[g])
    BY DEF Init
  <2> QED
    BY <1>1, <2>1, NotificationsType
<1> QED
  BY <1>1, <1>2 DEF Init, TypeOK

(* The type invariant: nothing the handlers store is malformed. *)
THEOREM TypeCorrect == Spec => []TypeOK
BY TypeInit, TypeStep, PTL DEF Spec

---------------------------------------------------------------------------
(* Dependency order.  PreconditionsFirst is not inductive: a store can be  *)
(* arbitrarily late, so whatever waits to be stored, delivered, clicked or *)
(* executed must already carry the reason for it.                          *)

OpenedGoals ==
    /\ succeeded \subseteq opened
    /\ \A g \in opened : Pre[g] \subseteq succeeded
    /\ \A g \in Goals : /\ goals[g].state \in Released => g \in opened
                        /\ goals[g].state = "success" => g \in succeeded

OpenedEvents ==
    \A e \in events : /\ e.to \in Subscribers(e.rec.state)
                      /\ e.rec.state \in Released => e.goal \in opened

OpenedWrites ==
    \A w \in writes :
        /\ w.rec.state \in Released => Pre[w.goal] \subseteq succeeded
        /\ w.rec.state = "success" => w.goal \in opened

OrderInv ==
    /\ TypeOK
    /\ OpenedGoals
    /\ OpenedEvents
    /\ OpenedWrites
    /\ \A c \in commands : c.goal \in opened
    /\ \A x \in executions : x.goal \in opened

(* What a store does to opened and succeeded is a step of the abstract     *)
(* specification, and keeps OrderInv, if the goal may be opened and is     *)
(* open when it succeeds.                                                  *)
LEMMA StoreOrder ==
    ASSUME OrderInv, NEW g \in Goals, NEW rec \in GoalRec,
           NEW xs \in SUBSET Execution, StoreGoal(g, rec, xs),
           rec.state \in Released => Pre[g] \subseteq succeeded,
           rec.state = "success" => g \in opened,
           \A x \in xs : x.goal \in opened \/ (x.goal = g /\ rec.state \in Released)
    PROVE  /\ opened \subseteq opened' /\ succeeded \subseteq succeeded'
           /\ OpenedGoals' /\ OpenedEvents'
           /\ \A x \in executions' : x.goal \in opened'
           /\ [Order!Next]_Order!vars
<1> USE DEF OrderInv, OpenedGoals
<1>1. opened \subseteq opened' /\ succeeded \subseteq succeeded'
  BY DEF StoreGoal, Note
<1>2. rec.state \in Released => g \in opened'
  BY DEF StoreGoal, Note
<1>3. OpenedGoals'
  <2>1. succeeded' \subseteq opened'
    BY <1>1, <1>2 DEF StoreGoal, Note
  <2>2. \A h \in opened' : Pre[h] \subseteq succeeded'
    BY <1>1 DEF StoreGoal, Note
  <2>3. \A h \in Goals : goals'[h].state \in Released => h \in opened'
    BY <1>1, <1>2 DEF StoreGoal, TypeOK
  <2>4. \A h \in Goals : goals'[h].state = "success" => h \in succeeded'
    BY DEF StoreGoal, Note, TypeOK
  <2> QED
    BY <2>1, <2>2, <2>3, <2>4
<1>4. OpenedEvents'
  <2> SUFFICES ASSUME NEW e \in events'
               PROVE  /\ e.to \in Subscribers(e.rec.state)
                      /\ e.rec.state \in Released => e.goal \in opened'
    BY DEF OpenedEvents
  <2>1. CASE e \in events
    BY <2>1, <1>1 DEF OpenedEvents
  <2>2. CASE e \in Notifications(g, rec)
    BY <2>2, <1>2, NotificationsType
  <2> QED
    BY <2>1, <2>2 DEF StoreGoal
<1>5. \A x \in executions' : x.goal \in opened'
  BY <1>1, <1>2, NotifyJobsType DEF StoreGoal
<1>6. [Order!Next]_Order!vars
  <2>1. CASE rec.state \in Released /\ g \notin opened
    <3>1. rec.state # "success"
      BY <2>1
    <3>2. opened' = opened \cup {g} /\ succeeded' = succeeded
      BY <2>1, <3>1 DEF StoreGoal, Note
    <3>3. Order!Open(g)
      BY <2>1, <3>2 DEF Order!Open
    <3> QED
      BY <3>3 DEF Order!Next
  <2>2. CASE rec.state \notin Released \/ g \in opened
    <3>1. opened' = opened
      BY <2>2 DEF StoreGoal, Note
    <3>2. CASE rec.state = "success"
      <4>1. Order!Succeed(g)
        BY <3>1, <3>2 DEF StoreGoal, Note, Order!Succeed
      <4> QED
        BY <4>1 DEF Order!Next
    <3>3. CASE rec.state # "success"
      <4>1. succeeded' = succeeded
        BY <3>3 DEF StoreGoal, Note
      <4> QED
        BY <3>1, <4>1 DEF Order!vars
    <3> QED
      BY <3>2, <3>3
  <2> QED
    BY <2>1, <2>2
<1> QED
  BY <1>1, <1>3, <1>4, <1>5, <1>6

(* A step that stores nothing keeps what is open, and keeps OrderInv if    *)
(* what it leaves to be stored, clicked or executed may be.                *)
LEMMA NoStoreOrder ==
    ASSUME OrderInv, TypeOK', UNCHANGED stored, events' \subseteq events,
           \A w \in writes' \ writes :
               /\ w.rec.state \in Released => w.goal \in opened
                                              \/ Pre[w.goal] \subseteq succeeded
               /\ w.rec.state = "success" => w.goal \in opened,
           \A c \in commands' \ commands : c.goal \in opened,
           \A x \in executions' : x.goal \in opened
    PROVE  OrderInv' /\ [Order!Next]_Order!vars
<1>1. opened' = opened /\ succeeded' = succeeded /\ goals' = goals
  BY DEF stored
<1>2. OpenedGoals' /\ OpenedEvents'
  BY <1>1 DEF OrderInv, OpenedGoals, OpenedEvents
<1>3. OpenedWrites'
  BY <1>1 DEF OrderInv, OpenedGoals, OpenedWrites
<1>4. (\A c \in commands' : c.goal \in opened') /\ (\A x \in executions' : x.goal \in opened')
  BY <1>1 DEF OrderInv
<1> QED
  BY <1>1, <1>2, <1>3, <1>4 DEF OrderInv, Order!vars

LEMMA OrderStep == OrderInv /\ [Next]_vars => OrderInv' /\ [Order!Next]_Order!vars
<1> SUFFICES ASSUME OrderInv, [Next]_vars
             PROVE  OrderInv' /\ [Order!Next]_Order!vars
  OBVIOUS
<1> DEFINE Goal == OrderInv' /\ [Order!Next]_Order!vars
<1>0. TypeOK /\ TypeOK'
  BY TypeStep DEF OrderInv
<1>a. \A x \in executions : x.goal \in opened
  BY DEF OrderInv
<1>b. \A g \in opened : Pre[g] \subseteq succeeded
  BY DEF OrderInv, OpenedGoals
<1>1. ASSUME NEW w \in writes, Store(w) PROVE Goal
  <2>1. w.goal \in Goals /\ w.rec \in GoalRec /\ executions \in SUBSET Execution
    BY <1>0 DEF TypeOK, Write
  <2>2. /\ w.rec.state \in Released => Pre[w.goal] \subseteq succeeded
        /\ w.rec.state = "success" => w.goal \in opened
    BY DEF OrderInv, OpenedWrites
  <2>3. StoreGoal(w.goal, w.rec, executions) /\ writes' \subseteq writes
        /\ UNCHANGED commands
    BY <1>1 DEF Store
  <2>4. /\ opened \subseteq opened' /\ succeeded \subseteq succeeded'
        /\ OpenedGoals' /\ OpenedEvents'
        /\ \A x \in executions' : x.goal \in opened'
        /\ [Order!Next]_Order!vars
    BY <2>1, <2>2, <2>3, <1>a, StoreOrder
  <2> QED
    BY <1>0, <2>3, <2>4 DEF OrderInv, OpenedWrites
<1>2. ASSUME NEW e \in events, HandleEvent(e) PROVE Goal
  <2>0. /\ e.to \in Subscribers(e.rec.state)
        /\ e.rec.state \in Released => e.goal \in opened
        /\ e.goal \in Goals /\ e.rec \in GoalRec /\ e.rec.state \in State
    BY <1>0 DEF OrderInv, OpenedEvents, TypeOK, Event, GoalRec
  <2>1. e.to = "fulfill" => e.goal \in opened
    BY <2>0 DEF Subscribers, Released, State
  <2>2. CASE IgnoreRequest(e)
    BY <1>0, <1>a, <2>2, NoStoreOrder DEF IgnoreRequest, Take
  <2>3. CASE FailUnfulfillable(e)
    <3>1. e.goal \in opened
      BY <2>1, <2>3 DEF FailUnfulfillable, Fulfill, Take
    <3> QED
      BY <1>0, <1>a, <2>0, <2>3, <3>1, NoStoreOrder
      DEF FailUnfulfillable, Fulfill, Take, Updated, GoalRec
  <2>4. CASE ScheduleGoal(e)
    <3>1. e.goal \in opened
      BY <2>1, <2>4 DEF ScheduleGoal, Fulfill, Take
    <3>2. WithoutJob(e.goal) \in SUBSET Execution
      BY <1>0 DEF TypeOK, WithoutJob
    <3>3. \A x \in executions' : x.goal \in opened
      BY <1>a, <2>0, <2>4, <3>1, <3>2, LaunchType DEF ScheduleGoal, WithoutJob
    <3> QED
      BY <1>0, <2>0, <2>4, <3>1, <3>3, NoStoreOrder
      DEF ScheduleGoal, Fulfill, Take, Updated, GoalRec
  <2>5. CASE FailToSchedule(e)
    <3>1. e.goal \in opened
      BY <2>1, <2>5 DEF FailToSchedule, Fulfill, Take
    <3>2. WithoutJob(e.goal) \in SUBSET Execution
      BY <1>0 DEF TypeOK, WithoutJob
    <3>3. \A x \in executions' : x \in executions \/ x.goal = e.goal
      BY <2>0, <2>5, <3>2, LaunchType DEF FailToSchedule, WithoutJob
    <3>4. \A x \in executions' : x.goal \in opened
      BY <1>a, <3>1, <3>3
    <3> QED
      BY <1>0, <2>0, <2>5, <3>1, <3>4, NoStoreOrder
      DEF FailToSchedule, Fulfill, Take, Updated, GoalRec
  <2>6. CASE StartInProcess(e)
    <3>1. e.goal \in opened
      BY <2>1, <2>6 DEF StartInProcess, Fulfill, Take
    <3>2. \A x \in executions' : x.goal \in opened
      BY <1>0, <1>a, <2>0, <2>6, <3>1, LaunchType DEF StartInProcess, TypeOK
    <3> QED
      BY <1>0, <2>6, <3>2, NoStoreOrder DEF StartInProcess, Fulfill, Take
  <2>7. CASE RequestDownstreamGoalsOnGoalSuccess(e)
    <3>1. ASSUME NEW w \in writes', w \notin writes
          PROVE  /\ Pre[w.goal] \subseteq succeeded
                 /\ w.rec.state # "success"
      <4>1. PICK g \in GoalsToRequest(e.goal) :
              w = Updated(e.goal, g, goals[g], DownstreamState(g))
        BY <2>7, <3>1 DEF RequestDownstreamGoalsOnGoalSuccess
      <4>2. g \in Goals /\ PreconditionsAreMet(g) /\ goals[g] \in GoalRec
        BY <1>0, <4>1 DEF GoalsToRequest, TypeOK
      <4>3. w.goal = g /\ w.rec.state = DownstreamState(g)
        BY <4>1, <4>2 DEF Updated, GoalRec
      <4>4. \A p \in Pre[g] : p \in Goals /\ goals[p].state = "success"
        BY <4>2, GoalsAssumption DEF PreconditionsAreMet
      <4>5. \A p \in Goals : goals[p].state = "success" => p \in succeeded
        BY DEF OrderInv, OpenedGoals
      <4> QED
        BY <4>3, <4>4, <4>5 DEF DownstreamState
    <3> QED
      BY <1>0, <1>a, <2>7, <3>1, NoStoreOrder
      DEF RequestDownstreamGoalsOnGoalSuccess, Take
  <2>8. CASE SkipDownstreamGoalsOnGoalFailure(e)
    <3>1. ASSUME NEW w \in writes', w \notin writes
          PROVE  w.rec.state \notin Released /\ w.rec.state # "success"
      <4>1. PICK g \in GoalsToSkip(e.goal) :
              w = Updated(g, g, goals[g], FailedGoalState(e.rec.state))
        BY <2>8, <3>1 DEF SkipDownstreamGoalsOnGoalFailure
      <4>2. goals[g] \in GoalRec
        BY <1>0, <4>1 DEF GoalsToSkip, TypeOK
      <4>3. w.rec.state = FailedGoalState(e.rec.state)
        BY <4>1, <4>2 DEF Updated, GoalRec
      <4> QED
        BY <4>3 DEF FailedGoalState, Released
    <3> QED
      BY <1>0, <1>a, <2>8, <3>1, NoStoreOrder
      DEF SkipDownstreamGoalsOnGoalFailure, Take
  <2>9. ASSUME NEW d \in Decisions, VoteOnGoalApprovalRequest(e, d) PROVE Goal
    <3>1. e.goal \in opened
      BY <2>0, <2>9 DEF VoteOnGoalApprovalRequest, Take, Subscribers, Released, State
    <3>2. ASSUME NEW w \in writes', w \notin writes PROVE w.goal = e.goal
      BY <2>9, <3>2 DEF VoteOnGoalApprovalRequest, Updated
    <3> QED
      BY <1>0, <1>a, <2>9, <3>1, <3>2, NoStoreOrder
      DEF VoteOnGoalApprovalRequest, Take
  <2> QED
    BY <1>2, <2>2, <2>3, <2>4, <2>5, <2>6, <2>7, <2>8, <2>9 DEF HandleEvent
<1>3. ASSUME NEW x \in executions, Run(x) PROVE Goal
  <2>0. /\ x \in Execution /\ x.goal \in Goals /\ x.rec \in GoalRec
        /\ x.goal \in opened /\ Pre[x.goal] \subseteq succeeded
    BY <1>0, <1>a, <1>b DEF TypeOK, Execution
  <2>1. CASE StartJob(x)
    <3>1. [x EXCEPT !.stage = "ready", !.rec = goals[x.goal]].goal = x.goal
      BY <2>0 DEF Execution
    <3>2. \A y \in executions' : y.goal \in opened
      BY <1>a, <2>0, <2>1, <3>1 DEF StartJob
    <3> QED
      BY <1>0, <2>1, <3>2, NoStoreOrder DEF StartJob
  <2>2. CASE MarkInProcess(x)
    <3> DEFINE rec == [x.rec EXCEPT !.state = "in_process"]
               y == [x EXCEPT !.stage = "running", !.rec = rec]
               xs == (executions \ {x}) \cup {y}
    <3>1. rec \in GoalRec /\ rec.state = "in_process"
      BY <2>0 DEF GoalRec, State
    <3>2. y \in Execution /\ y.goal = x.goal
      BY <2>0, <3>1 DEF Execution
    <3>3. xs \in SUBSET Execution /\ \A z \in xs : z.goal \in opened
      BY <1>0, <1>a, <2>0, <3>2 DEF TypeOK
    <3>4. StoreGoal(x.goal, rec, xs) /\ UNCHANGED <<writes, commands>>
      BY <2>2 DEF MarkInProcess
    <3> HIDE DEF rec, xs
    <3>5. /\ opened \subseteq opened' /\ succeeded \subseteq succeeded'
          /\ OpenedGoals' /\ OpenedEvents'
          /\ \A z \in executions' : z.goal \in opened'
          /\ [Order!Next]_Order!vars
      BY <2>0, <3>1, <3>3, <3>4, StoreOrder
    <3> QED
      BY <1>0, <3>4, <3>5 DEF OrderInv, OpenedWrites
  <2>3. ASSUME NEW r \in Results, FinishGoal(x, r) PROVE Goal
    <3> DEFINE rec == [x.rec EXCEPT !.state = ResultState(x.rec, r)]
    <3>1. rec \in GoalRec
      BY <2>0, GoalsAssumption DEF GoalRec, State, ResultState
    <3>2. executions \ {x} \in SUBSET Execution
      BY <1>0 DEF TypeOK
    <3>3. StoreGoal(x.goal, rec, executions \ {x}) /\ UNCHANGED <<writes, commands>>
      BY <2>3 DEF FinishGoal
    <3> HIDE DEF rec
    <3>4. /\ opened \subseteq opened' /\ succeeded \subseteq succeeded'
          /\ OpenedGoals' /\ OpenedEvents'
          /\ \A z \in executions' : z.goal \in opened'
          /\ [Order!Next]_Order!vars
      BY <1>a, <2>0, <3>1, <3>2, <3>3, StoreOrder
    <3> QED
      BY <1>0, <3>3, <3>4 DEF OrderInv, OpenedWrites
  <2>4. CASE CancelGoalOnCanceled(x)
    BY <1>0, <1>a, <2>4, NoStoreOrder DEF CancelGoalOnCanceled
  <2> QED
    BY <1>3, <2>1, <2>2, <2>3, <2>4 DEF Run
<1>4. ASSUME NEW x \in executions, Crash(x) PROVE Goal
  BY <1>0, <1>a, <1>4, NoStoreOrder DEF Crash
<1>5. ASSUME NEW g \in Goals, NEW r \in Results, SideEffectEnds(g, r) PROVE Goal
  <2> DEFINE rec == [goals[g] EXCEPT !.state = r]
  <2>1. rec \in GoalRec
    BY <1>0, GoalsAssumption DEF TypeOK, GoalRec, State
  <2>2. g \in opened
    BY <1>5 DEF OrderInv, OpenedGoals, SideEffectEnds, Released, State
  <2>3. executions \in SUBSET Execution
    BY <1>0 DEF TypeOK
  <2>4. StoreGoal(g, rec, executions) /\ UNCHANGED <<writes, commands>>
    BY <1>5 DEF SideEffectEnds
  <2> HIDE DEF rec
  <2>5. /\ opened \subseteq opened' /\ succeeded \subseteq succeeded'
        /\ OpenedGoals' /\ OpenedEvents'
        /\ \A z \in executions' : z.goal \in opened'
        /\ [Order!Next]_Order!vars
    BY <1>a, <1>b, <2>1, <2>2, <2>3, <2>4, StoreOrder
  <2> QED
    BY <1>0, <2>4, <2>5 DEF OrderInv, OpenedWrites
<1>6. ASSUME NEW g \in Goals, Click(g) PROVE Goal
  <2>1. g \in opened
    BY <1>6 DEF OrderInv, OpenedGoals, Click, Buttons, Released, State
  <2>2. \A c \in commands' \ commands : c.goal \in opened
    BY <1>6, <2>1 DEF Click
  <2> QED
    BY <1>0, <1>a, <1>6, <2>2, NoStoreOrder DEF Click
<1>7. ASSUME NEW c \in commands, UpdateGoalState(c) PROVE Goal
  <2>1. c.goal \in opened
    BY DEF OrderInv
  <2>2. \A w \in writes' \ writes : w.goal = c.goal
    BY <1>7 DEF UpdateGoalState
  <2> QED
    BY <1>0, <1>a, <1>7, <2>1, <2>2, NoStoreOrder DEF UpdateGoalState
<1>8. ASSUME CancelGoalSet PROVE Goal
  <2>1. ASSUME NEW w \in writes', w \notin writes PROVE w.rec.state = "canceled"
    <3>1. PICK g \in Goals : w = Updated(g, g, goals[g], "canceled")
      BY <1>8, <2>1 DEF CancelGoalSet, CancelableNow
    <3> QED
      BY <1>0, <3>1 DEF Updated, TypeOK, GoalRec
  <2> QED
    BY <1>0, <1>a, <1>8, <2>1, NoStoreOrder DEF CancelGoalSet, Released
<1>9. ASSUME NEW g \in Goals, TimeoutInProcessGoal(g) PROVE Goal
  <2>1. g \in opened
    BY <1>9 DEF OrderInv, OpenedGoals, TimeoutInProcessGoal, TimesOut, Released, State
  <2>2. \A w \in writes' \ writes : w.goal = g
    BY <1>9 DEF TimeoutInProcessGoal, Updated
  <2> QED
    BY <1>0, <1>a, <1>9, <2>1, <2>2, NoStoreOrder DEF TimeoutInProcessGoal
<1>10. CASE UNCHANGED vars
  BY <1>0, <1>a, <1>10, NoStoreOrder DEF vars, stored
<1> QED
  BY <1>1, <1>2, <1>3, <1>4, <1>5, <1>6, <1>7, <1>8, <1>9, <1>10 DEF Next

LEMMA OrderInit == Init => OrderInv /\ Order!Init
<1> SUFFICES ASSUME Init PROVE OrderInv /\ Order!Init
  OBVIOUS
<1>1. TypeOK
  BY TypeInit
<1>2. \A g \in Goals : /\ goals[g].state \in Released => Pre[g] = {}
                       /\ goals[g].state # "success"
  BY DEF Init, PlannedState, Released
<1>3. OpenedGoals
  BY <1>2 DEF Init, OpenedGoals
<1>4. OpenedEvents
  <2> SUFFICES ASSUME NEW e \in events
               PROVE  /\ e.to \in Subscribers(e.rec.state)
                      /\ e.rec.state \in Released => e.goal \in opened
    BY DEF OpenedEvents
  <2>1. PICK g \in Goals : e \in Notifications(g, goals[g])
    BY DEF Init
  <2>2. e.goal = g /\ e.rec = goals[g] /\ e.to \in Subscribers(e.rec.state)
    BY <1>1, <2>1, NotificationsType DEF TypeOK
  <2> QED
    BY <1>3, <2>2 DEF OpenedGoals
<1> QED
  BY <1>1, <1>3, <1>4 DEF Init, OrderInv, OpenedWrites, Order!Init

(* Whatever order events are delivered and stale goals are stored in, no   *)
(* goal is requested, offered, executed or finished before each of its     *)
(* preconditions has succeeded.                                            *)
THEOREM PreconditionsAlwaysFirst == Spec => []PreconditionsFirst
<1>1. OrderInv => PreconditionsFirst
  BY DEF OrderInv, OpenedGoals, PreconditionsFirst
<1> QED
  BY <1>1, OrderInit, OrderStep, PTL DEF Spec

(* Goal delivery implements DependencyOrder: goals are opened after their  *)
(* preconditions succeeded and succeed after they were opened.             *)
THEOREM ImplementsDependencyOrder == Spec => InDependencyOrder
BY OrderInit, OrderStep, PTL DEF Spec, InDependencyOrder, Order!Spec

---------------------------------------------------------------------------
(* The start gate.  Until the voters grant its start, a goal that needs a  *)
(* pre-approval is nowhere, neither stored nor waiting to be, in a state   *)
(* beyond it; and it may have lost preApprovalRequired only where no       *)
(* handler looks at it again before the vote.                              *)

Unstarted(rec) ==
    /\ rec.state \in {"planned", "skipped", "waiting_for_pre_approval",
                      "pre_approved", "canceled"}
    /\ rec.state \in {"planned", "skipped"} => rec.preApprovalRequired

UnstartedGoals == PreApproval \ started

StartGoals == \A g \in UnstartedGoals : Unstarted(goals[g])

StartEvents ==
    \A e \in events : e.goal \in UnstartedGoals => Unstarted(e.rec)

StartWrites ==
    \A w \in writes : w.goal \in UnstartedGoals => Unstarted(w.rec)

StartCommands ==
    \A c \in commands : c.goal \in UnstartedGoals => c.state = "pre_approved"

StartExecutions == \A x \in executions : x.goal \notin UnstartedGoals

StartInv ==
    /\ OrderInv
    /\ StartGoals /\ StartEvents /\ StartWrites
    /\ StartCommands /\ StartExecutions

(* A store keeps StartInv if what it stores was not started, or may be. *)
LEMMA StoreStart ==
    ASSUME StartInv, NEW g \in Goals, NEW rec \in GoalRec,
           NEW xs \in SUBSET Execution, StoreGoal(g, rec, xs),
           UNCHANGED <<votes, commands>>, writes' \subseteq writes,
           g \in UnstartedGoals => Unstarted(rec),
           \A x \in xs : x.goal \notin UnstartedGoals
    PROVE  /\ StartGoals' /\ StartEvents' /\ StartWrites'
           /\ StartCommands' /\ StartExecutions'
<1>0. UnstartedGoals' = UnstartedGoals /\ UnstartedGoals \subseteq Goals
  BY SetupAssumption DEF UnstartedGoals, votes
<1>1. StartGoals'
  BY <1>0 DEF StartInv, StartGoals, StoreGoal, OrderInv, TypeOK
<1>2. StartEvents'
  BY <1>0, NotificationsType DEF StartInv, StartEvents, StoreGoal
<1>3. StartWrites' /\ StartCommands'
  BY <1>0 DEF StartInv, StartWrites, StartCommands
<1>4. StartExecutions'
  BY <1>0, NotifyJobsType DEF StartExecutions, StoreGoal
<1> QED
  BY <1>1, <1>2, <1>3, <1>4

(* A step that stores nothing keeps StartInv if what it leaves to be       *)
(* stored, clicked or executed may be.                                     *)
LEMMA NoStoreStart ==
    ASSUME StartInv, UNCHANGED stored, events' \subseteq events,
           started \subseteq started',
           \A w \in writes' \ writes :
               w.goal \in UnstartedGoals' => Unstarted(w.rec),
           \A c \in commands' \ commands :
               c.goal \in UnstartedGoals => c.state = "pre_approved",
           \A x \in executions' : x.goal \notin UnstartedGoals
    PROVE  /\ StartGoals' /\ StartEvents' /\ StartWrites'
           /\ StartCommands' /\ StartExecutions'
<1>1. UnstartedGoals' \subseteq UnstartedGoals /\ goals' = goals
  BY DEF UnstartedGoals, stored
<1> QED
  BY <1>1 DEF StartInv, StartGoals, StartEvents, StartWrites, StartCommands,
              StartExecutions

LEMMA StartStep == StartInv /\ [Next]_vars => StartInv'
<1> SUFFICES ASSUME StartInv, [Next]_vars
             PROVE  /\ StartGoals' /\ StartEvents' /\ StartWrites'
                    /\ StartCommands' /\ StartExecutions'
  BY OrderStep DEF StartInv
<1> DEFINE Goal == /\ StartGoals' /\ StartEvents' /\ StartWrites'
                   /\ StartCommands' /\ StartExecutions'
<1>0. TypeOK /\ OrderInv
  BY DEF StartInv, OrderInv
<1>a. \A x \in executions : x.goal \notin UnstartedGoals
  BY DEF StartInv, StartExecutions
<1>b. \A g \in UnstartedGoals : g \in Goals /\ Unstarted(goals[g])
  BY SetupAssumption DEF StartInv, StartGoals, UnstartedGoals
<1>1. ASSUME NEW w \in writes, Store(w) PROVE Goal
  <2>1. w.goal \in Goals /\ w.rec \in GoalRec /\ executions \in SUBSET Execution
    BY <1>0 DEF TypeOK, Write
  <2>2. w.goal \in UnstartedGoals => Unstarted(w.rec)
    BY DEF StartInv, StartWrites
  <2>3. StoreGoal(w.goal, w.rec, executions) /\ writes' \subseteq writes
        /\ UNCHANGED <<votes, commands>>
    BY <1>1 DEF Store
  <2> QED
    BY <1>a, <2>1, <2>2, <2>3, StoreStart
<1>2. ASSUME NEW e \in events, HandleEvent(e) PROVE Goal
  <2>0. /\ e.to \in Subscribers(e.rec.state)
        /\ e.goal \in UnstartedGoals => Unstarted(e.rec)
        /\ e.goal \in Goals /\ e.rec \in GoalRec
    BY <1>0 DEF StartInv, StartEvents, OrderInv, OpenedEvents, TypeOK, Event
  <2>1. e.to = "fulfill" => e.goal \notin UnstartedGoals
    BY <2>0 DEF Subscribers, Unstarted
  <2>2. CASE IgnoreRequest(e)
    BY <1>a, <2>2, NoStoreStart DEF IgnoreRequest, Take, votes
  <2>3. CASE FailUnfulfillable(e)
    <3>1. e.goal \notin UnstartedGoals
      BY <2>1, <2>3 DEF FailUnfulfillable, Fulfill, Take
    <3> QED
      BY <1>a, <2>3, <3>1, NoStoreStart
      DEF FailUnfulfillable, Fulfill, Take, Updated, votes, UnstartedGoals
  <2>4. CASE ScheduleGoal(e)
    <3>1. e.goal \notin UnstartedGoals
      BY <2>1, <2>4 DEF ScheduleGoal, Fulfill, Take
    <3>2. WithoutJob(e.goal) \in SUBSET Execution
      BY <1>0 DEF TypeOK, WithoutJob
    <3>3. \A x \in executions' : x \in WithoutJob(e.goal) \/ x.goal = e.goal
      BY <2>0, <2>4, <3>2, LaunchType DEF ScheduleGoal
    <3>4. \A x \in executions' : x.goal \notin UnstartedGoals
      BY <1>a, <3>1, <3>3 DEF WithoutJob
    <3> QED
      BY <2>4, <3>1, <3>4, NoStoreStart
      DEF ScheduleGoal, Fulfill, Take, Updated, votes, UnstartedGoals
  <2>5. CASE FailToSchedule(e)
    <3>1. e.goal \notin UnstartedGoals
      BY <2>1, <2>5 DEF FailToSchedule, Fulfill, Take
    <3>2. WithoutJob(e.goal) \in SUBSET Execution
      BY <1>0 DEF TypeOK, WithoutJob
    <3>3. \A x \in executions' : x \in executions \/ x.goal = e.goal
      BY <2>0, <2>5, <3>2, LaunchType DEF FailToSchedule, WithoutJob
    <3>4. \A x \in executions' : x.goal \notin UnstartedGoals
      BY <1>a, <3>1, <3>3
    <3> QED
      BY <2>5, <3>1, <3>4, NoStoreStart
      DEF FailToSchedule, Fulfill, Take, Updated, votes, UnstartedGoals
  <2>6. CASE StartInProcess(e)
    <3>1. e.goal \notin UnstartedGoals
      BY <2>1, <2>6 DEF StartInProcess, Fulfill, Take
    <3>2. \A x \in executions' : x.goal \notin UnstartedGoals
      BY <1>0, <1>a, <2>0, <2>6, <3>1, LaunchType DEF StartInProcess, TypeOK
    <3> QED
      BY <2>6, <3>2, NoStoreStart DEF StartInProcess, Fulfill, Take, votes
  <2>7. CASE RequestDownstreamGoalsOnGoalSuccess(e)
    <3>1. ASSUME NEW w \in writes', w \notin writes, w.goal \in UnstartedGoals
          PROVE  Unstarted(w.rec)
      <4>1. PICK g \in GoalsToRequest(e.goal) :
              w = Updated(e.goal, g, goals[g], DownstreamState(g))
        BY <2>7, <3>1 DEF RequestDownstreamGoalsOnGoalSuccess
      <4>2. ShouldBePlannedOrSkipped(g) /\ goals[g] \in GoalRec
        BY <1>0, <4>1 DEF GoalsToRequest, TypeOK
      <4>3. w.goal = g /\ w.rec.state = DownstreamState(g)
        BY <4>1, <4>2 DEF Updated, GoalRec
      <4>4. Unstarted(goals[g])
        BY <1>b, <3>1, <4>3
      <4>5. goals[g].state \in {"planned", "skipped"}
        BY <4>2, <4>4 DEF ShouldBePlannedOrSkipped, Unstarted
      <4>6. goals[g].preApprovalRequired
        BY <4>4, <4>5 DEF Unstarted
      <4>7. DownstreamState(g) = "waiting_for_pre_approval"
        BY <4>6 DEF DownstreamState
      <4> QED
        BY <4>3, <4>7 DEF Unstarted
    <3> QED
      BY <1>a, <2>7, <3>1, NoStoreStart
      DEF RequestDownstreamGoalsOnGoalSuccess, Take, votes, UnstartedGoals
  <2>8. CASE SkipDownstreamGoalsOnGoalFailure(e)
    <3>1. ASSUME NEW w \in writes', w \notin writes, w.goal \in UnstartedGoals
          PROVE  Unstarted(w.rec)
      <4>1. PICK g \in GoalsToSkip(e.goal) :
              w = Updated(g, g, goals[g], FailedGoalState(e.rec.state))
        BY <2>8, <3>1 DEF SkipDownstreamGoalsOnGoalFailure
      <4>2. goals[g].state = "planned" /\ goals[g] \in GoalRec
        BY <1>0, <4>1 DEF GoalsToSkip, TypeOK
      <4>3. /\ w.goal = g /\ w.rec.state = FailedGoalState(e.rec.state)
            /\ w.rec.preApprovalRequired = goals[g].preApprovalRequired
        BY <4>1, <4>2 DEF Updated, GoalRec
      <4>4. goals[g].preApprovalRequired
        BY <1>b, <3>1, <4>2, <4>3 DEF Unstarted
      <4> QED
        BY <4>3, <4>4 DEF Unstarted, FailedGoalState
    <3> QED
      BY <1>a, <2>8, <3>1, NoStoreStart
      DEF SkipDownstreamGoalsOnGoalFailure, Take, votes, UnstartedGoals
  <2>9. ASSUME NEW d \in Decisions, VoteOnGoalApprovalRequest(e, d) PROVE Goal
    <3>1. started \subseteq started'
      BY <2>9 DEF VoteOnGoalApprovalRequest, Note
    <3>2. e.rec.state \in {"approved", "pre_approved"}
      BY <2>0, <2>9 DEF VoteOnGoalApprovalRequest, Take, Subscribers
    <3>3. ASSUME NEW w \in writes', w \notin writes, w.goal \in UnstartedGoals'
          PROVE  Unstarted(w.rec)
      <4>1. w = Updated(e.goal, e.goal, e.rec, VotedState(e.rec.state, d)) /\ d # "Abstain"
        BY <2>9, <3>3 DEF VoteOnGoalApprovalRequest
      <4>2. w.goal = e.goal /\ w.rec.state = VotedState(e.rec.state, d)
        BY <2>0, <4>1 DEF Updated, GoalRec
      <4>3. e.goal \in UnstartedGoals
        BY <3>1, <3>3, <4>2 DEF UnstartedGoals
      <4>4. e.rec.state = "pre_approved"
        BY <2>0, <3>2, <4>3 DEF Unstarted
      <4>5. d # "Granted"
        BY <2>9, <3>3, <4>2, <4>4
        DEF VoteOnGoalApprovalRequest, Note, UnstartedGoals
      <4>6. w.rec.state = "waiting_for_pre_approval"
        BY <4>1, <4>2, <4>4, <4>5 DEF VotedState, Decisions
      <4> QED
        BY <4>6 DEF Unstarted
    <3> QED
      BY <1>a, <2>9, <3>1, <3>3, NoStoreStart
      DEF VoteOnGoalApprovalRequest, Take
  <2> QED
    BY <1>2, <2>2, <2>3, <2>4, <2>5, <2>6, <2>7, <2>8, <2>9 DEF HandleEvent
<1>3. ASSUME NEW x \in executions, Run(x) PROVE Goal
  <2>0. /\ x \in Execution /\ x.goal \in Goals /\ x.rec \in GoalRec
        /\ x.goal \notin UnstartedGoals
    BY <1>0, <1>a DEF TypeOK, Execution
  <2>1. CASE StartJob(x)
    <3>1. [x EXCEPT !.stage = "ready", !.rec = goals[x.goal]].goal = x.goal
      BY <2>0 DEF Execution
    <3>2. \A y \in executions' : y.goal \notin UnstartedGoals
      BY <1>a, <2>0, <2>1, <3>1 DEF StartJob
    <3> QED
      BY <2>1, <3>2, NoStoreStart DEF StartJob, votes
  <2>2. CASE MarkInProcess(x)
    <3> DEFINE rec == [x.rec EXCEPT !.state = "in_process"]
               y == [x EXCEPT !.stage = "running", !.rec = rec]
               xs == (executions \ {x}) \cup {y}
    <3>1. rec \in GoalRec
      BY <2>0 DEF GoalRec, State
    <3>2. y \in Execution /\ y.goal = x.goal
      BY <2>0, <3>1 DEF Execution
    <3>3. xs \in SUBSET Execution /\ \A z \in xs : z.goal \notin UnstartedGoals
      BY <1>0, <1>a, <2>0, <3>2 DEF TypeOK
    <3>4. StoreGoal(x.goal, rec, xs) /\ UNCHANGED <<writes, commands, votes>>
      BY <2>2 DEF MarkInProcess
    <3> HIDE DEF rec, xs
    <3> QED
      BY <2>0, <3>1, <3>3, <3>4, StoreStart
  <2>3. ASSUME NEW r \in Results, FinishGoal(x, r) PROVE Goal
    <3> DEFINE rec == [x.rec EXCEPT !.state = ResultState(x.rec, r)]
    <3>1. rec \in GoalRec
      BY <2>0, GoalsAssumption DEF GoalRec, State, ResultState
    <3>2. executions \ {x} \in SUBSET Execution
      BY <1>0 DEF TypeOK
    <3>3. StoreGoal(x.goal, rec, executions \ {x})
          /\ UNCHANGED <<writes, commands, votes>>
      BY <2>3 DEF FinishGoal
    <3> HIDE DEF rec
    <3> QED
      BY <1>a, <2>0, <3>1, <3>2, <3>3, StoreStart
  <2>4. CASE CancelGoalOnCanceled(x)
    BY <1>a, <2>4, NoStoreStart DEF CancelGoalOnCanceled, votes
  <2> QED
    BY <1>3, <2>1, <2>2, <2>3, <2>4 DEF Run
<1>4. ASSUME NEW x \in executions, Crash(x) PROVE Goal
  BY <1>a, <1>4, NoStoreStart DEF Crash, votes
<1>5. ASSUME NEW g \in Goals, NEW r \in Results, SideEffectEnds(g, r) PROVE Goal
  <2> DEFINE rec == [goals[g] EXCEPT !.state = r]
  <2>1. rec \in GoalRec
    BY <1>0, GoalsAssumption DEF TypeOK, GoalRec, State
  <2>2. g \notin UnstartedGoals
    BY <1>b, <1>5 DEF SideEffectEnds, Unstarted
  <2>3. executions \in SUBSET Execution
    BY <1>0 DEF TypeOK
  <2>4. StoreGoal(g, rec, executions) /\ UNCHANGED <<writes, commands, votes>>
    BY <1>5 DEF SideEffectEnds
  <2> HIDE DEF rec
  <2> QED
    BY <1>a, <2>1, <2>2, <2>3, <2>4, StoreStart
<1>6. ASSUME NEW g \in Goals, Click(g) PROVE Goal
  <2>1. \A c \in commands' \ commands :
           c.goal \in UnstartedGoals => c.state = "pre_approved"
    <3> SUFFICES ASSUME NEW c \in commands' \ commands, c.goal \in UnstartedGoals
                 PROVE  c.state = "pre_approved"
      OBVIOUS
    <3>1. PICK b \in Buttons(g, goals[g].state) : c = [goal |-> g, state |-> b[2]]
      BY <1>6 DEF Click
    <3>2. Unstarted(goals[g])
      BY <1>b, <3>1
    <3> QED
      BY <3>1, <3>2 DEF Buttons, Unstarted
  <2> QED
    BY <1>a, <1>6, <2>1, NoStoreStart DEF Click, votes
<1>7. ASSUME NEW c \in commands, UpdateGoalState(c) PROVE Goal
  <2>1. c.goal \in UnstartedGoals => c.state = "pre_approved"
    BY DEF StartInv, StartCommands
  <2>2. goals[c.goal] \in GoalRec
    BY <1>0 DEF TypeOK, Command
  <2> DEFINE rec == [goals[c.goal] EXCEPT
                       !.state = c.state,
                       !.preApprovalRequired =
                           IF c.state = "pre_approved" THEN FALSE ELSE @,
                       !.approvalRequired =
                           IF c.state = "approved" THEN FALSE ELSE @]
  <2>a. rec.state = c.state
    BY <2>2 DEF GoalRec
  <2>b. writes' = writes \cup {[by |-> c.goal, goal |-> c.goal, rec |-> rec]}
    BY <1>7 DEF UpdateGoalState
  <2> HIDE DEF rec
  <2>3. \A w \in writes' \ writes : w.goal = c.goal /\ w.rec.state = c.state
    <3> SUFFICES ASSUME NEW w \in writes' \ writes
                 PROVE  w.goal = c.goal /\ w.rec.state = c.state
      OBVIOUS
    <3>1. w = [by |-> c.goal, goal |-> c.goal, rec |-> rec]
      BY <2>b
    <3> QED
      BY <2>a, <3>1
  <2> QED
    BY <1>a, <1>7, <2>1, <2>3, NoStoreStart
    DEF UpdateGoalState, Unstarted, votes, UnstartedGoals
<1>8. ASSUME CancelGoalSet PROVE Goal
  <2>1. ASSUME NEW w \in writes', w \notin writes PROVE w.rec.state = "canceled"
    <3>1. PICK g \in Goals : w = Updated(g, g, goals[g], "canceled")
      BY <1>8, <2>1 DEF CancelGoalSet, CancelableNow
    <3> QED
      BY <1>0, <3>1 DEF Updated, TypeOK, GoalRec
  <2> QED
    BY <1>a, <1>8, <2>1, NoStoreStart DEF CancelGoalSet, Unstarted, votes
<1>9. ASSUME NEW g \in Goals, TimeoutInProcessGoal(g) PROVE Goal
  <2>1. g \notin UnstartedGoals
    BY <1>b, <1>9 DEF TimeoutInProcessGoal, TimesOut, Unstarted
  <2>2. \A w \in writes' \ writes : w.goal = g
    BY <1>9 DEF TimeoutInProcessGoal, Updated
  <2> QED
    BY <1>a, <1>9, <2>1, <2>2, NoStoreStart
    DEF TimeoutInProcessGoal, votes, UnstartedGoals
<1>10. CASE UNCHANGED vars
  BY <1>a, <1>10, NoStoreStart DEF vars, stored
<1> QED
  BY <1>1, <1>2, <1>3, <1>4, <1>5, <1>6, <1>7, <1>8, <1>9, <1>10 DEF Next

(* No goal that needs a pre-approval is requested, executed or finished    *)
(* before voters granted its start.                                        *)
THEOREM StartGateHolds == Spec => []StartGate
<1>1. Init => StartInv
  <2> SUFFICES ASSUME Init PROVE StartInv
    OBVIOUS
  <2>1. OrderInv
    BY OrderInit
  <2>2. StartGoals
    BY SetupAssumption DEF Init, StartGoals, UnstartedGoals, PlannedState, Unstarted
  <2>3. StartEvents
    <3> SUFFICES ASSUME NEW e \in events, e.goal \in UnstartedGoals
                 PROVE  Unstarted(e.rec)
      BY DEF StartEvents
    <3>1. PICK g \in Goals : e \in Notifications(g, goals[g])
      BY DEF Init
    <3>2. e.goal = g /\ e.rec = goals[g]
      BY <2>1, <3>1, NotificationsType DEF OrderInv, TypeOK
    <3> QED
      BY <2>2, <3>2 DEF StartGoals
  <2> QED
    BY <2>1, <2>2, <2>3 DEF Init, StartInv, StartWrites, StartCommands, StartExecutions
<1>2. StartInv => StartGate
  BY SetupAssumption
  DEF StartInv, StartGoals, UnstartedGoals, Unstarted, StartGate, Released
<1> QED
  BY <1>1, <1>2, StartStep, PTL DEF Spec

---------------------------------------------------------------------------
(* The approval gate.  What makes a vote count: until the voters accept a  *)
(* goal, a record of it that no longer asks for the approval is one that a *)
(* user approved, on its way to the vote or back from it, or canceled; and *)
(* no execution holds such a record.                                       *)
(*                                                                         *)
(* That takes goals that are asked for once and read when they are: a goal *)
(* that is restarted, or started by its other button, is asked for with    *)
(* the record the user's click finds, and an isolated job executes the     *)
(* record it finds in the store when its process is up; either may be one  *)
(* that was approved and not voted on.  What a side-effect goal's own      *)
(* system stores is not up to this code.                                   *)

GatedGoals ==
    {g \in Approval \ (PreApproval \cup Isolated) :
        /\ Method[g] # "SideEffect"
        /\ g \in Retryable => "restart" \notin UserActions}

UnacceptedGoals == GatedGoals \ accepted

Unaccepted(rec) ==
    /\ rec.state \notin {"success", "waiting_for_pre_approval", "pre_approved"}
    /\ ~rec.preApprovalRequired
    /\ \/ rec.approvalRequired
       \/ rec.state \in {"waiting_for_approval", "approved", "canceled"}

AcceptGoals == \A g \in UnacceptedGoals : Unaccepted(goals[g])

AcceptEvents ==
    \A e \in events : e.goal \in UnacceptedGoals => Unaccepted(e.rec)

AcceptWrites ==
    \A w \in writes : w.goal \in UnacceptedGoals => Unaccepted(w.rec)

AcceptCommands ==
    \A c \in commands : c.goal \in UnacceptedGoals => c.state = "approved"

Unexecuted(x) == /\ x.stage # "created"
                 /\ Unaccepted(x.rec) /\ x.rec.approvalRequired

AcceptExecutions ==
    \A x \in executions : x.goal \in UnacceptedGoals => Unexecuted(x)

AcceptInv ==
    /\ OrderInv
    /\ AcceptGoals /\ AcceptEvents /\ AcceptWrites
    /\ AcceptCommands /\ AcceptExecutions

(* A store keeps AcceptInv if the record and the executions may be there.  *)
LEMMA StoreAccept ==
    ASSUME AcceptInv, NEW g \in Goals, NEW rec \in GoalRec,
           NEW xs \in SUBSET Execution, StoreGoal(g, rec, xs),
           UNCHANGED <<votes, commands>>, writes' \subseteq writes,
           g \in UnacceptedGoals => Unaccepted(rec),
           \A x \in xs : x.goal \in UnacceptedGoals => Unexecuted(x)
    PROVE  /\ AcceptGoals' /\ AcceptEvents' /\ AcceptWrites'
           /\ AcceptCommands' /\ AcceptExecutions'
<1>0. UnacceptedGoals' = UnacceptedGoals /\ UnacceptedGoals \subseteq Goals
  BY SetupAssumption DEF UnacceptedGoals, GatedGoals, votes
<1>1. AcceptGoals'
  BY <1>0 DEF AcceptInv, AcceptGoals, StoreGoal, OrderInv, TypeOK
<1>2. AcceptEvents'
  BY <1>0, NotificationsType DEF AcceptInv, AcceptEvents, StoreGoal
<1>3. AcceptWrites' /\ AcceptCommands'
  BY <1>0 DEF AcceptInv, AcceptWrites, AcceptCommands
<1>4. AcceptExecutions'
  <2> SUFFICES ASSUME NEW y \in executions', y.goal \in UnacceptedGoals
               PROVE  Unexecuted(y)
    BY <1>0 DEF AcceptExecutions, Unexecuted, Unaccepted
  <2>1. PICK x \in xs : y.goal = x.goal /\ y.rec = x.rec /\ y.stage = x.stage
    BY NotifyJobsType DEF StoreGoal
  <2> QED
    BY <2>1 DEF Unexecuted
<1> QED
  BY <1>1, <1>2, <1>3, <1>4

(* A step that stores nothing keeps AcceptInv if what it leaves to be      *)
(* stored, clicked or executed may be.                                     *)
LEMMA NoStoreAccept ==
    ASSUME AcceptInv, UNCHANGED stored, events' \subseteq events,
           accepted \subseteq accepted',
           \A w \in writes' \ writes :
               w.goal \in UnacceptedGoals' => Unaccepted(w.rec),
           \A c \in commands' \ commands :
               c.goal \in UnacceptedGoals => c.state = "approved",
           \A x \in executions' : x.goal \in UnacceptedGoals => Unexecuted(x)
    PROVE  /\ AcceptGoals' /\ AcceptEvents' /\ AcceptWrites'
           /\ AcceptCommands' /\ AcceptExecutions'
<1>1. UnacceptedGoals' \subseteq UnacceptedGoals /\ goals' = goals
  BY DEF UnacceptedGoals, stored
<1> QED
  BY <1>1 DEF AcceptInv, AcceptGoals, AcceptEvents, AcceptWrites, AcceptCommands,
              AcceptExecutions

LEMMA AcceptStep == AcceptInv /\ [Next]_vars => AcceptInv'
<1> SUFFICES ASSUME AcceptInv, [Next]_vars
             PROVE  /\ AcceptGoals' /\ AcceptEvents' /\ AcceptWrites'
                    /\ AcceptCommands' /\ AcceptExecutions'
  BY OrderStep DEF AcceptInv
<1> DEFINE Goal == /\ AcceptGoals' /\ AcceptEvents' /\ AcceptWrites'
                   /\ AcceptCommands' /\ AcceptExecutions'
<1>0. TypeOK /\ OrderInv
  BY DEF AcceptInv, OrderInv
<1>a. \A x \in executions : x.goal \in UnacceptedGoals => Unexecuted(x)
  BY DEF AcceptInv, AcceptExecutions
<1>b. \A g \in UnacceptedGoals : g \in Goals /\ Unaccepted(goals[g])
  BY SetupAssumption DEF AcceptInv, AcceptGoals, UnacceptedGoals, GatedGoals
<1>1. ASSUME NEW w \in writes, Store(w) PROVE Goal
  <2>1. w.goal \in Goals /\ w.rec \in GoalRec /\ executions \in SUBSET Execution
    BY <1>0 DEF TypeOK, Write
  <2>2. w.goal \in UnacceptedGoals => Unaccepted(w.rec)
    BY DEF AcceptInv, AcceptWrites
  <2>3. StoreGoal(w.goal, w.rec, executions) /\ writes' \subseteq writes
        /\ UNCHANGED <<votes, commands>>
    BY <1>1 DEF Store
  <2> QED
    BY <1>a, <2>1, <2>2, <2>3, StoreAccept
<1>2. ASSUME NEW e \in events, HandleEvent(e) PROVE Goal
  <2>0. /\ e.to \in Subscribers(e.rec.state)
        /\ e.goal \in UnacceptedGoals => Unaccepted(e.rec)
        /\ e.goal \in Goals /\ e.rec \in GoalRec
    BY <1>0 DEF AcceptInv, AcceptEvents, OrderInv, OpenedEvents, TypeOK, Event
  <2>1. e.to = "fulfill" /\ e.goal \in UnacceptedGoals => e.rec.approvalRequired
    BY <2>0 DEF Subscribers, Unaccepted
  <2>a. ASSUME NEW w, NEW s \in {"failure", "in_process"}, e.to = "fulfill",
               w = Updated(e.goal, e.goal, e.rec, s), w.goal \in UnacceptedGoals
        PROVE  Unaccepted(w.rec)
    <3>1. /\ w.goal = e.goal /\ w.rec.state = s
          /\ w.rec.approvalRequired = e.rec.approvalRequired
          /\ w.rec.preApprovalRequired = e.rec.preApprovalRequired
      BY <2>0, <2>a DEF Updated, GoalRec
    <3> QED
      BY <2>0, <2>1, <2>a, <3>1 DEF Unaccepted
  <2>2. CASE IgnoreRequest(e)
    BY <1>a, <2>2, NoStoreAccept DEF IgnoreRequest, Take, votes
  <2>3. CASE FailUnfulfillable(e)
    <3>1. e.to = "fulfill"
      BY <2>3 DEF FailUnfulfillable, Fulfill, Take
    <3>2. \A w \in writes' \ writes :
             w.goal \in UnacceptedGoals => Unaccepted(w.rec)
      BY <2>a, <2>3, <3>1 DEF FailUnfulfillable
    <3> QED
      BY <1>a, <2>3, <3>2, NoStoreAccept
      DEF FailUnfulfillable, Fulfill, Take, votes, UnacceptedGoals
  <2>4. CASE ScheduleGoal(e)
    <3>1. e.to = "fulfill" /\ e.goal \notin UnacceptedGoals
      BY <2>4 DEF ScheduleGoal, Fulfill, Take, UnacceptedGoals, GatedGoals
    <3>2. WithoutJob(e.goal) \in SUBSET Execution
      BY <1>0 DEF TypeOK, WithoutJob
    <3>3. \A x \in executions' : x \in executions \/ x.goal = e.goal
      BY <2>0, <2>4, <3>2, LaunchType DEF ScheduleGoal, WithoutJob
    <3>4. \A x \in executions' : x.goal \in UnacceptedGoals => Unexecuted(x)
      BY <1>a, <3>1, <3>3
    <3>5. \A w \in writes' \ writes :
             w.goal \in UnacceptedGoals => Unaccepted(w.rec)
      BY <2>a, <2>4, <3>1 DEF ScheduleGoal
    <3> QED
      BY <2>4, <3>4, <3>5, NoStoreAccept
      DEF ScheduleGoal, Fulfill, Take, votes, UnacceptedGoals
  <2>5. CASE FailToSchedule(e)
    <3>1. e.to = "fulfill" /\ e.goal \notin UnacceptedGoals
      BY <2>5 DEF FailToSchedule, Fulfill, Take, UnacceptedGoals, GatedGoals
    <3>2. WithoutJob(e.goal) \in SUBSET Execution
      BY <1>0 DEF TypeOK, WithoutJob
    <3>3. \A x \in executions' : x \in executions \/ x.goal = e.goal
      BY <2>0, <2>5, <3>2, LaunchType DEF FailToSchedule, WithoutJob
    <3>4. \A x \in executions' : x.goal \in UnacceptedGoals => Unexecuted(x)
      BY <1>a, <3>1, <3>3
    <3>5. \A w \in writes' \ writes :
             w.goal \in UnacceptedGoals => Unaccepted(w.rec)
      BY <2>a, <2>5, <3>1 DEF FailToSchedule
    <3> QED
      BY <2>5, <3>4, <3>5, NoStoreAccept
      DEF FailToSchedule, Fulfill, Take, votes, UnacceptedGoals
  <2>6. CASE StartInProcess(e)
    <3>1. e.to = "fulfill"
      BY <2>6 DEF StartInProcess, Fulfill, Take
    <3>2. ASSUME NEW x \in executions', x \notin executions
          PROVE  x.goal = e.goal /\ x.stage = "ready" /\ x.rec = e.rec
      <4>1. Launch(e.goal, executions, FALSE, "ready", e.rec)
        BY <2>6 DEF StartInProcess
      <4>2. \A y \in executions' \ executions :
               y.goal = e.goal /\ y.stage = "ready" /\ y.rec = e.rec
        BY <4>1 DEF Launch
      <4> QED
        BY <3>2, <4>2
    <3>3. \A x \in executions' : x.goal \in UnacceptedGoals => Unexecuted(x)
      BY <1>a, <2>0, <2>1, <3>1, <3>2 DEF Unexecuted
    <3> QED
      BY <2>6, <3>3, NoStoreAccept DEF StartInProcess, Fulfill, Take, votes
  <2>7. CASE RequestDownstreamGoalsOnGoalSuccess(e)
    <3>1. ASSUME NEW w \in writes', w \notin writes, w.goal \in UnacceptedGoals
          PROVE  Unaccepted(w.rec)
      <4>1. PICK g \in GoalsToRequest(e.goal) :
              w = Updated(e.goal, g, goals[g], DownstreamState(g))
        BY <2>7, <3>1 DEF RequestDownstreamGoalsOnGoalSuccess
      <4>2. ShouldBePlannedOrSkipped(g) /\ goals[g] \in GoalRec
        BY <1>0, <4>1 DEF GoalsToRequest, TypeOK
      <4>3. w.goal = g /\ w.rec.state = DownstreamState(g)
        BY <4>1, <4>2 DEF Updated, GoalRec
      <4>4. Unaccepted(goals[g])
        BY <1>b, <3>1, <4>3
      <4>5. goals[g].approvalRequired /\ ~goals[g].preApprovalRequired
        BY <4>2, <4>4 DEF ShouldBePlannedOrSkipped, Unaccepted
      <4>6. w.rec.approvalRequired /\ ~w.rec.preApprovalRequired
            /\ w.rec.state = "requested"
        BY <4>1, <4>2, <4>3, <4>5 DEF Updated, GoalRec, DownstreamState
      <4> QED
        BY <4>6 DEF Unaccepted
    <3> QED
      BY <1>a, <2>7, <3>1, NoStoreAccept
      DEF RequestDownstreamGoalsOnGoalSuccess, Take, votes, UnacceptedGoals
  <2>8. CASE SkipDownstreamGoalsOnGoalFailure(e)
    <3>1. ASSUME NEW w \in writes', w \notin writes, w.goal \in UnacceptedGoals
          PROVE  Unaccepted(w.rec)
      <4>1. PICK g \in GoalsToSkip(e.goal) :
              w = Updated(g, g, goals[g], FailedGoalState(e.rec.state))
        BY <2>8, <3>1 DEF SkipDownstreamGoalsOnGoalFailure
      <4>2. goals[g].state = "planned" /\ goals[g] \in GoalRec
        BY <1>0, <4>1 DEF GoalsToSkip, TypeOK
      <4>3. /\ w.goal = g /\ w.rec.state = FailedGoalState(e.rec.state)
            /\ w.rec.preApprovalRequired = goals[g].preApprovalRequired
            /\ w.rec.approvalRequired = goals[g].approvalRequired
        BY <4>1, <4>2 DEF Updated, GoalRec
      <4>4. goals[g].approvalRequired /\ ~goals[g].preApprovalRequired
        BY <1>b, <3>1, <4>2, <4>3 DEF Unaccepted
      <4> QED
        BY <4>3, <4>4 DEF Unaccepted, FailedGoalState
    <3> QED
      BY <1>a, <2>8, <3>1, NoStoreAccept
      DEF SkipDownstreamGoalsOnGoalFailure, Take, votes, UnacceptedGoals
  <2>9. ASSUME NEW d \in Decisions, VoteOnGoalApprovalRequest(e, d) PROVE Goal
    <3>1. accepted \subseteq accepted'
      BY <2>9 DEF VoteOnGoalApprovalRequest, Note
    <3>2. e.rec.state \in {"approved", "pre_approved"}
      BY <2>0, <2>9 DEF VoteOnGoalApprovalRequest, Take, Subscribers
    <3>3. ASSUME NEW w \in writes', w \notin writes, w.goal \in UnacceptedGoals'
          PROVE  Unaccepted(w.rec)
      <4>1. w = Updated(e.goal, e.goal, e.rec, VotedState(e.rec.state, d)) /\ d # "Abstain"
        BY <2>9, <3>3 DEF VoteOnGoalApprovalRequest
      <4>2. /\ w.goal = e.goal /\ w.rec.state = VotedState(e.rec.state, d)
            /\ w.rec.preApprovalRequired = e.rec.preApprovalRequired
        BY <2>0, <4>1 DEF Updated, GoalRec
      <4>3. e.goal \in UnacceptedGoals
        BY <3>1, <3>3, <4>2 DEF UnacceptedGoals
      <4>4. e.rec.state = "approved" /\ ~e.rec.preApprovalRequired
        BY <2>0, <3>2, <4>3 DEF Unaccepted
      <4>5. d # "Granted"
        BY <2>9, <3>3, <4>2, <4>4
        DEF VoteOnGoalApprovalRequest, Note, UnacceptedGoals
      <4>6. w.rec.state = "waiting_for_approval"
        BY <4>1, <4>2, <4>4, <4>5 DEF VotedState, Decisions
      <4> QED
        BY <4>2, <4>4, <4>6 DEF Unaccepted
    <3> QED
      BY <1>a, <2>9, <3>1, <3>3, NoStoreAccept
      DEF VoteOnGoalApprovalRequest, Take
  <2> QED
    BY <1>2, <2>2, <2>3, <2>4, <2>5, <2>6, <2>7, <2>8, <2>9 DEF HandleEvent
<1>3. ASSUME NEW x \in executions, Run(x) PROVE Goal
  <2>0. /\ x \in Execution /\ x.goal \in Goals /\ x.rec \in GoalRec
        /\ x.goal \in UnacceptedGoals => Unexecuted(x)
    BY <1>0, <1>a DEF TypeOK, Execution
  <2>1. CASE StartJob(x)
    <3>1. [x EXCEPT !.stage = "ready", !.rec = goals[x.goal]].goal = x.goal
      BY <2>0 DEF Execution
    <3>2. x.goal \notin UnacceptedGoals
      BY <2>0, <2>1 DEF StartJob, Unexecuted
    <3>3. \A y \in executions' : y.goal \in UnacceptedGoals => Unexecuted(y)
      BY <1>a, <2>1, <3>1, <3>2 DEF StartJob
    <3> QED
      BY <2>1, <3>3, NoStoreAccept DEF StartJob, votes
  <2>2. CASE MarkInProcess(x)
    <3> DEFINE rec == [x.rec EXCEPT !.state = "in_process"]
               y == [x EXCEPT !.stage = "running", !.rec = rec]
               xs == (executions \ {x}) \cup {y}
    <3>1. /\ rec \in GoalRec /\ rec.state = "in_process"
          /\ rec.approvalRequired = x.rec.approvalRequired
          /\ rec.preApprovalRequired = x.rec.preApprovalRequired
      BY <2>0 DEF GoalRec, State
    <3>2. y \in Execution /\ y.goal = x.goal /\ y.stage = "running" /\ y.rec = rec
      BY <2>0, <3>1 DEF Execution
    <3>3. StoreGoal(x.goal, rec, xs) /\ UNCHANGED <<writes, commands, votes>>
      BY <2>2 DEF MarkInProcess
    <3> HIDE DEF rec
    <3>4. x.goal \in UnacceptedGoals => Unaccepted(rec) /\ rec.approvalRequired
      BY <2>0, <3>1 DEF Unexecuted, Unaccepted
    <3> HIDE DEF y
    <3>5. xs \in SUBSET Execution
      BY <1>0, <3>2 DEF TypeOK
    <3>6. \A z \in xs : z.goal \in UnacceptedGoals => Unexecuted(z)
      BY <1>a, <3>2, <3>4 DEF Unexecuted
    <3> HIDE DEF xs
    <3> QED
      BY <2>0, <3>1, <3>3, <3>4, <3>5, <3>6, StoreAccept
  <2>3. ASSUME NEW r \in Results, FinishGoal(x, r) PROVE Goal
    <3> DEFINE rec == [x.rec EXCEPT !.state = ResultState(x.rec, r)]
    <3>1. /\ rec \in GoalRec /\ rec.state = ResultState(x.rec, r)
          /\ rec.approvalRequired = x.rec.approvalRequired
          /\ rec.preApprovalRequired = x.rec.preApprovalRequired
      BY <2>0, GoalsAssumption DEF GoalRec, State, ResultState
    <3>2. executions \ {x} \in SUBSET Execution
      BY <1>0 DEF TypeOK
    <3>3. StoreGoal(x.goal, rec, executions \ {x})
          /\ UNCHANGED <<writes, commands, votes>>
      BY <2>3 DEF FinishGoal
    <3> HIDE DEF rec
    <3>4. x.goal \in UnacceptedGoals => Unaccepted(rec)
      BY <2>0, <3>1, GoalsAssumption DEF Unexecuted, Unaccepted, ResultState
    <3> QED
      BY <1>a, <2>0, <3>1, <3>2, <3>3, <3>4, StoreAccept
  <2>4. CASE CancelGoalOnCanceled(x)
    BY <1>a, <2>4, NoStoreAccept DEF CancelGoalOnCanceled, votes
  <2> QED
    BY <1>3, <2>1, <2>2, <2>3, <2>4 DEF Run
<1>4. ASSUME NEW x \in executions, Crash(x) PROVE Goal
  BY <1>a, <1>4, NoStoreAccept DEF Crash, votes
<1>5. ASSUME NEW g \in Goals, NEW r \in Results, SideEffectEnds(g, r) PROVE Goal
  <2> DEFINE rec == [goals[g] EXCEPT !.state = r]
  <2>1. rec \in GoalRec
    BY <1>0, GoalsAssumption DEF TypeOK, GoalRec, State
  <2>2. g \notin UnacceptedGoals
    BY <1>5 DEF SideEffectEnds, UnacceptedGoals, GatedGoals
  <2>3. executions \in SUBSET Execution
    BY <1>0 DEF TypeOK
  <2>4. StoreGoal(g, rec, executions) /\ UNCHANGED <<writes, commands, votes>>
    BY <1>5 DEF SideEffectEnds
  <2> HIDE DEF rec
  <2> QED
    BY <1>a, <2>1, <2>2, <2>3, <2>4, StoreAccept
<1>6. ASSUME NEW g \in Goals, Click(g) PROVE Goal
  <2>1. \A c \in commands' \ commands :
           c.goal \in UnacceptedGoals => c.state = "approved"
    <3> SUFFICES ASSUME NEW c \in commands' \ commands, c.goal \in UnacceptedGoals
                 PROVE  c.state = "approved"
      OBVIOUS
    <3>1. PICK b \in Buttons(g, goals[g].state) : /\ c = [goal |-> g, state |-> b[2]]
                                                 /\ b[1] \in UserActions
      BY <1>6 DEF Click
    <3>2. c.goal = g /\ c.state = b[2] /\ Unaccepted(goals[g])
      BY <1>b, <3>1
    <3>3. goals[g].state # "waiting_for_pre_approval"
      BY <3>2 DEF Unaccepted
    <3>4. b = <<"restart", "requested">> => g \notin Retryable
      BY <1>6, <3>1, <3>2 DEF UnacceptedGoals, GatedGoals, Click
    <3> QED
      BY <3>1, <3>2, <3>3, <3>4 DEF Buttons
  <2> QED
    BY <1>a, <1>6, <2>1, NoStoreAccept DEF Click, votes
<1>7. ASSUME NEW c \in commands, UpdateGoalState(c) PROVE Goal
  <2>1. c.goal \in UnacceptedGoals => c.state = "approved"
    BY DEF AcceptInv, AcceptCommands
  <2>2. goals[c.goal] \in GoalRec
    BY <1>0 DEF TypeOK, Command
  <2> DEFINE rec == [goals[c.goal] EXCEPT
                       !.state = c.state,
                       !.preApprovalRequired =
                           IF c.state = "pre_approved" THEN FALSE ELSE @,
                       !.approvalRequired =
                           IF c.state = "approved" THEN FALSE ELSE @]
  <2>a. /\ rec.state = c.state
        /\ c.state # "pre_approved" => rec.preApprovalRequired = goals[c.goal].preApprovalRequired
    BY <2>2 DEF GoalRec
  <2>b. writes' = writes \cup {[by |-> c.goal, goal |-> c.goal, rec |-> rec]}
    BY <1>7 DEF UpdateGoalState
  <2> HIDE DEF rec
  <2>3. ASSUME NEW w \in writes' \ writes, w.goal \in UnacceptedGoals
        PROVE  Unaccepted(w.rec)
    <3>1. w.goal = c.goal /\ w.rec = rec
      BY <2>b, <2>3
    <3>2. rec.state = "approved" /\ ~rec.preApprovalRequired
      BY <1>b, <2>1, <2>3, <2>a, <3>1 DEF Unaccepted
    <3> QED
      BY <3>1, <3>2 DEF Unaccepted
  <2> QED
    BY <1>a, <1>7, <2>3, NoStoreAccept
    DEF UpdateGoalState, votes, UnacceptedGoals
<1>8. ASSUME CancelGoalSet PROVE Goal
  <2>1. ASSUME NEW w \in writes', w \notin writes, w.goal \in UnacceptedGoals
        PROVE  Unaccepted(w.rec)
    <3>1. PICK g \in Goals : w = Updated(g, g, goals[g], "canceled")
      BY <1>8, <2>1 DEF CancelGoalSet, CancelableNow
    <3>2. /\ w.goal = g /\ w.rec.state = "canceled"
          /\ w.rec.preApprovalRequired = goals[g].preApprovalRequired
      BY <1>0, <3>1 DEF Updated, TypeOK, GoalRec
    <3> QED
      BY <1>b, <2>1, <3>2 DEF Unaccepted
  <2> QED
    BY <1>a, <1>8, <2>1, NoStoreAccept DEF CancelGoalSet, votes, UnacceptedGoals
<1>9. ASSUME NEW g \in Goals, TimeoutInProcessGoal(g) PROVE Goal
  <2>1. ASSUME NEW w \in writes', w \notin writes, w.goal \in UnacceptedGoals
        PROVE  Unaccepted(w.rec)
    <3>1. w = Updated(g, g, goals[g], TimeoutState)
      BY <1>9, <2>1 DEF TimeoutInProcessGoal
    <3>2. /\ w.goal = g /\ w.rec.state = TimeoutState
          /\ w.rec.preApprovalRequired = goals[g].preApprovalRequired
          /\ w.rec.approvalRequired = goals[g].approvalRequired
      BY <1>0, <3>1 DEF Updated, TypeOK, GoalRec
    <3>3. goals[g].state \in {"requested", "in_process"}
      BY <1>9 DEF TimeoutInProcessGoal, TimesOut
    <3> QED
      BY <1>b, <2>1, <3>2, <3>3, GoalsAssumption DEF Unaccepted
  <2> QED
    BY <1>a, <1>9, <2>1, NoStoreAccept
    DEF TimeoutInProcessGoal, votes, UnacceptedGoals
<1>10. CASE UNCHANGED vars
  BY <1>a, <1>10, NoStoreAccept DEF vars, stored
<1> QED
  BY <1>1, <1>2, <1>3, <1>4, <1>5, <1>6, <1>7, <1>8, <1>9, <1>10 DEF Next

(* A goal that needs an approval is in state success only after voters     *)
(* granted one, if the goals that need one are asked for once and read     *)
(* when they are: then no order of clicks, votes, executions and stores    *)
(* gets around VoteOnGoalApprovalRequest.                                  *)
THEOREM ApprovalGateHolds ==
    ASSUME Approval \subseteq GatedGoals
    PROVE  Spec => []ApprovalGate
<1>1. Init => AcceptInv
  <2> SUFFICES ASSUME Init PROVE AcceptInv
    OBVIOUS
  <2>1. OrderInv
    BY OrderInit
  <2>2. AcceptGoals
    <3> SUFFICES ASSUME NEW g \in UnacceptedGoals
                 PROVE  Unaccepted(goals[g])
      BY DEF AcceptGoals
    <3>1. g \in Goals /\ g \in Approval /\ g \notin PreApproval
      BY SetupAssumption DEF UnacceptedGoals, GatedGoals
    <3>2. /\ goals[g].state = PlannedState(g)
          /\ goals[g].approvalRequired /\ ~goals[g].preApprovalRequired
      BY <3>1 DEF Init
    <3> QED
      BY <3>1, <3>2 DEF PlannedState, Unaccepted
  <2>3. AcceptEvents
    <3> SUFFICES ASSUME NEW e \in events, e.goal \in UnacceptedGoals
                 PROVE  Unaccepted(e.rec)
      BY DEF AcceptEvents
    <3>1. PICK g \in Goals : e \in Notifications(g, goals[g])
      BY DEF Init
    <3>2. e.goal = g /\ e.rec = goals[g]
      BY <2>1, <3>1, NotificationsType DEF OrderInv, TypeOK
    <3> QED
      BY <2>2, <3>2 DEF AcceptGoals
  <2> QED
    BY <2>1, <2>2, <2>3 DEF Init, AcceptInv, AcceptWrites, AcceptCommands, AcceptExecutions
<1>2. AcceptInv => ApprovalGate
  BY DEF AcceptInv, AcceptGoals, UnacceptedGoals, Unaccepted, ApprovalGate
<1> QED
  BY <1>1, <1>2, AcceptStep, PTL DEF Spec

---------------------------------------------------------------------------
(* Skipped goals.  Only SkipDownstreamGoalsOnGoalFailure makes a record in *)
(* state skipped, and its event keeps naming a goal that did fail.         *)

HasCause(g) == \E f \in failed : IsDependentOn(f, g)

SkippedGoals == \A g \in Goals : goals[g].state = "skipped" => HasCause(g)

SkippedWrites ==
    \A w \in writes : w.rec.state = "skipped" => HasCause(w.goal)

FailureEvents ==
    \A e \in events : e.rec.state \in {"failure", "stopped"} => e.goal \in failed

SkipInv ==
    /\ OrderInv
    /\ SkippedGoals /\ SkippedWrites /\ FailureEvents

LEMMA StoreSkip ==
    ASSUME SkipInv, NEW g \in Goals, NEW rec \in GoalRec,
           NEW xs \in SUBSET Execution, StoreGoal(g, rec, xs),
           writes' \subseteq writes,
           rec.state = "skipped" => HasCause(g)
    PROVE  SkippedGoals' /\ SkippedWrites' /\ FailureEvents'
<1>1. failed \subseteq failed'
  BY DEF StoreGoal, Note
<1>2. \A h : HasCause(h) => HasCause(h)'
  BY <1>1 DEF HasCause, IsDependentOn, Dependencies
<1>3. SkippedGoals'
  BY <1>2 DEF SkipInv, SkippedGoals, StoreGoal, OrderInv, TypeOK
<1>4. SkippedWrites'
  BY <1>2 DEF SkipInv, SkippedWrites
<1>5. FailureEvents'
  BY <1>1, NotificationsType DEF SkipInv, FailureEvents, StoreGoal, Note
<1> QED
  BY <1>3, <1>4, <1>5

LEMMA NoStoreSkip ==
    ASSUME SkipInv, UNCHANGED stored, events' \subseteq events,
           \A w \in writes' \ writes : w.rec.state = "skipped" => HasCause(w.goal)
    PROVE  SkippedGoals' /\ SkippedWrites' /\ FailureEvents'
<1>1. goals' = goals /\ failed' = failed
  BY DEF stored
<1>2. \A h : HasCause(h) => HasCause(h)'
  BY <1>1 DEF HasCause, IsDependentOn, Dependencies
<1> QED
  BY <1>1, <1>2 DEF SkipInv, SkippedGoals, SkippedWrites, FailureEvents

LEMMA SkipStep == SkipInv /\ [Next]_vars => SkipInv'
<1> SUFFICES ASSUME SkipInv, [Next]_vars
             PROVE  SkippedGoals' /\ SkippedWrites' /\ FailureEvents'
  BY OrderStep DEF SkipInv
<1> DEFINE Goal == SkippedGoals' /\ SkippedWrites' /\ FailureEvents'
<1>0. TypeOK /\ OrderInv
  BY DEF SkipInv, OrderInv
<1>1. ASSUME NEW w \in writes, Store(w) PROVE Goal
  <2>1. w.goal \in Goals /\ w.rec \in GoalRec /\ executions \in SUBSET Execution
    BY <1>0 DEF TypeOK, Write
  <2>2. w.rec.state = "skipped" => HasCause(w.goal)
    BY DEF SkipInv, SkippedWrites
  <2>3. StoreGoal(w.goal, w.rec, executions) /\ writes' \subseteq writes
    BY <1>1 DEF Store
  <2> QED
    BY <2>1, <2>2, <2>3, StoreSkip
<1>2. ASSUME NEW e \in events, HandleEvent(e) PROVE Goal
  <2>0. /\ e.to \in Subscribers(e.rec.state)
        /\ e.rec.state \in {"failure", "stopped"} => e.goal \in failed
        /\ e.goal \in Goals /\ e.rec \in GoalRec
    BY <1>0 DEF SkipInv, FailureEvents, OrderInv, OpenedEvents, TypeOK, Event
  <2>1. CASE IgnoreRequest(e)
    BY <2>1, NoStoreSkip DEF IgnoreRequest, Take
  <2>2. CASE FailUnfulfillable(e)
    BY <2>0, <2>2, NoStoreSkip
    DEF FailUnfulfillable, Fulfill, Take, Updated, GoalRec
  <2>3. CASE ScheduleGoal(e)
    BY <2>0, <2>3, NoStoreSkip DEF ScheduleGoal, Fulfill, Take, Updated, GoalRec
  <2>4. CASE FailToSchedule(e)
    BY <2>0, <2>4, NoStoreSkip DEF FailToSchedule, Fulfill, Take, Updated, GoalRec
  <2>5. CASE StartInProcess(e)
    BY <2>5, NoStoreSkip DEF StartInProcess, Fulfill, Take
  <2>6. CASE RequestDownstreamGoalsOnGoalSuccess(e)
    <3>1. ASSUME NEW w \in writes', w \notin writes PROVE w.rec.state # "skipped"
      <4>1. PICK g \in GoalsToRequest(e.goal) :
              w = Updated(e.goal, g, goals[g], DownstreamState(g))
        BY <2>6, <3>1 DEF RequestDownstreamGoalsOnGoalSuccess
      <4>2. w.rec.state = DownstreamState(g)
        BY <1>0, <4>1 DEF GoalsToRequest, TypeOK, Updated, GoalRec
      <4> QED
        BY <4>2 DEF DownstreamState
    <3> QED
      BY <2>6, <3>1, NoStoreSkip DEF RequestDownstreamGoalsOnGoalSuccess, Take
  <2>7. CASE SkipDownstreamGoalsOnGoalFailure(e)
    <3>1. ASSUME NEW w \in writes', w \notin writes, w.rec.state = "skipped"
          PROVE  HasCause(w.goal)
      <4>1. PICK g \in GoalsToSkip(e.goal) :
              w = Updated(g, g, goals[g], FailedGoalState(e.rec.state))
        BY <2>7, <3>1 DEF SkipDownstreamGoalsOnGoalFailure
      <4>2. w.goal = g /\ w.rec.state = FailedGoalState(e.rec.state)
        BY <1>0, <4>1 DEF GoalsToSkip, TypeOK, Updated, GoalRec
      <4>3. e.rec.state \in {"failure", "stopped"}
        BY <2>0, <2>7, <3>1, <4>2
        DEF FailedGoalState, SkipDownstreamGoalsOnGoalFailure, Take, Subscribers
      <4>4. IsDependentOn(e.goal, g)
        BY <4>1 DEF GoalsToSkip
      <4> QED
        BY <2>0, <4>2, <4>3, <4>4 DEF HasCause
    <3> QED
      BY <2>7, <3>1, NoStoreSkip DEF SkipDownstreamGoalsOnGoalFailure, Take
  <2>8. ASSUME NEW d \in Decisions, VoteOnGoalApprovalRequest(e, d) PROVE Goal
    <3>1. e.rec.state \in {"approved", "pre_approved"}
      BY <2>0, <2>8 DEF VoteOnGoalApprovalRequest, Take, Subscribers
    <3>2. ASSUME NEW w \in writes', w \notin writes PROVE w.rec.state # "skipped"
      <4>1. w = Updated(e.goal, e.goal, e.rec, VotedState(e.rec.state, d))
        BY <2>8, <3>2 DEF VoteOnGoalApprovalRequest
      <4>2. w.rec.state = VotedState(e.rec.state, d)
        BY <2>0, <4>1 DEF Updated, GoalRec
      <4> QED
        BY <3>1, <4>2 DEF VotedState
    <3> QED
      BY <2>8, <3>2, NoStoreSkip DEF VoteOnGoalApprovalRequest, Take
  <2> QED
    BY <1>2, <2>1, <2>2, <2>3, <2>4, <2>5, <2>6, <2>7, <2>8 DEF HandleEvent
<1>3. ASSUME NEW x \in executions, Run(x) PROVE Goal
  <2>0. x \in Execution /\ x.goal \in Goals /\ x.rec \in GoalRec
    BY <1>0 DEF TypeOK, Execution
  <2>1. CASE StartJob(x)
    BY <2>1, NoStoreSkip DEF StartJob
  <2>2. CASE MarkInProcess(x)
    <3> DEFINE rec == [x.rec EXCEPT !.state = "in_process"]
               y == [x EXCEPT !.stage = "running", !.rec = rec]
               xs == (executions \ {x}) \cup {y}
    <3>1. rec \in GoalRec /\ rec.state # "skipped"
      BY <2>0 DEF GoalRec, State
    <3>2. xs \in SUBSET Execution
      BY <1>0, <2>0, <3>1 DEF TypeOK, Execution
    <3>3. StoreGoal(x.goal, rec, xs) /\ writes' \subseteq writes
      BY <2>2 DEF MarkInProcess
    <3> HIDE DEF rec, xs
    <3> QED
      BY <2>0, <3>1, <3>2, <3>3, StoreSkip
  <2>3. ASSUME NEW r \in Results, FinishGoal(x, r) PROVE Goal
    <3> DEFINE rec == [x.rec EXCEPT !.state = ResultState(x.rec, r)]
    <3>1. rec \in GoalRec /\ rec.state # "skipped"
      BY <2>0, GoalsAssumption DEF GoalRec, State, ResultState
    <3>2. executions \ {x} \in SUBSET Execution
      BY <1>0 DEF TypeOK
    <3>3. StoreGoal(x.goal, rec, executions \ {x}) /\ writes' \subseteq writes
      BY <2>3 DEF FinishGoal
    <3> HIDE DEF rec
    <3> QED
      BY <2>0, <3>1, <3>2, <3>3, StoreSkip
  <2>4. CASE CancelGoalOnCanceled(x)
    BY <2>4, NoStoreSkip DEF CancelGoalOnCanceled
  <2> QED
    BY <1>3, <2>1, <2>2, <2>3, <2>4 DEF Run
<1>4. ASSUME NEW x \in executions, Crash(x) PROVE Goal
  BY <1>4, NoStoreSkip DEF Crash
<1>5. ASSUME NEW g \in Goals, NEW r \in Results, SideEffectEnds(g, r) PROVE Goal
  <2> DEFINE rec == [goals[g] EXCEPT !.state = r]
  <2>1. rec \in GoalRec /\ rec.state # "skipped"
    BY <1>0, GoalsAssumption DEF TypeOK, GoalRec, State
  <2>2. executions \in SUBSET Execution
    BY <1>0 DEF TypeOK
  <2>3. StoreGoal(g, rec, executions) /\ writes' \subseteq writes
    BY <1>5 DEF SideEffectEnds
  <2> HIDE DEF rec
  <2> QED
    BY <2>1, <2>2, <2>3, StoreSkip
<1>6. ASSUME NEW g \in Goals, Click(g) PROVE Goal
  BY <1>6, NoStoreSkip DEF Click
<1>7. ASSUME NEW c \in commands, UpdateGoalState(c) PROVE Goal
  <2>1. c.state # "skipped" /\ goals[c.goal] \in GoalRec
    BY <1>0 DEF TypeOK, Command
  <2> DEFINE rec == [goals[c.goal] EXCEPT
                       !.state = c.state,
                       !.preApprovalRequired =
                           IF c.state = "pre_approved" THEN FALSE ELSE @,
                       !.approvalRequired =
                           IF c.state = "approved" THEN FALSE ELSE @]
  <2>2. rec.state = c.state
    BY <2>1 DEF GoalRec
  <2>3. writes' = writes \cup {[by |-> c.goal, goal |-> c.goal, rec |-> rec]}
    BY <1>7 DEF UpdateGoalState
  <2> HIDE DEF rec
  <2>4. ASSUME NEW w \in writes' \ writes PROVE w.rec.state # "skipped"
    BY <2>1, <2>2, <2>3
  <2> QED
    BY <1>7, <2>4, NoStoreSkip DEF UpdateGoalState
<1>8. ASSUME CancelGoalSet PROVE Goal
  <2>1. ASSUME NEW w \in writes', w \notin writes PROVE w.rec.state = "canceled"
    <3>1. PICK g \in Goals : w = Updated(g, g, goals[g], "canceled")
      BY <1>8, <2>1 DEF CancelGoalSet, CancelableNow
    <3> QED
      BY <1>0, <3>1 DEF Updated, TypeOK, GoalRec
  <2> QED
    BY <1>8, <2>1, NoStoreSkip DEF CancelGoalSet
<1>9. ASSUME NEW g \in Goals, TimeoutInProcessGoal(g) PROVE Goal
  <2>1. ASSUME NEW w \in writes' \ writes PROVE w.rec.state # "skipped"
    BY <1>0, <1>9, GoalsAssumption
    DEF TimeoutInProcessGoal, Updated, TypeOK, GoalRec
  <2> QED
    BY <1>9, <2>1, NoStoreSkip DEF TimeoutInProcessGoal
<1>10. CASE UNCHANGED vars
  BY <1>10, NoStoreSkip DEF vars, stored
<1> QED
  BY <1>1, <1>2, <1>3, <1>4, <1>5, <1>6, <1>7, <1>8, <1>9, <1>10 DEF Next

(* A goal is skipped only downstream of a goal that failed or was stopped. *)
THEOREM SkipAlwaysHasCause == Spec => []SkipHasCause
<1>1. Init => SkipInv
  <2> SUFFICES ASSUME Init PROVE SkipInv
    OBVIOUS
  <2>1. OrderInv
    BY OrderInit
  <2>2. SkippedGoals
    BY DEF Init, SkippedGoals, PlannedState
  <2>3. FailureEvents
    <3> SUFFICES ASSUME NEW e \in events
                 PROVE  e.rec.state \notin {"failure", "stopped"}
      BY DEF FailureEvents
    <3>1. PICK g \in Goals : e \in Notifications(g, goals[g])
      BY DEF Init
    <3>2. e.rec = goals[g]
      BY <2>1, <3>1, NotificationsType DEF OrderInv, TypeOK
    <3> QED
      BY <3>2 DEF Init, PlannedState
  <2> QED
    BY <2>1, <2>2, <2>3 DEF Init, SkipInv, SkippedWrites
<1>2. SkipInv => SkipHasCause
  BY DEF SkipInv, SkippedGoals, HasCause, SkipHasCause
<1> QED
  BY <1>1, <1>2, SkipStep, PTL DEF Spec

===============================================================================
