----------------------------- MODULE GoalDelivery -----------------------------
(***************************************************************************)
(* The life of the goals of one goal set: the event handlers of            *)
(* lib/handlers/events/delivery/goals and the goal-state commands of       *)
(* lib/pack/goal-state, working on the goals the backend stores.           *)
(*                                                                         *)
(* No handler locks a goal.  Each one reads a goal when its event or query *)
(* arrives, awaits credentials, callbacks, voters or a scheduler, and then *)
(* stores the goal it read with another state; the store keeps the last    *)
(* goal it is given.  Between the read and the store any other handler may *)
(* have stored the same goal.  Here a handler's read is one step, which    *)
(* leaves the goals it is about to store in "writes"; Store lands one of   *)
(* them.  Every store notifies the handlers subscribed to the new state,   *)
(* and notifications are delivered in any order and any time later.        *)
(*                                                                         *)
(* Definitions marked "Variant" are plausible mistakes in the definition   *)
(* that follows them; no run uses them.                                    *)
(***************************************************************************)
EXTENDS Naturals, FiniteSets, Relation

CONSTANTS
    Goals,          \* the goals of the goal set, by unique name
    Pre,            \* Pre[g]: the preConditions of g
    Method,         \* Method[g]: "Sdm": this SDM executes g, a goal of its own or a side
                    \* effect registered with it; "SideEffect": another SDM does
    OwnSideEffects, \* side-effect goals whose fulfillment.name is this SDM
    PreApproval,    \* goals planned with preApprovalRequired
    Approval,       \* goals planned with approvalRequired
    Retryable,      \* goals with retryFeasible
    Cancelable,     \* goals cancelableGoal() accepts
    Isolated,       \* goals a goal scheduler supports
    Results,        \* states an execution may end in
    UserActions,    \* which of "approve", "restart", "cancel" users do
    Timeouts,       \* is the goal-state trigger with its timeout enabled?
    TimeoutState,   \* the state it gives goals that timed out
    Crashes,        \* may a process running a goal die?
    MaxRuns         \* bound: executions of one goal at the same time

State == {"planned", "requested", "in_process", "waiting_for_pre_approval",
          "pre_approved", "waiting_for_approval", "approved", "success",
          "failure", "skipped", "canceled", "stopped"}

GoalRec == [state: State, preApprovalRequired: BOOLEAN,
            approvalRequired: BOOLEAN]

ASSUME GoalsAssumption ==
    /\ Pre \in [Goals -> SUBSET Goals]
    /\ Results \subseteq {"success", "failure", "stopped"}
    /\ TimeoutState \in {"canceled", "failure"}
    /\ MaxRuns \in Nat

ASSUME SetupAssumption ==
    /\ IsFiniteSet(Goals)
    /\ Method \in [Goals -> {"Sdm", "SideEffect", "Other"}]
    /\ {OwnSideEffects, PreApproval, Approval, Retryable, Cancelable,
        Isolated} \subseteq SUBSET Goals
    /\ UserActions \subseteq {"approve", "restart", "cancel"}
    /\ {Timeouts, Crashes} \subseteq BOOLEAN

VARIABLES
    goals,      \* the goals as the backend stores them
    events,     \* notifications on their way to a handler
    writes,     \* updateGoal calls whose goal was read and is not yet stored
    commands,   \* UpdateGoalStateCommand clicks not yet handled
    executions, \* jobs and in-process executions of goals
    opened,     \* history: goals stored in a state of Released
    succeeded,  \* history: goals stored in state success
    failed,     \* history: goals stored in state failure or stopped
    started,    \* history: goals whose pre-approval the voters granted
    accepted    \* history: goals whose approval the voters granted

stored == <<goals, opened, succeeded, failed>>
votes == <<started, accepted>>
vars == <<goals, events, writes, commands, executions, opened, succeeded,
          failed, started, accepted>>

(* States a goal is in only after it was requested or offered for start. *)
Released == State \ {"planned", "skipped", "canceled"}

Handlers == {"fulfill", "request", "skip", "vote"}

Event == [to: Handlers, goal: Goals, rec: GoalRec]

(* "by" tells apart the requests of handlers that answer the successes of  *)
(* different preconditions: each of them may request the goal.  Other      *)
(* stores of the same record that are under way together count as one.     *)
Write == [by: Goals, goal: Goals, rec: GoalRec]

Command == [goal: Goals, state: {"pre_approved", "approved", "requested"}]

(* stage "created": the job exists, its process is not up; "ready": the    *)
(* handler decided to execute; "running": the goal is marked in_process.   *)
(* "notified" tells that CancelGoalOnCanceled is about to run in the job.  *)
Execution == [goal: Goals, run: 1..MaxRuns, isolated: BOOLEAN,
              stage: {"created", "ready", "running"}, rec: GoalRec,
              notified: BOOLEAN]

---------------------------------------------------------------------------
(* The store *)

(* The subscriptions of lib/graphql/subscription. *)
Subscribers(s) ==
    CASE s = "requested" -> {"fulfill"}
      [] s = "success" -> {"request"}
      [] s \in {"failure", "stopped", "canceled"} -> {"skip"}
      [] s \in {"approved", "pre_approved"} -> {"vote"}
      [] OTHER -> {}

Notifications(g, rec) ==
    {[to |-> h, goal |-> g, rec |-> rec] : h \in Subscribers(rec.state)}

(* A job that is up listens for its own goal being canceled. *)
NotifyJobs(g, rec, xs) ==
    {IF x.goal = g /\ x.isolated /\ x.stage # "created" /\ rec.state = "canceled"
     THEN [x EXCEPT !.notified = TRUE] ELSE x : x \in xs}

Note(g, isNoted, history) == IF isNoted THEN history \cup {g} ELSE history

(* The store takes rec for g, whatever it holds, and notifies; xs are the  *)
(* executions that go on.                                                  *)
StoreGoal(g, rec, xs) ==
    /\ goals' = [goals EXCEPT ![g] = rec]
    /\ events' = events \cup Notifications(g, rec)
    /\ executions' = NotifyJobs(g, rec, xs)
    /\ opened' = Note(g, rec.state \in Released, opened)
    /\ succeeded' = Note(g, rec.state = "success", succeeded)
    /\ failed' = Note(g, rec.state \in {"failure", "stopped"}, failed)

(* The goal "before", as it was read, about to be stored in state s. *)
Updated(by, g, before, s) ==
    [by |-> by, goal |-> g, rec |-> [before EXCEPT !.state = s]]

Store(w) ==
    /\ w \in writes
    /\ writes' = writes \ {w}
    /\ StoreGoal(w.goal, w.rec, executions)
    /\ UNCHANGED <<commands, votes>>

---------------------------------------------------------------------------
(* FulfillGoalOnRequested *)

CanceledMeanwhile(g) == g \in Cancelable /\ goals[g].state = "canceled"

Take(e, handler) ==
    /\ e \in events
    /\ e.to = handler
    /\ events' = events \ {e}

(* Another registration fulfills the goal, or the query finds it canceled. *)
IgnoreRequest(e) ==
    /\ Take(e, "fulfill")
    /\ Method[e.goal] = "SideEffect" \/ CanceledMeanwhile(e.goal)
    /\ UNCHANGED <<stored, writes, commands, executions, votes>>

(* The handler goes on with the goal of its event, by the method given. *)
Fulfill(e, method) ==
    /\ Take(e, "fulfill")
    /\ Method[e.goal] = method
    /\ ~CanceledMeanwhile(e.goal)

FailUnfulfillable(e) ==
    /\ Fulfill(e, "Other")
    /\ writes' = writes \cup {Updated(e.goal, e.goal, e.rec, "failure")}
    /\ UNCHANGED <<stored, commands, executions, votes>>

FreeRuns(g, xs) == (1..MaxRuns) \ {x.run : x \in {y \in xs : y.goal = g}}

(* xs with one more execution of g, in a run that is free. *)
Launch(g, xs, isIsolated, initialStage, before) ==
    \E r \in FreeRuns(g, xs) :
        executions' = xs \cup
            {[goal |-> g, run |-> r, isolated |-> isIsolated,
              stage |-> initialStage, rec |-> before, notified |-> FALSE]}

WithoutJob(g) == {x \in executions : ~(x.goal = g /\ x.isolated)}

(* The scheduler replaces the job of the goal; when it has returned, the   *)
(* goal of the event is stored as in_process, "scheduled".                 *)
ScheduleGoal(e) ==
    /\ Fulfill(e, "Sdm")
    /\ e.goal \in Isolated
    /\ Launch(e.goal, WithoutJob(e.goal), TRUE, "created", e.rec)
    /\ writes' = writes \cup {Updated(e.goal, e.goal, e.rec, "in_process")}
    /\ UNCHANGED <<stored, commands, votes>>

(* The scheduler fails to delete the old job or to create the new one, or  *)
(* it creates the new one and the answer is lost.                          *)
FailToSchedule(e) ==
    /\ Fulfill(e, "Sdm")
    /\ e.goal \in Isolated
    /\ writes' = writes \cup {Updated(e.goal, e.goal, e.rec, "failure")}
    /\ \/ executions' \in {executions, WithoutJob(e.goal)}
       \/ Launch(e.goal, WithoutJob(e.goal), TRUE, "created", e.rec)
    /\ UNCHANGED <<stored, commands, votes>>

(* No scheduler supports the goal: it is executed in this process. *)
StartInProcess(e) ==
    /\ Fulfill(e, "Sdm")
    /\ e.goal \notin Isolated
    /\ Launch(e.goal, executions, FALSE, "ready", e.rec)
    /\ UNCHANGED <<stored, writes, commands, votes>>

(* The job's process comes up, queries its goal and runs the same handler, *)
(* whatever state the goal is in; or it finds the goal canceled and exits. *)
StartJob(x) ==
    /\ x \in executions
    /\ x.stage = "created"
    /\ executions' = (executions \ {x}) \cup
         (IF CanceledMeanwhile(x.goal) THEN {}
          ELSE {[x EXCEPT !.stage = "ready", !.rec = goals[x.goal]]})
    /\ UNCHANGED <<stored, events, writes, commands, votes>>

(* executeGoal marks the goal in_process, ... *)
MarkInProcess(x) ==
    LET rec == [x.rec EXCEPT !.state = "in_process"] IN
    /\ x \in executions
    /\ x.stage = "ready"
    /\ StoreGoal(x.goal, rec,
                 (executions \ {x}) \cup {[x EXCEPT !.stage = "running",
                                                    !.rec = rec]})
    /\ UNCHANGED <<writes, commands, votes>>

(* Variant: the result is stored whether or not it needs an approval. *)
UncheckedResult(rec, result) == result

ResultState(rec, result) ==
    IF result = "success" /\ rec.approvalRequired
    THEN "waiting_for_approval" ELSE result

(* ... executes it and stores the result. *)
FinishGoal(x, result) ==
    /\ x \in executions
    /\ x.stage = "running"
    /\ StoreGoal(x.goal, [x.rec EXCEPT !.state = ResultState(x.rec, result)],
                 executions \ {x})
    /\ UNCHANGED <<writes, commands, votes>>

(* CancelGoalOnCanceled: the job exits and stores nothing. *)
CancelGoalOnCanceled(x) ==
    /\ x \in executions
    /\ x.notified
    /\ x.goal \in Cancelable
    /\ executions' = executions \ {x}
    /\ UNCHANGED <<stored, events, writes, commands, votes>>

Crash(x) ==
    /\ Crashes
    /\ x \in executions
    /\ executions' = executions \ {x}
    /\ UNCHANGED <<stored, events, writes, commands, votes>>

(* A side-effect goal of another registration, reported by that system. *)
SideEffectEnds(g, result) ==
    /\ Method[g] = "SideEffect"
    /\ goals[g].state = "requested"
    /\ StoreGoal(g, [goals[g] EXCEPT !.state = result], executions)
    /\ UNCHANGED <<writes, commands, votes>>

---------------------------------------------------------------------------
(* RequestDownstreamGoalsOnGoalSuccess *)

ShouldBePlannedOrSkipped(g) ==
    \/ goals[g].state \in {"planned", "skipped"}
    \/ goals[g].state = "failure" /\ g \in Retryable

(* Variant: one successful precondition is enough. *)
SomePreconditionIsMet(g) == \E p \in Pre[g] : goals[p].state = "success"

PreconditionsAreMet(g) == \A p \in Pre[g] : goals[p].state = "success"

(* Variant: only a goal's single precondition is compared. *)
IsOnlyPrecondition(f, g) == Pre[g] = {f}

IsDirectlyDependentOn(f, g) == f \in Pre[g]

ExpectToBeFulfilledAfterRequest(g) == g \notin OwnSideEffects

GoalsToRequest(success) ==
    {g \in Goals : /\ IsDirectlyDependentOn(success, g)
                   /\ ExpectToBeFulfilledAfterRequest(g)
                   /\ ShouldBePlannedOrSkipped(g)
                   /\ PreconditionsAreMet(g)}

(* Variant: the pre-approval is forgotten. *)
AlwaysRequested(g) == "requested"

DownstreamState(g) == IF goals[g].preApprovalRequired
                      THEN "waiting_for_pre_approval" ELSE "requested"

RequestDownstreamGoalsOnGoalSuccess(e) ==
    /\ Take(e, "request")
    /\ writes' = writes \cup
         {Updated(e.goal, g, goals[g], DownstreamState(g))
            : g \in GoalsToRequest(e.goal)}
    /\ UNCHANGED <<stored, commands, executions, votes>>

---------------------------------------------------------------------------
(* SkipDownstreamGoalsOnGoalFailure *)

Dependencies ==
    TransitiveClosure([d \in Goals \X Goals |-> d[1] \in Pre[d[2]]], Goals)

(* f is a precondition of g, or of a precondition of g, and so on. *)
IsDependentOn(f, g) == Dependencies[f, g]

(* Variant: only the next goal down. *)
NextGoalsToSkip(f) ==
    {g \in Goals : f \in Pre[g] /\ goals[g].state = "planned"}

GoalsToSkip(f) ==
    {g \in Goals : IsDependentOn(f, g) /\ goals[g].state = "planned"}

(* Variant: goals downstream of a canceled goal count as skipped. *)
AlwaysSkipped(s) == "skipped"

(* Variant: the state is given as its description words it. *)
DescribedState(s) == IF s = "canceled" THEN "Canceled" ELSE "Skipped"

FailedGoalState(s) == IF s = "canceled" THEN "canceled" ELSE "skipped"

SkipDownstreamGoalsOnGoalFailure(e) ==
    /\ Take(e, "skip")
    /\ writes' = writes \cup
         {Updated(g, g, goals[g], FailedGoalState(e.rec.state))
            : g \in GoalsToSkip(e.goal)}
    /\ UNCHANGED <<stored, commands, executions, votes>>

---------------------------------------------------------------------------
(* VoteOnGoalApprovalRequest *)

Decisions == {"Granted", "Denied", "Abstain"}

(* The state the decision gives the goal of the event. *)
VotedState(s, decision) ==
    CASE decision = "Granted" /\ s = "pre_approved" -> "requested"
      [] decision = "Granted" /\ s = "approved" -> "success"
      [] decision = "Denied" /\ s = "pre_approved" -> "waiting_for_pre_approval"
      [] decision = "Denied" /\ s = "approved" -> "waiting_for_approval"
      [] OTHER -> s

VoteOnGoalApprovalRequest(e, decision) ==
    LET granted(s) == decision = "Granted" /\ e.rec.state = s IN
    /\ Take(e, "vote")
    /\ writes' = IF decision = "Abstain" THEN writes
                 ELSE writes \cup
                   {Updated(e.goal, e.goal, e.rec,
                            VotedState(e.rec.state, decision))}
    /\ started' = Note(e.goal, granted("pre_approved"), started)
    /\ accepted' = Note(e.goal, granted("approved"), accepted)
    /\ UNCHANGED <<stored, commands, executions>>

---------------------------------------------------------------------------
(* The goal-state commands and trigger *)

(* The button a user is shown for a goal in state s, and the state it sets. *)
Buttons(g, s) ==
    CASE s = "waiting_for_pre_approval" -> {<<"approve", "pre_approved">>}
      [] s = "waiting_for_approval" -> {<<"approve", "approved">>}
      [] s = "failure" /\ g \in Retryable -> {<<"restart", "requested">>}
      [] OTHER -> {}

Click(g) ==
    \E b \in Buttons(g, goals[g].state) :
        /\ b[1] \in UserActions
        /\ commands' = commands \cup {[goal |-> g, state |-> b[2]]}
        /\ UNCHANGED <<stored, events, writes, executions, votes>>

(* The command queries the goal, and sets the state of the click without   *)
(* a look at the state the goal is in; it drops the need for an approval   *)
(* before anybody voted on it.                                             *)
UpdateGoalState(c) ==
    LET rec == [goals[c.goal] EXCEPT
                  !.state = c.state,
                  !.preApprovalRequired =
                      IF c.state = "pre_approved" THEN FALSE ELSE @,
                  !.approvalRequired =
                      IF c.state = "approved" THEN FALSE ELSE @]
    IN
    /\ c \in commands
    /\ commands' = commands \ {c}
    /\ writes' = writes \cup {[by |-> c.goal, goal |-> c.goal, rec |-> rec]}
    /\ UNCHANGED <<stored, events, executions, votes>>

Completed == {"success", "canceled", "stopped", "skipped", "failure"}

CancelableNow == {g \in Goals : goals[g].state \notin Completed}

CancelGoalSet ==
    /\ "cancel" \in UserActions
    /\ writes' = writes \cup {Updated(g, g, goals[g], "canceled")
                                : g \in CancelableNow}
    /\ UNCHANGED <<stored, events, commands, executions, votes>>

(* Variant: only goals still waiting for a process time out. *)
TimesOutWhileRequested(g) == goals[g].state = "requested"

TimesOut(g) == goals[g].state \in {"requested", "in_process"}

TimeoutInProcessGoal(g) ==
    /\ Timeouts
    /\ TimesOut(g)
    /\ writes' = writes \cup {Updated(g, g, goals[g], TimeoutState)}
    /\ UNCHANGED <<stored, events, commands, executions, votes>>

---------------------------------------------------------------------------
(* chooseAndSetGoals plans every goal and requests those that wait for none. *)
PlannedState(g) ==
    IF Pre[g] # {} THEN "planned"
    ELSE IF g \in PreApproval THEN "waiting_for_pre_approval" ELSE "requested"

Init ==
    /\ goals = [g \in Goals |-> [state |-> PlannedState(g),
                                 preApprovalRequired |-> g \in PreApproval,
                                 approvalRequired |-> g \in Approval]]
    /\ events = UNION {Notifications(g, goals[g]) : g \in Goals}
    /\ opened = {g \in Goals : Pre[g] = {}}
    /\ writes = {} /\ commands = {} /\ executions = {}
    /\ succeeded = {} /\ failed = {} /\ started = {} /\ accepted = {}

(* What the SDM does with one notification. *)
HandleEvent(e) ==
    \/ IgnoreRequest(e)
    \/ FailUnfulfillable(e)
    \/ ScheduleGoal(e)
    \/ FailToSchedule(e)
    \/ StartInProcess(e)
    \/ RequestDownstreamGoalsOnGoalSuccess(e)
    \/ SkipDownstreamGoalsOnGoalFailure(e)
    \/ \E d \in Decisions : VoteOnGoalApprovalRequest(e, d)

(* What a process executing a goal does. *)
Run(x) ==
    \/ StartJob(x)
    \/ MarkInProcess(x)
    \/ \E r \in Results : FinishGoal(x, r)
    \/ CancelGoalOnCanceled(x)

Next ==
    \/ \E w \in writes : Store(w)
    \/ \E e \in events : HandleEvent(e)
    \/ \E x \in executions : Run(x)
    \/ \E x \in executions : Crash(x)
    \/ \E g \in Goals, r \in Results : SideEffectEnds(g, r)
    \/ \E g \in Goals : Click(g)
    \/ \E c \in commands : UpdateGoalState(c)
    \/ CancelGoalSet
    \/ \E g \in Goals : TimeoutInProcessGoal(g)

Spec == Init /\ [][Next]_vars

(* Every event is delivered, every promise settles, a scheduled job comes  *)
(* up and ends, and the 30 second trigger sees every timed out goal.       *)
(* Users are under no obligation and crashes are not promised.             *)
Fairness ==
    /\ \A g \in Goals :
        /\ WF_vars(\E w \in writes : w.goal = g /\ Store(w))
        /\ WF_vars(\E x \in executions : x.goal = g /\ Run(x))
        /\ WF_vars(\E r \in Results : SideEffectEnds(g, r))
        /\ WF_vars(TimeoutInProcessGoal(g))
        /\ \A h \in Handlers : WF_vars(
             \E e \in events : e.goal = g /\ e.to = h /\ HandleEvent(e))
    /\ WF_vars(\E c \in commands : UpdateGoalState(c))

FairSpec == Spec /\ Fairness

---------------------------------------------------------------------------
(* Properties *)

(* The variables hold what the code stores and sends. *)
TypeOK ==
    /\ goals \in [Goals -> GoalRec]
    /\ events \subseteq Event
    /\ writes \subseteq Write
    /\ commands \subseteq Command
    /\ executions \subseteq Execution
    /\ opened \subseteq Goals /\ succeeded \subseteq Goals
    /\ failed \subseteq Goals
    /\ started \subseteq Goals /\ accepted \subseteq Goals

(* However late or stale the handlers' stores are, a goal is requested,    *)
(* offered for start, executed or finished only after each of its          *)
(* preconditions succeeded (RequestDownstreamGoalsOnGoalSuccess).          *)
PreconditionsFirst ==
    \A g \in Goals : goals[g].state \in Released => Pre[g] \subseteq succeeded

(* A goal that needs a pre-approval is requested, executed and finished    *)
(* only after voters granted a start (VoteOnGoalApprovalRequest), even     *)
(* though updateGoalStateCommand clears preApprovalRequired before that.   *)
StartGate ==
    \A g \in PreApproval :
        goals[g].state \in Released \ {"waiting_for_pre_approval", "pre_approved"}
            => g \in started

(* A goal that needs an approval is in state success only after voters     *)
(* granted one: the decision is VoteOnGoalApprovalRequest's to make.       *)
ApprovalGate ==
    \A g \in Approval : goals[g].state = "success" => g \in accepted

(* A goal is skipped only downstream of a goal that failed or was stopped. *)
SkipHasCause ==
    \A g \in Goals : goals[g].state = "skipped"
        => \E f \in failed : IsDependentOn(f, g)

Active == {"requested", "in_process"}

AwaitsVoteOrUser == {"waiting_for_pre_approval", "pre_approved",
                     "waiting_for_approval", "approved"}

(* No goal stays requested or in_process for ever. *)
Settles ==
    \A g \in Goals : goals[g].state \in Active ~> goals[g].state \notin Active

(* No goal is forgotten in state planned: it is requested, skipped or      *)
(* canceled, unless a goal it depends on waits for a user or for votes.    *)
NothingLeftBehind ==
    \A g \in Goals \ OwnSideEffects :
        goals[g].state = "planned"
            ~> \/ goals[g].state # "planned"
               \/ \E p \in Goals : /\ IsDependentOn(p, g)
                                   /\ goals[p].state \in AwaitsVoteOrUser

(* When no execution fails, every goal ends in success for good: no order  *)
(* of deliveries and stores loses a goal or overwrites its end             *)
(* (RequestDownstreamGoalsOnGoalSuccess, FulfillGoalOnRequested).          *)
AllSucceed ==
    [](failed = {}) => <>[](\A g \in Goals : goals[g].state = "success")

(* The set comes to rest: handlers and executions do not keep waking each  *)
(* other, and what they leave is a set of goals that are all completed.    *)
ComesToRest ==
    <>[](/\ events = {} /\ writes = {} /\ executions = {}
         /\ \A g \in Goals : goals[g].state \in Completed)

Order == INSTANCE DependencyOrder

(* Every step opens or completes goals in the order of their dependencies, *)
(* or changes neither: the handlers implement DependencyOrder.             *)
InDependencyOrder == Order!Spec

===============================================================================
