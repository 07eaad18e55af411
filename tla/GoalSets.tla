------------------------------- MODULE GoalSets -------------------------------
(***************************************************************************)
(* The stored state of goal sets, as lib/pack/goal-state keeps it: the     *)
(* 30 second trigger recomputes the state of pending goal sets from their  *)
(* goals, and a command cancels the pending goal sets page by page.        *)
(* Passes of the trigger may overlap, and everybody stores the goal set it *)
(* fetched before.  What moves the goals themselves is GoalDelivery; here  *)
(* it is any move of the relation Moves.  Bound: users cancel once.        *)
(*                                                                         *)
(* Definitions marked "Variant" are plausible mistakes in the definition   *)
(* that follows them; no run uses them.                                    *)
(***************************************************************************)
EXTENDS Naturals, FiniteSets, FiniteSetsExt

CONSTANTS
    Sets,        \* goal sets, numbered by age (their ts): 1 is the oldest
    Goals,       \* the goals of each goal set
    Moves,       \* pairs of states a goal moves between
    Passes,      \* passes of the trigger that may overlap
    ManageFetch, \* goal sets a pass of the trigger fetches (100)
    CancelFetch  \* goal sets a page of the commands holds (50)

Completed == {"success", "canceled", "stopped", "skipped", "failure"}

(* Variant: goal sets that were canceled are still asked for. *)
CanceledToo == {"pre_approved", "requested", "approved", "planned",
                "in_process", "canceled"}

(* The states the query InProcessSdmGoalSets asks for. *)
PendingStates ==
    {"pre_approved", "requested", "approved", "planned", "in_process"}

State == Completed \cup PendingStates
            \cup {"waiting_for_pre_approval", "waiting_for_approval"}

Succeeded == {"success", "skipped"}

(* What the constants are.  A goal that succeeded is not started again     *)
(* within its goal set, one that failed, stopped or was canceled may be.   *)
AreGoalSets ==
    /\ Sets \subseteq Nat /\ IsFiniteSet(Sets)
    /\ Moves \subseteq State \X State
    /\ \A move \in Moves : move[1] \in Succeeded => move[2] \in Succeeded
    /\ ManageFetch \in Nat \ {0} /\ CancelFetch \in Nat \ {0}

VARIABLES
    goals,   \* goals[s][g]: the state of goal g of goal set s
    stored,  \* the state stored for each goal set, or "none" before it is
    passes,  \* the passes of the trigger
    cancel,  \* the command that cancels all pending goal sets
    open     \* history: the goals that have not ended since that command began,
             \* of goal sets that were pending then, <<goal set, goal>>

vars == <<goals, stored, passes, cancel, open>>

Record == [set: Sets, state: State]

Pass == [todo: SUBSET Record, write: SUBSET Record]

Cancel == [phase: {"idle", "page", "goals", "set", "done"}, todo: SUBSET Sets,
           goals: SUBSET Goals]

---------------------------------------------------------------------------
Pending(sets) == {s \in Sets : sets[s] \in PendingStates}

(* The answer of InProcessSdmGoalSets: oldest first. *)
Page(offset, fetch) ==
    {s \in Pending(stored) :
        LET older == Cardinality({t \in Pending(stored) : t < s})
        IN offset <= older /\ older < offset + fetch}

(* goalSetState of @atomist/sdm: the first of these states a goal is in. *)
Priority == <<"failure", "canceled", "stopped", "in_process",
              "waiting_for_pre_approval", "waiting_for_approval",
              "pre_approved", "approved", "requested", "planned", "skipped">>

GoalSetState(states) ==
    LET present == {i \in DOMAIN Priority : Priority[i] \in states}
    IN IF present = {} THEN "success" ELSE Priority[Min(present)]

StatesOf(s) == {goals[s][g] : g \in Goals}

StoreGoalSet(s, state) == stored' = [stored EXCEPT ![s] = state]

NotEnded(pairs, states) == {pair \in pairs : states[pair[1]][pair[2]] \notin Completed}

(* Goals of a push are planned, or planned again by ResetGoalsOnCommit. *)
PlanGoals(s) ==
    /\ stored[s] = "none"
    /\ StoreGoalSet(s, GoalSetState(StatesOf(s)))
    /\ UNCHANGED <<goals, passes, cancel, open>>

MoveGoal(s, g, state) ==
    /\ stored[s] # "none"
    /\ <<goals[s][g], state>> \in Moves
    /\ goals' = [goals EXCEPT ![s][g] = state]
    /\ open' = NotEnded(open, goals')
    /\ UNCHANGED <<stored, passes, cancel>>

---------------------------------------------------------------------------
(* manageGoalSets *)

NoPass == [todo |-> {}, write |-> {}]

StartPass(p) ==
    LET page == Page(0, ManageFetch) IN
    /\ passes[p] = NoPass
    /\ page # {}
    /\ passes' = [passes EXCEPT
         ![p].todo = {[set |-> s, state |-> stored[s]] : s \in page}]
    /\ UNCHANGED <<goals, stored, cancel, open>>

(* Variant: only what is still pending is stored. *)
StoresOnlyPending(state, gs) == state # gs.state /\ state \in PendingStates

IsNewState(state, gs) == state # gs.state

(* The goals of the next goal set are fetched and its state computed. *)
FetchGoals(p, gs) ==
    LET state == GoalSetState(StatesOf(gs.set)) IN
    /\ gs \in passes[p].todo
    /\ \A other \in passes[p].todo : gs.set <= other.set
    /\ passes[p].write = {}
    /\ passes' = [passes EXCEPT
         ![p] = [todo |-> passes[p].todo \ {gs},
                 write |-> IF IsNewState(state, gs)
                           THEN {[set |-> gs.set, state |-> state]} ELSE {}]]
    /\ UNCHANGED <<goals, stored, cancel, open>>

(* Stored as one of these, a goal set is asked for no more, although some  *)
(* of its goals may go on.                                                 *)
LeavesGoalsOpen ==
    {"failure", "canceled", "stopped", "waiting_for_pre_approval", "waiting_for_approval"}

StorePassState(p, gs) ==
    /\ gs \in passes[p].write
    /\ passes' = [passes EXCEPT ![p].write = {}]
    /\ StoreGoalSet(gs.set, gs.state)
    /\ open' = IF gs.state \in LeavesGoalsOpen
               THEN {pair \in open : pair[1] # gs.set} ELSE open
    /\ UNCHANGED <<goals, cancel>>

---------------------------------------------------------------------------
(* cancelGoalSetsCommand *)

StartCancel ==
    /\ cancel.phase = "idle"
    /\ cancel' = [cancel EXCEPT !.phase = "page"]
    /\ open' = NotEnded(Pending(stored) \X Goals, goals)
    /\ UNCHANGED <<goals, stored, passes>>

(* Variant: the pages are counted on, as listPendingGoalSetsCommand does. *)
CountedCancelPage == Page(CancelFetch, CancelFetch)

CancelPage == Page(0, CancelFetch)

FetchCancelPage ==
    /\ cancel.phase = "page"
    /\ cancel' = [cancel EXCEPT
         !.phase = IF CancelPage = {} THEN "done" ELSE "goals",
         !.todo = CancelPage]
    /\ UNCHANGED <<goals, stored, passes, open>>

Oldest(todo) == CHOOSE s \in todo : \A t \in todo : s <= t

(* cancelGoalSet: the goals of the next goal set that have not ended. *)
FetchGoalsToCancel ==
    /\ cancel.phase = "goals"
    /\ cancel' = [cancel EXCEPT
         !.phase = "set",
         !.goals = {g \in Goals :
                      goals[Oldest(cancel.todo)][g] \notin Completed}]
    /\ UNCHANGED <<goals, stored, passes, open>>

CancelGoal(g) ==
    /\ cancel.phase = "set"
    /\ g \in cancel.goals
    /\ goals' = [goals EXCEPT ![Oldest(cancel.todo)][g] = "canceled"]
    /\ cancel' = [cancel EXCEPT !.goals = @ \ {g}]
    /\ open' = NotEnded(open, goals')
    /\ UNCHANGED <<stored, passes>>

CancelGoalSet ==
    LET rest == cancel.todo \ {Oldest(cancel.todo)} IN
    /\ cancel.phase = "set"
    /\ cancel.goals = {}
    /\ StoreGoalSet(Oldest(cancel.todo), "canceled")
    /\ cancel' = [cancel EXCEPT
         !.todo = rest, !.phase = IF rest = {} THEN "page" ELSE "goals"]
    /\ UNCHANGED <<goals, passes, open>>

---------------------------------------------------------------------------
Init ==
    /\ goals \in [Sets -> [Goals -> {"requested"}]]
    /\ stored = [s \in Sets |-> "none"]
    /\ passes = [p \in Passes |-> NoPass]
    /\ cancel = [phase |-> "idle", todo |-> {}, goals |-> {}]
    /\ open = {}

RunPass(p) ==
    \/ StartPass(p)
    \/ \E gs \in passes[p].todo : FetchGoals(p, gs)
    \/ \E gs \in passes[p].write : StorePassState(p, gs)

RunCancel ==
    \/ FetchCancelPage
    \/ FetchGoalsToCancel
    \/ \E g \in Goals : CancelGoal(g)
    \/ CancelGoalSet

Next ==
    \/ \E s \in Sets : PlanGoals(s)
    \/ \E s \in Sets, g \in Goals, state \in State : MoveGoal(s, g, state)
    \/ \E p \in Passes : RunPass(p)
    \/ StartCancel
    \/ RunCancel

Spec == Init /\ [][Next]_vars

(* The trigger fires again and again, its promises and those of a command  *)
(* settle.  A goal that has not ended moves on: otherwise ManageFetch old  *)
(* goal sets that never end keep the trigger from ever seeing younger ones.*)
(* Users type commands when they like.                                     *)
FairSpec ==
    /\ Spec
    /\ \A p \in Passes : WF_vars(RunPass(p))
    /\ WF_vars(RunCancel)
    /\ \A s \in Sets, g \in Goals : WF_vars(
         goals[s][g] \notin Completed /\ \E state \in State : MoveGoal(s, g, state))

---------------------------------------------------------------------------
TypeOK ==
    /\ goals \in [Sets -> [Goals -> State]]
    /\ stored \in [Sets -> State \cup {"none"}]
    /\ passes \in [Passes -> Pass]
    /\ cancel \in Cancel
    /\ open \in SUBSET (Sets \X Goals)

HasEnded(s) == stored[s] # "none" /\ StatesOf(s) \subseteq Completed

(* A goal set whose goals have all ended is stored as ended for good, as   *)
(* manageGoalSetsTrigger documents, although its passes store stale states *)
(* over each other and over a cancellation.                                *)
SetsClose ==
    \A s \in Sets : <>[](HasEnded(s) => stored[s] \in Completed)

(* Canceling all goal sets ends, although passes may store a goal set as   *)
(* pending again after it was canceled (cancelGoalSetsCommand's loop).     *)
CancelEnds == cancel.phase = "page" ~> cancel.phase = "done"

(* When the cancellation is done, every goal of the goal sets that were    *)
(* pending when it began has ended since, canceled or otherwise, unless a  *)
(* pass stored its goal set meanwhile as failed, stopped, canceled or      *)
(* waiting, which hides it from the pages: the pages skip none, no goal of *)
(* a set is left out, and no stale state that a pass stores as succeeded   *)
(* hides a goal that goes on.                                              *)
CancelEndsGoals == cancel.phase = "done" => open = {}

===============================================================================
