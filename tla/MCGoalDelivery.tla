---------------------------- MODULE MCGoalDelivery ----------------------------
(***************************************************************************)
(* Goal sets and settings to model-check GoalDelivery with.                *)
(***************************************************************************)
EXTENDS GoalDelivery, TLC

CONSTANTS build, test, lint, deploy, \* model values: the goals
          SideEffect, Other          \* goals with these fulfillment methods

MethodOf == [g \in Goals |-> CASE g \in SideEffect -> "SideEffect"
                                [] g \in Other -> "Other"
                                [] OTHER -> "Sdm"]

(* deploy waits for build and test, which run at the same time. *)
JoinPre == (build :> {}) @@ (test :> {}) @@ (deploy :> {build, test})

(* build and test start together, lint waits for both, deploy for lint and *)
(* test.                                                                   *)
LatticePre == (build :> {}) @@ (test :> {}) @@ (lint :> {build, test})
                @@ (deploy :> {lint, test})

(* deploy waits for test, test for build. *)
ChainPre == (build :> {}) @@ (test :> {build}) @@ (deploy :> {test})

PairPre == (build :> {}) @@ (deploy :> {build})

SinglePre == (deploy :> {})

(* Bound: stores under way at the same time, in a run of invariants. *)
FewStores == Cardinality(writes) <= 3
===============================================================================
