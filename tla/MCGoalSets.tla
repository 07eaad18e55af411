------------------------------ MODULE MCGoalSets ------------------------------
(***************************************************************************)
(* How goals move, to model-check GoalSets with.                           *)
(***************************************************************************)
EXTENDS GoalSets

(* Goals that users approve. *)
ApprovalMoves ==
    {<<"requested", "in_process">>, <<"in_process", "waiting_for_approval">>,
     <<"waiting_for_approval", "approved">>, <<"approved", "success">>}
===============================================================================
