-------------------------- MODULE MCKubernetesJobs --------------------------
(***************************************************************************)
(* Goals and calls to schedule them, to model-check KubernetesJobs with.   *)
(***************************************************************************)
EXTENDS KubernetesJobs

CONSTANTS build, test \* model values: the goals

(* Names as long as they are read: every goal has its own. *)
OwnName == [g \in Goals |-> g]

(* Names that are cut off may be those of several goals. *)
OneName == [g \in Goals |-> build]

(* build is requested twice, test once. *)
TwiceOf == [c \in Calls |-> IF c = "test" THEN test ELSE build]
===============================================================================
