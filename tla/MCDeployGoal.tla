---------------------------- MODULE MCDeployGoal ----------------------------
(* The deploy goal of the inputs, to model-check DeployGoal with.          *)
EXTENDS DeployGoal, Inputs
=============================================================================
