---------------------------- MODULE MCDeployment ----------------------------
(***************************************************************************)
(* Applications, selectors, registrations and goals to model-check         *)
(* Deployment with.                                                        *)
(***************************************************************************)
EXTENDS Deployment, MCKubernetesApps, Inputs
===============================================================================
