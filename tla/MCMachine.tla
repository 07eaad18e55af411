------------------------------ MODULE MCMachine ------------------------------
(***************************************************************************)
(* Goals, repositories and documents to model-check Machine with.          *)
(***************************************************************************)
EXTENDS Machine, MCKubernetesJobs, Inputs
===============================================================================
