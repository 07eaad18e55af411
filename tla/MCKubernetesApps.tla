--------------------------- MODULE MCKubernetesApps ---------------------------
(***************************************************************************)
(* Requests to model-check KubernetesApps with.                            *)
(***************************************************************************)
EXTENDS KubernetesApps

Web(ns, role, port, path, secrets) ==
    [op |-> "deploy", name |-> "web", ns |-> ns, role |-> role,
     serviceAccount |-> FALSE, port |-> port, path |-> path, secrets |-> secrets]

UndeployWeb(ns) == [op |-> "undeploy", name |-> "web", ns |-> ns]

(* One application, deployed in two ways and undeployed. *)
OneApplication ==
    [first |-> {Web("prod", "none", FALSE, FALSE, {"tls"})},
     second |-> {Web("prod", "ClusterRole", FALSE, FALSE, {}),
                 Web("prod", "none", TRUE, TRUE, {})},
     undeploy |-> {UndeployWeb("prod")}]
===============================================================================
