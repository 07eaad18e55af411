---------------------------- MODULE KubernetesApps ----------------------------
(***************************************************************************)
(* Deploying applications to a Kubernetes cluster and undeploying them.    *)
(* upsertApplication reads each resource an application asks for, one      *)
(* after the other, and creates or patches it; only its secrets are        *)
(* upserted in parallel.  deleteApplication lists the resources with the   *)
(* application's labels, kind by kind, and deletes them by name.  Calls    *)
(* for one application, or for applications of one name, run at the same   *)
(* time, requests fail, and answers get lost.                              *)
(*                                                                         *)
(* Definitions marked "Variant" are plausible mistakes in the definition   *)
(* that follows them; no run uses them.                                    *)
(***************************************************************************)
EXTENDS Naturals, Sequences

CONSTANTS
    Calls,     \* calls of upsertApplication and deleteApplication
    Requests,  \* the requests each call may carry
    Tries,     \* attempts logRetry makes
    MaxFaults  \* requests that fail, or whose answer gets lost (a bound)

ASSUME AppsAssumption ==
    Tries \in Nat \ {0} /\ MaxFaults \in Nat /\ "nobody" \notin Calls

VARIABLES
    req,       \* the request each call carries
    cluster,   \* the call whose spec each resource has, "nobody" if it is missing
    progress,  \* how far a deploying call is with each resource
    tries,     \* failed attempts to create or patch it
    listed,    \* the kinds an undeploying call has listed
    deleting,  \* the resources it has listed and not yet deleted
    errors,    \* has it met an error?
    faults,    \* requests that have failed
    hindered,  \* history: requests that met an error or somebody's change
    replaced,  \* history: what a call wrote and another one changed
    late       \* history: what was written after an undeploying call listed it

deploying == <<progress, tries>>
undeploying == <<listed, deleting, errors>>
history == <<hindered, replaced, late>>
vars == <<req, cluster, faults, deploying, undeploying, history>>

---------------------------------------------------------------------------
(* What a request asks for.  Resources have the application's name, except *)
(* its namespace and its secrets.                                          *)

When(condition, S) == IF condition THEN S ELSE {}

InCluster(kind, name) == [kind |-> kind, ns |-> "none", name |-> name]

InNamespace(q, kind) == [kind |-> kind, ns |-> q.ns, name |-> q.name]

NamespaceOf(q) == {InCluster("Namespace", q.ns)}

(* A role is bound to an account, asked for or not. *)
ServiceAccountOf(q) ==
    When(q.serviceAccount \/ q.role # "none", {InNamespace(q, "ServiceAccount")})

RoleOf(q) ==
    When(q.role = "ClusterRole", {InCluster("ClusterRole", q.name)})
      \cup When(q.role = "Role", {InNamespace(q, "Role")})

RoleBindingOf(q) ==
    When(q.role = "ClusterRole", {InCluster("ClusterRoleBinding", q.name)})
      \cup When(q.role = "Role", {InNamespace(q, "RoleBinding")})

ServiceOf(q) == When(q.port, {InNamespace(q, "Service")})

SecretsOf(q) == {[kind |-> "Secret", ns |-> q.ns, name |-> s] : s \in q.secrets}

DeploymentOf(q) == {InNamespace(q, "Deployment")}

IngressOf(q) == When(q.port /\ q.path, {InNamespace(q, "Ingress")})

Wanted(q) ==
    UNION { NamespaceOf(q), ServiceAccountOf(q), RoleOf(q), RoleBindingOf(q),
            ServiceOf(q), SecretsOf(q), DeploymentOf(q), IngressOf(q) }

(* upsertApplication awaits one kind after the other. *)
UpsertOrder ==
    [Namespace |-> 1, ServiceAccount |-> 2, Role |-> 3, ClusterRole |-> 3,
     RoleBinding |-> 4, ClusterRoleBinding |-> 4, Service |-> 5, Secret |-> 6,
     Deployment |-> 7, Ingress |-> 8]

IsBefore(r, s) == UpsertOrder[r.kind] < UpsertOrder[s.kind]

(* The kinds deleteApplication looks at, in its order. *)
DeletedKinds ==
    << "Ingress", "Deployment", "Secret", "Service", "ClusterRoleBinding",
       "RoleBinding", "ClusterRole", "Role", "ServiceAccount" >>

Kinds == {DeletedKinds[i] : i \in 1..9}

---------------------------------------------------------------------------
AllRequests == UNION {Requests[c] : c \in Calls}

Resources == UNION {Wanted(q) : q \in {q \in AllRequests : q.op = "deploy"}}

Deploys == {c \in Calls : req[c].op = "deploy"}

Undeploys == {c \in Calls : req[c].op = "undeploy"}

Exists(r) == cluster[r] # "nobody"

Done(c, r) == progress[c][r] = "done"

Deployed(c) == c \in Deploys /\ \A r \in Wanted(req[c]) : Done(c, r)

Undeployed(c) ==
    /\ c \in Undeploys
    /\ listed[c] = Kinds /\ deleting[c] = {}
    /\ ~errors[c]

(* A request between reading a resource and writing it. *)
HasRead(c, r) == progress[c][r] \in {"create", "patch"}

---------------------------------------------------------------------------
(* Requests to the cluster *)

Fault == faults < MaxFaults /\ faults' = faults + 1

(* What a change of r means to the calls that read or wrote it before. *)
Overtake(calls, r) ==
    /\ hindered' = hindered \cup {<<d, r>> : d \in {d \in calls : HasRead(d, r)}}
    /\ replaced' = replaced \cup {<<d, r>> : d \in calls \cap {cluster[r]}}

(* The call itself is hindered when it does not get an answer. *)
Apply(c, r, answered) ==
    /\ cluster' = [cluster EXCEPT ![r] = c]
    /\ Overtake(IF answered THEN Calls \ {c} ELSE Calls, r)
    /\ late' = late \cup {<<u, r>> : u \in {u \in Calls : r.kind \in listed[u]}}

Remove(r) ==
    /\ cluster' = [cluster EXCEPT ![r] = "nobody"]
    /\ Overtake(Calls, r)
    /\ UNCHANGED late

Hinder(c, r) ==
    /\ hindered' = hindered \cup {<<c, r>>}
    /\ UNCHANGED <<replaced, late>>

---------------------------------------------------------------------------
(* upsertApplication *)

SetProgress(c, r, p) == progress' = [progress EXCEPT ![c][r] = p]

(* r is upserted once everything before it was.  When one of several       *)
(* secrets fails, the requests for the others go on.                       *)
IsNext(c, r) ==
    LET wanted == Wanted(req[c])
    IN  r \in wanted /\ \A s \in wanted : IsBefore(s, r) => Done(c, s)

(* Variant: what was read does not matter. *)
AlwaysCreate(r) == "create"

WriteFor(r) == IF Exists(r) THEN "patch" ELSE "create"

Read(c, r) ==
    /\ c \in Deploys
    /\ progress[c][r] = "no"
    /\ IsNext(c, r)
    /\ SetProgress(c, r, WriteFor(r))
    /\ UNCHANGED <<faults, req, cluster, tries, undeploying, history>>

(* Any error of reading is taken for a missing resource. *)
FailToRead(c, r) ==
    /\ Fault
    /\ c \in Deploys
    /\ progress[c][r] = "no"
    /\ IsNext(c, r)
    /\ SetProgress(c, r, "create")
    /\ Hinder(c, r)
    /\ UNCHANGED <<req, cluster, tries, undeploying>>

(* The cluster creates what is missing and patches what exists. *)
Accepts(c, r) ==
    \/ progress[c][r] = "create" /\ ~Exists(r)
    \/ progress[c][r] = "patch" /\ Exists(r)

(* Variant: an error of patching any resource is ignored. *)
GiveUpPatching(c, r) == IF progress[c][r] = "patch" THEN "done" ELSE "failed"

(* Only an existing namespace need not be patched. *)
GiveUp(c, r) ==
    IF r.kind = "Namespace" /\ progress[c][r] = "patch" THEN "done" ELSE "failed"

(* logRetry *)
Retry(c, r) ==
    IF tries[c][r] + 1 < Tries
    THEN /\ tries' = [tries EXCEPT ![c][r] = @ + 1]
         /\ UNCHANGED progress
    ELSE /\ SetProgress(c, r, GiveUp(c, r))
         /\ UNCHANGED tries

Write(c, r) ==
    /\ c \in Deploys
    /\ Accepts(c, r)
    /\ SetProgress(c, r, "done")
    /\ Apply(c, r, TRUE)
    /\ UNCHANGED <<faults, req, tries, undeploying>>

(* The resource is written, and the answer does not arrive. *)
LoseAnswer(c, r) ==
    /\ Fault
    /\ c \in Deploys
    /\ Accepts(c, r)
    /\ Retry(c, r)
    /\ Apply(c, r, FALSE)
    /\ UNCHANGED <<req, undeploying>>

Refuse(c, r) ==
    /\ c \in Deploys
    /\ HasRead(c, r)
    /\ ~Accepts(c, r)
    /\ Retry(c, r)
    /\ UNCHANGED <<faults, req, cluster, undeploying, history>>

FailToWrite(c, r) ==
    /\ Fault
    /\ c \in Deploys
    /\ HasRead(c, r)
    /\ Retry(c, r)
    /\ Hinder(c, r)
    /\ UNCHANGED <<req, cluster, undeploying>>

---------------------------------------------------------------------------
(* deleteApplication *)

(* The labels of a resource are those of the application that wrote it     *)
(* last; cluster roles are listed in no namespace.                         *)
Selects(u, r) ==
    /\ Exists(r)
    /\ r.ns \in {req[u].ns, "none"}
    /\ req[cluster[r]].name = req[u].name

IsNextKind(u, i) ==
    /\ DeletedKinds[i] \notin listed[u]
    /\ \A j \in 1..(i - 1) : DeletedKinds[j] \in listed[u]
    /\ deleting[u] = {}

ListKind(u, i) ==
    /\ u \in Undeploys
    /\ IsNextKind(u, i)
    /\ listed' = [listed EXCEPT ![u] = @ \cup {DeletedKinds[i]}]
    /\ deleting' = [deleting EXCEPT ![u] =
                      {r \in Resources : r.kind = DeletedKinds[i] /\ Selects(u, r)}]
    /\ UNCHANGED <<faults, req, cluster, deploying, errors, history>>

(* Variant: an error is forgotten. *)
ForgetError(u) == UNCHANGED errors

MeetError(u) == errors' = [errors EXCEPT ![u] = TRUE]

(* An error in one kind does not stop the others. *)
FailToList(u, i) ==
    /\ Fault
    /\ u \in Undeploys
    /\ IsNextKind(u, i)
    /\ listed' = [listed EXCEPT ![u] = @ \cup {DeletedKinds[i]}]
    /\ MeetError(u)
    /\ UNCHANGED <<req, cluster, deploying, deleting, history>>

Delete(u, r) ==
    /\ r \in deleting[u]
    /\ Exists(r)
    /\ deleting' = [deleting EXCEPT ![u] = @ \ {r}]
    /\ Remove(r)
    /\ UNCHANGED <<faults, req, deploying, listed, errors>>

(* It is gone already, or the request fails. *)
FailToDelete(u, r) ==
    /\ r \in deleting[u]
    /\ Fault \/ (~Exists(r) /\ UNCHANGED faults)
    /\ deleting' = [deleting EXCEPT ![u] = @ \ {r}]
    /\ MeetError(u)
    /\ UNCHANGED <<req, cluster, deploying, listed, history>>

(* It is deleted, and the answer does not arrive. *)
LoseDeleteAnswer(u, r) ==
    /\ Fault
    /\ r \in deleting[u]
    /\ Exists(r)
    /\ deleting' = [deleting EXCEPT ![u] = @ \ {r}]
    /\ MeetError(u)
    /\ Remove(r)
    /\ UNCHANGED <<req, deploying, listed>>

---------------------------------------------------------------------------
Init ==
    /\ req \in {f \in [Calls -> AllRequests] : \A c \in Calls : f[c] \in Requests[c]}
    /\ cluster = [r \in Resources |-> "nobody"]
    /\ progress = [c \in Calls |-> [r \in Resources |-> "no"]]
    /\ tries = [c \in Calls |-> [r \in Resources |-> 0]]
    /\ listed = [c \in Calls |-> {}]
    /\ deleting = [c \in Calls |-> {}]
    /\ errors = [c \in Calls |-> FALSE]
    /\ faults = 0
    /\ hindered = {} /\ replaced = {} /\ late = {}

Deploy(c, r) ==
    \/ Read(c, r) \/ FailToRead(c, r)
    \/ Write(c, r) \/ LoseAnswer(c, r) \/ Refuse(c, r) \/ FailToWrite(c, r)

Undeploy(c, r) == Delete(c, r) \/ FailToDelete(c, r) \/ LoseDeleteAnswer(c, r)

Next ==
    \E c \in Calls :
        \/ \E r \in Resources : Deploy(c, r) \/ Undeploy(c, r)
        \/ \E i \in 1..9 : ListKind(c, i) \/ FailToList(c, i)

Spec == Init /\ [][Next]_vars

---------------------------------------------------------------------------
TypeOK ==
    /\ req \in [Calls -> AllRequests]
    /\ cluster \in [Resources -> Calls \cup {"nobody"}]
    /\ progress \in [Calls -> [Resources -> {"no", "create", "patch", "done", "failed"}]]
    /\ tries \in [Calls -> [Resources -> 0..(Tries - 1)]]
    /\ listed \in [Calls -> SUBSET Kinds]
    /\ deleting \in [Calls -> SUBSET Resources]
    /\ errors \in [Calls -> BOOLEAN]
    /\ faults \in 0..MaxFaults
    /\ hindered \subseteq Calls \X Resources
    /\ replaced \subseteq Calls \X Resources
    /\ late \subseteq Calls \X Resources

(* When upsertApplication succeeds, every resource asked for has the spec  *)
(* of this call, or of what changed it since: nothing was left out or      *)
(* left as an earlier deployment wrote it.                                 *)
DeployIsComplete ==
    \A c \in Calls : Deployed(c) =>
        \A r \in Wanted(req[c]) :
            IF r.kind = "Namespace" THEN Exists(r)
            ELSE cluster[r] = c \/ <<c, r>> \in replaced

(* Whatever an earlier deployment left behind, and however far it got,     *)
(* upserting a resource fails only if one of its own requests failed, or   *)
(* another call changed it between read and write: an incomplete           *)
(* deployment is repaired by the next one.                                 *)
DeployRepairs ==
    \A c \in Calls, r \in Resources :
        progress[c][r] = "failed" => <<c, r>> \in hindered

(* When deleteApplication succeeds, all that carries the application's     *)
(* labels was written after it had been looked for, whichever deployments  *)
(* wrote the application before, and whatever they asked for.              *)
UndeployIsComplete ==
    \A u \in Calls : Undeployed(u) =>
        \A r \in Resources : r.kind # "Namespace" /\ Selects(u, r) => <<u, r>> \in late
===============================================================================
