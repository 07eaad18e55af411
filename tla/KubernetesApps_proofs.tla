------------------------- MODULE KubernetesApps_proofs -------------------------
(***************************************************************************)
(* Proofs about KubernetesApps, for all calls and requests, any number of  *)
(* attempts and any number of failing requests.                            *)
(***************************************************************************)
EXTENDS KubernetesApps, TLAPS

(* Every resource but a namespace is of a kind deleteApplication looks at. *)
LEMMA ResourceKinds ==
    ASSUME NEW r \in Resources, r.kind # "Namespace"
    PROVE  r.kind \in Kinds
<1>1. \E q \in AllRequests : r \in Wanted(q)
    <2> DEFINE asked == {q \in AllRequests : q.op = "deploy"}
    <2>1. r \in UNION {Wanted(q) : q \in asked}
        BY DEF Resources
    <2>2. \E q \in asked : r \in Wanted(q)
        <3> HIDE DEF asked
        <3> QED BY <2>1
    <2> QED BY <2>2
<1>2. r.kind \in {"ServiceAccount", "Role", "ClusterRole", "RoleBinding",
                  "ClusterRoleBinding", "Service", "Secret", "Deployment", "Ingress"}
    <2> PICK q \in AllRequests : r \in Wanted(q)
        BY <1>1
    <2>1. \/ r \in NamespaceOf(q) \/ r \in ServiceAccountOf(q) \/ r \in RoleOf(q)
          \/ r \in RoleBindingOf(q) \/ r \in ServiceOf(q) \/ r \in SecretsOf(q)
          \/ r \in DeploymentOf(q) \/ r \in IngressOf(q)
        BY DEF Wanted
    <2> USE DEF When, InCluster, InNamespace
    <2>2. r \notin NamespaceOf(q)
        BY DEF NamespaceOf
    <2>3. r \in ServiceAccountOf(q) => r.kind = "ServiceAccount"
        BY DEF ServiceAccountOf
    <2>4. r \in RoleOf(q) => r.kind \in {"Role", "ClusterRole"}
        BY DEF RoleOf
    <2>5. r \in RoleBindingOf(q) => r.kind \in {"RoleBinding", "ClusterRoleBinding"}
        BY DEF RoleBindingOf
    <2>6. r \in ServiceOf(q) => r.kind = "Service"
        BY DEF ServiceOf
    <2>7. r \in SecretsOf(q) => r.kind = "Secret"
        BY DEF SecretsOf
    <2>8. r \in DeploymentOf(q) => r.kind = "Deployment"
        BY DEF DeploymentOf
    <2>9. r \in IngressOf(q) => r.kind = "Ingress"
        BY DEF IngressOf
    <2> QED BY <2>1, <2>2, <2>3, <2>4, <2>5, <2>6, <2>7, <2>8, <2>9
<1>3. \A i \in 1..9 : DeletedKinds[i] \in Kinds
    BY DEF Kinds
<1>4. /\ DeletedKinds[1] = "Ingress" /\ DeletedKinds[2] = "Deployment"
      /\ DeletedKinds[3] = "Secret" /\ DeletedKinds[4] = "Service"
      /\ DeletedKinds[5] = "ClusterRoleBinding" /\ DeletedKinds[6] = "RoleBinding"
      /\ DeletedKinds[7] = "ClusterRole" /\ DeletedKinds[8] = "Role"
      /\ DeletedKinds[9] = "ServiceAccount"
    BY DEF DeletedKinds
<1> QED BY <1>2, <1>3, <1>4

LEMMA NamespacesAreKept == "Namespace" \notin Kinds
BY DEF Kinds, DeletedKinds

---------------------------------------------------------------------------
(* Type correctness. *)

LEMMA InitType == Init => TypeOK
<1> SUFFICES ASSUME Init PROVE TypeOK
    OBVIOUS
<1> USE AppsAssumption DEF Init
<1>1. req \in [Calls -> AllRequests]
    OBVIOUS
<1>2. tries \in [Calls -> [Resources -> 0..(Tries - 1)]]
    OBVIOUS
<1> QED BY <1>1, <1>2 DEF TypeOK

LEMMA RetryType ==
    ASSUME TypeOK, NEW c \in Calls, NEW r \in Resources, Retry(c, r)
    PROVE  /\ progress' \in [Calls -> [Resources -> {"no", "create", "patch", "done", "failed"}]]
           /\ tries' \in [Calls -> [Resources -> 0..(Tries - 1)]]
<1> USE DEF TypeOK
<1>1. CASE tries[c][r] + 1 < Tries
    <2>1. tries[c][r] + 1 \in 0..(Tries - 1)
        <3>1. tries[c][r] \in 0..(Tries - 1)
            OBVIOUS
        <3> QED BY <1>1, <3>1, AppsAssumption
    <2>2. /\ tries' = [tries EXCEPT ![c][r] = @ + 1]
          /\ progress' = progress
        BY <1>1 DEF Retry
    <2> QED BY <2>1, <2>2
<1>2. CASE ~(tries[c][r] + 1 < Tries)
    <2>1. GiveUp(c, r) \in {"done", "failed"}
        BY DEF GiveUp
    <2>2. /\ progress' = [progress EXCEPT ![c][r] = GiveUp(c, r)]
          /\ tries' = tries
        BY <1>2 DEF Retry, SetProgress
    <2> QED BY <2>1, <2>2
<1> QED BY <1>1, <1>2

LEMMA StepType == TypeOK /\ [Next]_vars => TypeOK'
<1> SUFFICES ASSUME TypeOK, [Next]_vars PROVE TypeOK'
    OBVIOUS
<1> USE DEF deploying, undeploying, history
<1>1. ASSUME NEW c \in Calls, NEW r \in Resources, Deploy(c, r)
      PROVE  TypeOK'
    <2>1. CASE Read(c, r)
        BY <2>1 DEF TypeOK, Read, SetProgress, WriteFor
    <2>2. CASE FailToRead(c, r)
        BY <2>2, AppsAssumption DEF TypeOK, FailToRead, SetProgress, Hinder, Fault
    <2>3. CASE Write(c, r)
        BY <2>3 DEF TypeOK, Write, SetProgress, Apply, Overtake
    <2>4. CASE LoseAnswer(c, r)
        BY <2>4, RetryType, AppsAssumption DEF TypeOK, LoseAnswer, Apply, Overtake, Fault
    <2>5. CASE Refuse(c, r)
        BY <2>5, RetryType DEF TypeOK, Refuse
    <2>6. CASE FailToWrite(c, r)
        BY <2>6, RetryType, AppsAssumption DEF TypeOK, FailToWrite, Hinder, Fault
    <2> QED BY <1>1, <2>1, <2>2, <2>3, <2>4, <2>5, <2>6 DEF Deploy
<1>2. ASSUME NEW u \in Calls, NEW r \in Resources, Undeploy(u, r)
      PROVE  TypeOK'
    <2>1. CASE Delete(u, r)
        BY <2>1 DEF TypeOK, Delete, Remove, Overtake
    <2>2. CASE FailToDelete(u, r)
        BY <2>2, AppsAssumption DEF TypeOK, FailToDelete, MeetError, Fault
    <2>3. CASE LoseDeleteAnswer(u, r)
        BY <2>3, AppsAssumption DEF TypeOK, LoseDeleteAnswer, MeetError, Remove,
            Overtake, Fault
    <2> QED BY <1>2, <2>1, <2>2, <2>3 DEF Undeploy
<1>3. ASSUME NEW u \in Calls, NEW i \in 1..9, ListKind(u, i) \/ FailToList(u, i)
      PROVE  TypeOK'
    <2>1. DeletedKinds[i] \in Kinds
        BY DEF Kinds
    <2>2. CASE ListKind(u, i)
        BY <2>1, <2>2 DEF TypeOK, ListKind
    <2>3. CASE FailToList(u, i)
        BY <2>1, <2>3, AppsAssumption DEF TypeOK, FailToList, MeetError, Fault
    <2> QED BY <1>3, <2>2, <2>3
<1>4. CASE UNCHANGED vars
    BY <1>4 DEF TypeOK, vars
<1> QED BY <1>1, <1>2, <1>3, <1>4 DEF Next

(* All variables keep their types. *)
THEOREM TypeCorrect == Spec => []TypeOK
<1>1. Init => TypeOK
    BY InitType
<1>2. TypeOK /\ [Next]_vars => TypeOK'
    BY StepType
<1> QED BY <1>1, <1>2, PTL DEF Spec

---------------------------------------------------------------------------
(* Invariants.  Namespaces are never deleted, so one that was read is      *)
(* there.  A request that the cluster would refuse has been hindered.      *)

NamespaceInv ==
    /\ \A u \in Calls : \A r \in deleting[u] : r.kind # "Namespace"
    /\ \A c \in Calls, r \in Resources :
          r.kind = "Namespace" /\ progress[c][r] \in {"patch", "done"} => Exists(r)

DoneInv ==
    \A c \in Calls, r \in Resources :
        Done(c, r) /\ r.kind # "Namespace" => cluster[r] = c \/ <<c, r>> \in replaced

HinderedInv ==
    \A c \in Calls, r \in Resources :
        (\/ progress[c][r] = "failed"
         \/ progress[c][r] = "create" /\ Exists(r)
         \/ progress[c][r] = "patch" /\ ~Exists(r))
        => <<c, r>> \in hindered

(* What was listed is being deleted, unless it was written later. *)
ListedInv ==
    \A u \in Undeploys : ~errors[u] =>
        \A r \in Resources :
            r.kind \in listed[u] /\ Selects(u, r) => r \in deleting[u] \/ <<u, r>> \in late

IInv == TypeOK /\ NamespaceInv /\ DoneInv /\ HinderedInv /\ ListedInv

LEMMA InitInv == Init => IInv
<1> SUFFICES ASSUME Init PROVE IInv
    OBVIOUS
<1>1. TypeOK
    BY InitType
<1>2. NamespaceInv /\ DoneInv /\ HinderedInv
    BY DEF Init, NamespaceInv, DoneInv, HinderedInv, Done, Exists
<1>3. ListedInv
    BY DEF Init, ListedInv, Undeploys
<1> QED BY <1>1, <1>2, <1>3 DEF IInv

---------------------------------------------------------------------------
(* The steps of a deploying call. *)

LEMMA ReadInv ==
    ASSUME IInv, NEW c \in Calls, NEW r \in Resources, Read(c, r) \/ FailToRead(c, r)
    PROVE  NamespaceInv' /\ DoneInv' /\ HinderedInv' /\ ListedInv'
<1> USE DEF IInv, TypeOK, Exists
<1>1. /\ \/ SetProgress(c, r, WriteFor(r))
         \/ SetProgress(c, r, "create") /\ <<c, r>> \in hindered'
      /\ UNCHANGED <<req, cluster, listed, deleting, errors, replaced, late>>
      /\ hindered \subseteq hindered'
    BY DEF Read, FailToRead, Hinder, undeploying, history
<1>2. \A d \in Calls, s \in Resources :
          \/ progress'[d][s] = progress[d][s]
          \/ d = c /\ s = r /\ progress'[c][r] = WriteFor(r)
          \/ d = c /\ s = r /\ progress'[c][r] = "create" /\ <<c, r>> \in hindered'
    BY <1>1 DEF SetProgress
<1>3. NamespaceInv'
    BY <1>1, <1>2 DEF NamespaceInv, WriteFor
<1>4. DoneInv'
    BY <1>1, <1>2 DEF DoneInv, Done, WriteFor
<1>5. HinderedInv'
    BY <1>1, <1>2 DEF HinderedInv, WriteFor
<1>6. ListedInv'
    BY <1>1 DEF ListedInv, Undeploys, Selects
<1> QED BY <1>3, <1>4, <1>5, <1>6

(* Who gives up on a resource had read it. *)
LEMMA RetryProgress ==
    ASSUME IInv, NEW c \in Calls, NEW r \in Resources, HasRead(c, r), Retry(c, r)
    PROVE  \A d \in Calls, s \in Resources :
              \/ progress'[d][s] = progress[d][s]
              \/ d = c /\ s = r /\ progress'[c][r] = "failed"
              \/ /\ d = c /\ s = r /\ progress'[c][r] = "done"
                 /\ r.kind = "Namespace" /\ progress[c][r] = "patch"
BY DEF IInv, TypeOK, HasRead, Retry, GiveUp, SetProgress

LEMMA WriteInv ==
    ASSUME IInv, NEW c \in Calls, NEW r \in Resources, Write(c, r) \/ LoseAnswer(c, r)
    PROVE  NamespaceInv' /\ DoneInv' /\ HinderedInv' /\ ListedInv'
<1> USE AppsAssumption DEF IInv, TypeOK, Exists
<1>1. /\ cluster' = [cluster EXCEPT ![r] = c]
      /\ hindered \subseteq hindered'
      /\ \A d \in Calls : d # c /\ HasRead(d, r) => <<d, r>> \in hindered'
      /\ replaced \subseteq replaced'
      /\ \A d \in Calls : d # c /\ cluster[r] = d => <<d, r>> \in replaced'
      /\ late \subseteq late'
      /\ \A u \in Calls : r.kind \in listed[u] => <<u, r>> \in late'
      /\ UNCHANGED <<req, listed, deleting, errors>>
    BY DEF Write, LoseAnswer, Apply, Overtake, undeploying
<1>2. HasRead(c, r)
    BY DEF Write, LoseAnswer, Accepts, HasRead
<1>3. \A d \in Calls, s \in Resources :
          \/ progress'[d][s] = progress[d][s] /\ (d # c \/ s # r)
          \/ d = c /\ s = r /\ <<c, r>> \in hindered'
                /\ (r.kind # "Namespace" => progress'[c][r] # "done")
          \/ d = c /\ s = r /\ progress'[c][r] = "done"
    <2>1. CASE Write(c, r)
        BY <2>1 DEF Write, SetProgress
    <2>2. CASE LoseAnswer(c, r)
        <3>1. <<c, r>> \in hindered'
            BY <1>2, <2>2 DEF LoseAnswer, Apply, Overtake
        <3>2. Retry(c, r)
            BY <2>2 DEF LoseAnswer
        <3>3. progress[c][r] # "done"
            BY <1>2 DEF HasRead
        <3> QED BY <1>2, <3>1, <3>2, <3>3, RetryProgress
    <2> QED BY <2>1, <2>2
<1>4. NamespaceInv'
    BY <1>1, <1>3 DEF NamespaceInv
<1>5. DoneInv'
    <2> SUFFICES ASSUME NEW d \in Calls, NEW s \in Resources,
                        progress'[d][s] = "done", s.kind # "Namespace"
                 PROVE  cluster'[s] = d \/ <<d, s>> \in replaced'
        BY DEF DoneInv, Done
    <2>1. CASE d = c /\ s = r
        BY <1>1, <2>1
    <2>2. CASE ~(d = c /\ s = r)
        <3>1. cluster[s] = d \/ <<d, s>> \in replaced
            BY <1>3, <2>2 DEF DoneInv, Done
        <3> QED BY <1>1, <2>2, <3>1
    <2> QED BY <2>1, <2>2
<1>6. HinderedInv'
    <2> SUFFICES ASSUME NEW d \in Calls, NEW s \in Resources,
                        \/ progress'[d][s] = "failed"
                        \/ progress'[d][s] = "create" /\ cluster'[s] # "nobody"
                        \/ progress'[d][s] = "patch" /\ cluster'[s] = "nobody"
                 PROVE  <<d, s>> \in hindered'
        BY DEF HinderedInv
    <2>1. CASE d = c /\ s = r
        BY <1>3, <2>1
    <2>2. CASE d # c /\ s = r
        BY <1>1, <1>3, <2>2 DEF HinderedInv, HasRead
    <2>3. CASE s # r
        BY <1>1, <1>3, <2>3 DEF HinderedInv
    <2> QED BY <2>1, <2>2, <2>3
<1>7. ListedInv'
    <2> SUFFICES ASSUME NEW u \in Undeploys, ~errors[u], NEW s \in Resources,
                        s.kind \in listed[u], Selects(u, s)'
                 PROVE  s \in deleting[u] \/ <<u, s>> \in late'
        BY <1>1 DEF ListedInv, Undeploys
    <2>1. CASE s = r
        BY <1>1, <2>1 DEF Undeploys
    <2>2. CASE s # r
        <3>1. Selects(u, s)
            BY <1>1, <2>2 DEF Selects
        <3> QED BY <1>1, <3>1 DEF ListedInv
    <2> QED BY <2>1, <2>2
<1> QED BY <1>4, <1>5, <1>6, <1>7

LEMMA RefuseInv ==
    ASSUME IInv, NEW c \in Calls, NEW r \in Resources, Refuse(c, r) \/ FailToWrite(c, r)
    PROVE  NamespaceInv' /\ DoneInv' /\ HinderedInv' /\ ListedInv'
<1> USE DEF IInv, TypeOK, Exists
<1>1. /\ UNCHANGED <<req, cluster, listed, deleting, errors, replaced, late>>
      /\ hindered \subseteq hindered'
    BY DEF Refuse, FailToWrite, Hinder, undeploying, history
<1>2. HasRead(c, r) /\ Retry(c, r)
    BY DEF Refuse, FailToWrite
<1>3. <<c, r>> \in hindered'
    <2>1. CASE Refuse(c, r)
        BY <1>1, <1>2, <2>1 DEF Refuse, Accepts, HasRead, HinderedInv
    <2>2. CASE FailToWrite(c, r)
        BY <2>2 DEF FailToWrite, Hinder
    <2> QED BY <2>1, <2>2
<1>4. \A d \in Calls, s \in Resources :
          \/ progress'[d][s] = progress[d][s]
          \/ d = c /\ s = r /\ progress'[c][r] = "failed"
          \/ /\ d = c /\ s = r /\ progress'[c][r] = "done"
             /\ r.kind = "Namespace" /\ progress[c][r] = "patch"
    BY <1>2, RetryProgress
<1>5. NamespaceInv'
    BY <1>1, <1>4 DEF NamespaceInv
<1>6. DoneInv'
    BY <1>1, <1>4 DEF DoneInv, Done
<1>7. HinderedInv'
    BY <1>1, <1>3, <1>4 DEF HinderedInv
<1>8. ListedInv'
    BY <1>1 DEF ListedInv, Undeploys, Selects
<1> QED BY <1>5, <1>6, <1>7, <1>8

---------------------------------------------------------------------------
(* The steps of an undeploying call. *)

LEMMA ListInv ==
    ASSUME IInv, NEW u \in Calls, NEW i \in 1..9, ListKind(u, i) \/ FailToList(u, i)
    PROVE  NamespaceInv' /\ DoneInv' /\ HinderedInv' /\ ListedInv'
<1> USE DEF IInv, TypeOK, Exists
<1>1. UNCHANGED <<req, cluster, progress, hindered, replaced, late>>
    BY DEF ListKind, FailToList, deploying, history
<1>2. DoneInv' /\ HinderedInv'
    BY <1>1 DEF DoneInv, HinderedInv, Done
<1>3. NamespaceInv'
    <2>1. DeletedKinds[i] # "Namespace"
        BY NamespacesAreKept DEF Kinds
    <2>2. \A v \in Calls : \A r \in deleting'[v] :
              r \in deleting[v] \/ r.kind = DeletedKinds[i]
        BY DEF ListKind, FailToList
    <2> QED BY <1>1, <2>1, <2>2 DEF NamespaceInv
<1>4. ListedInv'
    <2> SUFFICES ASSUME NEW v \in Undeploys, ~errors'[v], NEW s \in Resources,
                        s.kind \in listed'[v], Selects(v, s)
                 PROVE  s \in deleting'[v] \/ <<v, s>> \in late
        BY <1>1 DEF ListedInv, Undeploys, Selects
    <2> USE DEF Undeploys
    <2>1. CASE v # u
        BY <2>1 DEF ListedInv, ListKind, FailToList, MeetError
    <2>2. CASE v = u
        <3>1. ListKind(u, i)
            BY <2>2 DEF FailToList, MeetError
        <3>2. CASE s.kind = DeletedKinds[i]
            BY <2>2, <3>1, <3>2 DEF ListKind
        <3>3. CASE s.kind # DeletedKinds[i]
            <4>1. s.kind \in listed[u] /\ deleting[u] = {} /\ errors' = errors
                BY <2>2, <3>1, <3>3 DEF ListKind, IsNextKind
            <4> QED BY <2>2, <4>1 DEF ListedInv
        <3> QED BY <3>2, <3>3
    <2> QED BY <2>1, <2>2
<1> QED BY <1>2, <1>3, <1>4

LEMMA UndeployInv ==
    ASSUME IInv, NEW u \in Calls, NEW r \in Resources, Undeploy(u, r)
    PROVE  NamespaceInv' /\ DoneInv' /\ HinderedInv' /\ ListedInv'
<1> USE AppsAssumption DEF IInv, TypeOK, Exists
<1>1. /\ r \in deleting[u]
      /\ deleting' = [deleting EXCEPT ![u] = @ \ {r}]
      /\ UNCHANGED <<req, progress, listed, late>>
      /\ hindered \subseteq hindered'
      /\ replaced \subseteq replaced'
      /\ errors' = errors \/ errors' = [errors EXCEPT ![u] = TRUE]
    BY DEF Undeploy, Delete, FailToDelete, LoseDeleteAnswer, MeetError, Remove, Overtake,
        deploying, history
<1>2. \/ UNCHANGED cluster /\ errors' = [errors EXCEPT ![u] = TRUE]
      \/ /\ cluster' = [cluster EXCEPT ![r] = "nobody"]
         /\ \A d \in Calls : HasRead(d, r) => <<d, r>> \in hindered'
         /\ \A d \in Calls : cluster[r] = d => <<d, r>> \in replaced'
    BY DEF Undeploy, Delete, FailToDelete, LoseDeleteAnswer, MeetError, Remove, Overtake
<1>3. r.kind # "Namespace"
    BY <1>1 DEF NamespaceInv
<1>4. NamespaceInv'
    BY <1>1, <1>2, <1>3 DEF NamespaceInv
<1>5. DoneInv'
    BY <1>1, <1>2 DEF DoneInv, Done
<1>6. HinderedInv'
    BY <1>1, <1>2 DEF HinderedInv, HasRead
<1>7. ListedInv'
    <2> SUFFICES ASSUME NEW v \in Undeploys, ~errors'[v], NEW s \in Resources,
                        s.kind \in listed[v], Selects(v, s)'
                 PROVE  s \in deleting'[v] \/ <<v, s>> \in late
        BY <1>1 DEF ListedInv, Undeploys
    <2>1. Selects(v, s) /\ ~errors[v]
        BY <1>1, <1>2 DEF Selects, Undeploys
    <2>2. s \in deleting[v] \/ <<v, s>> \in late
        BY <2>1 DEF ListedInv
    <2>3. CASE v = u /\ s = r
        BY <1>1, <1>2, <2>3 DEF Selects
    <2>4. CASE ~(v = u /\ s = r)
        BY <1>1, <2>2, <2>4 DEF Undeploys
    <2> QED BY <2>3, <2>4
<1> QED BY <1>4, <1>5, <1>6, <1>7

---------------------------------------------------------------------------
LEMMA StepInv == IInv /\ [Next]_vars => IInv'
<1> SUFFICES ASSUME IInv, [Next]_vars PROVE IInv'
    OBVIOUS
<1>1. TypeOK'
    BY StepType DEF IInv
<1>2. NamespaceInv' /\ DoneInv' /\ HinderedInv' /\ ListedInv'
    <2>1. ASSUME NEW c \in Calls, NEW r \in Resources, Deploy(c, r)
          PROVE  NamespaceInv' /\ DoneInv' /\ HinderedInv' /\ ListedInv'
        BY <2>1, ReadInv, WriteInv, RefuseInv DEF Deploy
    <2>2. ASSUME NEW u \in Calls, NEW r \in Resources, Undeploy(u, r)
          PROVE  NamespaceInv' /\ DoneInv' /\ HinderedInv' /\ ListedInv'
        BY <2>2, UndeployInv
    <2>3. ASSUME NEW u \in Calls, NEW i \in 1..9, ListKind(u, i) \/ FailToList(u, i)
          PROVE  NamespaceInv' /\ DoneInv' /\ HinderedInv' /\ ListedInv'
        BY <2>3, ListInv
    <2>4. CASE UNCHANGED vars
        BY <2>4 DEF vars, deploying, undeploying, history, IInv, NamespaceInv, DoneInv,
            HinderedInv, ListedInv, Done, Exists, Undeploys, Selects
    <2> QED BY <2>1, <2>2, <2>3, <2>4 DEF Next
<1> QED BY <1>1, <1>2 DEF IInv

LEMMA Invariance == Spec => []IInv
<1>1. Init => IInv
    BY InitInv
<1>2. IInv /\ [Next]_vars => IInv'
    BY StepInv
<1> QED BY <1>1, <1>2, PTL DEF Spec

(* A successful deployment has written every resource asked for. *)
THEOREM DeployIsCompleteHolds == Spec => []DeployIsComplete
<1>1. IInv => DeployIsComplete
    <2> SUFFICES ASSUME IInv, NEW c \in Calls, Deployed(c), NEW r \in Wanted(req[c])
                 PROVE  IF r.kind = "Namespace" THEN Exists(r)
                        ELSE cluster[r] = c \/ <<c, r>> \in replaced
        BY DEF DeployIsComplete
    <2>1. r \in Resources
        <3>1. req[c] \in {q \in AllRequests : q.op = "deploy"}
            BY DEF Deployed, Deploys, IInv, TypeOK
        <3> QED BY <3>1 DEF Resources
    <2>2. Done(c, r)
        BY DEF Deployed
    <2> QED BY <2>1, <2>2 DEF IInv, NamespaceInv, DoneInv, Done
<1> QED BY <1>1, Invariance, PTL

(* A resource is given up only if its own requests were hindered: what an  *)
(* earlier deployment left behind is no obstacle.                          *)
THEOREM DeployRepairsHolds == Spec => []DeployRepairs
<1>1. IInv => DeployRepairs
    BY DEF IInv, HinderedInv, DeployRepairs
<1> QED BY <1>1, Invariance, PTL

(* A successful undeployment leaves nothing that was there when it looked. *)
THEOREM UndeployIsCompleteHolds == Spec => []UndeployIsComplete
<1>1. IInv => UndeployIsComplete
    BY ResourceKinds DEF IInv, ListedInv, UndeployIsComplete, Undeployed
<1> QED BY <1>1, Invariance, PTL
===============================================================================
