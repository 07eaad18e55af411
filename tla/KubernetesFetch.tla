--------------------------- MODULE KubernetesFetch ---------------------------
(***************************************************************************)
(* Fetching the resources of a cluster that selectors ask for              *)
(* (kubernetes/fetch.ts): kinds are looked up with the API server, each is *)
(* listed for the cluster or for every namespace, and the first selector   *)
(* that matches a resource decides.  The cluster changes meanwhile.        *)
(***************************************************************************)
EXTENDS Integers, FiniteSets, Sequences

CONSTANTS
    Selections,    \* sequences of selectors, see Selector
    DefaultKinds,  \* defaultKubernetesResourceSelectorKinds
    Served,        \* what the API server knows: [version, kind]
    ClusterKinds,  \* kinds without namespace
    Resources,     \* [kind, ns, name], ns = Cluster: in no namespace
    FirstCluster,  \* resources in the cluster at the beginning
    MaxChanges,    \* bound: resources created or deleted during the fetch
    MaxFaults      \* bound: lookups and lists that fail

VARIABLES
    selectors,   \* selectors by their positions
    pc,
    todo,        \* namespaces to visit
    queue,       \* lists to request: [kind, ns]
    specs,       \* resources fetched
    result,      \* those selected
    cluster,     \* resources there are
    seen,        \* history: resources there were at some time of the fetch
    throughout,  \* history: resources there were all the time
    unknown,     \* history: kinds whose lookup failed
    changes, faults

fetchVars == <<selectors, pc, todo, queue, specs, result, cluster, seen, throughout,
               unknown, changes, faults>>

Cluster == "none"
IsNamespace(r) == r.kind = "Namespace"
Namespaces == {r.name : r \in {n \in Resources : IsNamespace(n)}}

Kind == [version : STRING, kind : STRING]

(* Empty: not given.  objects: the resources that name, labels and filter  *)
(* match; namespaces: those the string or expression matches.              *)
Selector == [action : {"", "include", "exclude"}, kinds : Seq(Kind),
             namespaces : SUBSET (Namespaces \cup {Cluster}), objects : SUBSET Resources]

(* Resources of other than cluster kinds are in a namespace that is there. *)
AreResources ==
    /\ Selections \subseteq Seq(Selector)
    /\ DefaultKinds \in Seq(Kind) /\ DefaultKinds # <<>>
    /\ "Namespace" \in ClusterKinds
    /\ Resources \subseteq [kind : STRING, ns : STRING, name : STRING]
    /\ \A r \in Resources : r.ns = Cluster <=> r.kind \in ClusterKinds
    /\ Cluster \notin Namespaces
    /\ FirstCluster \subseteq Resources
    /\ \A r \in FirstCluster :
         r.ns = Cluster \/ \E n \in FirstCluster : IsNamespace(n) /\ n.name = r.ns

---------------------------------------------------------------------------
WithDefaults(s) ==
    LET action == IF s.action = "" THEN "include" ELSE s.action
    IN  [s EXCEPT !.action = action,
                  !.kinds = IF @ = <<>> /\ action = "include" THEN DefaultKinds ELSE @]

IsRule(s) == s.action # "exclude" \/ s.kinds # <<>> \/ s.namespaces # {} \/ s.objects # {}

(* Selectors that are left keep their positions.                           *)
Populated(given) ==
    [i \in {j \in DOMAIN given : IsRule(given[j])} |-> WithDefaults(given[i])]

Includes == {i \in DOMAIN selectors : selectors[i].action = "include"}

(* The kinds of the includes, one after the other.                         *)
Places == UNION {{i} \X DOMAIN selectors[i].kinds : i \in Includes}
KindAt(p) == selectors[p[1]].kinds[p[2]]
IsBefore(p, q) == p[1] < q[1] \/ (p[1] = q[1] /\ p[2] < q[2])

(* The first of the versions of every kind.                                *)
IncludedKinds ==
    {KindAt(p) : p \in {q \in Places :
        \A o \in Places : IsBefore(o, q) => KindAt(o).kind # KindAt(q).kind}}

ClusterResourceKinds(lost) ==
    {k.kind : k \in {l \in IncludedKinds :
        l \in Served /\ l.kind \in ClusterKinds /\ l.kind \notin lost}}

OnlyFirstInclude(ns) == {i \in Includes : \A j \in Includes : i <= j}   \* variant

IncludesFor(ns) ==
    {i \in Includes : selectors[i].namespaces = {} \/ ns \in selectors[i].namespaces}

(* Versions the server does not know are left out before the first is taken*)
NamespaceResourceKinds(ns, lost) ==
    {k.kind : k \in {KindAt(p) : p \in {q \in Places :
        /\ q[1] \in IncludesFor(ns)
        /\ KindAt(q) \in Served
        /\ KindAt(q).kind \notin ClusterKinds /\ KindAt(q).kind \notin lost}}}

(* Lookups that fail are ignored.                                          *)
Lookup(lost, kinds, ns) ==
    /\ faults + Cardinality(lost) <= MaxFaults /\ faults' = faults + Cardinality(lost)
    /\ unknown' = unknown \cup lost
    /\ queue' = [kind : kinds, ns : {ns}]

Init ==
    /\ \E given \in Selections : selectors = Populated(given)
    /\ pc = "start" /\ todo = {} /\ queue = {} /\ specs = {} /\ result = {}
    /\ cluster = FirstCluster /\ seen = cluster /\ throughout = cluster
    /\ unknown = {} /\ changes = 0 /\ faults = 0

LookupClusterKinds ==
    /\ pc = "start" /\ pc' = "cluster"
    /\ \E lost \in SUBSET {k.kind : k \in Served} :
          Lookup(lost, ClusterResourceKinds(lost), Cluster)
    /\ UNCHANGED <<selectors, todo, specs, result, cluster, seen, throughout, changes>>

(* An error ends the fetch.                                                *)
FailToList ==
    /\ faults < MaxFaults /\ faults' = faults + 1
    /\ pc' = "failed" /\ UNCHANGED <<todo, queue, specs>>

ListKind ==
    /\ pc \in {"cluster", "namespaces"}
    /\ \E list \in queue :
         \/ /\ specs' = specs \cup {r \in cluster : r.kind = list.kind /\ r.ns = list.ns}
            /\ queue' = queue \ {list} /\ UNCHANGED <<pc, todo, faults>>
         \/ FailToList
    /\ UNCHANGED <<selectors, result, cluster, seen, throughout, unknown, changes>>

ListNamespaces ==
    /\ pc = "cluster" /\ queue = {}
    /\ \/ /\ todo' = {r.name : r \in {n \in cluster : IsNamespace(n)}}
          /\ pc' = "namespaces" /\ UNCHANGED <<queue, specs, faults>>
       \/ FailToList
    /\ UNCHANGED <<selectors, result, cluster, seen, throughout, unknown, changes>>

VisitNamespace ==
    /\ pc = "namespaces" /\ queue = {}
    /\ \E ns \in todo, lost \in SUBSET {k.kind : k \in Served} :
         /\ todo' = todo \ {ns}
         /\ specs' = specs \cup {r \in Resources : IsNamespace(r) /\ r.name = ns}
         /\ Lookup(lost, NamespaceResourceKinds(ns, lost), ns)
    /\ UNCHANGED <<selectors, pc, result, cluster, seen, throughout, changes>>

SelectorMatch(r, s) ==
    /\ s.objects = {} \/ r \in s.objects
    /\ s.namespaces = {} \/ r.ns \in s.namespaces
    /\ s.kinds = <<>> \/ \E i \in DOMAIN s.kinds : s.kinds[i].kind = r.kind

FirstIncludes(r) ==
    LET matches == {i \in DOMAIN selectors : SelectorMatch(r, selectors[i])}
    IN  \/ DOMAIN selectors = {}
        \/ \E i \in matches : i \in Includes /\ \A j \in matches : i <= j

SelectResources ==
    /\ pc = "namespaces" /\ queue = {} /\ todo = {}
    /\ result' = {r \in specs : FirstIncludes(r)}
    /\ pc' = "done"
    /\ UNCHANGED <<selectors, todo, queue, specs, cluster, seen, throughout, unknown, changes, faults>>

(* A namespace goes with its resources.                                    *)
ChangeCluster ==
    /\ pc \notin {"done", "failed"} /\ changes < MaxChanges /\ changes' = changes + 1
    /\ \E r \in Resources :
         \/ /\ r.ns = Cluster \/ \E n \in cluster : IsNamespace(n) /\ n.name = r.ns
            /\ cluster' = cluster \cup {r}
         \/ cluster' = {q \in cluster : q # r /\ (~IsNamespace(r) \/ q.ns # r.name)}
    /\ seen' = seen \cup cluster' /\ throughout' = throughout \cap cluster'
    /\ UNCHANGED <<selectors, pc, todo, queue, specs, result, unknown, faults>>

Fetch == LookupClusterKinds \/ ListKind \/ ListNamespaces \/ VisitNamespace \/ SelectResources

Next == Fetch \/ ChangeCluster

Spec == Init /\ [][Next]_fetchVars

---------------------------------------------------------------------------
(* What the documentation promises: "The selectors are applied in order to *)
(* each resource and the action of the first matching selector is applied."*)
Promised(r) ==
    \/ DOMAIN selectors = {} /\ IsNamespace(r)
    \/ \E i \in DOMAIN selectors :
         /\ selectors[i].action = "include" /\ SelectorMatch(r, selectors[i])
         /\ \A j \in DOMAIN selectors : j < i => ~SelectorMatch(r, selectors[j])

(* The versions under which includes that match r's namespace ask for it.  *)
VersionsOf(r) ==
    UNION {{k \in {selectors[i].kinds[j] : j \in DOMAIN selectors[i].kinds} : k.kind = r.kind} :
        i \in {j \in DOMAIN selectors :
            /\ selectors[j].action = "include"
            /\ selectors[j].namespaces = {} \/ r.ns \in selectors[j].namespaces
                 \/ r.kind \in ClusterKinds}}

(* The server knows the version that is looked up.                         *)
IsServed(r) ==
    \/ IsNamespace(r)
    \/ r.kind \in ClusterKinds /\ VersionsOf(r) \subseteq Served
    \/ r.kind \notin ClusterKinds /\ VersionsOf(r) \cap Served # {}

(* A fetch that succeeds has every resource that was there all the time    *)
(* and that the first matching selector includes, and no other that was    *)
(* never there or that is excluded.  Missing are the kinds that could not  *)
(* be looked up, those no include for the resource's namespace asks for in *)
(* a version known to the server, and those without namespace that are     *)
(* asked for in several versions, one of them unknown.                     *)
FetchesWhatIsSelected ==
    pc = "done" =>
        /\ result \subseteq {r \in seen : Promised(r)}
        /\ \A r \in throughout :
             Promised(r) /\ IsServed(r) /\ (IsNamespace(r) \/ r.kind \notin unknown) => r \in result

(* "the same kind can appear under multiple apiVersions"                   *)
EveryVersionIsTried ==
    pc = "done" =>
        \A r \in throughout :
            Promised(r) /\ r.kind \notin unknown /\ VersionsOf(r) \cap Served # {} => r \in result
=============================================================================
