--------------------------- MODULE SyncRepo_proofs ---------------------------
(***************************************************************************)
(* What SyncRepo is proved to do: pushes of deployments keep what others   *)
(* pushed and land what was deployed, and the job of a push does to each   *)
(* resource what the push did to its spec.                                 *)
(***************************************************************************)
EXTENDS SyncRepo, SequenceTheorems, FiniteSetTheorems, TLAPS

Commit == [tree : [Files -> Contents], own : BOOLEAN]

LogTyped == log \in Seq(Commit) /\ Len(log) \in Nat \ {0}

Extends == Len(log) <= Len(log)' /\ \A i \in 1..Len(log) : log'[i] = log[i]

---------------------------------------------------------------------------
(* Deployments.                                                            *)

CallFields == {"pc", "cloned", "parent", "edit", "request", "merged"}

(* A commit that is not pushed yet changes specs of its call's resources   *)
(* only, and replaces none that was not in the clone; what git has mixed   *)
(* is not known.                                                           *)
ChangeKept(d, f, o) ==
    Of(o, deploy[d].edit[f]) # Of(o, log[deploy[d].parent].tree[f]) =>
        /\ o \in ObjectsIn(deploy[d].request.specs)
        /\ Of(o, log[deploy[d].parent].tree[f]) \subseteq SpecsOf(log[deploy[d].cloned].tree)

CommitKept(d) ==
    /\ deploy[d].cloned \in 1..deploy[d].parent /\ deploy[d].parent \in 1..Len(log)
    /\ DOMAIN deploy[d].edit \subseteq Files
    /\ \A f \in DOMAIN deploy[d].edit :
         /\ deploy[d].edit[f] \in Contents
         /\ \A o \in Objects \ deploy[d].merged : ChangeKept(d, f, o)

(* A spec was in the branch since the call cloned, or is in its commit, or *)
(* git has mixed it with another.                                          *)
WasThere(d, s) == \E i \in deploy[d].cloned..Len(log) : s \in SpecsOf(log[i].tree)

SpecKept(d, s) ==
    \/ WasThere(d, s)
    \/ \E f \in DOMAIN deploy[d].edit : s \in deploy[d].edit[f]
    \/ s.obj \in deploy[d].merged

CallKept(d) ==
    /\ CallFields \subseteq DOMAIN deploy[d]
    /\ deploy[d].pc \in {"clone", "push", "pull"} => deploy[d].request \in Requests
    /\ deploy[d].pc \notin {"clone", "push", "pull"} => deploy[d].request.kind = "none"
    /\ deploy[d].pc \in {"push", "pull"} =>
         /\ CommitKept(d)
         /\ deploy[d].request.kind = "upsert" => \A s \in deploy[d].request.specs : SpecKept(d, s)

CallInv ==
    /\ LogTyped /\ DOMAIN deploy = Calls
    /\ \A d \in Calls : CallKept(d)

LEMMA TreeType ==
    ASSUME LogTyped, NEW i \in 1..Len(log)
    PROVE  log[i].tree \in [Files -> Contents]
<1>1. log[i] \in Commit
  BY DEF LogTyped
<1> QED
  BY <1>1 DEF Commit

LEMMA BranchType == ASSUME LogTyped PROVE Branch \in [Files -> Contents]
<1>1. Len(log) \in 1..Len(log)
  BY DEF LogTyped
<1> QED
  BY <1>1, TreeType DEF Branch

LEMMA EditedType ==
    ASSUME NEW tree \in [Files -> Contents], NEW edit,
           \A f \in DOMAIN edit \cap Files : edit[f] \in Contents
    PROVE  Edited(tree, edit) \in [Files -> Contents]
BY DEF Edited

LEMMA PushesType ==
    ASSUME LogTyped, NEW commits \in Pushes
    PROVE  commits \in Seq(Commit) /\ Len(commits) \in {1, 2}
<1>1. \A t \in [Files -> Contents] : Commits(t) \subseteq Commit
  BY SyncAssumption, EditedType DEF Commits, Commit
<1>2. Branch \in [Files -> Contents]
  BY BranchType
<1>3. CASE \E c \in Commits(Branch) : commits = <<c>>
  BY <1>1, <1>2, <1>3
<1>4. CASE \E c \in Commits(Branch) : \E e \in Commits(c.tree) : commits = <<c, e>>
  <2>1. PICK c \in Commits(Branch) : \E e \in Commits(c.tree) : commits = <<c, e>>
    BY <1>4
  <2>2. c \in Commit /\ c.tree \in [Files -> Contents]
    BY <1>1, <1>2, <2>1 DEF Commit
  <2>3. PICK e \in Commits(c.tree) : commits = <<c, e>>
    BY <2>1
  <2>4. e \in Commit
    BY <1>1, <2>2, <2>3
  <2> QED
    BY <2>2, <2>3, <2>4
<1> QED
  BY <1>3, <1>4 DEF Pushes

LEMMA ReceiveExtends ==
    ASSUME LogTyped, NEW commits \in Seq(Commit), Receive(commits)
    PROVE  /\ LogTyped' /\ Extends /\ Len(log)' = Len(log) + Len(commits)
           /\ \A i \in 1..Len(commits) : log'[Len(log) + i] = commits[i]
<1>1. log \in Seq(Commit) /\ Len(log) \in Nat \ {0} /\ Len(commits) \in Nat
  BY LenProperties DEF LogTyped
<1>2. log' = log \o commits
  BY DEF Receive
<1>3. /\ (log \o commits) \in Seq(Commit) /\ Len(log \o commits) = Len(log) + Len(commits)
      /\ \A i \in 1..Len(log) + Len(commits) :
            (log \o commits)[i] = IF i <= Len(log) THEN log[i] ELSE commits[i - Len(log)]
  BY <1>1, ConcatProperties
<1>4. /\ log' \in Seq(Commit) /\ Len(log') = Len(log) + Len(commits)
      /\ \A i \in 1..Len(log) + Len(commits) :
            log'[i] = IF i <= Len(log) THEN log[i] ELSE commits[i - Len(log)]
  BY <1>2, <1>3
<1>5. ASSUME NEW i \in 1..Len(commits)
      PROVE  log'[Len(log) + i] = commits[i]
  <2>1. Len(log) + i \in 1..Len(log) + Len(commits) /\ ~(Len(log) + i <= Len(log))
        /\ (Len(log) + i) - Len(log) = i
    BY <1>1
  <2> QED
    BY <1>4, <2>1
<1> QED
  BY <1>1, <1>4, <1>5 DEF LogTyped, Extends

LEMMA UserPushExtends ==
    ASSUME LogTyped, UserPush
    PROVE  LogTyped' /\ Extends
<1>1. PICK commits \in Pushes : Receive(commits)
  BY DEF UserPush
<1> QED
  BY <1>1, PushesType, ReceiveExtends

LEMMA PushExtends ==
    ASSUME CallInv, NEW d \in Calls, Push(d)
    PROVE  LogTyped' /\ Extends /\ Len(log)' = Len(log) + 1 /\ job' = job
           /\ log'[Len(log) + 1].tree = Edited(Branch, deploy[d].edit)
<1>1. CommitKept(d)
  BY DEF CallInv, CallKept, Push
<1>2. Branch \in [Files -> Contents]
  BY BranchType DEF CallInv
<1>3. Edited(Branch, deploy[d].edit) \in [Files -> Contents]
  BY <1>1, <1>2, EditedType DEF CommitKept
<1> DEFINE commit == [tree |-> Edited(Branch, deploy[d].edit), own |-> TRUE]
<1>4. commit \in Commit /\ commit.own
  BY <1>3 DEF Commit
<1>5. Receive(<<commit>>)
  BY DEF Push
<1>6. commit.tree = Edited(Branch, deploy[d].edit)
  OBVIOUS
<1> HIDE DEF commit
<1>7. <<commit>> \in Seq(Commit) /\ Len(<<commit>>) = 1 /\ <<commit>>[1] = commit
  BY <1>4
<1>8. /\ LogTyped' /\ Extends /\ Len(log)' = Len(log) + Len(<<commit>>)
      /\ \A i \in 1..Len(<<commit>>) : log'[Len(log) + i] = <<commit>>[i]
  BY <1>5, <1>7, ReceiveExtends DEF CallInv
<1>9. 1 \in 1..Len(<<commit>>)
  BY <1>7
<1>10. ~IsSyncRepoCommit(<<commit>>)
  BY <1>4 DEF IsSyncRepoCommit
<1> QED
  BY <1>5, <1>6, <1>7, <1>8, <1>9, <1>10 DEF Receive

LEMMA SameLog ==
    ASSUME LogTyped, UNCHANGED log
    PROVE  LogTyped' /\ Extends
BY DEF LogTyped, Extends

(* A call that does nothing, while others push. *)
LEMMA CallRests ==
    ASSUME CallInv, Extends, LogTyped', NEW d \in Calls, deploy'[d] = deploy[d]
    PROVE  CallKept(d)'
<1>1. CallKept(d) /\ Len(log) \in Nat /\ Len(log)' \in Nat
  BY DEF CallInv, LogTyped
<1>2. CASE deploy[d].pc \in {"push", "pull"}
  <2>a. CommitKept(d)
    BY <1>1, <1>2 DEF CallKept
  <2>b. deploy[d].cloned \in 1..Len(log) /\ deploy[d].parent \in 1..Len(log)
    BY <1>1, <2>a DEF CommitKept
  <2>c. /\ log'[deploy[d].cloned] = log[deploy[d].cloned]
        /\ log'[deploy[d].parent] = log[deploy[d].parent]
    BY <2>b DEF Extends
  <2>d. CommitKept(d)'
    BY <1>1, <2>a, <2>b, <2>c DEF CommitKept, ChangeKept, Extends
  <2>1. CommitKept(d) /\ CommitKept(d)'
    BY <2>a, <2>d
  <2>2. \A s : SpecKept(d, s) => SpecKept(d, s)'
    BY <1>1, <2>1 DEF SpecKept, WasThere, CommitKept, Extends
  <2> QED
    BY <1>1, <2>1, <2>2 DEF CallKept
<1> QED
  BY <1>1, <1>2 DEF CallKept

LEMMA PlacementsKept ==
    ASSUME NEW tree \in [Files -> Contents], NEW specs \in Contents,
           NEW place \in Placements(specs, tree)
    PROVE  /\ place \in [specs -> Files] /\ IsInjective(place)
           /\ \A s \in specs : ObjectsIn(tree[place[s]]) \subseteq ObjectsIn(specs)
<1>1. place \in [specs -> Files] /\ IsInjective(place)
  BY DEF Placements
<1>2. ASSUME NEW s \in specs
      PROVE  ObjectsIn(tree[place[s]]) \subseteq ObjectsIn(specs)
  <2>1. place[s] \in MatchSpec(tree, s.obj) \/ place[s] \in UniqueSpecFile(tree)
    BY DEF Placements
  <2>2. CASE place[s] \in MatchSpec(tree, s.obj)
    <3>1. ObjectsIn(tree[place[s]]) = {s.obj}
      BY <2>2 DEF MatchSpec
    <3>2. s.obj \in ObjectsIn(specs)
      BY DEF ObjectsIn
    <3> QED
      BY <3>1, <3>2
  <2>3. CASE place[s] \in UniqueSpecFile(tree)
    BY <2>3 DEF UniqueSpecFile, ObjectsIn
  <2> QED
    BY <2>1, <2>2, <2>3
<1> QED
  BY <1>1, <1>2

(* What a call writes to files: specs of its resources, over no other. *)
LEMMA SyncedFilesKept ==
    ASSUME NEW tree \in [Files -> Contents], NEW r \in Requests,
           NEW edit \in SyncedFiles(r, tree)
    PROVE  /\ DOMAIN edit \subseteq Files
           /\ \A f \in DOMAIN edit :
                /\ edit[f] \in Contents
                /\ ObjectsIn(tree[f]) \cup ObjectsIn(edit[f]) \subseteq ObjectsIn(r.specs)
           /\ r.kind = "upsert" => \A s \in r.specs : \E f \in DOMAIN edit : s \in edit[f]
<1>0. r.specs \in Contents /\ r.kind \in {"upsert", "delete"}
  BY SyncAssumption
<1>a. \A c \in SUBSET r.specs : c \in Contents
  BY <1>0 DEF Contents
<1>1. CASE r.kind = "delete"
  <2> DEFINE matched == {s \in r.specs : MatchSpec(tree, s.obj) # {}}
  <2>1. PICK place \in Placements(matched, tree) : edit = [f \in Range(place) |-> {}]
    BY <1>1 DEF SyncedFiles
  <2>2. matched \in Contents /\ ObjectsIn(matched) \subseteq ObjectsIn(r.specs)
    BY <1>a DEF ObjectsIn
  <2> HIDE DEF matched
  <2>3. /\ place \in [matched -> Files]
        /\ \A s \in matched : ObjectsIn(tree[place[s]]) \subseteq ObjectsIn(r.specs)
    BY <2>2, PlacementsKept
  <2>4. DOMAIN edit = {place[s] : s \in matched} /\ \A f \in DOMAIN edit : edit[f] = {}
    BY <2>1, <2>3 DEF Range
  <2>5. {} \in Contents /\ ObjectsIn({}) = {}
    BY <1>a DEF ObjectsIn
  <2> QED
    BY <1>1, <2>3, <2>4, <2>5
<1>2. CASE r.kind = "upsert"
  <2>1. PICK place \in Placements(r.specs, tree) :
            edit = [f \in Range(place) |-> {CHOOSE s \in r.specs : place[s] = f}]
    BY <1>2 DEF SyncedFiles
  <2>2. /\ place \in [r.specs -> Files] /\ IsInjective(place)
        /\ \A s \in r.specs : ObjectsIn(tree[place[s]]) \subseteq ObjectsIn(r.specs)
    BY <1>0, PlacementsKept
  <2>3. DOMAIN edit = {place[s] : s \in r.specs}
    BY <2>1, <2>2 DEF Range
  <2>4. ASSUME NEW s \in r.specs
        PROVE  edit[place[s]] = {s}
    <3>1. \A t \in r.specs : place[t] = place[s] => t = s
      BY <2>2 DEF IsInjective
    <3>2. (CHOOSE t \in r.specs : place[t] = place[s]) = s
      BY <3>1
    <3>3. place[s] \in Range(place)
      BY <2>2 DEF Range
    <3> QED
      BY <2>1, <3>2, <3>3
  <2>5. ASSUME NEW f \in DOMAIN edit
        PROVE  /\ f \in Files /\ edit[f] \in Contents
               /\ ObjectsIn(tree[f]) \cup ObjectsIn(edit[f]) \subseteq ObjectsIn(r.specs)
    <3>1. PICK s \in r.specs : f = place[s]
      BY <2>3
    <3>2. edit[f] = {s} /\ {s} \in SUBSET r.specs
      BY <2>4, <3>1
    <3>3. ObjectsIn(edit[f]) \subseteq ObjectsIn(r.specs)
      BY <3>2 DEF ObjectsIn
    <3> QED
      BY <1>a, <2>2, <3>1, <3>2, <3>3
  <2>6. \A s \in r.specs : place[s] \in DOMAIN edit /\ s \in edit[place[s]]
    BY <2>3, <2>4
  <2> QED
    BY <2>5, <2>6
<1> QED
  BY <1>0, <1>1, <1>2

LEMMA ChangedKept ==
    ASSUME NEW edit, NEW tree
    PROVE  /\ DOMAIN Changed(edit, tree) = {f \in DOMAIN edit : edit[f] # tree[f]}
           /\ \A f \in DOMAIN Changed(edit, tree) : Changed(edit, tree)[f] = edit[f]
BY DEF Changed, Restrict

LEMMA StepChange ==
    ASSUME CallInv, NEW d \in Calls, ChangeCluster(d)
    PROVE  CallKept(d)'
<1>1. PICK r \in Requests :
        deploy' = [deploy EXCEPT ![d] = [Idle EXCEPT !.pc = "clone", !.request = r]]
  BY DEF ChangeCluster
<1>2. /\ CallFields \subseteq DOMAIN deploy'[d]
      /\ deploy'[d].pc = "clone" /\ deploy'[d].request = r
  BY <1>1 DEF CallInv, Idle, CallFields
<1> QED
  BY <1>2 DEF CallKept

LEMMA StepEnded ==
    ASSUME CallInv, NEW d \in Calls, NEW result \in {"done", "failed"}, NEW merged,
           deploy' = Ended(d, result, merged)
    PROVE  CallKept(d)'
<1>1. /\ CallFields \subseteq DOMAIN deploy'[d]
      /\ deploy'[d].pc = result /\ deploy'[d].request.kind = "none"
  BY DEF Ended, CallInv, Idle, CallFields
<1> QED
  BY <1>1 DEF CallKept

LEMMA StepCommit ==
    ASSUME CallInv, NEW d \in Calls, CommitResources(d)
    PROVE  CallKept(d)'
<1>1. CallKept(d) /\ deploy[d].pc = "clone" /\ deploy[d].request \in Requests /\ log' = log
  BY DEF CallInv, CallKept, CommitResources
<1>2. PICK edit \in SyncedFiles(deploy[d].request, Branch) :
        deploy' = IF IsClean(edit, Branch) THEN Ended(d, "done", {})
                   ELSE [deploy EXCEPT ![d].pc = "push", ![d].cloned = Len(log),
                                        ![d].parent = Len(log), ![d].edit = Changed(edit, Branch)]
  BY DEF CommitResources
<1>3. CASE IsClean(edit, Branch)
  BY <1>2, <1>3, StepEnded
<1>4. CASE ~IsClean(edit, Branch)
  <2>1. /\ CallFields \subseteq DOMAIN deploy'[d]
        /\ deploy'[d].pc = "push" /\ deploy'[d].request = deploy[d].request
        /\ deploy'[d].cloned = Len(log) /\ deploy'[d].parent = Len(log)
        /\ deploy'[d].edit = Changed(edit, Branch)
    BY <1>1, <1>2, <1>4 DEF CallInv, CallKept, CallFields
  <2>2. /\ DOMAIN edit \subseteq Files
        /\ \A f \in DOMAIN edit :
             /\ edit[f] \in Contents
             /\ ObjectsIn(Branch[f]) \cup ObjectsIn(edit[f]) \subseteq ObjectsIn(deploy[d].request.specs)
        /\ deploy[d].request.kind = "upsert" =>
             \A s \in deploy[d].request.specs : \E f \in DOMAIN edit : s \in edit[f]
    <3>1. Branch \in [Files -> Contents] /\ deploy[d].request \in Requests
      BY <1>1, BranchType DEF CallInv
    <3> QED
      BY <3>1, SyncedFilesKept
  <2>3. /\ DOMAIN deploy'[d].edit = {f \in DOMAIN edit : edit[f] # Branch[f]}
        /\ \A f \in DOMAIN deploy'[d].edit : deploy'[d].edit[f] = edit[f]
    <3>1. /\ DOMAIN Changed(edit, Branch) = {f \in DOMAIN edit : edit[f] # Branch[f]}
          /\ \A f \in DOMAIN Changed(edit, Branch) : Changed(edit, Branch)[f] = edit[f]
      BY ChangedKept
    <3> QED
      BY <2>1, <3>1
  <2>4. Len(log) \in 1..Len(log) /\ Len(log) \in Nat /\ log[Len(log)].tree = Branch
    BY DEF CallInv, LogTyped, Branch
  <2>a. ASSUME NEW f \in DOMAIN deploy'[d].edit, NEW o
        PROVE  ChangeKept(d, f, o)'
    <3>1. f \in DOMAIN edit /\ deploy'[d].edit[f] = edit[f] /\ f \in Files
      BY <2>2, <2>3
    <3>2. ASSUME Of(o, edit[f]) # Of(o, Branch[f])
          PROVE  o \in ObjectsIn(deploy[d].request.specs)
      <4>1. o \in ObjectsIn(Branch[f]) \cup ObjectsIn(edit[f])
        BY <3>2 DEF Of, ObjectsIn
      <4> QED
        BY <2>2, <3>1, <4>1
    <3>3. Of(o, Branch[f]) \subseteq SpecsOf(Branch)
      BY <3>1 DEF Of, SpecsOf
    <3> QED
      BY <1>1, <2>1, <2>4, <3>1, <3>2, <3>3 DEF ChangeKept
  <2>5. CommitKept(d)'
    BY <1>1, <2>1, <2>2, <2>3, <2>4, <2>a DEF CommitKept
  <2>6. ASSUME deploy[d].request.kind = "upsert", NEW s \in deploy[d].request.specs
        PROVE  SpecKept(d, s)'
    <3>1. PICK f \in DOMAIN edit : s \in edit[f]
      BY <2>2, <2>6
    <3>2. CASE Branch[f] = edit[f]
      <4>1. Len(log) \in deploy'[d].cloned..Len(log') /\ s \in SpecsOf(log'[Len(log)].tree)
        BY <1>1, <2>1, <2>2, <2>4, <3>1, <3>2 DEF SpecsOf
      <4> QED
        BY <4>1 DEF SpecKept, WasThere
    <3>3. CASE Branch[f] # edit[f]
      BY <2>3, <3>1, <3>3 DEF SpecKept
    <3> QED
      BY <3>2, <3>3
  <2> QED
    BY <1>1, <2>1, <2>5, <2>6 DEF CallKept
<1> QED
  BY <1>3, <1>4

(* A call that goes on with the same commit, while the branch may grow. *)
LEMMA SameCommit ==
    ASSUME CallInv, NEW d \in Calls, deploy[d].pc \in {"push", "pull"}, UNCHANGED log,
           CallFields \subseteq DOMAIN deploy'[d], deploy'[d].pc \in {"push", "pull"},
           deploy'[d].cloned = deploy[d].cloned, deploy'[d].parent = deploy[d].parent,
           deploy'[d].edit = deploy[d].edit, deploy'[d].request = deploy[d].request,
           deploy'[d].merged = deploy[d].merged
    PROVE  CallKept(d)'
<1>1. CallKept(d) /\ CommitKept(d) /\ deploy[d].request \in Requests
  BY DEF CallInv, CallKept
<1>2. CommitKept(d)'
  BY <1>1 DEF CommitKept, ChangeKept
<1>3. \A s : SpecKept(d, s) => SpecKept(d, s)'
  BY DEF SpecKept, WasThere
<1> QED
  BY <1>1, <1>2, <1>3 DEF CallKept

LEMMA StepPush ==
    ASSUME CallInv, NEW d \in Calls, Push(d)
    PROVE  CallKept(d)'
<1>1. /\ CallKept(d) /\ CommitKept(d) /\ deploy[d].parent = Len(log)
      /\ deploy[d].request \in Requests /\ Len(log) \in Nat
  BY DEF CallInv, LogTyped, CallKept, Push, Accepted
<1>2. /\ LogTyped' /\ Extends /\ Len(log)' = Len(log) + 1
      /\ log'[Len(log) + 1].tree = Edited(Branch, deploy[d].edit)
  BY PushExtends
<1>3. CASE deploy' = Ended(d, "done", deploy[d].merged)
  BY <1>3, StepEnded
<1>4. CASE deploy' = [deploy EXCEPT ![d].pc = "pull", ![d].edit = <<>>]
  <2>1. /\ CallFields \subseteq DOMAIN deploy'[d]
        /\ deploy'[d].pc = "pull" /\ deploy'[d].request = deploy[d].request
        /\ deploy'[d].cloned = deploy[d].cloned /\ deploy'[d].parent = deploy[d].parent
        /\ deploy'[d].edit = <<>> /\ deploy'[d].merged = deploy[d].merged
    BY <1>1, <1>4 DEF CallInv, CallKept, CallFields
  <2>2. DOMAIN deploy'[d].edit = {}
    BY <2>1
  <2>3. CommitKept(d)'
    BY <1>1, <1>2, <2>1, <2>2 DEF CommitKept, Extends
  <2>4. ASSUME deploy[d].request.kind = "upsert", NEW s \in deploy[d].request.specs
        PROVE  SpecKept(d, s)'
    <3>1. SpecKept(d, s)
      BY <1>1, <2>4 DEF CallKept, Push
    <3>2. CASE WasThere(d, s)
      <4>1. PICK i \in deploy[d].cloned..Len(log) : s \in SpecsOf(log[i].tree)
        BY <3>2 DEF WasThere
      <4>2. i \in deploy'[d].cloned..Len(log)' /\ log'[i] = log[i]
        BY <1>1, <1>2, <2>1, <4>1 DEF CommitKept, Extends
      <4> QED
        BY <4>1, <4>2 DEF SpecKept, WasThere
    <3>3. CASE \E f \in DOMAIN deploy[d].edit : s \in deploy[d].edit[f]
      <4>1. PICK f \in DOMAIN deploy[d].edit : s \in deploy[d].edit[f]
        BY <3>3
      <4>2. s \in SpecsOf(log'[Len(log) + 1].tree)
        BY <1>1, <1>2, <4>1 DEF CommitKept, Edited, SpecsOf
      <4>3. Len(log) + 1 \in deploy'[d].cloned..Len(log)'
        BY <1>1, <1>2, <2>1 DEF CommitKept
      <4> QED
        BY <4>2, <4>3 DEF SpecKept, WasThere
    <3>4. CASE s.obj \in deploy[d].merged
      BY <2>1, <3>4 DEF SpecKept
    <3> QED
      BY <3>1, <3>2, <3>3, <3>4 DEF SpecKept
  <2> QED
    BY <1>1, <2>1, <2>3, <2>4 DEF CallKept
<1> QED
  BY <1>3, <1>4 DEF Push

LEMMA StepReject ==
    ASSUME CallInv, NEW d \in Calls, RejectPush(d)
    PROVE  CallKept(d)'
<1>1. /\ CallFields \subseteq DOMAIN deploy'[d]
      /\ deploy'[d].pc = "pull" /\ deploy'[d].request = deploy[d].request
      /\ deploy'[d].cloned = deploy[d].cloned /\ deploy'[d].parent = deploy[d].parent
      /\ deploy'[d].edit = deploy[d].edit /\ deploy'[d].merged = deploy[d].merged
  BY DEF RejectPush, CallInv, CallKept, CallFields
<1>2. deploy[d].pc \in {"push", "pull"} /\ UNCHANGED log
  BY DEF RejectPush
<1> QED
  BY <1>1, <1>2, SameCommit

(* A clean merge keeps what we changed, and what others did where we       *)
(* changed nothing.                                                        *)
LEMMA MergeKeeps ==
    ASSUME NEW base, NEW ours \in Contents, NEW theirs, NEW c \in Merges(base, ours, theirs),
           NEW o \in Objects, o \notin Mixed(base, ours, theirs)
    PROVE  /\ Of(o, ours) # Of(o, base) => Of(o, c) = Of(o, ours)
           /\ Of(o, c) # Of(o, theirs) =>
                Of(o, ours) # Of(o, base) /\ Of(o, theirs) = Of(o, base)
<1>1. CASE theirs \in {base, ours}
  <2>1. c = ours
    BY <1>1 DEF Merges
  <2> QED
    BY <1>1, <2>1
<1>2. CASE theirs \notin {base, ours}
  <2>1. Of(o, c) = IF Of(o, ours) = Of(o, base) THEN Of(o, theirs) ELSE Of(o, ours)
    BY <1>2 DEF Merges
  <2>2. o \notin Contested(base, ours, theirs)
    BY DEF Mixed
  <2>3. Of(o, ours) \in {Of(o, base), Of(o, theirs)} \/ Of(o, theirs) = Of(o, base)
    BY <2>2 DEF Contested
  <2> QED
    BY <2>1, <2>3
<1> QED
  BY <1>1, <1>2

LEMMA MergesType ==
    ASSUME NEW base, NEW ours \in Contents, NEW theirs
    PROVE  Merges(base, ours, theirs) \subseteq Contents
BY DEF Merges

(* What the commit that is made anew holds. *)
LEMMA RebasedKept ==
    ASSUME CallInv, NEW d \in Calls, CommitKept(d), NEW to \in Moves(d), NEW content \in Clean(d, to)
    PROVE  /\ DOMAIN to = DOMAIN deploy[d].edit /\ DOMAIN RebasedEdit(to, content) \subseteq Files
           /\ \A g \in DOMAIN RebasedEdit(to, content) : \E f \in DOMAIN to : g = to[f]
           /\ \A f \in DOMAIN to :
                /\ to[f] \in DOMAIN RebasedEdit(to, content)
                /\ RebasedEdit(to, content)[to[f]] = content[f]
                /\ content[f] \in Merges(Base(d)[f], deploy[d].edit[f], Branch[to[f]])
                /\ content[f] \in Contents
                /\ Mixed(Base(d)[f], deploy[d].edit[f], Branch[to[f]]) \subseteq MixedBy(d, to)
<1>1. to \in [DOMAIN deploy[d].edit -> Files] /\ IsInjective(to)
  BY DEF Moves
<1>2. DOMAIN RebasedEdit(to, content) = {to[f] : f \in DOMAIN to}
  BY DEF RebasedEdit, Range
<1>3. ASSUME NEW f \in DOMAIN to
      PROVE  RebasedEdit(to, content)[to[f]] = content[f]
  <2>1. (CHOOSE g \in DOMAIN to : to[g] = to[f]) = f
    BY <1>1 DEF IsInjective
  <2>2. to[f] \in Range(to)
    BY DEF Range
  <2> QED
    BY <2>1, <2>2 DEF RebasedEdit
<1>4. \A f \in DOMAIN to : content[f] \in Merges(Base(d)[f], deploy[d].edit[f], Branch[to[f]])
  BY DEF Clean, Merged
<1>5. \A f \in DOMAIN to : content[f] \in Contents
  BY <1>1, <1>4, MergesType DEF CommitKept
<1>6. \A f \in DOMAIN to :
        Mixed(Base(d)[f], deploy[d].edit[f], Branch[to[f]]) \subseteq MixedBy(d, to)
  BY DEF MixedBy
<1> QED
  BY <1>1, <1>2, <1>3, <1>4, <1>5, <1>6

(* A spec of the request after the rebase. *)
LEMMA RebasedSpec ==
    ASSUME CallInv, NEW d \in Calls, CommitKept(d), NEW to \in Moves(d), NEW content \in Clean(d, to),
           NEW s, s.obj \in Objects, SpecKept(d, s)
    PROVE  \/ WasThere(d, s)
           \/ \E g \in DOMAIN RebasedEdit(to, content) : s \in RebasedEdit(to, content)[g]
           \/ s.obj \in deploy[d].merged \cup MixedBy(d, to)
<1>1. SUFFICES ASSUME s.obj \notin MixedBy(d, to), NEW f \in DOMAIN deploy[d].edit, s \in deploy[d].edit[f]
               PROVE  \/ WasThere(d, s)
                      \/ \E g \in DOMAIN RebasedEdit(to, content) : s \in RebasedEdit(to, content)[g]
  BY DEF SpecKept
<1>2. /\ f \in DOMAIN to /\ to[f] \in DOMAIN RebasedEdit(to, content)
      /\ RebasedEdit(to, content)[to[f]] = content[f]
      /\ content[f] \in Merges(Base(d)[f], deploy[d].edit[f], Branch[to[f]])
      /\ s.obj \notin Mixed(Base(d)[f], deploy[d].edit[f], Branch[to[f]])
      /\ f \in Files /\ deploy[d].edit[f] \in Contents
  BY <1>1, RebasedKept DEF CommitKept
<1>3. s \in Of(s.obj, deploy[d].edit[f])
  BY <1>1 DEF Of
<1>4. CASE Of(s.obj, deploy[d].edit[f]) = Of(s.obj, Base(d)[f])
  <2>1. s \in log[deploy[d].parent].tree[f]
    BY <1>3, <1>4 DEF Base, Of
  <2>2. deploy[d].parent \in deploy[d].cloned..Len(log)
    BY DEF CommitKept, CallInv, LogTyped
  <2> QED
    BY <1>2, <2>1, <2>2 DEF WasThere, SpecsOf
<1>5. CASE Of(s.obj, deploy[d].edit[f]) # Of(s.obj, Base(d)[f])
  <2>1. Of(s.obj, content[f]) = Of(s.obj, deploy[d].edit[f])
    BY <1>2, <1>5, MergeKeeps
  <2>2. s \in content[f]
    BY <1>3, <2>1 DEF Of
  <2> QED
    BY <1>2, <2>2
<1> QED
  BY <1>4, <1>5

LEMMA StepRebase ==
    ASSUME CallInv, NEW d \in Calls, PullRebase(d)
    PROVE  CallKept(d)'
<1>1. /\ CallKept(d) /\ CommitKept(d) /\ deploy[d].request \in Requests
      /\ Len(log) \in Nat \ {0} /\ log' = log /\ log[Len(log)].tree = Branch
  BY DEF CallInv, LogTyped, CallKept, PullRebase, Branch
<1>2. CASE deploy' = Ended(d, "failed", {})
  BY <1>2, StepEnded
<1>3. ASSUME NEW to \in Moves(d), NEW content \in Clean(d, to),
             deploy' = IF IsClean(RebasedEdit(to, content), Branch)
                       THEN Ended(d, "done", deploy[d].merged \cup MixedBy(d, to))
                       ELSE [deploy EXCEPT ![d].pc = "push", ![d].parent = Len(log),
                                ![d].edit = Changed(RebasedEdit(to, content), Branch),
                                ![d].merged = deploy[d].merged \cup MixedBy(d, to)]
      PROVE  CallKept(d)'
  <2> DEFINE edit == RebasedEdit(to, content)
  <2>1. CASE IsClean(edit, Branch)
    BY <1>3, <2>1, StepEnded
  <2>2. CASE ~IsClean(edit, Branch)
    <3>1. /\ CallFields \subseteq DOMAIN deploy'[d]
          /\ deploy'[d].pc = "push" /\ deploy'[d].request = deploy[d].request
          /\ deploy'[d].cloned = deploy[d].cloned /\ deploy'[d].parent = Len(log)
          /\ deploy'[d].edit = Changed(edit, Branch)
          /\ deploy'[d].merged = deploy[d].merged \cup MixedBy(d, to)
      <4> HIDE DEF edit
      <4> QED
        BY <1>1, <1>3, <2>2 DEF CallInv, CallKept, CallFields, edit
    <3> HIDE DEF edit
    <3>2. /\ DOMAIN Changed(edit, Branch) = {g \in DOMAIN edit : edit[g] # Branch[g]}
          /\ \A g \in DOMAIN Changed(edit, Branch) : Changed(edit, Branch)[g] = edit[g]
      BY ChangedKept
    <3>3. /\ DOMAIN deploy'[d].edit = {g \in DOMAIN edit : edit[g] # Branch[g]}
          /\ \A g \in DOMAIN deploy'[d].edit : deploy'[d].edit[g] = edit[g]
      BY <3>1, <3>2
    <3>4. /\ DOMAIN to = DOMAIN deploy[d].edit /\ DOMAIN edit \subseteq Files
          /\ \A g \in DOMAIN edit : \E f \in DOMAIN to : g = to[f]
          /\ \A f \in DOMAIN to :
               /\ edit[to[f]] = content[f]
               /\ content[f] \in Merges(Base(d)[f], deploy[d].edit[f], Branch[to[f]])
               /\ content[f] \in Contents
               /\ Mixed(Base(d)[f], deploy[d].edit[f], Branch[to[f]]) \subseteq MixedBy(d, to)
      BY <1>1, <1>3, RebasedKept DEF edit
    <3>5. ASSUME NEW g \in DOMAIN deploy'[d].edit
          PROVE  /\ deploy'[d].edit[g] \in Contents
                 /\ \A o \in Objects \ deploy'[d].merged : ChangeKept(d, g, o)'
      <4>1. PICK f \in DOMAIN to : g = to[f]
        BY <3>3, <3>4
      <4>2. /\ deploy'[d].edit[g] = content[f] /\ deploy[d].edit[f] \in Contents
            /\ content[f] \in Merges(Base(d)[f], deploy[d].edit[f], Branch[g])
            /\ content[f] \in Contents
            /\ Mixed(Base(d)[f], deploy[d].edit[f], Branch[g]) \subseteq MixedBy(d, to)
        BY <1>1, <3>3, <3>4, <4>1 DEF CommitKept
      <4>3. ASSUME NEW o \in Objects \ deploy'[d].merged
            PROVE  ChangeKept(d, g, o)'
        <5>1. o \notin deploy[d].merged /\ o \notin Mixed(Base(d)[f], deploy[d].edit[f], Branch[g])
          BY <3>1, <4>2
        <5>2. Of(o, content[f]) # Of(o, Branch[g]) =>
                 Of(o, deploy[d].edit[f]) # Of(o, Base(d)[f]) /\ Of(o, Branch[g]) = Of(o, Base(d)[f])
          BY <4>2, <5>1, MergeKeeps
        <5>3. ChangeKept(d, f, o)
          BY <1>1, <3>4, <5>1 DEF CommitKept
        <5>4. Of(o, content[f]) # Of(o, Branch[g]) =>
                 /\ o \in ObjectsIn(deploy[d].request.specs)
                 /\ Of(o, Branch[g]) \subseteq SpecsOf(log[deploy[d].cloned].tree)
          BY <5>2, <5>3 DEF ChangeKept, Base
        <5> QED
          BY <1>1, <3>1, <4>2, <5>4 DEF ChangeKept
      <4> QED
        BY <4>2, <4>3
    <3>6. CommitKept(d)'
      BY <1>1, <3>1, <3>3, <3>4, <3>5 DEF CommitKept
    <3>7. ASSUME deploy[d].request.kind = "upsert", NEW s \in deploy[d].request.specs
          PROVE  SpecKept(d, s)'
      <4>1. SpecKept(d, s) /\ s.obj \in Objects
        BY <1>1, <3>7, SyncAssumption DEF CallKept, PullRebase, Contents, Specs
      <4>2. \/ WasThere(d, s)
            \/ \E g \in DOMAIN edit : s \in edit[g]
            \/ s.obj \in deploy[d].merged \cup MixedBy(d, to)
        BY <1>1, <1>3, <4>1, RebasedSpec DEF edit
      <4>3. CASE WasThere(d, s)
        BY <1>1, <3>1, <4>3 DEF SpecKept, WasThere
      <4>4. CASE \E g \in DOMAIN edit : s \in edit[g]
        <5>1. PICK g \in DOMAIN edit : s \in edit[g]
          BY <4>4
        <5>2. CASE edit[g] = Branch[g]
          <6>1. s \in SpecsOf(log'[Len(log)].tree) /\ Len(log) \in deploy'[d].cloned..Len(log')
            BY <1>1, <3>1, <3>4, <5>1, <5>2 DEF SpecsOf, CommitKept
          <6> QED
            BY <6>1 DEF SpecKept, WasThere
        <5>3. CASE edit[g] # Branch[g]
          BY <3>3, <5>1, <5>3 DEF SpecKept
        <5> QED
          BY <5>2, <5>3
      <4>5. CASE s.obj \in deploy[d].merged \cup MixedBy(d, to)
        BY <3>1, <4>5 DEF SpecKept
      <4> QED
        BY <4>2, <4>3, <4>4, <4>5
    <3> QED
      BY <1>1, <3>1, <3>6, <3>7 DEF CallKept
  <2> QED
    BY <2>1, <2>2
<1> QED
  BY <1>2, <1>3 DEF PullRebase

LEMMA StepFail ==
    ASSUME CallInv, NEW d \in Calls, FailToSync(d)
    PROVE  CallKept(d)'
BY StepEnded DEF FailToSync

CallStep(d) == ChangeCluster(d) \/ SyncStep(d) \/ FailToSync(d)

LEMMA CallSteps ==
    ASSUME CallInv, NEW d \in Calls, CallStep(d)
    PROVE  CallInv'
<1>1. CallKept(d)'
  BY StepChange, StepCommit, StepPush, StepReject, StepRebase, StepFail DEF CallStep, SyncStep
<1>2. LogTyped' /\ Extends
  <2>1. CASE Push(d)
    BY <2>1, PushExtends
  <2>2. CASE UNCHANGED log
    BY <2>2, SameLog DEF CallInv
  <2> QED
    BY <2>1, <2>2 DEF CallStep, SyncStep, ChangeCluster, CommitResources, RejectPush,
       PullRebase, FailToSync
<1>3. DOMAIN deploy' = Calls /\ \A c \in Calls \ {d} : deploy'[c] = deploy[c]
  BY DEF CallStep, SyncStep, ChangeCluster, CommitResources, Push, RejectPush, PullRebase,
     FailToSync, Ended, CallInv
<1>4. \A c \in Calls \ {d} : CallKept(c)'
  BY <1>2, <1>3, CallRests
<1> QED
  BY <1>1, <1>2, <1>3, <1>4 DEF CallInv

JobStep(j) == StartSync(j) \/ StepOf(j) \/ Die(j)

LEMMA JobStepsOnlyJob ==
    ASSUME NEW j, JobStep(j) \/ StartRepoSync(j)
    PROVE  UNCHANGED <<log, deploy>>
<1>a. StartSync(j) => UNCHANGED <<log, deploy>>
  BY DEF StartSync
<1>b. ApplySpec(j) => UNCHANGED <<log, deploy>>
  BY DEF ApplySpec
<1>c. EndJob(j) => UNCHANGED <<log, deploy>>
  BY DEF EndJob
<1>d. Die(j) => UNCHANGED <<log, deploy>>
  BY DEF Die
<1>e. StartRepoSync(j) => UNCHANGED <<log, deploy>>
  BY DEF StartRepoSync
<1>2. TakeFile(j) => UNCHANGED <<log, deploy>>
  BY DEF TakeFile
<1>3. DeleteSpec(j) => UNCHANGED <<log, deploy>>
  BY DEF DeleteSpec
<1> QED
  BY <1>a, <1>b, <1>c, <1>d, <1>e, <1>2, <1>3 DEF JobStep, StepOf

LEMMA NextCases ==
    ASSUME Next
    PROVE  \/ UserPush
           \/ \E j \in JobIds : JobStep(j)
           \/ \E j \in Timers : StartRepoSync(j)
           \/ \E d \in Calls : CallStep(d)
BY DEF Next, JobStep, CallStep

LEMMA CallInvStep == ASSUME CallInv, [Next]_vars PROVE CallInv'
<1>1. CASE UserPush
  <2>1. LogTyped' /\ Extends /\ deploy' = deploy
    BY <1>1, UserPushExtends DEF UserPush, CallInv
  <2>2. \A d \in Calls : CallKept(d)'
    BY <2>1, CallRests
  <2> QED
    BY <2>1, <2>2 DEF CallInv
<1>2. CASE UNCHANGED <<log, deploy>>
  <2>1. LogTyped' /\ Extends
    BY <1>2, SameLog DEF CallInv
  <2>2. \A d \in Calls : CallKept(d)'
    BY <1>2, <2>1, CallRests
  <2> QED
    BY <1>2, <2>1, <2>2 DEF CallInv
<1>3. CASE \E d \in Calls : CallStep(d)
  BY <1>3, CallSteps
<1> QED
  BY <1>1, <1>2, <1>3, NextCases, JobStepsOnlyJob DEF vars

LEMMA CallInvStart == Init => CallInv
<1> SUFFICES ASSUME Init PROVE CallInv
  OBVIOUS
<1>1. log = <<[tree |-> FirstTree, own |-> FALSE]>>
  BY DEF Init
<1>2. [tree |-> FirstTree, own |-> FALSE] \in Commit
  BY SyncAssumption DEF Commit
<1>3. LogTyped
  BY <1>1, <1>2 DEF LogTyped
<1>4. deploy = [d \in Calls |-> Idle]
  BY DEF Init
<1>5. \A d \in Calls : CallKept(d)
  BY <1>4 DEF CallKept, CallFields, Idle
<1> QED
  BY <1>3, <1>4, <1>5 DEF CallInv

LEMMA CallsKept == Spec => []CallInv
<1>1. CallInv /\ [Next]_vars => CallInv'
  BY CallInvStep
<1> QED
  BY <1>1, CallInvStart, PTL DEF Spec

(* A push of this SDM changes specs of the resources it deploys or removes *)
(* and no other, and replaces none that was written since the call cloned, *)
(* however many calls and users push, however often a push is rejected and *)
(* however git merges the files both changed; only of specs that git mixed *)
(* with others' nothing is known (syncResources).                          *)
THEOREM PushKeepsOthersHolds == Spec => PushKeepsOthers
<1> DEFINE Keeps(d) == \A f \in Files : \A o \in Objects \ deploy[d].merged :
              Of(o, log'[Len(log')].tree[f]) # Of(o, Branch[f]) =>
                 /\ o \in ObjectsIn(deploy[d].request.specs)
                 /\ Of(o, Branch[f]) \subseteq SpecsOf(log[deploy[d].cloned].tree)
<1>1. ASSUME CallInv, NEW d \in Calls, Push(d)
      PROVE  Keeps(d)
  <2>1. CommitKept(d) /\ log[deploy[d].parent].tree = Branch
    BY <1>1 DEF CallInv, CallKept, Push, Accepted, Branch
  <2>2. log'[Len(log')].tree = Edited(Branch, deploy[d].edit)
    BY <1>1, PushExtends
  <2>3. \A f \in Files : log'[Len(log')].tree[f] =
            IF f \in DOMAIN deploy[d].edit THEN deploy[d].edit[f] ELSE Branch[f]
    BY <2>2 DEF Edited
  <2>4. \A f \in DOMAIN deploy[d].edit : \A o \in Objects \ deploy[d].merged : ChangeKept(d, f, o)
    BY <2>1 DEF CommitKept
  <2> QED
    BY <2>1, <2>3, <2>4 DEF ChangeKept
<1>2. CallInv /\ [Next]_vars => [\A d \in Calls : Push(d) => Keeps(d)]_vars
  BY <1>1
<1> QED
  BY <1>2, CallsKept, PTL DEF Spec, PushKeepsOthers

Landed(d, s) ==
    \/ s.obj \in deploy'[d].merged
    \/ \E i \in ClonedAt(d)..Len(log') : s \in SpecsOf(log'[i].tree)

Lands(d) == \A s \in deploy[d].request.specs : Landed(d, s)

LEMMA CommitLands ==
    ASSUME CallInv, NEW d \in Calls, CommitResources(d), deploy'[d].pc = "done",
           deploy[d].request.kind = "upsert"
    PROVE  Lands(d)
<1>1. /\ deploy[d].pc = "clone" /\ deploy[d].request \in Requests /\ log' = log
      /\ Len(log) \in Nat /\ log[Len(log)].tree = Branch
      /\ DOMAIN deploy = Calls /\ CallFields \subseteq DOMAIN deploy[d]
  BY DEF CallInv, LogTyped, CallKept, CommitResources, Branch
<1>2. PICK edit \in SyncedFiles(deploy[d].request, Branch) :
        deploy' = IF IsClean(edit, Branch) THEN Ended(d, "done", {})
                   ELSE [deploy EXCEPT ![d].pc = "push", ![d].cloned = Len(log),
                                        ![d].parent = Len(log), ![d].edit = Changed(edit, Branch)]
  BY DEF CommitResources
<1>3. IsClean(edit, Branch)
  BY <1>1, <1>2 DEF CallFields
<1>4. /\ DOMAIN edit \subseteq Files
      /\ \A s \in deploy[d].request.specs : \E f \in DOMAIN edit : s \in edit[f]
  <2>1. Branch \in [Files -> Contents]
    BY BranchType DEF CallInv
  <2> QED
    BY <1>1, <2>1, SyncedFilesKept
<1>5. ASSUME NEW s \in deploy[d].request.specs
      PROVE  s \in SpecsOf(log'[Len(log)].tree)
  BY <1>1, <1>3, <1>4 DEF IsClean, SpecsOf
<1>6. Len(log) \in ClonedAt(d)..Len(log')
  BY <1>1 DEF ClonedAt
<1> QED
  BY <1>5, <1>6 DEF Lands, Landed

LEMMA PushLands ==
    ASSUME CallInv, NEW d \in Calls, Push(d), deploy'[d].pc = "done",
           deploy[d].request.kind = "upsert"
    PROVE  Lands(d)
<1>1. /\ CallKept(d) /\ CommitKept(d) /\ deploy[d].pc = "push" /\ Len(log) \in Nat
      /\ DOMAIN deploy = Calls /\ \A s \in deploy[d].request.specs : SpecKept(d, s)
  BY DEF CallInv, LogTyped, CallKept, Push
<1>2. /\ Extends /\ Len(log)' = Len(log) + 1
      /\ log'[Len(log) + 1].tree = Edited(Branch, deploy[d].edit)
  BY PushExtends
<1>3. ClonedAt(d) = deploy[d].cloned
  BY <1>1 DEF ClonedAt
<1>4. deploy'[d].merged = deploy[d].merged
  BY <1>1 DEF Push, Ended, Idle, CallKept, CallFields
<1>5. ASSUME NEW s \in deploy[d].request.specs
      PROVE  Landed(d, s)
  <2>1. CASE WasThere(d, s)
    <3>1. PICK i \in deploy[d].cloned..Len(log) : s \in SpecsOf(log[i].tree)
      BY <2>1 DEF WasThere
    <3>2. i \in ClonedAt(d)..Len(log') /\ log'[i] = log[i]
      BY <1>1, <1>2, <1>3, <3>1 DEF CommitKept, Extends
    <3> QED
      BY <3>1, <3>2 DEF Landed
  <2>2. CASE \E f \in DOMAIN deploy[d].edit : s \in deploy[d].edit[f]
    <3>1. s \in SpecsOf(log'[Len(log) + 1].tree)
      BY <1>1, <1>2, <2>2 DEF CommitKept, Edited, SpecsOf
    <3>2. Len(log) + 1 \in ClonedAt(d)..Len(log')
      BY <1>1, <1>2, <1>3 DEF CommitKept
    <3> QED
      BY <3>1, <3>2 DEF Landed
  <2>3. CASE s.obj \in deploy[d].merged
    BY <1>4, <2>3 DEF Landed
  <2> QED
    BY <1>1, <2>1, <2>2, <2>3 DEF SpecKept
<1> QED
  BY <1>5 DEF Lands

LEMMA RebaseLands ==
    ASSUME CallInv, NEW d \in Calls, PullRebase(d), deploy'[d].pc = "done",
           deploy[d].request.kind = "upsert"
    PROVE  Lands(d)
<1>1. /\ CommitKept(d) /\ deploy[d].pc = "pull" /\ Len(log) \in Nat /\ log' = log
      /\ log[Len(log)].tree = Branch /\ \A s \in deploy[d].request.specs : SpecKept(d, s)
      /\ DOMAIN deploy = Calls /\ CallFields \subseteq DOMAIN deploy[d]
      /\ deploy[d].request \in Requests
  BY DEF CallInv, LogTyped, CallKept, PullRebase, Branch
<1>2. deploy' # Ended(d, "failed", {})
  BY <1>1 DEF Ended, Idle
<1>a. PICK to \in Moves(d) : \E content \in Clean(d, to) :
        deploy' = IF IsClean(RebasedEdit(to, content), Branch)
                  THEN Ended(d, "done", deploy[d].merged \cup MixedBy(d, to))
                  ELSE [deploy EXCEPT ![d].pc = "push", ![d].parent = Len(log),
                           ![d].edit = Changed(RebasedEdit(to, content), Branch),
                           ![d].merged = deploy[d].merged \cup MixedBy(d, to)]
  BY <1>2 DEF PullRebase
<1>3. PICK content \in Clean(d, to) :
        deploy' = IF IsClean(RebasedEdit(to, content), Branch)
                  THEN Ended(d, "done", deploy[d].merged \cup MixedBy(d, to))
                  ELSE [deploy EXCEPT ![d].pc = "push", ![d].parent = Len(log),
                           ![d].edit = Changed(RebasedEdit(to, content), Branch),
                           ![d].merged = deploy[d].merged \cup MixedBy(d, to)]
  BY <1>a
<1> DEFINE edit == RebasedEdit(to, content)
<1>4. DOMAIN edit \subseteq Files
  BY <1>1, RebasedKept
<1>5. /\ IsClean(edit, Branch)
      /\ deploy'[d].merged = deploy[d].merged \cup MixedBy(d, to)
  BY <1>1, <1>3 DEF CallFields, Ended, Idle
<1>6. ClonedAt(d) = deploy[d].cloned
  BY <1>1 DEF ClonedAt
<1>7. ASSUME NEW s \in deploy[d].request.specs
      PROVE  Landed(d, s)
  <2>0. s.obj \in Objects
    BY <1>1, SyncAssumption DEF Contents, Specs
  <2>1. \/ WasThere(d, s)
        \/ \E g \in DOMAIN edit : s \in edit[g]
        \/ s.obj \in deploy[d].merged \cup MixedBy(d, to)
    BY <1>1, <2>0, RebasedSpec
  <2> HIDE DEF edit
  <2>2. CASE WasThere(d, s)
    BY <1>1, <1>6, <2>2 DEF WasThere, Landed
  <2>3. CASE \E g \in DOMAIN edit : s \in edit[g]
    <3>1. s \in SpecsOf(log'[Len(log)].tree)
      BY <1>1, <1>4, <1>5, <2>3 DEF IsClean, SpecsOf
    <3>2. Len(log) \in ClonedAt(d)..Len(log')
      BY <1>1, <1>6 DEF CommitKept
    <3> QED
      BY <3>1, <3>2 DEF Landed
  <2>4. CASE s.obj \in deploy[d].merged \cup MixedBy(d, to)
    BY <1>5, <2>4 DEF Landed
  <2> QED
    BY <2>1, <2>2, <2>3, <2>4
<1> QED
  BY <1>7 DEF Lands

(* A deployment that reports success had each of its specs in the          *)
(* repository when it cloned or later, whatever others pushed and however  *)
(* their changes were merged, unless git mixed the spec with another       *)
(* (syncResources).                                                        *)
THEOREM DeployLandsHolds == Spec => DeployLands
<1>1. ASSUME CallInv, NEW d \in Calls, CallStep(d), deploy'[d].pc = "done",
             deploy[d].request.kind = "upsert"
      PROVE  Lands(d)
  <2>1. ChangeCluster(d) \/ RejectPush(d) \/ FailToSync(d) => deploy'[d].pc # "done"
    BY <1>1 DEF CallInv, CallKept, CallFields, ChangeCluster, RejectPush, FailToSync, Ended, Idle
  <2> QED
    BY <1>1, <2>1, CommitLands, PushLands, RebaseLands DEF CallStep, SyncStep
<1>2. ASSUME CallInv, [Next]_vars, NEW d \in Calls, deploy'[d].pc = "done",
             deploy[d].request.kind = "upsert"
      PROVE  Lands(d)
  <2>1. deploy[d].pc \in {"clone", "push", "pull"} /\ DOMAIN deploy = Calls
    BY <1>2 DEF CallInv, CallKept
  <2>2. deploy'[d] # deploy[d]
    BY <1>2, <2>1
  <2>3. ASSUME NEW e \in Calls, e # d, CallStep(e)
        PROVE  deploy'[d] = deploy[d]
    BY <2>1, <2>3 DEF CallStep, SyncStep, ChangeCluster, CommitResources, Push, RejectPush,
       PullRebase, FailToSync, Ended
  <2>4. CallStep(d)
    BY <1>2, <2>2, <2>3, NextCases, JobStepsOnlyJob DEF vars, UserPush
  <2> QED
    BY <1>1, <1>2, <2>4
<1>3. CallInv /\ [Next]_vars =>
        [\A d \in Calls : deploy[d].request.kind = "upsert" /\ deploy'[d].pc = "done" => Lands(d)]_vars
  BY <1>2
<1> QED
  BY <1>3, CallsKept, PTL DEF Spec, DeployLands, Lands, Landed

---------------------------------------------------------------------------
(* Jobs of pushes.                                                         *)

PushJobs == JobIds \ Timers
JobFields == {"status", "first", "last", "todo", "work", "failed", "excused", "wrote"}
Active(j) == job[j].status \in {"requested", "running"}
Span(j) == job[j].first..j
Reach(j) == (job[j].first - 1)..j

JobTyped(j) ==
    /\ JobFields \subseteq DOMAIN job[j]
    /\ DOMAIN job[j].wrote = Objects /\ {"apply", "delete"} \subseteq DOMAIN job[j].work
    /\ Active(j) =>
         /\ job[j].first \in Nat \ {0, 1} /\ job[j].first <= j /\ job[j].last = j /\ j <= Len(log)
    /\ job[j].status = "requested" => job[j].work = Nothing /\ ~job[j].failed
         /\ job[j].wrote = [o \in Objects |-> Untouched]

(* What is left to do are changes of commits of the push.                  *)
TodoKept(j) ==
    Running(j) => \A c \in job[j].todo :
        /\ c.commit \in Span(j) /\ c.path \in Files
        /\ c.change = IF log[c.commit].tree[c.path] = {} THEN "delete" ELSE "apply"

Pending(j, f, i) == \E c \in job[j].todo : c.path = f /\ c.commit = i
Only(o, f, j) == \A i \in Reach(j) : \A g \in Files \ {f} : ~Holds(o, g, i)
Ever(o, f, j) == \E i \in Reach(j) : Holds(o, f, i)
HadSpec(o, f, i) == o \in ObjectsIn(NotIgnored(log[i].tree[f]))
Final(o, f, j) == Of(o, NotIgnored(log[j].tree[f]))

(* Later changes of a file are pending as long as an earlier one is.       *)
InOrder(o, f, j) ==
    Ever(o, f, j) =>
        \A i, k \in Span(j) : Pending(j, f, i) /\ Differ(f, k) /\ i < k => Pending(j, f, k)

AppliesFinal(o, f, j) == Of(o, job[j].work.apply) \subseteq Final(o, f, j)

WroteFinal(o, f, j) ==
    job[j].wrote[o] \in {Untouched, Absent} \cup {s.ver : s \in Final(o, f, j)}

DeletesRemoved(o, f, j) ==
    o \in job[j].work.delete \/ job[j].wrote[o] = Absent => \E i \in Span(j) : ~Holds(o, f, i)

(* When no change of its file is pending, the spec is being applied or was. *)
FinalComes(o, f, j) ==
    \A s \in Final(o, f, j) :
        (\E i \in Span(j) : Differ(f, i)) /\ (\A i \in Span(j) : ~Pending(j, f, i)) =>
            o \notin job[j].work.delete /\ (s \in Of(o, job[j].work.apply) \/ job[j].wrote[o] = s.ver)

RemovalComes(o, f, j) ==
    \A i \in Span(j) : Differ(f, i) /\ HadSpec(o, f, i - 1) /\ ~Holds(o, f, j) =>
        Pending(j, f, i) \/ o \in job[j].work.delete \/ job[j].wrote[o] = Absent

SpecFollowed(o, f, j) ==
    /\ InOrder(o, f, j) /\ AppliesFinal(o, f, j) /\ WroteFinal(o, f, j)
    /\ DeletesRemoved(o, f, j) /\ FinalComes(o, f, j) /\ RemovalComes(o, f, j)

PushFollowed(j) ==
    Running(j) /\ ~job[j].failed =>
        \A o \in Objects \ job[j].excused : \A f \in Files :
            Only(o, f, j) => SpecFollowed(o, f, j)

(* What the job has touched or will touch is in a file that a commit which *)
(* is not this SDM's own has changed.                                      *)
ByOthers(o, j) ==
    \E i \in Reach(j), f \in Files, k \in Span(j) :
        ~log[k].own /\ Differ(f, k) /\ Holds(o, f, i)

TouchesOthers(j) ==
    Running(j) =>
        /\ \A c \in job[j].todo : ~log[c.commit].own /\ Differ(c.path, c.commit)
        /\ \A s \in job[j].work.apply : ByOthers(s.obj, j)
        /\ \A o \in job[j].work.delete : ByOthers(o, j)
        /\ \A o \in Objects : job[j].wrote[o] # Untouched => ByOthers(o, j)

JobKept(j) == JobTyped(j) /\ TodoKept(j) /\ PushFollowed(j) /\ TouchesOthers(j)

JobInv == LogTyped /\ DOMAIN job = JobIds /\ \A j \in PushJobs : JobKept(j)

(* The least of a set of numbers: no set of initial segments descends      *)
(* forever.                                                                *)
LEMMA Least ==
    ASSUME NEW T \in SUBSET Nat, T # {}
    PROVE  \E m \in T : \A n \in T : m <= n
<1> DEFINE UpTo(x) == {y \in T : y <= x}
           Segments == {UpTo(x) : x \in T}
<1>1. Segments \subseteq FiniteSubsetsOf(Nat) /\ Segments # {}
  <2>1. ASSUME NEW x \in T
        PROVE  IsFiniteSet(UpTo(x)) /\ UpTo(x) \subseteq Nat
    <3>1. UpTo(x) \in SUBSET Nat /\ x \in Nat /\ \A y \in UpTo(x) : y <= x
      OBVIOUS
    <3> HIDE DEF UpTo
    <3> QED
      BY <3>1, FS_BoundedSetOfNaturals
  <2> QED
    BY <2>1 DEF FiniteSubsetsOf
<1>2. IsWellFoundedOn(StrictSubsetOrdering(Nat), FiniteSubsetsOf(Nat))
  BY FS_StrictSubsetOrderingWellFounded
<1>3. PICK D \in Segments : \A U \in Segments : <<U, D>> \notin StrictSubsetOrdering(Nat)
  <2> HIDE DEF Segments
  <2> QED
    BY <1>1, <1>2, WFMin
<1>4. PICK m \in T : D = UpTo(m)
  OBVIOUS
<1>5. ASSUME NEW n \in T, ~(m <= n)
      PROVE  FALSE
  <2>1. n < m /\ m \in Nat /\ n \in Nat
    BY <1>5
  <2>2. UpTo(n) \subseteq UpTo(m) /\ m \in UpTo(m) /\ m \notin UpTo(n)
    <3>1. ASSUME NEW y \in T, y <= n
          PROVE  y <= m
      <4>1. y \in Nat
        OBVIOUS
      <4> QED
        BY <2>1, <3>1, <4>1
    <3>2. UpTo(n) \subseteq UpTo(m)
      BY <3>1
    <3>3. m \in UpTo(m)
      BY <2>1
    <3>4. m \notin UpTo(n)
      BY <2>1
    <3> QED
      BY <3>2, <3>3, <3>4
  <2>3. UpTo(n) \in SUBSET Nat /\ UpTo(m) \in SUBSET Nat /\ UpTo(n) \in Segments
    OBVIOUS
  <2> HIDE DEF UpTo, Segments
  <2>4. <<UpTo(n), UpTo(m)>> \in StrictSubsetOrdering(Nat)
    BY <2>2, <2>3 DEF StrictSubsetOrdering
  <2> QED
    BY <1>3, <1>4, <2>3, <2>4
<1> QED
  BY <1>5

(* What is not at the last commit as it was at an earlier one was changed in between. *)
LEMMA ChangedBetween ==
    ASSUME NEW f, NEW i \in Nat, NEW j \in Nat, i <= j, log[i].tree[f] # log[j].tree[f]
    PROVE  \E k \in i + 1..j : Differ(f, k)
<1> DEFINE T == {k \in i + 1..j : log[k].tree[f] # log[i].tree[f]}
<1>1. T \in SUBSET Nat /\ j \in T
  BY SMT
<1>2. PICK m \in T : \A n \in T : m <= n
  <2> HIDE DEF T
  <2> QED
    BY <1>1, Least
<1>3. m - 1 = i \/ m - 1 \in i + 1..j
  OBVIOUS
<1>4. log[m - 1].tree[f] = log[i].tree[f]
  BY <1>2, <1>3
<1> QED
  BY <1>4 DEF Differ

LEMMA RemovedBetween ==
    ASSUME NEW o, NEW f, NEW i \in Nat, NEW j \in Nat, i <= j,
           HadSpec(o, f, i), ~HadSpec(o, f, j)
    PROVE  \E k \in i + 1..j : Differ(f, k) /\ HadSpec(o, f, k - 1)
<1> DEFINE T == {k \in i + 1..j : ~HadSpec(o, f, k)}
<1>1. T \in SUBSET Nat /\ j \in T
  BY SMT
<1>2. PICK m \in T : \A n \in T : m <= n
  <2> HIDE DEF T
  <2> QED
    BY <1>1, Least
<1>3. m - 1 = i \/ m - 1 \in i + 1..j
  OBVIOUS
<1>4. HadSpec(o, f, m - 1) /\ ~HadSpec(o, f, m)
  BY <1>2, <1>3
<1> QED
  BY <1>4 DEF Differ, HadSpec

LEMMA ReachInLog ==
    ASSUME LogTyped, NEW j \in PushJobs, JobTyped(j), Active(j)
    PROVE  /\ j \in Nat /\ j \in Span(j) /\ job[j].first - 1 \in Nat
           /\ Reach(j) \subseteq 1..Len(log) /\ Span(j) \subseteq Reach(j)
           /\ \A i \in Span(j) : i - 1 \in Reach(j) /\ i \in Nat
BY SyncAssumption DEF JobTyped, LogTyped, Reach, Span, PushJobs, JobIds

(* A file of a commit has one spec of a resource.                          *)
LEMMA OneSpec ==
    ASSUME LogTyped, NEW i \in 1..Len(log), NEW f \in Files
    PROVE  \A s, t \in log[i].tree[f] :
             s.ver \in Versions /\ s.obj \in Objects /\ (s.obj = t.obj => s = t)
<1>1. log[i].tree[f] \in Contents
  BY TreeType
<1> QED
  BY <1>1 DEF Contents, Specs

(* Others do something: the branch may grow. *)
LEMMA JobRests ==
    ASSUME LogTyped, LogTyped', Extends, NEW j \in PushJobs, JobKept(j), job'[j] = job[j]
    PROVE  JobKept(j)'
<1>1. CASE ~Active(j)
  BY <1>1 DEF JobKept, JobTyped, TodoKept, PushFollowed, TouchesOthers, Active, Running
<1>2. CASE Active(j)
  <2>1. /\ Reach(j) \subseteq 1..Len(log) /\ Span(j) \subseteq Reach(j) /\ j \in Span(j)
        /\ \A i \in Span(j) : i - 1 \in Reach(j)
    BY <1>2, ReachInLog DEF JobKept
  <2>2. Reach(j)' = Reach(j) /\ Span(j)' = Span(j) /\ \A i \in Reach(j) : log'[i] = log[i]
    BY <2>1 DEF Reach, Span, Extends
  <2>3. JobTyped(j)'
    <3>1. j <= Len(log)'
      BY <1>2, SyncAssumption DEF JobKept, JobTyped, Active, Extends, LogTyped, PushJobs, JobIds
    <3> QED
      BY <1>2, <2>1, <2>2, <3>1 DEF JobKept, JobTyped, Active
  <2>4. TodoKept(j)'
    BY <2>1, <2>2 DEF JobKept, TodoKept, Running
  <2>5. ASSUME NEW f, NEW i \in Span(j)
        PROVE  Differ(f, i)' = Differ(f, i)
    BY <2>1, <2>2 DEF Differ
  <2>6. ASSUME NEW o, NEW f, NEW i \in Reach(j)
        PROVE  Holds(o, f, i)' = Holds(o, f, i) /\ HadSpec(o, f, i)' = HadSpec(o, f, i)
    BY <2>2 DEF Holds, HadSpec
  <2>7. ASSUME NEW o, NEW f
        PROVE  Only(o, f, j)' = Only(o, f, j) /\ Ever(o, f, j)' = Ever(o, f, j)
    BY <2>2, <2>6 DEF Only, Ever
  <2>8. ASSUME NEW o, NEW f
        PROVE  Final(o, f, j)' = Final(o, f, j)
    BY <2>1, <2>2 DEF Final
  <2>9. ASSUME NEW f, NEW i
        PROVE  Pending(j, f, i)' = Pending(j, f, i)
    BY DEF Pending
  <2>10. ASSUME NEW o, NEW f, SpecFollowed(o, f, j)
         PROVE  SpecFollowed(o, f, j)'
    <3>1. InOrder(o, f, j)'
      BY <2>2, <2>5, <2>7, <2>9, <2>10 DEF SpecFollowed, InOrder
    <3>2. AppliesFinal(o, f, j)' /\ WroteFinal(o, f, j)'
      BY <2>8, <2>10 DEF SpecFollowed, AppliesFinal, WroteFinal
    <3>3. DeletesRemoved(o, f, j)'
      BY <2>1, <2>2, <2>6, <2>10 DEF SpecFollowed, DeletesRemoved
    <3>4. FinalComes(o, f, j)'
      BY <2>2, <2>5, <2>8, <2>9, <2>10 DEF SpecFollowed, FinalComes
    <3>5. RemovalComes(o, f, j)'
      BY <2>1, <2>2, <2>5, <2>6, <2>9, <2>10 DEF SpecFollowed, RemovalComes
    <3> QED
      BY <3>1, <3>2, <3>3, <3>4, <3>5 DEF SpecFollowed
  <2>11. PushFollowed(j)'
    BY <2>7, <2>10 DEF JobKept, PushFollowed, Running
  <2>12. \A o : ByOthers(o, j)' = ByOthers(o, j)
    BY <2>1, <2>2, <2>5, <2>6 DEF ByOthers
  <2>13. \A c \in job[j].todo : Running(j) =>
           log'[c.commit] = log[c.commit] /\ Differ(c.path, c.commit)' = Differ(c.path, c.commit)
    BY <2>1, <2>2, <2>5 DEF JobKept, TodoKept
  <2>14. TouchesOthers(j)'
    BY <2>12, <2>13 DEF JobKept, TouchesOthers, Running
  <2> QED
    BY <2>3, <2>4, <2>11, <2>14 DEF JobKept
<1> QED
  BY <1>1, <1>2

LEMMA StepUserPush ==
    ASSUME JobInv, UserPush
    PROVE  JobInv'
<1>1. PICK commits \in Pushes : Receive(commits)
  BY DEF UserPush
<1>2. /\ commits \in Seq(Commit) /\ Len(commits) \in {1, 2} /\ Len(log) \in Nat \ {0}
  BY PushesType DEF JobInv, LogTyped
<1>3. LogTyped' /\ Extends /\ Len(log)' = Len(log) + Len(commits)
  BY <1>1, <1>2, ReceiveExtends DEF JobInv
<1>l. PICK last \in Nat : last = Len(log) + Len(commits)
  BY <1>2
<1>4. last \in Nat \ {0, 1} /\ last \in JobIds /\ Len(log) + 1 <= last
  <2>1. last >= 2 /\ Len(log) + 1 <= last
    <3>1. Len(commits) >= 1 /\ Len(log) >= 1 /\ Len(commits) \in Nat /\ Len(log) \in Nat
      BY <1>2
    <3> QED
      BY <1>l, <3>1
  <2>2. last <= MaxCommits
    BY <1>1, <1>l DEF Receive
  <2> QED
    BY <2>1, <2>2, SyncAssumption DEF JobIds
<1>5. CASE IsSyncRepoCommit(commits)
  <2>1. job' = [job EXCEPT ![last] = PushJob(Len(log) + 1, last)]
    BY <1>1, <1>5, <1>l DEF Receive
  <2>2. DOMAIN job' = JobIds /\ job'[last] = PushJob(Len(log) + 1, last)
        /\ \A j \in JobIds \ {last} : job'[j] = job[j]
    BY <1>4, <2>1 DEF JobInv
  <2>3. \A j \in PushJobs \ {last} : JobKept(j)'
    BY <1>3, <2>2, JobRests DEF JobInv, PushJobs
  <2>4. JobKept(last)'
    <3>1. /\ job'[last].status = "requested" /\ job'[last].first = Len(log) + 1
          /\ job'[last].last = last /\ job'[last].work = Nothing /\ ~job'[last].failed
          /\ job'[last].wrote = [o \in Objects |-> Untouched] /\ JobFields \subseteq DOMAIN job'[last]
      BY <2>2 DEF PushJob, NoJob, JobFields
    <3>2. {"apply", "delete"} \subseteq DOMAIN Nothing
      BY DEF Nothing
    <3>3. JobTyped(last)'
      <4>1. last = Len(log)'
        BY <1>3, <1>l
      <4> QED
        BY <1>2, <1>4, <3>1, <3>2, <4>1 DEF JobTyped, Active
    <3>4. ~Running(last)'
      BY <3>1 DEF Running
    <3> QED
      BY <3>3, <3>4 DEF JobKept, TodoKept, PushFollowed, TouchesOthers
  <2> QED
    BY <1>3, <2>2, <2>3, <2>4 DEF JobInv
<1>6. CASE ~IsSyncRepoCommit(commits)
  <2>1. job' = job
    BY <1>1, <1>6 DEF Receive
  <2> QED
    BY <1>3, <2>1, JobRests DEF JobInv
<1> QED
  BY <1>5, <1>6

LEMMA StepOver ==
    ASSUME JobInv, NEW j \in PushJobs, EndJob(j) \/ Die(j)
    PROVE  JobKept(j)'
<1>1. job'[j] = NoJob
  BY DEF EndJob, Die, JobInv, PushJobs
<1>2. /\ JobFields \subseteq DOMAIN job'[j] /\ job'[j].status = "none"
      /\ DOMAIN job'[j].wrote = Objects /\ {"apply", "delete"} \subseteq DOMAIN job'[j].work
  BY <1>1 DEF NoJob, Nothing, JobFields
<1> QED
  BY <1>2 DEF JobKept, JobTyped, TodoKept, PushFollowed, TouchesOthers, Active, Running

(* What a job that goes on leaves alone. *)
LEMMA GoesOn ==
    ASSUME LogTyped, NEW j \in PushJobs, JobTyped(j), Active(j), log' = log,
           JobFields \subseteq DOMAIN job'[j], job'[j].status = "running",
           job'[j].first = job[j].first, job'[j].last = job[j].last,
           DOMAIN job'[j].wrote = Objects, {"apply", "delete"} \subseteq DOMAIN job'[j].work
    PROVE  /\ JobTyped(j)' /\ Reach(j)' = Reach(j) /\ Span(j)' = Span(j)
           /\ \A f, i : Differ(f, i)' = Differ(f, i)
           /\ \A o, f, i : Holds(o, f, i)' = Holds(o, f, i) /\ HadSpec(o, f, i)' = HadSpec(o, f, i)
           /\ \A o, f : Only(o, f, j)' = Only(o, f, j) /\ Ever(o, f, j)' = Ever(o, f, j)
           /\ \A o, f : Final(o, f, j)' = Final(o, f, j)
           /\ \A o : ByOthers(o, j)' = ByOthers(o, j)
<1>1. Reach(j)' = Reach(j) /\ Span(j)' = Span(j)
  BY DEF Reach, Span
<1>2. JobTyped(j)'
  BY <1>1 DEF JobTyped, Active
<1>3. \A f, i : Differ(f, i)' = Differ(f, i)
  BY DEF Differ
<1>4. \A o, f, i : Holds(o, f, i)' = Holds(o, f, i) /\ HadSpec(o, f, i)' = HadSpec(o, f, i)
  BY DEF Holds, HadSpec
<1>5. \A o, f : Only(o, f, j)' = Only(o, f, j) /\ Ever(o, f, j)' = Ever(o, f, j)
  BY <1>1, <1>4 DEF Only, Ever
<1>6. \A o, f : Final(o, f, j)' = Final(o, f, j)
  BY DEF Final
<1>7. \A o : ByOthers(o, j)' = ByOthers(o, j)
  BY <1>1, <1>3, <1>4 DEF ByOthers
<1> QED
  BY <1>1, <1>2, <1>3, <1>4, <1>5, <1>6, <1>7

LEMMA StepStart ==
    ASSUME JobInv, NEW j \in PushJobs, StartSync(j)
    PROVE  JobKept(j)'
<1>1. /\ LogTyped /\ JobTyped(j) /\ job[j].status = "requested" /\ Active(j) /\ log' = log
      /\ job[j].work = Nothing /\ ~job[j].failed /\ job[j].wrote = [o \in Objects |-> Untouched]
  BY DEF JobInv, JobKept, JobTyped, StartSync, Active
<1>2. PICK skipped \in SUBSET CommitsOf(j) :
        job' = [job EXCEPT ![j].status = "running",
                           ![j].todo = UNION {DiffPush(i) : i \in CommitsOf(j) \ skipped},
                           ![j].excused = InFilesOf(j, skipped \cup Own(j))]
  BY DEF StartSync
<1>3. /\ JobFields \subseteq DOMAIN job'[j] /\ job'[j].status = "running"
      /\ job'[j].first = job[j].first /\ job'[j].last = job[j].last
      /\ job'[j].work = job[j].work /\ job'[j].wrote = job[j].wrote /\ job'[j].failed = job[j].failed
      /\ job'[j].todo = UNION {DiffPush(i) : i \in CommitsOf(j) \ skipped}
      /\ job'[j].excused = InFilesOf(j, skipped \cup Own(j))
  BY <1>1, <1>2 DEF JobInv, PushJobs, JobTyped, JobFields
<1>4. /\ JobTyped(j)' /\ Reach(j)' = Reach(j) /\ Span(j)' = Span(j)
      /\ \A f, i : Differ(f, i)' = Differ(f, i)
      /\ \A o, f, i : Holds(o, f, i)' = Holds(o, f, i) /\ HadSpec(o, f, i)' = HadSpec(o, f, i)
      /\ \A o, f : Only(o, f, j)' = Only(o, f, j) /\ Ever(o, f, j)' = Ever(o, f, j)
      /\ \A o, f : Final(o, f, j)' = Final(o, f, j)
      /\ \A o : ByOthers(o, j)' = ByOthers(o, j)
  <2>1. DOMAIN job'[j].wrote = Objects /\ {"apply", "delete"} \subseteq DOMAIN job'[j].work
    BY <1>1, <1>3 DEF JobTyped
  <2> QED
    BY <1>1, <1>3, <2>1, GoesOn
<1>5. Span(j) \subseteq Reach(j) /\ j \in Span(j) /\ \A i \in Span(j) : i - 1 \in Reach(j)
  BY <1>1, ReachInLog
<1>6. /\ CommitsOf(j) = {i \in Span(j) : ~log[i].own} /\ Own(j) = {i \in Span(j) : log[i].own}
  BY DEF CommitsOf, Own, Span
<1>a. \A c \in job'[j].todo : \E i \in CommitsOf(j) : c \in DiffPush(i)
  BY <1>3
<1>7. TodoKept(j)'
  <2>1. ASSUME NEW c \in job'[j].todo
        PROVE  /\ c.commit \in Span(j) /\ c.path \in Files
               /\ c.change = IF log[c.commit].tree[c.path] = {} THEN "delete" ELSE "apply"
    <3>1. PICK i \in Span(j) : c \in DiffPush(i)
      BY <1>6, <1>a
    <3> QED
      BY <3>1 DEF DiffPush
  <2> QED
    BY <1>1, <1>4, <2>1 DEF TodoKept
<1>8. ASSUME NEW o \in Objects \ job'[j].excused, NEW f \in Files, Ever(o, f, j),
             NEW i \in Span(j), Differ(f, i)
      PROVE  Pending(j, f, i)'
  <2>1. i \notin skipped \cup Own(j)
    <3>1. PICK k \in Reach(j) : Holds(o, f, k)
      BY <1>8 DEF Ever
    <3>2. ASSUME i \in skipped \cup Own(j) PROVE o \in InFilesOf(j, skipped \cup Own(j))
      BY <1>8, <3>1, <3>2 DEF InFilesOf, Holds, Reach
    <3> QED
      BY <1>3, <1>8, <3>2
  <2>2. i \in CommitsOf(j) \ skipped
    BY <1>6, <1>8, <2>1
  <2>3. \E c \in DiffPush(i) : c.path = f /\ c.commit = i
    <3> DEFINE c == [change |-> IF log[i].tree[f] = {} THEN "delete" ELSE "apply",
                     path |-> f, commit |-> i]
    <3>1. c \in DiffPush(i)
      <4>1. f \in {g \in Files : Differ(g, i)}
        BY <1>8
      <4> QED
        BY <4>1, Zenon DEF DiffPush
    <3>2. c.path = f /\ c.commit = i
      OBVIOUS
    <3> QED
      BY <3>1, <3>2
  <2>4. DiffPush(i) \subseteq job'[j].todo
    BY <1>3, <2>2
  <2> QED
    BY <2>3, <2>4 DEF Pending
<1>9. ASSUME NEW o \in Objects \ job'[j].excused, NEW f \in Files
      PROVE  SpecFollowed(o, f, j)'
  <2>1. /\ job'[j].work.apply = {} /\ job'[j].work.delete = {} /\ job'[j].wrote[o] = Untouched
        /\ Untouched # Absent
    BY <1>1, <1>3 DEF Nothing, Untouched, Absent
  <2>2. InOrder(o, f, j)'
    BY <1>4, <1>8 DEF InOrder
  <2>3. AppliesFinal(o, f, j)' /\ WroteFinal(o, f, j)' /\ DeletesRemoved(o, f, j)'
    BY <2>1 DEF AppliesFinal, WroteFinal, DeletesRemoved, Of
  <2>4. FinalComes(o, f, j)'
    <3>1. ASSUME NEW s \in Final(o, f, j) PROVE Ever(o, f, j)
      <4>1. Holds(o, f, j)
        BY <3>1 DEF Final, Of, NotIgnored, Holds, ObjectsIn
      <4> QED
        BY <1>5, <4>1 DEF Ever
    <3> QED
      BY <1>4, <1>8, <3>1 DEF FinalComes
  <2>5. RemovalComes(o, f, j)'
    <3>1. ASSUME NEW i \in Span(j), HadSpec(o, f, i - 1) PROVE Ever(o, f, j)
      <4>1. Holds(o, f, i - 1)
        BY <3>1 DEF HadSpec, NotIgnored, Holds, ObjectsIn
      <4> QED
        BY <1>5, <4>1 DEF Ever
    <3> QED
      BY <1>4, <1>8, <3>1 DEF RemovalComes
  <2> QED
    BY <2>2, <2>3, <2>4, <2>5 DEF SpecFollowed
<1>10. TouchesOthers(j)'
  <2>1. ASSUME NEW c \in job'[j].todo
        PROVE  ~log[c.commit].own /\ Differ(c.path, c.commit)
    <3>1. PICK i \in CommitsOf(j) : c \in DiffPush(i)
      BY <1>a
    <3> QED
      BY <1>6, <3>1 DEF DiffPush
  <2>2. /\ job'[j].work.apply = {} /\ job'[j].work.delete = {}
        /\ \A o \in Objects : job'[j].wrote[o] = Untouched
    BY <1>1, <1>3 DEF Nothing
  <2> QED
    BY <1>1, <1>4, <2>1, <2>2 DEF TouchesOthers
<1> QED
  BY <1>4, <1>7, <1>9, <1>10 DEF JobKept, PushFollowed

(* A step of the job that is not about the resource. *)
LEMMA NotAbout ==
    ASSUME NEW j, NEW o, NEW f, SpecFollowed(o, f, j),
           Reach(j)' = Reach(j), Span(j)' = Span(j),
           \A g, i : Differ(g, i)' = Differ(g, i),
           \A p, g, i : Holds(p, g, i)' = Holds(p, g, i) /\ HadSpec(p, g, i)' = HadSpec(p, g, i),
           \A p, g : Ever(p, g, j)' = Ever(p, g, j),
           \A p, g : Final(p, g, j)' = Final(p, g, j),
           \A i : Pending(j, f, i)' = Pending(j, f, i),
           Of(o, job'[j].work.apply) = Of(o, job[j].work.apply),
           o \in job'[j].work.delete <=> o \in job[j].work.delete,
           job'[j].wrote[o] = job[j].wrote[o]
    PROVE  SpecFollowed(o, f, j)'
<1>1. InOrder(o, f, j)'
  BY DEF SpecFollowed, InOrder
<1>2. AppliesFinal(o, f, j)' /\ WroteFinal(o, f, j)'
  BY DEF SpecFollowed, AppliesFinal, WroteFinal
<1>3. DeletesRemoved(o, f, j)'
  BY DEF SpecFollowed, DeletesRemoved
<1>4. FinalComes(o, f, j)'
  BY DEF SpecFollowed, FinalComes
<1>5. RemovalComes(o, f, j)'
  BY DEF SpecFollowed, RemovalComes
<1> QED
  BY <1>1, <1>2, <1>3, <1>4, <1>5 DEF SpecFollowed

LEMMA StepTake ==
    ASSUME JobInv, NEW j \in PushJobs, TakeFile(j)
    PROVE  JobKept(j)'
<1>1. /\ LogTyped /\ JobKept(j) /\ Running(j) /\ Active(j) /\ log' = log
      /\ job[j].work = Nothing /\ job[j].last = j /\ j \notin Timers
  BY DEF JobInv, JobKept, JobTyped, TakeFile, Active, Running, PushJobs
<1>2. PICK c \in job[j].todo :
        LET after == log[job[j].last].tree[c.path]
            before == log[c.commit - 1].tree[c.path]
            missing == c.change = "apply" /\ after = {}
            Take(work, unread) ==
                job' = [job EXCEPT ![j].todo = @ \ {c}, ![j].failed = @ \/ missing,
                                   ![j].work = IF missing THEN Nothing ELSE work,
                                   ![j].excused = @ \cup unread]
        IN  /\ IsNext(c, job[j].todo)
            /\ \/ Take(CalculateChanges(before, after, c.change), {})
               \/ Take(CalculateChanges({}, after, c.change), ObjectsIn(before))
  BY <1>1 DEF TakeFile
<1> DEFINE after == log[j].tree[c.path]
           before == log[c.commit - 1].tree[c.path]
           missing == c.change = "apply" /\ after = {}
<1>3. PICK seen, unread :
        /\ \/ seen = before /\ unread = {}
           \/ seen = {} /\ unread = ObjectsIn(before)
        /\ job' = [job EXCEPT ![j].todo = @ \ {c}, ![j].failed = @ \/ missing,
                              ![j].work = IF missing THEN Nothing
                                          ELSE CalculateChanges(seen, after, c.change),
                              ![j].excused = @ \cup unread]
  <2> DEFINE Taken(w, u) ==
               job' = [job EXCEPT ![j].todo = @ \ {c}, ![j].failed = @ \/ missing,
                                  ![j].work = IF missing THEN Nothing ELSE w,
                                  ![j].excused = @ \cup u]
  <2>1. \/ Taken(CalculateChanges(before, after, c.change), {})
        \/ Taken(CalculateChanges({}, after, c.change), ObjectsIn(before))
    BY <1>1, <1>2
  <2> HIDE DEF Taken, after, before, missing
  <2>2. PICK seen, unread :
          /\ \/ seen = before /\ unread = {}
             \/ seen = {} /\ unread = ObjectsIn(before)
          /\ Taken(CalculateChanges(seen, after, c.change), unread)
    BY <2>1
  <2> QED
    BY <2>2, Zenon DEF Taken
<1>4. IsNext(c, job[j].todo)
  BY <1>2
<1> DEFINE work == CalculateChanges(seen, after, c.change)
<1>5. /\ JobFields \subseteq DOMAIN job'[j] /\ job'[j].status = "running"
      /\ job'[j].first = job[j].first /\ job'[j].last = job[j].last
      /\ job'[j].wrote = job[j].wrote /\ job'[j].todo = job[j].todo \ {c}
      /\ job'[j].failed = (job[j].failed \/ missing)
      /\ job'[j].work = IF missing THEN Nothing ELSE work
      /\ job'[j].excused = job[j].excused \cup unread
  <2> HIDE DEF after, missing, work
  <2>1. /\ DOMAIN job = JobIds /\ j \in JobIds /\ JobFields \subseteq DOMAIN job[j]
        /\ job[j].status = "running"
    BY <1>1 DEF JobInv, PushJobs, JobKept, JobTyped, Running
  <2>2. job' = [job EXCEPT ![j].todo = @ \ {c}, ![j].failed = @ \/ missing,
                           ![j].work = IF missing THEN Nothing ELSE work,
                           ![j].excused = @ \cup unread]
    BY <1>3 DEF work
  <2> QED
    BY <2>1, <2>2 DEF JobFields
<1>6. /\ JobTyped(j)' /\ Reach(j)' = Reach(j) /\ Span(j)' = Span(j)
      /\ \A f, i : Differ(f, i)' = Differ(f, i)
      /\ \A o, f, i : Holds(o, f, i)' = Holds(o, f, i) /\ HadSpec(o, f, i)' = HadSpec(o, f, i)
      /\ \A o, f : Only(o, f, j)' = Only(o, f, j) /\ Ever(o, f, j)' = Ever(o, f, j)
      /\ \A o, f : Final(o, f, j)' = Final(o, f, j)
      /\ \A o : ByOthers(o, j)' = ByOthers(o, j)
  <2>1. DOMAIN job'[j].wrote = Objects /\ {"apply", "delete"} \subseteq DOMAIN job'[j].work
    BY <1>1, <1>5 DEF JobKept, JobTyped, CalculateChanges, Nothing
  <2> HIDE DEF after, missing, work
  <2> QED
    BY <1>1, <1>5, <2>1, GoesOn DEF JobKept
<1>7. /\ Span(j) \subseteq Reach(j) /\ j \in Span(j) /\ Reach(j) \subseteq 1..Len(log)
      /\ \A i \in Span(j) : i - 1 \in Reach(j) /\ i \in Nat
  BY <1>1, ReachInLog DEF JobKept
<1>8. /\ c.commit \in Span(j) /\ c.path \in Files
      /\ c.change = IF log[c.commit].tree[c.path] = {} THEN "delete" ELSE "apply"
  BY <1>1 DEF JobKept, TodoKept
<1>9. TodoKept(j)'
  <2>1. \A d \in job'[j].todo : d \in job[j].todo
    BY <1>5
  <2> QED
    BY <1>1, <1>6, <2>1 DEF JobKept, TodoKept
<1>10. ASSUME ~job'[j].failed,
              NEW o \in Objects \ job'[j].excused, NEW f \in Files, Only(o, f, j)
       PROVE  SpecFollowed(o, f, j)'
  <2>1. /\ SpecFollowed(o, f, j) /\ ~missing /\ job'[j].work = work
        /\ job'[j].wrote[o] = job[j].wrote[o] /\ o \notin unread
    BY <1>1, <1>5, <1>10 DEF JobKept, PushFollowed
  <2>2. \A i : Pending(j, f, i)' => Pending(j, f, i)
    BY <1>5 DEF Pending
  <2>3. \A i : Pending(j, f, i) /\ ~Pending(j, f, i)' => c.path = f /\ c.commit = i
    BY <1>5 DEF Pending
  <2>4. CASE c.path # f
    <3>1. ~Holds(o, c.path, j) /\ ~Holds(o, c.path, c.commit - 1)
      BY <1>7, <1>8, <1>10, <2>4 DEF Only
    <3>2. o \notin ObjectsIn(after) /\ o \notin ObjectsIn(before) /\ o \notin ObjectsIn(seen)
      BY <1>3, <3>1 DEF Holds, ObjectsIn
    <3>3. Of(o, work.apply) = {} /\ o \notin work.delete
      <4>1. work.apply \subseteq after
        BY DEF CalculateChanges, NotIgnored
      <4>2. work.delete \subseteq ObjectsIn(seen)
        BY DEF CalculateChanges, NotIgnored, RemovedSpecs, ObjectsIn
      <4> QED
        BY <3>2, <4>1, <4>2 DEF Of, ObjectsIn
    <3>4. Of(o, job[j].work.apply) = {} /\ o \notin job[j].work.delete
      BY <1>1 DEF Nothing, Of
    <3>5. \A i : Pending(j, f, i)' = Pending(j, f, i)
      BY <2>2, <2>3, <2>4, Zenon DEF Pending
    <3> HIDE DEF after, before, missing, work
    <3> QED
      BY <1>6, <2>1, <3>3, <3>4, <3>5, NotAbout
  <2>5. CASE c.path = f
    <3>1. InOrder(o, f, j)'
      <4>1. ASSUME Ever(o, f, j), NEW i \in Span(j), NEW k \in Span(j), Pending(j, f, i)',
                   Differ(f, k), i < k
            PROVE  Pending(j, f, k)'
        <5>1. Pending(j, f, k)
          BY <2>1, <2>2, <4>1 DEF SpecFollowed, InOrder
        <5>2. ASSUME c.commit = k
              PROVE  FALSE
          <6>1. PICK d \in job[j].todo \ {c} : d.commit = i
            BY <1>5, <4>1 DEF Pending
          <6>2. Precedes(c, d)
            BY <1>4, <6>1 DEF IsNext
          <6> QED
            BY <1>7, <4>1, <5>2, <6>1, <6>2 DEF Precedes
        <5> QED
          BY <2>3, <5>1, <5>2
      <4> QED
        BY <1>6, <4>1 DEF InOrder
    <3>2. Of(o, work.apply) \subseteq Final(o, f, j)
      BY <2>5 DEF CalculateChanges, Final, Of
    <3>3. AppliesFinal(o, f, j)' /\ WroteFinal(o, f, j)'
      BY <1>6, <2>1, <3>2 DEF AppliesFinal, WroteFinal, SpecFollowed
    <3>4. DeletesRemoved(o, f, j)'
      <4>1. ASSUME o \in work.delete
            PROVE  \E i \in Span(j) : ~Holds(o, f, i)
        <5>1. CASE c.change = "delete"
          <6>1. log[c.commit].tree[f] = {}
            BY <1>8, <2>5, <5>1
          <6> QED
            BY <1>8, <6>1 DEF Holds, ObjectsIn
        <5>2. CASE c.change # "delete"
          BY <1>7, <2>5, <4>1, <5>2 DEF CalculateChanges, RemovedSpecs, Holds
        <5> QED
          BY <5>1, <5>2
      <4> QED
        BY <1>6, <2>1, <4>1 DEF DeletesRemoved, SpecFollowed
    <3>5. FinalComes(o, f, j)'
      <4>1. ASSUME NEW s \in Final(o, f, j), \A i \in Span(j) : ~Pending(j, f, i)'
            PROVE  s \in Of(o, work.apply) /\ o \notin work.delete
        <5>0. s \in NotIgnored(log[j].tree[f]) /\ s.obj = o /\ Holds(o, f, j) /\ Ever(o, f, j)
          BY <1>7, <4>1 DEF Final, Of, NotIgnored, Holds, ObjectsIn, Ever
        <5>1. CASE c.change = "delete"
          <6>1. log[c.commit].tree[f] = {} /\ Pending(j, f, c.commit)
            BY <1>8, <2>5, <5>1 DEF Pending
          <6>2. log[c.commit].tree[f] # log[j].tree[f]
            BY <5>0, <6>1 DEF Holds, ObjectsIn
          <6>3. c.commit \in Nat /\ j \in Nat /\ c.commit <= j
            BY <1>7, <1>8 DEF Span
          <6>4. PICK k \in c.commit + 1..j : Differ(f, k)
            BY <6>2, <6>3, ChangedBetween
          <6>5. k \in Span(j) /\ c.commit < k /\ c.commit # k
            <7>1. job[j].first \in Nat /\ job[j].first <= c.commit
              BY <1>1, <1>8 DEF Span, JobKept, JobTyped
            <7> QED
              BY <6>3, <6>4, <7>1 DEF Span
          <6>6. Pending(j, f, k)
            BY <1>8, <2>1, <5>0, <6>1, <6>4, <6>5 DEF SpecFollowed, InOrder
          <6>7. Pending(j, f, k)'
            BY <2>3, <6>5, <6>6
          <6> QED
            BY <4>1, <6>5, <6>7
        <5>2. CASE c.change # "delete"
          <6>1. work.apply = NotIgnored(after) /\ work.delete \cap ObjectsIn(after) = {}
            BY <5>2 DEF CalculateChanges, RemovedSpecs
          <6> QED
            BY <2>5, <5>0, <6>1 DEF Of, Holds
        <5> QED
          BY <5>1, <5>2
      <4> QED
        BY <1>6, <2>1, <4>1 DEF FinalComes
    <3>6. RemovalComes(o, f, j)'
      <4>1. ASSUME NEW i \in Span(j), Differ(f, i), HadSpec(o, f, i - 1), ~Holds(o, f, j),
                   ~Pending(j, f, i)', job[j].wrote[o] # Absent
            PROVE  o \in work.delete
        <5>1. Pending(j, f, i)
          BY <1>1, <2>1, <4>1 DEF SpecFollowed, RemovalComes, Nothing
        <5>2. c.commit = i /\ o \in ObjectsIn(NotIgnored(before)) /\ o \in ObjectsIn(before)
          BY <2>3, <2>5, <4>1, <5>1 DEF HadSpec, NotIgnored, ObjectsIn
        <5>3. seen = before
          BY <1>3, <2>1, <5>2
        <5>4. o \notin ObjectsIn(after)
          BY <2>5, <4>1 DEF Holds
        <5> QED
          BY <5>2, <5>3, <5>4 DEF CalculateChanges, RemovedSpecs
      <4> QED
        BY <1>6, <2>1, <4>1 DEF RemovalComes
    <3> QED
      BY <3>1, <3>3, <3>4, <3>5, <3>6 DEF SpecFollowed
  <2> QED
    BY <2>4, <2>5
<1>11. PushFollowed(j)'
  BY <1>6, <1>10 DEF PushFollowed
<1>12. TouchesOthers(j)'
  <2>1. /\ ~log[c.commit].own /\ Differ(c.path, c.commit)
        /\ \A d \in job[j].todo : ~log[d.commit].own /\ Differ(d.path, d.commit)
        /\ \A o \in Objects : job[j].wrote[o] # Untouched => ByOthers(o, j)
    BY <1>1 DEF JobKept, TouchesOthers
  <2>2. \A o : o \in ObjectsIn(after) \/ o \in ObjectsIn(before) => ByOthers(o, j)
    BY <1>7, <1>8, <2>1 DEF ByOthers, Holds
  <2>3. work.apply \subseteq after /\ work.delete \subseteq ObjectsIn(seen)
    BY DEF CalculateChanges, NotIgnored, RemovedSpecs, ObjectsIn
  <2>4. ObjectsIn(seen) \subseteq ObjectsIn(before)
    BY <1>3 DEF ObjectsIn
  <2> HIDE DEF after, before, missing, work
  <2>5. \A s \in work.apply : ByOthers(s.obj, j)
    BY <2>2, <2>3 DEF ObjectsIn
  <2>6. \A o \in work.delete : ByOthers(o, j)
    BY <2>2, <2>3, <2>4
  <2>7. /\ \A s \in job'[j].work.apply : ByOthers(s.obj, j)
        /\ \A o \in job'[j].work.delete : ByOthers(o, j)
    BY <1>5, <2>5, <2>6 DEF Nothing
  <2>8. \A d \in job'[j].todo : ~log'[d.commit].own /\ Differ(d.path, d.commit)'
    BY <1>1, <1>5, <1>6, <2>1
  <2>9. \A o \in Objects : job'[j].wrote[o] # Untouched => ByOthers(o, j)
    BY <1>5, <2>1
  <2> QED
    BY <1>6, <2>7, <2>8, <2>9 DEF TouchesOthers
<1> QED
  BY <1>6, <1>9, <1>11, <1>12 DEF JobKept

LEMMA StepApply ==
    ASSUME JobInv, NEW j \in PushJobs, ApplySpec(j)
    PROVE  JobKept(j)'
<1>1. /\ LogTyped /\ JobKept(j) /\ Running(j) /\ Active(j) /\ log' = log /\ j \notin Timers
      /\ DOMAIN job = JobIds /\ j \in JobIds
  BY DEF JobInv, JobKept, JobTyped, ApplySpec, Active, Running, PushJobs
<1>2. PICK s \in job[j].work.apply, ok \in BOOLEAN :
        StepEnds(j, [job[j].work EXCEPT !.apply = @ \ {s}], ok, s.obj, s.ver)
  BY DEF ApplySpec
<1>3. /\ JobFields \subseteq DOMAIN job'[j] /\ job'[j].status = "running"
      /\ job'[j].first = job[j].first /\ job'[j].last = job[j].last
      /\ job'[j].wrote = [job[j].wrote EXCEPT ![s.obj] = s.ver] /\ job'[j].todo = job[j].todo
      /\ job'[j].failed = (job[j].failed \/ ~ok) /\ job'[j].excused = job[j].excused
      /\ job'[j].work = IF ok THEN [job[j].work EXCEPT !.apply = @ \ {s}] ELSE Nothing
  BY <1>1, <1>2 DEF StepEnds, RestAfter, JobKept, JobTyped, JobFields, Running
<1>4. /\ {"apply", "delete"} \subseteq DOMAIN job'[j].work /\ DOMAIN job'[j].wrote = Objects
      /\ ok => /\ job'[j].work.apply = job[j].work.apply \ {s}
               /\ job'[j].work.delete = job[j].work.delete
  BY <1>1, <1>3 DEF JobKept, JobTyped, Nothing
<1>5. /\ JobTyped(j)' /\ Reach(j)' = Reach(j) /\ Span(j)' = Span(j)
      /\ \A f, i : Differ(f, i)' = Differ(f, i)
      /\ \A o, f, i : Holds(o, f, i)' = Holds(o, f, i) /\ HadSpec(o, f, i)' = HadSpec(o, f, i)
      /\ \A o, f : Only(o, f, j)' = Only(o, f, j) /\ Ever(o, f, j)' = Ever(o, f, j)
      /\ \A o, f : Final(o, f, j)' = Final(o, f, j)
      /\ \A o : ByOthers(o, j)' = ByOthers(o, j)
  BY <1>1, <1>3, <1>4, GoesOn DEF JobKept
<1>6. \A f, i : Pending(j, f, i)' = Pending(j, f, i)
  BY <1>3 DEF Pending
<1>7. TodoKept(j)'
  BY <1>1, <1>3, <1>5 DEF JobKept, TodoKept
<1>8. ASSUME ~job'[j].failed,
             NEW o \in Objects \ job'[j].excused, NEW f \in Files, Only(o, f, j)
      PROVE  SpecFollowed(o, f, j)'
  <2>1. SpecFollowed(o, f, j) /\ ok
    BY <1>1, <1>3, <1>8 DEF JobKept, PushFollowed
  <2>2. CASE s.obj # o
    <3>1. Of(o, job'[j].work.apply) = Of(o, job[j].work.apply)
      BY <1>4, <2>1, <2>2 DEF Of
    <3>2. job'[j].wrote[o] = job[j].wrote[o] /\ job'[j].work.delete = job[j].work.delete
      BY <1>1, <1>3, <1>4, <2>1, <2>2 DEF JobKept, JobTyped
    <3> QED
      BY <1>5, <1>6, <2>1, <3>1, <3>2, NotAbout
  <2>3. CASE s.obj = o
    <3>1. /\ s \in Final(o, f, j) /\ job'[j].wrote[o] = s.ver
          /\ Of(o, job'[j].work.apply) \subseteq Of(o, job[j].work.apply)
          /\ job'[j].work.delete = job[j].work.delete
      BY <1>1, <1>3, <1>4, <2>1, <2>3 DEF SpecFollowed, AppliesFinal, Of, JobKept, JobTyped
    <3>2. s \in log[j].tree[f] /\ Holds(o, f, j)
      BY <3>1 DEF Final, Of, NotIgnored, Holds, ObjectsIn
    <3>3. j \in 1..Len(log)
      BY <1>1, ReachInLog DEF JobKept
    <3>4. s.ver # Absent /\ \A t \in Final(o, f, j) : t = s
      BY <1>1, <2>3, <3>2, <3>3, OneSpec, SyncAssumption DEF Absent, Final, Of, NotIgnored
    <3>5. InOrder(o, f, j)'
      BY <1>5, <1>6, <2>1 DEF SpecFollowed, InOrder
    <3>6. AppliesFinal(o, f, j)' /\ WroteFinal(o, f, j)'
      BY <1>5, <2>1, <3>1 DEF SpecFollowed, AppliesFinal, WroteFinal
    <3>7. DeletesRemoved(o, f, j)'
      BY <1>5, <2>1, <3>1, <3>4 DEF SpecFollowed, DeletesRemoved
    <3>8. FinalComes(o, f, j)'
      BY <1>5, <1>6, <2>1, <3>1, <3>4 DEF SpecFollowed, FinalComes
    <3>9. RemovalComes(o, f, j)'
      BY <1>5, <3>2 DEF RemovalComes
    <3> QED
      BY <3>5, <3>6, <3>7, <3>8, <3>9 DEF SpecFollowed
  <2> QED
    BY <2>2, <2>3
<1>9. PushFollowed(j)'
  BY <1>5, <1>8 DEF PushFollowed
<1>10. TouchesOthers(j)'
  <2>1. /\ \A d \in job[j].todo : ~log[d.commit].own /\ Differ(d.path, d.commit)
        /\ \A t \in job[j].work.apply : ByOthers(t.obj, j)
        /\ \A o \in job[j].work.delete : ByOthers(o, j)
        /\ \A o \in Objects : job[j].wrote[o] # Untouched => ByOthers(o, j)
    BY <1>1 DEF JobKept, TouchesOthers
  <2>2. /\ \A t \in job'[j].work.apply : ByOthers(t.obj, j)
        /\ \A o \in job'[j].work.delete : ByOthers(o, j)
    BY <1>3, <1>4, <2>1 DEF Nothing
  <2>3. \A d \in job'[j].todo : ~log'[d.commit].own /\ Differ(d.path, d.commit)'
    BY <1>1, <1>3, <1>5, <2>1
  <2>4. \A o \in Objects : job'[j].wrote[o] # Untouched => ByOthers(o, j)
    BY <1>1, <1>3, <2>1 DEF JobKept, JobTyped
  <2> QED
    BY <1>5, <2>2, <2>3, <2>4 DEF TouchesOthers
<1> QED
  BY <1>5, <1>7, <1>9, <1>10 DEF JobKept

LEMMA StepDelete ==
    ASSUME JobInv, NEW j \in PushJobs, DeleteSpec(j)
    PROVE  JobKept(j)'
<1>1. /\ LogTyped /\ JobKept(j) /\ Running(j) /\ Active(j) /\ log' = log /\ j \notin Timers
      /\ DOMAIN job = JobIds /\ j \in JobIds /\ job[j].work.apply = {}
  BY DEF JobInv, JobKept, JobTyped, DeleteSpec, Active, Running, PushJobs
<1>2. PICK x \in job[j].work.delete :
        \/ \E ok \in BOOLEAN :
             StepEnds(j, [job[j].work EXCEPT !.delete = @ \ {x}], ok, x, Absent)
        \/ job' = [job EXCEPT ![j].work = [job[j].work EXCEPT !.delete = @ \ {x}],
                              ![j].excused = @ \cup {x}]
  BY DEF DeleteSpec
<1>3. PICK ok \in BOOLEAN, read \in BOOLEAN :
      /\ JobFields \subseteq DOMAIN job'[j] /\ job'[j].status = "running"
      /\ job'[j].first = job[j].first /\ job'[j].last = job[j].last
      /\ job'[j].wrote = IF read THEN [job[j].wrote EXCEPT ![x] = Absent] ELSE job[j].wrote
      /\ job'[j].todo = job[j].todo
      /\ ~job'[j].failed => ~job[j].failed /\ ok
      /\ job'[j].excused = IF read THEN job[j].excused ELSE job[j].excused \cup {x}
      /\ job'[j].work = IF ok THEN [job[j].work EXCEPT !.delete = @ \ {x}] ELSE Nothing
  <2>1. CASE job' = [job EXCEPT ![j].work = [job[j].work EXCEPT !.delete = @ \ {x}],
                                ![j].excused = @ \cup {x}]
    <3>1. /\ JobFields \subseteq DOMAIN job'[j] /\ job'[j].status = "running"
          /\ job'[j].first = job[j].first /\ job'[j].last = job[j].last
          /\ job'[j].wrote = job[j].wrote /\ job'[j].todo = job[j].todo
          /\ job'[j].failed = job[j].failed /\ job'[j].excused = job[j].excused \cup {x}
          /\ job'[j].work = [job[j].work EXCEPT !.delete = @ \ {x}]
      BY <1>1, <2>1 DEF JobKept, JobTyped, JobFields, Running
    <3> QED
      BY <3>1
  <2>2. ASSUME NEW ok \in BOOLEAN,
               StepEnds(j, [job[j].work EXCEPT !.delete = @ \ {x}], ok, x, Absent)
        PROVE  /\ JobFields \subseteq DOMAIN job'[j] /\ job'[j].status = "running"
               /\ job'[j].first = job[j].first /\ job'[j].last = job[j].last
               /\ job'[j].wrote = [job[j].wrote EXCEPT ![x] = Absent]
               /\ job'[j].todo = job[j].todo
               /\ job'[j].failed = (job[j].failed \/ ~ok) /\ job'[j].excused = job[j].excused
               /\ job'[j].work = IF ok THEN [job[j].work EXCEPT !.delete = @ \ {x}] ELSE Nothing
    BY <1>1, <2>2 DEF StepEnds, RestAfter, JobKept, JobTyped, JobFields, Running
  <2> QED
    BY <1>2, <2>1, <2>2
<1>4. /\ {"apply", "delete"} \subseteq DOMAIN job'[j].work /\ DOMAIN job'[j].wrote = Objects
      /\ ok => /\ job'[j].work.apply = {}
               /\ job'[j].work.delete = job[j].work.delete \ {x}
  BY <1>1, <1>3 DEF JobKept, JobTyped, Nothing
<1>5. /\ JobTyped(j)' /\ Reach(j)' = Reach(j) /\ Span(j)' = Span(j)
      /\ \A f, i : Differ(f, i)' = Differ(f, i)
      /\ \A o, f, i : Holds(o, f, i)' = Holds(o, f, i) /\ HadSpec(o, f, i)' = HadSpec(o, f, i)
      /\ \A o, f : Only(o, f, j)' = Only(o, f, j) /\ Ever(o, f, j)' = Ever(o, f, j)
      /\ \A o, f : Final(o, f, j)' = Final(o, f, j)
      /\ \A o : ByOthers(o, j)' = ByOthers(o, j)
  BY <1>1, <1>3, <1>4, GoesOn DEF JobKept
<1>6. \A f, i : Pending(j, f, i)' = Pending(j, f, i)
  BY <1>3 DEF Pending
<1>7. TodoKept(j)'
  BY <1>1, <1>3, <1>5 DEF JobKept, TodoKept
<1>8. ASSUME ~job'[j].failed,
             NEW o \in Objects \ job'[j].excused, NEW f \in Files, Only(o, f, j)
      PROVE  SpecFollowed(o, f, j)'
  <2>1. SpecFollowed(o, f, j) /\ ok
    BY <1>1, <1>3, <1>8 DEF JobKept, PushFollowed
  <2>2. CASE x # o
    <3>1. Of(o, job'[j].work.apply) = Of(o, job[j].work.apply)
      BY <1>1, <1>4, <2>1 DEF Of
    <3>2. /\ job'[j].wrote[o] = job[j].wrote[o]
          /\ o \in job'[j].work.delete <=> o \in job[j].work.delete
      BY <1>1, <1>3, <1>4, <2>1, <2>2 DEF JobKept, JobTyped
    <3> QED
      BY <1>5, <1>6, <2>1, <3>1, <3>2, NotAbout
  <2>3. CASE x = o
    <3>1. o \in job[j].work.delete /\ job'[j].wrote[o] = Absent /\ job'[j].work.apply = {}
      BY <1>1, <1>3, <1>4, <1>8, <2>1, <2>3 DEF JobKept, JobTyped
    <3>5. InOrder(o, f, j)'
      BY <1>5, <1>6, <2>1 DEF SpecFollowed, InOrder
    <3>6. AppliesFinal(o, f, j)' /\ WroteFinal(o, f, j)'
      BY <3>1 DEF AppliesFinal, WroteFinal, Of
    <3>7. DeletesRemoved(o, f, j)'
      BY <1>5, <2>1, <3>1 DEF SpecFollowed, DeletesRemoved
    <3>8. FinalComes(o, f, j)'
      BY <1>5, <1>6, <2>1, <3>1 DEF SpecFollowed, FinalComes
    <3>9. RemovalComes(o, f, j)'
      BY <3>1 DEF RemovalComes
    <3> QED
      BY <3>5, <3>6, <3>7, <3>8, <3>9 DEF SpecFollowed
  <2> QED
    BY <2>2, <2>3
<1>9. PushFollowed(j)'
  BY <1>5, <1>8 DEF PushFollowed
<1>10. TouchesOthers(j)'
  <2>1. /\ \A d \in job[j].todo : ~log[d.commit].own /\ Differ(d.path, d.commit)
        /\ \A t \in job[j].work.apply : ByOthers(t.obj, j)
        /\ \A o \in job[j].work.delete : ByOthers(o, j)
        /\ \A o \in Objects : job[j].wrote[o] # Untouched => ByOthers(o, j)
    BY <1>1 DEF JobKept, TouchesOthers
  <2>2. /\ \A t \in job'[j].work.apply : ByOthers(t.obj, j)
        /\ \A o \in job'[j].work.delete : ByOthers(o, j)
    BY <1>3, <1>4, <2>1 DEF Nothing
  <2>3. \A d \in job'[j].todo : ~log'[d.commit].own /\ Differ(d.path, d.commit)'
    BY <1>1, <1>3, <1>5, <2>1
  <2>4. \A o \in Objects : job'[j].wrote[o] # Untouched => ByOthers(o, j)
    BY <1>1, <1>3, <2>1 DEF JobKept, JobTyped
  <2> QED
    BY <1>5, <2>2, <2>3, <2>4 DEF TouchesOthers
<1> QED
  BY <1>5, <1>7, <1>9, <1>10 DEF JobKept

LEMMA JobInvStep == ASSUME JobInv, CallInv, LogTyped', Extends, [Next]_vars PROVE JobInv'
<1>1. CASE UserPush
  BY <1>1, StepUserPush
<1>2. ASSUME NEW j \in JobIds, JobStep(j)
      PROVE  JobInv'
  <2>1. DOMAIN job' = JobIds /\ \A k \in JobIds \ {j} : job'[k] = job[k]
    BY <1>2 DEF JobInv, JobStep, StepOf, StartSync, TakeFile, ApplySpec, DeleteSpec, EndJob, Die,
       StepEnds
  <2>2. \A k \in PushJobs \ {j} : JobKept(k)'
    BY <2>1, JobRests DEF JobInv, PushJobs
  <2>3. j \in PushJobs => JobKept(j)'
    BY <1>2, StepStart, StepTake, StepApply, StepDelete, StepOver DEF JobStep, StepOf
  <2> QED
    BY <2>1, <2>2, <2>3 DEF JobInv
<1>3. ASSUME NEW j \in Timers, StartRepoSync(j)
      PROVE  JobInv'
  <2>1. DOMAIN job' = JobIds /\ \A k \in PushJobs : job'[k] = job[k]
    BY <1>3 DEF JobInv, StartRepoSync, PushJobs
  <2> QED
    BY <2>1, JobRests DEF JobInv
<1>4. CASE UNCHANGED job
  BY <1>4, JobRests DEF JobInv
<1>5. \A d \in Calls : CallStep(d) => UNCHANGED job
  BY PushExtends DEF CallStep, SyncStep, ChangeCluster, CommitResources, RejectPush, PullRebase,
     FailToSync
<1> QED
  BY <1>1, <1>2, <1>3, <1>4, <1>5, NextCases DEF vars

LEMMA JobInvStart == Init => JobInv
<1> SUFFICES ASSUME Init PROVE JobInv
  OBVIOUS
<1>1. LogTyped
  BY CallInvStart DEF CallInv
<1>2. job = [j \in JobIds |-> NoJob]
  BY DEF Init
<1>3. ASSUME NEW j \in PushJobs
      PROVE  JobKept(j)
  <2>1. /\ job[j] = NoJob /\ NoJob.status = "none" /\ JobFields \subseteq DOMAIN NoJob
        /\ DOMAIN NoJob.wrote = Objects /\ {"apply", "delete"} \subseteq DOMAIN NoJob.work
    BY <1>2 DEF NoJob, Nothing, JobFields, PushJobs
  <2> QED
    BY <2>1 DEF JobKept, JobTyped, TodoKept, PushFollowed, TouchesOthers, Active, Running
<1> QED
  BY <1>1, <1>2, <1>3 DEF JobInv

LEMMA StepExtends == ASSUME CallInv, [Next]_vars PROVE LogTyped' /\ Extends
<1>1. CASE UserPush
  BY <1>1, UserPushExtends DEF CallInv
<1>2. CASE UNCHANGED log
  BY <1>2, SameLog DEF CallInv
<1>3. ASSUME NEW d \in Calls, CallStep(d)
      PROVE  LogTyped' /\ Extends
  <2>1. CASE Push(d)
    BY <2>1, PushExtends
  <2>2. CASE ~Push(d)
    BY <1>2, <1>3, <2>2 DEF CallStep, SyncStep, ChangeCluster, CommitResources, RejectPush,
       PullRebase, FailToSync
  <2> QED
    BY <2>1, <2>2
<1> QED
  BY <1>1, <1>2, <1>3, NextCases, JobStepsOnlyJob DEF vars

LEMMA JobsKept == Spec => []JobInv
<1>1. JobInv /\ CallInv /\ [Next]_vars => JobInv'
  BY JobInvStep, StepExtends
<1> QED
  BY <1>1, JobInvStart, CallsKept, PTL DEF Spec

(* When the job of a push ends. *)
LEMMA EndReflects ==
    ASSUME JobInv, NEW j \in PushJobs, EndJob(j), ~job[j].failed,
           NEW o \in Objects \ job[j].excused, StaysIn(o, j),
           \E i \in job[j].first..j : SpecIn(o, i) # SpecIn(o, i - 1)
    PROVE  Reflects(o, j)
<1>1. /\ LogTyped /\ JobKept(j) /\ Running(j) /\ Active(j)
      /\ job[j].todo = {} /\ job[j].work.apply = {} /\ job[j].work.delete = {}
  BY DEF JobInv, EndJob, Running, Active, Nothing
<1>2. PICK f \in Files : Only(o, f, j)
  BY DEF StaysIn, Only, Reach
<1>3. SpecFollowed(o, f, j)
  BY <1>1, <1>2 DEF JobKept, PushFollowed
<1>4. /\ Span(j) \subseteq Reach(j) /\ j \in Span(j) /\ Reach(j) \subseteq 1..Len(log)
      /\ j \in Nat /\ job[j].first - 1 \in Nat /\ \A i \in Span(j) : i - 1 \in Reach(j)
  BY <1>1, ReachInLog DEF JobKept
<1>5. ASSUME NEW i \in Reach(j)
      PROVE  SpecIn(o, i) = {s.ver : s \in Of(o, log[i].tree[f])}
  <2>1. log[i].tree \in [Files -> Contents]
    BY <1>1, <1>4, TreeType
  <2>2. \A g \in Files \ {f} : \A s \in log[i].tree[g] : s.obj # o
    BY <1>2 DEF Only, Holds, ObjectsIn
  <2>3. UNION Range(log[i].tree) = UNION {log[i].tree[g] : g \in Files}
    BY <2>1 DEF Range
  <2>4. {t \in UNION Range(log[i].tree) : t.obj = o} = Of(o, log[i].tree[f])
    BY <2>2, <2>3 DEF Of
  <2> QED
    BY <2>4 DEF SpecIn
<1>6. \A i : ~Pending(j, f, i)
  BY <1>1 DEF Pending
<1>7. job[j].wrote[o] \in {Untouched, Absent} \cup {s.ver : s \in Final(o, f, j)}
  BY <1>3 DEF SpecFollowed, WroteFinal
<1>8. \E i \in Span(j) : Differ(f, i)
  BY <1>4, <1>5 DEF Differ, Span
<1>9. CASE Holds(o, f, j)
  <2>1. PICK s \in log[j].tree[f] : s.obj = o
    BY <1>9 DEF Holds, ObjectsIn
  <2>2. \A t \in log[j].tree[f] : t.obj = o => t = s
    BY <1>1, <1>4, <2>1, OneSpec
  <2>3. Of(o, log[j].tree[f]) = {s}
    BY <2>1, <2>2 DEF Of
  <2>4. SpecIn(o, j) = {s.ver}
    BY <1>4, <1>5, <2>3
  <2>5. CASE s.ver \notin Ignored
    <3>1. s \in Final(o, f, j)
      BY <2>1, <2>5 DEF Final, Of, NotIgnored
    <3>2. job[j].wrote[o] = s.ver
      BY <1>1, <1>3, <1>6, <1>8, <3>1 DEF SpecFollowed, FinalComes, Of
    <3> QED
      BY <2>4, <2>5, <3>2 DEF Reflects
  <2>6. CASE s.ver \in Ignored
    <3>1. Final(o, f, j) = {}
      BY <2>2, <2>6 DEF Final, Of, NotIgnored
    <3>2. job[j].wrote[o] = Untouched \/ job[j].wrote[o] = Absent
      BY <1>7, <3>1
    <3>3. ASSUME job[j].wrote[o] = Absent
          PROVE  \E i \in job[j].first..j : SpecIn(o, i) = {}
      <4>1. PICK i \in Span(j) : ~Holds(o, f, i)
        BY <1>3, <3>3 DEF SpecFollowed, DeletesRemoved
      <4>2. Of(o, log[i].tree[f]) = {}
        BY <4>1 DEF Of, Holds, ObjectsIn
      <4> QED
        BY <1>4, <1>5, <4>2 DEF Span
    <3> QED
      BY <2>4, <2>6, <3>2, <3>3 DEF Reflects
  <2> QED
    BY <2>5, <2>6
<1>10. CASE ~Holds(o, f, j)
  <2>1. Of(o, log[j].tree[f]) = {} /\ Final(o, f, j) = {} /\ ~HadSpec(o, f, j)
    BY <1>10 DEF Of, Final, NotIgnored, Holds, HadSpec, ObjectsIn
  <2>2. SpecIn(o, j) = {}
    BY <1>4, <1>5, <2>1
  <2>3. CASE job[j].wrote[o] = Absent
    BY <2>2, <2>3 DEF Reflects
  <2>4. CASE job[j].wrote[o] # Absent
    <3>1. ASSUME NEW i \in Reach(j)
          PROVE  ~HadSpec(o, f, i)
      <4>1. i \in Nat /\ i <= j /\ job[j].first \in Nat /\ job[j].first - 1 <= i
        BY <1>1, <1>4 DEF Reach, JobKept, JobTyped
      <4>2. ASSUME HadSpec(o, f, i)
            PROVE  FALSE
        <5>1. PICK k \in i + 1..j : Differ(f, k) /\ HadSpec(o, f, k - 1)
          BY <1>4, <2>1, <4>1, <4>2, RemovedBetween
        <5>2. k \in Span(j)
          BY <1>4, <4>1 DEF Span
        <5> QED
          BY <1>1, <1>3, <1>6, <1>10, <2>4, <5>1, <5>2 DEF SpecFollowed, RemovalComes
      <4> QED
        BY <4>2
    <3>2. ASSUME NEW i \in Reach(j)
          PROVE  SpecIn(o, i) \subseteq Ignored
      <4>1. \A s \in Of(o, log[i].tree[f]) : s.ver \in Ignored
        BY <3>1 DEF Of, HadSpec, NotIgnored, ObjectsIn
      <4> QED
        BY <1>5, <4>1
    <3> QED
      BY <2>2, <3>2 DEF Reflects, Reach
  <2> QED
    BY <2>3, <2>4
<1> QED
  BY <1>9, <1>10

LEMMA EndLeavesOwn ==
    ASSUME JobInv, NEW j \in PushJobs, EndJob(j)
    PROVE  LeavesOwn(j)
<1>1. \A o \in Objects : job[j].wrote[o] # Untouched => ByOthers(o, j)
  BY DEF JobInv, JobKept, TouchesOthers, EndJob
<1>2. ASSUME NEW o \in Objects, ByOthers(o, j)
      PROVE  o \in InFilesOf(j, NotOwn(j))
  <2>1. PICK i \in Reach(j), f \in Files, k \in Span(j) :
           ~log[k].own /\ Differ(f, k) /\ Holds(o, f, i)
    BY <1>2 DEF ByOthers
  <2>2. k \in NotOwn(j)
    BY <2>1 DEF NotOwn, Span
  <2> QED
    BY <2>1, <2>2 DEF InFilesOf, Holds, Reach
<1> QED
  BY <1>1, <1>2 DEF LeavesOwn

(* When the job of a push reports success, what it last did to a resource  *)
(* is what the last commit of the push says of it, whatever the pushes,    *)
(* deployments and timers around it did and in whatever order: the version *)
(* of its spec was applied, or it was deleted, and ignored specs were left *)
(* alone unless a commit of the push had removed them (sync/change.ts).    *)
(* And it touched no resource but those in files that a commit which is    *)
(* not this SDM's own had changed (sync/goals.ts, diff.ts).                *)
THEOREM JobReflectsPushHolds == Spec => JobReflectsPush
<1>1. ASSUME JobInv, NEW j \in PushJobs, EndJob(j)
      PROVE  FollowsPush(j)
  BY <1>1, EndReflects DEF FollowsPush
<1>2. JobInv /\ [Next]_vars =>
        [\A j \in JobIds \ Timers : EndJob(j) => FollowsPush(j) /\ LeavesOwn(j)]_vars
  BY <1>1, EndLeavesOwn DEF PushJobs
<1> QED
  BY <1>2, JobsKept, PTL DEF Spec, JobReflectsPush
=============================================================================
