------------------------------ MODULE SyncRepo ------------------------------
(***************************************************************************)
(* The sync repository: a Git repository whose root files hold the specs   *)
(* of the resources of a cluster.  Users push to it and a job applies what *)
(* the push changed (sync/goals.ts, diff.ts, change.ts); a timer applies   *)
(* all of it (sync/startup.ts, sync.ts); a deployment or undeployment      *)
(* changes the cluster and commits the resources (sync/application.ts).    *)
(***************************************************************************)
EXTENDS Integers, Sequences, Functions

CONSTANTS
    Objects,     \* resources: kind, name and namespace
    Versions,    \* contents of a spec, positive numbers
    Ignored,     \* the versions that carry the annotation sync = ignore
    PathOrder,   \* the spec files at the root of the repository, sorted
    FirstTree,   \* the repository when the SDM starts
    Edits,       \* what commits of users change: [files, own], files to new contents
    Calls,       \* deployments and undeployments that may run at once
    Requests,    \* what they may ask for: [kind, specs]
    Timers,      \* numbers of the timer's jobs that may run at once, in {0, 1}
    MaxCommits,  \* bound: commits of the branch
    MaxFaults    \* bound: failing requests, lost answers and dying jobs

Files == Range(PathOrder)
Specs == [obj : Objects, ver : Versions]
Contents == {c \in SUBSET Specs : \A s, t \in c : s.obj = t.obj => s = t}

ASSUME SyncAssumption ==
    /\ Versions \subseteq Nat \ {0} /\ Ignored \subseteq Versions
    /\ FirstTree \in [Files -> Contents]
    /\ \A e \in Edits :
         /\ e.own \in BOOLEAN /\ DOMAIN e.files \subseteq Files
         /\ \A f \in DOMAIN e.files : e.files[f] \in Contents
    /\ Requests \subseteq [kind : {"upsert", "delete"}, specs : Contents]
    /\ Timers \subseteq {0, 1} /\ MaxCommits \in Nat \ {0} /\ MaxFaults \in Nat

VARIABLES
    log,      \* the branch, oldest first: [tree, own], own: tagged by this SDM
    cluster,  \* Objects -> version, 0: absent
    job,      \* timer's jobs and jobs of pushes, by the number of their last commit
    deploy,   \* Calls -> the call's progress
    faults

vars == <<log, cluster, job, deploy, faults>>

Absent == 0
Untouched == 0 - 1
JobIds == Timers \cup 2..MaxCommits    \* the first commit is nobody's push
Branch == log[Len(log)].tree
ObjectsIn(content) == {s.obj : s \in content}
Of(o, content) == {s \in content : s.obj = o}
Edited(tree, edit) == [f \in Files |-> IF f \in DOMAIN edit THEN edit[f] ELSE tree[f]]

Nothing == [apply |-> {}, delete |-> {}]
NoJob == [status |-> "none", first |-> 0, last |-> 0, todo |-> {}, work |-> Nothing,
          failed |-> FALSE, excused |-> {}, wrote |-> [o \in Objects |-> Untouched]]

Idle == [pc |-> "idle", cloned |-> 0, parent |-> 0, edit |-> <<>>, merged |-> {},
         request |-> [kind |-> "none", specs |-> {}]]

Init ==
    /\ log = <<[tree |-> FirstTree, own |-> FALSE]>>
    /\ cluster = [o \in Objects |-> Absent]
    /\ job = [j \in JobIds |-> NoJob]
    /\ deploy = [d \in Calls |-> Idle]
    /\ faults = 0

Fault == faults < MaxFaults /\ faults' = faults + 1

PushJob(first, last) ==
    [NoJob EXCEPT !.status = "requested", !.first = first, !.last = last]

(* The goal is planned for pushes with commits that are not this SDM's own.*)
IsSyncRepoCommit(commits) == \E i \in DOMAIN commits : ~commits[i].own

Receive(commits) ==
    LET last == Len(log) + Len(commits) IN
    /\ last <= MaxCommits
    /\ log' = log \o commits
    /\ job' = IF IsSyncRepoCommit(commits)
              THEN [job EXCEPT ![last] = PushJob(Len(log) + 1, last)] ELSE job

(* A user pushes one or two commits, each of which changes something.  Some*)
(* may be copies of commits of this SDM, with their messages.              *)
Commits(tree) ==
    {[tree |-> Edited(tree, e.files), own |-> e.own] :
        e \in {x \in Edits : Edited(tree, x.files) # tree}}

Pushes ==
    {<<c>> : c \in Commits(Branch)}
        \cup UNION {{<<c, d>> : d \in Commits(c.tree)} : c \in Commits(Branch)}

UserPush == \E commits \in Pushes : Receive(commits) /\ UNCHANGED <<cluster, deploy, faults>>

(***************************************************************************)
(* The job of a push.  Its clone is checked out at the push's last commit, *)
(* whatever is pushed later.                                               *)
(***************************************************************************)
Differ(f, i) == log[i].tree[f] # log[i - 1].tree[f]

(* The files a commit changed. *)
DiffPush(i) ==
    {[change |-> IF log[i].tree[f] = {} THEN "delete" ELSE "apply", path |-> f, commit |-> i] :
        f \in {g \in Files : Differ(g, i)}}

Own(j) == {k \in job[j].first..j : log[k].own}

AnyCommits(j) == job[j].first..j       \* variant: its own commits, too

(* The commits whose changes the job makes: not this SDM's own.            *)
CommitsOf(j) == (job[j].first..j) \ Own(j)

(* What the files these commits changed hold in the commits of the push.   *)
InFilesOf(j, commits) ==
    UNION {ObjectsIn(log[i].tree[f]) :
        i \in (job[j].first - 1)..j, f \in {g \in Files : \E k \in commits : Differ(g, k)}}

(* Commits that cannot be compared are skipped, and nobody is told.        *)
StartSync(j) ==
    /\ job[j].status = "requested"
    /\ \E skipped \in SUBSET CommitsOf(j) :
         /\ IF skipped = {} THEN UNCHANGED faults ELSE Fault
         /\ job' = [job EXCEPT ![j].status = "running",
                               ![j].todo = UNION {DiffPush(i) : i \in CommitsOf(j) \ skipped},
                               ![j].excused = InFilesOf(j, skipped \cup Own(j))]
    /\ UNCHANGED <<log, cluster, deploy>>

SyncManySpecs(tree) ==                \* variant: files of several specs do not parse
    {f \in Files : \E s \in tree[f] : tree[f] = {s}}

(* The timer's job takes every spec of every file of its clone.            *)
SyncApply(tree) == {f \in Files : tree[f] # {}}

StartRepoSync(j) ==
    /\ job[j].status = "none"
    /\ job' = [job EXCEPT ![j] =
            [NoJob EXCEPT !.status = "running", !.last = Len(log),
                !.todo = {[change |-> "apply", path |-> f, commit |-> Len(log)] :
                            f \in SyncApply(Branch)}]]
    /\ UNCHANGED <<log, cluster, deploy, faults>>

(* Commit by commit, deletes first, then by path.                          *)
Position(f) == CHOOSE i \in DOMAIN PathOrder : PathOrder[i] = f

Precedes(c, d) ==
    \/ c.commit < d.commit
    \/ c.commit = d.commit /\ c.change = "delete" /\ d.change = "apply"
    \/ c.commit = d.commit /\ c.change = d.change /\ Position(c.path) < Position(d.path)

IsNext(c, todo) == \A d \in todo \ {c} : Precedes(c, d)

NotIgnored(content) == {s \in content : s.ver \notin Ignored}

AppliesOnly(before, after) == {}       \* variant: what left the file stays deployed

(* What is deleted of a file that is still there. *)
RemovedSpecs(before, after) == ObjectsIn(before) \ ObjectsIn(after)

CalculateChanges(before, after, change) ==
    IF change = "delete"
    THEN [apply |-> {}, delete |-> ObjectsIn(NotIgnored(before))]
    ELSE [apply |-> NotIgnored(after), delete |-> RemovedSpecs(NotIgnored(before), after)]

Running(j) == job[j].status = "running"

(* What a changed file asks for: the specs the file has in the clone, not  *)
(* in the commit, and the removal of those it had before the commit.  A    *)
(* file may be changed by one commit of a push and deleted by a later one: *)
(* that is an error.  What cannot be read of the commit before is empty.   *)
TakeFile(j) ==
    /\ Running(j) /\ job[j].work = Nothing
    /\ \E c \in job[j].todo :
        LET after == log[job[j].last].tree[c.path]
            before == log[c.commit - 1].tree[c.path]
            missing == c.change = "apply" /\ after = {}
            Take(work, unread) ==
                job' = [job EXCEPT ![j].todo = @ \ {c}, ![j].failed = @ \/ missing,
                                   ![j].work = IF missing THEN Nothing ELSE work,
                                   ![j].excused = @ \cup unread]
        IN  /\ IsNext(c, job[j].todo)
            /\ IF j \in Timers
               THEN Take([apply |-> after, delete |-> {}], {}) /\ UNCHANGED faults
               ELSE \/ Take(CalculateChanges(before, after, c.change), {}) /\ UNCHANGED faults
                    \/ before # {} /\ Take(CalculateChanges({}, after, c.change), ObjectsIn(before)) /\ Fault
    /\ UNCHANGED <<log, cluster, deploy>>

(* The rest of a file's specs is given up after an error by the job of a   *)
(* push; the timer's job goes on with the next spec.                       *)
RestAfter(j, rest, ok) == IF ok \/ j \in Timers THEN rest ELSE Nothing

StepEnds(j, rest, ok, o, ver) ==
    job' = [job EXCEPT ![j].work = RestAfter(j, rest, ok), ![j].failed = @ \/ ~ok,
                       ![j].wrote = IF j \in Timers THEN @ ELSE [@ EXCEPT ![o] = ver]]

ApplySpec(j) ==
    /\ Running(j)
    /\ \E s \in job[j].work.apply :
        LET rest == [job[j].work EXCEPT !.apply = @ \ {s}]
        IN  \/ /\ cluster' = [cluster EXCEPT ![s.obj] = s.ver]
               /\ StepEnds(j, rest, TRUE, s.obj, s.ver) /\ UNCHANGED faults
            \/ /\ Fault /\ StepEnds(j, rest, FALSE, s.obj, s.ver)
               /\ cluster' \in {cluster, [cluster EXCEPT ![s.obj] = s.ver]}
    /\ UNCHANGED <<log, deploy>>

(* Whoever cannot read a resource takes it for deleted.                    *)
DeleteSpec(j) ==
    /\ Running(j) /\ job[j].work.apply = {}
    /\ \E o \in job[j].work.delete :
        LET rest == [job[j].work EXCEPT !.delete = @ \ {o}]
        IN  \/ /\ cluster' = [cluster EXCEPT ![o] = Absent]
               /\ StepEnds(j, rest, TRUE, o, Absent) /\ UNCHANGED faults
            \/ /\ Fault /\ StepEnds(j, rest, FALSE, o, Absent)
               /\ cluster' \in {cluster, [cluster EXCEPT ![o] = Absent]}
            \/ /\ Fault /\ cluster[o] # Absent
               /\ job' = [job EXCEPT ![j].work = rest, ![j].excused = @ \cup {o}]
               /\ UNCHANGED cluster
    /\ UNCHANGED <<log, deploy>>

EndJob(j) ==
    /\ Running(j) /\ job[j].todo = {} /\ job[j].work = Nothing
    /\ job' = [job EXCEPT ![j] = NoJob]
    /\ UNCHANGED <<log, cluster, deploy, faults>>

Die(j) ==
    /\ Fault /\ Running(j)
    /\ job' = [job EXCEPT ![j] = NoJob]
    /\ UNCHANGED <<log, cluster, deploy>>

(***************************************************************************)
(* A deployment or undeployment.  What it does to the cluster is one step  *)
(* here (KubernetesApps has the steps); then it clones the repository,     *)
(* edits the files, commits and pushes.                                    *)
(***************************************************************************)
Ended(d, result, merged) == [deploy EXCEPT ![d] = [Idle EXCEPT !.pc = result, !.merged = merged]]

ChangeCluster(d) ==
    /\ deploy[d].pc = "idle"
    /\ \E r \in Requests :
         /\ cluster' = [o \in Objects |->
                          IF o \notin ObjectsIn(r.specs) THEN cluster[o]
                          ELSE IF r.kind = "delete" THEN Absent
                          ELSE (CHOOSE s \in r.specs : s.obj = o).ver]
         /\ deploy' = [deploy EXCEPT ![d] = [Idle EXCEPT !.pc = "clone", !.request = r]]
    /\ UNCHANGED <<log, job, faults>>

(* The files of a resource hold its spec and no other: files with several  *)
(* specs do not parse as one.  Files are read at the same time, the first  *)
(* that was read is taken.                                                 *)
MatchSpec(tree, o) == {f \in Files : ObjectsIn(tree[f]) = {o}}

(* A new file gets a name that no file of the clone has.                   *)
UniqueSpecFile(tree) == {f \in Files : tree[f] = {}}

(* variant: files are looked up before any is added *)
AnyPlacements(specs, tree) ==
    {place \in [specs -> Files] : \A s \in specs :
        place[s] \in IF MatchSpec(tree, s.obj) # {} THEN MatchSpec(tree, s.obj) ELSE UniqueSpecFile(tree)}

Placements(specs, tree) ==
    {place \in [specs -> Files] :
        /\ IsInjective(place)
        /\ \A s \in specs :
             place[s] \in IF MatchSpec(tree, s.obj) # {} THEN MatchSpec(tree, s.obj) ELSE UniqueSpecFile(tree)}

(* What a call may change in the files of its clone.  A file is written as *)
(* a whole.                                                                *)
SyncedFiles(r, tree) ==
    IF r.kind = "delete"
    THEN {[f \in Range(place) |-> {}] :
            place \in Placements({s \in r.specs : MatchSpec(tree, s.obj) # {}}, tree)}
    ELSE {[f \in Range(place) |-> {CHOOSE s \in r.specs : place[s] = f}] :
            place \in Placements(r.specs, tree)}

(* The files a commit changes: others are not part of it. *)
Changed(edit, tree) == Restrict(edit, {f \in DOMAIN edit : edit[f] # tree[f]})

IsClean(edit, tree) == \A f \in DOMAIN edit : edit[f] = tree[f]

CommitResources(d) ==
    /\ deploy[d].pc = "clone"
    /\ \E edit \in SyncedFiles(deploy[d].request, Branch) :
         deploy' = IF IsClean(edit, Branch) THEN Ended(d, "done", {})
                   ELSE [deploy EXCEPT ![d].pc = "push", ![d].cloned = Len(log),
                                        ![d].parent = Len(log), ![d].edit = Changed(edit, Branch)]
    /\ UNCHANGED <<log, cluster, job, faults>>

(* Git takes a push only on top of the head.                               *)
Accepted(d) == deploy[d].parent = Len(log)

(* If the answer is lost the commit is in the branch nevertheless, and     *)
(* there is nothing left to rebase.                                        *)
Push(d) ==
    /\ deploy[d].pc = "push" /\ Accepted(d)
    /\ Receive(<<[tree |-> Edited(Branch, deploy[d].edit), own |-> TRUE]>>)
    /\ \/ deploy' = Ended(d, "done", deploy[d].merged) /\ UNCHANGED faults
       \/ deploy' = [deploy EXCEPT ![d].pc = "pull", ![d].edit = <<>>] /\ Fault
    /\ UNCHANGED cluster

RejectPush(d) ==
    /\ deploy[d].pc = "push"
    /\ \/ ~Accepted(d) /\ UNCHANGED faults
       \/ Fault
    /\ deploy' = [deploy EXCEPT ![d].pc = "pull"]
    /\ UNCHANGED <<log, cluster, job>>

(***************************************************************************)
(* git pull --rebase: the commit is made anew on top of the branch.  Of a  *)
(* file that both sides changed git merges the hunks, or finds a conflict, *)
(* which no retry resolves; a file that others moved is changed where it   *)
(* is now; a change that is in the branch already vanishes.                *)
(***************************************************************************)
Base(d) == log[deploy[d].parent].tree

(* Resources whose specs both sides changed.  When one side has dropped    *)
(* such a spec, a spec that is new may be the same under another name.     *)
Contested(base, ours, theirs) ==
    {o \in Objects : /\ Of(o, ours) \notin {Of(o, base), Of(o, theirs)}
                     /\ Of(o, theirs) # Of(o, base)}

Mixed(base, ours, theirs) ==
    LET contested == Contested(base, ours, theirs) IN
    IF contested \subseteq ObjectsIn(ours) \cap ObjectsIn(theirs) THEN contested
    ELSE contested \cup (Objects \ ObjectsIn(base))

TakeOurs(base, ours, theirs) == {ours}    \* variant: pull -X theirs

(* What a clean merge may be: nobody knows what becomes of mixed specs.    *)
Merges(base, ours, theirs) ==
    IF theirs \in {base, ours} THEN {ours}
    ELSE IF {} \in {base, ours, theirs} THEN {}
    ELSE {c \in Contents : \A o \in Objects \ Mixed(base, ours, theirs) :
            Of(o, c) = IF Of(o, ours) = Of(o, base) THEN Of(o, theirs) ELSE Of(o, ours)}

MovedTo(d, f) ==
    {g \in Files : Base(d)[f] # {} /\ Branch[f] = {} /\ Base(d)[g] = {} /\ Branch[g] # {}}

(* Where the files of a commit are now. *)
Moves(d) ==
    {to \in [DOMAIN deploy[d].edit -> Files] :
        IsInjective(to) /\ \A f \in DOMAIN to : to[f] \in {f} \cup MovedTo(d, f)}

Merged(d, to, f) == Merges(Base(d)[f], deploy[d].edit[f], Branch[to[f]])

(* What they may become. *)
Clean(d, to) ==
    {content \in [DOMAIN to -> UNION {Merged(d, to, f) : f \in DOMAIN to}] :
        \A f \in DOMAIN to : content[f] \in Merged(d, to, f)}

RebasedEdit(to, content) == [g \in Range(to) |-> content[CHOOSE f \in DOMAIN to : to[f] = g]]

MixedBy(d, to) ==
    UNION {Mixed(Base(d)[f], deploy[d].edit[f], Branch[to[f]]) : f \in DOMAIN to}

MayConflict(d) ==
    \E f \in DOMAIN deploy[d].edit :
        Branch[f] \notin {Base(d)[f], deploy[d].edit[f]} \/ MovedTo(d, f) # {}

PullRebase(d) ==
    /\ deploy[d].pc = "pull"
    /\ \/ MayConflict(d) /\ deploy' = Ended(d, "failed", {})
       \/ \E to \in Moves(d) : \E content \in Clean(d, to) :
            LET edit == RebasedEdit(to, content)
                merged == deploy[d].merged \cup MixedBy(d, to)
            IN  deploy' = IF IsClean(edit, Branch) THEN Ended(d, "done", merged)
                          ELSE [deploy EXCEPT ![d].pc = "push", ![d].parent = Len(log),
                                   ![d].edit = Changed(edit, Branch), ![d].merged = merged]
    /\ UNCHANGED <<log, cluster, job, faults>>

FailToSync(d) ==
    /\ Fault /\ deploy[d].pc \in {"clone", "push", "pull"}
    /\ deploy' = Ended(d, "failed", {})
    /\ UNCHANGED <<log, cluster, job>>

---------------------------------------------------------------------------
StepOf(j) == TakeFile(j) \/ ApplySpec(j) \/ DeleteSpec(j) \/ EndJob(j)

SyncStep(d) ==
    CommitResources(d) \/ Push(d) \/ RejectPush(d) \/ PullRebase(d)

Next ==
    \/ UserPush
    \/ \E j \in JobIds : StartSync(j) \/ StepOf(j) \/ Die(j)
    \/ \E j \in Timers : StartRepoSync(j)
    \/ \E d \in Calls : ChangeCluster(d) \/ SyncStep(d) \/ FailToSync(d)

Spec == Init /\ [][Next]_vars

(* setInterval fires for ever, and the jobs it creates run.  Nothing is    *)
(* assumed of the jobs of pushes, of deployments and of users.             *)
FairSpec ==
    /\ Spec
    /\ \A j \in Timers : WF_vars(StartRepoSync(j) \/ StepOf(j))

---------------------------------------------------------------------------
Change == [change : {"apply", "delete"}, path : Files, commit : 1..MaxCommits]

TypeOK ==
    /\ log \in Seq([tree : [Files -> Contents], own : BOOLEAN]) /\ Len(log) \in 1..MaxCommits
    /\ cluster \in [Objects -> Versions \cup {Absent}]
    /\ \A j \in JobIds :
         /\ job[j].status \in {"none", "requested", "running"}
         /\ job[j].first \in 0..job[j].last /\ job[j].last \in 0..Len(log)
         /\ job[j].todo \subseteq Change
         /\ job[j].work \in [apply : SUBSET Specs, delete : SUBSET Objects]
         /\ job[j].excused \subseteq Objects
         /\ job[j].wrote \in [Objects -> Versions \cup {Absent, Untouched}]
    /\ \A d \in Calls :
         /\ deploy[d].pc \in {"idle", "clone", "push", "pull", "done", "failed"}
         /\ deploy[d].cloned \in 0..deploy[d].parent /\ deploy[d].parent \in 0..Len(log)
         /\ DOMAIN deploy[d].edit \subseteq Files
    /\ faults \in 0..MaxFaults

(* What a push of this SDM does to the files: resources that were not asked*)
(* for keep their specs, and of those that were no spec is replaced that   *)
(* somebody wrote after the call had cloned.  Rejected pushes are rebased, *)
(* so that nothing others pushed is taken back; only where both changed a  *)
(* spec and git merged the two, it is a mixture of both.                   *)
SpecsOf(tree) == UNION {tree[f] : f \in Files}

PushKeepsOthers ==
    [][\A d \in Calls :
         Push(d) => \A f \in Files : \A o \in Objects \ deploy[d].merged :
            Of(o, log'[Len(log')].tree[f]) # Of(o, Branch[f]) =>
               /\ o \in ObjectsIn(deploy[d].request.specs)
               /\ Of(o, Branch[f]) \subseteq SpecsOf(log[deploy[d].cloned].tree)]_vars

(* A deployment that reports success had each of its specs in the          *)
(* repository when it cloned or later, unless git merged it with another.  *)
ClonedAt(d) == IF deploy[d].pc = "clone" THEN Len(log) ELSE deploy[d].cloned

DeployLands ==
    [][\A d \in Calls :
         deploy[d].request.kind = "upsert" /\ deploy'[d].pc = "done" =>
            \A s \in deploy[d].request.specs :
               \/ s.obj \in deploy'[d].merged
               \/ \E i \in ClonedAt(d)..Len(log') : s \in SpecsOf(log'[i].tree)]_vars

(* What the job of a push last did to a resource, when it reports success. *)
(* For resources that stay in one file through all commits of the push it  *)
(* is what the last commit says; ignored specs are left alone, unless a    *)
(* commit of the push had removed them.  And whatever it reports, it has   *)
(* touched nothing but what commits that are not this SDM's own changed.   *)
Holds(o, f, i) == o \in ObjectsIn(log[i].tree[f])
StaysIn(o, j) ==
    \E f \in Files : \A i \in (job[j].first - 1)..j : \A g \in Files \ {f} : ~Holds(o, g, i)
SpecIn(o, i) == {s.ver : s \in {t \in UNION Range(log[i].tree) : t.obj = o}}

Reflects(o, j) ==
    LET before == job[j].first - 1
        wrote == job[j].wrote[o]
    IN  \/ SpecIn(o, j) = {} /\ wrote = Absent
        \/ SpecIn(o, j) = {} /\ \A i \in before..j : SpecIn(o, i) \subseteq Ignored
        \/ wrote \in SpecIn(o, j) \ Ignored
        \/ SpecIn(o, j) # {} /\ SpecIn(o, j) \subseteq Ignored /\ wrote = Untouched
        \/ /\ SpecIn(o, j) # {} /\ SpecIn(o, j) \subseteq Ignored /\ wrote = Absent
           /\ \E i \in job[j].first..j : SpecIn(o, i) = {}

FollowsPush(j) ==
    ~job[j].failed =>
        \A o \in Objects \ job[j].excused :
            StaysIn(o, j) /\ (\E i \in job[j].first..j : SpecIn(o, i) # SpecIn(o, i - 1))
                => Reflects(o, j)

NotOwn(j) == {k \in job[j].first..j : ~log[k].own}

LeavesOwn(j) ==
    \A o \in Objects : job[j].wrote[o] # Untouched => o \in InFilesOf(j, NotOwn(j))

JobReflectsPush == [][\A j \in JobIds \ Timers : EndJob(j) => FollowsPush(j) /\ LeavesOwn(j)]_vars

(* The timer repairs: again and again the cluster has every resource of    *)
(* the repository, in the version of the last of the files that hold it.   *)
LastVersion(tree, o) ==
    LET holders == {f \in Files : o \in ObjectsIn(tree[f])}
        last == CHOOSE f \in holders : \A g \in holders : Position(g) <= Position(f)
    IN  {s.ver : s \in {t \in tree[last] : t.obj = o}}

Agrees == \A o \in UNION {ObjectsIn(Branch[f]) : f \in Files} : cluster[o] \in LastVersion(Branch, o)

Converges == []<>Agrees
=============================================================================
