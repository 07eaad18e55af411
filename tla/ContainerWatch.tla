---------------------------- MODULE ContainerWatch ----------------------------
(***************************************************************************)
(* A container goal that runs as a Kubernetes job: executeK8sJob, in a     *)
(* second container of the same pod, waits for the main container to       *)
(* start, watches it until it has exited and its log was copied, and turns *)
(* its exit, its result file and the caching of its output into the result *)
(* of the goal.  containerWatch is a promise that four callbacks race to   *)
(* settle: the log stream, the pod watch, the error of that watch and a    *)
(* timer.                                                                  *)
(*                                                                         *)
(* Definitions marked "Variant" are plausible mistakes in the definition   *)
(* that follows them; no run uses them.                                    *)
(***************************************************************************)
EXTENDS Naturals

CONSTANT Attempts  \* polls of containerStarted (240)

ASSUME AttemptsAssumption == Attempts \in Nat \ {0}

VARIABLES
    container, \* what the main container is doing
    stage,     \* where executeK8sJob is
    polls,     \* polls of containerStarted so far
    promise,   \* the promise of containerWatch
    log,       \* the request that follows the container's log
    watcher,   \* the watch on the pod
    timer,     \* the timeout of the goal
    seen,      \* the exit the watch reported: podStatus or podError
    output,    \* what result.json, if there is one, says of the goal
    caching,   \* how caching the output went
    status,    \* what executeK8sJob holds as the goal's status ...
    result     \* ... and the result it returned

request == <<promise, log, watcher, timer, seen>>
outcome == <<output, caching, status, result>>
vars == <<container, stage, polls, request, outcome>>

Exits == {"ok", "failed"}

---------------------------------------------------------------------------
(* The pod *)

StartContainer ==
    /\ container = "waiting"
    /\ container' = "running"
    /\ UNCHANGED <<stage, polls, request, outcome>>

(* The container may write a result before it exits, readable or not. *)
ExitContainer(exit, written) ==
    /\ container = "running"
    /\ container' = exit
    /\ output' = written
    /\ UNCHANGED <<stage, polls, request, caching, status, result>>

---------------------------------------------------------------------------
(* containerStarted *)

Return(value) == stage' = "returned" /\ result' = value

IsLastPoll(n) == n = Attempts

(* The container has not started, or reading the pod failed. *)
PollAgain ==
    /\ stage = "starting"
    /\ polls' = polls + 1
    /\ IF IsLastPoll(polls') THEN Return("failure")
       ELSE UNCHANGED <<stage, result>>
    /\ UNCHANGED <<container, request, output, caching, status>>

(* Variant: no timer before the watch is open. *)
NoTimer == "none"

TimerOfWatch == "set"

(* The container is found started; the log and the pod are asked for. *)
BeginWatch ==
    /\ stage = "starting"
    /\ container # "waiting"
    /\ stage' = "watching"
    /\ promise' = "pending" /\ log' = "open"
    /\ watcher' = "opening" /\ timer' = TimerOfWatch
    /\ UNCHANGED <<container, polls, seen, outcome>>

(* There is no client to watch with: the promise is rejected, and what the *)
(* executor set up before is released, but not the timer it sets next.     *)
BeginWithoutClient ==
    /\ stage = "starting"
    /\ container # "waiting"
    /\ stage' = "watching"
    /\ promise' = "rejected" /\ log' = "aborted"
    /\ watcher' = "none" /\ timer' = TimerOfWatch
    /\ UNCHANGED <<container, polls, seen, outcome>>

---------------------------------------------------------------------------
(* containerWatch *)

(* containerCleanup: a watch that is still opening is not there to abort. *)
Released(open) == IF open = "open" THEN "aborted" ELSE open

ReleaseTimer == timer' = IF timer = "set" THEN "cleared" ELSE timer

ReleaseLog == log' = Released(log)

ReleaseWatcher == watcher' = Released(watcher)

(* Only the first call of resolve or reject counts. *)
Settle(how) == promise' = IF promise = "pending" THEN how ELSE promise

(* Variant: the exit code is not looked at. *)
SettleAsFailed(exit) == Settle("rejected")

SettleAs(exit) == Settle(IF exit = "ok" THEN "resolved" ELSE "rejected")

(* Variant: the exit is enough, the log may still be copied. *)
LogNeedNotBeDone == TRUE

LogDone == log \in {"closed", "error"}

OpenWatch ==
    /\ watcher = "opening"
    /\ watcher' = "open"
    /\ UNCHANGED <<container, stage, polls, promise, log, timer, seen, outcome>>

(* The call of watch() throws, and nobody catches it. *)
FailToOpenWatch ==
    /\ watcher = "opening"
    /\ watcher' = "failed"
    /\ UNCHANGED <<container, stage, polls, promise, log, timer, seen, outcome>>

SeeExit ==
    /\ watcher = "open"
    /\ container \in Exits
    /\ seen' = container
    /\ IF LogDone
       THEN ReleaseTimer /\ ReleaseLog /\ ReleaseWatcher /\ SettleAs(container)
       ELSE UNCHANGED <<promise, log, watcher, timer>>
    /\ UNCHANGED <<container, stage, polls, outcome>>

BreakWatch ==
    /\ watcher = "open"
    /\ watcher' = "failed"
    /\ ReleaseTimer /\ ReleaseLog
    /\ Settle("rejected")
    /\ UNCHANGED <<container, stage, polls, seen, outcome>>

(* The server ends the watch: without an error there is nothing to report, *)
(* and the callback throws before it releases or settles anything.         *)
EndWatch ==
    /\ watcher = "open"
    /\ watcher' = "ended"
    /\ UNCHANGED <<container, stage, polls, promise, log, timer, seen, outcome>>

HasSeenExit == seen \in Exits

(* doneCallback without an error: the container exited, or the connection  *)
(* was closed.                                                             *)
CloseLog ==
    /\ log = "open"
    /\ log' = "closed"
    /\ IF HasSeenExit
       THEN ReleaseTimer /\ ReleaseWatcher /\ SettleAs(seen)
       ELSE UNCHANGED <<promise, watcher, timer>>
    /\ UNCHANGED <<container, stage, polls, seen, outcome>>

BreakLog ==
    /\ log = "open"
    /\ log' = "error"
    /\ ReleaseTimer /\ ReleaseWatcher
    /\ Settle("rejected")
    /\ UNCHANGED <<container, stage, polls, seen, outcome>>

TimeOut ==
    /\ timer = "set"
    /\ timer' = "fired"
    /\ ReleaseLog /\ ReleaseWatcher
    /\ Settle("rejected")
    /\ UNCHANGED <<container, stage, polls, seen, outcome>>

---------------------------------------------------------------------------
(* The rest of executeK8sJob *)

(* A result is read only after the container succeeded. *)
ReadOutput ==
    /\ stage = "watching"
    /\ promise \in {"resolved", "rejected"}
    /\ stage' = "caching"
    /\ status' = IF promise = "rejected" \/ output = "unreadable"
                 THEN "failure" ELSE "success"
    /\ UNCHANGED <<container, polls, request, output, caching, result>>

(* outputResult, which takes precedence over the status. *)
HasResult == promise = "resolved" /\ output \in {"success", "failure"}

(* "none": the goal has no output to cache. *)
PutCache(how) ==
    LET final == IF how = "failed" THEN "failure" ELSE status IN
    /\ stage = "caching"
    /\ caching' = how
    /\ status' = final
    /\ Return(IF HasResult THEN output ELSE final)
    /\ UNCHANGED <<container, polls, request, output>>

---------------------------------------------------------------------------
Init ==
    /\ container = "waiting" /\ stage = "starting" /\ polls = 0
    /\ promise = "none" /\ log = "none" /\ watcher = "none"
    /\ timer = "none" /\ seen = "none"
    /\ output = "none" /\ caching = "none" /\ status = "none"
    /\ result = "none"

WatchPod == OpenWatch \/ FailToOpenWatch \/ SeeExit \/ BreakWatch \/ EndWatch

Execute ==
    \/ PollAgain
    \/ BeginWatch
    \/ BeginWithoutClient
    \/ ReadOutput
    \/ \E how \in {"none", "put", "failed"} : PutCache(how)

Next ==
    \/ StartContainer
    \/ \E exit \in Exits, written \in {"none", "success", "failure", "unreadable"} :
          ExitContainer(exit, written)
    \/ Execute
    \/ WatchPod
    \/ CloseLog
    \/ BreakLog
    \/ TimeOut

Spec == Init /\ [][Next]_vars

(* The executor's awaits end, a call of watch() settles, and timers fire.  *)
(* The container may run, and the log be followed, for ever.               *)
FairSpec ==
    /\ Spec
    /\ WF_vars(Execute)
    /\ WF_vars(OpenWatch \/ FailToOpenWatch)
    /\ WF_vars(TimeOut)

---------------------------------------------------------------------------
Result == {"none", "success", "failure"}

TypeOK ==
    /\ container \in {"waiting", "running"} \cup Exits
    /\ stage \in {"starting", "watching", "caching", "returned"}
    /\ polls \in 0..Attempts
    /\ promise \in {"none", "pending", "resolved", "rejected"}
    /\ log \in {"none", "open", "closed", "error", "aborted"}
    /\ watcher \in {"none", "opening", "open", "ended", "failed", "aborted"}
    /\ timer \in {"none", "set", "cleared", "fired"}
    /\ seen \in {"none"} \cup Exits
    /\ output \in {"none", "success", "failure", "unreadable"}
    /\ caching \in {"none", "put", "failed"}
    /\ status \in Result /\ result \in Result

(* The goal succeeds only if its main container exited with 0 and its log  *)
(* was copied to the end, whichever callback came first (executeK8sJob).   *)
SuccessIsReal ==
    result = "success" => container = "ok" /\ log = "closed"

(* A container that succeeds is reported as failed only when something     *)
(* else went wrong (containerWatch).                                       *)
FailureHasCause ==
    promise = "rejected" /\ container = "ok"
        => \/ log = "error" \/ watcher = "failed" \/ timer = "fired"
           \/ watcher = "none"  \* no client

(* Whatever the container, its log and the cluster do, the goal ends. *)
Reports == <>(stage = "returned")

(* A goal whose output could not be cached does not succeed. *)
CacheFailureReported == caching = "failed" => result # "success"

===============================================================================
