------------------------- MODULE ContainerWatch_proofs -------------------------
(***************************************************************************)
(* Type correctness of ContainerWatch, and its two safety properties, for  *)
(* every number of polls.                                                  *)
(***************************************************************************)
EXTENDS ContainerWatch, TLAPS

(* Until the watch is set up there is nothing to settle or to report. *)
NothingYet ==
    /\ stage \in {"starting", "watching"} => status = "none" /\ result = "none"
    /\ stage = "starting" => polls < Attempts
    /\ promise = "none" => log = "none"

(* A container exits once, so what the watch saw stays true. *)
SeenIsTrue == seen \in Exits => container = seen

(* A resolved promise has its reason, and so has a rejected one. *)
Resolved == promise = "resolved" => container = "ok" /\ log = "closed"

Rejected ==
    promise = "rejected" =>
        \/ container = "failed" \/ log = "error" \/ timer = "fired"
        \/ watcher = "failed" \/ watcher = "none"

(* A broken log has rejected the promise: a later exit cannot resolve it. *)
BrokenLog == log = "error" => promise = "rejected"

(* Success comes from a resolved promise only. *)
FromPromise ==
    /\ stage # "returned" => result = "none"
    /\ status = "success" \/ result = "success" => promise = "resolved"

IInv ==
    TypeOK /\ NothingYet /\ SeenIsTrue /\ Resolved /\ Rejected /\ BrokenLog
    /\ FromPromise

(* The initial state satisfies the invariant. *)
LEMMA InitIInv == Init => IInv
BY AttemptsAssumption DEF Init, IInv, TypeOK, NothingYet, SeenIsTrue, Resolved,
    Rejected, BrokenLog, FromPromise, Exits, Result

(* The pod: a running container has not been seen to exit. *)
LEMMA PodStep ==
    ASSUME IInv,
           \/ StartContainer
           \/ \E exit \in Exits,
                 written \in {"none", "success", "failure", "unreadable"} :
                 ExitContainer(exit, written)
    PROVE  IInv'
BY DEF StartContainer, ExitContainer, IInv, TypeOK, NothingYet, SeenIsTrue,
    Resolved, Rejected, BrokenLog, FromPromise, Exits, Result, request, outcome

(* containerStarted and the set-up of the watch. *)
LEMMA BeginStep ==
    ASSUME IInv, PollAgain \/ BeginWatch \/ BeginWithoutClient
    PROVE  IInv'
<1> USE AttemptsAssumption DEF IInv, TypeOK, NothingYet, SeenIsTrue, Resolved,
        Rejected, BrokenLog, FromPromise, Exits, Result, request, outcome
<1>1. CASE PollAgain
  <2>1. polls' \in 0..Attempts
    BY <1>1 DEF PollAgain, IsLastPoll, Return
  <2>2. CASE IsLastPoll(polls')
    BY <1>1, <2>1, <2>2 DEF PollAgain, Return
  <2>3. CASE ~IsLastPoll(polls')
    <3>1. polls' \in Nat /\ polls' < Attempts
      BY <1>1, <2>1, <2>3 DEF PollAgain, IsLastPoll
    <3> QED  BY <1>1, <2>1, <2>3, <3>1 DEF PollAgain
  <2> QED  BY <2>2, <2>3
<1>2. CASE BeginWatch
  BY <1>2 DEF BeginWatch, TimerOfWatch
<1>3. CASE BeginWithoutClient
  BY <1>3 DEF BeginWithoutClient, TimerOfWatch
<1> QED  BY <1>1, <1>2, <1>3

(* The four callbacks that race to settle the promise. *)
LEMMA SettleStep ==
    ASSUME IInv, WatchPod \/ CloseLog \/ BreakLog \/ TimeOut
    PROVE  IInv'
<1> USE DEF IInv, TypeOK, NothingYet, SeenIsTrue, Resolved, Rejected, BrokenLog,
        FromPromise, Exits, Result, request, outcome, ReleaseTimer, ReleaseLog,
        ReleaseWatcher, Released, Settle
<1>1. CASE OpenWatch  BY <1>1 DEF OpenWatch
<1>2. CASE FailToOpenWatch  BY <1>2 DEF FailToOpenWatch
<1>3. CASE SeeExit
  <2>1. CASE LogDone
    <3>1. log' = log /\ promise = "pending" => log = "closed"
      BY <1>3, <2>1 DEF SeeExit, LogDone
    <3>2. TypeOK' /\ NothingYet' /\ SeenIsTrue' /\ FromPromise'
      BY <1>3, <2>1 DEF SeeExit, SettleAs
    <3>3. Resolved' /\ BrokenLog'
      BY <1>3, <2>1, <3>1 DEF SeeExit, SettleAs, LogDone
    <3>4. Rejected'
      BY <1>3, <2>1, <3>1 DEF SeeExit, SettleAs
    <3> QED  BY <3>2, <3>3, <3>4
  <2>2. CASE ~LogDone  BY <1>3, <2>2 DEF SeeExit
  <2> QED  BY <2>1, <2>2
<1>4. CASE BreakWatch  BY <1>4 DEF BreakWatch
<1>5. CASE EndWatch  BY <1>5 DEF EndWatch
<1>6. CASE CloseLog
  <2>1. CASE HasSeenExit  BY <1>6, <2>1 DEF CloseLog, HasSeenExit, SettleAs
  <2>2. CASE ~HasSeenExit  BY <1>6, <2>2 DEF CloseLog
  <2> QED  BY <2>1, <2>2
<1>7. CASE BreakLog  BY <1>7 DEF BreakLog
<1>8. CASE TimeOut  BY <1>8 DEF TimeOut
<1> QED  BY <1>1, <1>2, <1>3, <1>4, <1>5, <1>6, <1>7, <1>8 DEF WatchPod

(* Reading the result and caching the output. *)
LEMMA ReportStep ==
    ASSUME IInv,
           ReadOutput \/ \E how \in {"none", "put", "failed"} : PutCache(how)
    PROVE  IInv'
<1> USE DEF IInv, TypeOK, NothingYet, SeenIsTrue, Resolved, Rejected, BrokenLog,
        FromPromise, Exits, Result, request, outcome
<1>1. CASE ReadOutput  BY <1>1 DEF ReadOutput
<1>2. CASE \E how \in {"none", "put", "failed"} : PutCache(how)
  <2>1. PICK how \in {"none", "put", "failed"} : PutCache(how)
    BY <1>2
  <2> QED  BY <2>1 DEF PutCache, HasResult, Return
<1> QED  BY <1>1, <1>2

(* Every step, and every stutter, preserves the invariant. *)
LEMMA StepIInv == IInv /\ [Next]_vars => IInv'
<1> SUFFICES ASSUME IInv, [Next]_vars PROVE IInv'
  OBVIOUS
<1>1. CASE UNCHANGED vars
  BY <1>1 DEF vars, request, outcome, IInv, TypeOK, NothingYet, SeenIsTrue,
      Resolved, Rejected, BrokenLog, FromPromise, Exits, Result
<1>2. CASE Next
  BY <1>2, PodStep, BeginStep, SettleStep, ReportStep DEF Next, Execute
<1> QED  BY <1>1, <1>2

(* The invariant holds in every reachable state. *)
LEMMA Invariance == Spec => []IInv
BY InitIInv, StepIInv, PTL DEF Spec

(* Every reachable state is well typed, and the executor never polls more  *)
(* often than it has attempts.                                             *)
THEOREM TypeCorrect == Spec => []TypeOK
<1>1. IInv => TypeOK  BY DEF IInv
<1> QED  BY <1>1, Invariance, PTL

(* No interleaving of the log stream, the watch and the timer lets a goal  *)
(* succeed whose container failed or whose log was not copied to the end.  *)
THEOREM SuccessIsRealHolds == Spec => []SuccessIsReal
<1>1. IInv => SuccessIsReal
  BY DEF IInv, Resolved, FromPromise, SuccessIsReal
<1> QED  BY <1>1, Invariance, PTL

(* A container that succeeded is reported as failed only for a cause other *)
(* than its exit.                                                          *)
THEOREM FailureHasCauseHolds == Spec => []FailureHasCause
<1>1. IInv => FailureHasCause
  BY DEF IInv, Rejected, FailureHasCause
<1> QED  BY <1>1, Invariance, PTL

===============================================================================
