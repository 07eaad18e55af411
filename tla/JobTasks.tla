------------------------------ MODULE JobTasks ------------------------------
(***************************************************************************)
(* Tasks of a job (pack/job/executeTask.ts, helpers.ts): the event of a    *)
(* created task is delivered to an SDM, possibly twice, which invokes the  *)
(* command and stores the task's state.                                    *)
(***************************************************************************)
EXTENDS Integers

CONSTANTS
    Deliveries,  \* handlers of the task's event
    MaxFaults    \* bound: mutations that fail, and handlers that die

VARIABLES
    kind,      \* "parsable", "unparsable", or of a command "unknown" here
    state,     \* the state stored for the task
    handler,   \* Deliveries -> [pc, writes]
    outcomes,  \* history: how the invocations ended
    lost,      \* history: a handler died or a mutation failed
    faults

taskVars == <<kind, state, handler, outcomes, lost, faults>>

Outcomes == {"success", "nothing", "code", "throws"}
Set(d, pc, writes) == handler' = [handler EXCEPT ![d] = [pc |-> pc, writes |-> writes]]

Init ==
    /\ kind \in {"parsable", "unparsable", "unknown"}
    /\ state = "created"
    /\ handler = [d \in Deliveries |-> [pc |-> "sent", writes |-> "none"]]
    /\ outcomes = {} /\ lost = FALSE /\ faults = 0

Fault == faults < MaxFaults /\ faults' = faults + 1

Rejected(d) == Set(d, "storing", "failed")

(* The subscription matches created tasks.  Data that do not parse fail    *)
(* the task, and the handler with it; so does a command nobody has.        *)
Receive(d) ==
    /\ handler[d].pc = "sent" /\ state = "created"
    /\ IF kind = "parsable" THEN Set(d, "invoking", "none") ELSE Rejected(d)
    /\ UNCHANGED <<kind, state, outcomes, lost, faults>>

SuccessUnlessThrown(o) == IF o = "throws" THEN "failed" ELSE "success"   \* variant

TaskState(o) == IF o \in {"success", "nothing"} THEN "success" ELSE "failed"

InvokeCommand(d) ==
    /\ handler[d].pc = "invoking"
    /\ \E o \in Outcomes :
         /\ outcomes' = outcomes \cup {o}
         /\ Set(d, IF o = "throws" THEN "storing" ELSE "trying", TaskState(o))
    /\ UNCHANGED <<kind, state, lost, faults>>

(* The mutation for the command's result is inside the try: when it fails, *)
(* the task fails.                                                         *)
UpdateJobTaskState(d) ==
    LET new == handler[d].writes IN
    /\ handler[d].pc \in {"trying", "storing"}
    /\ \/ /\ state' = new
          /\ Set(d, "ended", "none") /\ UNCHANGED <<lost, faults>>
       \/ /\ Fault /\ lost' = TRUE
          /\ state' \in {state, new}
          /\ IF handler[d].pc = "trying" THEN Set(d, "storing", "failed")
                                         ELSE Set(d, "ended", "none")
    /\ UNCHANGED <<kind, outcomes>>

Die(d) ==
    /\ handler[d].pc \notin {"sent", "ended"} /\ Fault
    /\ Set(d, "ended", "none")
    /\ lost' = TRUE
    /\ UNCHANGED <<kind, state, outcomes>>

Handle(d) == Receive(d) \/ InvokeCommand(d) \/ UpdateJobTaskState(d)

Next == \E d \in Deliveries : Handle(d) \/ Die(d)

Spec == Init /\ [][Next]_taskVars

(* Events are delivered, commands end.                                     *)
FairSpec == Spec /\ \A d \in Deliveries : WF_taskVars(Handle(d))

---------------------------------------------------------------------------
TypeOK ==
    /\ state \in {"created", "success", "failed"}
    /\ \A d \in Deliveries :
         handler[d].pc \in {"sent", "invoking", "trying", "storing", "ended"}
    /\ outcomes \subseteq Outcomes /\ lost \in BOOLEAN /\ faults \in 0..MaxFaults

(* What the task is said to have come to is what one of its invocations    *)
(* came to: success only after a command that did not fail, failure without*)
(* a failing command only if there was none to invoke, or a mutation       *)
(* failed.                                                                 *)
StateHasCause ==
    /\ state = "success" => outcomes \cap {"success", "nothing"} # {}
    /\ state = "failed" =>
          kind # "parsable" \/ lost \/ outcomes \cap {"code", "throws"} # {}

(* A task does not stay created, unless its handler died or could not store*)
(* the state.                                                              *)
IsSettled == state # "created" \/ lost
TaskEnds == <>IsSettled
=============================================================================
