----------------------------- MODULE GoalSigning -----------------------------
(***************************************************************************)
(* Signed goals (internal/signing/goalSigning.ts): an SDM signs every goal *)
(* it stores and verifies the goals of the events it handles.  One goal is *)
(* followed that one SDM plans and another fulfills, e.g. in a Kubernetes  *)
(* cluster, with the fields each subscription delivers of it.              *)
(***************************************************************************)
EXTENDS Integers, FiniteSets

CONSTANTS
    Planner, Fulfiller,   \* two SDMs
    Configs,              \* what may be configured for one of them, see Config
    MaxStores             \* bound: how often the goal is stored, rejections left aside

VARIABLES
    config,      \* SDM -> Config
    goal,        \* the goal as stored last
    events,      \* [handler, goal]: to be handled
    rejected,    \* history: [by, storedBy, handler] of the events rejected
    stores,      \* number of goals stored
    rejections   \* number of goals stored as rejected

signVars == <<config, goal, events, rejected, stores, rejections>>

Sdms == {Planner, Fulfiller}
Nobody == "nobody"

(* signs: there is a signing key; others: the other SDM's key is among the *)
(* verification keys; unusable: and before it one of an algorithm that is  *)
(* not configured.                                                         *)
Config == [enabled : BOOLEAN, scope : {"all", "fulfillment"},
           signs : BOOLEAN, others : BOOLEAN, unusable : BOOLEAN]

(* What is signed: the fields of the goal, with its descriptions and       *)
(* parameters, if it has any.                                              *)
Normalized(g) == <<g.state, g.rejected, g.details>>

(* The algorithm: a signature is of one key and of one content.            *)
SignatureOf(s, g) == [by |-> s, of |-> Normalized(g)]

Unsigned == [by |-> Nobody, of |-> <<"", FALSE, FALSE>>]

Signs(s) == config[s].enabled /\ config[s].signs

(* operationStarting signs; a goal that is not keeps the signature it had. *)
Signed(s, g, old) == [g EXCEPT !.signature = IF Signs(s) THEN SignatureOf(s, g) ELSE old]

(* Handlers and the SDM they run in.                                       *)
Handlers(state) ==
    CASE state = "requested" -> {"FulfillGoalOnRequested"}
      [] state = "approved" -> {"VoteOnGoalApprovalRequest"}
      [] state = "success" -> {"RequestDownstreamGoals", "RespondOnGoalCompletion"}
      [] state = "failure" -> {"SkipDownstreamGoals", "RespondOnGoalCompletion"}
      [] state = "canceled" -> {"SkipDownstreamGoals", "RespondOnGoalCompletion", "CancelGoalOnCanceled"}
      [] OTHER -> {"RespondOnGoalCompletion"}

SdmOf(handler) ==
    IF handler \in {"FulfillGoalOnRequested", "CancelGoalOnCanceled"} THEN Fulfiller ELSE Planner

(* What a subscription delivers: SdmGoalFields, SdmGoalWithGoalsFields,    *)
(* which has neither descriptions nor parameters, or a few fields.         *)
Delivered(handler, g) ==
    CASE handler \in {"FulfillGoalOnRequested", "VoteOnGoalApprovalRequest"} -> g
      [] handler = "CancelGoalOnCanceled" -> [g EXCEPT !.signature = Unsigned, !.details = FALSE]
      [] OTHER -> [g EXCEPT !.details = FALSE]

(* The goal is stored and its handlers are told; that storedBy did it is   *)
(* only known to the model.                                                *)
Store(s, state, isRejection, pending) ==
    LET new == Signed(s, [goal EXCEPT !.state = state, !.rejected = isRejection, !.storedBy = s],
                      goal.signature)
    IN  /\ goal' = new
        /\ events' = pending \cup
              {[handler |-> h, goal |-> Delivered(h, new)] : h \in Handlers(state)}

(* The planner stores the goal as requested.                               *)
Init ==
    /\ config \in [Sdms -> Configs]
    /\ \E details \in BOOLEAN :
         LET new == [state |-> "requested", rejected |-> FALSE, details |-> details,
                     storedBy |-> Planner, signature |-> Unsigned]
         IN  goal = Signed(Planner, new, Unsigned)
    /\ events = {[handler |-> "FulfillGoalOnRequested", goal |-> goal]}
    /\ rejected = {} /\ stores = 1 /\ rejections = 0

InScope(s, handler) ==
    config[s].scope = "all" \/ handler = "FulfillGoalOnRequested"

NeverRejected(g) == FALSE              \* variant: a rejected goal is verified like any other

IsGoalRejected(g) == g.state = "failure" /\ g.rejected

HasToVerify(e) ==
    LET s == SdmOf(e.handler)
    IN  config[s].enabled /\ InScope(s, e.handler) /\ ~IsGoalRejected(e.goal)

(* The own key verifies, too.                                              *)
VerificationKeys(s) ==
    (IF config[s].signs THEN {s} ELSE {}) \cup (IF config[s].others THEN Sdms \ {s} ELSE {})

(* findAlgorithm throws for the unusable key, which comes first.           *)
CannotVerify(e) ==
    HasToVerify(e) /\ config[SdmOf(e.handler)].unusable /\ e.goal.signature.by # Nobody

Verified(e) ==
    HasToVerify(e) =>
        \E s \in VerificationKeys(SdmOf(e.handler)) : e.goal.signature = SignatureOf(s, e.goal)

Throw(e) ==
    /\ e \in events /\ CannotVerify(e)
    /\ events' = events \ {e}
    /\ UNCHANGED <<config, goal, rejected, stores, rejections>>

RejectGoal(e) ==
    LET s == SdmOf(e.handler) IN
    /\ e \in events /\ ~CannotVerify(e) /\ ~Verified(e)
    /\ Store(s, "failure", TRUE, events \ {e})
    /\ rejected' = rejected \cup {[by |-> s, storedBy |-> e.goal.storedBy, handler |-> e.handler]}
    /\ rejections' = rejections + 1
    /\ UNCHANGED <<config, stores>>

(* The handler does its work: it executes the goal, or takes a vote; the   *)
(* others leave this goal alone.                                           *)
HandleGoal(e) ==
    LET s == SdmOf(e.handler) IN
    /\ e \in events /\ ~CannotVerify(e) /\ Verified(e)
    /\ IF e.handler \in {"FulfillGoalOnRequested", "VoteOnGoalApprovalRequest"} /\ stores < MaxStores
       THEN /\ Store(s, IF s = Fulfiller THEN "in_process" ELSE "success", FALSE, events \ {e})
            /\ stores' = stores + 1
       ELSE events' = events \ {e} /\ UNCHANGED <<goal, stores>>
    /\ UNCHANGED <<config, rejected, rejections>>

(* The fulfiller ends the execution, whatever became of the goal meanwhile.*)
ExecutionEnds ==
    /\ goal.state = "in_process" /\ stores < MaxStores /\ stores' = stores + 1
    /\ \E state \in {"success", "failure", "waiting_for_approval"} : Store(Fulfiller, state, FALSE, events)
    /\ UNCHANGED <<config, rejected, rejections>>

(* A user approves or cancels, through commands of the planner.            *)
UpdateGoal ==
    /\ stores < MaxStores /\ stores' = stores + 1
    /\ \/ goal.state = "waiting_for_approval" /\ Store(Planner, "approved", FALSE, events)
       \/ goal.state = "in_process" /\ Store(Planner, "canceled", FALSE, events)
    /\ UNCHANGED <<config, rejected, rejections>>

Handle == \E e \in events : Throw(e) \/ RejectGoal(e) \/ HandleGoal(e)

Next == Handle \/ ExecutionEnds \/ UpdateGoal

Spec == Init /\ [][Next]_signVars

---------------------------------------------------------------------------
FullEvents == {"FulfillGoalOnRequested", "VoteOnGoalApprovalRequest"}

Trusts(s, t) == Signs(t) /\ (s = t \/ config[s].others)

(* A goal is rejected by an SDM that does not trust the one that stored it:*)
(* that one does not sign, or its key is not among the verification keys.  *)
(* Otherwise the subscription did not deliver all that was signed.         *)
RejectedForCause ==
    \A r \in rejected : ~Trusts(r.by, r.storedBy) \/ r.handler \notin FullEvents

(* Storing a rejection is not answered with another one, however the SDMs  *)
(* are configured: no more rejections than events of goals that were       *)
(* stored otherwise.                                                       *)
RejectionsDoNotCascade == rejections <= 3 * stores

(* "should correctly sign and verify goal": an SDM accepts what one that it*)
(* trusts has stored.                                                      *)
TrustedGoalsAreAccepted ==
    \A r \in rejected : ~Trusts(r.by, r.storedBy)
=============================================================================
