---------------------------- MODULE DependencyOrder ----------------------------
(***************************************************************************)
(* What goal delivery promises about a goal set whatever handlers race: a  *)
(* goal is opened (requested, or offered to a user to start) only when     *)
(* every one of its preconditions has succeeded, and it succeeds only      *)
(* after it was opened.  Opening and success are never taken back.         *)
(***************************************************************************)
CONSTANTS Goals, Pre

VARIABLES opened, succeeded

vars == <<opened, succeeded>>

Init ==
    /\ opened = {g \in Goals : Pre[g] = {}}
    /\ succeeded = {}

Open(g) ==
    /\ g \notin opened
    /\ Pre[g] \subseteq succeeded
    /\ opened' = opened \cup {g}
    /\ UNCHANGED succeeded

Succeed(g) ==
    /\ g \in opened
    /\ succeeded' = succeeded \cup {g}
    /\ UNCHANGED opened

Next == \E g \in Goals : Open(g) \/ Succeed(g)

Spec == Init /\ [][Next]_vars

===============================================================================
