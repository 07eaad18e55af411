----------------------------- MODULE MCSyncRepo -----------------------------
(* Two resources, a and b, and three files; the first has the spec of a.   *)
EXTENDS SyncRepo, TLC

MCPathOrder == <<"p1", "p2", "p3">>

MCFirstTree == [f \in Files |-> IF f = "p1" THEN {[obj |-> "a", ver |-> 1]} ELSE {}]

(* Add b to the file of a; have a ignored; move the file of a and add b,   *)
(* with the message of a commit of this SDM.                               *)
MCEdits == {
    [own |-> FALSE, files |-> "p1" :> {[obj |-> "a", ver |-> 1], [obj |-> "b", ver |-> 1]}],
    [own |-> FALSE, files |-> "p1" :> {[obj |-> "a", ver |-> 3]}],
    [own |-> TRUE, files |-> "p1" :> {} @@ "p2" :> {[obj |-> "a", ver |-> 1]}
                               @@ "p3" :> {[obj |-> "b", ver |-> 1]}]}

MCRequests == {
    [kind |-> "upsert", specs |-> {[obj |-> "a", ver |-> 2], [obj |-> "b", ver |-> 2]}],
    [kind |-> "delete", specs |-> {[obj |-> "a", ver |-> 1]}]}
=============================================================================
