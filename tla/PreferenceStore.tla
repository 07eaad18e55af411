--------------------------- MODULE PreferenceStore ---------------------------
(***************************************************************************)
(* What every preference store promises (internal/preferences/             *)
(* AbstractPreferenceStore.ts): calls take effect one at a time, at some   *)
(* moment between call and answer; whether an entry has expired is decided *)
(* when the answer is given; a call may fail, after its effect, too.       *)
(* InMemoryPreferenceStore is this.  FilePreferences implements it, except *)
(* that whoever finds no store creates one, over what others have put by   *)
(* then; nobody else does.                                                 *)
(***************************************************************************)
EXTENDS Integers

CONSTANTS Keys, Values, Ttls, MaxTime, Calls

VARIABLES
    prefs,    \* key -> [value, expires], or Broken or Absent
    answer,   \* Calls -> what became of the call
    creating, \* somebody who found no store has not created it yet
    clock

storeVars == <<prefs, answer, creating, clock>>

None == [value |-> 0, expires |-> 0]
NotFetched == [value |-> 0 - 1, expires |-> 0]
Saved == [value |-> 0 - 2, expires |-> 0]
Broken == <<>>
Absent == [k \in Keys |-> NotFetched]
Empty == [k \in Keys |-> None]
Pending == 0 - 1
Failed == 0 - 2
Default == 0

Ops == [op : {"get", "delete"}, key : Keys] \cup [op : {"put"}, key : Keys, value : Values, ttl : Ttls]

(* An entry is there for ever or until it expires.                         *)
Lookup(entry, now) ==
    IF entry = None \/ (entry.expires # 0 /\ entry.expires < now) THEN Default ELSE entry.value

Entry(request, now) ==
    IF request.op = "delete" THEN None
    ELSE [value |-> request.value, expires |-> IF request.ttl = 0 THEN 0 ELSE now + request.ttl]

Init ==
    /\ prefs \in {Empty, Absent}
    /\ answer \in [Calls -> [request : Ops, entry : {NotFetched}, value : {Pending}]]
    /\ creating = FALSE /\ clock = 1

Answer(c, value) == answer' = [answer EXCEPT ![c].value = value]

Fetch(c) ==
    /\ answer[c].value = Pending /\ answer[c].request.op = "get"
    /\ answer[c].entry = NotFetched /\ prefs \notin {Broken, Absent}
    /\ answer' = [answer EXCEPT ![c].entry = prefs[answer[c].request.key]]
    /\ UNCHANGED <<prefs, creating, clock>>

Get(c) ==
    /\ answer[c].value = Pending /\ answer[c].entry \notin {NotFetched, Saved}
    /\ Answer(c, Lookup(answer[c].entry, clock))
    /\ UNCHANGED <<prefs, creating, clock>>

(* Put and delete: the effect, then the answer.                            *)
Save(c) ==
    LET request == answer[c].request IN
    /\ answer[c].value = Pending /\ request.op # "get"
    /\ answer[c].entry = NotFetched /\ prefs \notin {Broken, Absent}
    /\ prefs' = [prefs EXCEPT ![request.key] = Entry(request, clock)]
    /\ answer' = [answer EXCEPT ![c].entry = Saved]
    /\ creating' \in {FALSE, creating}
    /\ UNCHANGED clock

Confirm(c) ==
    /\ answer[c].value = Pending /\ answer[c].entry = Saved
    /\ Answer(c, Default)
    /\ UNCHANGED <<prefs, creating, clock>>

(* The medium is lost, and every call fails until it is created; or who    *)
(* creates it does so.                                                     *)
Disturb ==
    /\ prefs' \in {prefs, Broken} \cup (IF creating THEN {Empty} ELSE {})
    /\ creating' \in {FALSE, creating}
    /\ UNCHANGED clock

Fail(c) == answer[c].value = Pending /\ Answer(c, Failed) /\ Disturb

Lose == Disturb /\ UNCHANGED answer

FindNoStore == prefs = Absent /\ creating' = TRUE /\ UNCHANGED <<prefs, answer, clock>>

Tick == clock < MaxTime /\ clock' = clock + 1 /\ UNCHANGED <<prefs, answer, creating>>

Next ==
    \/ \E c \in Calls : Fetch(c) \/ Get(c) \/ Save(c) \/ Confirm(c) \/ Fail(c)
    \/ Lose \/ FindNoStore \/ Tick

Spec == Init /\ [][Next]_storeVars
=============================================================================
