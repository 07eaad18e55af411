--------------------------- MODULE FilePreferences ---------------------------
(***************************************************************************)
(* FilePreferenceStore: calls of several processes on one JSON file.  Each *)
(* process opens the store first, and creates the file when it finds none, *)
(* without the lock.  For a call the file is locked, read and, for a put or*)
(* a delete, written as a whole.                                           *)
(***************************************************************************)
EXTENDS Integers

CONSTANTS
    Keys, Values, Ttls, MaxTime,
    Calls,       \* calls, each in a process of its own
    MaxFaults    \* bound: processes that die and writes that fail

VARIABLES
    file,    \* key -> entry, or Missing, or Truncated: it cannot be read
    lock,    \* the call that holds the lock file, or Free
    call,    \* Calls -> [pc, request, copy, entry, value]
    made,    \* a process has created the file
    clock,
    faults

fileVars == <<file, lock, call, made, clock, faults>>

Truncated == <<>>
Free == 0
Pending == 0 - 1
Failed == 0 - 2

(* While a process that holds the lock changes its copy and writes it, the *)
(* copy is what the store is about to hold, whatever happens to the file.  *)
Writing == {c \in Calls : call[c].pc \in {"operate", "writing"}}
Creating == {c \in Calls : call[c].pc \in {"create", "fill"}}
Copy == call[CHOOSE c \in Writing : TRUE].copy
Content == IF Writing = {} THEN file ELSE Copy

(* A process is creating the file, or has, but the copy hides it so far.   *)
BeingCreated ==
    \/ Creating # {}
    \/ Writing # {} /\ file \notin {Truncated, Copy}

Store == INSTANCE PreferenceStore WITH
    prefs <- Content,
    answer <- [c \in Calls |-> [request |-> call[c].request, entry |-> call[c].entry,
                                value |-> call[c].value]],
    creating <- BeingCreated

Missing == Store!Absent
Empty == Store!Empty

Fault == faults < MaxFaults /\ faults' = faults + 1

Init ==
    /\ file \in {Missing, Empty}
    /\ lock = Free
    /\ call \in [Calls -> [pc : {"open"}, request : Store!Ops, copy : {Empty},
                           entry : {Store!NotFetched}, value : {Pending}]]
    /\ made = FALSE
    /\ clock = 1 /\ faults = 0

Goto(c, pc) == call' = [call EXCEPT ![c].pc = pc]

End(c, value) == call' = [call EXCEPT ![c].pc = "ended", ![c].value = value]

(* The constructor's init: a file that is there is fine, readable or not.  *)
Open(c) ==
    /\ call[c].pc = "open"
    /\ Goto(c, IF file = Missing THEN "create" ELSE "lock")
    /\ UNCHANGED <<file, lock, made, clock, faults>>

(* writeJsonSync truncates what is there by now, and fills it.             *)
Truncate(c) ==
    /\ call[c].pc = "create"
    /\ file' = Truncated /\ made' = TRUE
    /\ Goto(c, "fill")
    /\ UNCHANGED <<lock, clock, faults>>

(* Over what another process has written since, or what is left of it, it  *)
(* leaves no JSON.                                                         *)
Fill(c) ==
    /\ call[c].pc = "fill"
    /\ \/ file \in {Truncated, Empty} /\ file' = Empty
       \/ file # Empty /\ file' = Truncated
    /\ Goto(c, "lock")
    /\ UNCHANGED <<lock, made, clock, faults>>

LockAnyway(c) == TRUE                    \* variant: the lock is not waited for

CanLock(c) == lock = Free

Lock(c) ==
    /\ call[c].pc = "lock" /\ CanLock(c)
    /\ lock' = c
    /\ Goto(c, "read")
    /\ UNCHANGED <<file, made, clock, faults>>

RetriesRunOut(c) == lock # Free

(* Five retries, then the call gives up.                                   *)
GiveUpLocking(c) ==
    /\ call[c].pc = "lock" /\ RetriesRunOut(c)
    /\ End(c, Failed)
    /\ UNCHANGED <<file, lock, made, clock, faults>>

(* A get has its entry with what is read.                                  *)
Read(c) ==
    LET request == call[c].request
        gets == request.op = "get"
    IN
    /\ call[c].pc = "read" /\ file # Truncated
    /\ call' = [call EXCEPT ![c].pc = IF gets THEN "unlock" ELSE "operate",
                            ![c].copy = file,
                            ![c].entry = IF gets THEN file[request.key] ELSE @]
    /\ UNCHANGED <<file, lock, made, clock, faults>>

(* The file is read outside of the try: the lock stays.                    *)
FailToRead(c) ==
    /\ call[c].pc = "read" /\ file = Truncated
    /\ End(c, Failed)
    /\ UNCHANGED <<file, lock, made, clock, faults>>

(* writeJson truncates the file before it fills it.                        *)
StartToWrite(c) ==
    LET request == call[c].request IN
    /\ call[c].pc = "operate"
    /\ file' = Truncated
    /\ call' = [call EXCEPT ![c].pc = "writing", ![c].entry = Store!Saved,
                            ![c].copy[request.key] = Store!Entry(request, clock)]
    /\ UNCHANGED <<lock, made, clock, faults>>

(* A write that fails is logged, and the call ends as if it had not.       *)
Write(c) ==
    /\ call[c].pc = "writing"
    /\ \/ file' = call[c].copy /\ UNCHANGED faults
       \/ Fault /\ UNCHANGED file
    /\ Goto(c, "unlock")
    /\ UNCHANGED <<lock, made, clock>>

Unlock(c) ==
    /\ call[c].pc = "unlock"
    /\ lock' = Free
    /\ IF call[c].request.op = "get" THEN Goto(c, "answer") ELSE End(c, Store!Default)
    /\ UNCHANGED <<file, made, clock, faults>>

(* The lock file is not removed, and the call fails after its effect.      *)
FailToUnlock(c) ==
    /\ call[c].pc = "unlock" /\ Fault
    /\ call' = [call EXCEPT ![c].pc = "left", ![c].value = Failed]
    /\ UNCHANGED <<file, lock, made, clock>>

(* get looks at the time when it has the entry, and the lock no more.      *)
AnswerGet(c) ==
    /\ call[c].pc = "answer"
    /\ End(c, Store!Lookup(call[c].entry, clock))
    /\ UNCHANGED <<file, lock, made, clock, faults>>

HasEnded(c) == call[c].pc \in {"ended", "left", "dead"}

Die(c) ==
    /\ ~HasEnded(c) /\ Fault
    /\ call' = [call EXCEPT ![c].pc = "dead", ![c].value = Failed]
    /\ UNCHANGED <<file, lock, made, clock>>

(* Nobody refreshes the lock of a dead process, nor one that was to be     *)
(* removed: it becomes stale.                                              *)
LockGoesStale ==
    /\ lock # Free /\ call[lock].pc \in {"dead", "left"}
    /\ lock' = Free
    /\ UNCHANGED <<file, call, made, clock, faults>>

Tick == clock < MaxTime /\ clock' = clock + 1 /\ UNCHANGED <<file, lock, call, made, faults>>

Step(c) ==
    \/ Open(c) \/ Truncate(c) \/ Fill(c)
    \/ Lock(c) \/ GiveUpLocking(c) \/ Read(c) \/ FailToRead(c)
    \/ StartToWrite(c) \/ Write(c) \/ Unlock(c) \/ FailToUnlock(c) \/ AnswerGet(c)

Next == (\E c \in Calls : Step(c) \/ Die(c)) \/ LockGoesStale \/ Tick

Spec == Init /\ [][Next]_fileVars

FairSpec == Spec /\ \A c \in Calls : WF_fileVars(Step(c))

---------------------------------------------------------------------------
TypeOK ==
    /\ file \in {Truncated, Missing} \/ \A k \in Keys : file[k].value \in Values \cup {Store!Default}
    /\ lock \in Calls \cup {Free}
    /\ \A c \in Calls :
         /\ call[c].pc \in {"open", "create", "fill", "lock", "read", "operate", "writing",
                            "unlock", "answer", "ended", "left", "dead"}
         /\ call[c].value \in Values \cup {Store!Default, Pending, Failed}

(* The file store is a preference store: no call overwrites what another   *)
(* put meanwhile, although each writes the whole file.  Only a process that*)
(* found no file overwrites it, when it creates one.  The file may be      *)
(* broken by that, or by who dies or fails while it writes.                *)
ImplementsStore == Store!Spec

(* A call that has ended keeps the lock from the others only when it could *)
(* not read the file: for good, or while another process created it.       *)
LockLeaksOnlyOnBrokenFile ==
    lock # Free /\ call[lock].pc = "ended" => file = Truncated \/ made

(* Every call ends, or its process has died.                               *)
EveryCallEnds == \A c \in Calls : <>HasEnded(c)
=============================================================================
