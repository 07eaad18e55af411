------------------------------ MODULE GoalCache ------------------------------
(***************************************************************************)
(* The goal cache (goal/cache/goalCaching.ts, CompressingGoalCache.ts and  *)
(* the archive stores): after a goal its outputs are archived, before      *)
(* another they are restored, or listeners are told of the miss.           *)
(***************************************************************************)
EXTENDS Integers, Sequences, FiniteSets

CONSTANTS
    Entries,      \* the classifiers of the options, in order
    Globs,        \* those whose files are found by a glob pattern
    Puts,         \* goals that cache outputs, numbers from 1
    Restores,     \* goals that restore inputs
    MaxFaults     \* bound: commands, requests and copies that fail

VARIABLES
    method,     \* "tar", "zip": how archives are compressed
    store,      \* "gcs", "local": a directory on the device of the temporary files,
                \* "mounted": a directory on another device
    archive,    \* classifier -> the put whose archive is there, NoArchive, Partial
    excludes,   \* the process's default excludes of file globs are in place
    put,        \* Puts -> [pc, at, outputs]
    restore,    \* Restores -> [at, got, failed]: failed, the classifiers for which a
                \* command of the restore itself failed
    wrote,      \* history: classifier -> puts whose archive was there once
    removed,    \* history: classifiers that were removed
    faults

cacheVars == <<method, store, archive, excludes, put, restore, wrote, removed, faults>>

Classifiers == {Entries[i] : i \in DOMAIN Entries}
NoArchive == 0
Partial == 0 - 1
Missed == 0 - 2              \* the listeners for a cache miss were invoked
Pending == 0 - 3

Init ==
    /\ method \in {"tar", "zip"}
    /\ store \in {"gcs", "local", "mounted"}
    /\ archive = [c \in Classifiers |-> NoArchive]
    /\ excludes = TRUE
    /\ put = [p \in Puts |-> [pc |-> "gather", at |-> 1, outputs |-> {}]]
    /\ restore = [r \in Restores |-> [at |-> 1, failed |-> {},
                                   got |-> [c \in Classifiers |-> Pending]]]
    /\ wrote = [c \in Classifiers |-> {}] /\ removed = {} /\ faults = 0

Fault == faults < MaxFaults /\ faults' = faults + 1
Entry(x) == Entries[x.at]

(* The next entry; after the last one the outputs are in the goal's data.  *)
NextEntry(p, outputs) ==
    put' = [put EXCEPT ![p] = [at |-> @.at + 1, outputs |-> outputs,
                               pc |-> IF @.at = Len(Entries) THEN "done" ELSE "gather"]]

(* getFilePathsThroughPattern empties the default excludes; what it saved  *)
(* to restore them from is the same array.                                 *)
GatherFiles(p) ==
    /\ put[p].pc = "gather"
    /\ excludes' = (excludes /\ Entry(put[p]) \notin Globs)
    /\ \/ put' = [put EXCEPT ![p].pc = "compress"]
       \/ NextEntry(p, put[p].outputs)               \* no files match
    /\ UNCHANGED <<method, store, archive, restore, wrote, removed, faults>>

Compress(p) ==
    /\ put[p].pc = "compress"
    /\ \/ put' = [put EXCEPT ![p].pc = "store"] /\ UNCHANGED faults
       \/ Fault /\ NextEntry(p, put[p].outputs)
    /\ UNCHANGED <<method, store, archive, excludes, restore, wrote, removed>>

Stored(p, c) ==
    /\ archive' = [archive EXCEPT ![c] = p]
    /\ wrote' = [wrote EXCEPT ![c] = @ \cup {p}]
    /\ NextEntry(p, put[p].outputs \cup {c})

OutputsAfterFailure(p, c) == put[p].outputs

(* A mv to another device copies, and may break off; an upload replaces    *)
(* the object at once.                                                     *)
StoreArchive(p) ==
    LET c == Entry(put[p]) IN
    /\ put[p].pc = "store"
    /\ \/ store # "mounted" /\ Stored(p, c) /\ UNCHANGED faults
       \/ /\ store = "mounted" /\ put' = [put EXCEPT ![p].pc = "move"]
          /\ archive' = [archive EXCEPT ![c] = Partial] /\ UNCHANGED <<wrote, faults>>
       \/ store = "gcs" /\ Fault /\ NextEntry(p, OutputsAfterFailure(p, c)) /\ UNCHANGED <<archive, wrote>>
       \/ store # "gcs" /\ Fault /\ NextEntry(p, put[p].outputs \cup {c}) /\ UNCHANGED <<archive, wrote>>
    /\ UNCHANGED <<method, store, excludes, restore, removed>>

FinishMove(p) ==
    LET c == Entry(put[p]) IN
    /\ put[p].pc = "move"
    /\ \/ Stored(p, c) /\ UNCHANGED faults
       \/ Fault /\ NextEntry(p, put[p].outputs \cup {c}) /\ UNCHANGED <<archive, wrote>>
    /\ UNCHANGED <<method, store, excludes, restore, removed>>

Got(r, what, failing) ==
    LET c == Entry(restore[r]) IN
    restore' = [restore EXCEPT ![r] =
        [at |-> @.at + 1, got |-> [@.got EXCEPT ![c] = what],
         failed |-> IF failing THEN @.failed \cup {c} ELSE @.failed]]

SilentMiss == NoArchive                          \* variant: nobody is told

AfterMiss == Missed

(* What comes of half an archive, or of an unpacking that breaks off: the  *)
(* result of tar is not looked at, what reads a zip file throws.           *)
Unpacked == IF method = "tar" THEN Partial ELSE AfterMiss

(* An archive is copied, then unpacked.  Without a copy there is a miss;   *)
(* the copy may be of half an archive, or break off itself, which only the *)
(* request to the bucket reports.                                          *)
RetrieveArchive(r) ==
    LET found == archive[Entry(restore[r])] IN
    /\ restore[r].at <= Len(Entries)
    /\ \/ found = NoArchive /\ Got(r, AfterMiss, FALSE) /\ UNCHANGED faults
       \/ found = Partial /\ Got(r, Unpacked, FALSE) /\ UNCHANGED faults
       \/ found \in Puts /\ Got(r, found, FALSE) /\ UNCHANGED faults
       \/ /\ found # NoArchive /\ Fault
          /\ \E what \in {AfterMiss, Unpacked} : Got(r, what, TRUE)
    /\ UNCHANGED <<method, store, archive, excludes, put, wrote, removed>>

RemoveArchive(c) ==
    /\ archive[c] \notin {NoArchive, Partial}
    /\ archive' = [archive EXCEPT ![c] = NoArchive]
    /\ removed' = removed \cup {c}
    /\ UNCHANGED <<method, store, excludes, put, restore, wrote, faults>>

PutStep(p) == GatherFiles(p) \/ Compress(p) \/ StoreArchive(p) \/ FinishMove(p)

Next ==
    \/ \E p \in Puts : PutStep(p)
    \/ \E r \in Restores : RetrieveArchive(r)
    \/ \E c \in Classifiers : RemoveArchive(c)

Spec == Init /\ [][Next]_cacheVars

---------------------------------------------------------------------------
TypeOK ==
    /\ archive \in [Classifiers -> Puts \cup {NoArchive, Partial}]
    /\ \A p \in Puts :
         /\ put[p].pc \in {"gather", "compress", "store", "move", "done"}
         /\ put[p].outputs \subseteq Classifiers
    /\ \A r \in Restores :
         /\ restore[r].got \in [Classifiers -> Puts \cup {NoArchive, Partial, Missed, Pending}]
         /\ restore[r].failed \subseteq Classifiers
    /\ faults \in 0..MaxFaults

(* A restored goal has the whole archive of one put, or its listeners for  *)
(* cache misses were invoked to make up for it.  With tar, and only with   *)
(* it, part of an archive may pass for the whole: when the copy or the     *)
(* unpacking broke off, or when the archive was read on another device     *)
(* than that of the temporary files while a put moved it there.            *)
RestoredOrMissed ==
    \A r \in Restores : \A i \in 1..(restore[r].at - 1) :
        LET c == Entries[i] IN
        \/ restore[r].got[c] = Missed
        \/ restore[r].got[c] \in wrote[c]
        \/ /\ restore[r].got[c] = Partial /\ method = "tar"
           /\ store = "mounted" \/ c \in restore[r].failed

(* A miss has a cause: nothing was stored before, it was removed, it is a  *)
(* half, or an operation failed.                                           *)
MissesForCause ==
    \A r \in Restores : \A c \in Classifiers :
        restore[r].got[c] = Pending /\ restore'[r].got[c] = Missed =>
            wrote[c] = {} \/ c \in removed \/ archive[c] = Partial \/ faults' > faults
MissHasCause == [][MissesForCause]_cacheVars

(* The goal's data name an archive only after it was stored; a directory's *)
(* file is named even when the mv has failed.                              *)
OutputsAreStored ==
    \A p \in Puts : \A c \in put[p].outputs : p \in wrote[c] \/ (store # "gcs" /\ faults > 0)

(* Searching files for the cache leaves the excludes of the process alone. *)
ExcludesRestored == excludes
=============================================================================
