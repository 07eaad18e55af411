---------------------------- MODULE Machine_proofs ----------------------------
(***************************************************************************)
(* What Machine is proved to do: its file of preferences implements a      *)
(* store of single entries, its commands run for one repository, and the   *)
(* jobs it makes of container goals are valid and have their secrets, and  *)
(* its rules from YAML files keep the order the files ask for.             *)
(***************************************************************************)
EXTENDS Machine, Sequences, FiniteSetTheorems, SequenceTheorems,
    WellFoundedInduction, TLAPS

---------------------------------------------------------------------------
(* The file of preferences.                                                *)

Entries == [value : Values \cup {0}, expires : Nat]

(* What is shown of the entry of a call: that of the file, or how far it is*)
Seen == Entries \cup {FP!Store!NotFetched, FP!Store!Saved}

Steps == {"open", "create", "fill", "lock", "read", "operate", "writing", "unlock", "answer",
          "ended", "left", "dead"}

CallType ==
    [pc : Steps, request : FP!Store!Ops, copy : [Keys -> Entries], entry : Seen, value : Int]

FileTyped ==
    /\ file \in {FP!Truncated, FP!Missing} \cup [Keys -> Entries]
    /\ lock \in Users \cup {FP!Free}
    /\ call \in [Users -> CallType]
    /\ \A u \in Users : call[u].value \in Values \cup {0, FP!Pending, FP!Failed}
    /\ clock \in Nat

Holding == {"read", "operate", "writing", "unlock"}
Changing == {"operate", "writing"}
Opening == {"open", "create", "fill", "lock"}
Over == {"ended", "left", "dead"}

HoldersLock == \A u \in Users : call[u].pc \in Holding => lock = u

(* How far a call is at each of its steps, and what the file may be then.  *)
CallAt(u) ==
    /\ call[u].pc \in Opening \cup {"read", "operate"} => call[u].entry = FP!Store!NotFetched
    /\ call[u].pc \in Changing => call[u].request.op # "get"
    /\ call[u].pc = "operate" => file \in {call[u].copy, FP!Truncated, FP!Empty}
    /\ call[u].pc = "writing" =>
         call[u].entry = FP!Store!Saved /\ file \in {FP!Truncated, FP!Empty}
    /\ call[u].pc = "unlock" /\ call[u].request.op # "get" => call[u].entry = FP!Store!Saved
    /\ call[u].pc = "unlock" /\ call[u].request.op = "get" => call[u].entry \in Entries
    /\ call[u].pc = "answer" => call[u].entry \in Entries
    /\ (call[u].pc \in Over) <=> (call[u].value # FP!Pending)
    /\ call[u].pc = "fill" => made
    /\ file = FP!Missing => call[u].pc \in {"open", "create", "dead"}

LockInv ==
    lock # FP!Free =>
        /\ call[lock].pc \in Holding \cup Over
        /\ call[lock].pc = "ended" => file = FP!Truncated \/ made

FileInv ==
    /\ FileTyped
    /\ HoldersLock
    /\ \A u \in Users : CallAt(u)
    /\ LockInv

Shown(request, entry, value) == [request |-> request, entry |-> entry, value |-> value]
Told == [u \in Users |-> Shown(call[u].request, call[u].entry, call[u].value)]

LEMMA FileConstants ==
    /\ FP!Truncated = <<>> /\ FP!Free = 0 /\ FP!Pending = -1 /\ FP!Failed = -2
    /\ FP!Store!Broken = <<>> /\ FP!Store!Pending = -1
    /\ FP!Store!Failed = -2 /\ FP!Store!Default = 0
    /\ FP!Missing = FP!Store!Absent /\ FP!Empty = FP!Store!Empty
    /\ FP!Store!None \in Entries
    /\ FP!Store!NotFetched \notin Entries /\ FP!Store!Saved \notin Entries
    /\ FP!Store!NotFetched # FP!Store!Saved
    /\ 0 \notin Users
<1>1. FP!Store!None = [value |-> 0, expires |-> 0] /\ FP!Store!None \in Entries
  BY DEF FP!Store!None, Entries
<1>2. FP!Store!NotFetched = [value |-> -1, expires |-> 0] /\ FP!Store!Saved = [value |-> -2, expires |-> 0]
  BY DEF FP!Store!NotFetched, FP!Store!Saved
<1>3. FP!Store!NotFetched \notin Entries /\ FP!Store!Saved \notin Entries
  <2>1. \A e \in Entries : e.value # -1 /\ e.value # -2
    BY MachineAssumption DEF Entries
  <2> QED
    BY <1>2, <2>1
<1>4. FP!Store!NotFetched # FP!Store!Saved
  <2>1. FP!Store!NotFetched.value # FP!Store!Saved.value
    BY <1>2
  <2> QED
    BY <2>1
<1> QED
  BY <1>1, <1>3, <1>4, MachineAssumption DEF FP!Truncated, FP!Free, FP!Pending, FP!Failed,
     FP!Store!Broken, FP!Store!Pending, FP!Store!Failed, FP!Store!Default, FP!Missing, FP!Empty

LEMMA FilesDiffer ==
    /\ FP!Empty \in [Keys -> Entries] /\ FP!Missing \notin [Keys -> Entries]
    /\ FP!Truncated \notin [Keys -> Entries] /\ FP!Truncated # FP!Missing
<1>1. PICK k \in Keys : TRUE
  BY MachineAssumption
<1>2. FP!Truncated = <<>> /\ DOMAIN <<>> = {}
  BY FileConstants
<1>3. /\ FP!Missing = [j \in Keys |-> FP!Store!NotFetched]
      /\ FP!Empty = [j \in Keys |-> FP!Store!None]
  BY DEF FP!Missing, FP!Empty, FP!Store!Absent, FP!Store!Empty
<1>4. FP!Missing[k] \notin Entries /\ DOMAIN FP!Missing = Keys
  BY <1>3, FileConstants
<1> QED
  BY <1>1, <1>2, <1>3, <1>4, FileConstants

LEMMA RequestType ==
    ASSUME NEW request \in FP!Store!Ops
    PROVE  /\ request.key \in Keys /\ request.op \in {"get", "delete", "put"}
           /\ request.op = "put" => request.value \in Values /\ request.ttl \in Ttls
BY DEF FP!Store!Ops

LEMMA EntryType ==
    ASSUME NEW request \in FP!Store!Ops, request.op # "get", NEW now \in Nat
    PROVE  FP!Store!Entry(request, now) \in Entries
<1>1. CASE request.op = "delete"
  BY <1>1, FileConstants DEF FP!Store!Entry
<1>2. CASE request.op = "put"
  <2> DEFINE end == IF request.ttl = 0 THEN 0 ELSE now + request.ttl
  <2>1. request.value \in Values /\ request.ttl \in Nat
    BY <1>2, RequestType, MachineAssumption
  <2>2. end \in Nat
    BY <2>1
  <2>3. FP!Store!Entry(request, now) = [value |-> request.value, expires |-> end]
    BY <1>2 DEF FP!Store!Entry
  <2> HIDE DEF end
  <2> QED
    BY <2>1, <2>2, <2>3 DEF Entries
<1> QED
  BY <1>1, <1>2, RequestType

LEMMA LookupType ==
    ASSUME NEW entry \in Entries, NEW now \in Nat
    PROVE  FP!Store!Lookup(entry, now) \in Values \cup {0}
BY FileConstants DEF FP!Store!Lookup, Entries

(* What the store shows: the copy of the one call that changes it, or the  *)
(* file. *)
ShowsCopy(u) ==
    /\ FP!Content = call[u].copy
    /\ FP!BeingCreated <=> FP!Creating # {} \/ file \notin {FP!Truncated, call[u].copy}

ShowsFile == FP!Content = file /\ (FP!BeingCreated <=> FP!Creating # {})

LEMMA Shows ==
    ASSUME HoldersLock
    PROVE  /\ \A u \in Users : call[u].pc \in Changing => ShowsCopy(u)
           /\ (\A u \in Users : call[u].pc \notin Changing) => ShowsFile
<1>1. ASSUME NEW u \in Users, call[u].pc \in Changing
      PROVE  ShowsCopy(u)
  <2>1. FP!Writing = {u}
    BY <1>1 DEF HoldersLock, Holding, Changing, FP!Writing
  <2>2. FP!Copy = call[u].copy
    BY <2>1 DEF FP!Copy
  <2> QED
    BY <2>1, <2>2 DEF ShowsCopy, FP!Content, FP!BeingCreated
<1>2. ASSUME \A u \in Users : call[u].pc \notin Changing
      PROVE  ShowsFile
  BY <1>2 DEF ShowsFile, Changing, FP!Content, FP!BeingCreated, FP!Writing
<1> QED
  BY <1>1, <1>2

LEMMA ShowsAfter ==
    ASSUME HoldersLock'
    PROVE  /\ \A u \in Users : (call[u].pc \in Changing)' => ShowsCopy(u)'
           /\ (\A u \in Users : (call[u].pc \notin Changing)') => ShowsFile'
<1>1. ASSUME NEW u \in Users, (call[u].pc \in Changing)'
      PROVE  ShowsCopy(u)'
  <2>1. FP!Writing' = {u}
    BY <1>1 DEF HoldersLock, Holding, Changing, FP!Writing
  <2>2. FP!Copy' = call'[u].copy
    BY <2>1 DEF FP!Copy
  <2> QED
    BY <2>1, <2>2 DEF ShowsCopy, FP!Content, FP!BeingCreated
<1>2. ASSUME \A u \in Users : (call[u].pc \notin Changing)'
      PROVE  ShowsFile'
  BY <1>2 DEF ShowsFile, Changing, FP!Content, FP!BeingCreated, FP!Writing
<1> QED
  BY <1>1, <1>2

(* The record of a call with some fields changed. *)
Changed(c, p, copy, entry, value) ==
    [pc |-> p, request |-> c.request, copy |-> copy, entry |-> entry, value |-> value]

LEMMA CallFields ==
    ASSUME NEW c \in CallType
    PROVE  /\ c.request \in FP!Store!Ops /\ c.copy \in [Keys -> Entries]
           /\ c.entry \in Seen /\ c.value \in Int /\ c.pc \in Steps
BY DEF CallType

LEMMA ChangeFields ==
    ASSUME NEW c \in CallType, NEW p \in Steps, NEW copy \in [Keys -> Entries],
           NEW entry \in Seen, NEW value \in Int
    PROVE  /\ Changed(c, p, copy, entry, value) \in CallType
           /\ Changed(c, p, copy, entry, value).pc = p
           /\ Changed(c, p, copy, entry, value).request = c.request
           /\ Changed(c, p, copy, entry, value).copy = copy
           /\ Changed(c, p, copy, entry, value).entry = entry
           /\ Changed(c, p, copy, entry, value).value = value
BY DEF CallType, Changed

LEMMA SameFields == \A c \in CallType : c = Changed(c, c.pc, c.copy, c.entry, c.value)
BY DEF CallType, Changed

LEMMA ChangeField ==
    \A c, q, copy, entry, value, new :
        /\ [Changed(c, q, copy, entry, value) EXCEPT !.pc = new] = Changed(c, new, copy, entry, value)
        /\ [Changed(c, q, copy, entry, value) EXCEPT !.copy = new] = Changed(c, q, new, entry, value)
        /\ [Changed(c, q, copy, entry, value) EXCEPT !.entry = new] = Changed(c, q, copy, new, value)
        /\ [Changed(c, q, copy, entry, value) EXCEPT !.value = new] = Changed(c, q, copy, entry, new)
BY DEF Changed

LEMMA ChangePc ==
    ASSUME NEW c \in CallType, NEW p
    PROVE  [c EXCEPT !.pc = p] = Changed(c, p, c.copy, c.entry, c.value)
<1>1. [Changed(c, c.pc, c.copy, c.entry, c.value) EXCEPT !.pc = p]
        = Changed(c, p, c.copy, c.entry, c.value)
  BY ChangeField
<1>2. c = Changed(c, c.pc, c.copy, c.entry, c.value)
  BY SameFields
<1> QED
  BY <1>1, <1>2

LEMMA ChangeTwo ==
    ASSUME NEW c \in CallType, NEW p, NEW value
    PROVE  [c EXCEPT !.pc = p, !.value = value] = Changed(c, p, c.copy, c.entry, value)
<1> DEFINE moved == [c EXCEPT !.pc = p]
<1>1. moved = Changed(c, p, c.copy, c.entry, c.value)
  BY ChangePc
<1>2. [c EXCEPT !.pc = p, !.value = value] = [moved EXCEPT !.value = value]
  OBVIOUS
<1>3. [Changed(c, p, c.copy, c.entry, c.value) EXCEPT !.value = value]
        = Changed(c, p, c.copy, c.entry, value)
  BY ChangeField
<1> HIDE DEF moved
<1> QED
  BY <1>1, <1>2, <1>3

LEMMA ChangeThree ==
    ASSUME NEW c \in CallType, NEW p, NEW copy, NEW entry
    PROVE  [c EXCEPT !.pc = p, !.copy = copy, !.entry = entry] = Changed(c, p, copy, entry, c.value)
<1> DEFINE moved == [c EXCEPT !.pc = p]
           loaded == [moved EXCEPT !.copy = copy]
<1>1. moved = Changed(c, p, c.copy, c.entry, c.value)
  BY ChangePc
<1>2. [c EXCEPT !.pc = p, !.copy = copy, !.entry = entry] = [loaded EXCEPT !.entry = entry]
  OBVIOUS
<1>3. /\ [Changed(c, p, c.copy, c.entry, c.value) EXCEPT !.copy = copy]
           = Changed(c, p, copy, c.entry, c.value)
      /\ [Changed(c, p, copy, c.entry, c.value) EXCEPT !.entry = entry]
           = Changed(c, p, copy, entry, c.value)
  BY ChangeField
<1> HIDE DEF moved
<1>4. loaded = Changed(c, p, copy, c.entry, c.value)
  BY <1>1, <1>3
<1> HIDE DEF loaded
<1> QED
  BY <1>2, <1>3, <1>4

(* What the step of one process does to its call and to what it is told. *)
Moves(u, p, copy, entry, value) ==
    /\ call' \in [Users -> CallType]
    /\ \A v \in Users \ {u} : call'[v] = call[v]
    /\ call'[u].pc = p /\ call'[u].request = call[u].request /\ call'[u].copy = copy
    /\ call'[u].entry = entry /\ call'[u].value = value
    /\ Told' = [Told EXCEPT ![u] = Shown(Told[u].request, entry, value)]
    /\ entry = call[u].entry /\ value = call[u].value => UNCHANGED Told

LEMMA CallMoves ==
    ASSUME FileTyped, NEW u \in Users, NEW p \in Steps, NEW copy \in [Keys -> Entries],
           NEW entry \in Seen, NEW value \in Int,
           call' = [call EXCEPT ![u] = Changed(call[u], p, copy, entry, value)]
    PROVE  Moves(u, p, copy, entry, value)
<1> DEFINE new == Changed(call[u], p, copy, entry, value)
<1>1. call \in [Users -> CallType] /\ call[u] \in CallType
  BY DEF FileTyped
<1>2. /\ new \in CallType /\ new.pc = p /\ new.request = call[u].request
      /\ new.copy = copy /\ new.entry = entry /\ new.value = value
  BY <1>1, ChangeFields
<1> HIDE DEF new
<1>3. /\ call' \in [Users -> CallType] /\ call'[u] = new
      /\ \A v \in Users \ {u} : call'[v] = call[v]
  BY <1>1, <1>2 DEF new
<1>4. Told' = [Told EXCEPT ![u] = Shown(Told[u].request, entry, value)]
  <2>1. Told[u].request = call[u].request
    BY DEF Told, Shown
  <2>2. \A v \in Users : Told'[v] = [Told EXCEPT ![u] = Shown(Told[u].request, entry, value)][v]
    BY <1>2, <1>3, <2>1 DEF Told
  <2> QED
    BY <2>2 DEF Told
<1>5. ASSUME entry = call[u].entry, value = call[u].value
      PROVE  UNCHANGED Told
  BY <1>2, <1>3, <1>5 DEF Told
<1> QED
  BY <1>2, <1>3, <1>4, <1>5 DEF Moves

LEMMA CallGoes ==
    ASSUME FileTyped, NEW u \in Users, NEW p \in Steps, call' = [call EXCEPT ![u].pc = p]
    PROVE  Moves(u, p, call[u].copy, call[u].entry, call[u].value)
<1>1. call[u] \in CallType
  BY DEF FileTyped
<1>2. call' = [call EXCEPT ![u] = Changed(call[u], p, call[u].copy, call[u].entry, call[u].value)]
  BY <1>1, ChangePc
<1>3. call[u].copy \in [Keys -> Entries] /\ call[u].entry \in Seen /\ call[u].value \in Int
  BY <1>1, CallFields
<1> QED
  BY <1>2, <1>3, CallMoves

LEMMA CallEnds ==
    ASSUME FileTyped, NEW u \in Users, NEW p \in Steps, NEW value \in Int,
           call' = [call EXCEPT ![u].pc = p, ![u].value = value]
    PROVE  Moves(u, p, call[u].copy, call[u].entry, value)
<1> DEFINE new == [call[u] EXCEPT !.pc = p, !.value = value]
<1>1. call[u] \in CallType
  BY DEF FileTyped
<1>2. new = Changed(call[u], p, call[u].copy, call[u].entry, value)
  BY <1>1, ChangeTwo
<1>3. call' = [call EXCEPT ![u] = new]
  OBVIOUS
<1>4. call[u].copy \in [Keys -> Entries] /\ call[u].entry \in Seen
  BY <1>1, CallFields
<1> HIDE DEF new
<1> QED
  BY <1>2, <1>3, <1>4, CallMoves

(* The steps of the abstract store, by what they do to what it shows. *)
Answers(u, entry, value) == Told' = [Told EXCEPT ![u] = Shown(Told[u].request, entry, value)]

Disturbed ==
    /\ FP!Content' \in {FP!Content, FP!Truncated} \/ (FP!BeingCreated /\ FP!Content' = FP!Empty)
    /\ FP!BeingCreated' => FP!BeingCreated
    /\ UNCHANGED clock

Same == UNCHANGED <<FP!Content, clock>> /\ (FP!BeingCreated' <=> FP!BeingCreated)

LEMMA SameDisturbs == Same => Disturbed
BY DEF Same, Disturbed

LEMMA Creation ==
    /\ FP!BeingCreated \in BOOLEAN /\ FP!BeingCreated' \in BOOLEAN
    /\ (FP!BeingCreated' <=> FP!BeingCreated) => UNCHANGED FP!BeingCreated
    /\ (FP!BeingCreated' => FP!BeingCreated) => FP!BeingCreated' \in {FALSE, FP!BeingCreated}
    /\ FP!BeingCreated' => FP!BeingCreated' = TRUE
BY DEF FP!BeingCreated

LEMMA ToldSet ==
    ASSUME NEW u \in Users, NEW entry, NEW value
    PROVE  /\ Answers(u, Told[u].entry, value) => Told' = [Told EXCEPT ![u].value = value]
           /\ Answers(u, entry, Told[u].value) => Told' = [Told EXCEPT ![u].entry = entry]
           /\ Told[u].request = call[u].request /\ Told[u].entry = call[u].entry
           /\ Told[u].value = call[u].value
<1>1. Told[u] = [request |-> call[u].request, entry |-> call[u].entry, value |-> call[u].value]
  BY DEF Told, Shown
<1>2. /\ Told[u].request = call[u].request /\ Told[u].entry = call[u].entry
      /\ Told[u].value = call[u].value
  BY <1>1
<1>3. /\ [Told[u] EXCEPT !.value = value] = Shown(Told[u].request, Told[u].entry, value)
      /\ [Told[u] EXCEPT !.entry = entry] = Shown(Told[u].request, entry, Told[u].value)
  BY <1>1, <1>2 DEF Shown
<1> QED
  BY <1>2, <1>3 DEF Answers

LEMMA StoreSteps ==
    ASSUME NEW u \in Users
    PROVE  /\ /\ call[u].value = FP!Pending /\ Answers(u, call[u].entry, FP!Failed) /\ Disturbed
              => FP!Store!Fail(u)
           /\ /\ call[u].value = FP!Pending /\ call[u].request.op = "get"
              /\ FP!Content \notin {FP!Truncated, FP!Missing}
              /\ call[u].entry = FP!Store!NotFetched
              /\ Answers(u, FP!Content[call[u].request.key], FP!Pending) /\ Same
              => FP!Store!Fetch(u)
           /\ /\ call[u].value = FP!Pending
              /\ call[u].entry \notin {FP!Store!NotFetched, FP!Store!Saved}
              /\ Answers(u, call[u].entry, FP!Store!Lookup(call[u].entry, clock)) /\ Same
              => FP!Store!Get(u)
           /\ /\ call[u].value = FP!Pending /\ call[u].request.op # "get"
              /\ FP!Content \notin {FP!Truncated, FP!Missing}
              /\ call[u].entry = FP!Store!NotFetched
              /\ FP!Content' = [FP!Content EXCEPT ![call[u].request.key] =
                                    FP!Store!Entry(call[u].request, clock)]
              /\ Answers(u, FP!Store!Saved, FP!Pending)
              /\ (FP!BeingCreated' => FP!BeingCreated) /\ UNCHANGED clock
              => FP!Store!Save(u)
           /\ /\ call[u].value = FP!Pending /\ call[u].entry = FP!Store!Saved
              /\ Answers(u, call[u].entry, 0) /\ Same
              => FP!Store!Confirm(u)
<1>1. /\ FP!Store!Broken = FP!Truncated /\ FP!Store!Absent = FP!Missing
      /\ FP!Store!Empty = FP!Empty /\ FP!Store!Pending = FP!Pending
      /\ FP!Store!Failed = FP!Failed /\ FP!Store!Default = 0
  BY FileConstants
<1>2. /\ Told[u].request = call[u].request /\ Told[u].entry = call[u].entry
      /\ Told[u].value = call[u].value
  BY ToldSet
<1>4. Disturbed => FP!Store!Disturb
  BY <1>1, Creation DEF Disturbed, FP!Store!Disturb
<1>5. /\ Same => UNCHANGED <<FP!Content, FP!BeingCreated, clock>>
      /\ (FP!BeingCreated' => FP!BeingCreated) => FP!BeingCreated' \in {FALSE, FP!BeingCreated}
  BY Creation DEF Same
<1>6. ASSUME call[u].value = FP!Pending, Answers(u, call[u].entry, FP!Failed), Disturbed
      PROVE  FP!Store!Fail(u)
  <2>0. FP!Store!Fail(u) <=>
         /\ Told[u].value = FP!Pending /\ Told' = [Told EXCEPT ![u].value = FP!Failed]
         /\ FP!Store!Disturb
    BY <1>1 DEF FP!Store!Fail, FP!Store!Answer, Told, Shown
  <2>1. Told' = [Told EXCEPT ![u].value = FP!Failed]
    BY <1>2, <1>6, ToldSet
  <2> QED
    BY <1>2, <1>4, <1>6, <2>0, <2>1
<1>7. ASSUME call[u].value = FP!Pending, call[u].request.op = "get",
             FP!Content \notin {FP!Truncated, FP!Missing}, call[u].entry = FP!Store!NotFetched,
             Answers(u, FP!Content[call[u].request.key], FP!Pending), Same
      PROVE  FP!Store!Fetch(u)
  <2>0. FP!Store!Fetch(u) <=>
         /\ Told[u].value = FP!Pending /\ Told[u].request.op = "get"
         /\ Told[u].entry = FP!Store!NotFetched /\ FP!Content \notin {FP!Truncated, FP!Missing}
         /\ Told' = [Told EXCEPT ![u].entry = FP!Content[Told[u].request.key]]
         /\ UNCHANGED <<FP!Content, FP!BeingCreated, clock>>
    BY <1>1 DEF FP!Store!Fetch, Told, Shown
  <2>1. Told' = [Told EXCEPT ![u].entry = FP!Content[Told[u].request.key]]
    BY <1>2, <1>7, ToldSet
  <2> QED
    BY <1>2, <1>5, <1>7, <2>0, <2>1
<1>8. ASSUME call[u].value = FP!Pending, call[u].entry \notin {FP!Store!NotFetched, FP!Store!Saved},
             Answers(u, call[u].entry, FP!Store!Lookup(call[u].entry, clock)), Same
      PROVE  FP!Store!Get(u)
  <2>0. FP!Store!Get(u) <=>
         /\ Told[u].value = FP!Pending /\ Told[u].entry \notin {FP!Store!NotFetched, FP!Store!Saved}
         /\ Told' = [Told EXCEPT ![u].value = FP!Store!Lookup(Told[u].entry, clock)]
         /\ UNCHANGED <<FP!Content, FP!BeingCreated, clock>>
    BY <1>1 DEF FP!Store!Get, FP!Store!Answer, Told, Shown
  <2>1. Told' = [Told EXCEPT ![u].value = FP!Store!Lookup(Told[u].entry, clock)]
    BY <1>2, <1>8, ToldSet
  <2> QED
    BY <1>2, <1>5, <1>8, <2>0, <2>1
<1>9. ASSUME call[u].value = FP!Pending, call[u].request.op # "get",
             FP!Content \notin {FP!Truncated, FP!Missing}, call[u].entry = FP!Store!NotFetched,
             FP!Content' = [FP!Content EXCEPT ![call[u].request.key] =
                                FP!Store!Entry(call[u].request, clock)],
             Answers(u, FP!Store!Saved, FP!Pending),
             FP!BeingCreated' => FP!BeingCreated, UNCHANGED clock
      PROVE  FP!Store!Save(u)
  <2>0. FP!Store!Save(u) <=>
         /\ Told[u].value = FP!Pending /\ Told[u].request.op # "get"
         /\ Told[u].entry = FP!Store!NotFetched /\ FP!Content \notin {FP!Truncated, FP!Missing}
         /\ FP!Content' = [FP!Content EXCEPT ![Told[u].request.key] =
                                    FP!Store!Entry(Told[u].request, clock)]
         /\ Told' = [Told EXCEPT ![u].entry = FP!Store!Saved]
         /\ FP!BeingCreated' \in {FALSE, FP!BeingCreated} /\ UNCHANGED clock
    BY <1>1 DEF FP!Store!Save, Told, Shown
  <2>1. Told' = [Told EXCEPT ![u].entry = FP!Store!Saved]
    BY <1>2, <1>9, ToldSet
  <2> QED
    BY <1>2, <1>5, <1>9, <2>0, <2>1
<1>10. ASSUME call[u].value = FP!Pending, call[u].entry = FP!Store!Saved,
              Answers(u, call[u].entry, 0), Same
       PROVE  FP!Store!Confirm(u)
  <2>0. FP!Store!Confirm(u) <=>
         /\ Told[u].value = FP!Pending /\ Told[u].entry = FP!Store!Saved
         /\ Told' = [Told EXCEPT ![u].value = 0]
         /\ UNCHANGED <<FP!Content, FP!BeingCreated, clock>>
    BY <1>1 DEF FP!Store!Confirm, FP!Store!Answer, Told, Shown
  <2>1. Told' = [Told EXCEPT ![u].value = 0]
    BY <1>2, <1>10, ToldSet
  <2> QED
    BY <1>2, <1>5, <1>10, <2>0, <2>1
<1> QED
  BY <1>6, <1>7, <1>8, <1>9, <1>10

(* What becomes of the store when no call is answered. *)
LEMMA StoreRests ==
    /\ Disturbed /\ UNCHANGED Told => FP!Store!Lose
    /\ Same /\ UNCHANGED Told => UNCHANGED FP!Store!storeVars
    /\ FP!Content = FP!Missing /\ FP!BeingCreated' /\ UNCHANGED <<FP!Content, Told, clock>>
         => FP!Store!FindNoStore
<1>1. FP!Store!Broken = FP!Truncated /\ FP!Store!Absent = FP!Missing /\ FP!Store!Empty = FP!Empty
  BY FileConstants
<1>2. /\ FP!Store!Lose <=> FP!Store!Disturb /\ UNCHANGED Told
      /\ UNCHANGED FP!Store!storeVars <=> UNCHANGED <<FP!Content, Told, FP!BeingCreated, clock>>
      /\ FP!Store!FindNoStore <=>
            /\ FP!Content = FP!Store!Absent /\ FP!BeingCreated' = TRUE
            /\ UNCHANGED <<FP!Content, Told, clock>>
  BY DEF Told, Shown, FP!Store!Lose, FP!Store!storeVars, FP!Store!FindNoStore
<1>3. Disturbed => FP!Store!Disturb
  BY <1>1, Creation DEF Disturbed, FP!Store!Disturb
<1> QED
  BY <1>1, <1>2, <1>3, Creation DEF Same

(* A call that does not change the store's state of change leaves what it  *)
(* shows as it is, if it leaves the file. *)
LEMMA ShowsSame ==
    ASSUME HoldersLock, HoldersLock', NEW u \in Users,
           \A v \in Users \ {u} : call'[v] = call[v],
           call[u].pc \notin Changing \cup {"create", "fill"},
           call'[u].pc \notin Changing \cup {"create", "fill"}, UNCHANGED <<file, clock>>
    PROVE  Same
<1>1. FP!Creating' = FP!Creating
  BY DEF FP!Creating
<1>2. CASE \A v \in Users : call[v].pc \notin Changing
  <2>1. ShowsFile /\ ShowsFile'
    BY <1>2, Shows, ShowsAfter
  <2> QED
    BY <1>1, <2>1 DEF ShowsFile, Same
<1>3. ASSUME NEW v \in Users, call[v].pc \in Changing
      PROVE  Same
  <2>1. call'[v] = call[v]
    BY <1>3
  <2>2. ShowsCopy(v) /\ ShowsCopy(v)'
    BY <1>3, <2>1, Shows, ShowsAfter
  <2> QED
    BY <1>1, <2>1, <2>2 DEF ShowsCopy, Same
<1> QED
  BY <1>2, <1>3


(* What a step of one process needs to keep the invariant. *)
LEMMA InvKept ==
    ASSUME FileInv, NEW u \in Users, NEW p, NEW copy, NEW entry, NEW value,
           Moves(u, p, copy, entry, value),
           value \in Values \cup {0, FP!Pending, FP!Failed},
           file' \in {FP!Truncated, FP!Missing} \cup [Keys -> Entries],
           lock' \in Users \cup {FP!Free}, clock' = clock,
           p \in Holding => lock' = u,
           \A v \in Users \ {u} : call[v].pc \in Holding => lock' = v,
           CallAt(u)',
           file' = file \/ file' \in {FP!Truncated, FP!Empty}
             \/ (\A v \in Users \ {u} : call[v].pc \notin Changing),
           file' = FP!Missing => file = FP!Missing,
           made => made',
           \/ lock' = FP!Free
           \/ lock' = u /\ p \in Holding \cup Over /\ (p = "ended" => file' = FP!Truncated \/ made')
           \/ lock' = lock /\ lock # u /\ (file' = file \/ made')
    PROVE  FileInv'
<1> USE DEF Moves
<1>1. FileTyped'
  BY DEF FileInv, FileTyped
<1>2. HoldersLock'
  BY DEF HoldersLock
<1>3. ASSUME NEW v \in Users
      PROVE  CallAt(v)'
  <2>1. CASE v = u
    BY <2>1
  <2>2. CASE v # u
    <3>1. call'[v] = call[v] /\ CallAt(v)
      BY <2>2 DEF FileInv
    <3>2. call[v].pc \in Changing => file' = file \/ file' \in {FP!Truncated, FP!Empty}
      BY <2>2
    <3> QED
      BY <3>1, <3>2 DEF CallAt, Changing
  <2> QED
    BY <2>1, <2>2
<1>4. LockInv'
  <2>1. CASE lock' = lock /\ lock # u /\ (file' = file \/ made')
    <3>1. CASE lock = FP!Free
      BY <2>1, <3>1 DEF LockInv, FP!Free
    <3>2. CASE lock # FP!Free
      <4>1. lock \in Users \ {u} /\ call'[lock] = call[lock]
        BY <2>1, <3>2 DEF FileInv, FileTyped
      <4> QED
        BY <2>1, <3>2, <4>1 DEF FileInv, LockInv, FP!Free
    <3> QED
      BY <3>1, <3>2
  <2>2. CASE lock' = FP!Free
    BY <2>2 DEF LockInv, FP!Free
  <2>3. CASE lock' = u /\ p \in Holding \cup Over /\ (p = "ended" => file' = FP!Truncated \/ made')
    BY <2>3 DEF LockInv, FP!Truncated
  <2> QED
    BY <2>1, <2>2, <2>3
<1> QED
  BY <1>1, <1>2, <1>3, <1>4 DEF FileInv

(* Of the invariant, what one process may use. *)
LEMMA OneCall ==
    ASSUME FileInv, NEW u \in Users
    PROVE  /\ FileTyped /\ HoldersLock /\ CallAt(u) /\ call[u] \in CallType
           /\ call[u].pc \in Steps /\ call[u].request \in FP!Store!Ops
           /\ call[u].copy \in [Keys -> Entries] /\ call[u].entry \in Seen
           /\ call[u].value \in Values \cup {0, FP!Pending, FP!Failed}
           /\ call[u].value \in Int /\ call[u].request.key \in Keys
           /\ call[u].pc \in Holding =>
                lock = u /\ \A v \in Users \ {u} : call[v].pc \notin Holding
           /\ lock = FP!Free => \A v \in Users : call[v].pc \notin Holding
<1>1. FileTyped /\ HoldersLock /\ CallAt(u) /\ call[u] \in CallType
  BY DEF FileInv, FileTyped
<1>2. /\ call[u].pc \in Steps /\ call[u].request \in FP!Store!Ops
      /\ call[u].copy \in [Keys -> Entries] /\ call[u].entry \in Seen /\ call[u].value \in Int
  BY <1>1, CallFields
<1>3. call[u].request.key \in Keys
  BY <1>2, RequestType
<1> QED
  BY <1>1, <1>2, <1>3, FileConstants DEF FileTyped, HoldersLock

StoreStep == FP!Store!Next \/ UNCHANGED FP!Store!storeVars

(* A process that creates the file may break it or reset it, for the       *)
(* others, too. *)
LEMMA CreationDisturbs ==
    ASSUME HoldersLock, HoldersLock', NEW u \in Users,
           \A v \in Users \ {u} : call'[v] = call[v],
           call[u].pc \in {"create", "fill"}, call'[u].pc \in {"fill", "lock", "dead"},
           file' \in {file, FP!Truncated, FP!Empty}, clock' = clock
    PROVE  Disturbed
<1>1. FP!Creating # {}
  BY DEF FP!Creating
<1>2. CASE \A v \in Users : call[v].pc \notin Changing
  <2>1. \A v \in Users : (call[v].pc \notin Changing)'
    BY <1>2 DEF Changing
  <2>2. ShowsFile /\ ShowsFile'
    BY <1>2, <2>1, Shows, ShowsAfter
  <2> QED
    BY <1>1, <2>2 DEF ShowsFile, Disturbed
<1>3. ASSUME NEW v \in Users, call[v].pc \in Changing
      PROVE  Disturbed
  <2>1. v # u
    BY <1>3 DEF Changing
  <2>2. call'[v] = call[v]
    BY <2>1
  <2>3. ShowsCopy(v) /\ ShowsCopy(v)'
    BY <1>3, <2>2, Shows, ShowsAfter
  <2> QED
    BY <1>1, <2>2, <2>3 DEF ShowsCopy, Disturbed
<1> QED
  BY <1>2, <1>3

LEMMA StepOpen ==
    ASSUME FileInv, NEW u \in Users, FP!Open(u)
    PROVE  FileInv' /\ StoreStep
<1> DEFINE p == IF file = FP!Missing THEN "create" ELSE "lock"
           c == call[u]
<1>1. /\ c.pc = "open" /\ call' = [call EXCEPT ![u].pc = p]
      /\ UNCHANGED <<file, lock, made, clock>>
  BY DEF FP!Open, FP!Goto
<1>2. p \in Steps /\ p \in {"create", "lock"} /\ (p = "create" <=> file = FP!Missing)
  BY DEF Steps
<1> HIDE DEF p
<1>3. Moves(u, p, c.copy, c.entry, c.value)
  BY <1>1, <1>2, OneCall, CallGoes
<1>4. FileInv'
  <2>1. CallAt(u)'
    BY <1>1, <1>2, <1>3, OneCall DEF CallAt, Moves, Opening, Changing, Over
  <2>2. lock # u
    BY <1>1, FileConstants DEF FileInv, LockInv, Holding, Over
  <2> QED
    BY <1>1, <1>2, <1>3, <2>1, <2>2, OneCall, InvKept DEF FileTyped, HoldersLock, Holding
<1>5. StoreStep
  <2>0. call'[u].pc = p /\ (\A v \in Users \ {u} : call'[v] = call[v]) /\ UNCHANGED Told
    BY <1>3 DEF Moves
  <2>1. CASE file = FP!Missing
    <3>1. \A v \in Users : call[v].pc \notin Changing
      BY <2>1 DEF FileInv, CallAt, Changing
    <3>2. \A v \in Users : (call[v].pc \notin Changing)'
      BY <1>2, <2>0, <3>1 DEF Changing
    <3>3. ShowsFile /\ ShowsFile'
      BY <1>4, <3>1, <3>2, Shows, ShowsAfter DEF FileInv
    <3>4. FP!Creating' # {}
      BY <1>2, <2>0, <2>1 DEF FP!Creating
    <3>5. FP!Store!FindNoStore
      BY <1>1, <2>0, <2>1, <3>3, <3>4, StoreRests DEF ShowsFile
    <3> QED
      BY <3>5 DEF StoreStep, FP!Store!Next
  <2>2. CASE file # FP!Missing
    <3>1. Same
      BY <1>1, <1>2, <1>4, <2>0, <2>2, OneCall, ShowsSame DEF FileInv, Changing
    <3> QED
      BY <2>0, <3>1, StoreRests DEF StoreStep
  <2> QED
    BY <2>1, <2>2
<1> QED
  BY <1>4, <1>5

LEMMA StepCreate ==
    ASSUME FileInv, NEW u \in Users, FP!Truncate(u) \/ FP!Fill(u)
    PROVE  FileInv' /\ StoreStep
<1> DEFINE c == call[u]
<1>1. PICK p \in {"fill", "lock"} :
        /\ c.pc \in {"create", "fill"} /\ call' = [call EXCEPT ![u].pc = p]
        /\ file' \in {FP!Truncated, FP!Empty} /\ made' /\ UNCHANGED <<lock, clock>>
  BY OneCall DEF FP!Truncate, FP!Fill, FP!Goto, CallAt
<1>2. p \in Steps
  BY DEF Steps
<1>3. Moves(u, p, c.copy, c.entry, c.value)
  BY <1>1, <1>2, OneCall, CallGoes
<1>4. FileInv'
  <2>1. CallAt(u)'
    BY <1>1, <1>3, OneCall, FilesDiffer DEF CallAt, Moves, Opening, Changing, Over
  <2>2. lock # u
    BY <1>1, FileConstants DEF FileInv, LockInv, Holding, Over
  <2> QED
    BY <1>1, <1>2, <1>3, <2>1, <2>2, OneCall, FilesDiffer, InvKept DEF FileTyped, HoldersLock, Holding
<1>5. Disturbed
  BY <1>1, <1>3, <1>4, CreationDisturbs DEF FileInv, Moves
<1>6. UNCHANGED Told
  BY <1>3 DEF Moves
<1> QED
  BY <1>4, <1>5, <1>6, StoreRests DEF StoreStep, FP!Store!Next

LEMMA StepLock ==
    ASSUME FileInv, NEW u \in Users, FP!Lock(u)
    PROVE  FileInv' /\ StoreStep
<1> DEFINE c == call[u]
<1>1. /\ c.pc = "lock" /\ lock = FP!Free /\ lock' = u /\ call' = [call EXCEPT ![u].pc = "read"]
      /\ UNCHANGED <<file, made, clock>>
  BY DEF FP!Lock, FP!CanLock, FP!Goto
<1>2. Moves(u, "read", c.copy, c.entry, c.value)
  BY <1>1, OneCall, CallGoes DEF Steps
<1>3. FileInv'
  <2>1. CallAt(u)'
    BY <1>1, <1>2, OneCall DEF CallAt, Moves, Opening, Changing, Over
  <2> QED
    BY <1>1, <1>2, <2>1, OneCall, InvKept DEF FileTyped, Holding
<1>4. Same
  BY <1>1, <1>2, <1>3, ShowsSame DEF FileInv, Moves, Changing
<1>5. UNCHANGED Told
  BY <1>2 DEF Moves
<1> QED
  BY <1>3, <1>4, <1>5, StoreRests DEF StoreStep

LEMMA StepFail ==
    ASSUME FileInv, NEW u \in Users,
           FP!GiveUpLocking(u) \/ FP!FailToRead(u) \/ FP!FailToUnlock(u)
    PROVE  FileInv' /\ StoreStep
<1> DEFINE c == call[u]
<1>1. PICK p \in {"ended", "left"} :
        /\ c.pc \in {"lock", "read", "unlock"}
        /\ call' = [call EXCEPT ![u].pc = p, ![u].value = FP!Failed]
        /\ UNCHANGED <<file, lock, made, clock>>
        /\ p = "ended" => c.pc = "lock" \/ file = FP!Truncated
  BY DEF FP!GiveUpLocking, FP!FailToRead, FP!FailToUnlock, FP!End
<1>2. p \in Steps /\ FP!Failed \in Int /\ FP!Failed # FP!Pending
  BY FileConstants DEF Steps
<1>3. Moves(u, p, c.copy, c.entry, FP!Failed)
  BY <1>1, <1>2, OneCall, CallEnds
<1>4. FileInv'
  <2>1. CallAt(u)'
    BY <1>1, <1>2, <1>3, OneCall DEF CallAt, Moves, Opening, Changing, Over
  <2>2. lock = u => c.pc # "lock"
    BY FileConstants DEF FileInv, LockInv, Holding, Over
  <2> QED
    BY <1>1, <1>2, <1>3, <2>1, <2>2, OneCall, InvKept DEF FileTyped, HoldersLock, Holding, Over
<1>5. Same
  BY <1>1, <1>3, <1>4, ShowsSame DEF FileInv, Moves, Changing
<1>6. c.value = FP!Pending /\ Answers(u, c.entry, FP!Failed)
  BY <1>1, <1>3, OneCall DEF CallAt, Over, Moves, Answers
<1> QED
  BY <1>4, <1>5, <1>6, SameDisturbs, StoreSteps DEF StoreStep, FP!Store!Next

LEMMA StepRead ==
    ASSUME FileInv, NEW u \in Users, FP!Read(u)
    PROVE  FileInv' /\ StoreStep
<1> DEFINE c == call[u]
           gets == c.request.op = "get"
           key == c.request.key
           p == IF gets THEN "unlock" ELSE "operate"
           entry == IF gets THEN file[key] ELSE c.entry
<1>1. /\ c.pc = "read" /\ file # FP!Truncated /\ UNCHANGED <<file, lock, made, clock>>
      /\ call' = [call EXCEPT ![u].pc = p, ![u].copy = file, ![u].entry = entry]
  BY DEF FP!Read
<1>2. /\ lock = u /\ c.entry = FP!Store!NotFetched /\ c.value = FP!Pending
      /\ \A v \in Users : call[v].pc \notin Changing
  BY <1>1, OneCall DEF CallAt, Holding, Changing, Over
<1>3. file \in [Keys -> Entries] /\ file \notin {FP!Truncated, FP!Missing}
  BY <1>1, OneCall, FilesDiffer DEF FileTyped, CallAt
<1>4. p \in Steps /\ entry \in Seen /\ (gets => entry \in Entries)
  BY <1>3, OneCall DEF Steps, Seen
<1>5. Moves(u, p, file, entry, c.value)
  <2> DEFINE new == [c EXCEPT !.pc = p, !.copy = file, !.entry = entry]
  <2>1. new = Changed(c, p, file, entry, c.value)
    BY OneCall, ChangeThree
  <2>2. call' = [call EXCEPT ![u] = new]
    BY <1>1
  <2> HIDE DEF new, p, entry
  <2> QED
    BY <1>3, <1>4, <2>1, <2>2, OneCall, CallMoves
<1>6. p = (IF gets THEN "unlock" ELSE "operate") /\ (gets => entry = file[key])
      /\ (~gets => entry = c.entry)
  OBVIOUS
<1> HIDE DEF p, entry
<1>7. FileInv'
  <2>1. CallAt(u)'
    BY <1>1, <1>2, <1>3, <1>4, <1>5, <1>6, OneCall
    DEF CallAt, Moves, Opening, Changing, Over
  <2>2. \A v \in Users \ {u} : call[v].pc \notin Holding
    BY <1>1, OneCall DEF Holding
  <2> QED
    BY <1>1, <1>2, <1>3, <1>5, <1>6, <2>1, <2>2, OneCall, InvKept
    DEF FileTyped, Holding, Over
<1>8. FP!Creating' = FP!Creating
  BY <1>1, <1>5, <1>6 DEF FP!Creating, Moves
<1>9. ShowsFile
  BY <1>2, OneCall, Shows
<1>10. CASE gets
  <2>1. Same
    BY <1>1, <1>5, <1>6, <1>7, <1>10, OneCall, ShowsSame DEF FileInv, Moves, Changing
  <2>2. Answers(u, FP!Content[key], FP!Pending)
    BY <1>2, <1>5, <1>6, <1>9, <1>10 DEF Moves, Answers, ShowsFile
  <2>3. FP!Store!Fetch(u)
    BY <1>2, <1>3, <1>9, <1>10, <2>1, <2>2, StoreSteps DEF ShowsFile
  <2> QED
    BY <1>7, <2>3 DEF StoreStep, FP!Store!Next
<1>11. CASE ~gets
  <2>1. call'[u].pc = "operate" /\ call'[u].copy = file /\ UNCHANGED Told
    BY <1>5, <1>6, <1>11 DEF Moves
  <2>2. ShowsCopy(u)'
    BY <1>7, <2>1, ShowsAfter DEF FileInv, Changing
  <2>3. Same
    BY <1>1, <1>8, <1>9, <2>1, <2>2 DEF ShowsFile, ShowsCopy, Same
  <2> QED
    BY <1>7, <2>1, <2>3, StoreRests DEF StoreStep
<1> QED
  BY <1>10, <1>11

LEMMA StepSave ==
    ASSUME FileInv, NEW u \in Users, FP!StartToWrite(u)
    PROVE  FileInv' /\ StoreStep
<1> DEFINE c == call[u]
           key == c.request.key
           entry == FP!Store!Entry(c.request, clock)
           copy == [c.copy EXCEPT ![key] = entry]
<1>1. /\ c.pc = "operate" /\ file' = FP!Truncated /\ UNCHANGED <<lock, made, clock>>
      /\ call' = [call EXCEPT ![u].pc = "writing", ![u].entry = FP!Store!Saved,
                              ![u].copy[key] = entry]
  BY DEF FP!StartToWrite
<1>2. /\ lock = u /\ c.entry = FP!Store!NotFetched /\ c.value = FP!Pending
      /\ c.request.op # "get" /\ \A v \in Users \ {u} : call[v].pc \notin Holding
  BY <1>1, OneCall DEF CallAt, Holding, Changing, Over
<1>3. entry \in Entries
  BY <1>2, OneCall, EntryType DEF FileTyped
<1>4. copy \in [Keys -> Entries] /\ Moves(u, "writing", copy, FP!Store!Saved, c.value)
  <2> DEFINE new == [c EXCEPT !.pc = "writing", !.entry = FP!Store!Saved, !.copy[key] = entry]
  <2>1. call' = [call EXCEPT ![u] = new]
    BY <1>1
  <2> c \in CallType /\ key \in Keys
    BY OneCall
  <2> HIDE DEF entry, key, c
  <2>2. new = Changed(c, "writing", copy, FP!Store!Saved, c.value)
    <3> DEFINE moved == [c EXCEPT !.pc = "writing"]
               saved == [moved EXCEPT !.entry = FP!Store!Saved]
    <3>1. moved = Changed(c, "writing", c.copy, c.entry, c.value)
      BY ChangePc
    <3>2. [Changed(c, "writing", c.copy, c.entry, c.value) EXCEPT !.entry = FP!Store!Saved]
            = Changed(c, "writing", c.copy, FP!Store!Saved, c.value)
      BY ChangeField
    <3>3. new = [saved EXCEPT !.copy = [saved.copy EXCEPT ![key] = entry]]
      OBVIOUS
    <3> HIDE DEF moved, new
    <3>4. saved = Changed(c, "writing", c.copy, FP!Store!Saved, c.value)
      BY <3>1, <3>2
    <3> HIDE DEF saved
    <3>5. saved.copy = c.copy
      BY <3>4 DEF Changed
    <3>6. [Changed(c, "writing", c.copy, FP!Store!Saved, c.value) EXCEPT !.copy = copy]
            = Changed(c, "writing", copy, FP!Store!Saved, c.value)
      BY ChangeField
    <3> QED
      BY <3>3, <3>4, <3>5, <3>6
  <2>4. copy \in [Keys -> Entries]
    BY <1>3, CallFields
  <2> USE DEF c
  <2>3. FP!Store!Saved \in Seen
    BY DEF Seen
  <2> HIDE DEF new, copy
  <2> QED
    BY <2>1, <2>2, <2>3, <2>4, OneCall, CallMoves DEF Steps
<1>5. FileInv'
  <2>1. CallAt(u)'
    BY <1>1, <1>2, <1>4, FilesDiffer DEF CallAt, Moves, Opening, Changing, Over
  <2> QED
    BY <1>1, <1>2, <1>4, <2>1, OneCall, FilesDiffer, InvKept DEF FileTyped, Holding
<1>6. FP!Creating' = FP!Creating
  BY <1>1, <1>4 DEF FP!Creating, Moves
<1>7. ShowsCopy(u) /\ ShowsCopy(u)'
  BY <1>1, <1>4, <1>5, Shows, ShowsAfter DEF FileInv, Changing, Moves
<1>8. /\ FP!Content = c.copy /\ FP!Content' = copy /\ (FP!BeingCreated' => FP!BeingCreated)
      /\ FP!Content \notin {FP!Truncated, FP!Missing}
  BY <1>1, <1>4, <1>6, <1>7, OneCall, FilesDiffer DEF ShowsCopy, Moves
<1>9. Answers(u, FP!Store!Saved, FP!Pending)
  BY <1>2, <1>4 DEF Moves, Answers
<1>10. FP!Store!Save(u)
  BY <1>1, <1>2, <1>8, <1>9, StoreSteps
<1> QED
  BY <1>5, <1>10 DEF StoreStep, FP!Store!Next

LEMMA StepWrite ==
    ASSUME FileInv, NEW u \in Users, FP!Write(u)
    PROVE  FileInv' /\ StoreStep
<1> DEFINE c == call[u]
<1>1. /\ c.pc = "writing" /\ file' \in {file, c.copy} /\ UNCHANGED <<lock, made, clock>>
      /\ call' = [call EXCEPT ![u].pc = "unlock"]
  BY DEF FP!Write, FP!Goto
<1>2. /\ lock = u /\ c.entry = FP!Store!Saved /\ c.value = FP!Pending
      /\ c.request.op # "get" /\ \A v \in Users \ {u} : call[v].pc \notin Holding
      /\ file \in {FP!Truncated, FP!Empty}
  BY <1>1, OneCall DEF CallAt, Holding, Changing, Over
<1>3. Moves(u, "unlock", c.copy, c.entry, c.value)
  BY <1>1, OneCall, CallGoes DEF Steps
<1>4. file' # FP!Missing /\ file' \in {FP!Truncated} \cup [Keys -> Entries]
  BY <1>1, <1>2, OneCall, FilesDiffer
<1>5. FileInv'
  <2>1. CallAt(u)'
    BY <1>1, <1>2, <1>3, <1>4 DEF CallAt, Moves, Opening, Changing, Over
  <2> QED
    BY <1>1, <1>2, <1>3, <1>4, <2>1, OneCall, InvKept DEF FileTyped, Holding, Changing
<1>6. FP!Creating' = FP!Creating
  BY <1>1, <1>3 DEF FP!Creating, Moves
<1>7. ShowsCopy(u)
  BY <1>1, OneCall, Shows DEF Changing
<1>8. ShowsFile'
  <2>1. \A v \in Users : (call[v].pc \notin Changing)'
    BY <1>2, <1>3 DEF Moves, Changing, Holding
  <2> QED
    BY <1>5, <2>1, ShowsAfter DEF FileInv
<1>9. Disturbed
  BY <1>1, <1>2, <1>6, <1>7, <1>8 DEF ShowsCopy, ShowsFile, Disturbed
<1>10. UNCHANGED Told
  BY <1>3 DEF Moves
<1> QED
  BY <1>5, <1>9, <1>10, StoreRests DEF StoreStep, FP!Store!Next

LEMMA StepUnlock ==
    ASSUME FileInv, NEW u \in Users, FP!Unlock(u)
    PROVE  FileInv' /\ StoreStep
<1> DEFINE c == call[u]
           gets == c.request.op = "get"
           p == IF gets THEN "answer" ELSE "ended"
           value == IF gets THEN c.value ELSE FP!Store!Default
<1>1. /\ c.pc = "unlock" /\ lock' = FP!Free /\ UNCHANGED <<file, made, clock>>
      /\ IF gets THEN call' = [call EXCEPT ![u].pc = "answer"]
                 ELSE call' = [call EXCEPT ![u].pc = "ended", ![u].value = FP!Store!Default]
  BY DEF FP!Unlock, FP!Goto, FP!End
<1>2. /\ lock = u /\ c.value = FP!Pending /\ \A v \in Users \ {u} : call[v].pc \notin Holding
      /\ (gets => c.entry \in Entries) /\ (~gets => c.entry = FP!Store!Saved)
  BY <1>1, OneCall DEF CallAt, Holding, Over
<1>3. Moves(u, p, c.copy, c.entry, value)
  <2>1. CASE gets
    BY <1>1, <2>1, OneCall, CallGoes DEF Steps
  <2>2. CASE ~gets
    <3>1. FileTyped
      BY OneCall
    <3>2. call' = [call EXCEPT ![u].pc = "ended", ![u].value = FP!Store!Default]
      BY <1>1, <2>2
    <3>3. Moves(u, "ended", c.copy, c.entry, FP!Store!Default)
      <4> FP!Store!Default \in Int
        BY FileConstants
      <4> QED
        BY <3>1, <3>2, CallEnds DEF Steps
    <3> QED
      BY <2>2, <3>3
  <2> QED
    BY <2>1, <2>2
<1>4. /\ p \in {"answer", "ended"} /\ (gets => p = "answer" /\ value = c.value)
      /\ (~gets => p = "ended" /\ value = 0)
  BY FileConstants
<1> HIDE DEF p, value
<1>5. FileInv'
  <2>1. CallAt(u)'
    BY <1>1, <1>2, <1>3, <1>4, OneCall, FileConstants
    DEF CallAt, Moves, Opening, Changing, Over
  <2> QED
    BY <1>1, <1>2, <1>3, <1>4, <2>1, OneCall, InvKept DEF FileTyped, Holding
<1>6. Same
  BY <1>1, <1>3, <1>4, <1>5, ShowsSame DEF FileInv, Moves, Changing
<1>7. CASE gets
  <2>1. UNCHANGED Told
    BY <1>3, <1>4, <1>7 DEF Moves
  <2> QED
    BY <1>5, <1>6, <2>1, StoreRests DEF StoreStep
<1>8. CASE ~gets
  <2>1. Answers(u, c.entry, 0)
    BY <1>3, <1>4, <1>8 DEF Moves, Answers
  <2>2. FP!Store!Confirm(u)
    BY <1>2, <1>6, <1>8, <2>1, StoreSteps
  <2> QED
    BY <1>5, <2>2 DEF StoreStep, FP!Store!Next
<1> QED
  BY <1>7, <1>8

LEMMA StepAnswer ==
    ASSUME FileInv, NEW u \in Users, FP!AnswerGet(u)
    PROVE  FileInv' /\ StoreStep
<1> DEFINE c == call[u]
           value == FP!Store!Lookup(c.entry, clock)
<1>1. /\ c.pc = "answer" /\ UNCHANGED <<file, lock, made, clock>>
      /\ call' = [call EXCEPT ![u].pc = "ended", ![u].value = value]
  BY DEF FP!AnswerGet, FP!End
<1>2. c.entry \in Entries /\ c.value = FP!Pending
  BY <1>1, OneCall DEF CallAt, Over
<1>3. value \in Values \cup {0} /\ value \in Int /\ value # FP!Pending
  <2>1. clock \in Nat
    BY OneCall DEF FileTyped
  <2>2. value \in Values \cup {0}
    BY <1>2, <2>1, LookupType
  <2> HIDE DEF value
  <2> QED
    BY <2>2, FileConstants, MachineAssumption
<1> HIDE DEF value
<1>4. Moves(u, "ended", c.copy, c.entry, value)
  BY <1>1, <1>3, OneCall, CallEnds DEF Steps
<1>5. FileInv'
  <2>1. CallAt(u)'
    BY <1>1, <1>3, <1>4, OneCall DEF CallAt, Moves, Opening, Changing, Over
  <2>2. lock # u
    BY <1>1, FileConstants DEF FileInv, LockInv, Holding, Over
  <2> QED
    BY <1>1, <1>3, <1>4, <2>1, <2>2, OneCall, InvKept DEF FileTyped, HoldersLock, Holding
<1>6. Same
  BY <1>1, <1>4, <1>5, ShowsSame DEF FileInv, Moves, Changing
<1>7. Answers(u, c.entry, FP!Store!Lookup(c.entry, clock))
  BY <1>4 DEF Moves, Answers, value
<1>8. c.entry \notin {FP!Store!NotFetched, FP!Store!Saved}
  BY <1>2, FileConstants
<1>9. FP!Store!Get(u)
  BY <1>2, <1>6, <1>7, <1>8, StoreSteps
<1> QED
  BY <1>5, <1>9 DEF StoreStep, FP!Store!Next

(* A process that dies while it holds the lock shows the file, for what it *)
(* was about to write. *)
LEMMA StepDie ==
    ASSUME FileInv, NEW u \in Users, FP!Die(u)
    PROVE  FileInv' /\ StoreStep
<1> DEFINE c == call[u]
<1>1. /\ c.pc \notin Over /\ UNCHANGED <<file, lock, made, clock>>
      /\ call' = [call EXCEPT ![u].pc = "dead", ![u].value = FP!Failed]
  BY DEF FP!Die, FP!HasEnded, Over
<1>2. c.value = FP!Pending /\ FP!Failed \in Int /\ FP!Failed # FP!Pending
  BY <1>1, OneCall, FileConstants DEF CallAt
<1>3. Moves(u, "dead", c.copy, c.entry, FP!Failed)
  BY <1>1, <1>2, OneCall, CallEnds DEF Steps
<1>4. FileInv'
  <2>1. CallAt(u)'
    BY <1>1, <1>2, <1>3, OneCall DEF CallAt, Moves, Opening, Changing, Over
  <2> QED
    BY <1>1, <1>2, <1>3, <2>1, OneCall, InvKept DEF FileTyped, HoldersLock, Holding, Over
<1>5. Answers(u, c.entry, FP!Failed)
  BY <1>3 DEF Moves, Answers
<1>6. Disturbed
  <2>1. CASE c.pc \in {"create", "fill"}
    BY <1>1, <1>3, <1>4, <2>1, OneCall, CreationDisturbs DEF FileInv, Moves
  <2>2. CASE c.pc \in Changing
    <3>1. /\ \A v \in Users \ {u} : call[v].pc \notin Holding
          /\ file \in {c.copy, FP!Truncated, FP!Empty}
      BY <2>2, OneCall DEF CallAt, Holding, Changing
    <3>2. \A v \in Users : (call[v].pc \notin Changing)'
      BY <1>3, <3>1 DEF Moves, Changing, Holding
    <3>3. ShowsCopy(u) /\ ShowsFile'
      BY <1>4, <2>2, <3>2, OneCall, Shows, ShowsAfter DEF FileInv
    <3>4. FP!Creating' = FP!Creating
      BY <1>3, <2>2 DEF FP!Creating, Moves, Changing
    <3> QED
      BY <1>1, <3>1, <3>3, <3>4 DEF ShowsCopy, ShowsFile, Disturbed
  <2>3. CASE c.pc \notin Changing \cup {"create", "fill"}
    <3>1. Same
      BY <1>1, <1>3, <1>4, <2>3, ShowsSame DEF FileInv, Moves, Changing
    <3> QED
      BY <3>1, SameDisturbs
  <2> QED
    BY <2>1, <2>2, <2>3
<1> QED
  BY <1>2, <1>4, <1>5, <1>6, StoreSteps DEF StoreStep, FP!Store!Next

(* A lock that goes stale was held by a process that is dead, or that left *)
(* the lock behind; the clock shows itself. *)
LEMMA StepRest ==
    ASSUME FileInv, FP!LockGoesStale \/ FP!Tick
    PROVE  FileInv' /\ StoreStep
<1>1. UNCHANGED <<file, call, made>>
  BY DEF FP!LockGoesStale, FP!Tick
<1>2. /\ UNCHANGED <<FP!Content, Told>> /\ (FP!BeingCreated' = FP!BeingCreated)
  BY <1>1 DEF FP!Content, FP!Copy, FP!Writing, FP!Creating, FP!BeingCreated, Told
<1>3. CASE FP!LockGoesStale
  <2>1. lock' = FP!Free /\ clock' = clock /\ lock \in Users /\ call[lock].pc \in {"dead", "left"}
    BY <1>3 DEF FP!LockGoesStale, FileInv, FileTyped
  <2>2. FileInv'
    <3>1. HoldersLock'
      BY <1>1, <2>1 DEF FileInv, HoldersLock, Holding
    <3> QED
      BY <1>1, <2>1, <3>1 DEF FileInv, FileTyped, CallAt, LockInv, FP!Free
  <2>3. Same
    BY <1>2, <2>1 DEF Same
  <2> QED
    BY <1>2, <2>2, <2>3, StoreRests DEF StoreStep
<1>4. CASE FP!Tick
  <2>1. lock' = lock /\ clock < MaxTime /\ clock' = clock + 1
    BY <1>4 DEF FP!Tick
  <2>2. FileInv'
    BY <1>1, <2>1 DEF FileInv, FileTyped, HoldersLock, CallAt, LockInv
  <2>3. FP!Store!Tick
    BY <1>2, <2>1 DEF FP!Store!Tick, Told, Shown
  <2> QED
    BY <2>2, <2>3 DEF StoreStep, FP!Store!Next
<1> QED
  BY <1>3, <1>4

LEMMA FileStep ==
    ASSUME FileInv, FP!Next
    PROVE  FileInv' /\ StoreStep
<1>1. ASSUME NEW u \in Users, FP!Step(u)
      PROVE  FileInv' /\ StoreStep
  BY <1>1, StepOpen, StepCreate, StepLock, StepFail, StepRead, StepSave, StepWrite, StepUnlock,
     StepAnswer DEF FP!Step
<1>2. ASSUME NEW u \in Users, FP!Die(u)
      PROVE  FileInv' /\ StoreStep
  BY <1>2, StepDie
<1>3. ASSUME FP!LockGoesStale \/ FP!Tick
      PROVE  FileInv' /\ StoreStep
  BY <1>3, StepRest
<1> QED
  BY <1>1, <1>2, <1>3 DEF FP!Next

LEMMA FileStart == FP!Init => FileInv /\ FP!Store!Init
<1> SUFFICES ASSUME FP!Init PROVE FileInv /\ FP!Store!Init
  OBVIOUS
<1> DEFINE empty == FP!Empty
<1>1. empty \in [Keys -> Entries]
  BY FilesDiffer
<1>2. /\ file \in {FP!Missing, empty} /\ lock = FP!Free /\ made = FALSE /\ clock = 1
      /\ call \in [Users -> [pc : {"open"}, request : FP!Store!Ops, copy : {empty},
                              entry : {FP!Store!NotFetched}, value : {FP!Pending}]]
  BY DEF FP!Init
<1> HIDE DEF empty
<1>3. \A u \in Users :
          /\ call[u].pc = "open" /\ call[u].request \in FP!Store!Ops
          /\ call[u].entry = FP!Store!NotFetched /\ call[u].value = FP!Pending
          /\ call[u] \in CallType
  BY <1>1, <1>2, FileConstants DEF CallType, Steps, Seen
<1>4. call \in [Users -> CallType]
  BY <1>2, <1>3
<1>5. FileTyped
  BY <1>1, <1>2, <1>3, <1>4 DEF FileTyped
<1>6. HoldersLock /\ (\A u \in Users : CallAt(u)) /\ LockInv
  BY <1>2, <1>3 DEF HoldersLock, Holding, Opening, Changing, Over, CallAt, LockInv
<1>7. FP!Content = file /\ FP!BeingCreated = FALSE
  BY <1>3 DEF FP!Content, FP!Writing, FP!BeingCreated, FP!Creating
<1>8. Told \in [Users -> [request : FP!Store!Ops, entry : {FP!Store!NotFetched},
                         value : {FP!Pending}]]
  BY <1>3 DEF Told, Shown
<1>9. file \in {FP!Store!Empty, FP!Store!Absent} /\ FP!Store!Pending = FP!Pending
  BY <1>2, FileConstants DEF empty
<1>10. FP!Store!Init
  BY <1>2, <1>7, <1>8, <1>9 DEF FP!Store!Init, Told, Shown
<1> QED
  BY <1>5, <1>6, <1>10 DEF FileInv

PreferencesInv == part = "preferences" => FileInv

StoreAction == (part = "preferences" => FP!Store!Next) \/ UNCHANGED FP!Store!storeVars

LEMMA PreferencesStep ==
    ASSUME PreferencesInv, [NextPart]_allVars
    PROVE  PreferencesInv' /\ StoreAction
<1>1. part' = part
  BY DEF NextPart, allVars, StepJobs, StepJobSpec, StepFile, StepCommand, StepYaml
<1>2. CASE part = "preferences" /\ StepFile
  BY <1>1, <1>2, FileStep DEF PreferencesInv, StepFile, StoreAction, StoreStep
<1>3. CASE part = "preferences" /\ UNCHANGED allVars
  <2>1. UNCHANGED <<file, lock, call, made, clock>>
    BY <1>3 DEF allVars, FileVars
  <2>2. UNCHANGED FP!Store!storeVars
    BY <2>1 DEF FP!Content, FP!Copy, FP!Writing, FP!Creating, FP!BeingCreated, FP!Store!storeVars
  <2>3. FileInv'
    BY <1>3, <2>1 DEF PreferencesInv, FileInv, FileTyped, HoldersLock, CallAt, LockInv
  <2> QED
    BY <1>1, <1>3, <2>2, <2>3 DEF PreferencesInv, StoreAction
<1>4. CASE part # "preferences"
  BY <1>1, <1>4 DEF PreferencesInv, StoreAction
<1> QED
  BY <1>2, <1>3, <1>4 DEF NextPart, StepJobs, StepJobSpec, StepCommand, StepYaml

LEMMA PreferencesHold ==
    PreferencesInv => (part = "preferences" => FP!TypeOK /\ FP!LockLeaksOnlyOnBrokenFile)
<1> SUFFICES ASSUME FileInv PROVE FP!TypeOK /\ FP!LockLeaksOnlyOnBrokenFile
  BY DEF PreferencesInv
<1>1. FP!LockLeaksOnlyOnBrokenFile
  BY DEF FileInv, LockInv, FP!LockLeaksOnlyOnBrokenFile
<1>2. file \in {FP!Truncated, FP!Missing} \/ \A k \in Keys : file[k].value \in Values \cup {0}
  BY DEF FileInv, FileTyped, Entries
<1>3. \A u \in Users : call[u].pc \in Steps
  BY CallFields DEF FileInv, FileTyped
<1> QED
  BY <1>1, <1>2, <1>3, FileConstants DEF FP!TypeOK, FileInv, FileTyped, Steps

(* The file of preferences, locked and written as a whole by processes     *)
(* that die between the steps of a call, and created without the lock by   *)
(* those that find none, implements the store of single entries, which     *)
(* nobody but these creators resets; and whoever ends and leaves the lock  *)
(* met a file that was broken or being created (FilePreferenceStore).      *)
THEOREM FileImplementsStore == Parts => ImplementsStore
<1>1. InitPart => PreferencesInv /\ (part = "preferences" => FP!Store!Init)
  BY FileStart DEF InitPart, PreferencesInv
<1>2. PreferencesInv /\ [NextPart]_allVars => PreferencesInv' /\ StoreAction
  BY PreferencesStep
<1>3. StoreAction => [part = "preferences" => FP!Store!Next]_(FP!Store!storeVars)
  BY DEF StoreAction
<1> QED
  BY <1>1, <1>2, <1>3, PreferencesHold, PTL DEF Parts, ImplementsStore

---------------------------------------------------------------------------
(* The parameters of commands.                                             *)

Questions == {"parameter", "repo_id", "repo_slug"}

(* The case the property is about: the user gave neither owner nor name,   *)
(* or both of one repository. *)
Unambiguous ==
    Cardinality(CP!Selected) = 1 \/ ~(CP!Given("owner") \/ CP!Given("repo"))

(* A value that is bound is one of a repository that the links allow.      *)
BoundToCandidates ==
    \A n \in DOMAIN values :
        values[n] = CP!Missing \/ \E r \in CP!Candidates : values[n] = r[n]

CommandInv ==
    /\ command \in Commands /\ linked \subseteq Repos /\ Repos # {}
    /\ index \in Nat \ {0}
    /\ DOMAIN incoming \subseteq {"owner", "repo"} \cup Questions
    /\ DOMAIN values \subseteq CP!RepoParameters
    /\ commandPc = "asking" => asked.name \in Questions
    /\ commandPc \in {"start", "secrets"} => DOMAIN values = {}
    /\ commandPc \in {"mapped", "ran"} /\ steady /\ Unambiguous => BoundToCandidates

LEMMA SameCardinality == \A S : CP!Cardinality(S) = Cardinality(S)
BY DEF CP!Cardinality, Cardinality

LEMMA CurrentName ==
    ASSUME CommandInv, index <= Len(command.mapped)
    PROVE  CP!Current.name \in CP!RepoParameters
<1>1. command \in CP!Command /\ index \in 1..Len(command.mapped)
  BY MachineAssumption DEF CommandInv, CP!Command
<1>2. command.mapped[index] \in CP!MappedParameter
  BY <1>1 DEF CP!Command
<1> QED
  BY <1>2 DEF CP!Current, CP!MappedParameter

(* The repositories a value may come from are those of one owner and name. *)
LEMMA OneOfMany ==
    ASSUME CommandInv
    PROVE  /\ CP!Candidates \subseteq Repos
           /\ \A r, q \in CP!Candidates : r.owner = q.owner /\ r.repo = q.repo
<1>1. CP!Selected \subseteq Repos
  BY DEF CP!Selected, CP!Named
<1>2. \A S \in SUBSET Repos : CP!Cardinality(S) = 1 => \A r, q \in S : r = q
  <2> TAKE S \in SUBSET Repos
  <2>1. IsFiniteSet(S)
    BY FS_Subset, MachineAssumption
  <2> QED
    BY <2>1, FS_Singleton, SameCardinality
<1>3. CASE CP!Question = CP!Missing
  <2>1. CASE CP!Cardinality(CP!Selected) = 1
    BY <1>1, <1>2, <1>3, <2>1 DEF CP!Candidates, CP!Missing
  <2>2. CASE CP!Cardinality(CP!Selected) # 1
    <3>1. CP!Cardinality(linked) = 1
      BY <1>3, <2>2 DEF CP!Question, CP!Missing
    <3> QED
      BY <1>2, <1>3, <2>2, <3>1 DEF CP!Candidates, CommandInv
  <2> QED
    BY <2>1, <2>2
<1>4. CASE CP!Question # CP!Missing /\ CP!Question = "repo_id"
  <2>1. CP!Candidates = {r \in linked : r.id = incoming["repo_id"]}
    BY <1>4 DEF CP!Candidates
  <2> QED
    BY <2>1, MachineAssumption DEF CommandInv
<1>5. CASE CP!Question # CP!Missing /\ CP!Question # "repo_id"
  <2> DEFINE chosen == {q \in Repos : q.id = incoming["repo_slug"]}
  <2>1. CP!Candidates = UNION {CP!Named(r.owner, r.repo) : r \in chosen}
    BY <1>5 DEF CP!Candidates
  <2>2. \A r, q \in chosen : r = q
    BY MachineAssumption
  <2>3. \A r \in CP!Candidates : \E q \in chosen :
            r \in Repos /\ r.owner = q.owner /\ r.repo = q.repo
    BY <2>1 DEF CP!Named
  <2> HIDE DEF chosen
  <2> QED
    BY <2>2, <2>3
<1> QED
  BY <1>3, <1>4, <1>5

LEMMA SelectedOne ==
    ASSUME CommandInv, Unambiguous, NEW n \in {"owner", "repo"}, CP!Given(n)
    PROVE  \E r \in CP!Candidates : r[n] = incoming[n]
<1>1. CP!Cardinality(CP!Selected) = 1
  BY SameCardinality DEF Unambiguous
<1>2. CP!Question = CP!Missing /\ CP!Candidates = CP!Selected
  BY <1>1 DEF CP!Question, CP!Candidates, CP!Missing
<1>3. CP!Selected # {}
  BY <1>1, SameCardinality, FS_EmptySet
<1>4. CP!Selected = CP!Named(incoming["owner"], incoming["repo"])
  BY <1>3 DEF CP!Selected
<1> QED
  BY <1>2, <1>3, <1>4 DEF CP!Named

LEMMA SameCandidates ==
    ASSUME UNCHANGED <<command, incoming, linked>>
    PROVE  CP!Candidates' = CP!Candidates /\ Unambiguous' = Unambiguous
<1>1. CP!Selected' = CP!Selected
  BY DEF CP!Selected, CP!Maps, CP!Given, CP!Named
<1>2. CP!Question' = CP!Question
  BY <1>1 DEF CP!Question
<1> QED
  BY <1>1, <1>2 DEF CP!Candidates, CP!Named, Unambiguous, CP!Given

LEMMA StepIncoming ==
    ASSUME CommandInv, CP!PopulateIncoming
    PROVE  CommandInv'
<1> DEFINE name == CP!Current.name
<1>1. /\ commandPc = "mapped" /\ CP!Given(name)
      /\ values' = CP!With(values, name, incoming[name]) /\ index' = index + 1
      /\ UNCHANGED <<command, incoming, linked, commandPc, asked, steady>>
      /\ index <= Len(command.mapped)
  BY DEF CP!PopulateIncoming, CP!Populate
<1>2. name \in CP!RepoParameters
  BY <1>1, CurrentName
<1> HIDE DEF name
<1>3. name \in {"owner", "repo"}
  BY <1>1, <1>2 DEF CommandInv, CP!Given, CP!RepoParameters, Questions
<1>4. /\ DOMAIN values' = DOMAIN values \cup {name} /\ values'[name] = incoming[name]
      /\ \A n \in DOMAIN values \ {name} : values'[n] = values[n]
  BY <1>1 DEF CP!With
<1>5. ASSUME steady, Unambiguous
      PROVE  BoundToCandidates'
  <2>1. BoundToCandidates
    BY <1>1, <1>5 DEF CommandInv
  <2>2. \E r \in CP!Candidates : r[name] = incoming[name]
    BY <1>1, <1>3, <1>5, SelectedOne
  <2>3. CP!Candidates' = CP!Candidates
    BY <1>1, SameCandidates
  <2> QED
    BY <1>4, <2>1, <2>2, <2>3 DEF BoundToCandidates, CP!Missing
<1>6. Unambiguous' = Unambiguous
  BY <1>1, SameCandidates
<1>7. index' \in Nat \ {0}
  BY <1>1 DEF CommandInv
<1> QED
  BY <1>1, <1>2, <1>4, <1>5, <1>6, <1>7 DEF CommandInv

LEMMA StepDetails ==
    ASSUME CommandInv, CP!LoadRepositoryDetails
    PROVE  CommandInv'
<1> DEFINE name == CP!Current.name
<1>1. /\ commandPc = "mapped" /\ index <= Len(command.mapped)
      /\ UNCHANGED <<command, incoming, linked, steady>>
  BY DEF CP!LoadRepositoryDetails
<1>2. name \in CP!RepoParameters
  BY <1>1, CurrentName
<1>3. CP!Candidates' = CP!Candidates /\ Unambiguous' = Unambiguous
  BY <1>1, SameCandidates
<1>4. CASE CP!HasToAsk
  <2>1. CP!Ask(CP!Question)
    BY <1>4 DEF CP!LoadRepositoryDetails
  <2>2. CP!Question \in Questions
    BY <1>4 DEF CP!HasToAsk, CP!Question, Questions
  <2>3. commandPc' = "asking" /\ asked'.name = CP!Question /\ UNCHANGED <<index, values>>
    BY <2>1 DEF CP!Ask
  <2> QED
    BY <1>1, <2>2, <2>3 DEF CommandInv
<1>5. CASE ~CP!HasToAsk /\ CP!Throws
  <2>1. commandPc' = "failed" /\ UNCHANGED <<index, values, asked>>
    BY <1>5 DEF CP!LoadRepositoryDetails
  <2> QED
    BY <1>1, <2>1 DEF CommandInv
<1>6. CASE ~CP!HasToAsk /\ ~CP!Throws
  <2>1. /\ \/ \E r \in CP!Candidates : values' = CP!With(values, name, r[name])
           \/ values' = CP!With(values, name, CP!Missing)
        /\ index' = index + 1 /\ UNCHANGED <<commandPc, asked>>
    BY <1>6 DEF CP!LoadRepositoryDetails, CP!Populate
  <2> HIDE DEF name
  <2>2. PICK value : /\ values' = CP!With(values, name, value)
                     /\ value = CP!Missing \/ \E r \in CP!Candidates : value = r[name]
    BY <2>1
  <2>3. /\ DOMAIN values' = DOMAIN values \cup {name} /\ values'[name] = value
        /\ \A n \in DOMAIN values \ {name} : values'[n] = values[n]
    BY <2>2 DEF CP!With
  <2>4. ASSUME steady, Unambiguous
        PROVE  BoundToCandidates'
    BY <1>1, <1>3, <2>2, <2>3, <2>4 DEF CommandInv, BoundToCandidates, CP!Missing
  <2>5. index' \in Nat \ {0}
    BY <2>1 DEF CommandInv
  <2> QED
    BY <1>1, <1>2, <1>3, <2>1, <2>3, <2>4, <2>5 DEF CommandInv
<1> QED
  BY <1>4, <1>5, <1>6

LEMMA CommandStep ==
    ASSUME CommandInv, CP!Next
    PROVE  CommandInv'
<1>1. CASE CP!PromptFor
  <2>1. /\ commandPc = "start" /\ commandPc' \in {"asking", "secrets"}
        /\ commandPc' = "asking" => asked'.name = "parameter"
        /\ UNCHANGED <<command, incoming, linked, index, values>>
    BY <1>1 DEF CP!PromptFor, CP!Ask
  <2> QED
    BY <2>1 DEF CommandInv, Questions
<1>2. CASE CP!PopulateSecrets
  <2>1. /\ commandPc = "secrets" /\ commandPc' \in {"interrupted", "mapped"}
        /\ UNCHANGED <<command, incoming, linked, index, values>>
    BY <1>2 DEF CP!PopulateSecrets
  <2> QED
    BY <2>1 DEF CommandInv, BoundToCandidates
<1>3. CASE CP!Handle
  <2>1. /\ commandPc = "mapped" /\ commandPc' \in {"failed", "ran"}
        /\ UNCHANGED <<command, incoming, linked, index, values, asked, steady>>
    BY <1>3 DEF CP!Handle
  <2>2. CP!Candidates' = CP!Candidates /\ Unambiguous' = Unambiguous
    BY <2>1, SameCandidates
  <2> QED
    BY <2>1, <2>2 DEF CommandInv, BoundToCandidates
<1>4. CASE CP!Answer
  <2>1. PICK value : incoming' = CP!With(incoming, asked.name, value)
    BY <1>4 DEF CP!Answer
  <2>2. /\ commandPc = "asking" /\ commandPc' = "start" /\ index' = 1 /\ values' = <<>>
        /\ UNCHANGED <<command, linked>>
    BY <1>4 DEF CP!Answer
  <2>3. DOMAIN incoming' = DOMAIN incoming \cup {asked.name}
    BY <2>1 DEF CP!With
  <2> QED
    BY <2>2, <2>3 DEF CommandInv
<1>5. CASE CP!LinkOrUnlink
  <2>1. /\ linked' \subseteq Repos /\ steady' = FALSE
        /\ UNCHANGED <<command, incoming, commandPc, index, values, asked>>
    BY <1>5 DEF CP!LinkOrUnlink, CommandInv
  <2> QED
    BY <2>1 DEF CommandInv
<1> QED
  BY <1>1, <1>2, <1>3, <1>4, <1>5, StepIncoming, StepDetails DEF CP!Next, CP!Step

LEMMA CommandStart == CP!Init => CommandInv
<1> SUFFICES ASSUME CP!Init PROVE CommandInv
  OBVIOUS
<1>1. Repos # {} /\ DOMAIN incoming \subseteq {"owner", "repo"}
  BY DEF CP!Init
<1>2. /\ command \in Commands /\ linked \subseteq Repos /\ index = 1 /\ values = <<>>
      /\ commandPc = "start"
  BY DEF CP!Init
<1> QED
  BY <1>1, <1>2 DEF CommandInv

LEMMA CommandHolds == CommandInv => CP!OneRepository
<1> SUFFICES ASSUME CommandInv, commandPc = "ran", steady, Unambiguous
             PROVE  CP!RunsForOneRepository
  BY SameCardinality DEF CP!OneRepository, Unambiguous
<1>1. BoundToCandidates /\ DOMAIN values \subseteq CP!RepoParameters
  BY DEF CommandInv
<1>2. CASE CP!Candidates = {}
  BY <1>1, <1>2 DEF CommandInv, BoundToCandidates, CP!RunsForOneRepository
<1>3. CASE CP!Candidates # {}
  <2>1. PICK q \in CP!Candidates :
            "provider" \in DOMAIN values => values["provider"] \in {CP!Missing, q["provider"]}
    BY <1>1, <1>3 DEF BoundToCandidates
  <2>2. q \in Repos
    BY OneOfMany
  <2>3. \A n \in DOMAIN values : values[n] \in {CP!Missing, q[n]}
    <3> TAKE n \in DOMAIN values
    <3>1. n \in {"owner", "repo", "provider"}
      BY <1>1 DEF CP!RepoParameters
    <3>2. \A r \in CP!Candidates : r.owner = q.owner /\ r.repo = q.repo
      BY OneOfMany
    <3> QED
      BY <1>1, <2>1, <3>1, <3>2 DEF BoundToCandidates
  <2> QED
    BY <2>2, <2>3 DEF CP!RunsForOneRepository
<1> QED
  BY <1>2, <1>3

RepositoryInv == part = "command" => CommandInv

LEMMA RepositoryStep ==
    ASSUME RepositoryInv, [NextPart]_allVars
    PROVE  RepositoryInv'
<1>1. part' = part
  BY DEF NextPart, allVars, StepJobs, StepJobSpec, StepFile, StepCommand, StepYaml
<1>2. CASE part = "command" /\ StepCommand
  BY <1>1, <1>2, CommandStep DEF RepositoryInv, StepCommand
<1>3. CASE part = "command" /\ UNCHANGED allVars
  <2>1. UNCHANGED CommandVars
    BY <1>3 DEF allVars
  <2>2. CP!Candidates' = CP!Candidates /\ Unambiguous' = Unambiguous
    BY <2>1, SameCandidates DEF CommandVars
  <2>3. CommandInv'
    BY <1>3, <2>1, <2>2 DEF RepositoryInv, CommandInv, CommandVars, BoundToCandidates
  <2> QED
    BY <1>1, <1>3, <2>3 DEF RepositoryInv
<1>4. CASE part # "command"
  BY <1>1, <1>4 DEF RepositoryInv
<1> QED
  BY <1>2, <1>3, <1>4 DEF NextPart, StepJobs, StepJobSpec, StepFile, StepYaml

(* A command runs with owner, name and provider of one repository, however *)
(* often the user was asked and the listener called anew (mapCommand).     *)
THEOREM OneRepositoryHolds == Parts => []OneRepository
<1>1. InitPart => RepositoryInv
  BY CommandStart DEF InitPart, RepositoryInv
<1>2. RepositoryInv /\ [NextPart]_allVars => RepositoryInv'
  BY RepositoryStep
<1>3. RepositoryInv => OneRepository
  BY CommandHolds DEF RepositoryInv, OneRepository
<1> QED
  BY <1>1, <1>2, <1>3, PTL DEF Parts

---------------------------------------------------------------------------
(* The jobs made of container goals.                                       *)

Own(secrets, n) == JS!ContainerService(JS!Called, secrets, n)

(* The services of a job, of which own is the goal's. *)
Beside(own) ==
    IF ~JS!HasDatabase THEN <<own>>
    ELSE IF goal.service = "before" THEN <<JS!OtherService, own>> ELSE <<own, JS!OtherService>>

(* The data of a goal is what its callback left of the registration, and a *)
(* job is that of the service made of it, beside another one at most. *)
SpecInv ==
    /\ goal \in ContainerGoals
    /\ scheduled \in Nat
    /\ pc \in {"plan", "failed", "planned", "redirected", "job", "running"}
    /\ pc = "plan" => data.registration = JS!None
    /\ pc \in {"planned", "redirected", "job", "running"} => data.registration = JS!Called
    /\ pc = "planned" => goal.where = "k8s"
    /\ pc = "redirected" => goal.where = "faas"
    /\ pc \in {"planned", "job", "running"} /\ goal.where = "k8s" =>
         data.services = Beside(Own(goal.secrets, 1))
    /\ pc \in {"job", "running"} =>
         \E n \in Nat \ {0} : job = JS!Job(Beside(Own(JS!Mounted, n)))
    /\ pc = "running" => JS!IsAccepted
    /\ pc = "running" => writtenSecrets = JS!FilesOf(JS!Called.secrets)

LEMMA CalledType ==
    ASSUME goal \in ContainerGoals
    PROVE  /\ JS!Called.containers \in Seq(STRING) /\ JS!Called.containers # <<>>
           /\ JS!Called.containers[1] = goal.containers[1]
           /\ \A i \in DOMAIN JS!Called.containers : JS!Called.containers[i] # "copy"
           /\ goal.secrets \subseteq JS!Called.secrets
           /\ JS!Called = [containers |-> JS!Called.containers, secrets |-> JS!Called.secrets]
<1>1. goal.containers \in Seq(STRING) /\ goal.containers # <<>>
  BY MachineAssumption DEF JS!AreContainerGoals, JS!Goal
<1>2. goal.containers[1] \in STRING /\ 1 \in DOMAIN goal.containers
  BY <1>1
<1>6. JS!Called.containers \in {goal.containers, <<goal.containers[1]>>}
  BY DEF JS!Called
<1>7. \A i \in DOMAIN goal.containers : goal.containers[i] # "copy"
  BY MachineAssumption DEF JS!AreContainerGoals
<1>8. CASE JS!Called.containers = goal.containers
  BY <1>1, <1>7, <1>8 DEF JS!Called
<1>9. CASE JS!Called.containers = <<goal.containers[1]>>
  <2>1. /\ DOMAIN JS!Called.containers = {1} /\ JS!Called.containers[1] = goal.containers[1]
        /\ JS!Called.containers # <<>>
    BY <1>9
  <2>2. JS!Called.containers \in Seq(STRING)
    BY <1>2, <1>9
  <2>3. JS!Called = [containers |-> JS!Called.containers, secrets |-> JS!Called.secrets]
    BY DEF JS!Called
  <2>4. goal.secrets \subseteq JS!Called.secrets
    BY DEF JS!Called
  <2> QED
    BY <1>2, <1>7, <2>1, <2>2, <2>3, <2>4
<1> QED
  BY <1>6, <1>8, <1>9

LEMMA MergeCalled ==
    ASSUME goal \in ContainerGoals
    PROVE  JS!Merge(JS!None, JS!Called) = JS!Called /\ JS!Merge(JS!Called, JS!Called) = JS!Called
<1>1. JS!Called.containers \in Seq(STRING)
  BY CalledType
<1>2. JS!Called = [containers |-> JS!Called.containers, secrets |-> JS!Called.secrets]
  BY CalledType
<1>3. JS!None.containers = <<>> /\ JS!None.secrets = {}
  BY DEF JS!None
<1>4. DOMAIN <<>> = {} /\ <<>> \in Seq(STRING)
  OBVIOUS
<1>5. JS!Merge(JS!None, JS!Called) = [containers |-> JS!Called.containers, secrets |-> JS!Called.secrets]
  <2>1. [i \in DOMAIN JS!None.containers \cup DOMAIN JS!Called.containers |->
            IF i \in DOMAIN JS!Called.containers THEN JS!Called.containers[i]
            ELSE JS!None.containers[i]] = JS!Called.containers
    BY <1>1, <1>3, <1>4
  <2>2. JS!None.secrets \cup JS!Called.secrets = JS!Called.secrets
    BY <1>3
  <2> QED
    BY <2>1, <2>2 DEF JS!Merge
<1>6. JS!Merge(JS!Called, JS!Called) = [containers |-> JS!Called.containers, secrets |-> JS!Called.secrets]
  <2>1. [i \in DOMAIN JS!Called.containers \cup DOMAIN JS!Called.containers |->
            IF i \in DOMAIN JS!Called.containers THEN JS!Called.containers[i]
            ELSE JS!Called.containers[i]] = JS!Called.containers
    BY <1>1
  <2>2. JS!Called.secrets \cup JS!Called.secrets = JS!Called.secrets
    OBVIOUS
  <2> QED
    BY <2>1, <2>2 DEF JS!Merge
<1> QED
  BY <1>2, <1>5, <1>6

LEMMA Joined ==
    ASSUME NEW one, NEW other
    PROVE  <<one>> \o <<other>> = <<one, other>> /\ <<>> \o <<one>> = <<one>>
<1> DEFINE both == {one, other}
<1>1. <<one>> \in Seq(both) /\ <<other>> \in Seq(both) /\ <<>> \in Seq(both)
  OBVIOUS
<1>2. <<one, other>> \in Seq(both)
  OBVIOUS
<1>3. /\ <<one>> \o <<other>> \in Seq(both) /\ Len(<<one>> \o <<other>>) = 2
      /\ (<<one>> \o <<other>>)[1] = one /\ (<<one>> \o <<other>>)[2] = other
  BY <1>1
<1> HIDE DEF both
<1>4. <<>> \o <<one>> = <<one>>
  BY <1>1, ConcatEmptySeq
<1>5. Len(<<one, other>>) = 2 /\ <<one, other>>[1] = one /\ <<one, other>>[2] = other
  OBVIOUS
<1>6. ASSUME NEW s \in Seq(both), NEW t \in Seq(both), Len(s) = 2, Len(t) = 2,
             s[1] = t[1], s[2] = t[2]
      PROVE  s = t
  BY <1>6, SeqEqual
<1>7. <<one>> \o <<other>> = <<one, other>>
  BY <1>2, <1>3, <1>5, <1>6
<1> QED
  BY <1>4, <1>7

LEMMA SameGoal ==
    ASSUME UNCHANGED goal
    PROVE  /\ JS!Called' = JS!Called /\ JS!Mounted' = JS!Mounted
           /\ \A n : Beside(Own(JS!Mounted, n))' = Beside(Own(JS!Mounted, n))
           /\ Beside(Own(goal.secrets, 1))' = Beside(Own(goal.secrets, 1))
           /\ \A services : JS!Job(services)' = JS!Job(services)
BY DEF JS!Called, JS!Mounted, Own, JS!ContainerService, JS!CopyContainer, JS!PodMounts, JS!Job,
   JS!PodContainers, JS!PodInits, JS!ContainersOf, JS!NewDirs, JS!SecretVolume, JS!IsMounted,
   Beside, JS!HasDatabase

LEMMA SameJob ==
    ASSUME UNCHANGED <<goal, job>>
    PROVE  /\ JS!IsAccepted' = JS!IsAccepted
           /\ \A n : (job = JS!Job(Beside(Own(JS!Mounted, n))))' =
                    (job = JS!Job(Beside(Own(JS!Mounted, n))))
BY SameGoal DEF JS!IsAccepted, JS!Boxes

LEMMA SpecStep ==
    ASSUME SpecInv, JS!Next
    PROVE  SpecInv'
<1>1. goal' = goal
  BY DEF JS!Next, JS!Plan, JS!Redirect, JS!Schedule, JS!ScheduleK8sJob, JS!Refuse, JS!RunInit, JS!Restart
<1>2. /\ JS!Called' = JS!Called /\ JS!Mounted' = JS!Mounted
      /\ \A n : Beside(Own(JS!Mounted, n))' = Beside(Own(JS!Mounted, n))
      /\ Beside(Own(goal.secrets, 1))' = Beside(Own(goal.secrets, 1))
      /\ \A services : JS!Job(services)' = JS!Job(services)
  BY <1>1, SameGoal
<1>3. goal \in ContainerGoals
  BY DEF SpecInv
<1>4. ASSUME NEW services, JS!CreateJob(services), NEW n \in Nat \ {0},
             services = Beside(Own(JS!Mounted, n))
      PROVE  /\ pc' \in {"failed", "job"} /\ scheduled' \in Nat
             /\ pc' = "job" =>
                  \E m \in Nat \ {0} : job' = JS!Job(Beside(Own(JS!Mounted, m)))
  BY <1>4 DEF JS!CreateJob, SpecInv
<1>5. CASE JS!Plan
  <2>1. /\ pc = "plan" /\ goal.where = "k8s" /\ UNCHANGED <<job, writtenSecrets, scheduled>>
        /\ pc' \in {"failed", "planned"}
    BY <1>5 DEF JS!Plan
  <2>2. ASSUME pc' = "planned"
        PROVE  /\ data'.registration = JS!Called
               /\ data'.services = Beside(Own(goal.secrets, 1))
    <3> DEFINE own == JS!ContainerService(JS!Called, goal.secrets, 1)
    <3>1. data' = [registration |-> JS!Merge(data.registration, JS!Called),
                   services |-> CASE goal.service = "before" -> <<JS!OtherService>> \o <<own>>
                                  [] goal.service = "after" -> <<own>> \o <<JS!OtherService>>
                                  [] OTHER -> <<own>>]
      BY <1>5, <2>2 DEF JS!Plan
    <3>2. data'.registration = JS!Called
      BY <1>3, <2>1, <3>1, MergeCalled DEF SpecInv
    <3>3. own = Own(goal.secrets, 1)
      BY DEF Own
    <3> HIDE DEF own
    <3>4. /\ <<JS!OtherService>> \o <<own>> = <<JS!OtherService, own>>
          /\ <<own>> \o <<JS!OtherService>> = <<own, JS!OtherService>>
      BY Joined
    <3>5. data'.services = IF ~JS!HasDatabase THEN <<own>>
                           ELSE IF goal.service = "before" THEN <<JS!OtherService, own>>
                           ELSE <<own, JS!OtherService>>
      <4>1. goal.service \in {"none", "before", "after"}
        BY <1>3, MachineAssumption DEF JS!AreContainerGoals, JS!Goal
      <4> QED
        BY <2>1, <3>1, <3>4, <4>1 DEF JS!HasDatabase
    <3> QED
      BY <3>2, <3>3, <3>5 DEF Beside
  <2> QED
    BY <1>1, <1>2, <2>1, <2>2 DEF SpecInv
<1>6. CASE JS!Redirect
  <2>1. /\ pc = "plan" /\ goal.where = "faas" /\ UNCHANGED <<job, writtenSecrets, scheduled>>
        /\ pc' = "redirected" /\ data'.registration = JS!Merge(data.registration, JS!Called)
    BY <1>6 DEF JS!Redirect
  <2>2. data'.registration = JS!Called
    BY <1>3, <2>1, MergeCalled DEF SpecInv
  <2> QED
    BY <1>1, <1>2, <2>1, <2>2 DEF SpecInv
<1>7. CASE JS!Schedule
  <2>1. pc = "planned" /\ UNCHANGED <<data, writtenSecrets>> /\ JS!CreateJob(data.services)
    BY <1>7 DEF JS!Schedule
  <2>2. data.services = Beside(Own(goal.secrets, 1)) /\ goal.where = "k8s"
    BY <2>1 DEF SpecInv
  <2>3. JS!Mounted = goal.secrets
    BY <2>2 DEF JS!Mounted
  <2>4. /\ pc' \in {"failed", "job"} /\ scheduled' \in Nat
        /\ pc' = "job" =>
             \E m \in Nat \ {0} : job' = JS!Job(Beside(Own(JS!Mounted, m)))
    BY <1>4, <2>1, <2>2, <2>3
  <2> QED
    BY <1>1, <1>2, <2>1, <2>2, <2>4 DEF SpecInv
<1>8. CASE JS!ScheduleK8sJob
  <2> DEFINE services == JS!WipedOut(data.services) \o
                 <<JS!ContainerService(data.registration, data.registration.secrets, scheduled + 1)>>
  <2>1. /\ pc = "redirected" /\ UNCHANGED writtenSecrets
        /\ \/ pc' = "failed" /\ UNCHANGED <<data, job, scheduled>>
           \/ /\ data' = [registration |-> JS!Merge(data.registration, data.registration),
                          services |-> services]
              /\ JS!CreateJob(services)
    BY <1>8 DEF JS!ScheduleK8sJob
  <2>2. data.registration = JS!Called /\ goal.where = "faas" /\ scheduled \in Nat
    BY <2>1 DEF SpecInv
  <2>3. JS!Mounted = JS!Called.secrets
    BY <2>2 DEF JS!Mounted
  <2>4. services = <<Own(JS!Mounted, scheduled + 1)>>
    BY <2>2, <2>3, Joined DEF JS!WipedOut, Own
  <2> HIDE DEF services
  <2>5. CASE pc' = "failed" /\ UNCHANGED <<data, job, scheduled>>
    BY <1>1, <2>1, <2>5 DEF SpecInv
  <2>6. CASE /\ data' = [registration |-> JS!Merge(data.registration, data.registration),
                         services |-> services]
             /\ JS!CreateJob(services)
    <3>1. data'.registration = JS!Called
      BY <1>3, <2>2, <2>6, MergeCalled
    <3>2. services = Beside(Own(JS!Mounted, scheduled + 1)) /\ scheduled + 1 \in Nat \ {0}
      BY <2>2, <2>4 DEF Beside, JS!HasDatabase
    <3>3. /\ pc' \in {"failed", "job"} /\ scheduled' \in Nat
          /\ pc' = "job" =>
               \E m \in Nat \ {0} : job' = JS!Job(Beside(Own(JS!Mounted, m)))
      BY <1>4, <2>6, <3>2
    <3> QED
      BY <1>1, <1>2, <2>1, <2>2, <3>1, <3>3 DEF SpecInv
  <2> QED
    BY <2>1, <2>5, <2>6
<1>9. CASE JS!Refuse
  <2>1. pc = "job" /\ pc' = "failed" /\ UNCHANGED <<data, job, writtenSecrets, scheduled>>
    BY <1>9 DEF JS!Refuse
  <2> QED
    BY <1>1, <1>2, <2>1 DEF SpecInv
<1>10. CASE JS!RunInit
  <2>1. /\ pc = "job" /\ writtenSecrets' = JS!FilesOf(data.registration.secrets)
        /\ pc' = "running" /\ UNCHANGED <<data, job, scheduled>> /\ JS!IsAccepted
    BY <1>10 DEF JS!RunInit
  <2>2. writtenSecrets' = JS!FilesOf(JS!Called.secrets)
    BY <2>1 DEF SpecInv
  <2>3. JS!IsAccepted'
    BY <1>1, <2>1, SameJob
  <2> QED
    BY <1>1, <1>2, <2>1, <2>2, <2>3 DEF SpecInv
<1>11. CASE JS!Restart
  <2>1. /\ pc = "running" /\ pc' = IF goal.where = "k8s" THEN "planned" ELSE "redirected"
        /\ UNCHANGED <<data, job, scheduled>>
    BY <1>11 DEF JS!Restart
  <2>2. goal.where \in {"k8s", "faas"}
    BY <1>3, MachineAssumption DEF JS!AreContainerGoals, JS!Goal
  <2> QED
    BY <1>1, <1>2, <2>1, <2>2 DEF SpecInv
<1> QED
  BY <1>5, <1>6, <1>7, <1>8, <1>9, <1>10, <1>11 DEF JS!Next

LEMMA SpecStart == JS!Init => SpecInv
BY DEF JS!Init, SpecInv

(* The mounts of a job: files of secrets, directories of secrets, and those*)
(* that are there for every goal. *)
FileMounts(n) ==
    {JS!Mount(JS!FilePath(s), JS!SecretVolume(s.dir, n), {s}) : s \in JS!Files}
CopyMounts(n) ==
    {JS!Mount(d, JS!SecretVolume(d, n), {}) : d \in JS!NewDirs(JS!Mounted)}
SharedMount == JS!Mount(JS!SharedPath, JS!SharedVolume, {})

Solo(mounts) == \A m, k \in mounts : k.path = m.path => k = m

LEMMA MountFields ==
    ASSUME NEW p, NEW volume, NEW secret
    PROVE  /\ JS!Mount(p, volume, secret).path = p
           /\ JS!Mount(p, volume, secret).volume = volume
           /\ JS!Mount(p, volume, secret).secret = secret
BY DEF JS!Mount

LEMMA PathsDiffer ==
    JS!CachePath \notin JS!IoPaths /\ JS!SharedPath \notin JS!IoPaths /\ JS!CachePath # JS!SharedPath
BY DEF JS!CachePath, JS!SharedPath, JS!IoPaths, JS!ContainerProjectHome, JS!ContainerInput,
   JS!ContainerOutput

LEMMA IoMountsAre ==
    ASSUME NEW n, NEW m
    PROVE  m \in JS!IoMounts(n) <=> \E p \in JS!IoPaths : m = JS!Mount(p, JS!Volume("io", p, n), {})
BY Zenon DEF JS!IoMounts

LEMMA SoloMounts ==
    ASSUME NEW n
    PROVE  Solo(JS!PodMounts \cup JS!IoMounts(n) \cup {SharedMount})
<1>1. \A m \in JS!PodMounts : m = JS!Mount(JS!CachePath, JS!HostVolume, {}) /\ m.path = JS!CachePath
  BY MountFields DEF JS!PodMounts
<1>2. ASSUME NEW m \in JS!IoMounts(n)
      PROVE  m.path \in JS!IoPaths /\ m = JS!Mount(m.path, JS!Volume("io", m.path, n), {})
  <2>1. PICK p \in JS!IoPaths : m = JS!Mount(p, JS!Volume("io", p, n), {})
    BY IoMountsAre
  <2> QED
    BY <2>1, MountFields
<1>3. SharedMount.path = JS!SharedPath
  BY MountFields DEF SharedMount
<1> QED
  BY <1>1, <1>2, <1>3, PathsDiffer DEF Solo

(* Files of secrets have paths of their own unless the goal asks for others*)
LEMMA SoloFiles ==
    ASSUME NEW n, ~JS!FilesClash
    PROVE  /\ Solo(FileMounts(n)) /\ Solo(CopyMounts(n))
           /\ \A m \in FileMounts(n) \cup CopyMounts(n) : m.path \notin JS!Taken
           /\ \A m \in CopyMounts(n), k \in JS!PodMounts : m.path # k.path
<1>1. ASSUME NEW m \in FileMounts(n)
      PROVE  \E s \in JS!Files :
                /\ m = JS!Mount(JS!FilePath(s), JS!SecretVolume(s.dir, n), {s})
                /\ m.path = JS!FilePath(s)
  <2>1. PICK s \in JS!Files : m = JS!Mount(JS!FilePath(s), JS!SecretVolume(s.dir, n), {s})
    BY Zenon DEF FileMounts
  <2>2. m.path = JS!FilePath(s)
    BY <2>1, MountFields
  <2> QED
    BY <2>1, <2>2
<1>2. ASSUME NEW m \in CopyMounts(n)
      PROVE  \E s \in JS!Files :
                /\ m = JS!Mount(s.dir, JS!SecretVolume(s.dir, n), {})
                /\ m.path = s.dir /\ ~JS!IsMounted(s.dir)
  <2>1. PICK d \in JS!NewDirs(JS!Mounted) : m = JS!Mount(d, JS!SecretVolume(d, n), {})
    BY Zenon DEF CopyMounts
  <2>2. PICK s \in JS!Files : s.dir = d /\ ~JS!IsMounted(d)
    BY Zenon DEF JS!NewDirs, JS!Files
  <2> QED
    BY <2>1, <2>2, MountFields
<1>3. ASSUME NEW s \in JS!Files
      PROVE  /\ s.dir \notin JS!Taken /\ JS!FilePath(s) \notin JS!Taken
             /\ \A o \in JS!Files : JS!FilePath(o) = JS!FilePath(s) => o = s
  BY DEF JS!FilesClash
<1>4. Solo(FileMounts(n))
  BY <1>1, <1>3 DEF Solo
<1>5. Solo(CopyMounts(n))
  BY <1>2 DEF Solo
<1>6. \A m \in FileMounts(n) \cup CopyMounts(n) : m.path \notin JS!Taken
  BY <1>1, <1>2, <1>3
<1>7. \A k \in JS!PodMounts : k.path = JS!CachePath /\ goal.podCache
  BY MountFields DEF JS!PodMounts
<1>8. \A m \in CopyMounts(n), k \in JS!PodMounts : m.path # k.path
  BY <1>2, <1>7 DEF JS!IsMounted
<1> QED
  BY <1>4, <1>5, <1>6, <1>8

LEMMA SoloUnion ==
    ASSUME NEW A, NEW B, Solo(A), Solo(B), \A m \in A, k \in B : m.path # k.path
    PROVE  Solo(A \cup B)
BY DEF Solo

LEMMA BoxFields ==
    ASSUME NEW name, NEW env, NEW mounts
    PROVE  JS!Box(name, env, mounts).name = name /\ JS!Box(name, env, mounts).mounts = mounts
BY DEF JS!Box

(* What a service, alone or beside another one, gives the job. *)
Around(services, own, n) ==
    /\ own \in DOMAIN services /\ services[own] = Own(JS!Mounted, n)
    /\ Len(services) \in Nat /\ DOMAIN services = 1..Len(services)
    /\ \A k \in DOMAIN services \ {own} :
         services[k] = JS!OtherService /\ JS!HasDatabase /\ (own < k => goal.service = "after")
    /\ \A k, l \in DOMAIN services \ {own} : k = l

LEMMA Arranged ==
    ASSUME goal \in ContainerGoals, NEW n, NEW services, services = Beside(Own(JS!Mounted, n))
    PROVE  \E own \in DOMAIN services : Around(services, own, n)
<1> DEFINE service == Own(JS!Mounted, n)
<1>1. ASSUME NEW one, NEW other
      PROVE  /\ Len(<<one>>) = 1 /\ DOMAIN <<one>> = 1..1 /\ <<one>>[1] = one
             /\ Len(<<one, other>>) = 2 /\ DOMAIN <<one, other>> = 1..2
             /\ <<one, other>>[1] = one /\ <<one, other>>[2] = other
  OBVIOUS
<1>5. goal.service \in {"none", "before", "after"}
  BY MachineAssumption DEF JS!AreContainerGoals, JS!Goal
<1> HIDE DEF service
<1>2. CASE services = <<service>>
  <2>1. Len(services) = 1 /\ DOMAIN services = 1..1 /\ services[1] = service
    BY <1>1, <1>2
  <2>2. Around(services, 1, n)
    BY <2>1 DEF Around, service
  <2> QED
    BY <2>1, <2>2
<1>3. CASE JS!HasDatabase /\ services = <<JS!OtherService, service>>
  <2>1. /\ Len(services) = 2 /\ DOMAIN services = 1..2 /\ services[1] = JS!OtherService
        /\ services[2] = service
    BY <1>1, <1>3
  <2>2. Around(services, 2, n)
    BY <1>3, <2>1 DEF Around, service
  <2> QED
    BY <2>1, <2>2
<1>4. CASE JS!HasDatabase /\ goal.service = "after" /\ services = <<service, JS!OtherService>>
  <2>1. /\ Len(services) = 2 /\ DOMAIN services = 1..2 /\ services[1] = service
        /\ services[2] = JS!OtherService
    BY <1>1, <1>4
  <2>2. Around(services, 1, n)
    BY <1>4, <2>1 DEF Around, service
  <2> QED
    BY <2>1, <2>2
<1> QED
  BY <1>2, <1>3, <1>4, <1>5 DEF Beside, JS!HasDatabase, service

LEMMA ServiceFields ==
    ASSUME NEW secrets, NEW n
    PROVE  /\ Own(secrets, n).containers = JS!ContainersOf(JS!Called, secrets, n)
           /\ Own(secrets, n).inits = <<JS!CopyContainer(secrets, n)>>
           /\ Own(secrets, n).mounts = JS!IoMounts(n)
           /\ Own(secrets, n).volumes = {m.volume : m \in JS!IoMounts(n)}
                 \cup {JS!SecretVolume(d, n) : d \in JS!NewDirs(secrets)}
           /\ JS!OtherService.containers = <<JS!Box("db", {}, {})>>
           /\ JS!OtherService.inits = <<>>
           /\ JS!OtherService.mounts = {SharedMount}
           /\ JS!OtherService.volumes = {JS!SharedVolume}
BY DEF Own, JS!ContainerService, JS!OtherService, SharedMount

(* The boxes a job starts from, and the mounts they get. *)
Containers(services) ==
    [k \in 0..Len(services) |-> IF k = 0 THEN JS!PodContainers ELSE services[k].containers]
Inits(services) ==
    [k \in 0..Len(services) |-> IF k = 0 THEN JS!PodInits ELSE services[k].inits]
Added(k, services) == UNION {services[l].mounts : l \in {j \in DOMAIN services : k <= j}}

LEMMA JobFields ==
    ASSUME NEW services
    PROVE  /\ JS!Job(services).containers = JS!WithMounts(Containers(services), services)
           /\ JS!Job(services).inits = JS!WithMounts(Inits(services), services)
           /\ JS!Job(services).volumes = {m.volume : m \in JS!PodMounts}
                 \cup UNION {services[k].volumes : k \in DOMAIN services}
BY DEF JS!Job, Containers, Inits

LEMMA WithMountsAt ==
    ASSUME NEW boxes, NEW services
    PROVE  /\ \A p : p \in DOMAIN JS!WithMounts(boxes, services) <=>
                 \E k \in 0..Len(services) : \E i \in DOMAIN boxes[k] : p = <<k, i>>
           /\ \A k \in 0..Len(services) : \A i \in DOMAIN boxes[k] :
                 JS!WithMounts(boxes, services)[<<k, i>>] =
                     [boxes[k][i] EXCEPT !.mounts = @ \cup Added(k, services)]
<1> DEFINE pairs == UNION {{k} \X DOMAIN boxes[k] : k \in 0..Len(services)}
<1>1. \A p : p \in pairs <=> \E k \in 0..Len(services) : \E i \in DOMAIN boxes[k] : p = <<k, i>>
  OBVIOUS
<1>2. JS!WithMounts(boxes, services) =
          [p \in pairs |-> [boxes[p[1]][p[2]] EXCEPT !.mounts = @ \cup Added(p[1], services)]]
  BY DEF JS!WithMounts, Added
<1>3. DOMAIN JS!WithMounts(boxes, services) = pairs
  BY <1>2
<1> HIDE DEF pairs
<1>4. ASSUME NEW k \in 0..Len(services), NEW i \in DOMAIN boxes[k]
      PROVE  JS!WithMounts(boxes, services)[<<k, i>>] =
                 [boxes[k][i] EXCEPT !.mounts = @ \cup Added(k, services)]
  <2>1. <<k, i>> \in pairs
    BY <1>1
  <2>2. <<k, i>>[1] = k /\ <<k, i>>[2] = i
    OBVIOUS
  <2> QED
    BY <1>2, <2>1, <2>2
<1> QED
  BY <1>1, <1>3, <1>4

(* What a box is before the mounts of the services join it. *)
ContainerOf(services, own, n, k, i) ==
    LET b == Containers(services)[k][i]
    IN  \/ /\ k = 0 /\ i = 1 /\ b.name = "sdm" /\ b.mounts = JS!PodMounts
        \/ /\ k = own /\ i \in DOMAIN JS!Called.containers
           /\ b.name = JS!Called.containers[i] /\ b.mounts = FileMounts(n)
        \/ /\ k \in DOMAIN services \ {own} /\ i = 1 /\ b.name = "db" /\ b.mounts = {}

InitOf(services, own, n, k, i) ==
    LET b == Inits(services)[k][i]
    IN  \/ k = 0 /\ i = 1 /\ goal.podInit /\ b.name = "setup" /\ b.mounts = {}
        \/ /\ k = own /\ i = 1 /\ b.name = "copy"
           /\ b.mounts = JS!PodMounts \cup CopyMounts(n)

IsBox(b) == \E name, env, mounts : b = JS!Box(name, env, mounts)

LEMMA BoxWith ==
    ASSUME NEW b, IsBox(b), NEW added
    PROVE  /\ [b EXCEPT !.mounts = @ \cup added].name = b.name
           /\ [b EXCEPT !.mounts = @ \cup added].mounts = b.mounts \cup added
BY DEF IsBox, JS!Box

LEMMA SingleBox ==
    ASSUME NEW b
    PROVE  DOMAIN <<b>> = {1} /\ <<b>>[1] = b
OBVIOUS

LEMMA FirstContainers ==
    ASSUME NEW n, NEW services, NEW own, Around(services, own, n)
    PROVE  /\ \A k \in 0..Len(services) : \A i \in DOMAIN Containers(services)[k] :
                 /\ IsBox(Containers(services)[k][i])
                 /\ ContainerOf(services, own, n, k, i)
           /\ 0 \in 0..Len(services) /\ 1 \in DOMAIN Containers(services)[0]
           /\ own \in 0..Len(services) /\ DOMAIN Containers(services)[own] = DOMAIN JS!Called.containers
<1>1. /\ Len(services) \in Nat /\ DOMAIN services = 1..Len(services) /\ own \in DOMAIN services
      /\ services[own] = Own(JS!Mounted, n)
      /\ \A k \in DOMAIN services \ {own} : services[k] = JS!OtherService
  BY DEF Around
<1>2. /\ Containers(services)[0] = JS!PodContainers
      /\ \A k \in DOMAIN services : Containers(services)[k] = services[k].containers
  BY <1>1 DEF Containers
<1>3. /\ DOMAIN JS!PodContainers = {1} /\ IsBox(JS!PodContainers[1])
      /\ JS!PodContainers[1].name = "sdm" /\ JS!PodContainers[1].mounts = JS!PodMounts
  <2> DEFINE env == {<<"ISOLATED_GOAL", "">>}
  <2>1. JS!PodContainers[1] = JS!Box("sdm", env, JS!PodMounts)
    BY SingleBox DEF JS!PodContainers
  <2> HIDE DEF env
  <2>2. DOMAIN JS!PodContainers = {1}
    BY SingleBox DEF JS!PodContainers
  <2>3. IsBox(JS!PodContainers[1])
    BY <2>1 DEF IsBox
  <2>4. JS!PodContainers[1].name = "sdm" /\ JS!PodContainers[1].mounts = JS!PodMounts
    BY <2>1 DEF JS!Box
  <2> QED
    BY <2>2, <2>3, <2>4
<1>4. /\ DOMAIN Containers(services)[own] = DOMAIN JS!Called.containers
      /\ \A i \in DOMAIN JS!Called.containers :
           /\ IsBox(Containers(services)[own][i])
           /\ Containers(services)[own][i].name = JS!Called.containers[i]
           /\ Containers(services)[own][i].mounts = FileMounts(n)
  <2>1. Containers(services)[own] = JS!ContainersOf(JS!Called, JS!Mounted, n)
    BY <1>1, <1>2, ServiceFields
  <2>2. /\ DOMAIN JS!ContainersOf(JS!Called, JS!Mounted, n) = DOMAIN JS!Called.containers
        /\ \A i \in DOMAIN JS!Called.containers : JS!ContainersOf(JS!Called, JS!Mounted, n)[i] =
             JS!Box(JS!Called.containers[i], JS!EnvOf(JS!Mounted), FileMounts(n))
    BY DEF JS!ContainersOf, FileMounts, JS!Files
  <2> QED
    BY <2>1, <2>2, BoxFields DEF IsBox
<1>5. ASSUME NEW k \in DOMAIN services \ {own}
      PROVE  /\ DOMAIN Containers(services)[k] = {1} /\ IsBox(Containers(services)[k][1])
             /\ Containers(services)[k][1].name = "db" /\ Containers(services)[k][1].mounts = {}
  <2>1. Containers(services)[k] = <<JS!Box("db", {}, {})>>
    BY <1>1, <1>2, ServiceFields
  <2>2. DOMAIN Containers(services)[k] = {1} /\ Containers(services)[k][1] = JS!Box("db", {}, {})
    BY <2>1, SingleBox
  <2> QED
    BY <2>2, BoxFields DEF IsBox
<1>6. \A k \in 0..Len(services) : k = 0 \/ k = own \/ k \in DOMAIN services \ {own}
  BY <1>1
<1>7. ASSUME NEW k \in 0..Len(services), NEW i \in DOMAIN Containers(services)[k]
      PROVE  IsBox(Containers(services)[k][i]) /\ ContainerOf(services, own, n, k, i)
  <2>1. CASE k = 0
    BY <1>2, <1>3, <2>1 DEF ContainerOf
  <2>2. CASE k = own
    BY <1>4, <2>2 DEF ContainerOf
  <2>3. CASE k \in DOMAIN services \ {own}
    BY <1>5, <2>3 DEF ContainerOf
  <2> QED
    BY <1>6, <2>1, <2>2, <2>3
<1> QED
  BY <1>1, <1>2, <1>3, <1>4, <1>7

LEMMA FirstInits ==
    ASSUME NEW n, NEW services, NEW own, Around(services, own, n)
    PROVE  /\ \A k \in 0..Len(services) : \A i \in DOMAIN Inits(services)[k] :
                 IsBox(Inits(services)[k][i]) /\ InitOf(services, own, n, k, i)
           /\ own \in 0..Len(services) /\ 1 \in DOMAIN Inits(services)[own]
<1>1. /\ Len(services) \in Nat /\ DOMAIN services = 1..Len(services) /\ own \in DOMAIN services
      /\ services[own] = Own(JS!Mounted, n)
      /\ \A k \in DOMAIN services \ {own} : services[k] = JS!OtherService
  BY DEF Around
<1>2. /\ Inits(services)[0] = JS!PodInits
      /\ \A k \in DOMAIN services : Inits(services)[k] = services[k].inits
  BY <1>1 DEF Inits
<1>3. ASSUME NEW i \in DOMAIN JS!PodInits
      PROVE  /\ IsBox(JS!PodInits[i]) /\ JS!PodInits[i].name = "setup" /\ JS!PodInits[i].mounts = {}
             /\ i = 1 /\ goal.podInit
  <2>1. \/ JS!PodInits = <<>>
        \/ goal.podInit /\ JS!PodInits = <<JS!Box("setup", {}, {})>>
    BY DEF JS!PodInits
  <2>2. DOMAIN <<>> = {}
    OBVIOUS
  <2>3. JS!PodInits[i] = JS!Box("setup", {}, {}) /\ i = 1 /\ goal.podInit
    BY <2>1, <2>2, SingleBox
  <2> QED
    BY <2>3, BoxFields DEF IsBox
<1>4. /\ DOMAIN Inits(services)[own] = {1} /\ IsBox(Inits(services)[own][1])
      /\ Inits(services)[own][1].name = "copy"
      /\ Inits(services)[own][1].mounts = JS!PodMounts \cup CopyMounts(n)
  <2>1. Inits(services)[own] = <<JS!CopyContainer(JS!Mounted, n)>>
    BY <1>1, <1>2, ServiceFields
  <2>2. JS!CopyContainer(JS!Mounted, n) = JS!Box("copy", {}, JS!PodMounts \cup CopyMounts(n))
    BY DEF JS!CopyContainer, CopyMounts
  <2>3. /\ DOMAIN Inits(services)[own] = {1}
        /\ Inits(services)[own][1] = JS!Box("copy", {}, JS!PodMounts \cup CopyMounts(n))
    BY <2>1, <2>2, SingleBox
  <2> QED
    BY <2>3, BoxFields DEF IsBox
<1>5. ASSUME NEW k \in DOMAIN services \ {own}
      PROVE  DOMAIN Inits(services)[k] = {}
  BY <1>1, <1>2, ServiceFields
<1>6. \A k \in 0..Len(services) : k = 0 \/ k = own \/ k \in DOMAIN services \ {own}
  BY <1>1
<1>7. ASSUME NEW k \in 0..Len(services), NEW i \in DOMAIN Inits(services)[k]
      PROVE  IsBox(Inits(services)[k][i]) /\ InitOf(services, own, n, k, i)
  <2>1. CASE k = 0
    BY <1>2, <1>3, <2>1 DEF InitOf
  <2>2. CASE k = own
    BY <1>4, <2>2 DEF InitOf
  <2> QED
    BY <1>5, <1>6, <2>1, <2>2
<1> QED
  BY <1>1, <1>4, <1>7

LEMMA AddedMounts ==
    ASSUME NEW n, NEW services, NEW own, Around(services, own, n),
           NEW k \in 0..Len(services)
    PROVE  /\ \A m \in Added(k, services) :
                 \/ m \in JS!IoMounts(n)
                 \/ /\ m = SharedMount /\ (\E l \in DOMAIN services : l # own)
                    /\ k = own => JS!SharedPath \in JS!Taken
           /\ k \in {0, own} => JS!IoMounts(n) \subseteq Added(k, services)
<1>1. /\ Len(services) \in Nat /\ DOMAIN services = 1..Len(services) /\ own \in DOMAIN services
      /\ services[own].mounts = JS!IoMounts(n)
      /\ \A l \in DOMAIN services \ {own} : services[l].mounts = {SharedMount}
      /\ \A l \in DOMAIN services \ {own} : JS!HasDatabase /\ (own < l => goal.service = "after")
  BY ServiceFields DEF Around
<1>2. ASSUME NEW m \in Added(k, services)
      PROVE  \/ m \in JS!IoMounts(n)
             \/ /\ m = SharedMount /\ (\E l \in DOMAIN services : l # own)
                /\ k = own => JS!SharedPath \in JS!Taken
  <2>1. PICK l \in DOMAIN services : k <= l /\ m \in services[l].mounts
    BY DEF Added
  <2>2. CASE l = own
    BY <1>1, <2>1, <2>2
  <2>3. CASE l # own
    <3>1. m = SharedMount
      BY <1>1, <2>1, <2>3
    <3>2. k = own => JS!SharedPath \in JS!Taken
      BY <1>1, <2>1, <2>3 DEF JS!Taken
    <3> QED
      BY <2>3, <3>1, <3>2
  <2> QED
    BY <2>2, <2>3
<1>3. ASSUME k \in {0, own}
      PROVE  JS!IoMounts(n) \subseteq Added(k, services)
  <2>1. own \in {j \in DOMAIN services : k <= j}
    BY <1>1, <1>3
  <2> QED
    BY <1>1, <2>1 DEF Added
<1> QED
  BY <1>2, <1>3

LEMMA JobVolumes ==
    ASSUME NEW n, NEW services, NEW own, Around(services, own, n)
    PROVE  /\ \A m \in JS!PodMounts \cup JS!IoMounts(n) \cup CopyMounts(n) :
                 m.volume \in JS!Job(services).volumes
           /\ \A m \in FileMounts(n) : m.volume \in JS!Job(services).volumes
           /\ (\E l \in DOMAIN services : l # own) => SharedMount.volume \in JS!Job(services).volumes
<1> DEFINE volumes == JS!Job(services).volumes
<1>1. /\ own \in DOMAIN services /\ services[own] = Own(JS!Mounted, n)
      /\ \A l \in DOMAIN services \ {own} : services[l] = JS!OtherService
  BY DEF Around
<1>2. volumes = {m.volume : m \in JS!PodMounts} \cup UNION {services[k].volumes : k \in DOMAIN services}
  BY JobFields
<1> HIDE DEF volumes
<1>3. \A k \in DOMAIN services : services[k].volumes \subseteq volumes
  BY <1>2
<1>4. /\ \A m \in JS!IoMounts(n) : m.volume \in services[own].volumes
      /\ \A d \in JS!NewDirs(JS!Mounted) : JS!SecretVolume(d, n) \in services[own].volumes
  BY <1>1, ServiceFields
<1>5. \A m \in JS!PodMounts \cup JS!IoMounts(n) : m.volume \in volumes
  BY <1>1, <1>2, <1>3, <1>4
<1>6. \A d \in JS!NewDirs(JS!Mounted) : JS!SecretVolume(d, n) \in volumes
  BY <1>1, <1>3, <1>4
<1>7. ASSUME NEW m \in CopyMounts(n) PROVE m.volume \in volumes
  <2>1. PICK d \in JS!NewDirs(JS!Mounted) : m = JS!Mount(d, JS!SecretVolume(d, n), {})
    BY Zenon DEF CopyMounts
  <2> QED
    BY <1>6, <2>1, MountFields
<1>8. ASSUME NEW m \in FileMounts(n) PROVE m.volume \in volumes
  <2>1. PICK s \in JS!Files : m = JS!Mount(JS!FilePath(s), JS!SecretVolume(s.dir, n), {s})
    BY Zenon DEF FileMounts
  <2>2. m.volume = JS!SecretVolume(s.dir, n)
    BY <2>1, MountFields
  <2>3. CASE JS!IsMounted(s.dir)
    <3>1. JS!Mount(JS!CachePath, JS!HostVolume, {}) \in JS!PodMounts
      BY <2>3 DEF JS!IsMounted, JS!PodMounts
    <3>2. JS!Mount(JS!CachePath, JS!HostVolume, {}).volume = JS!HostVolume
      BY MountFields
    <3>3. JS!SecretVolume(s.dir, n) = JS!HostVolume
      BY <2>3 DEF JS!SecretVolume
    <3> QED
      BY <1>5, <2>2, <3>1, <3>2, <3>3
  <2>4. CASE ~JS!IsMounted(s.dir)
    <3>1. s.dir \in JS!NewDirs(JS!Mounted)
      BY <2>4 DEF JS!NewDirs, JS!Files
    <3> QED
      BY <1>6, <2>2, <3>1
  <2> QED
    BY <2>3, <2>4
<1>9. ASSUME NEW l \in DOMAIN services, l # own
      PROVE  SharedMount.volume \in volumes
  <2>1. SharedMount.volume = JS!SharedVolume
    BY MountFields DEF SharedMount
  <2>2. JS!SharedVolume \in services[l].volumes
    BY <1>1, <1>9, ServiceFields
  <2> QED
    BY <1>3, <2>1, <2>2
<1> QED
  BY <1>5, <1>7, <1>8, <1>9 DEF volumes

(* A box whose mounts are those of the goal, those of secrets or none, and *)
(* those the services add, has them at different paths. *)
Sound(b, volumes) == Solo(b.mounts) /\ \A m \in b.mounts : m.volume \in volumes

LEMMA SoundBox ==
    ASSUME NEW n, NEW services, NEW own, Around(services, own, n), NEW k \in 0..Len(services),
           NEW first, NEW b, b.mounts = first \cup Added(k, services), ~JS!FilesClash,
           \/ first \subseteq JS!PodMounts
           \/ k = own /\ first \in {FileMounts(n), JS!PodMounts \cup CopyMounts(n)}
    PROVE  Sound(b, JS!Job(services).volumes)
<1> DEFINE volumes == JS!Job(services).volumes
           plain == JS!PodMounts \cup JS!IoMounts(n) \cup {SharedMount}
<1>1. \A m \in Added(k, services) :
         \/ m \in JS!IoMounts(n)
         \/ /\ m = SharedMount /\ (\E l \in DOMAIN services : l # own)
            /\ k = own => JS!SharedPath \in JS!Taken
  BY AddedMounts
<1>2. /\ \A m \in JS!PodMounts \cup JS!IoMounts(n) \cup CopyMounts(n) : m.volume \in volumes
      /\ \A m \in FileMounts(n) : m.volume \in volumes
      /\ (\E l \in DOMAIN services : l # own) => SharedMount.volume \in volumes
  BY JobVolumes
<1> HIDE DEF volumes
<1>3. \A m \in b.mounts : m.volume \in volumes
  BY <1>1, <1>2
<1>4. Solo(plain)
  BY SoloMounts
<1>5. Added(k, services) \subseteq plain /\ JS!PodMounts \subseteq plain
  BY <1>1
<1> HIDE DEF plain
<1>6. CASE first \subseteq JS!PodMounts
  <2>1. b.mounts \subseteq plain
    BY <1>5, <1>6
  <2>2. Solo(b.mounts)
    BY <1>4, <2>1 DEF Solo
  <2> QED
    BY <1>3, <2>2 DEF Sound, volumes
<1>7. CASE k = own /\ first \in {FileMounts(n), JS!PodMounts \cup CopyMounts(n)}
  <2> DEFINE secret == IF first = FileMounts(n) THEN FileMounts(n) ELSE CopyMounts(n)
             others == IF first = FileMounts(n) THEN Added(k, services)
                       ELSE JS!PodMounts \cup Added(k, services)
  <2>1. /\ Solo(FileMounts(n)) /\ Solo(CopyMounts(n))
        /\ \A m \in FileMounts(n) \cup CopyMounts(n) : m.path \notin JS!Taken
        /\ \A m \in CopyMounts(n), j \in JS!PodMounts : m.path # j.path
    BY SoloFiles
  <2>2. ASSUME NEW m \in Added(k, services) PROVE m.path \in JS!Taken
    <3>1. CASE m \in JS!IoMounts(n)
      <4>1. PICK p \in JS!IoPaths : m = JS!Mount(p, JS!Volume("io", p, n), {})
        BY <3>1, IoMountsAre
      <4> QED
        BY <4>1, MountFields DEF JS!Taken
    <3>2. CASE m = SharedMount /\ JS!SharedPath \in JS!Taken
      BY <3>2, MountFields DEF SharedMount
    <3> QED
      BY <1>1, <1>7, <3>1, <3>2
  <2>3. Solo(secret)
    BY <2>1
  <2>4. others \subseteq plain /\ Solo(others)
    BY <1>4, <1>5 DEF Solo
  <2>5. \A m \in secret, j \in others : m.path # j.path
    BY <2>1, <2>2
  <2>6. b.mounts = secret \cup others
    BY <1>7
  <2> HIDE DEF secret, others
  <2>7. Solo(b.mounts)
    BY <2>3, <2>4, <2>5, <2>6, SoloUnion
  <2> QED
    BY <1>3, <2>7 DEF Sound, volumes
<1> QED
  BY <1>6, <1>7

(* The boxes of a job: which there are, and that they agree unless what the*)
(* goal asks for clashes. *)
LEMMA JobContainers ==
    ASSUME goal \in ContainerGoals, NEW n, NEW services, NEW own, Around(services, own, n),
           job = JS!Job(services)
    PROVE  /\ \E p, q \in DOMAIN job.containers :
                 /\ job.containers[p].name = "sdm" /\ JS!IoMounts(n) \subseteq job.containers[p].mounts
                 /\ job.containers[q].name = JS!Main
                 /\ JS!IoMounts(n) \cup FileMounts(n) \subseteq job.containers[q].mounts
           /\ \A p \in DOMAIN job.containers :
                 /\ job.containers[p].name # "copy"
                 /\ ~JS!NamesClash /\ goal.podInit => job.containers[p].name # "setup"
                 /\ ~JS!FilesClash => Sound(job.containers[p], job.volumes)
           /\ ~JS!NamesClash => \A i, j \in DOMAIN job.containers :
                 i # j => job.containers[i].name # job.containers[j].name
<1> DEFINE At(k, i) == Containers(services)[k][i]
<1>1. /\ \A p : p \in DOMAIN job.containers <=>
            \E k \in 0..Len(services) : \E i \in DOMAIN Containers(services)[k] : p = <<k, i>>
      /\ \A k \in 0..Len(services) : \A i \in DOMAIN Containers(services)[k] :
            job.containers[<<k, i>>] = [At(k, i) EXCEPT !.mounts = @ \cup Added(k, services)]
  BY JobFields, WithMountsAt
<1>2. \A k \in 0..Len(services) : \A i \in DOMAIN Containers(services)[k] :
         IsBox(At(k, i)) /\ ContainerOf(services, own, n, k, i)
  BY FirstContainers
<1>3. ASSUME NEW k \in 0..Len(services), NEW i \in DOMAIN Containers(services)[k]
      PROVE  /\ job.containers[<<k, i>>].name = At(k, i).name
             /\ job.containers[<<k, i>>].mounts = At(k, i).mounts \cup Added(k, services)
  <2>1. IsBox(At(k, i))
    BY <1>2
  <2>2. job.containers[<<k, i>>] = [At(k, i) EXCEPT !.mounts = @ \cup Added(k, services)]
    BY <1>1
  <2> HIDE DEF At
  <2> QED
    BY <2>1, <2>2, BoxWith
<1>4. /\ 0 \in 0..Len(services) /\ 1 \in DOMAIN Containers(services)[0]
      /\ own \in 0..Len(services) /\ DOMAIN Containers(services)[own] = DOMAIN JS!Called.containers
      /\ own # 0
  <2>1. own \in 1..Len(services)
    BY DEF Around
  <2> QED
    BY <2>1, FirstContainers
<1>5. /\ \A i \in DOMAIN JS!Called.containers : JS!Called.containers[i] # "copy"
      /\ 1 \in DOMAIN JS!Called.containers /\ JS!Called.containers[1] = JS!Main
  BY CalledType DEF JS!Main
<1>6. \A k \in 0..Len(services) : \A i \in DOMAIN Containers(services)[k] :
         \/ k = 0 /\ i = 1 /\ At(k, i).name = "sdm" /\ At(k, i).mounts = JS!PodMounts
         \/ /\ k = own /\ i \in DOMAIN JS!Called.containers
            /\ At(k, i).name = JS!Called.containers[i] /\ At(k, i).mounts = FileMounts(n)
         \/ k \in DOMAIN services \ {own} /\ i = 1 /\ At(k, i).name = "db" /\ At(k, i).mounts = {}
  BY <1>2 DEF ContainerOf
<1> HIDE DEF At
<1>7. ASSUME ~JS!NamesClash,
             NEW k \in 0..Len(services), NEW i \in DOMAIN Containers(services)[k],
             NEW l \in 0..Len(services), NEW j \in DOMAIN Containers(services)[l],
             At(k, i).name = At(l, j).name
      PROVE  k = l /\ i = j
  <2>1. /\ \A a, b \in DOMAIN services \ {own} : a = b
        /\ \A a \in DOMAIN services \ {own} : JS!HasDatabase
    BY DEF Around
  <2>2. /\ \A a, b \in DOMAIN JS!Called.containers :
              a # b => JS!Called.containers[a] # JS!Called.containers[b]
        /\ \A a \in DOMAIN JS!Called.containers :
              JS!Called.containers[a] # "sdm" /\ (JS!HasDatabase => JS!Called.containers[a] # "db")
    BY <1>7 DEF JS!NamesClash
  <2>3. CASE k = 0 /\ i = 1 /\ At(k, i).name = "sdm"
    BY <1>6, <1>7, <2>2, <2>3
  <2>4. CASE k = own /\ i \in DOMAIN JS!Called.containers /\ At(k, i).name = JS!Called.containers[i]
    BY <1>6, <1>7, <2>1, <2>2, <2>4
  <2>5. CASE k \in DOMAIN services \ {own} /\ i = 1 /\ At(k, i).name = "db"
    BY <1>6, <1>7, <2>1, <2>2, <2>5
  <2> QED
    BY <1>6, <2>3, <2>4, <2>5
<1>8. ASSUME ~JS!NamesClash,
             NEW k \in 0..Len(services), NEW i \in DOMAIN Containers(services)[k],
             NEW l \in 0..Len(services), NEW j \in DOMAIN Containers(services)[l], <<k, i>> # <<l, j>>
      PROVE  job.containers[<<k, i>>].name # job.containers[<<l, j>>].name
  BY <1>3, <1>7, <1>8
<1>9. ASSUME NEW k \in 0..Len(services), NEW i \in DOMAIN Containers(services)[k]
      PROVE  /\ job.containers[<<k, i>>].name # "copy"
             /\ ~JS!NamesClash /\ goal.podInit => job.containers[<<k, i>>].name # "setup"
             /\ ~JS!FilesClash => Sound(job.containers[<<k, i>>], job.volumes)
  <2>1. /\ job.containers[<<k, i>>].name = At(k, i).name
        /\ job.containers[<<k, i>>].mounts = At(k, i).mounts \cup Added(k, services)
    BY <1>3
  <2>2. At(k, i).mounts \subseteq JS!PodMounts \/ (k = own /\ At(k, i).mounts = FileMounts(n))
    BY <1>6
  <2>3. ~JS!FilesClash => Sound(job.containers[<<k, i>>], job.volumes)
    BY <2>1, <2>2, SoundBox
  <2>4. /\ At(k, i).name # "copy"
        /\ ~JS!NamesClash /\ goal.podInit => At(k, i).name # "setup"
    BY <1>5, <1>6 DEF JS!NamesClash
  <2> QED
    BY <2>1, <2>3, <2>4
<1>10. /\ <<0, 1>> \in DOMAIN job.containers /\ job.containers[<<0, 1>>].name = "sdm"
       /\ JS!IoMounts(n) \subseteq job.containers[<<0, 1>>].mounts
       /\ <<own, 1>> \in DOMAIN job.containers /\ job.containers[<<own, 1>>].name = JS!Main
       /\ JS!IoMounts(n) \cup FileMounts(n) \subseteq job.containers[<<own, 1>>].mounts
  <2>1. At(0, 1).name = "sdm" /\ At(own, 1).name = JS!Main /\ At(own, 1).mounts = FileMounts(n)
    BY <1>4, <1>5, <1>6
  <2>2. JS!IoMounts(n) \subseteq Added(0, services) /\ JS!IoMounts(n) \subseteq Added(own, services)
    BY <1>4, AddedMounts
  <2> QED
    BY <1>1, <1>3, <1>4, <1>5, <2>1, <2>2
<1> QED
  BY <1>1, <1>8, <1>9, <1>10

LEMMA JobInits ==
    ASSUME NEW n, NEW services, NEW own, Around(services, own, n), job = JS!Job(services)
    PROVE  /\ \E p \in DOMAIN job.inits :
                 /\ job.inits[p].name = "copy"
                 /\ JS!PodMounts \cup CopyMounts(n) \cup JS!IoMounts(n) \subseteq job.inits[p].mounts
           /\ \A p \in DOMAIN job.inits :
                 /\ job.inits[p].name = "copy" \/ (job.inits[p].name = "setup" /\ goal.podInit)
                 /\ ~JS!FilesClash => Sound(job.inits[p], job.volumes)
           /\ \A i, j \in DOMAIN job.inits : i # j => job.inits[i].name # job.inits[j].name
<1> DEFINE At(k, i) == Inits(services)[k][i]
<1>1. /\ \A p : p \in DOMAIN job.inits <=>
            \E k \in 0..Len(services) : \E i \in DOMAIN Inits(services)[k] : p = <<k, i>>
      /\ \A k \in 0..Len(services) : \A i \in DOMAIN Inits(services)[k] :
            job.inits[<<k, i>>] = [At(k, i) EXCEPT !.mounts = @ \cup Added(k, services)]
  BY JobFields, WithMountsAt
<1>2. \A k \in 0..Len(services) : \A i \in DOMAIN Inits(services)[k] :
         IsBox(At(k, i)) /\ InitOf(services, own, n, k, i)
  BY FirstInits
<1>3. ASSUME NEW k \in 0..Len(services), NEW i \in DOMAIN Inits(services)[k]
      PROVE  /\ job.inits[<<k, i>>].name = At(k, i).name
             /\ job.inits[<<k, i>>].mounts = At(k, i).mounts \cup Added(k, services)
  <2>1. IsBox(At(k, i))
    BY <1>2
  <2>2. job.inits[<<k, i>>] = [At(k, i) EXCEPT !.mounts = @ \cup Added(k, services)]
    BY <1>1
  <2> HIDE DEF At
  <2> QED
    BY <2>1, <2>2, BoxWith
<1>4. /\ own \in 0..Len(services) /\ 1 \in DOMAIN Inits(services)[own] /\ own # 0
  <2>1. own \in 1..Len(services)
    BY DEF Around
  <2> QED
    BY <2>1, FirstInits
<1>5. \A k \in 0..Len(services) : \A i \in DOMAIN Inits(services)[k] :
         \/ /\ k = 0 /\ i = 1 /\ goal.podInit
            /\ At(k, i).name = "setup" /\ At(k, i).mounts = {}
         \/ /\ k = own /\ i = 1 /\ At(k, i).name = "copy"
            /\ At(k, i).mounts = JS!PodMounts \cup CopyMounts(n)
  BY <1>2 DEF InitOf
<1> HIDE DEF At
<1>6. ASSUME NEW k \in 0..Len(services), NEW i \in DOMAIN Inits(services)[k]
      PROVE  /\ \/ job.inits[<<k, i>>].name = "copy"
                \/ job.inits[<<k, i>>].name = "setup" /\ goal.podInit
             /\ ~JS!FilesClash => Sound(job.inits[<<k, i>>], job.volumes)
  <2>1. /\ job.inits[<<k, i>>].name = At(k, i).name
        /\ job.inits[<<k, i>>].mounts = At(k, i).mounts \cup Added(k, services)
    BY <1>3
  <2>2. \/ At(k, i).mounts \subseteq JS!PodMounts
        \/ k = own /\ At(k, i).mounts = JS!PodMounts \cup CopyMounts(n)
    BY <1>5
  <2>3. ~JS!FilesClash => Sound(job.inits[<<k, i>>], job.volumes)
    BY <2>1, <2>2, SoundBox
  <2> QED
    BY <1>5, <2>1, <2>3
<1>7. /\ <<own, 1>> \in DOMAIN job.inits /\ job.inits[<<own, 1>>].name = "copy"
      /\ JS!PodMounts \cup CopyMounts(n) \cup JS!IoMounts(n) \subseteq job.inits[<<own, 1>>].mounts
  <2>1. At(own, 1).name = "copy" /\ At(own, 1).mounts = JS!PodMounts \cup CopyMounts(n)
    BY <1>4, <1>5
  <2>2. JS!IoMounts(n) \subseteq Added(own, services)
    BY <1>4, AddedMounts
  <2> QED
    BY <1>1, <1>3, <1>4, <2>1, <2>2
<1>8. ASSUME NEW k \in 0..Len(services), NEW i \in DOMAIN Inits(services)[k],
             NEW l \in 0..Len(services), NEW j \in DOMAIN Inits(services)[l], <<k, i>> # <<l, j>>
      PROVE  job.inits[<<k, i>>].name # job.inits[<<l, j>>].name
  BY <1>3, <1>5, <1>8
<1> QED
  BY <1>1, <1>6, <1>7, <1>8

(* What is true of the job made of a goal. *)
JobInv(n) ==
    /\ \E p, q \in DOMAIN job.containers : \E r \in DOMAIN job.inits :
         /\ job.containers[p].name = "sdm" /\ job.containers[q].name = JS!Main
         /\ job.inits[r].name = "copy"
         /\ \A b \in {job.containers[p], job.containers[q], job.inits[r]} :
              JS!IoMounts(n) \subseteq b.mounts
         /\ FileMounts(n) \subseteq job.containers[q].mounts
         /\ JS!PodMounts \cup CopyMounts(n) \subseteq job.inits[r].mounts
    /\ JS!IsAccepted \/ JS!NamesClash \/ JS!FilesClash

LEMMA JobHolds ==
    ASSUME goal \in ContainerGoals, NEW n, job = JS!Job(Beside(Own(JS!Mounted, n)))
    PROVE  JobInv(n)
<1> DEFINE services == Beside(Own(JS!Mounted, n))
<1>1. PICK own \in DOMAIN services : Around(services, own, n)
  BY Arranged
<1>2. job = JS!Job(services)
  OBVIOUS
<1> HIDE DEF services
<1>3. /\ \E p, q \in DOMAIN job.containers :
            /\ job.containers[p].name = "sdm" /\ JS!IoMounts(n) \subseteq job.containers[p].mounts
            /\ job.containers[q].name = JS!Main
            /\ JS!IoMounts(n) \cup FileMounts(n) \subseteq job.containers[q].mounts
      /\ \A p \in DOMAIN job.containers :
            /\ job.containers[p].name # "copy"
            /\ ~JS!NamesClash /\ goal.podInit => job.containers[p].name # "setup"
            /\ ~JS!FilesClash => Sound(job.containers[p], job.volumes)
      /\ ~JS!NamesClash => \A i, j \in DOMAIN job.containers :
            i # j => job.containers[i].name # job.containers[j].name
  BY <1>1, <1>2, JobContainers
<1>4. /\ \E p \in DOMAIN job.inits :
            /\ job.inits[p].name = "copy"
            /\ JS!PodMounts \cup CopyMounts(n) \cup JS!IoMounts(n) \subseteq job.inits[p].mounts
      /\ \A p \in DOMAIN job.inits :
            /\ job.inits[p].name = "copy" \/ (job.inits[p].name = "setup" /\ goal.podInit)
            /\ ~JS!FilesClash => Sound(job.inits[p], job.volumes)
      /\ \A i, j \in DOMAIN job.inits : i # j => job.inits[i].name # job.inits[j].name
  BY <1>1, <1>2, JobInits
<1>5. ASSUME ~JS!NamesClash, ~JS!FilesClash
      PROVE  JS!IsAccepted
  <2>1. \A i \in DOMAIN job.containers, j \in DOMAIN job.inits :
           job.containers[i].name # job.inits[j].name
    BY <1>3, <1>4, <1>5
  <2>2. \A b \in JS!Boxes : Sound(b, job.volumes)
    BY <1>3, <1>4, <1>5 DEF JS!Boxes
  <2>3. \A b \in JS!Boxes : \A m \in b.mounts :
           m.volume \in job.volumes /\ \A k \in b.mounts : k.path = m.path => k = m
    BY <2>2 DEF Sound, Solo
  <2> QED
    BY <1>3, <1>4, <1>5, <2>1, <2>3 DEF JS!IsAccepted
<1>6. \E p, q \in DOMAIN job.containers : \E r \in DOMAIN job.inits :
         /\ job.containers[p].name = "sdm" /\ job.containers[q].name = JS!Main
         /\ job.inits[r].name = "copy"
         /\ \A b \in {job.containers[p], job.containers[q], job.inits[r]} :
              JS!IoMounts(n) \subseteq b.mounts
         /\ FileMounts(n) \subseteq job.containers[q].mounts
         /\ JS!PodMounts \cup CopyMounts(n) \subseteq job.inits[r].mounts
  <2>1. PICK p \in DOMAIN job.containers, q \in DOMAIN job.containers :
           /\ job.containers[p].name = "sdm" /\ JS!IoMounts(n) \subseteq job.containers[p].mounts
           /\ job.containers[q].name = JS!Main
           /\ JS!IoMounts(n) \cup FileMounts(n) \subseteq job.containers[q].mounts
    BY <1>3
  <2>2. PICK r \in DOMAIN job.inits :
           /\ job.inits[r].name = "copy"
           /\ JS!PodMounts \cup CopyMounts(n) \cup JS!IoMounts(n) \subseteq job.inits[r].mounts
    BY <1>4
  <2> QED
    BY <2>1, <2>2
<1> QED
  BY <1>5, <1>6 DEF JobInv

(* In an accepted job each of these names is that of one box, and a path   *)
(* that of one mount. *)
LEMMA AcceptedBoxes ==
    ASSUME JS!IsAccepted
    PROVE  /\ \A p \in DOMAIN job.containers :
                 JS!Named(job.containers[p].name) = {job.containers[p]}
           /\ \A r \in DOMAIN job.inits : JS!Named(job.inits[r].name) = {job.inits[r]}
           /\ \A b \in JS!Boxes : \A m \in b.mounts : JS!At(b, m.path) = {m.volume}
<1>1. ASSUME NEW p \in DOMAIN job.containers
      PROVE  JS!Named(job.containers[p].name) = {job.containers[p]}
  BY DEF JS!IsAccepted, JS!Named, JS!Boxes
<1>2. ASSUME NEW r \in DOMAIN job.inits
      PROVE  JS!Named(job.inits[r].name) = {job.inits[r]}
  BY DEF JS!IsAccepted, JS!Named, JS!Boxes
<1>3. ASSUME NEW b \in JS!Boxes, NEW m \in b.mounts
      PROVE  JS!At(b, m.path) = {m.volume}
  <2>1. {k \in b.mounts : k.path = m.path} = {m}
    BY DEF JS!IsAccepted
  <2> QED
    BY <2>1 DEF JS!At
<1> QED
  BY <1>1, <1>2, <1>3

LEMMA SharedProject ==
    ASSUME NEW n, JobInv(n), JS!IsAccepted
    PROVE  JS!SharesProject
<1>1. PICK p \in DOMAIN job.containers, q \in DOMAIN job.containers, r \in DOMAIN job.inits :
         /\ job.containers[p].name = "sdm" /\ job.containers[q].name = JS!Main
         /\ job.inits[r].name = "copy"
         /\ \A b \in {job.containers[p], job.containers[q], job.inits[r]} :
              JS!IoMounts(n) \subseteq b.mounts
  BY DEF JobInv
<1>2. /\ JS!Named("sdm") = {job.containers[p]} /\ JS!Named(JS!Main) = {job.containers[q]}
      /\ JS!Named("copy") = {job.inits[r]}
      /\ {job.containers[p], job.containers[q], job.inits[r]} \subseteq JS!Boxes
  BY <1>1, AcceptedBoxes DEF JS!Boxes
<1>3. ASSUME NEW b \in {job.containers[p], job.containers[q], job.inits[r]}, NEW place \in JS!IoPaths
      PROVE  JS!At(b, place) = {JS!Volume("io", place, n)}
  <2> DEFINE m == JS!Mount(place, JS!Volume("io", place, n), {})
  <2>1. m \in b.mounts
    BY <1>1, IoMountsAre
  <2>2. m.path = place /\ m.volume = JS!Volume("io", place, n)
    BY MountFields
  <2> HIDE DEF m
  <2> QED
    BY <1>2, <2>1, <2>2, AcceptedBoxes
<1> QED
  BY <1>2, <1>3 DEF JS!SharesProject

LEMMA SecretMounted ==
    ASSUME NEW n, JobInv(n), JS!IsAccepted, NEW s \in JS!Files,
           NEW c \in JS!Named("copy"), NEW b \in JS!Named(JS!Main)
    PROVE  JS!At(c, s.dir) = JS!At(b, JS!FilePath(s)) /\ JS!At(c, s.dir) # {}
<1>1. PICK q \in DOMAIN job.containers, r \in DOMAIN job.inits :
         /\ job.containers[q].name = JS!Main /\ job.inits[r].name = "copy"
         /\ FileMounts(n) \subseteq job.containers[q].mounts
         /\ JS!PodMounts \cup CopyMounts(n) \subseteq job.inits[r].mounts
  BY DEF JobInv
<1>2. b = job.containers[q] /\ c = job.inits[r] /\ b \in JS!Boxes /\ c \in JS!Boxes
  BY <1>1, AcceptedBoxes DEF JS!Boxes
<1>3. JS!At(b, JS!FilePath(s)) = {JS!SecretVolume(s.dir, n)}
  <2> DEFINE m == JS!Mount(JS!FilePath(s), JS!SecretVolume(s.dir, n), {s})
  <2>1. m \in b.mounts
    BY <1>1, <1>2 DEF FileMounts
  <2>2. m.path = JS!FilePath(s) /\ m.volume = JS!SecretVolume(s.dir, n)
    BY MountFields
  <2> HIDE DEF m
  <2> QED
    BY <1>2, <2>1, <2>2, AcceptedBoxes
<1>4. JS!At(c, s.dir) = {JS!SecretVolume(s.dir, n)}
  <2> DEFINE m == JS!Mount(s.dir, JS!SecretVolume(s.dir, n), {})
  <2>3. m.path = s.dir /\ m.volume = JS!SecretVolume(s.dir, n)
    BY MountFields
  <2>4. m \in c.mounts
    <3>1. CASE JS!IsMounted(s.dir)
      <4>1. m = JS!Mount(JS!CachePath, JS!HostVolume, {}) /\ m \in JS!PodMounts
        BY <3>1 DEF JS!IsMounted, JS!SecretVolume, JS!PodMounts
      <4> QED
        BY <1>1, <1>2, <4>1
    <3>2. CASE ~JS!IsMounted(s.dir)
      <4>1. s.dir \in JS!NewDirs(JS!Mounted)
        BY <3>2 DEF JS!NewDirs, JS!Files
      <4> QED
        BY <1>1, <1>2, <4>1 DEF CopyMounts
    <3> QED
      BY <3>1, <3>2
  <2> HIDE DEF m
  <2> QED
    BY <1>2, <2>3, <2>4, AcceptedBoxes
<1> QED
  BY <1>3, <1>4

LEMMA SpecHolds == SpecInv => JS!JobIsValid /\ JS!SharesProject /\ JS!SecretsArrive
<1> SUFFICES ASSUME SpecInv PROVE JS!JobIsValid /\ JS!SharesProject /\ JS!SecretsArrive
  OBVIOUS
<1>1. CASE ~JS!Created
  BY <1>1 DEF JS!Created, JS!JobIsValid, JS!SharesProject, JS!SecretsArrive
<1>2. CASE JS!Created
  <2>1. goal \in ContainerGoals
    BY DEF SpecInv
  <2>2. PICK n \in Nat \ {0} : job = JS!Job(Beside(Own(JS!Mounted, n)))
    BY <1>2 DEF SpecInv, JS!Created
  <2>3. JobInv(n)
    BY <2>1, <2>2, JobHolds
  <2>4. ASSUME pc = "running", NEW s \in writtenSecrets, goal.where # "k8s" \/ s \in goal.secrets
        PROVE  s \in JS!Files
    <3>1. s \in JS!FilesOf(JS!Called.secrets)
      BY <2>4 DEF SpecInv
    <3> QED
      BY <2>4, <3>1 DEF JS!Mounted, JS!Files, JS!FilesOf, JS!Prepared
  <2>5. JS!SecretsArrive
    <3>1. pc = "running" => JS!IsAccepted
      BY DEF SpecInv
    <3> QED
      BY <2>3, <2>4, <3>1, SecretMounted DEF JS!SecretsArrive
  <2>6. JS!JobIsValid
    BY <2>3 DEF JS!JobIsValid, JobInv
  <2>7. JS!SharesProject
    <3>1. CASE JS!IsAccepted
      BY <2>3, <3>1, SharedProject
    <3>2. CASE ~JS!IsAccepted
      BY <3>2 DEF JS!SharesProject
    <3> QED
      BY <3>1, <3>2
  <2> QED
    BY <2>5, <2>6, <2>7
<1> QED
  BY <1>1, <1>2

ScheduledInv == part = "spec" => SpecInv

LEMMA ScheduledStep ==
    ASSUME ScheduledInv, [NextPart]_allVars
    PROVE  ScheduledInv'
<1>1. part' = part
  BY DEF NextPart, allVars, StepJobs, StepJobSpec, StepFile, StepCommand, StepYaml
<1>2. CASE part = "spec" /\ StepJobSpec
  BY <1>1, <1>2, SpecStep DEF ScheduledInv, StepJobSpec
<1>3. CASE part = "spec" /\ UNCHANGED allVars
  <2>1. UNCHANGED <<goal, pc, data, job, writtenSecrets, scheduled>>
    BY <1>3 DEF allVars, JobSpecVars
  <2>2. /\ JS!Called' = JS!Called /\ JS!Mounted' = JS!Mounted
        /\ \A n : Beside(Own(JS!Mounted, n))' = Beside(Own(JS!Mounted, n))
        /\ Beside(Own(goal.secrets, 1))' = Beside(Own(goal.secrets, 1))
        /\ \A services : JS!Job(services)' = JS!Job(services)
        /\ JS!IsAccepted' = JS!IsAccepted
    BY <2>1, SameGoal, SameJob
  <2> QED
    BY <1>1, <1>3, <2>1, <2>2 DEF ScheduledInv, SpecInv
<1>4. CASE part # "spec"
  BY <1>1, <1>4 DEF ScheduledInv
<1> QED
  BY <1>2, <1>3, <1>4 DEF NextPart, StepJobs, StepFile, StepCommand, StepYaml

LEMMA ScheduledStart == InitPart => ScheduledInv
BY SpecStart DEF InitPart, ScheduledInv

(* Kubernetes takes the job made of a goal, also when the goal is restarted*)
(* or made on another SDM, unless the registration asks for a name or a    *)
(* path that is taken; and in a job it takes the containers share the      *)
(* project (createJobSpec). *)
THEOREM JobIsValidHolds == Parts => []JobIsValid
<1>1. ScheduledInv => JobIsValid
  BY SpecHolds DEF ScheduledInv, JobIsValid
<1> QED
  BY <1>1, ScheduledStart, ScheduledStep, PTL DEF Parts

(* Secrets written to files are mounted where the main container looks,    *)
(* several of one directory and those in the pod's cache, too,             *)
(* unless the callback run with the planning added them                    *)
(* (k8sFulfillmentCallback). *)
THEOREM SecretsArriveHolds == Parts => []SecretsArrive
<1>1. ScheduledInv => SecretsArrive
  BY SpecHolds DEF ScheduledInv, SecretsArrive
<1> QED
  BY <1>1, ScheduledStart, ScheduledStep, PTL DEF Parts

---------------------------------------------------------------------------
(* The rules of YAML files.                                                *)

(* What a rule is mapped to. *)
EntryInv(e) ==
    /\ e.from \in DOMAIN rules
    /\ e.name = rules[e.from].name /\ e.dependsOn = rules[e.from].dependsOn
    /\ DOMAIN e.groups = DOMAIN rules[e.from].groups
    /\ \A i \in DOMAIN e.groups : MY!ToSet(e.groups[i]) # {}

(* The first n rules are mapped: of each name there is one entry, made of  *)
(* the last of them, at the place of the first. *)
MappedInv(n) ==
    /\ \A i \in DOMAIN goalData :
         /\ EntryInv(goalData[i]) /\ goalData[i].from <= n
         /\ \A r \in (goalData[i].from + 1)..n : rules[r].name # goalData[i].name
    /\ \A i, j \in DOMAIN goalData : i # j => goalData[i].name # goalData[j].name
    /\ \A r \in 1..n : \E i \in DOMAIN goalData : goalData[i].name = rules[r].name
    /\ \A i, j \in DOMAIN goalData : i < j =>
         \A r \in 1..n : rules[r].name = goalData[j].name =>
             \E q \in 1..(r - 1) : rules[q].name = goalData[i].name

RulesTyped ==
    /\ rules \in Seq(MY!Rule)
    /\ \A n \in DOMAIN rules : \A i \in DOMAIN rules[n].groups : rules[n].groups[i] # <<>>

YamlInv ==
    /\ RulesTyped
    /\ yamlPc \in {"map", "convert", "ready", "failed"}
    /\ at \in Nat \ {0}
    /\ (\E S : goalData \in Seq(S)) /\ (\E S : planned \in Seq(S))
    /\ yamlPc = "map" => at <= Len(rules) + 1 /\ MappedInv(at - 1) /\ planned = <<>>
    /\ yamlPc \in {"convert", "ready"} =>
         /\ MappedInv(Len(rules))
         /\ at <= Len(goalData) + 1 /\ Len(planned) = at - 1
         /\ \A i \in 1..(at - 1) : planned[i] = MY!Plan(goalData[i])
    /\ yamlPc = "ready" => at = Len(goalData) + 1
    /\ MY!FailsForCause

LEMMA RuleFields ==
    ASSUME RulesTyped, NEW n \in DOMAIN rules
    PROVE  /\ Len(rules) \in Nat /\ DOMAIN rules = 1..Len(rules) /\ n \in Nat
           /\ rules[n].groups \in Seq(Seq(MY!Reference))
           /\ \A i \in DOMAIN rules[n].groups : rules[n].groups[i] \in Seq(MY!Reference)
           /\ \A i \in DOMAIN rules[n].groups : 1 \in DOMAIN rules[n].groups[i]
<1>1. rules[n] \in MY!Rule
  BY DEF RulesTyped
<1>2. rules[n].groups \in Seq(Seq(MY!Reference))
  BY <1>1 DEF MY!Rule
<1>3. ASSUME NEW i \in DOMAIN rules[n].groups
      PROVE  rules[n].groups[i] \in Seq(MY!Reference) /\ 1 \in DOMAIN rules[n].groups[i]
  <2>1. rules[n].groups[i] \in Seq(MY!Reference) /\ rules[n].groups[i] # <<>>
    BY <1>2 DEF RulesTyped
  <2> QED
    BY <2>1
<1>4. rules \in Seq(MY!Rule)
  BY DEF RulesTyped
<1> QED
  BY <1>2, <1>3, <1>4

LEMMA GroupsMapped ==
    ASSUME RulesTyped, NEW n \in DOMAIN rules
    PROVE  /\ DOMAIN MY!MapGroups(rules[n], n) = DOMAIN rules[n].groups
           /\ \A i \in DOMAIN rules[n].groups : MY!ToSet(MY!MapGroups(rules[n], n)[i]) # {}
<1> DEFINE groups == MY!MapGroups(rules[n], n)
<1>1. DOMAIN groups = DOMAIN rules[n].groups
  BY DEF MY!MapGroups
<1>2. ASSUME NEW i \in DOMAIN rules[n].groups
      PROVE  MY!ToSet(groups[i]) # {}
  <2>1. DOMAIN groups[i] = DOMAIN rules[n].groups[i]
    BY DEF MY!MapGroups
  <2>2. 1 \in DOMAIN groups[i]
    BY <2>1, RuleFields
  <2> HIDE DEF groups
  <2> QED
    BY <2>2 DEF MY!ToSet
<1> QED
  BY <1>1, <1>2

(* The place of an entry that joins the others or replaces one. *)
LEMMA EntrySet ==
    ASSUME NEW S, NEW entries \in Seq(S), NEW entry,
           \A i, j \in DOMAIN entries : i # j => entries[i].name # entries[j].name
    PROVE  LET after == MY!SetGoalData(entries, entry)
           IN  /\ after \in Seq(S \cup {entry})
               /\ DOMAIN entries \subseteq DOMAIN after
               /\ \E p \in DOMAIN after :
                    /\ after[p] = entry
                    /\ \A i \in DOMAIN after \ {p} :
                         i \in DOMAIN entries /\ after[i] = entries[i] /\ entries[i].name # entry.name
                    /\ p \in DOMAIN entries => entries[p].name = entry.name
                    /\ p \notin DOMAIN entries => \A i \in DOMAIN entries : i < p
<1> DEFINE after == MY!SetGoalData(entries, entry)
<1>1. Len(entries) \in Nat /\ DOMAIN entries = 1..Len(entries)
  OBVIOUS
<1>2. CASE \E i \in DOMAIN entries : entries[i].name = entry.name
  <2>1. PICK p \in DOMAIN entries : entries[p].name = entry.name
    BY <1>2
  <2>2. after = [i \in DOMAIN entries |-> IF entries[i].name = entry.name THEN entry ELSE entries[i]]
    BY <1>2 DEF MY!SetGoalData
  <2> HIDE DEF after
  <2>3. DOMAIN after = DOMAIN entries /\ after[p] = entry
    BY <2>1, <2>2
  <2>4. \A i \in DOMAIN entries \ {p} : after[i] = entries[i] /\ entries[i].name # entry.name
    BY <2>1, <2>2
  <2>5. after \in Seq(S \cup {entry})
    BY <1>1, <2>2
  <2> QED
    BY <2>1, <2>3, <2>4, <2>5 DEF after
<1>3. CASE ~\E i \in DOMAIN entries : entries[i].name = entry.name
  <2>1. after = Append(entries, entry)
    BY <1>3 DEF MY!SetGoalData
  <2> HIDE DEF after
  <2>2. entries \in Seq(S \cup {entry})
    BY <1>1
  <2>3. /\ after \in Seq(S \cup {entry}) /\ Len(after) = Len(entries) + 1
        /\ after[Len(entries) + 1] = entry
        /\ \A i \in 1..Len(entries) : after[i] = entries[i]
    BY <2>1, <2>2
  <2>4. DOMAIN after = 1..(Len(entries) + 1)
    BY <1>1, <2>3
  <2>5. /\ Len(entries) + 1 \in DOMAIN after
        /\ \A i \in DOMAIN after \ {Len(entries) + 1} : i \in DOMAIN entries
    BY <1>1, <2>4
  <2> QED
    BY <1>1, <1>3, <2>3, <2>4, <2>5 DEF after
<1> QED
  BY <1>2, <1>3

LEMMA StepMapRule ==
    ASSUME YamlInv, MY!MapRule
    PROVE  YamlInv'
<1> DEFINE rule == rules[at]
           entry == [name |-> rule.name, groups |-> MY!MapGroups(rule, at),
                     dependsOn |-> rule.dependsOn, from |-> at]
<1>1. /\ yamlPc = "map" /\ at <= Len(rules) /\ UNCHANGED <<rules, planned>>
      /\ IF rule.groups = <<>> \/ \E g \in MY!Mentioned(rule) : MY!Kind(g) = "unknown"
         THEN yamlPc' = "failed" /\ UNCHANGED <<at, goalData>>
         ELSE /\ goalData' = MY!SetGoalData(goalData, entry)
              /\ at' = at + 1 /\ UNCHANGED yamlPc
  BY DEF MY!MapRule
<1>2. /\ RulesTyped /\ at \in Nat \ {0} /\ MappedInv(at - 1) /\ planned = <<>>
      /\ (\E S : goalData \in Seq(S)) /\ (\E S : planned \in Seq(S))
  BY <1>1 DEF YamlInv
<1>3. at \in DOMAIN rules /\ DOMAIN rules = 1..Len(rules) /\ Len(rules) \in Nat
  BY <1>1, <1>2 DEF RulesTyped
<1>4. RulesTyped'
  BY <1>1, <1>2 DEF RulesTyped
<1>5. CASE yamlPc' = "failed"
  <2>1. rule.groups = <<>> \/ \E g \in MY!Mentioned(rule) : MY!Kind(g) = "unknown"
    BY <1>1, <1>5
  <2>2. \A g : MY!Kind(g) = "unknown" => g.use \notin Additional \cup Makers \cup Referenced \cup {"lock"}
    BY DEF MY!Kind
  <2>3. MY!FailsForCause'
    BY <1>1, <1>3, <2>1, <2>2 DEF MY!FailsForCause, MY!Mentioned
  <2> QED
    BY <1>1, <1>2, <1>4, <1>5, <2>1, <2>3 DEF YamlInv
<1>6. CASE yamlPc' # "failed"
  <2>1. goalData' = MY!SetGoalData(goalData, entry) /\ at' = at + 1 /\ yamlPc' = "map"
    BY <1>1, <1>6
  <2>2. PICK S : goalData \in Seq(S)
    BY <1>2
  <2>3. entry.name = rules[at].name /\ entry.from = at
    OBVIOUS
  <2>4. EntryInv(entry)
    BY <1>2, <1>3, GroupsMapped DEF EntryInv
  <2> HIDE DEF entry
  <2>5. \A i, j \in DOMAIN goalData : i # j => goalData[i].name # goalData[j].name
    BY <1>2 DEF MappedInv
  <2>6. /\ goalData' \in Seq(S \cup {entry})
        /\ DOMAIN goalData \subseteq DOMAIN goalData'
        /\ \E p \in DOMAIN goalData' :
             /\ goalData'[p] = entry
             /\ \A i \in DOMAIN goalData' \ {p} :
                  /\ i \in DOMAIN goalData /\ goalData'[i] = goalData[i]
                  /\ goalData[i].name # entry.name
             /\ p \in DOMAIN goalData => goalData[p].name = entry.name
             /\ p \notin DOMAIN goalData => \A i \in DOMAIN goalData : i < p
    BY <2>1, <2>2, <2>5, EntrySet
  <2>7. PICK p \in DOMAIN goalData' :
             /\ goalData'[p] = entry
             /\ \A i \in DOMAIN goalData' \ {p} :
                  /\ i \in DOMAIN goalData /\ goalData'[i] = goalData[i]
                  /\ goalData[i].name # entry.name
             /\ p \in DOMAIN goalData => goalData[p].name = entry.name
             /\ p \notin DOMAIN goalData => \A i \in DOMAIN goalData : i < p
    BY <2>6
  <2>8. DOMAIN goalData' \subseteq Nat
    BY <2>6
  <2>9. \A i \in DOMAIN goalData :
           /\ goalData[i].from \in 1..(at - 1) /\ rules[goalData[i].from].name = goalData[i].name
           /\ \A r \in (goalData[i].from + 1)..(at - 1) : rules[r].name # goalData[i].name
    BY <1>2, <1>3 DEF MappedInv, EntryInv
  <2>10. ASSUME NEW i \in DOMAIN goalData'
         PROVE  /\ EntryInv(goalData'[i]) /\ goalData'[i].from <= at
                /\ \A r \in (goalData'[i].from + 1)..at : rules[r].name # goalData'[i].name
    <3>1. CASE i = p
      BY <1>2, <2>3, <2>4, <2>7, <3>1
    <3>2. CASE i # p
      <4>1. goalData'[i] = goalData[i] /\ i \in DOMAIN goalData /\ goalData[i].name # rules[at].name
        BY <2>3, <2>7, <3>2
      <4> QED
        BY <1>2, <2>9, <4>1 DEF MappedInv
    <3> QED
      BY <3>1, <3>2
  <2>11. \A i, j \in DOMAIN goalData' : i # j => goalData'[i].name # goalData'[j].name
    BY <2>5, <2>7
  <2>12. ASSUME NEW r \in 1..at
         PROVE  \E i \in DOMAIN goalData' : goalData'[i].name = rules[r].name
    <3>1. CASE rules[r].name = entry.name
      BY <2>7, <3>1
    <3>2. CASE rules[r].name # entry.name
      <4>1. r \in 1..(at - 1)
        BY <1>2, <2>3, <3>2
      <4>2. PICK i \in DOMAIN goalData : goalData[i].name = rules[r].name
        BY <1>2, <4>1 DEF MappedInv
      <4> QED
        BY <2>6, <2>7, <3>2, <4>2
    <3> QED
      BY <3>1, <3>2
  <2>13. ASSUME NEW i \in DOMAIN goalData', NEW j \in DOMAIN goalData', i < j,
                NEW r \in 1..at, rules[r].name = goalData'[j].name
         PROVE  \E q \in 1..(r - 1) : rules[q].name = goalData'[i].name
    <3>1. ASSUME NEW k \in DOMAIN goalData, NEW l \in DOMAIN goalData, k < l,
                 NEW s \in 1..(at - 1), rules[s].name = goalData[l].name
          PROVE  \E q \in 1..(s - 1) : rules[q].name = goalData[k].name
      BY <1>2, <3>1 DEF MappedInv
    <3>2. CASE r = at
      <4>1. j = p
        BY <2>3, <2>7, <2>13, <3>2
      <4>2. i \in DOMAIN goalData /\ goalData'[i] = goalData[i]
        BY <2>7, <2>8, <2>13, <4>1
      <4> QED
        BY <2>9, <3>2, <4>2
    <3>3. CASE r # at
      <4>1. r \in 1..(at - 1)
        BY <1>2, <3>3
      <4>2. PICK m \in DOMAIN goalData : goalData[m].name = rules[r].name
        BY <1>2, <4>1 DEF MappedInv
      <4>3. j \in DOMAIN goalData /\ goalData[j].name = goalData'[j].name
        BY <2>6, <2>7, <2>13, <4>2
      <4>4. i \in DOMAIN goalData /\ goalData[i].name = goalData'[i].name
        BY <2>7, <2>8, <2>13, <4>3
      <4> QED
        BY <2>13, <3>1, <4>1, <4>3, <4>4
    <3> QED
      BY <3>2, <3>3
  <2>14. MappedInv(at - 1)'
    <3>1. at' - 1 = at
      BY <1>2, <2>1
    <3>2. rules' = rules
      BY <1>1
    <3>3. \A i \in DOMAIN goalData' :
             /\ EntryInv(goalData[i])' /\ goalData'[i].from <= at' - 1
             /\ \A r \in (goalData'[i].from + 1)..(at' - 1) : rules'[r].name # goalData'[i].name
      BY <2>10, <3>1, <3>2 DEF EntryInv
    <3>4. \A r \in 1..(at' - 1) : \E i \in DOMAIN goalData' : goalData'[i].name = rules'[r].name
      BY <2>12, <3>1, <3>2
    <3>5. \A i, j \in DOMAIN goalData' : i < j =>
            \A r \in 1..(at' - 1) : rules'[r].name = goalData'[j].name =>
                \E q \in 1..(r - 1) : rules'[q].name = goalData'[i].name
      BY <2>13, <3>1, <3>2
    <3> QED
      BY <2>11, <3>3, <3>4, <3>5 DEF MappedInv
  <2>15. MY!FailsForCause'
    BY <2>1 DEF MY!FailsForCause
  <2>17. (\E T : goalData' \in Seq(T)) /\ (\E T : planned' \in Seq(T))
    BY <1>1, <1>2, <2>6
  <2>16. at' \in Nat \ {0} /\ at' <= Len(rules) + 1
    BY <1>1, <1>2, <1>3, <2>1
  <2> QED
    BY <1>1, <1>2, <1>4, <2>1, <2>14, <2>15, <2>16, <2>17 DEF YamlInv
<1> QED
  BY <1>5, <1>6

LEMMA StepMappedAll ==
    ASSUME YamlInv, MY!MappedAll
    PROVE  YamlInv'
<1>1. /\ yamlPc = "map" /\ at > Len(rules) /\ yamlPc' = "convert" /\ at' = 1
      /\ UNCHANGED <<rules, goalData, planned>>
  BY DEF MY!MappedAll
<1>2. /\ RulesTyped /\ at \in Nat \ {0} /\ at <= Len(rules) + 1 /\ MappedInv(at - 1)
      /\ planned = <<>> /\ (\E S : goalData \in Seq(S)) /\ (\E S : planned \in Seq(S))
  BY <1>1 DEF YamlInv
<1>3. Len(rules) \in Nat
  BY <1>2 DEF RulesTyped
<1>4. MappedInv(Len(rules))
  <2>1. at - 1 = Len(rules)
    BY <1>1, <1>2, <1>3
  <2> QED
    BY <1>2, <2>1
<1>5. MappedInv(Len(rules))'
  BY <1>1, <1>4 DEF MappedInv, EntryInv
<1>6. RulesTyped'
  BY <1>1, <1>2 DEF RulesTyped
<1>7. MY!FailsForCause'
  BY <1>1 DEF MY!FailsForCause
<1>8. Len(goalData) \in Nat
  BY <1>2
<1>9. at' <= Len(goalData') + 1 /\ Len(planned') = at' - 1
  BY <1>1, <1>2, <1>8
<1> QED
  BY <1>1, <1>2, <1>5, <1>6, <1>7, <1>9 DEF YamlInv

(* A rule that depends on one that is not yet converted fails the machine: *)
(* each rule of the other's name has one of this name before it.           *)
LEMMA DependsOnLater ==
    ASSUME RulesTyped, MappedInv(Len(rules)), NEW S, goalData \in Seq(S),
           NEW n \in DOMAIN goalData, NEW d \in goalData[n].dependsOn,
           \A i \in 1..n : goalData[i].name # d
    PROVE  \E i \in DOMAIN rules : /\ ~MY!Overwritten(i)
                                   /\ \E o \in rules[i].dependsOn : MY!ComesLater(o, rules[i].name)
<1> DEFINE f == goalData[n].from
<1>1. /\ f \in DOMAIN rules /\ rules[f].name = goalData[n].name
      /\ rules[f].dependsOn = goalData[n].dependsOn
      /\ \A r \in (f + 1)..Len(rules) : rules[r].name # goalData[n].name
  BY DEF MappedInv, EntryInv
<1>2. DOMAIN rules = 1..Len(rules)
  BY <1>1, RuleFields
<1>3. ~MY!Overwritten(f)
  BY <1>1 DEF MY!Overwritten
<1>4. ASSUME NEW j \in DOMAIN rules, rules[j].name = d
      PROVE  \E k \in 1..(j - 1) : rules[k].name = rules[f].name
  <2>1. PICK i \in DOMAIN goalData : goalData[i].name = d
    BY <1>2, <1>4 DEF MappedInv
  <2>2. n < i
    <3>1. n \in Nat /\ i \in Nat /\ n >= 1 /\ i >= 1
      OBVIOUS
    <3> QED
      BY <2>1, <3>1
  <2> QED
    BY <1>1, <1>2, <1>4, <2>1, <2>2 DEF MappedInv
<1>5. MY!ComesLater(d, rules[f].name)
  BY <1>4 DEF MY!ComesLater
<1> QED
  BY <1>1, <1>3, <1>5

LEMMA StepConvertRule ==
    ASSUME YamlInv, MY!ConvertRule
    PROVE  YamlInv'
<1> DEFINE entry == goalData[at]
<1>1. /\ yamlPc = "convert" /\ at <= Len(goalData) /\ UNCHANGED <<rules, goalData>>
      /\ IF \E d \in entry.dependsOn : ~MY!Before(d)
         THEN yamlPc' = "failed" /\ UNCHANGED <<at, planned>>
         ELSE planned' = Append(planned, MY!Plan(entry)) /\ at' = at + 1 /\ UNCHANGED yamlPc
  BY DEF MY!ConvertRule
<1>2. /\ RulesTyped /\ at \in Nat \ {0} /\ MappedInv(Len(rules)) /\ Len(planned) = at - 1
      /\ (\E S : goalData \in Seq(S)) /\ (\E S : planned \in Seq(S))
      /\ \A i \in 1..(at - 1) : planned[i] = MY!Plan(goalData[i])
  BY <1>1 DEF YamlInv
<1>3. RulesTyped' /\ MappedInv(Len(rules))'
  BY <1>1, <1>2 DEF RulesTyped, MappedInv, EntryInv
<1>4. CASE \E d \in entry.dependsOn : ~MY!Before(d)
  <2>1. yamlPc' = "failed" /\ UNCHANGED <<at, planned>>
    BY <1>1, <1>4
  <2>2. PICK d \in entry.dependsOn : ~MY!Before(d)
    BY <1>4
  <2>3. PICK S : goalData \in Seq(S)
    BY <1>2
  <2>4. at \in DOMAIN goalData
    BY <1>1, <1>2, <2>3
  <2>5. \A i \in 1..at : goalData[i].name # d
    BY <2>2 DEF MY!Before
  <2>6. \E i \in DOMAIN rules : /\ ~MY!Overwritten(i)
                                /\ \E o \in rules[i].dependsOn : MY!ComesLater(o, rules[i].name)
    BY <1>2, <2>2, <2>3, <2>4, <2>5, DependsOnLater
  <2>7. MY!FailsForCause'
    BY <1>1, <2>6 DEF MY!FailsForCause, MY!Overwritten, MY!ComesLater
  <2> QED
    BY <1>1, <1>2, <1>3, <2>1, <2>7 DEF YamlInv
<1>5. CASE ~\E d \in entry.dependsOn : ~MY!Before(d)
  <2>1. /\ planned' = Append(planned, MY!Plan(entry)) /\ at' = at + 1 /\ yamlPc' = "convert"
    BY <1>1, <1>5
  <2>2. PICK S : planned \in Seq(S)
    BY <1>2
  <2>3. \A i \in DOMAIN goalData : MY!Plan(goalData[i])' = MY!Plan(goalData[i])
    BY <1>1 DEF MY!Plan, MY!After, MY!DependsOn, MY!Entry, MY!GoalsOf, MY!ToSet
  <2> DEFINE plan == MY!Plan(entry)
  <2>4. plan = MY!Plan(goalData[at])
    OBVIOUS
  <2>5. PICK T : goalData \in Seq(T)
    BY <1>2
  <2>6. DOMAIN goalData = 1..Len(goalData) /\ Len(goalData) \in Nat
    BY <2>5
  <2> HIDE DEF plan
  <2>7. /\ planned' \in Seq(S \cup {plan}) /\ Len(planned') = at
        /\ \A i \in 1..(at - 1) : planned'[i] = planned[i]
        /\ planned'[at] = plan
    <3>1. planned \in Seq(S \cup {plan})
      BY <2>2
    <3>2. planned' = Append(planned, plan)
      BY <2>1 DEF plan
    <3> QED
      BY <1>2, <3>1, <3>2
  <2>8. \A i \in 1..at : planned'[i] = MY!Plan(goalData[i])
    BY <1>2, <2>4, <2>7
  <2>9. \A i \in 1..(at' - 1) : planned'[i] = MY!Plan(goalData[i])'
    <3>1. at' - 1 = at /\ \A i \in 1..at : i \in DOMAIN goalData
      BY <1>1, <1>2, <2>1, <2>6
    <3> QED
      BY <2>3, <2>8, <3>1
  <2>10. /\ at' \in Nat \ {0} /\ at' <= Len(goalData') + 1 /\ Len(planned') = at' - 1
    BY <1>1, <1>2, <2>1, <2>6, <2>7
  <2>11. MY!FailsForCause'
    BY <2>1 DEF MY!FailsForCause
  <2>12. (\E U : goalData' \in Seq(U)) /\ (\E U : planned' \in Seq(U))
    BY <1>1, <1>2, <2>7
  <2> QED
    BY <1>3, <2>1, <2>9, <2>10, <2>11, <2>12 DEF YamlInv
<1> QED
  BY <1>4, <1>5

LEMMA StepConfigured ==
    ASSUME YamlInv, MY!Configured
    PROVE  YamlInv'
<1>1. /\ yamlPc = "convert" /\ at > Len(goalData) /\ yamlPc' = "ready"
      /\ UNCHANGED <<rules, at, goalData, planned>>
  BY DEF MY!Configured
<1>2. /\ RulesTyped /\ at \in Nat \ {0} /\ MappedInv(Len(rules)) /\ Len(planned) = at - 1
      /\ at <= Len(goalData) + 1
      /\ (\E S : goalData \in Seq(S)) /\ (\E S : planned \in Seq(S))
      /\ \A i \in 1..(at - 1) : planned[i] = MY!Plan(goalData[i])
  BY <1>1 DEF YamlInv
<1>3. RulesTyped' /\ MappedInv(Len(rules))'
  BY <1>1, <1>2 DEF RulesTyped, MappedInv, EntryInv
<1>4. at = Len(goalData) + 1
  <2>1. Len(goalData) \in Nat
    BY <1>2
  <2> QED
    BY <1>1, <1>2, <2>1
<1>5. \A i \in 1..(at' - 1) : planned'[i] = MY!Plan(goalData[i])'
  <2>1. \A i : MY!Plan(goalData[i])' = MY!Plan(goalData[i])
    BY <1>1 DEF MY!Plan, MY!After, MY!DependsOn, MY!Entry, MY!GoalsOf, MY!ToSet
  <2> QED
    BY <1>1, <1>2, <2>1
<1>6. MY!FailsForCause'
  BY <1>1 DEF MY!FailsForCause
<1> QED
  BY <1>1, <1>2, <1>3, <1>4, <1>5, <1>6 DEF YamlInv

LEMMA YamlStep ==
    ASSUME YamlInv, MY!Next
    PROVE  YamlInv'
BY StepMapRule, StepMappedAll, StepConvertRule, StepConfigured DEF MY!Next

LEMMA YamlStart ==
    ASSUME MY!Init
    PROVE  YamlInv
<1>1. /\ rules \in Documents /\ at = 1 /\ yamlPc = "map" /\ goalData = <<>> /\ planned = <<>>
  BY DEF MY!Init
<1>2. RulesTyped
  BY <1>1, MachineAssumption DEF MY!AreRules, RulesTyped
<1>3. Len(rules) \in Nat
  BY <1>2 DEF RulesTyped
<1>4. MappedInv(0)
  BY <1>1 DEF MappedInv
<1>5. MY!FailsForCause
  BY <1>1 DEF MY!FailsForCause
<1>6. at \in Nat \ {0} /\ at <= Len(rules) + 1 /\ at - 1 = 0
  BY <1>1, <1>3
<1>7. (\E S : goalData \in Seq(S)) /\ (\E S : planned \in Seq(S))
  <2>1. goalData \in Seq({}) /\ planned \in Seq({})
    BY <1>1
  <2> QED
    BY <2>1
<1> QED
  BY <1>1, <1>2, <1>4, <1>5, <1>6, <1>7 DEF YamlInv

(* The least of a set of numbers: no set of initial segments descends      *)
(* forever.                                                                *)
LEMMA Least ==
    ASSUME NEW T \in SUBSET Nat, T # {}
    PROVE  \E m \in T : \A n \in T : m <= n
<1> DEFINE UpTo(x) == {y \in T : y <= x}
           Segments == {UpTo(x) : x \in T}
<1>1. Segments \subseteq FiniteSubsetsOf(Nat) /\ Segments # {}
  <2>1. ASSUME NEW x \in T
        PROVE  IsFiniteSet(UpTo(x)) /\ UpTo(x) \subseteq Nat
    <3>1. UpTo(x) \in SUBSET Nat /\ x \in Nat /\ \A y \in UpTo(x) : y <= x
      OBVIOUS
    <3> HIDE DEF UpTo
    <3> QED
      BY <3>1, FS_BoundedSetOfNaturals
  <2> QED
    BY <2>1 DEF FiniteSubsetsOf
<1>2. IsWellFoundedOn(StrictSubsetOrdering(Nat), FiniteSubsetsOf(Nat))
  BY FS_StrictSubsetOrderingWellFounded
<1>3. PICK D \in Segments : \A U \in Segments : <<U, D>> \notin StrictSubsetOrdering(Nat)
  <2> HIDE DEF Segments
  <2> QED
    BY <1>1, <1>2, WFMin
<1>4. PICK m \in T : D = UpTo(m)
  OBVIOUS
<1>5. ASSUME NEW n \in T, ~(m <= n)
      PROVE  FALSE
  <2>1. n < m /\ m \in Nat /\ n \in Nat
    BY <1>5
  <2>2. UpTo(n) \subseteq UpTo(m) /\ m \in UpTo(m) /\ m \notin UpTo(n)
    <3>1. ASSUME NEW y \in T, y <= n
          PROVE  y <= m
      <4>1. y \in Nat
        OBVIOUS
      <4> QED
        BY <2>1, <3>1, <4>1
    <3>2. UpTo(n) \subseteq UpTo(m)
      BY <3>1
    <3>3. m \in UpTo(m)
      BY <2>1
    <3>4. m \notin UpTo(n)
      BY <2>1
    <3> QED
      BY <3>2, <3>3, <3>4
  <2>3. UpTo(n) \in SUBSET Nat /\ UpTo(m) \in SUBSET Nat /\ UpTo(n) \in Segments
    OBVIOUS
  <2> HIDE DEF UpTo, Segments
  <2>4. <<UpTo(n), UpTo(m)>> \in StrictSubsetOrdering(Nat)
    BY <2>2, <2>3 DEF StrictSubsetOrdering
  <2> QED
    BY <1>3, <1>4, <2>3, <2>4
<1> QED
  BY <1>5

(* What has come to hold for each number below one that holds, holds down  *)
(* to the first.                                                           *)
LEMMA DownToFirst ==
    ASSUME NEW i \in Nat \ {0}, NEW T \in SUBSET Nat, i \in T,
           \A l \in 2..i : l \in T => l - 1 \in T
    PROVE  1..i \subseteq T
<1> DEFINE Bad == {m \in Nat : m < i /\ i - m \notin T}
<1>1. CASE Bad = {}
  <2>1. ASSUME NEW l \in 1..i
        PROVE  l \in T
    <3>1. i - l \in Nat /\ i - l < i /\ i - (i - l) = l
      OBVIOUS
    <3> QED
      BY <1>1, <3>1
  <2> QED
    BY <2>1
<1>2. CASE Bad # {}
  <2>1. Bad \in SUBSET Nat
    OBVIOUS
  <2> HIDE DEF Bad
  <2>2. PICK m \in Bad : \A n \in Bad : m <= n
    BY <1>2, <2>1, Least
  <2> USE DEF Bad
  <2>3. m \in Nat /\ m < i /\ i - m \notin T
    OBVIOUS
  <2>4. m # 0
    BY <2>3
  <2>5. m - 1 \in Nat /\ m - 1 < i /\ ~(m <= m - 1)
    BY <2>3, <2>4
  <2>6. m - 1 \notin Bad
    BY <2>2, <2>5
  <2>7. i - (m - 1) \in T
    BY <2>5, <2>6
  <2>8. i - (m - 1) \in 2..i /\ i - (m - 1) - 1 = i - m
    BY <2>3, <2>4
  <2> QED
    BY <2>3, <2>7, <2>8
<1> QED
  BY <1>1, <1>2

LEMMA LaterRules ==
    ASSUME YamlInv
    PROVE  MY!LaterRulesWin
<1> SUFFICES ASSUME yamlPc \in {"convert", "ready"}
             PROVE  /\ \A i \in DOMAIN goalData : ~MY!Overwritten(goalData[i].from)
                    /\ {goalData[i].from : i \in DOMAIN goalData}
                         = {i \in DOMAIN rules : ~MY!Overwritten(i)}
  BY DEF MY!LaterRulesWin
<1>1. RulesTyped /\ MappedInv(Len(rules))
  BY DEF YamlInv
<1>2. DOMAIN rules = 1..Len(rules) /\ Len(rules) \in Nat
  BY <1>1 DEF RulesTyped
<1>3. \A i \in DOMAIN goalData :
         /\ goalData[i].from \in DOMAIN rules /\ rules[goalData[i].from].name = goalData[i].name
         /\ \A r \in (goalData[i].from + 1)..Len(rules) : rules[r].name # goalData[i].name
  BY <1>1 DEF MappedInv, EntryInv
<1>4. \A i \in DOMAIN goalData : ~MY!Overwritten(goalData[i].from)
  BY <1>3 DEF MY!Overwritten
<1>5. ASSUME NEW r \in DOMAIN rules, ~MY!Overwritten(r)
      PROVE  r \in {goalData[i].from : i \in DOMAIN goalData}
  <2>1. PICK i \in DOMAIN goalData : goalData[i].name = rules[r].name
    BY <1>1, <1>2 DEF MappedInv
  <2> DEFINE f == goalData[i].from
  <2>2. f \in 1..Len(rules) /\ rules[f].name = rules[r].name
    BY <1>2, <1>3, <2>1
  <2>3. ~(f < r)
    BY <1>2, <1>3, <2>1, <2>2
  <2>4. ~(r < f)
    BY <1>2, <1>5, <2>2 DEF MY!Overwritten
  <2>5. f = r
    BY <1>2, <2>2, <2>3, <2>4
  <2> QED
    BY <2>5
<1> QED
  BY <1>3, <1>4, <1>5

LEMMA InOrder ==
    ASSUME YamlInv
    PROVE  MY!GoalsInOrder
<1> SUFFICES ASSUME yamlPc = "ready", NEW n \in DOMAIN goalData
             PROVE  LET e == goalData[n]
                        first == UNION {MY!GoalsOf(MY!Entry(d)) : d \in MY!DependsOn(e)}
                        some == MY!GoalsOf(e) \cup first
                    IN  \A finished \in SUBSET some : MY!MayBeFinished(finished, some) =>
                          \A i \in DOMAIN e.groups : MY!ToSet(e.groups[i]) \cap finished # {} =>
                            /\ \A k \in 1..(i - 1) : MY!ToSet(e.groups[k]) \subseteq finished
                            /\ first \subseteq finished
  BY DEF MY!GoalsInOrder
<1> DEFINE e == goalData[n]
           Group(i) == MY!ToSet(e.groups[i])
           first == UNION {MY!GoalsOf(MY!Entry(d)) : d \in MY!DependsOn(e)}
           some == MY!GoalsOf(e) \cup first
<1>1. /\ RulesTyped /\ MappedInv(Len(rules)) /\ at = Len(goalData) + 1 /\ Len(planned) = at - 1
      /\ (\E S : goalData \in Seq(S)) /\ (\E S : planned \in Seq(S))
      /\ \A i \in 1..(at - 1) : planned[i] = MY!Plan(goalData[i])
  BY DEF YamlInv
<1>2. n \in DOMAIN planned /\ planned[n] = MY!Plan(e)
  <2>1. DOMAIN goalData = 1..Len(goalData) /\ Len(goalData) \in Nat
    BY <1>1
  <2>2. DOMAIN planned = 1..Len(planned)
    BY <1>1
  <2> QED
    BY <1>1, <2>1, <2>2
<1>3. EntryInv(e)
  BY <1>1 DEF MappedInv
<1>4. /\ \A i \in DOMAIN e.groups : Group(i) # {}
      /\ DOMAIN e.groups \subseteq Nat \ {0}
      /\ \A i \in DOMAIN e.groups : 1..i \subseteq DOMAIN e.groups
  <2>1. e.from \in DOMAIN rules /\ DOMAIN e.groups = DOMAIN rules[e.from].groups
    BY <1>3 DEF EntryInv
  <2>2. rules[e.from].groups \in Seq(Seq(MY!Reference))
    BY <1>1, <2>1, RuleFields
  <2>3. DOMAIN e.groups = 1..Len(rules[e.from].groups) /\ Len(rules[e.from].groups) \in Nat
    BY <2>1, <2>2
  <2>4. \A i \in DOMAIN e.groups : Group(i) # {}
    BY <1>3 DEF EntryInv
  <2> QED
    BY <2>3, <2>4
<1>5. \A i \in DOMAIN e.groups : \A g \in Group(i), w \in MY!After(e, i) : <<g, w>> \in MY!Waits
  BY <1>2 DEF MY!Waits, MY!Plan
<1>6. MY!After(e, 1) = first
  BY DEF MY!After
<1>7. \A i \in DOMAIN e.groups : i # 1 => MY!After(e, i) = Group(i - 1)
  BY DEF MY!After
<1>8. \A i \in DOMAIN e.groups : Group(i) \subseteq MY!GoalsOf(e)
  BY DEF MY!GoalsOf
<1> HIDE DEF e, first, Group
<1>9. ASSUME NEW finished \in SUBSET some, MY!MayBeFinished(finished, some),
             NEW i \in DOMAIN e.groups, Group(i) \cap finished # {}
      PROVE  /\ \A k \in 1..(i - 1) : Group(k) \subseteq finished
             /\ first \subseteq finished
  <2> DEFINE begun == {l \in DOMAIN e.groups : Group(l) \cap finished # {}}
  <2>1. \A w \in MY!Waits : w[1] \in finished /\ w[2] \in some => w[2] \in finished
    BY <1>9 DEF MY!MayBeFinished
  <2>2. ASSUME NEW l \in begun
        PROVE  MY!After(e, l) \cap some \subseteq finished
    <3>1. PICK g \in Group(l) : g \in finished
      OBVIOUS
    <3>2. \A w \in MY!After(e, l) : <<g, w>> \in MY!Waits
      BY <1>5, <3>1
    <3>3. ASSUME NEW w \in MY!After(e, l), w \in some
          PROVE  w \in finished
      <4>1. <<g, w>>[1] = g /\ <<g, w>>[2] = w
        OBVIOUS
      <4> HIDE DEF some, begun
      <4> QED
        BY <2>1, <3>1, <3>2, <3>3, <4>1
    <3> QED
      BY <3>3
  <2>3. ASSUME NEW l \in begun, l # 1
        PROVE  l - 1 \in begun /\ Group(l - 1) \subseteq finished
    <3>1. l \in Nat \ {0} /\ l - 1 \in 1..l /\ l \in DOMAIN e.groups
      BY <1>4, <2>3
    <3>2. l - 1 \in DOMAIN e.groups
      BY <1>4, <3>1
    <3>3. Group(l - 1) \subseteq some
      BY <1>8, <3>2
    <3>4. Group(l - 1) \subseteq finished
      BY <1>7, <2>2, <2>3, <3>1, <3>3
    <3> QED
      BY <1>4, <3>2, <3>4
  <2>4. i \in begun /\ begun \subseteq Nat /\ i \in Nat \ {0}
    BY <1>4, <1>9
  <2> HIDE DEF begun, some
  <2>5. 1..i \subseteq begun
    <3>1. \A l \in 2..i : l \in begun => l - 1 \in begun
      BY <2>3
    <3> QED
      BY <2>4, <3>1, DownToFirst
  <2>6. first \subseteq finished
    <3>1. 1 \in begun
      BY <2>4, <2>5
    <3>2. first \subseteq some
      BY DEF some
    <3> QED
      BY <1>6, <2>2, <3>1, <3>2
  <2>7. ASSUME NEW k \in 1..(i - 1)
        PROVE  Group(k) \subseteq finished
    <3>1. k + 1 \in 1..i /\ k + 1 # 1 /\ k + 1 - 1 = k
      BY <2>4
    <3>2. k + 1 \in begun
      BY <2>5, <3>1
    <3> QED
      BY <2>3, <3>1, <3>2
  <2> QED
    BY <2>6, <2>7
<1> QED
  BY <1>9 DEF e, first, Group

LEMMA YamlHolds ==
    ASSUME YamlInv
    PROVE  MY!GoalsInOrder /\ MY!LaterRulesWin /\ MY!FailsForCause
BY InOrder, LaterRules DEF YamlInv

OrderedInv == part = "yaml" => YamlInv

LEMMA OrderedStart ==
    ASSUME InitPart
    PROVE  OrderedInv
BY YamlStart DEF InitPart, OrderedInv

LEMMA OrderedStep ==
    ASSUME OrderedInv, [NextPart]_allVars
    PROVE  OrderedInv'
<1> SUFFICES ASSUME part' = "yaml"
             PROVE  YamlInv'
  BY DEF OrderedInv
<1>1. CASE StepYaml
  BY <1>1, YamlStep DEF StepYaml, OrderedInv
<1>2. CASE UNCHANGED <<part, YamlVars>>
  <2>1. UNCHANGED <<part, rules, at, yamlPc, goalData, planned>>
    BY <1>2 DEF YamlVars
  <2>2. YamlInv
    BY <2>1 DEF OrderedInv
  <2>3. RulesTyped' /\ (\A n : MappedInv(n)' <=> MappedInv(n)) /\ MY!FailsForCause'
    BY <2>1, <2>2 DEF YamlInv, RulesTyped, MappedInv, EntryInv, MY!FailsForCause,
        MY!Mentioned, MY!Overwritten, MY!ComesLater
  <2>4. \A i : MY!Plan(goalData[i])' = MY!Plan(goalData[i])
    BY <2>1 DEF MY!Plan, MY!After, MY!DependsOn, MY!Entry, MY!GoalsOf, MY!ToSet
  <2> QED
    BY <2>1, <2>2, <2>3, <2>4 DEF YamlInv
<1>3. StepYaml \/ UNCHANGED <<part, YamlVars>>
  BY DEF NextPart, StepJobs, StepJobSpec, StepFile, StepCommand, allVars
<1> QED
  BY <1>1, <1>2, <1>3

(* A machine from YAML files that starts keeps the order its files ask for *)
(* (mapGoals, convertGoalData, configure); of the rules of one name the    *)
(* last counts (configureYaml); and one that does not start has a cause,   *)
(* for all documents without empty groups.                                 *)
THEOREM GoalsInOrderHolds == Parts => []GoalsInOrder
<1>1. OrderedInv => GoalsInOrder
  BY YamlHolds DEF OrderedInv, GoalsInOrder
<1> QED
  BY OrderedStart, OrderedStep, <1>1, PTL DEF Parts
==============================================================================
