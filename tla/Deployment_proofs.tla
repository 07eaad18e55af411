-------------------------- MODULE Deployment_proofs --------------------------
(***************************************************************************)
(* What Deployment is proved to do: results of goals arrive and no secret  *)
(* is left but by a goal that failed without its clean-up, a deployment    *)
(* reported as a success happened, it deploys what the source of the       *)
(* highest priority says, and a fetch has what its selectors include.      *)
(***************************************************************************)
EXTENDS Deployment, FiniteSets, FiniteSetTheorems, WellFoundedInduction, TLAPS

---------------------------------------------------------------------------
(* The results of goals.                                                   *)
Steps == {"start", "env", "run", "read", "version", "cleanup", "tag", "push", "ended"}
Codes == {"none", "success", "failure"}

(* A command holds the secrets it has mounted and not yet removed.         *)
HeldAt(g, i) ==
    /\ goalPc[g] \in {"start", "env", "run", "read", "version", "cleanup"}
    /\ goalPc[g] = "start" => i < place[g]
    /\ goalPc[g] = "cleanup" => place[g] <= i

Arrived(g) ==
    \/ /\ g \in processed /\ g \in linked \cup lost
       /\ results[g] = GR!NoVersion \/ results[g] \in storedVersions
    \/ g \in wiped

ResultTyped ==
    /\ goalPc \in [GR!Goals -> Steps] /\ code \in [GR!Goals -> Codes]
    /\ DOMAIN results = Commands /\ results = [g \in Commands |-> results[g]]
    /\ DOMAIN cloned = Taggers /\ cloned = [g \in Taggers |-> cloned[g]]
    /\ place \in [Commands -> Nat \ {0}]

(* A result is there, processed or wiped from the moment it is written.    *)
ResultKept ==
    \A g \in Commands :
        /\ goalPc[g] \in {"env", "run"} => results[g] = GR!NoResult
        /\ goalPc[g] = "read" /\ results[g] # GR!NoResult => g \in directories \cup wiped
        /\ goalPc[g] = "version" => g \in linked \cup lost
        /\ goalPc[g] \in {"cleanup", "ended"} /\ code[g] = "success" /\ results[g] # GR!NoResult
             => Arrived(g)

(* A secret has a command that removes it, or one that abandoned it.       *)
SecretKept ==
    \A s \in secrets : \E g \in Commands : \E i \in DOMAIN SecretPaths[g] :
        SecretPaths[g][i] = s /\ (HeldAt(g, i) \/ g \in abandoned)

(* What a tagger knows is what was stored.                                 *)
Stored(v) == v = GR!NoVersion \/ v \in storedVersions

VersionKept ==
    /\ Stored(version)
    /\ \A g \in Taggers : Stored(cloned[g].version)
    /\ \A g \in Taggers : goalPc[g] = "push" => GR!IsNamed(g)
    /\ GR!TagsAreVersions

ResultsInv == ResultTyped /\ ResultKept /\ SecretKept /\ VersionKept

(* The step of one goal; those of the others stay. *)
LEMMA GoalMoves ==
    ASSUME ResultTyped, NEW g \in GR!Goals, NEW to \in Steps, NEW how \in Codes,
           goalPc' = [goalPc EXCEPT ![g] = to],
           code' = [code EXCEPT ![g] = how] \/ (UNCHANGED code /\ how = code[g])
    PROVE  /\ goalPc' \in [GR!Goals -> Steps] /\ code' \in [GR!Goals -> Codes]
           /\ goalPc'[g] = to /\ code'[g] = how
           /\ \A h \in GR!Goals \ {g} : goalPc'[h] = goalPc[h] /\ code'[h] = code[h]
BY DEF ResultTyped

LEMMA TagsKept ==
    ASSUME GR!TagsAreVersions, UNCHANGED tags, storedVersions \subseteq storedVersions'
    PROVE  GR!TagsAreVersions'
BY DEF GR!TagsAreVersions

LEMMA NamesKept ==
    ASSUME NEW g, UNCHANGED options, cloned'[g] = cloned[g], GR!IsNamed(g)
    PROVE  GR!IsNamed(g)'
BY DEF GR!IsNamed

LEMMA GoalKinds ==
    /\ \A g \in Commands : g \in GR!Goals /\ g \notin Versioners /\ g \notin Taggers
    /\ \A g \in Versioners \cup Taggers : g \in GR!Goals /\ g \notin Commands
BY DeploymentAssumption DEF GR!Goals

LEMMA PathsOf ==
    ASSUME NEW g \in Commands, NEW n \in Nat \ {0}
    PROVE  /\ DOMAIN SecretPaths[g] \subseteq Nat \ {0}
           /\ n \notin DOMAIN SecretPaths[g] => \A i \in DOMAIN SecretPaths[g] : i < n
<1>1. SecretPaths[g] \in Seq(STRING)
  BY DeploymentAssumption
<1>2. DOMAIN SecretPaths[g] = 1..Len(SecretPaths[g]) /\ Len(SecretPaths[g]) \in Nat
  BY <1>1
<1> QED
  BY <1>2

(* The step of a command, as far as its secrets are concerned.             *)
LEMMA SecretsMove ==
    ASSUME SecretKept, NEW g \in Commands, abandoned \subseteq abandoned',
           \A h \in Commands \ {g} : goalPc'[h] = goalPc[h] /\ place'[h] = place[h],
           \A i \in DOMAIN SecretPaths[g] :
             HeldAt(g, i) /\ SecretPaths[g][i] \in secrets' => HeldAt(g, i)' \/ g \in abandoned',
           \A s \in secrets' \ secrets :
             \E i \in DOMAIN SecretPaths[g] : SecretPaths[g][i] = s /\ HeldAt(g, i)'
    PROVE  SecretKept'
<1> SUFFICES ASSUME NEW s \in secrets'
             PROVE  \E h \in Commands : \E i \in DOMAIN SecretPaths[h] :
                      SecretPaths[h][i] = s /\ (HeldAt(h, i)' \/ h \in abandoned')
  BY DEF SecretKept
<1>1. CASE s \notin secrets
  BY <1>1
<1>2. CASE s \in secrets
  <2>1. PICK h \in Commands : \E i \in DOMAIN SecretPaths[h] :
            SecretPaths[h][i] = s /\ (HeldAt(h, i) \/ h \in abandoned)
    BY <1>2 DEF SecretKept
  <2>2. PICK i \in DOMAIN SecretPaths[h] : SecretPaths[h][i] = s /\ (HeldAt(h, i) \/ h \in abandoned)
    BY <2>1
  <2>3. CASE h = g
    BY <2>2, <2>3
  <2>4. CASE h # g
    BY <2>2, <2>4 DEF HeldAt
  <2> QED
    BY <2>3, <2>4
<1> QED
  BY <1>1, <1>2

LEMMA SecretsStay ==
    ASSUME SecretKept, UNCHANGED <<secrets, abandoned, place>>,
           \A h \in Commands : goalPc'[h] = goalPc[h]
    PROVE  SecretKept'
BY DEF SecretKept, HeldAt

LEMMA StepVersioner ==
    ASSUME ResultsInv, NEW g \in Versioners, GR!ExecuteVersioner(g), UNCHANGED options
    PROVE  ResultsInv'
<1>1. PICK from \in Steps, to \in Steps, how \in Codes :
          /\ goalPc[g] = from /\ goalPc' = [goalPc EXCEPT ![g] = to]
          /\ code' = [code EXCEPT ![g] = how] \/ (UNCHANGED code /\ how = code[g])
          /\ from = "start" /\ to = "ended"
  BY GoalKinds DEF GR!ExecuteVersioner, GR!Step, GR!End, GR!Abandon, GR!Finally, ResultsInv, ResultTyped,
     Steps, Codes
<1>2. g \in GR!Goals
  BY GoalKinds
<1>3. /\ goalPc' \in [GR!Goals -> Steps] /\ code' \in [GR!Goals -> Codes]
      /\ goalPc'[g] = to /\ code'[g] = how
      /\ \A h \in GR!Goals \ {g} : goalPc'[h] = goalPc[h] /\ code'[h] = code[h]
  BY <1>1, <1>2, GoalMoves DEF ResultsInv
<1>4. /\ UNCHANGED <<place, directories, results, secrets, linked, tags, cloned, processed, wiped, lost,
                   abandoned>>
      /\ storedVersions \subseteq storedVersions' /\ (version' \in storedVersions' \/ version' = version)
  BY DEF GR!ExecuteVersioner, GR!StoreVersion, GR!Step, GR!End, GR!Abandon, GR!Finally
<1>5. ResultTyped'
  BY <1>3, <1>4 DEF ResultsInv, ResultTyped
<1>6. ResultKept'
  BY <1>1, <1>3, <1>4, GoalKinds DEF ResultsInv, ResultKept, Arrived
<1>7. SecretKept'
  BY <1>1, <1>3, <1>4, GoalKinds, SecretsStay DEF ResultsInv
<1>8. VersionKept'
  BY <1>1, <1>3, <1>4, GoalKinds, TagsKept, NamesKept DEF ResultsInv, VersionKept, Stored
<1> QED
  BY <1>5, <1>6, <1>7, <1>8 DEF ResultsInv

LEMMA StepMount ==
    ASSUME ResultsInv, NEW g \in Commands, GR!MountSecret(g), UNCHANGED options
    PROVE  ResultsInv'
<1>1. PICK from \in Steps, to \in Steps, how \in Codes :
          /\ goalPc[g] = from /\ goalPc' = [goalPc EXCEPT ![g] = to]
          /\ code' = [code EXCEPT ![g] = how] \/ (UNCHANGED code /\ how = code[g])
          /\ from = "start" /\ place[g] \in DOMAIN SecretPaths[g]
          /\ \/ to = "start" /\ how = code[g] /\ place' = [place EXCEPT ![g] = @ + 1]
             \/ to = "ended" /\ how = "failure" /\ g \in abandoned' /\ UNCHANGED secrets
  BY GoalKinds DEF GR!MountSecret, GR!Step, GR!End, GR!Abandon, GR!Finally, ResultsInv, ResultTyped,
     Steps, Codes
<1>2. /\ g \in GR!Goals /\ place[g] \in Nat \ {0}
      /\ place \in [Commands -> Nat \ {0}]
  BY GoalKinds DEF ResultsInv, ResultTyped
<1>3. /\ goalPc' \in [GR!Goals -> Steps] /\ code' \in [GR!Goals -> Codes]
      /\ goalPc'[g] = to /\ code'[g] = how
      /\ \A h \in GR!Goals \ {g} : goalPc'[h] = goalPc[h] /\ code'[h] = code[h]
  BY <1>1, <1>2, GoalMoves DEF ResultsInv
<1>4. /\ UNCHANGED <<version, directories, results, linked, tags, cloned, storedVersions, processed,
                   wiped, lost>>
      /\ secrets' \subseteq secrets \cup {SecretPaths[g][place[g]]}
  BY DEF GR!MountSecret, GR!StoreVersion, GR!Step, GR!End, GR!Abandon, GR!Finally
<1>9. /\ place' \in [Commands -> Nat \ {0}] /\ \A h \in Commands \ {g} : place'[h] = place[h]
      /\ place' = [place EXCEPT ![g] = place'[g]]
  BY <1>2 DEF GR!MountSecret, GR!Step, GR!End, GR!Abandon, GR!Finally, ResultsInv, ResultTyped
<1>5. ResultTyped'
  BY <1>3, <1>4, <1>9 DEF ResultsInv, ResultTyped
<1>6. ResultKept'
  BY <1>1, <1>3, <1>4, GoalKinds DEF ResultsInv, ResultKept, Arrived
<1>7. SecretKept'
  <2>1. abandoned \subseteq abandoned'
    BY DEF GR!MountSecret, GR!Step, GR!End, GR!Abandon, GR!Finally
  <2>2. \A i \in DOMAIN SecretPaths[g] :
          HeldAt(g, i) /\ SecretPaths[g][i] \in secrets' => HeldAt(g, i)' \/ g \in abandoned'
    <3>1. CASE to = "start"
      <4>1. place'[g] = place[g] + 1
        BY <1>1, <1>2, <3>1
      <4> QED
        BY <1>1, <1>2, <1>3, <3>1, <4>1, PathsOf DEF HeldAt
    <3>2. CASE to # "start"
      BY <1>1, <3>2
    <3> QED
      BY <3>1, <3>2
  <2>3. \A s \in secrets' \ secrets :
          \E i \in DOMAIN SecretPaths[g] : SecretPaths[g][i] = s /\ HeldAt(g, i)'
    <3>1. CASE to = "start"
      <4>1. place'[g] = place[g] + 1
        BY <1>1, <1>2, <3>1
      <4>2. \A i \in DOMAIN SecretPaths[g] : i = place[g] => HeldAt(g, i)'
        BY <1>2, <1>3, <3>1, <4>1 DEF HeldAt
      <4> QED
        BY <1>1, <1>4, <4>2
    <3>2. CASE to # "start"
      BY <1>1, <3>2
    <3> QED
      BY <3>1, <3>2
  <2> QED
    BY <1>3, <1>9, <2>1, <2>2, <2>3, GoalKinds, SecretsMove DEF ResultsInv
<1>8. VersionKept'
  BY <1>1, <1>3, <1>4, GoalKinds, TagsKept, NamesKept DEF ResultsInv, VersionKept, Stored
<1> QED
  BY <1>5, <1>6, <1>7, <1>8 DEF ResultsInv

LEMMA StepPrepare ==
    ASSUME ResultsInv, NEW g \in Commands, GR!PrepareInputAndOutput(g), UNCHANGED options
    PROVE  ResultsInv'
<1>1. PICK from \in Steps, to \in Steps, how \in Codes :
          /\ goalPc[g] = from /\ goalPc' = [goalPc EXCEPT ![g] = to]
          /\ code' = [code EXCEPT ![g] = how] \/ (UNCHANGED code /\ how = code[g])
          /\ from = "start"
          /\ \/ to = "env"
             \/ to = "ended" /\ how = "failure" /\ g \in abandoned'
  BY GoalKinds DEF GR!PrepareInputAndOutput, GR!Step, GR!End, GR!Abandon, GR!Finally, ResultsInv, ResultTyped,
     Steps, Codes
<1>2. /\ g \in GR!Goals /\ place[g] \in Nat \ {0}
      /\ place \in [Commands -> Nat \ {0}]
  BY GoalKinds DEF ResultsInv, ResultTyped
<1>3. /\ goalPc' \in [GR!Goals -> Steps] /\ code' \in [GR!Goals -> Codes]
      /\ goalPc'[g] = to /\ code'[g] = how
      /\ \A h \in GR!Goals \ {g} : goalPc'[h] = goalPc[h] /\ code'[h] = code[h]
  BY <1>1, <1>2, GoalMoves DEF ResultsInv
<1>4. /\ UNCHANGED <<version, secrets, linked, tags, cloned, storedVersions, processed, wiped, lost>>
      /\ results' = [results EXCEPT ![g] = GR!NoResult] /\ directories \subseteq directories'
  BY DEF GR!PrepareInputAndOutput, GR!StoreVersion, GR!Step, GR!End, GR!Abandon, GR!Finally
<1>9. /\ place' \in [Commands -> Nat \ {0}] /\ \A h \in Commands \ {g} : place'[h] = place[h]
      /\ place' = [place EXCEPT ![g] = place'[g]]
  BY <1>2 DEF GR!PrepareInputAndOutput, GR!Step, GR!End, GR!Abandon, GR!Finally, ResultsInv, ResultTyped
<1>5. ResultTyped'
  BY <1>3, <1>4, <1>9 DEF ResultsInv, ResultTyped
<1>6. ResultKept'
  <2>1. /\ \A h \in Commands \ {g} : results'[h] = results[h] /\ h \in GR!Goals
        /\ results'[g] = GR!NoResult
    BY <1>1, <1>4, GoalKinds DEF ResultsInv, ResultTyped
  <2>2. \A h \in Commands \ {g} : goalPc'[h] = goalPc[h] /\ code'[h] = code[h]
    BY <1>3, <2>1
  <2> QED
    BY <1>1, <1>3, <1>4, <2>1, <2>2 DEF ResultsInv, ResultKept, Arrived
<1>7. SecretKept'
  <2>1. abandoned \subseteq abandoned'
    BY DEF GR!PrepareInputAndOutput, GR!Step, GR!End, GR!Abandon, GR!Finally
  <2>2. \A i \in DOMAIN SecretPaths[g] :
          HeldAt(g, i) /\ SecretPaths[g][i] \in secrets' => HeldAt(g, i)' \/ g \in abandoned'
    BY <1>1, <1>2, <1>3, <1>9, PathsOf DEF HeldAt
  <2>3. \A s \in secrets' \ secrets :
          \E i \in DOMAIN SecretPaths[g] : SecretPaths[g][i] = s /\ HeldAt(g, i)'
    BY <1>4
  <2> QED
    BY <1>3, <1>9, <2>1, <2>2, <2>3, GoalKinds, SecretsMove DEF ResultsInv
<1>8. VersionKept'
  BY <1>1, <1>3, <1>4, GoalKinds, TagsKept, NamesKept DEF ResultsInv, VersionKept, Stored
<1> QED
  BY <1>5, <1>6, <1>7, <1>8 DEF ResultsInv

LEMMA StepEnv ==
    ASSUME ResultsInv, NEW g \in Commands, GR!ContainerEnvVars(g), UNCHANGED options
    PROVE  ResultsInv'
<1>1. PICK from \in Steps, to \in Steps, how \in Codes :
          /\ goalPc[g] = from /\ goalPc' = [goalPc EXCEPT ![g] = to]
          /\ code' = [code EXCEPT ![g] = how] \/ (UNCHANGED code /\ how = code[g])
          /\ from = "env"
          /\ \/ to = "run"
             \/ to = "ended" /\ how = "failure" /\ g \in abandoned'
  BY GoalKinds DEF GR!ContainerEnvVars, GR!Step, GR!End, GR!Abandon, GR!Finally, ResultsInv, ResultTyped,
     Steps, Codes
<1>2. /\ g \in GR!Goals /\ place[g] \in Nat \ {0}
      /\ place \in [Commands -> Nat \ {0}]
  BY GoalKinds DEF ResultsInv, ResultTyped
<1>3. /\ goalPc' \in [GR!Goals -> Steps] /\ code' \in [GR!Goals -> Codes]
      /\ goalPc'[g] = to /\ code'[g] = how
      /\ \A h \in GR!Goals \ {g} : goalPc'[h] = goalPc[h] /\ code'[h] = code[h]
  BY <1>1, <1>2, GoalMoves DEF ResultsInv
<1>4. /\ UNCHANGED <<version, directories, results, secrets, linked, tags, cloned, storedVersions,
                   processed, wiped, lost>>
  BY DEF GR!ContainerEnvVars, GR!StoreVersion, GR!Step, GR!End, GR!Abandon, GR!Finally
<1>9. /\ place' \in [Commands -> Nat \ {0}] /\ \A h \in Commands \ {g} : place'[h] = place[h]
      /\ place' = [place EXCEPT ![g] = place'[g]]
  BY <1>2 DEF GR!ContainerEnvVars, GR!Step, GR!End, GR!Abandon, GR!Finally, ResultsInv, ResultTyped
<1>5. ResultTyped'
  BY <1>3, <1>4, <1>9 DEF ResultsInv, ResultTyped
<1>6. ResultKept'
  BY <1>1, <1>3, <1>4, GoalKinds DEF ResultsInv, ResultKept, Arrived
<1>7. SecretKept'
  <2>1. abandoned \subseteq abandoned'
    BY DEF GR!ContainerEnvVars, GR!Step, GR!End, GR!Abandon, GR!Finally
  <2>2. \A i \in DOMAIN SecretPaths[g] :
          HeldAt(g, i) /\ SecretPaths[g][i] \in secrets' => HeldAt(g, i)' \/ g \in abandoned'
    BY <1>1, <1>2, <1>3, <1>9, PathsOf DEF HeldAt
  <2>3. \A s \in secrets' \ secrets :
          \E i \in DOMAIN SecretPaths[g] : SecretPaths[g][i] = s /\ HeldAt(g, i)'
    BY <1>4
  <2> QED
    BY <1>3, <1>9, <2>1, <2>2, <2>3, GoalKinds, SecretsMove DEF ResultsInv
<1>8. VersionKept'
  BY <1>1, <1>3, <1>4, GoalKinds, TagsKept, NamesKept DEF ResultsInv, VersionKept, Stored
<1> QED
  BY <1>5, <1>6, <1>7, <1>8 DEF ResultsInv

LEMMA StepRun ==
    ASSUME ResultsInv, NEW g \in Commands, GR!RunProgram(g), UNCHANGED options
    PROVE  ResultsInv'
<1>1. PICK from \in Steps, to \in Steps, how \in Codes :
          /\ goalPc[g] = from /\ goalPc' = [goalPc EXCEPT ![g] = to]
          /\ code' = [code EXCEPT ![g] = how] \/ (UNCHANGED code /\ how = code[g])
          /\ from = "run"
          /\ \/ to = "cleanup" /\ how = "failure" /\ place' = [place EXCEPT ![g] = 1] /\ UNCHANGED results
             \/ to = "read" /\ UNCHANGED results
             \/ to = "read" /\ g \in directories /\ \E v : results' = [results EXCEPT ![g] = v]
  BY GoalKinds DEF GR!RunProgram, GR!Step, GR!End, GR!Abandon, GR!Finally, ResultsInv, ResultTyped,
     Steps, Codes
<1>2. /\ g \in GR!Goals /\ place[g] \in Nat \ {0}
      /\ place \in [Commands -> Nat \ {0}]
  BY GoalKinds DEF ResultsInv, ResultTyped
<1>3. /\ goalPc' \in [GR!Goals -> Steps] /\ code' \in [GR!Goals -> Codes]
      /\ goalPc'[g] = to /\ code'[g] = how
      /\ \A h \in GR!Goals \ {g} : goalPc'[h] = goalPc[h] /\ code'[h] = code[h]
  BY <1>1, <1>2, GoalMoves DEF ResultsInv
<1>4. /\ UNCHANGED <<version, directories, secrets, linked, tags, cloned, storedVersions,
                   processed, wiped, lost, abandoned>>
      /\ UNCHANGED results \/ \E v : results' = [results EXCEPT ![g] = v]
  BY DEF GR!RunProgram, GR!StoreVersion, GR!Step, GR!End, GR!Abandon, GR!Finally
<1>9. /\ place' \in [Commands -> Nat \ {0}] /\ \A h \in Commands \ {g} : place'[h] = place[h]
      /\ place' = [place EXCEPT ![g] = place'[g]]
  BY <1>2 DEF GR!RunProgram, GR!Step, GR!End, GR!Abandon, GR!Finally, ResultsInv, ResultTyped
<1>5. ResultTyped'
  BY <1>3, <1>4, <1>9 DEF ResultsInv, ResultTyped
<1>6. ResultKept'
  <2>1. /\ \A h \in Commands \ {g} : results'[h] = results[h] /\ h \in GR!Goals
        /\ UNCHANGED results \/ g \in directories
    BY <1>1, <1>4, GoalKinds DEF ResultsInv, ResultTyped
  <2>2. \A h \in Commands \ {g} : goalPc'[h] = goalPc[h] /\ code'[h] = code[h]
    BY <1>3, <2>1
  <2> QED
    BY <1>1, <1>3, <1>4, <2>1, <2>2 DEF ResultsInv, ResultKept, Arrived
<1>7. SecretKept'
  <2>1. abandoned \subseteq abandoned'
    BY DEF GR!RunProgram, GR!Step, GR!End, GR!Abandon, GR!Finally
  <2>2. \A i \in DOMAIN SecretPaths[g] :
          HeldAt(g, i) /\ SecretPaths[g][i] \in secrets' => HeldAt(g, i)' \/ g \in abandoned'
    <3>1. to = "cleanup" => place'[g] = 1
      BY <1>1, <1>2
    <3> QED
      BY <1>1, <1>2, <1>3, <3>1, PathsOf DEF HeldAt
  <2>3. \A s \in secrets' \ secrets :
          \E i \in DOMAIN SecretPaths[g] : SecretPaths[g][i] = s /\ HeldAt(g, i)'
    BY <1>4
  <2> QED
    BY <1>3, <1>9, <2>1, <2>2, <2>3, GoalKinds, SecretsMove DEF ResultsInv
<1>8. VersionKept'
  BY <1>1, <1>3, <1>4, GoalKinds, TagsKept, NamesKept DEF ResultsInv, VersionKept, Stored
<1> QED
  BY <1>5, <1>6, <1>7, <1>8 DEF ResultsInv

LEMMA StepProcess ==
    ASSUME ResultsInv, NEW g \in Commands, GR!ProcessResult(g), UNCHANGED options
    PROVE  ResultsInv'
<1>1. PICK from \in Steps, to \in Steps, how \in Codes :
          /\ goalPc[g] = from /\ goalPc' = [goalPc EXCEPT ![g] = to]
          /\ code' = [code EXCEPT ![g] = how] \/ (UNCHANGED code /\ how = code[g])
          /\ from = "read"
          /\ to = "version" \/ (to = "cleanup" /\ place' = [place EXCEPT ![g] = 1])
          /\ \/ to = "cleanup" /\ (how = "failure" \/ ~GR!HasResult(g))
             \/ to = "version" /\ how = code[g] /\ g \in linked' \cup lost'
             \/ to = "cleanup" /\ results[g] = GR!NoVersion /\ g \in processed' /\ g \in linked' \cup lost'
  BY GoalKinds DEF GR!ProcessResult, GR!Step, GR!End, GR!Abandon, GR!Finally, ResultsInv, ResultTyped,
     Steps, Codes
<1>2. /\ g \in GR!Goals /\ place[g] \in Nat \ {0}
      /\ place \in [Commands -> Nat \ {0}]
  BY GoalKinds DEF ResultsInv, ResultTyped
<1>3. /\ goalPc' \in [GR!Goals -> Steps] /\ code' \in [GR!Goals -> Codes]
      /\ goalPc'[g] = to /\ code'[g] = how
      /\ \A h \in GR!Goals \ {g} : goalPc'[h] = goalPc[h] /\ code'[h] = code[h]
  BY <1>1, <1>2, GoalMoves DEF ResultsInv
<1>4. /\ UNCHANGED <<version, directories, results, secrets, tags, cloned, storedVersions, wiped,
                   abandoned>>
      /\ processed \subseteq processed' /\ linked \subseteq linked' /\ lost \subseteq lost'
  BY DEF GR!ProcessResult, GR!StoreVersion, GR!Step, GR!End, GR!Abandon, GR!Finally
<1>9. /\ place' \in [Commands -> Nat \ {0}] /\ \A h \in Commands \ {g} : place'[h] = place[h]
      /\ place' = [place EXCEPT ![g] = place'[g]]
  BY <1>2 DEF GR!ProcessResult, GR!Step, GR!End, GR!Abandon, GR!Finally, ResultsInv, ResultTyped
<1>5. ResultTyped'
  BY <1>3, <1>4, <1>9 DEF ResultsInv, ResultTyped
<1>6. ResultKept'
  BY <1>1, <1>3, <1>4, GoalKinds DEF ResultsInv, ResultKept, Arrived, GR!HasResult
<1>7. SecretKept'
  <2>1. abandoned \subseteq abandoned'
    BY DEF GR!ProcessResult, GR!Step, GR!End, GR!Abandon, GR!Finally
  <2>2. \A i \in DOMAIN SecretPaths[g] :
          HeldAt(g, i) /\ SecretPaths[g][i] \in secrets' => HeldAt(g, i)' \/ g \in abandoned'
    <3>1. to = "cleanup" => place'[g] = 1
      BY <1>1, <1>2
    <3> QED
      BY <1>1, <1>2, <1>3, <3>1, PathsOf DEF HeldAt
  <2>3. \A s \in secrets' \ secrets :
          \E i \in DOMAIN SecretPaths[g] : SecretPaths[g][i] = s /\ HeldAt(g, i)'
    BY <1>4
  <2> QED
    BY <1>3, <1>9, <2>1, <2>2, <2>3, GoalKinds, SecretsMove DEF ResultsInv
<1>8. VersionKept'
  BY <1>1, <1>3, <1>4, GoalKinds, TagsKept, NamesKept DEF ResultsInv, VersionKept, Stored
<1> QED
  BY <1>5, <1>6, <1>7, <1>8 DEF ResultsInv

LEMMA StepUpdate ==
    ASSUME ResultsInv, NEW g \in Commands, GR!UpdateSdmVersion(g), UNCHANGED options
    PROVE  ResultsInv'
<1>1. PICK from \in Steps, to \in Steps, how \in Codes :
          /\ goalPc[g] = from /\ goalPc' = [goalPc EXCEPT ![g] = to]
          /\ code' = [code EXCEPT ![g] = how] \/ (UNCHANGED code /\ how = code[g])
          /\ from = "version" /\ to = "cleanup" /\ place' = [place EXCEPT ![g] = 1]
          /\ how = "failure" \/ (g \in processed' /\ results[g] \in storedVersions')
  BY GoalKinds DEF GR!UpdateSdmVersion, GR!Step, GR!End, GR!Abandon, GR!Finally, ResultsInv, ResultTyped,
     Steps, Codes, GR!StoreVersion
<1>2. /\ g \in GR!Goals /\ place[g] \in Nat \ {0}
      /\ place \in [Commands -> Nat \ {0}]
  BY GoalKinds DEF ResultsInv, ResultTyped
<1>3. /\ goalPc' \in [GR!Goals -> Steps] /\ code' \in [GR!Goals -> Codes]
      /\ goalPc'[g] = to /\ code'[g] = how
      /\ \A h \in GR!Goals \ {g} : goalPc'[h] = goalPc[h] /\ code'[h] = code[h]
  BY <1>1, <1>2, GoalMoves DEF ResultsInv
<1>4. /\ UNCHANGED <<directories, results, secrets, linked, tags, cloned, wiped, lost, abandoned>>
      /\ storedVersions \subseteq storedVersions' /\ processed \subseteq processed'
      /\ version' = version \/ version' \in storedVersions'
  BY DEF GR!UpdateSdmVersion, GR!StoreVersion, GR!Step, GR!End, GR!Abandon, GR!Finally
<1>9. /\ place' \in [Commands -> Nat \ {0}] /\ \A h \in Commands \ {g} : place'[h] = place[h]
      /\ place' = [place EXCEPT ![g] = place'[g]]
  BY <1>2 DEF GR!UpdateSdmVersion, GR!Step, GR!End, GR!Abandon, GR!Finally, ResultsInv, ResultTyped
<1>5. ResultTyped'
  BY <1>3, <1>4, <1>9 DEF ResultsInv, ResultTyped
<1>6. ResultKept'
  BY <1>1, <1>3, <1>4, GoalKinds DEF ResultsInv, ResultKept, Arrived
<1>7. SecretKept'
  <2>1. abandoned \subseteq abandoned'
    BY DEF GR!UpdateSdmVersion, GR!Step, GR!End, GR!Abandon, GR!Finally
  <2>2. \A i \in DOMAIN SecretPaths[g] :
          HeldAt(g, i) /\ SecretPaths[g][i] \in secrets' => HeldAt(g, i)' \/ g \in abandoned'
    <3>1. to = "cleanup" => place'[g] = 1
      BY <1>1, <1>2
    <3> QED
      BY <1>1, <1>2, <1>3, <3>1, PathsOf DEF HeldAt
  <2>3. \A s \in secrets' \ secrets :
          \E i \in DOMAIN SecretPaths[g] : SecretPaths[g][i] = s /\ HeldAt(g, i)'
    BY <1>4
  <2> QED
    BY <1>3, <1>9, <2>1, <2>2, <2>3, GoalKinds, SecretsMove DEF ResultsInv
<1>8. VersionKept'
  BY <1>1, <1>3, <1>4, GoalKinds, TagsKept, NamesKept DEF ResultsInv, VersionKept, Stored
<1> QED
  BY <1>5, <1>6, <1>7, <1>8 DEF ResultsInv

LEMMA StepRemoveSecret ==
    ASSUME ResultsInv, NEW g \in Commands, GR!RemoveSecret(g), UNCHANGED options
    PROVE  ResultsInv'
<1>1. PICK from \in Steps, to \in Steps, how \in Codes :
          /\ goalPc[g] = from /\ goalPc' = [goalPc EXCEPT ![g] = to]
          /\ code' = [code EXCEPT ![g] = how] \/ (UNCHANGED code /\ how = code[g])
          /\ from = "cleanup" /\ place[g] \in DOMAIN SecretPaths[g]
          /\ \/ to = "cleanup" /\ how = code[g] /\ place' = [place EXCEPT ![g] = @ + 1]
                /\ SecretPaths[g][place[g]] \notin secrets'
             \/ to = "ended" /\ how = "failure" /\ g \in abandoned'
  BY GoalKinds DEF GR!RemoveSecret, GR!Step, GR!End, GR!Abandon, GR!Finally, ResultsInv, ResultTyped,
     Steps, Codes
<1>2. /\ g \in GR!Goals /\ place[g] \in Nat \ {0}
      /\ place \in [Commands -> Nat \ {0}]
  BY GoalKinds DEF ResultsInv, ResultTyped
<1>3. /\ goalPc' \in [GR!Goals -> Steps] /\ code' \in [GR!Goals -> Codes]
      /\ goalPc'[g] = to /\ code'[g] = how
      /\ \A h \in GR!Goals \ {g} : goalPc'[h] = goalPc[h] /\ code'[h] = code[h]
  BY <1>1, <1>2, GoalMoves DEF ResultsInv
<1>4. /\ UNCHANGED <<version, directories, results, linked, tags, cloned, storedVersions, processed,
                   wiped, lost>>
      /\ secrets' \subseteq secrets
  BY DEF GR!RemoveSecret, GR!StoreVersion, GR!Step, GR!End, GR!Abandon, GR!Finally
<1>9. /\ place' \in [Commands -> Nat \ {0}] /\ \A h \in Commands \ {g} : place'[h] = place[h]
      /\ place' = [place EXCEPT ![g] = place'[g]]
  BY <1>2 DEF GR!RemoveSecret, GR!Step, GR!End, GR!Abandon, GR!Finally, ResultsInv, ResultTyped
<1>5. ResultTyped'
  BY <1>3, <1>4, <1>9 DEF ResultsInv, ResultTyped
<1>6. ResultKept'
  BY <1>1, <1>3, <1>4, GoalKinds DEF ResultsInv, ResultKept, Arrived
<1>7. SecretKept'
  <2>1. abandoned \subseteq abandoned'
    BY DEF GR!RemoveSecret, GR!Step, GR!End, GR!Abandon, GR!Finally
  <2>2. \A i \in DOMAIN SecretPaths[g] :
          HeldAt(g, i) /\ SecretPaths[g][i] \in secrets' => HeldAt(g, i)' \/ g \in abandoned'
    <3>1. CASE to = "cleanup"
      <4>1. place'[g] = place[g] + 1
        BY <1>1, <1>2, <3>1
      <4>2. ASSUME NEW i \in DOMAIN SecretPaths[g], place[g] <= i, SecretPaths[g][i] \in secrets'
            PROVE  place[g] + 1 <= i
        <5>1. i # place[g] /\ i \in Nat
          BY <1>1, <1>2, <3>1, <4>2, PathsOf
        <5> QED
          BY <1>2, <4>2, <5>1
      <4> QED
        BY <1>1, <1>3, <3>1, <4>1, <4>2 DEF HeldAt
    <3>2. CASE to # "cleanup"
      BY <1>1, <3>2
    <3> QED
      BY <3>1, <3>2
  <2>3. \A s \in secrets' \ secrets :
          \E i \in DOMAIN SecretPaths[g] : SecretPaths[g][i] = s /\ HeldAt(g, i)'
    BY <1>4
  <2> QED
    BY <1>3, <1>9, <2>1, <2>2, <2>3, GoalKinds, SecretsMove DEF ResultsInv
<1>8. VersionKept'
  BY <1>1, <1>3, <1>4, GoalKinds, TagsKept, NamesKept DEF ResultsInv, VersionKept, Stored
<1> QED
  BY <1>5, <1>6, <1>7, <1>8 DEF ResultsInv

LEMMA StepRemoveDir ==
    ASSUME ResultsInv, NEW g \in Commands, GR!RemoveTmpDir(g), UNCHANGED options
    PROVE  ResultsInv'
<1>1. PICK from \in Steps, to \in Steps, how \in Codes :
          /\ goalPc[g] = from /\ goalPc' = [goalPc EXCEPT ![g] = to]
          /\ code' = [code EXCEPT ![g] = how] \/ (UNCHANGED code /\ how = code[g])
          /\ from = "cleanup" /\ to = "ended" /\ how \in {code[g], "failure"}
          /\ place[g] \notin DOMAIN SecretPaths[g]
  BY GoalKinds DEF GR!RemoveTmpDir, GR!Step, GR!End, GR!Abandon, GR!Finally, ResultsInv, ResultTyped,
     Steps, Codes
<1>2. /\ g \in GR!Goals /\ place[g] \in Nat \ {0}
      /\ place \in [Commands -> Nat \ {0}]
  BY GoalKinds DEF ResultsInv, ResultTyped
<1>3. /\ goalPc' \in [GR!Goals -> Steps] /\ code' \in [GR!Goals -> Codes]
      /\ goalPc'[g] = to /\ code'[g] = how
      /\ \A h \in GR!Goals \ {g} : goalPc'[h] = goalPc[h] /\ code'[h] = code[h]
  BY <1>1, <1>2, GoalMoves DEF ResultsInv
<1>4. /\ UNCHANGED <<version, results, secrets, linked, tags, cloned, storedVersions, processed, lost,
                   abandoned>>
      /\ wiped \subseteq wiped'
      /\ \A c \in directories \ {g} : c \in directories' \/ results[c] = GR!NoResult \/ c \in wiped'
  BY DEF GR!RemoveTmpDir, GR!StoreVersion, GR!Step, GR!End, GR!Abandon, GR!Finally
<1>9. /\ place' \in [Commands -> Nat \ {0}] /\ \A h \in Commands \ {g} : place'[h] = place[h]
      /\ place' = [place EXCEPT ![g] = place'[g]]
  BY <1>2 DEF GR!RemoveTmpDir, GR!Step, GR!End, GR!Abandon, GR!Finally, ResultsInv, ResultTyped
<1>5. ResultTyped'
  BY <1>3, <1>4, <1>9 DEF ResultsInv, ResultTyped
<1>6. ResultKept'
  BY <1>1, <1>3, <1>4, GoalKinds DEF ResultsInv, ResultKept, Arrived
<1>7. SecretKept'
  <2>1. abandoned \subseteq abandoned'
    BY DEF GR!RemoveTmpDir, GR!Step, GR!End, GR!Abandon, GR!Finally
  <2>2. \A i \in DOMAIN SecretPaths[g] :
          HeldAt(g, i) /\ SecretPaths[g][i] \in secrets' => HeldAt(g, i)' \/ g \in abandoned'
    <3>1. \A i \in DOMAIN SecretPaths[g] : i < place[g] /\ i \in Nat
      BY <1>1, <1>2, PathsOf
    <3>2. \A i \in DOMAIN SecretPaths[g] : ~(place[g] <= i)
      BY <1>2, <3>1
    <3> QED
      BY <1>1, <3>2 DEF HeldAt
  <2>3. \A s \in secrets' \ secrets :
          \E i \in DOMAIN SecretPaths[g] : SecretPaths[g][i] = s /\ HeldAt(g, i)'
    BY <1>4
  <2> QED
    BY <1>3, <1>9, <2>1, <2>2, <2>3, GoalKinds, SecretsMove DEF ResultsInv
<1>8. VersionKept'
  BY <1>1, <1>3, <1>4, GoalKinds, TagsKept, NamesKept DEF ResultsInv, VersionKept, Stored
<1> QED
  BY <1>5, <1>6, <1>7, <1>8 DEF ResultsInv

LEMMA StepRead ==
    ASSUME ResultsInv, NEW g \in Taggers, GR!ReadVersion(g), UNCHANGED options
    PROVE  ResultsInv'
<1>1. PICK from \in Steps, to \in Steps, how \in Codes :
          /\ goalPc[g] = from /\ goalPc' = [goalPc EXCEPT ![g] = to]
          /\ code' = [code EXCEPT ![g] = how] \/ (UNCHANGED code /\ how = code[g])
          /\ from = "start" /\ to \in {"tag", "ended"}
  BY GoalKinds DEF GR!ReadVersion, GR!Step, GR!End, GR!Abandon, GR!Finally, ResultsInv, ResultTyped,
     Steps, Codes
<1>2. g \in GR!Goals
  BY GoalKinds
<1>3. /\ goalPc' \in [GR!Goals -> Steps] /\ code' \in [GR!Goals -> Codes]
      /\ goalPc'[g] = to /\ code'[g] = how
      /\ \A h \in GR!Goals \ {g} : goalPc'[h] = goalPc[h] /\ code'[h] = code[h]
  BY <1>1, <1>2, GoalMoves DEF ResultsInv
<1>4. /\ UNCHANGED <<place, version, directories, results, secrets, linked, tags, storedVersions, processed,
                   wiped, lost, abandoned>>
      /\ \/ UNCHANGED cloned
         \/ cloned' = [cloned EXCEPT ![g] = [tags |-> tags, version |-> version]]
  BY DEF GR!ReadVersion, GR!StoreVersion, GR!Step, GR!End, GR!Abandon, GR!Finally
<1>5. ResultTyped'
  BY <1>3, <1>4 DEF ResultsInv, ResultTyped
<1>6. ResultKept'
  BY <1>1, <1>3, <1>4, GoalKinds DEF ResultsInv, ResultKept, Arrived
<1>7. SecretKept'
  BY <1>1, <1>3, <1>4, GoalKinds, SecretsStay DEF ResultsInv
<1>8. VersionKept'
  <2>1. \A h \in Taggers : cloned'[h].version \in {cloned[h].version, version}
    BY <1>4 DEF ResultsInv, ResultTyped
  <2>2. \A h \in Taggers : goalPc'[h] = "push" => goalPc[h] = "push" /\ cloned'[h] = cloned[h]
    BY <1>1, <1>3, <1>4, GoalKinds DEF ResultsInv, ResultTyped
  <2>3. \A h \in Taggers : goalPc'[h] = "push" => GR!IsNamed(h)'
    BY <2>2, NamesKept DEF ResultsInv, VersionKept
  <2> QED
    BY <1>4, <2>1, <2>3, TagsKept DEF ResultsInv, VersionKept, Stored
<1> QED
  BY <1>5, <1>6, <1>7, <1>8 DEF ResultsInv

LEMMA StepTag ==
    ASSUME ResultsInv, NEW g \in Taggers, GR!CreateTag(g), UNCHANGED options
    PROVE  ResultsInv'
<1>1. PICK from \in Steps, to \in Steps, how \in Codes :
          /\ goalPc[g] = from /\ goalPc' = [goalPc EXCEPT ![g] = to]
          /\ code' = [code EXCEPT ![g] = how] \/ (UNCHANGED code /\ how = code[g])
          /\ from = "tag"
          /\ to = "ended" \/ (to = "push" /\ GR!IsNamed(g) /\ UNCHANGED cloned)
  BY GoalKinds DEF GR!CreateTag, GR!Step, GR!End, GR!Abandon, GR!Finally, ResultsInv, ResultTyped,
     Steps, Codes, GR!CanTag
<1>2. g \in GR!Goals
  BY GoalKinds
<1>3. /\ goalPc' \in [GR!Goals -> Steps] /\ code' \in [GR!Goals -> Codes]
      /\ goalPc'[g] = to /\ code'[g] = how
      /\ \A h \in GR!Goals \ {g} : goalPc'[h] = goalPc[h] /\ code'[h] = code[h]
  BY <1>1, <1>2, GoalMoves DEF ResultsInv
<1>4. /\ UNCHANGED <<place, version, directories, results, secrets, linked, tags, storedVersions,
                   processed, wiped, lost, abandoned>>
      /\ UNCHANGED cloned \/ cloned' = [cloned EXCEPT ![g] = GR!NoClone]
  BY DEF GR!CreateTag, GR!StoreVersion, GR!Step, GR!End, GR!Abandon, GR!Finally
<1>5. ResultTyped'
  BY <1>3, <1>4 DEF ResultsInv, ResultTyped
<1>6. ResultKept'
  BY <1>1, <1>3, <1>4, GoalKinds DEF ResultsInv, ResultKept, Arrived
<1>7. SecretKept'
  BY <1>1, <1>3, <1>4, GoalKinds, SecretsStay DEF ResultsInv
<1>8. VersionKept'
  <2>1. \A h \in Taggers : cloned'[h] \in {cloned[h], GR!NoClone}
    BY <1>4 DEF ResultsInv, ResultTyped
  <2>2. \A h \in Taggers : Stored(cloned[h].version)'
    BY <1>4, <2>1 DEF ResultsInv, VersionKept, Stored, GR!NoClone
  <2>3. \A h \in Taggers : goalPc'[h] = "push" => GR!IsNamed(h) /\ cloned'[h] = cloned[h]
    BY <1>1, <1>3, <1>4, GoalKinds DEF ResultsInv, ResultTyped, VersionKept
  <2> QED
    BY <1>4, <2>2, <2>3, TagsKept, NamesKept DEF ResultsInv, VersionKept, Stored
<1> QED
  BY <1>5, <1>6, <1>7, <1>8 DEF ResultsInv

LEMMA StepPush ==
    ASSUME ResultsInv, NEW g \in Taggers, GR!PushTag(g), UNCHANGED options
    PROVE  ResultsInv'
<1>1. PICK from \in Steps, to \in Steps, how \in Codes :
          /\ goalPc[g] = from /\ goalPc' = [goalPc EXCEPT ![g] = to]
          /\ code' = [code EXCEPT ![g] = how] \/ (UNCHANGED code /\ how = code[g])
          /\ from = "push" /\ to = "ended"
  BY GoalKinds DEF GR!PushTag, GR!Step, GR!End, GR!Abandon, GR!Finally, ResultsInv, ResultTyped,
     Steps, Codes
<1>2. g \in GR!Goals
  BY GoalKinds
<1>3. /\ goalPc' \in [GR!Goals -> Steps] /\ code' \in [GR!Goals -> Codes]
      /\ goalPc'[g] = to /\ code'[g] = how
      /\ \A h \in GR!Goals \ {g} : goalPc'[h] = goalPc[h] /\ code'[h] = code[h]
  BY <1>1, <1>2, GoalMoves DEF ResultsInv
<1>4. /\ UNCHANGED <<place, version, directories, results, secrets, linked, storedVersions, processed,
                   wiped, lost, abandoned>>
      /\ cloned' = [cloned EXCEPT ![g] = GR!NoClone]
      /\ tags' \subseteq tags \cup {GR!Tag(g, cloned[g].version)}
  BY DEF GR!PushTag, GR!StoreVersion, GR!Step, GR!End, GR!Abandon, GR!Finally
<1>5. ResultTyped'
  BY <1>3, <1>4 DEF ResultsInv, ResultTyped
<1>6. ResultKept'
  BY <1>1, <1>3, <1>4, GoalKinds DEF ResultsInv, ResultKept, Arrived
<1>7. SecretKept'
  BY <1>1, <1>3, <1>4, GoalKinds, SecretsStay DEF ResultsInv
<1>8. VersionKept'
  <2>1. \A h \in Taggers : cloned'[h] \in {cloned[h], GR!NoClone}
    BY <1>4 DEF ResultsInv, ResultTyped
  <2>2. \A h \in Taggers : Stored(cloned[h].version)'
    BY <1>4, <2>1 DEF ResultsInv, VersionKept, Stored, GR!NoClone
  <2>3. \A h \in Taggers : goalPc'[h] = "push" => GR!IsNamed(h) /\ cloned'[h] = cloned[h]
    BY <1>1, <1>3, <1>4, GoalKinds DEF ResultsInv, ResultTyped, VersionKept
  <2>4. GR!IsNamed(g) /\ Stored(cloned[g].version)
    BY <1>1 DEF ResultsInv, VersionKept
  <2>5. GR!TagsAreVersions'
    <3> DEFINE tag == GR!Tag(g, cloned[g].version)
    <3>1. tag.name = "" =>
                          \/ tag.version \in (IF tag.release THEN {GR!Release(v) : v \in storedVersions}
                                              ELSE storedVersions)
                          \/ tag.version = GR!NoVersion /\ tag.build # ""
      <4> DEFINE v == cloned[g].version
      <4>1. /\ tag.name = options[g].name /\ tag.build = options[g].build
            /\ tag.release = (options[g].name = "" /\ options[g].release)
            /\ tag.version = IF options[g].name # "" THEN GR!NoVersion
                             ELSE IF options[g].release THEN GR!Release(v) ELSE v
        BY DEF GR!Tag
      <4>2. v \in storedVersions \/ (v = GR!NoVersion /\ (options[g].name # ""
                                        \/ (options[g].build # "" /\ ~options[g].release)))
        BY <2>4 DEF GR!IsNamed, Stored
      <4> HIDE DEF tag, v
      <4> QED
        BY <4>1, <4>2
    <3> HIDE DEF tag
    <3> QED
      BY <1>4, <3>1 DEF ResultsInv, VersionKept, GR!TagsAreVersions, tag
  <2> QED
    BY <1>4, <2>2, <2>3, <2>5, NamesKept DEF ResultsInv, VersionKept, Stored
<1> QED
  BY <1>5, <1>6, <1>7, <1>8 DEF ResultsInv

LEMMA StepRetry ==
    ASSUME ResultsInv, NEW g \in GR!Goals, GR!Retry(g), UNCHANGED options
    PROVE  ResultsInv'
<1>1. PICK from \in Steps, to \in Steps, how \in Codes :
          /\ goalPc[g] = from /\ goalPc' = [goalPc EXCEPT ![g] = to]
          /\ code' = [code EXCEPT ![g] = how] \/ (UNCHANGED code /\ how = code[g])
          /\ from = "ended" /\ to = "start" /\ how = "none"
  BY GoalKinds DEF GR!Retry, GR!Step, GR!End, GR!Abandon, GR!Finally, ResultsInv, ResultTyped,
     Steps, Codes
<1>2. g \in GR!Goals
  BY GoalKinds
<1>3. /\ goalPc' \in [GR!Goals -> Steps] /\ code' \in [GR!Goals -> Codes]
      /\ goalPc'[g] = to /\ code'[g] = how
      /\ \A h \in GR!Goals \ {g} : goalPc'[h] = goalPc[h] /\ code'[h] = code[h]
  BY <1>1, <1>2, GoalMoves DEF ResultsInv
<1>4. /\ UNCHANGED <<place, version, directories, results, secrets, linked, tags, cloned, storedVersions, lost,
                   abandoned>>
      /\ processed' = processed \ {g} /\ wiped' = wiped \ {g}
  BY DEF GR!Retry, GR!StoreVersion, GR!Step, GR!End, GR!Abandon, GR!Finally
<1>5. ResultTyped'
  BY <1>3, <1>4 DEF ResultsInv, ResultTyped
<1>6. ResultKept'
  BY <1>1, <1>3, <1>4, GoalKinds DEF ResultsInv, ResultKept, Arrived
<1>7. SecretKept'
  <2>1. CASE g \notin Commands
    BY <1>3, <1>4, <2>1, GoalKinds, SecretsStay DEF ResultsInv
  <2>2. CASE g \in Commands
    <3>1. \A i : ~HeldAt(g, i)
      BY <1>1 DEF HeldAt
    <3>2. \A h \in Commands \ {g} : goalPc'[h] = goalPc[h] /\ place'[h] = place[h]
      BY <1>3, <1>4, GoalKinds
    <3> QED
      BY <1>4, <2>2, <3>1, <3>2, SecretsMove DEF ResultsInv
  <2> QED
    BY <2>1, <2>2
<1>8. VersionKept'
  BY <1>1, <1>3, <1>4, GoalKinds, TagsKept, NamesKept DEF ResultsInv, VersionKept, Stored
<1> QED
  BY <1>5, <1>6, <1>7, <1>8 DEF ResultsInv

LEMMA ResultsStep ==
    ASSUME ResultsInv, GR!Next
    PROVE  ResultsInv'
<1>0. UNCHANGED options
  BY DEF GR!Next
<1>1. CASE \E g \in Versioners : GR!ExecuteVersioner(g)
  BY <1>0, <1>1, StepVersioner
<1>2. CASE \E g \in Commands : GR!Execute(g)
  BY <1>0, <1>2, StepMount, StepPrepare, StepEnv, StepRun, StepProcess, StepUpdate,
     StepRemoveSecret, StepRemoveDir DEF GR!Execute
<1>3. CASE \E g \in Taggers : GR!ReadVersion(g) \/ GR!CreateTag(g) \/ GR!PushTag(g)
  BY <1>0, <1>3, StepRead, StepTag, StepPush
<1>4. CASE \E g \in GR!Goals : GR!Retry(g)
  BY <1>0, <1>4, StepRetry
<1> QED
  BY <1>1, <1>2, <1>3, <1>4 DEF GR!Next

LEMMA ResultsStart == GR!Init => ResultsInv
<1> SUFFICES ASSUME GR!Init PROVE ResultsInv
  OBVIOUS
<1>1. /\ goalPc = [g \in GR!Goals |-> "start"] /\ code = [g \in GR!Goals |-> "none"]
      /\ version = GR!NoVersion /\ results = [g \in Commands |-> GR!NoResult]
      /\ secrets = {} /\ tags = {}
      /\ cloned = [g \in Taggers |-> [tags |-> {}, version |-> GR!NoVersion]]
      /\ place = [g \in Commands |-> 1]
  BY DEF GR!Init, GR!NoClone
<1>2. ResultTyped
  BY <1>1 DEF ResultTyped, Steps, Codes
<1>3. ResultKept /\ SecretKept
  BY <1>1 DEF ResultKept, SecretKept, GR!Goals
<1>4. VersionKept
  BY <1>1 DEF VersionKept, Stored, GR!TagsAreVersions, GR!Goals
<1> QED
  BY <1>2, <1>3, <1>4 DEF ResultsInv

LEMMA ResultsHold ==
    ResultsInv => GR!ResultsArrive /\ GR!SecretsAreRemoved /\ GR!TagsAreVersions
<1> SUFFICES ASSUME ResultsInv
             PROVE  GR!ResultsArrive /\ GR!SecretsAreRemoved /\ GR!TagsAreVersions
  OBVIOUS
<1>1. GR!ResultsArrive
  BY DEF ResultsInv, ResultKept, Arrived, GR!ResultsArrive
<1>2. GR!SecretsAreRemoved
  BY DEF ResultsInv, SecretKept, HeldAt, GR!SecretsAreRemoved
<1>3. GR!TagsAreVersions
  BY DEF ResultsInv, VersionKept
<1> QED
  BY <1>1, <1>2, <1>3

---------------------------------------------------------------------------
(* The goal that deploys an application.                                   *)

GoalFields == {"state", "registration", "parses", "name", "data"}
RunFields == {"handler", "sdm", "goal", "phase", "result"}

(* Data whose fields come from the highest of the sources that are asked.  *)
ByPriority(given) ==
    \A f \in DOMAIN given : \A source \in registration.dataSources :
        f \in provided[source] => DG!Rank(given[f]) >= DG!Rank(source)

GoalKept(g) ==
    /\ GoalFields \subseteq DOMAIN g
    /\ ByPriority(g.data)
    /\ g.name # DG!KubernetesDeployFulfiller => g.data = DG!From("goalEvent")

RunKept(r) ==
    /\ RunFields \subseteq DOMAIN r /\ GoalKept(r.goal)
    /\ r.phase = "generate" => r.goal.name # DG!KubernetesDeployFulfiller
    /\ r.phase = "sync" => r.goal.data \in upserted
    /\ r.phase = "report" /\ r.result = "success" =>
         r.goal.data = DG!NoData \/ r.goal.data \in upserted \cap synced

DeployInv ==
    /\ registration \in Registrations
    /\ GoalKept(goal)
    /\ \A e \in events : GoalKept(e.goal)
    /\ \A r \in running : RunKept(r)
    /\ DG!SuccessIsDeployed
    /\ DG!DeploysByPriority

(* The ranks of the sources, from 1 to 9. *)
LEMMA Ranks ==
    /\ DG!Rank("default") = 1 /\ DG!Rank("config") = 2 /\ DG!Rank("version") = 3
    /\ DG!Rank("latest") = 4 /\ DG!Rank("commit") = 5 /\ DG!Rank("dockerfile") = 6
    /\ DG!Rank("spec") = 7 /\ DG!Rank("goalEvent") = 8 /\ DG!Rank("callback") = 9
<1>1. /\ DOMAIN DG!Priority = 1..9
      /\ DG!Priority[1] = "default" /\ DG!Priority[2] = "config" /\ DG!Priority[3] = "version"
      /\ DG!Priority[4] = "latest" /\ DG!Priority[5] = "commit" /\ DG!Priority[6] = "dockerfile"
      /\ DG!Priority[7] = "spec" /\ DG!Priority[8] = "goalEvent" /\ DG!Priority[9] = "callback"
  BY DEF DG!Priority
<1>2. \A i, j \in 1..9 : DG!Priority[i] = DG!Priority[j] => i = j
  BY <1>1
<1>3. \A i \in 1..9 : DG!Rank(DG!Priority[i]) = i
  <2> TAKE i \in 1..9
  <2>1. \E k \in 1..9 : DG!Priority[k] = DG!Priority[i]
    OBVIOUS
  <2> QED
    BY <1>1, <1>2, <2>1 DEF DG!Rank
<1> QED
  BY <1>1, <1>3

(* Fields merged over others win, and those they leave keep their rank. *)
Covers(given, sources) ==
    \A f \in DOMAIN given : \A source \in sources \cap registration.dataSources :
        f \in provided[source] => DG!Rank(given[f]) >= DG!Rank(source)

LEMMA MergeCovers ==
    ASSUME NEW old, NEW sources, NEW source, Covers(old, sources),
           \A s \in sources : DG!Rank(s) <= DG!Rank(source),
           DG!Rank(source) \in Nat
    PROVE  Covers(DG!Merge(old, DG!IfEnabled(source)), sources \cup {source})
<1> DEFINE new == DG!IfEnabled(source)
<1> DEFINE merged == DG!Merge(old, new)
<1>1. \A f \in DOMAIN new : new[f] = source /\ f \in provided[source]
  BY DEF DG!IfEnabled, DG!From, DG!NoData
<1>2. source \in registration.dataSources => DOMAIN new = provided[source]
  BY DEF DG!IfEnabled, DG!From
<1> HIDE DEF new
<1>3. /\ DOMAIN merged = DOMAIN old \cup DOMAIN new
      /\ \A f \in DOMAIN new : merged[f] = new[f]
      /\ \A f \in DOMAIN old \ DOMAIN new : merged[f] = old[f]
  BY DEF DG!Merge
<1> HIDE DEF merged
<1>4. Covers(merged, sources \cup {source})
  BY <1>1, <1>2, <1>3 DEF Covers
<1> QED
  BY <1>4 DEF merged, new

LEMMA MergeAll ==
    ASSUME NEW old, NEW new, NEW source, NEW sources, Covers(old, sources),
           \A f \in DOMAIN new : new[f] = source,
           \A s \in sources : DG!Rank(s) <= DG!Rank(source)
    PROVE  Covers(DG!Merge(old, new), sources)
<1> DEFINE merged == DG!Merge(old, new)
<1>1. /\ DOMAIN merged = DOMAIN old \cup DOMAIN new
      /\ \A f \in DOMAIN new : merged[f] = new[f]
      /\ \A f \in DOMAIN old \ DOMAIN new : merged[f] = old[f]
  BY DEF DG!Merge
<1> HIDE DEF merged
<1>2. Covers(merged, sources)
  BY <1>1 DEF Covers
<1> QED
  BY <1>2 DEF merged

LEMMA SourcesCovered ==
    ASSUME DeployInv, NEW given, Covers(given, DG!DataSources)
    PROVE  ByPriority(given)
BY DeploymentAssumption DEF DeployInv, Covers, ByPriority

(* What the initiator generates is by priority, of whatever image.         *)
LEMMA GeneratedByPriority ==
    ASSUME DeployInv, NEW g, g.data = DG!From("goalEvent"), NEW image \in DG!Images
    PROVE  ByPriority(DG!Generated(g, image))
<1> DEFINE first == [f \in {"ns"} |-> "default"]
<1> DEFINE second == DG!Merge(first, DG!IfEnabled("config"))
<1> DEFINE third == DG!Merge(second, DG!DefaultApplication(image))
<1> DEFINE fourth == DG!Merge(third, DG!IfEnabled("dockerfile"))
<1> DEFINE sources == DG!Merge(fourth, DG!IfEnabled("spec"))
<1> DEFINE merged == DG!Merge(sources, DG!IfEnabled("goalEvent"))
<1>1. Covers(first, {})
  BY DEF Covers
<1>2. Covers(second, {"config"})
  <2>1. Covers(second, {} \cup {"config"})
    <3> HIDE DEF first
    <3> QED
      BY <1>1, MergeCovers, Ranks
  <2> QED
    BY <2>1
<1>3. Covers(third, {"config"})
  <2>1. image \in {"commit", "version", "latest"}
    BY DEF DG!Images
  <2>2. /\ \A f \in DOMAIN DG!DefaultApplication(image) : DG!DefaultApplication(image)[f] = image
        /\ DG!Rank("config") <= DG!Rank(image)
    BY <2>1, Ranks DEF DG!DefaultApplication
  <2> HIDE DEF second
  <2> QED
    BY <1>2, <2>2, MergeAll
<1>4. Covers(fourth, {"config", "dockerfile"})
  <2>1. Covers(fourth, {"config"} \cup {"dockerfile"})
    <3> HIDE DEF third
    <3> QED
      BY <1>3, MergeCovers, Ranks
  <2>2. {"config"} \cup {"dockerfile"} = {"config", "dockerfile"}
    OBVIOUS
  <2> QED
    BY <2>1, <2>2
<1>5. Covers(sources, {"config", "dockerfile", "spec"})
  <2>1. Covers(sources, {"config", "dockerfile"} \cup {"spec"})
    <3> HIDE DEF fourth
    <3> QED
      BY <1>4, MergeCovers, Ranks
  <2>2. {"config", "dockerfile"} \cup {"spec"} = {"config", "dockerfile", "spec"}
    OBVIOUS
  <2> QED
    BY <2>1, <2>2
<1>6. Covers(merged, DG!DataSources)
  <2>1. Covers(merged, {"config", "dockerfile", "spec"} \cup {"goalEvent"})
    <3> HIDE DEF sources
    <3> QED
      BY <1>5, MergeCovers, Ranks
  <2>2. {"config", "dockerfile", "spec"} \cup {"goalEvent"} = DG!DataSources
    BY DEF DG!DataSources
  <2> QED
    BY <2>1, <2>2
<1> DEFINE whole == IF "goalEvent" \in registration.dataSources
                    THEN DG!Merge(sources, g.data) ELSE sources
<1>7. Covers(whole, DG!DataSources)
  <2>1. CASE "goalEvent" \in registration.dataSources
    <3>1. whole = merged
      BY <2>1 DEF DG!IfEnabled
    <3> QED
      BY <1>6, <3>1
  <2>2. CASE "goalEvent" \notin registration.dataSources
    <3>1. whole = sources
      BY <2>2
    <3> QED
      BY <1>5, <2>2, <3>1 DEF Covers, DG!DataSources
  <2> QED
    BY <2>1, <2>2
<1>8. DG!Generated(g, image) =
          CASE registration.applicationData = "none" -> whole
            [] registration.applicationData = "changes" -> DG!Merge(whole, DG!From("callback"))
            [] OTHER -> DG!NoData
  BY DEF DG!Generated
<1> HIDE DEF whole
<1>9. Covers(DG!Merge(whole, DG!From("callback")), DG!DataSources)
  <2>1. \A f \in DOMAIN DG!From("callback") : DG!From("callback")[f] = "callback"
    BY DEF DG!From
  <2>2. \A s \in DG!DataSources : DG!Rank(s) <= DG!Rank("callback")
    BY Ranks DEF DG!DataSources
  <2> QED
    BY <1>7, <2>1, <2>2, MergeAll
<1>10. Covers(DG!NoData, DG!DataSources)
  BY DEF Covers, DG!NoData
<1>11. Covers(DG!Generated(g, image), DG!DataSources)
  BY <1>7, <1>8, <1>9, <1>10
<1> QED
  BY <1>11, SourcesCovered

LEMMA EventByPriority ==
    ASSUME registration \in Registrations
    PROVE  ByPriority(DG!From("goalEvent"))
<1>1. \A s \in DG!DataSources : DG!Rank("goalEvent") >= DG!Rank(s)
  BY Ranks DEF DG!DataSources
<1>2. \A f \in DOMAIN DG!From("goalEvent") : DG!From("goalEvent")[f] = "goalEvent"
  BY DEF DG!From
<1> QED
  BY <1>1, <1>2, DeploymentAssumption DEF ByPriority

(* Deploying more keeps what is known of goals and executions.             *)
LEMMA StillKept ==
    ASSUME UNCHANGED <<registration, provided>>,
           upserted \subseteq upserted', synced \subseteq synced'
    PROVE  /\ \A g : GoalKept(g) => GoalKept(g)'
           /\ \A r : RunKept(r) => RunKept(r)'
<1>1. ASSUME NEW g, GoalKept(g)
      PROVE  GoalKept(g)'
  BY <1>1 DEF GoalKept, ByPriority, DG!From
<1>2. ASSUME NEW r, RunKept(r)
      PROVE  RunKept(r)'
  BY <1>1, <1>2 DEF RunKept
<1> QED
  BY <1>1, <1>2

(* Storing a goal tells handlers of this goal and no other. *)
LEMMA ToldOf == ASSUME NEW g, NEW e \in DG!Told(g) PROVE e.goal = g
BY DEF DG!Told

LEMMA StoreKeeps ==
    ASSUME DeployInv, UNCHANGED <<registration, provided, upserted, synced>>,
           NEW g, GoalKept(g), NEW pending \in SUBSET events, DG!Store(g, pending)
    PROVE  GoalKept(goal)' /\ (\A e \in events : GoalKept(e.goal))'
<1>1. goal' = g /\ events' = pending \cup DG!Told(g)
  BY DEF DG!Store
<1>2. \A e \in events' : GoalKept(e.goal)
  BY <1>1, ToldOf DEF DeployInv
<1> QED
  BY <1>1, <1>2, StillKept

LEMMA ContinueKeeps ==
    ASSUME DeployInv, UNCHANGED <<registration, provided, goal, events, reported>>,
           upserted \subseteq upserted', synced \subseteq synced',
           NEW r \in running, NEW phase, NEW result0, DG!Continue(r, phase, result0),
           phase # "generate",
           phase = "sync" => r.goal.data \in upserted',
           phase = "report" /\ result0 = "success" =>
               r.goal.data = DG!NoData \/ r.goal.data \in upserted' \cap synced',
           \A d \in upserted' : d \in upserted \/ d = r.goal.data
    PROVE  DeployInv'
<1> DEFINE new == [r EXCEPT !.phase = phase, !.result = result0]
<1>1. running' = (running \ {r}) \cup {new}
  BY DEF DG!Continue
<1>2. RunKept(r) /\ RunFields \subseteq DOMAIN r /\ GoalKept(r.goal)
  BY DEF DeployInv, RunKept
<1>3. /\ RunFields \subseteq DOMAIN new /\ new.phase = phase /\ new.result = result0
      /\ new.goal = r.goal
  BY <1>2 DEF RunFields
<1> HIDE DEF new
<1>4. GoalKept(r.goal)'
  BY <1>2, StillKept
<1>5. RunKept(new)'
  BY <1>3, <1>4 DEF RunKept
<1>6. \A q \in running' : RunKept(q)'
  BY <1>1, <1>5, StillKept DEF DeployInv
<1>7. GoalKept(goal)' /\ (\A e \in events : GoalKept(e.goal))'
  BY StillKept DEF DeployInv
<1>8. DG!SuccessIsDeployed'
  BY DEF DeployInv, DG!SuccessIsDeployed, DG!NoData
<1>9. DG!DeploysByPriority'
  BY <1>2 DEF DeployInv, DG!DeploysByPriority, GoalKept, ByPriority
<1>10. (\A q \in running : RunKept(q))'
  BY <1>6
<1> QED
  BY <1>7, <1>8, <1>9, <1>10 DEF DeployInv

(* The rest of the invariant while nothing is deployed or reported. *)
LEMMA RestKept ==
    ASSUME DeployInv, UNCHANGED <<registration, provided, upserted, synced, reported>>
    PROVE  registration' \in Registrations /\ DG!SuccessIsDeployed' /\ DG!DeploysByPriority'
BY DEF DeployInv, DG!SuccessIsDeployed, DG!DeploysByPriority, DG!NoData

LEMMA StartKeeps ==
    ASSUME DeployInv, UNCHANGED <<registration, provided, upserted, synced>>,
           NEW e, NEW g, GoalKept(g), NEW phase \in {"check", "generate"}, DG!Start(e, g, phase),
           phase = "generate" => g.name # DG!KubernetesDeployFulfiller
    PROVE  (\A r \in running : RunKept(r))'
<1> DEFINE new == [handler |-> e.handler, sdm |-> e.sdm, goal |-> g, phase |-> phase,
                   result |-> "none"]
<1>1. running' = running \cup {new}
  BY DEF DG!Start
<1>2. RunKept(new)
  BY DEF RunKept, RunFields
<1> HIDE DEF new
<1> QED
  BY <1>1, <1>2, StillKept DEF DeployInv

LEMMA GoalChanged ==
    ASSUME NEW g, GoalKept(g), NEW state
    PROVE  GoalKept([g EXCEPT !.state = state])
<1> DEFINE new == [g EXCEPT !.state = state]
<1>1. /\ GoalFields \subseteq DOMAIN new /\ new.data = g.data /\ new.name = g.name
  BY DEF GoalKept, GoalFields
<1> HIDE DEF new
<1>2. GoalKept(new)
  BY <1>1 DEF GoalKept
<1> QED
  BY <1>2 DEF new

LEMMA StepFulfill ==
    ASSUME DeployInv, NEW e \in events, DG!FulfillGoal(e)
    PROVE  DeployInv'
<1> DEFINE g == [e.goal EXCEPT !.state = "in_process"]
<1>1. /\ DG!Store(g, events \ {e})
      /\ DG!Start(e, g, IF e.goal.name = DG!KubernetesDeployFulfiller THEN "check" ELSE "generate")
      /\ UNCHANGED <<registration, provided, upserted, synced, reported>>
  BY DEF DG!FulfillGoal
<1>2. GoalKept(g)
  BY GoalChanged DEF DeployInv
<1>3. g.name = e.goal.name
  BY DEF DeployInv, GoalKept, GoalFields
<1> HIDE DEF g
<1>4. GoalKept(goal)' /\ (\A d \in events : GoalKept(d.goal))'
  BY <1>1, <1>2, StoreKeeps
<1>5. (\A r \in running : RunKept(r))'
  BY <1>1, <1>2, <1>3, StartKeeps
<1> QED
  BY <1>1, <1>4, <1>5, RestKept DEF DeployInv

LEMMA StepHandle ==
    ASSUME DeployInv, NEW e \in events, DG!HandleKubernetesDeploy(e)
    PROVE  DeployInv'
<1>1. /\ DG!Start(e, e.goal, "check") /\ events' = events \ {e}
      /\ UNCHANGED <<registration, provided, goal, upserted, synced, reported>>
  BY DEF DG!HandleKubernetesDeploy
<1>2. GoalKept(e.goal)
  BY DEF DeployInv
<1>3. (\A r \in running : RunKept(r))'
  BY <1>1, <1>2, StartKeeps
<1>4. GoalKept(goal)' /\ (\A d \in events : GoalKept(d.goal))'
  BY <1>1, StillKept DEF DeployInv
<1> QED
  BY <1>1, <1>3, <1>4, RestKept DEF DeployInv

LEMMA StepInitiate ==
    ASSUME DeployInv, NEW r \in running, DG!Initiate(r)
    PROVE  DeployInv'
<1>1. /\ r.phase = "generate"
      /\ UNCHANGED <<registration, provided, localMode, upserted, synced, reported>>
  BY DEF DG!Initiate
<1>2. CASE DG!Continue(r, "report", "failure") /\ UNCHANGED <<goal, events>>
  BY <1>1, <1>2, ContinueKeeps
<1>3. CASE \E image \in DG!Images :
            LET g == [r.goal EXCEPT !.data = DG!Generated(r.goal, image), !.parses = TRUE,
                                    !.name = DG!KubernetesDeployFulfiller,
                                    !.registration = registration.name]
            IN  IF localMode
                THEN /\ running' = (running \ {r}) \cup {[r EXCEPT !.goal = g, !.phase = "deploy"]}
                     /\ UNCHANGED <<goal, events>>
                ELSE /\ running' = running \ {r}
                     /\ DG!Store([g EXCEPT !.state = "requested"], events)
  <2>1. PICK image \in DG!Images :
            LET g == [r.goal EXCEPT !.data = DG!Generated(r.goal, image), !.parses = TRUE,
                                    !.name = DG!KubernetesDeployFulfiller,
                                    !.registration = registration.name]
            IN  IF localMode
                THEN /\ running' = (running \ {r}) \cup {[r EXCEPT !.goal = g, !.phase = "deploy"]}
                     /\ UNCHANGED <<goal, events>>
                ELSE /\ running' = running \ {r}
                     /\ DG!Store([g EXCEPT !.state = "requested"], events)
    BY <1>3
  <2> DEFINE data0 == DG!Generated(r.goal, image)
  <2> DEFINE g == [r.goal EXCEPT !.data = data0, !.parses = TRUE,
                                 !.name = DG!KubernetesDeployFulfiller,
                                 !.registration = registration.name]
  <2>2. RunKept(r) /\ RunFields \subseteq DOMAIN r /\ GoalKept(r.goal)
        /\ r.goal.data = DG!From("goalEvent")
    BY <1>1 DEF DeployInv, RunKept, GoalKept
  <2>3. ByPriority(data0)
    BY <2>2, GeneratedByPriority
  <2> HIDE DEF data0
  <2>4. /\ GoalFields \subseteq DOMAIN g /\ g.data = data0
        /\ g.name = DG!KubernetesDeployFulfiller
    BY <2>2 DEF GoalKept, GoalFields
  <2>5. \/ running' = (running \ {r}) \cup {[r EXCEPT !.goal = g, !.phase = "deploy"]}
           /\ UNCHANGED <<goal, events>>
        \/ running' = running \ {r} /\ DG!Store([g EXCEPT !.state = "requested"], events)
    BY <2>1 DEF data0
  <2> HIDE DEF g
  <2>6. GoalKept(g)
    BY <2>3, <2>4 DEF GoalKept
  <2>7. CASE /\ running' = (running \ {r}) \cup {[r EXCEPT !.goal = g, !.phase = "deploy"]}
             /\ UNCHANGED <<goal, events>>
    <3> DEFINE new == [r EXCEPT !.goal = g, !.phase = "deploy"]
    <3>1. RunFields \subseteq DOMAIN new /\ new.goal = g /\ new.phase = "deploy"
      BY <2>2 DEF RunFields
    <3> HIDE DEF new
    <3>2. RunKept(new)
      BY <2>6, <3>1 DEF RunKept
    <3>3. running' = (running \ {r}) \cup {new}
      BY <2>7 DEF new
    <3>4. (\A q \in running : RunKept(q))'
      BY <1>1, <3>2, <3>3, StillKept DEF DeployInv
    <3>5. GoalKept(goal)' /\ (\A d \in events : GoalKept(d.goal))'
      BY <1>1, <2>7, StillKept DEF DeployInv
    <3> QED
      BY <1>1, <3>4, <3>5, RestKept DEF DeployInv
  <2>8. CASE running' = running \ {r} /\ DG!Store([g EXCEPT !.state = "requested"], events)
    <3>1. GoalKept([g EXCEPT !.state = "requested"])
      BY <2>6, GoalChanged
    <3>2. GoalKept(goal)' /\ (\A d \in events : GoalKept(d.goal))'
      BY <1>1, <2>8, <3>1, StoreKeeps
    <3>3. (\A q \in running : RunKept(q))'
      BY <1>1, <2>8, StillKept DEF DeployInv
    <3> QED
      BY <1>1, <3>2, <3>3, RestKept DEF DeployInv
  <2> QED
    BY <2>5, <2>7, <2>8
<1> QED
  BY <1>2, <1>3 DEF DG!Initiate

LEMMA StepCheck ==
    ASSUME DeployInv, NEW r \in running, DG!CheckData(r)
    PROVE  DeployInv'
<1>1. UNCHANGED <<registration, provided, goal, events, upserted, synced, reported>>
  BY DEF DG!CheckData
<1>2. DG!Checked(r.goal) = "success" => r.goal.data = DG!NoData
  BY DEF DG!Checked
<1>3. \/ DG!Continue(r, "deploy", "none")
      \/ DG!Continue(r, "report", DG!Checked(r.goal))
  BY DEF DG!CheckData
<1> QED
  BY <1>1, <1>2, <1>3, ContinueKeeps

LEMMA StepUpsert ==
    ASSUME DeployInv, NEW r \in running, DG!UpsertApplication(r)
    PROVE  DeployInv'
<1>1. UNCHANGED <<registration, provided, goal, events, synced, reported>>
  BY DEF DG!UpsertApplication
<1>2. \/ DG!Continue(r, "sync", "none") /\ upserted' = upserted \cup {r.goal.data}
      \/ DG!Continue(r, "report", "failure") /\ UNCHANGED upserted
  BY DEF DG!UpsertApplication
<1> QED
  BY <1>1, <1>2, ContinueKeeps

LEMMA StepSync ==
    ASSUME DeployInv, NEW r \in running, DG!SyncApplication(r)
    PROVE  DeployInv'
<1>1. r.phase = "sync" /\ UNCHANGED <<registration, provided, goal, events, upserted, reported>>
  BY DEF DG!SyncApplication
<1>2. r.goal.data \in upserted
  BY <1>1 DEF DeployInv, RunKept
<1>3. \/ synced' = synced \cup {r.goal.data} /\ DG!Continue(r, "report", "success")
      \/ DG!Continue(r, "report", "failure") /\ UNCHANGED synced
  BY DEF DG!SyncApplication, DG!SyncResult
<1> QED
  BY <1>1, <1>2, <1>3, ContinueKeeps

LEMMA StepReport ==
    ASSUME DeployInv, NEW r \in running, DG!Report(r)
    PROVE  DeployInv'
<1> DEFINE state == IF r.result = "success" THEN "success" ELSE "failure"
<1>1. /\ r.phase = "report" /\ running' = running \ {r}
      /\ reported' = reported \cup {[result |-> r.result, data |-> r.goal.data]}
      /\ UNCHANGED <<registration, provided, upserted, synced>>
      /\ \/ DG!Store([r.goal EXCEPT !.state = state], events)
         \/ UNCHANGED <<goal, events>>
  BY DEF DG!Report
<1> HIDE DEF state
<1>2. RunKept(r) /\ GoalKept(r.goal)
  BY DEF DeployInv, RunKept
<1>3. GoalKept([r.goal EXCEPT !.state = state])
  BY <1>2, GoalChanged
<1>4. GoalKept(goal)' /\ (\A d \in events : GoalKept(d.goal))'
  BY <1>1, <1>3, StoreKeeps, StillKept DEF DeployInv
<1>5. (\A q \in running : RunKept(q))'
  BY <1>1, StillKept DEF DeployInv
<1>6. DG!SuccessIsDeployed'
  BY <1>1, <1>2 DEF DeployInv, RunKept, DG!SuccessIsDeployed, DG!NoData
<1>7. registration' \in Registrations /\ DG!DeploysByPriority'
  BY <1>1 DEF DeployInv, DG!DeploysByPriority
<1> QED
  BY <1>4, <1>5, <1>6, <1>7 DEF DeployInv

LEMMA StepRestart ==
    ASSUME DeployInv, DG!Restart
    PROVE  DeployInv'
<1>1. /\ DG!Store([goal EXCEPT !.state = "requested"], events)
      /\ UNCHANGED <<registration, provided, running, upserted, synced, reported>>
  BY DEF DG!Restart
<1>2. GoalKept([goal EXCEPT !.state = "requested"])
  BY GoalChanged DEF DeployInv
<1>3. GoalKept(goal)' /\ (\A d \in events : GoalKept(d.goal))'
  BY <1>1, <1>2, StoreKeeps
<1>4. (\A q \in running : RunKept(q))'
  BY <1>1, StillKept DEF DeployInv
<1> QED
  BY <1>1, <1>3, <1>4, RestKept DEF DeployInv

LEMMA DeployStep ==
    ASSUME DeployInv, DG!Next
    PROVE  DeployInv'
BY StepFulfill, StepHandle, StepInitiate, StepCheck, StepUpsert, StepSync, StepReport,
   StepRestart DEF DG!Next, DG!Step

LEMMA DeployStart == DG!Init => DeployInv
<1> SUFFICES ASSUME DG!Init PROVE DeployInv
  OBVIOUS
<1>1. registration \in Registrations /\ events = DG!Told(goal) /\ running = {}
      /\ upserted = {} /\ reported = {}
  BY DEF DG!Init
<1>2. GoalFields \subseteq DOMAIN goal /\ goal.data = DG!From("goalEvent")
  BY DEF DG!Init, GoalFields
<1>3. GoalKept(goal)
  BY <1>1, <1>2, EventByPriority DEF GoalKept
<1>4. \A e \in events : GoalKept(e.goal)
  BY <1>1, <1>3, ToldOf
<1> QED
  BY <1>1, <1>3, <1>4 DEF DeployInv, DG!SuccessIsDeployed, DG!DeploysByPriority

---------------------------------------------------------------------------
(* Fetching resources.                                                     *)

(* A resource of a namespace is there with its namespace.                  *)
WithNamespaces(rs) ==
    \A r \in rs : r.ns = KF!Cluster \/ \E n \in rs : KF!IsNamespace(n) /\ n.name = r.ns

(* What the fetch has to find, besides namespaces, and what it has found   *)
(* or is about to list.                                                    *)
Sought(r) ==
    KF!Promised(r) /\ KF!IsServed(r) /\ ~KF!IsNamespace(r) /\ r.kind \notin unknown
Listed(r) == r \in specs \/ [kind |-> r.kind, ns |-> r.ns] \in queue

SelectorsTyped ==
    /\ DOMAIN selectors \subseteq Nat
    /\ \A i \in KF!Includes : selectors[i].kinds \in Seq(KF!Kind) \ {<<>>}

(* What was seen was there, and what was there all the time is still there.*)
ObjectsKept ==
    /\ throughout \subseteq objects /\ objects \subseteq seen /\ seen \subseteq Objects
    /\ specs \subseteq seen
    /\ \A name \in todo : \E n \in seen : KF!IsNamespace(n) /\ n.name = name
    /\ WithNamespaces(objects) /\ WithNamespaces(throughout)

(* Without selectors, only namespaces are looked at.                       *)
NothingAsked ==
    DOMAIN selectors = {} => queue = {} /\ \A r \in specs : KF!IsNamespace(r)

ClusterCovered ==
    pc \in {"cluster", "namespaces"} =>
        \A r \in throughout : Sought(r) /\ r.kind \in ClusterKinds => Listed(r)

NamespacesCovered ==
    pc = "namespaces" =>
        \A r \in throughout :
            /\ KF!IsNamespace(r) => r.name \in todo \/ r \in specs
            /\ Sought(r) /\ r.kind \notin ClusterKinds => r.ns \in todo \/ Listed(r)

FetchInv ==
    /\ SelectorsTyped /\ ObjectsKept /\ NothingAsked
    /\ ClusterCovered /\ NamespacesCovered
    /\ KF!FetchesWhatIsSelected

LEMMA FetchConstants ==
    /\ Selections \subseteq Seq(KF!Selector) /\ DefaultKinds \in Seq(KF!Kind) /\ DefaultKinds # <<>>
    /\ "Namespace" \in ClusterKinds
    /\ \A r \in Objects : r.ns = KF!Cluster <=> r.kind \in ClusterKinds
    /\ KF!Cluster \notin KF!Namespaces
    /\ FirstObjects \subseteq Objects /\ WithNamespaces(FirstObjects)
BY DeploymentAssumption DEF KF!AreResources, WithNamespaces

LEMMA NamespaceNames ==
    ASSUME NEW r \in Objects, KF!IsNamespace(r)
    PROVE  r.ns = KF!Cluster /\ r.name # KF!Cluster
BY FetchConstants DEF KF!IsNamespace, KF!Namespaces

(* There is one namespace of a name.                                       *)
LEMMA OneNamespace ==
    ASSUME NEW r \in Objects, NEW n \in Objects, KF!IsNamespace(r), KF!IsNamespace(n), r.name = n.name
    PROVE  r = n
<1>1. r \in [kind : STRING, ns : STRING, name : STRING] /\ n \in [kind : STRING, ns : STRING, name : STRING]
  BY DeploymentAssumption DEF KF!AreResources
<1>2. r.kind = n.kind /\ r.ns = n.ns /\ r.name = n.name
  BY NamespaceNames DEF KF!IsNamespace
<1> QED
  BY <1>1, <1>2

(* The first of the selectors that match a resource is the one promised.   *)
LEMMA SelectedIsPromised ==
    ASSUME NEW r, DOMAIN selectors # {}
    PROVE  KF!FirstIncludes(r) => KF!Promised(r)
<1> SUFFICES ASSUME KF!FirstIncludes(r)
             PROVE  KF!Promised(r)
  OBVIOUS
<1> DEFINE matches == {i \in DOMAIN selectors : KF!SelectorMatch(r, selectors[i])}
<1>1. PICK i \in matches : i \in KF!Includes /\ \A j \in matches : i <= j
  BY DEF KF!FirstIncludes
<1>2. i \in DOMAIN selectors /\ selectors[i].action = "include" /\ KF!SelectorMatch(r, selectors[i])
  BY <1>1 DEF KF!Includes
<1> QED
  BY <1>1, <1>2 DEF KF!Promised

(* The least of a set of numbers: no set of initial segments descends      *)
(* forever.                                                                *)
LEMMA Least ==
    ASSUME NEW T \in SUBSET Nat, T # {}
    PROVE  \E m \in T : \A n \in T : m <= n
<1> DEFINE UpTo(x) == {y \in T : y <= x}
           Segments == {UpTo(x) : x \in T}
<1>1. Segments \subseteq FiniteSubsetsOf(Nat) /\ Segments # {}
  <2>1. ASSUME NEW x \in T
        PROVE  IsFiniteSet(UpTo(x)) /\ UpTo(x) \subseteq Nat
    <3>1. UpTo(x) \in SUBSET Nat /\ x \in Nat /\ \A y \in UpTo(x) : y <= x
      OBVIOUS
    <3> HIDE DEF UpTo
    <3> QED
      BY <3>1, FS_BoundedSetOfNaturals
  <2> QED
    BY <2>1 DEF FiniteSubsetsOf
<1>2. IsWellFoundedOn(StrictSubsetOrdering(Nat), FiniteSubsetsOf(Nat))
  BY FS_StrictSubsetOrderingWellFounded
<1>3. PICK D \in Segments : \A U \in Segments : <<U, D>> \notin StrictSubsetOrdering(Nat)
  <2> HIDE DEF Segments
  <2> QED
    BY <1>1, <1>2, WFMin
<1>4. PICK m \in T : D = UpTo(m)
  OBVIOUS
<1>5. ASSUME NEW n \in T, ~(m <= n)
      PROVE  FALSE
  <2>1. n < m /\ m \in Nat /\ n \in Nat
    BY <1>5
  <2>2. UpTo(n) \subseteq UpTo(m) /\ m \in UpTo(m) /\ m \notin UpTo(n)
    <3>1. ASSUME NEW y \in T, y <= n
          PROVE  y <= m
      <4>1. y \in Nat
        OBVIOUS
      <4> QED
        BY <2>1, <3>1, <4>1
    <3>2. UpTo(n) \subseteq UpTo(m)
      BY <3>1
    <3>3. m \in UpTo(m)
      BY <2>1
    <3>4. m \notin UpTo(n)
      BY <2>1
    <3> QED
      BY <3>2, <3>3, <3>4
  <2>3. UpTo(n) \in SUBSET Nat /\ UpTo(m) \in SUBSET Nat /\ UpTo(n) \in Segments
    OBVIOUS
  <2> HIDE DEF UpTo, Segments
  <2>4. <<UpTo(n), UpTo(m)>> \in StrictSubsetOrdering(Nat)
    BY <2>2, <2>3 DEF StrictSubsetOrdering
  <2> QED
    BY <1>3, <1>4, <2>3, <2>4
<1> QED
  BY <1>5

(* A kind that is asked for has a first place.                             *)
LEMMA FirstPlace ==
    ASSUME SelectorsTyped, NEW p \in KF!Places
    PROVE  \E q \in KF!Places :
              /\ KF!KindAt(q).kind = KF!KindAt(p).kind
              /\ \A o \in KF!Places : KF!IsBefore(o, q) => KF!KindAt(o).kind # KF!KindAt(q).kind
<1> DEFINE same == {q \in KF!Places : KF!KindAt(q).kind = KF!KindAt(p).kind}
           includes == {q[1] : q \in same}
<1>1. \A q \in KF!Places : q[1] \in Nat /\ q[2] \in Nat /\ q = <<q[1], q[2]>>
  <2> SUFFICES ASSUME NEW q \in KF!Places
               PROVE  q[1] \in Nat /\ q[2] \in Nat /\ q = <<q[1], q[2]>>
    OBVIOUS
  <2>1. PICK i \in KF!Includes : q \in {i} \X DOMAIN selectors[i].kinds
    BY DEF KF!Places
  <2>2. i \in Nat /\ selectors[i].kinds \in Seq(KF!Kind)
    BY DEF SelectorsTyped, KF!Includes
  <2>3. DOMAIN selectors[i].kinds \subseteq Nat
    BY <2>2
  <2> QED
    BY <2>1, <2>2, <2>3
<1>2. PICK i \in includes : \A j \in includes : i <= j
  <2>1. includes \subseteq Nat /\ includes # {}
    BY <1>1
  <2> HIDE DEF includes
  <2> QED
    BY <2>1, Least
<1> DEFINE places == {q[2] : q \in {x \in same : x[1] = i}}
<1>3. PICK k \in places : \A l \in places : k <= l
  <2>1. places \subseteq Nat /\ places # {}
    BY <1>1, <1>2
  <2> HIDE DEF places
  <2> QED
    BY <2>1, Least
<1>4. PICK q \in same : q[1] = i /\ q[2] = k
  BY <1>3
<1>5. ASSUME NEW o \in same, KF!IsBefore(o, q)
      PROVE  FALSE
  <2>1. o[1] \in Nat /\ o[2] \in Nat /\ q[1] \in Nat /\ q[2] \in Nat
    BY <1>1
  <2>2. q[1] <= o[1]
    BY <1>2, <1>4
  <2>3. o[1] = q[1] /\ o[2] < q[2]
    BY <1>5, <2>1, <2>2 DEF KF!IsBefore
  <2>4. q[2] <= o[2]
    BY <1>3, <1>4, <2>3
  <2> QED
    BY <2>1, <2>3, <2>4
<1> QED
  BY <1>4, <1>5

(* An include that matches a resource asks for its kind. *)
LEMMA PlaceOf ==
    ASSUME SelectorsTyped, NEW r, Sought(r)
    PROVE  \E p \in KF!Places : KF!KindAt(p).kind = r.kind
<1>1. PICK i \in DOMAIN selectors :
        selectors[i].action = "include" /\ KF!SelectorMatch(r, selectors[i])
  BY DEF Sought, KF!Promised
<1>2. i \in KF!Includes /\ selectors[i].kinds # <<>>
  BY <1>1 DEF KF!Includes, SelectorsTyped
<1>3. PICK j \in DOMAIN selectors[i].kinds : selectors[i].kinds[j].kind = r.kind
  BY <1>1, <1>2 DEF KF!SelectorMatch
<1>4. <<i, j>> \in KF!Places /\ KF!KindAt(<<i, j>>) = selectors[i].kinds[j]
  BY <1>2, <1>3 DEF KF!Places, KF!KindAt
<1> QED
  BY <1>3, <1>4

LEMMA VersionAt ==
    ASSUME NEW r, NEW p \in KF!Places, KF!KindAt(p).kind = r.kind,
           \/ r.kind \in ClusterKinds \/ selectors[p[1]].namespaces = {}
           \/ r.ns \in selectors[p[1]].namespaces
    PROVE  KF!KindAt(p) \in KF!VersionsOf(r)
<1>1. PICK i \in KF!Includes : p \in {i} \X DOMAIN selectors[i].kinds
  BY DEF KF!Places
<1>2. p[1] = i /\ p[2] \in DOMAIN selectors[i].kinds /\ KF!KindAt(p) = selectors[i].kinds[p[2]]
  BY <1>1 DEF KF!KindAt
<1> QED
  BY <1>1, <1>2 DEF KF!VersionsOf, KF!Includes

(* Where there is a version of a kind, its place is.                       *)
LEMMA PlaceOfVersion ==
    ASSUME NEW r, NEW k \in KF!VersionsOf(r), r.kind \notin ClusterKinds
    PROVE  \E p \in KF!Places : p[1] \in KF!IncludesFor(r.ns) /\ KF!KindAt(p) = k /\ k.kind = r.kind
<1>1. PICK i \in DOMAIN selectors :
        /\ selectors[i].action = "include"
        /\ selectors[i].namespaces = {} \/ r.ns \in selectors[i].namespaces
        /\ k \in {l \in {selectors[i].kinds[j] : j \in DOMAIN selectors[i].kinds} : l.kind = r.kind}
  BY DEF KF!VersionsOf
<1>2. PICK j \in DOMAIN selectors[i].kinds : k = selectors[i].kinds[j] /\ k.kind = r.kind
  BY <1>1
<1>3. i \in KF!IncludesFor(r.ns) /\ i \in KF!Includes
  BY <1>1 DEF KF!IncludesFor, KF!Includes
<1>4. <<i, j>> \in KF!Places /\ KF!KindAt(<<i, j>>) = k /\ <<i, j>>[1] = i
  BY <1>2, <1>3 DEF KF!Places, KF!KindAt
<1> QED
  BY <1>2, <1>3, <1>4

(* The kind of a resource without namespace is listed unless that failed.  *)
LEMMA ClusterKindFound ==
    ASSUME SelectorsTyped, NEW failed, NEW r, Sought(r), r.kind \in ClusterKinds, r.kind \notin failed
    PROVE  r.kind \in KF!ClusterResourceKinds(failed)
<1>1. PICK p \in KF!Places : KF!KindAt(p).kind = r.kind
  BY PlaceOf
<1>2. PICK q \in KF!Places :
        /\ KF!KindAt(q).kind = r.kind
        /\ \A o \in KF!Places : KF!IsBefore(o, q) => KF!KindAt(o).kind # KF!KindAt(q).kind
  BY <1>1, FirstPlace
<1>3. KF!KindAt(q) \in Served
  BY <1>2, VersionAt DEF Sought, KF!IsServed
<1>4. KF!KindAt(q) \in KF!IncludedKinds
  BY <1>2 DEF KF!IncludedKinds
<1> QED
  BY <1>2, <1>3, <1>4 DEF KF!ClusterResourceKinds

LEMMA NamespaceKindFound ==
    ASSUME NEW failed, NEW r, Sought(r), r.kind \notin ClusterKinds, r.kind \notin failed
    PROVE  r.kind \in KF!NamespaceResourceKinds(r.ns, failed)
<1>1. PICK k \in KF!VersionsOf(r) : k \in Served
  BY DEF Sought, KF!IsServed
<1>2. PICK p \in KF!Places :
        p[1] \in KF!IncludesFor(r.ns) /\ KF!KindAt(p) = k /\ k.kind = r.kind
  BY <1>1, PlaceOfVersion
<1> QED
  BY <1>1, <1>2 DEF KF!NamespaceResourceKinds

LEMMA PromisedIsSelected ==
    ASSUME SelectorsTyped, NEW r, KF!Promised(r)
    PROVE  KF!FirstIncludes(r)
<1> SUFFICES ASSUME DOMAIN selectors # {}
             PROVE  KF!FirstIncludes(r)
  BY DEF KF!FirstIncludes
<1>1. PICK i \in DOMAIN selectors :
        /\ selectors[i].action = "include" /\ KF!SelectorMatch(r, selectors[i])
        /\ \A j \in DOMAIN selectors : j < i => ~KF!SelectorMatch(r, selectors[j])
  BY DEF KF!Promised
<1>2. \A j \in {k \in DOMAIN selectors : KF!SelectorMatch(r, selectors[k])} : i <= j
  BY <1>1 DEF SelectorsTyped
<1> QED
  BY <1>1, <1>2 DEF KF!FirstIncludes, KF!Includes

(* An include without kinds gets the default ones. *)
LEMMA DefaultsAre ==
    ASSUME NEW s \in KF!Selector, KF!WithDefaults(s).action = "include"
    PROVE  KF!WithDefaults(s).kinds \in Seq(KF!Kind) /\ KF!WithDefaults(s).kinds # <<>>
<1> DEFINE action == IF s.action = "" THEN "include" ELSE s.action
           kinds == IF s.kinds = <<>> /\ action = "include" THEN DefaultKinds ELSE s.kinds
<1>1. KF!WithDefaults(s).action = action /\ KF!WithDefaults(s).kinds = kinds
  BY DEF KF!WithDefaults, KF!Selector
<1>2. s.kinds \in Seq(KF!Kind)
  BY DEF KF!Selector
<1> QED
  BY <1>1, <1>2, FetchConstants

LEMMA SoughtKept ==
    ASSUME NEW r, UNCHANGED selectors, unknown \subseteq unknown', Sought(r)'
    PROVE  Sought(r)
<1>1. KF!Promised(r)' = KF!Promised(r) /\ KF!IsServed(r)' = KF!IsServed(r)
  BY DEF KF!Promised, KF!SelectorMatch, KF!IsServed, KF!VersionsOf
<1> QED
  BY <1>1 DEF Sought

LEMMA SelectorsKept == ASSUME SelectorsTyped, UNCHANGED selectors PROVE SelectorsTyped'
BY DEF SelectorsTyped, KF!Includes

(* Resources come and go, a namespace with what is in it. *)
LEMMA StepChanged ==
    ASSUME FetchInv, KF!ChangeCluster
    PROVE  FetchInv'
<1>1. PICK r \in Objects :
        \/ /\ r.ns = KF!Cluster \/ \E n \in objects : KF!IsNamespace(n) /\ n.name = r.ns
           /\ objects' = objects \cup {r}
        \/ objects' = {q \in objects : q # r /\ (~KF!IsNamespace(r) \/ q.ns # r.name)}
  BY DEF KF!ChangeCluster
<1>2. /\ seen' = seen \cup objects' /\ throughout' = throughout \cap objects'
      /\ pc \notin {"done", "failed"}
      /\ UNCHANGED <<selectors, pc, todo, queue, specs, result, unknown>>
  BY DEF KF!ChangeCluster
<1>3. ObjectsKept
  BY DEF FetchInv
<1>4. ASSUME NEW q \in throughout', q.ns # KF!Cluster
      PROVE  \E n \in throughout' : KF!IsNamespace(n) /\ n.name = q.ns
  <2>1. PICK n \in throughout : KF!IsNamespace(n) /\ n.name = q.ns
    BY <1>2, <1>3, <1>4 DEF ObjectsKept, WithNamespaces
  <2>2. n \in Objects /\ n.ns = KF!Cluster
    BY <1>3, <2>1, NamespaceNames DEF ObjectsKept
  <2>3. KF!IsNamespace(r) => n.ns # r.name
    BY <2>2, NamespaceNames
  <2>4. n \in objects'
    BY <1>1, <1>2, <1>3, <1>4, <2>1, <2>3 DEF ObjectsKept
  <2> QED
    BY <1>2, <2>1, <2>4
<1>5. ASSUME NEW q \in objects', q.ns # KF!Cluster
      PROVE  \E n \in objects' : KF!IsNamespace(n) /\ n.name = q.ns
  <2>1. PICK n \in objects : KF!IsNamespace(n) /\ n.name = q.ns
    BY <1>1, <1>3, <1>5 DEF ObjectsKept, WithNamespaces
  <2>2. n \in Objects /\ n.ns = KF!Cluster
    BY <1>3, <2>1, NamespaceNames DEF ObjectsKept
  <2>3. KF!IsNamespace(r) => n.ns # r.name
    BY <2>2, NamespaceNames
  <2>4. n \in objects'
    BY <1>1, <1>5, <2>1, <2>3
  <2> QED
    BY <2>1, <2>4
<1>6. /\ throughout' \subseteq objects' /\ objects' \subseteq seen' /\ seen' \subseteq Objects
      /\ seen \subseteq seen'
  BY <1>1, <1>2, <1>3 DEF ObjectsKept
<1>7. ObjectsKept'
  BY <1>2, <1>3, <1>4, <1>5, <1>6 DEF ObjectsKept, WithNamespaces
<1>8. SelectorsTyped' /\ NothingAsked'
  BY <1>2, SelectorsKept DEF FetchInv, NothingAsked
<1>9. \A q \in throughout' : q \in throughout /\ (Sought(q)' => Sought(q)) /\ (Listed(q) => Listed(q)')
  BY <1>2, SoughtKept DEF Listed
<1>10. ClusterCovered' /\ NamespacesCovered'
  BY <1>2, <1>9 DEF FetchInv, ClusterCovered, NamespacesCovered
<1>11. KF!FetchesWhatIsSelected'
  BY <1>2 DEF KF!FetchesWhatIsSelected
<1> QED
  BY <1>7, <1>8, <1>10, <1>11 DEF FetchInv

LEMMA StepCluster ==
    ASSUME FetchInv, KF!LookupClusterKinds
    PROVE  FetchInv'
<1>1. PICK failed \in SUBSET {k.kind : k \in Served} :
        /\ unknown' = unknown \cup failed
        /\ queue' = [kind : KF!ClusterResourceKinds(failed), ns : {KF!Cluster}]
  BY DEF KF!LookupClusterKinds, KF!Lookup
<1>2. pc' = "cluster" /\ UNCHANGED <<selectors, todo, specs, result, objects, seen, throughout>>
  BY DEF KF!LookupClusterKinds
<1>3. SelectorsTyped' /\ ObjectsKept'
  BY <1>2, SelectorsKept DEF FetchInv, ObjectsKept, WithNamespaces
<1>4. NothingAsked'
  <2>1. DOMAIN selectors = {} => KF!ClusterResourceKinds(failed) = {}
    BY DEF KF!ClusterResourceKinds, KF!IncludedKinds, KF!Places, KF!Includes
  <2> QED
    BY <1>1, <1>2, <2>1 DEF FetchInv, NothingAsked
<1>5. ASSUME NEW r \in throughout', Sought(r)', r.kind \in ClusterKinds
      PROVE  Listed(r)'
  <2>1. Sought(r) /\ r.kind \notin failed
    BY <1>1, <1>2, <1>5, SoughtKept DEF Sought
  <2>2. r.kind \in KF!ClusterResourceKinds(failed)
    BY <1>5, <2>1, ClusterKindFound DEF FetchInv
  <2>3. r.ns = KF!Cluster
    BY <1>2, <1>5, FetchConstants DEF FetchInv, ObjectsKept
  <2> QED
    BY <1>1, <2>2, <2>3 DEF Listed
<1>6. ClusterCovered' /\ NamespacesCovered' /\ KF!FetchesWhatIsSelected'
  BY <1>2, <1>5 DEF ClusterCovered, NamespacesCovered, KF!FetchesWhatIsSelected
<1> QED
  BY <1>3, <1>4, <1>6 DEF FetchInv

(* An error ends the fetch.                                                *)
LEMMA StepFailed ==
    ASSUME FetchInv, pc' = "failed", UNCHANGED <<selectors, todo, queue, specs, objects, seen, throughout>>
    PROVE  FetchInv'
<1>1. SelectorsTyped' /\ ObjectsKept' /\ NothingAsked'
  BY SelectorsKept DEF FetchInv, ObjectsKept, WithNamespaces, NothingAsked
<1> QED
  BY <1>1 DEF FetchInv, ClusterCovered, NamespacesCovered, KF!FetchesWhatIsSelected

LEMMA StepListed ==
    ASSUME FetchInv, KF!ListKind
    PROVE  FetchInv'
<1>1. UNCHANGED <<selectors, result, objects, seen, throughout, unknown>>
      /\ pc \in {"cluster", "namespaces"}
  BY DEF KF!ListKind
<1>2. CASE KF!FailToList
  BY <1>1, <1>2, StepFailed DEF KF!FailToList
<1>3. ASSUME NEW list \in queue,
             specs' = specs \cup {r \in objects : r.kind = list.kind /\ r.ns = list.ns},
             queue' = queue \ {list}, UNCHANGED <<pc, todo>>
      PROVE  FetchInv'
  <2>1. SelectorsTyped' /\ ObjectsKept' /\ NothingAsked'
    BY <1>1, <1>3, SelectorsKept DEF FetchInv, ObjectsKept, WithNamespaces, NothingAsked
  <2>2. ASSUME NEW r \in throughout
        PROVE  (Sought(r)' => Sought(r)) /\ (Listed(r) => Listed(r)')
    <3>1. r \in objects
      BY DEF FetchInv, ObjectsKept
    <3> QED
      BY <1>1, <1>3, <3>1, SoughtKept DEF Listed
  <2>3. ClusterCovered' /\ NamespacesCovered'
    BY <1>1, <1>3, <2>2 DEF FetchInv, ClusterCovered, NamespacesCovered
  <2>4. KF!FetchesWhatIsSelected'
    BY <1>1, <1>3 DEF KF!FetchesWhatIsSelected
  <2> QED
    BY <2>1, <2>3, <2>4 DEF FetchInv
<1> QED
  BY <1>2, <1>3 DEF KF!ListKind

LEMMA StepNamespaces ==
    ASSUME FetchInv, KF!ListNamespaces
    PROVE  FetchInv'
<1>1. UNCHANGED <<selectors, result, objects, seen, throughout, unknown>> /\ pc = "cluster"
  BY DEF KF!ListNamespaces
<1>2. CASE KF!FailToList
  BY <1>1, <1>2, StepFailed DEF KF!FailToList
<1>3. ASSUME todo' = {r.name : r \in {n \in objects : KF!IsNamespace(n)}},
             pc' = "namespaces", UNCHANGED <<queue, specs>>
      PROVE  FetchInv'
  <2>1. \A name \in todo' : \E n \in seen' : KF!IsNamespace(n) /\ n.name = name
    BY <1>1, <1>3 DEF FetchInv, ObjectsKept
  <2>2. SelectorsTyped' /\ ObjectsKept' /\ NothingAsked'
    BY <1>1, <1>3, <2>1, SelectorsKept DEF FetchInv, ObjectsKept, WithNamespaces, NothingAsked
  <2>3. ASSUME NEW r \in throughout
        PROVE  (Sought(r)' => Sought(r)) /\ (Listed(r) => Listed(r)')
    BY <1>1, <1>3, SoughtKept DEF Listed
  <2>4. ASSUME NEW r \in throughout
        PROVE  /\ KF!IsNamespace(r) => r.name \in todo'
               /\ r.kind \notin ClusterKinds => r.ns \in todo'
    <3>1. r \in objects /\ r \in Objects
      BY DEF FetchInv, ObjectsKept
    <3>2. r.kind \notin ClusterKinds => \E n \in objects : KF!IsNamespace(n) /\ n.name = r.ns
      BY <3>1, FetchConstants DEF FetchInv, ObjectsKept, WithNamespaces
    <3> QED
      BY <1>3, <3>1, <3>2
  <2>5. ClusterCovered' /\ NamespacesCovered'
    BY <1>1, <1>3, <2>3, <2>4 DEF FetchInv, ClusterCovered, NamespacesCovered
  <2>6. KF!FetchesWhatIsSelected'
    BY <1>3 DEF KF!FetchesWhatIsSelected
  <2> QED
    BY <2>2, <2>5, <2>6 DEF FetchInv
<1> QED
  BY <1>2, <1>3 DEF KF!ListNamespaces

LEMMA StepVisited ==
    ASSUME FetchInv, KF!VisitNamespace
    PROVE  FetchInv'
<1>1. UNCHANGED <<selectors, pc, result, objects, seen, throughout>> /\ pc = "namespaces" /\ queue = {}
  BY DEF KF!VisitNamespace
<1>2. PICK ns \in todo, failed \in SUBSET {k.kind : k \in Served} :
        /\ todo' = todo \ {ns}
        /\ specs' = specs \cup {r \in Objects : KF!IsNamespace(r) /\ r.name = ns}
        /\ unknown' = unknown \cup failed
        /\ queue' = [kind : KF!NamespaceResourceKinds(ns, failed), ns : {ns}]
  BY DEF KF!VisitNamespace, KF!Lookup
<1>3. ObjectsKept
  BY DEF FetchInv
<1>4. \A r \in specs' : r \in specs \/ (r \in Objects /\ KF!IsNamespace(r) /\ r.name = ns)
  BY <1>2
<1>5. ASSUME NEW r \in Objects, KF!IsNamespace(r), r.name = ns
      PROVE  r \in seen
  <2>1. PICK n \in seen : KF!IsNamespace(n) /\ n.name = ns
    BY <1>2, <1>3 DEF ObjectsKept
  <2>2. n \in Objects
    BY <1>3, <2>1 DEF ObjectsKept
  <2> QED
    BY <1>5, <2>1, <2>2, OneNamespace
<1>6. SelectorsTyped' /\ ObjectsKept'
  BY <1>1, <1>2, <1>3, <1>4, <1>5, SelectorsKept DEF FetchInv, ObjectsKept, WithNamespaces
<1>7. NothingAsked'
  <2>1. DOMAIN selectors = {} => KF!NamespaceResourceKinds(ns, failed) = {}
    BY DEF KF!NamespaceResourceKinds, KF!Places, KF!Includes
  <2> QED
    BY <1>1, <1>2, <1>4, <2>1 DEF FetchInv, NothingAsked
<1>8. ASSUME NEW r \in throughout, Sought(r)'
      PROVE  Sought(r) /\ (Listed(r) => Listed(r)')
  BY <1>1, <1>2, <1>8, SoughtKept DEF Listed
<1>9. ASSUME NEW r \in throughout, Sought(r)', r.ns = ns, r.kind \notin ClusterKinds
      PROVE  Listed(r)'
  <2>1. Sought(r) /\ r.kind \notin failed
    BY <1>2, <1>8, <1>9 DEF Sought
  <2>2. r.kind \in KF!NamespaceResourceKinds(ns, failed)
    BY <1>9, <2>1, NamespaceKindFound
  <2> QED
    BY <1>2, <1>9, <2>2 DEF Listed
<1>10. ClusterCovered'
  BY <1>1, <1>8 DEF FetchInv, ClusterCovered
<1>11. NamespacesCovered'
  <2>1. ASSUME NEW r \in throughout
        PROVE  KF!IsNamespace(r) => r.name \in todo' \/ r \in specs'
    BY <1>1, <1>2, <1>3 DEF FetchInv, NamespacesCovered, ObjectsKept
  <2>2. ASSUME NEW r \in throughout, Sought(r)', r.kind \notin ClusterKinds
        PROVE  r.ns \in todo' \/ Listed(r)'
    BY <1>1, <1>2, <1>8, <1>9, <2>2 DEF FetchInv, NamespacesCovered
  <2> QED
    BY <1>1, <2>1, <2>2 DEF NamespacesCovered
<1>12. KF!FetchesWhatIsSelected'
  BY <1>1 DEF KF!FetchesWhatIsSelected
<1> QED
  BY <1>6, <1>7, <1>10, <1>11, <1>12 DEF FetchInv

LEMMA StepSelected ==
    ASSUME FetchInv, KF!SelectResources
    PROVE  FetchInv'
<1>1. /\ pc = "namespaces" /\ queue = {} /\ todo = {} /\ pc' = "done"
      /\ result' = {r \in specs : KF!FirstIncludes(r)}
      /\ UNCHANGED <<selectors, todo, queue, specs, objects, seen, throughout, unknown>>
  BY DEF KF!SelectResources
<1>2. SelectorsTyped' /\ ObjectsKept' /\ NothingAsked'
  BY <1>1, SelectorsKept DEF FetchInv, ObjectsKept, WithNamespaces, NothingAsked
<1>3. ASSUME NEW r
      PROVE  /\ KF!Promised(r)' = KF!Promised(r) /\ KF!IsServed(r)' = KF!IsServed(r)
             /\ Listed(r) => r \in specs
  BY <1>1 DEF KF!Promised, KF!SelectorMatch, KF!IsServed, KF!VersionsOf, Listed
<1>4. ASSUME NEW r \in result'
      PROVE  r \in seen' /\ KF!Promised(r)'
  <2>1. r \in specs /\ KF!FirstIncludes(r)
    BY <1>1, <1>4
  <2>2. KF!Promised(r)
    BY <2>1, SelectedIsPromised DEF FetchInv, NothingAsked, KF!Promised
  <2> QED
    BY <1>1, <1>3, <2>1, <2>2 DEF FetchInv, ObjectsKept
<1>5. ASSUME NEW r \in throughout', KF!Promised(r)', KF!IsServed(r)',
             KF!IsNamespace(r) \/ r.kind \notin unknown'
      PROVE  r \in result'
  <2>1. r \in throughout /\ KF!Promised(r) /\ KF!IsServed(r)
    BY <1>1, <1>3, <1>5
  <2>2. r \in specs
    <3>1. CASE KF!IsNamespace(r)
      BY <1>1, <2>1, <3>1 DEF FetchInv, NamespacesCovered
    <3>2. CASE ~KF!IsNamespace(r)
      <4>1. Sought(r)
        BY <1>1, <1>5, <2>1, <3>2 DEF Sought
      <4> QED
        BY <1>1, <1>3, <2>1, <4>1 DEF FetchInv, NamespacesCovered, ClusterCovered
    <3> QED
      BY <3>1, <3>2
  <2>3. KF!FirstIncludes(r)
    BY <2>1, PromisedIsSelected DEF FetchInv
  <2> QED
    BY <1>1, <2>2, <2>3
<1>6. KF!FetchesWhatIsSelected'
  BY <1>4, <1>5 DEF KF!FetchesWhatIsSelected
<1> QED
  BY <1>1, <1>2, <1>6 DEF FetchInv, ClusterCovered, NamespacesCovered

LEMMA FetchStep == FetchInv /\ KF!Next => FetchInv'
BY StepChanged, StepCluster, StepListed, StepNamespaces, StepVisited, StepSelected
   DEF KF!Next, KF!Fetch

LEMMA FetchStart == KF!Init => FetchInv
<1> SUFFICES ASSUME KF!Init
             PROVE  FetchInv
  OBVIOUS
<1>1. PICK given \in Selections : selectors = KF!Populated(given)
  BY DEF KF!Init
<1>2. /\ pc = "start" /\ todo = {} /\ queue = {} /\ specs = {}
      /\ objects = FirstObjects /\ seen = objects /\ throughout = objects
  BY DEF KF!Init
<1>3. SelectorsTyped
  <2>1. given \in Seq(KF!Selector)
    BY FetchConstants
  <2>2. DOMAIN selectors \subseteq DOMAIN given /\ DOMAIN given \subseteq Nat
    BY <1>1, <2>1 DEF KF!Populated
  <2>3. ASSUME NEW i \in KF!Includes
        PROVE  selectors[i].kinds \in Seq(KF!Kind) /\ selectors[i].kinds # <<>>
    <3>1. i \in DOMAIN given /\ selectors[i] = KF!WithDefaults(given[i]) /\ selectors[i].action = "include"
      BY <1>1 DEF KF!Includes, KF!Populated
    <3>2. given[i].kinds \in Seq(KF!Kind)
      <4>1. given[i] \in KF!Selector
        BY <2>1, <3>1
      <4> QED
        BY <4>1 DEF KF!Selector
    <3> QED
      BY <2>1, <3>1, <3>2, DefaultsAre
  <2> QED
    BY <2>2, <2>3 DEF SelectorsTyped
<1>4. ObjectsKept
  BY <1>2, FetchConstants DEF ObjectsKept
<1> QED
  BY <1>2, <1>3, <1>4 DEF FetchInv, NothingAsked, ClusterCovered, NamespacesCovered,
     KF!FetchesWhatIsSelected

---------------------------------------------------------------------------
(* The parts in the whole.                                                 *)

FetchPartInv == part = "fetch" => FetchInv

ResultPartInv == part = "results" => ResultsInv

DeployPartInv == part = "deploy goal" => DeployInv

LEMMA PartStays == [NextPart]_allVars => part' = part
BY DEF NextPart, allVars, StepApplications, StepFetch, StepDeployGoal, StepResult

LEMMA ResultPartStep ==
    ASSUME ResultPartInv, [NextPart]_allVars
    PROVE  ResultPartInv'
<1>1. CASE part = "results" /\ StepResult
  BY <1>1, ResultsStep DEF ResultPartInv, StepResult
<1>2. CASE part = "results" /\ UNCHANGED allVars
  <2>1. UNCHANGED ResultVars
    BY <1>2 DEF allVars
  <2>2. ResultsInv
    BY <1>2 DEF ResultPartInv
  <2>3. ResultTyped' /\ ResultKept'
    BY <2>1, <2>2 DEF ResultsInv, ResultVars, ResultTyped, ResultKept, Arrived
  <2>4. SecretKept'
    BY <2>1, <2>2, SecretsStay DEF ResultsInv, ResultVars
  <2>5. VersionKept'
    BY <2>1, <2>2, NamesKept DEF ResultsInv, ResultVars, VersionKept, Stored, GR!TagsAreVersions
  <2> QED
    BY <2>3, <2>4, <2>5 DEF ResultPartInv, ResultsInv
<1>3. CASE part # "results"
  BY <1>3, PartStays DEF ResultPartInv
<1> QED
  BY <1>1, <1>2, <1>3 DEF NextPart, StepApplications, StepFetch, StepDeployGoal

LEMMA DeployPartStep ==
    ASSUME DeployPartInv, [NextPart]_allVars
    PROVE  DeployPartInv'
<1>1. CASE part = "deploy goal" /\ StepDeployGoal
  BY <1>1, DeployStep DEF DeployPartInv, StepDeployGoal
<1>2. CASE part = "deploy goal" /\ UNCHANGED allVars
  <2>1. UNCHANGED DeployGoalVars
    BY <1>2 DEF allVars
  <2>2. DeployInv /\ UNCHANGED <<registration, provided, upserted, synced, reported>>
    BY <1>2, <2>1 DEF DeployPartInv, DeployGoalVars
  <2>3. registration' \in Registrations /\ DG!SuccessIsDeployed' /\ DG!DeploysByPriority'
    BY <2>2, RestKept
  <2>4. GoalKept(goal)'
    BY <2>1, <2>2, StillKept DEF DeployInv, DeployGoalVars
  <2>5. (\A e \in events : GoalKept(e.goal))' /\ (\A r \in running : RunKept(r))'
    BY <2>1, <2>2, StillKept DEF DeployInv, DeployGoalVars
  <2> QED
    BY <2>3, <2>4, <2>5 DEF DeployPartInv, DeployInv
<1>3. CASE part # "deploy goal"
  BY <1>3, PartStays DEF DeployPartInv
<1> QED
  BY <1>1, <1>2, <1>3 DEF NextPart, StepApplications, StepFetch, StepResult

LEMMA FetchPartStep ==
    ASSUME FetchPartInv, [NextPart]_allVars
    PROVE  FetchPartInv'
<1>1. CASE part = "fetch" /\ StepFetch
  BY <1>1, FetchStep DEF FetchPartInv, StepFetch
<1>2. CASE part = "fetch" /\ UNCHANGED allVars
  <2>1. FetchInv /\ UNCHANGED <<selectors, pc, todo, queue, specs, result, objects, seen,
                               throughout, unknown>>
    BY <1>2 DEF FetchPartInv, allVars, FetchVars
  <2>2. SelectorsTyped' /\ ObjectsKept' /\ NothingAsked'
    BY <2>1, SelectorsKept DEF FetchInv, ObjectsKept, WithNamespaces, NothingAsked
  <2>3. \A r : (Sought(r)' => Sought(r)) /\ (Listed(r) => Listed(r)')
    BY <2>1, SoughtKept DEF Listed
  <2>4. ClusterCovered' /\ NamespacesCovered'
    BY <2>1, <2>3 DEF FetchInv, ClusterCovered, NamespacesCovered
  <2>5. \A r : KF!Promised(r)' = KF!Promised(r) /\ KF!IsServed(r)' = KF!IsServed(r)
    BY <2>1 DEF KF!Promised, KF!SelectorMatch, KF!IsServed, KF!VersionsOf
  <2>6. KF!FetchesWhatIsSelected'
    BY <2>1, <2>5 DEF FetchInv, KF!FetchesWhatIsSelected
  <2> QED
    BY <2>2, <2>4, <2>6 DEF FetchPartInv, FetchInv
<1>3. CASE part # "fetch"
  BY <1>3, PartStays DEF FetchPartInv
<1> QED
  BY <1>1, <1>2, <1>3 DEF NextPart, StepApplications, StepDeployGoal, StepResult

LEMMA DeployPartHolds == Parts => []DeployPartInv
<1>1. InitPart => DeployPartInv
  BY DeployStart DEF InitPart, DeployPartInv
<1>2. DeployPartInv /\ [NextPart]_allVars => DeployPartInv'
  BY DeployPartStep
<1> QED
  BY <1>1, <1>2, PTL DEF Parts

(* What a command that succeeded has written arrives unless another goal   *)
(* of the set removed it; secrets are left only of commands that failed    *)
(* while they mounted them or prepared to run, or whose clean-up threw;    *)
(* and a tag is a name given, a version that was stored or its release, or *)
(* build metadata without a version, for any number of goals, secrets and  *)
(* retries (processResult, execute, executeTag).                           *)
THEOREM ResultsArriveHolds == Parts => []ResultsArrive
<1>1. InitPart => ResultPartInv
  BY ResultsStart DEF InitPart, ResultPartInv
<1>2. ResultPartInv /\ [NextPart]_allVars => ResultPartInv'
  BY ResultPartStep
<1>3. ResultPartInv => ResultsArrive
  BY ResultsHold DEF ResultPartInv, ResultsArrive
<1> QED
  BY <1>1, <1>2, <1>3, PTL DEF Parts

(* A deployment is reported as a success only when its application was     *)
(* upserted and synchronised, whatever happens to the process that         *)
(* deploys it (deployApplication).                                         *)
THEOREM SuccessIsDeployedHolds == Parts => []SuccessIsDeployed
<1>1. DeployPartInv => SuccessIsDeployed
  BY DEF DeployPartInv, DeployInv, SuccessIsDeployed
<1> QED
  BY <1>1, DeployPartHolds, PTL

(* No field of what is deployed comes from a source of lower priority than *)
(* another asked source that has it (generateKubernetesGoalEventData).     *)
THEOREM DeploysByPriorityHolds == Parts => []DeploysByPriority
<1>1. DeployPartInv => DeploysByPriority
  BY DEF DeployPartInv, DeployInv, DeploysByPriority
<1> QED
  BY <1>1, DeployPartHolds, PTL

(* A fetch that succeeds has every resource that was there all the time,   *)
(* that the first matching selector includes and whose kind the server     *)
(* knows, and nothing else, however the cluster changes meanwhile          *)
(* (kubernetesFetch).                                                      *)
THEOREM FetchesWhatIsSelectedHolds == Parts => []FetchesWhatIsSelected
<1>1. InitPart => FetchPartInv
  BY FetchStart DEF InitPart, FetchPartInv
<1>2. FetchPartInv /\ [NextPart]_allVars => FetchPartInv'
  BY FetchPartStep
<1>3. FetchPartInv => FetchesWhatIsSelected
  BY DEF FetchPartInv, FetchInv, FetchesWhatIsSelected
<1> QED
  BY <1>1, <1>2, <1>3, PTL DEF Parts
===============================================================================
