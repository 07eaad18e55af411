----------------------------- MODULE GoalResults -----------------------------
(***************************************************************************)
(* What the goals of one goal set leave behind: the version of the commit  *)
(* (projectVersioner.ts), result files and secrets of commands run with    *)
(* execute (container/execute.ts, util.ts), images linked (ImageLink.ts)   *)
(* and tags (executeTag.ts).  The goals run concurrently in one process,   *)
(* below one temporary directory of the goal set.                          *)
(***************************************************************************)
EXTENDS Integers, Sequences, FiniteSets

CONSTANTS
    Versioners, Commands, Taggers,  \* goals
    TagOptions,      \* options of taggers, [name, build: a string or "", release: BOOLEAN]
    SecretPaths,     \* command -> the paths its secrets are mounted at, in order
    Retryable,       \* goals that may be requested again
    MaxVersion,      \* bound: versions
    MaxRetries,      \* bound: how often goals that failed are requested again
    MaxFaults        \* bound: calls that fail

VARIABLES
    options,         \* tagger -> its options
    pc, code,        \* step and result of every goal
    version,         \* of the commit, as stored in the graph
    place,           \* command -> the next of its secrets to write or remove
    directories,     \* commands whose directories are there
    result,          \* command -> version in its result.json
    secrets,         \* paths that hold a secret
    linked,          \* commands whose image was linked
    tags,            \* tags of the remote repository
    cloned,          \* tagger -> [tags, version] it knows of
    stored,          \* history: versions ever stored
    processed,       \* history: commands whose result was processed
    wiped,           \* history: commands whose result another one removed
    lost,            \* history: commands whose webhook was not answered
    abandoned,       \* history: commands that failed while they mounted secrets or prepared
                     \* to run, or could not clean up
    retries, faults

resultVars == <<options, pc, code, version, place, directories, result, secrets, linked, tags, cloned, stored,
                processed, wiped, lost, abandoned, retries, faults>>

Goals == Versioners \cup Commands \cup Taggers
NoVersion == 0
NoResult == 0 - 1
Versions == 1..MaxVersion

(* Two prereleases of a release share its name.                            *)
Release(v) == (v + 1) \div 2

(* A tag is named by its option, the version or its release, with the      *)
(* option's build metadata.                                                *)
Tag(g, v) ==
    LET given == options[g] IN
    [name |-> given.name, build |-> given.build,
     release |-> given.name = "" /\ given.release,
     version |-> IF given.name # "" THEN NoVersion
                 ELSE IF given.release THEN Release(v) ELSE v]

NoClone == [tags |-> {}, version |-> NoVersion]

Init ==
    /\ options \in [Taggers -> TagOptions]
    /\ pc = [g \in Goals |-> "start"] /\ code = [g \in Goals |-> "none"]
    /\ version = NoVersion /\ place = [g \in Commands |-> 1] /\ directories = {} /\ result = [g \in Commands |-> NoResult]
    /\ secrets = {} /\ linked = {} /\ tags = {}
    /\ cloned = [g \in Taggers |-> NoClone]
    /\ stored = {} /\ processed = {} /\ wiped = {} /\ lost = {} /\ abandoned = {}
    /\ retries = 0 /\ faults = 0

Step(g, from, to) == pc[g] = from /\ pc' = [pc EXCEPT ![g] = to] /\ UNCHANGED code
End(g, from, how) == /\ pc[g] = from /\ pc' = [pc EXCEPT ![g] = "ended"]
                     /\ code' = [code EXCEPT ![g] = how]
Fault == faults < MaxFaults /\ faults' = faults + 1

StoreVersion(v) == version' = v /\ stored' = stored \cup {v}

ExecuteVersioner(g) ==
    /\ \/ (\E v \in Versions : StoreVersion(v)) /\ End(g, "start", "success") /\ UNCHANGED faults
       \/ Fault /\ End(g, "start", "failure") /\ UNCHANGED <<version, stored>>
    /\ UNCHANGED <<place, directories, result, secrets, linked, tags, cloned, processed, wiped, lost,
                   abandoned, retries>>

---------------------------------------------------------------------------
(* No finally here, or one that throws itself: secrets stay where they are. *)
Abandon(g, from) ==
    /\ Fault /\ End(g, from, "failure") /\ abandoned' = abandoned \cup {g}
    /\ place' = [place EXCEPT ![g] = 1]

(* The file of the next secret is written.                                 *)
MountSecret(g) ==
    /\ pc[g] = "start" /\ place[g] \in DOMAIN SecretPaths[g]
    /\ \/ /\ secrets' = secrets \cup {SecretPaths[g][place[g]]}
          /\ place' = [place EXCEPT ![g] = @ + 1] /\ UNCHANGED <<pc, code, abandoned, faults>>
       \/ Abandon(g, "start") /\ UNCHANGED secrets
    /\ UNCHANGED <<version, directories, result, linked, tags, cloned, stored, processed, wiped,
                   lost, retries>>

PrepareInputAndOutput(g) ==
    /\ place[g] \notin DOMAIN SecretPaths[g]
    /\ \/ /\ Step(g, "start", "env") /\ directories' = directories \cup {g}
          /\ UNCHANGED <<place, abandoned, faults>>
       \/ Abandon(g, "start") /\ UNCHANGED directories
    /\ result' = [result EXCEPT ![g] = NoResult]
    /\ UNCHANGED <<version, secrets, linked, tags, cloned, stored, processed, wiped, lost, retries>>

(* Reads the version of the commit.                                        *)
ContainerEnvVars(g) ==
    /\ \/ Step(g, "env", "run") /\ UNCHANGED <<place, abandoned, faults>>
       \/ Abandon(g, "env")
    /\ UNCHANGED <<version, directories, result, secrets, linked, tags, cloned, stored, processed,
                   wiped, lost, retries>>

Finally(g, how) ==
    /\ code' = [code EXCEPT ![g] = how] /\ pc' = [pc EXCEPT ![g] = "cleanup"]
    /\ place' = [place EXCEPT ![g] = 1]

(* The program fails, or succeeds and may write a result, with or without  *)
(* a version, if its directory is there.                                   *)
RunProgram(g) ==
    /\ pc[g] = "run"
    /\ \/ Finally(g, "failure") /\ UNCHANGED result
       \/ Step(g, "run", "read") /\ UNCHANGED <<place, result>>
       \/ /\ g \in directories /\ Step(g, "run", "read") /\ UNCHANGED place
          /\ \E v \in Versions \cup {NoVersion} : result' = [result EXCEPT ![g] = v]
    /\ UNCHANGED <<version, directories, secrets, linked, tags, cloned, stored, processed, wiped,
                   lost, abandoned, retries, faults>>

VersionedOnly(g) == g \in directories /\ result[g] \in Versions   \* variant: results need a version

HasResult(g) == g \in directories /\ result[g] # NoResult

(* The image is linked.  postWebhook answers false when the webhook could  *)
(* not be reached, which nobody looks at.                                  *)
ProcessResult(g) ==
    /\ pc[g] = "read"
    /\ \/ ~HasResult(g) /\ Finally(g, "success") /\ UNCHANGED <<linked, lost, processed, faults>>
       \/ /\ HasResult(g)
          /\ IF result[g] = NoVersion
             THEN Finally(g, "success") /\ processed' = processed \cup {g}
             ELSE Step(g, "read", "version") /\ UNCHANGED <<place, processed>>
          /\ \/ linked' = linked \cup {g} /\ UNCHANGED <<lost, faults>>
             \/ Fault /\ lost' = lost \cup {g} /\ UNCHANGED linked
       \/ HasResult(g) /\ Fault /\ Finally(g, "failure") /\ UNCHANGED <<linked, lost, processed>>
    /\ UNCHANGED <<version, directories, result, secrets, tags, cloned, stored, wiped, abandoned,
                   retries>>

(* After that an error of the mutation fails the goal.                     *)
UpdateSdmVersion(g) ==
    /\ pc[g] = "version"
    /\ \/ StoreVersion(result[g]) /\ Finally(g, "success") /\ processed' = processed \cup {g}
          /\ UNCHANGED faults
       \/ Fault /\ Finally(g, "failure") /\ UNCHANGED <<version, stored, processed>>
    /\ UNCHANGED <<directories, result, secrets, linked, tags, cloned, wiped, lost, abandoned, retries>>

(* Unlinking a secret that is not there any more throws, as a failing      *)
(* unlink does: what would follow is left out.                             *)
RemoveSecret(g) ==
    LET secret == SecretPaths[g][place[g]] IN
    /\ pc[g] = "cleanup" /\ place[g] \in DOMAIN SecretPaths[g]
    /\ \/ /\ secret \in secrets /\ secrets' = secrets \ {secret}
          /\ place' = [place EXCEPT ![g] = @ + 1] /\ UNCHANGED <<pc, code, abandoned, faults>>
       \/ /\ secret \notin secrets /\ End(g, "cleanup", "failure")
          /\ place' = [place EXCEPT ![g] = 1] /\ abandoned' = abandoned \cup {g}
          /\ UNCHANGED <<secrets, faults>>
       \/ Abandon(g, "cleanup") /\ UNCHANGED secrets
    /\ UNCHANGED <<version, directories, result, linked, tags, cloned, stored, processed, wiped,
                   lost, retries>>

(* The temporary directory is that of all goals of the set.                *)
RemoveTmpDir(g) ==
    /\ place[g] \notin DOMAIN SecretPaths[g] /\ place' = [place EXCEPT ![g] = 1]
    /\ \/ End(g, "cleanup", code[g]) /\ directories' = {} /\ UNCHANGED faults
       \/ Fault /\ End(g, "cleanup", "failure") /\ directories' \in SUBSET directories
    /\ wiped' = wiped \cup {c \in directories \ (directories' \cup {g}) : result[c] # NoResult}
    /\ UNCHANGED <<version, result, secrets, linked, tags, cloned, stored, processed, lost, abandoned,
                   retries>>

---------------------------------------------------------------------------
(* The project is cloned, with the tags of the remote, and the version of  *)
(* the commit read.                                                        *)
ReadVersion(g) ==
    /\ \/ /\ Step(g, "start", "tag") /\ UNCHANGED faults
          /\ cloned' = [cloned EXCEPT ![g] = [tags |-> tags, version |-> version]]
       \/ Fault /\ End(g, "start", "failure") /\ UNCHANGED cloned
    /\ UNCHANGED <<place, version, directories, result, secrets, linked, tags, stored, processed, wiped,
                   lost, abandoned, retries>>

(* A release of no version throws and createGitTag refuses a tag without   *)
(* name; but build metadata are appended to no version as well.  git       *)
(* refuses a tag there is.                                                 *)
IsNamed(g) ==
    \/ cloned[g].version # NoVersion \/ options[g].name # ""
    \/ options[g].build # "" /\ ~options[g].release

CanTag(g) == IsNamed(g) /\ Tag(g, cloned[g].version) \notin cloned[g].tags

CreateTag(g) ==
    /\ \/ CanTag(g) /\ Step(g, "tag", "push") /\ UNCHANGED cloned
       \/ ~CanTag(g) /\ End(g, "tag", "failure") /\ cloned' = [cloned EXCEPT ![g] = NoClone]
    /\ UNCHANGED <<place, version, directories, result, secrets, linked, tags, stored, processed,
                   wiped, lost, abandoned, retries, faults>>

(* Annotated tags differ: the remote accepts the first one only.           *)
PushTag(g) ==
    LET tag == Tag(g, cloned[g].version) IN
    /\ \/ /\ tag \notin tags /\ tags' = tags \cup {tag}
          /\ \/ End(g, "push", "success") /\ UNCHANGED faults
             \/ Fault /\ End(g, "push", "failure")
       \/ tag \in tags /\ End(g, "push", "failure") /\ UNCHANGED <<tags, faults>>
       \/ Fault /\ End(g, "push", "failure") /\ UNCHANGED tags
    /\ cloned' = [cloned EXCEPT ![g] = NoClone]
    /\ UNCHANGED <<place, version, directories, result, secrets, linked, stored, processed, wiped, lost,
                   abandoned, retries>>

Retry(g) ==
    /\ pc[g] = "ended" /\ code[g] = "failure"
    /\ g \in Retryable /\ retries < MaxRetries /\ retries' = retries + 1
    /\ pc' = [pc EXCEPT ![g] = "start"] /\ code' = [code EXCEPT ![g] = "none"]
    /\ processed' = processed \ {g} /\ wiped' = wiped \ {g}
    /\ UNCHANGED <<version, place, directories, result, secrets, linked, tags, cloned, stored, lost,
                   abandoned, faults>>

Execute(g) == \/ MountSecret(g) \/ PrepareInputAndOutput(g) \/ ContainerEnvVars(g)
              \/ RunProgram(g) \/ ProcessResult(g) \/ UpdateSdmVersion(g)
              \/ RemoveSecret(g) \/ RemoveTmpDir(g)

Next ==
    /\ \/ \E g \in Versioners : ExecuteVersioner(g)
       \/ \E g \in Commands : Execute(g)
       \/ \E g \in Taggers : ReadVersion(g) \/ CreateTag(g) \/ PushTag(g)
       \/ \E g \in Goals : Retry(g)
    /\ UNCHANGED options

Spec == Init /\ [][Next]_resultVars

---------------------------------------------------------------------------
(* What a command that succeeded has written, its version and its image,   *)
(* arrives, unless another goal of the set removed the result or a webhook *)
(* was lost.                                                               *)
ResultsArrive ==
    \A g \in Commands : code[g] = "success" /\ pc[g] = "ended" /\ result[g] # NoResult =>
        \/ g \in processed /\ g \in linked \cup lost /\ (result[g] = NoVersion \/ result[g] \in stored)
        \/ g \in wiped

(* When all commands have ended a secret is left in the file system only   *)
(* of a command that failed before it ran or that could not clean up.      *)
SecretsAreRemoved ==
    (\A g \in Commands : pc[g] = "ended") =>
        \A s \in secrets : \E g \in abandoned : \E i \in DOMAIN SecretPaths[g] : SecretPaths[g][i] = s

(* A tag that is not named by an option names a version of the commit or   *)
(* its release, in whatever order versions are determined and read; but    *)
(* for the tag of a build, which may be of no version.                     *)
TagsAreVersions ==
    \A t \in tags : t.name = "" =>
        \/ t.version \in IF t.release THEN {Release(v) : v \in stored} ELSE stored
        \/ t.version = NoVersion /\ t.build # ""
=============================================================================
