------------------------------- MODULE Machine -------------------------------
(***************************************************************************)
(* The components of the machine: its scheduler, racing over the jobs of   *)
(* the cluster or making the specs of these jobs, its preferences, the     *)
(* parameters of its commands and its YAML files.  They share no state: a  *)
(* behaviour is one of a single component, named by part, while the        *)
(* variables of the others rest.                                           *)
(***************************************************************************)
EXTENDS KubernetesJobs, Integers

CONSTANTS
    ContainerGoals, Schedulings,                  \* JobSpec
    Keys, Values, Ttls, MaxTime, Users, MaxFaults, \* FilePreferences
    Repos, Commands, MaxChanges,                  \* CommandParameters
    Documents, Additional, Makers, Referenced     \* MachineYaml

VARIABLES
    part,  \* the component looked at
    goal, pc, data, job, writtenSecrets, scheduled,
    file, lock, call, made, clock,
    command, account, incoming, linked, commandPc, index, values, asked, steady,
    changes,
    rules, at, yamlPc, goalData, approval, documents, planned,
    faults

JS == INSTANCE JobSpec WITH Goals <- ContainerGoals, written <- writtenSecrets

FP == INSTANCE FilePreferences WITH Calls <- Users

CP == INSTANCE CommandParameters WITH pc <- commandPc

MY == INSTANCE MachineYaml WITH pc <- yamlPc

(* What the constants are: bounds; a lock file tells its holders from      *)
(* nobody, values from the lack of one, and ids repositories from each     *)
(* other; no container has the new name made up for the copy container.    *)
ASSUME MachineAssumption ==
    /\ Keys # {} /\ Values \subseteq Nat \ {0} /\ Ttls \subseteq Nat
    /\ MaxTime \in Nat /\ MaxFaults \in Nat
    /\ FP!Free \notin Users
    /\ IsFiniteSet(Repos) /\ \A r, q \in Repos : r.id = q.id => r = q
    /\ Commands \subseteq CP!Command
    /\ MaxChanges \in Nat
    /\ JS!AreContainerGoals
    /\ MY!AreRules

JobSpecVars == <<goal, pc, data, job, writtenSecrets, scheduled>>
FileVars == <<file, lock, call, made, clock>>
CommandVars == <<command, account, incoming, linked, commandPc, index, values,
    asked, steady, changes>>
YamlVars == <<rules, at, yamlPc, goalData, approval, documents, planned>>

NoJobSpec == goal = 0 /\ pc = 0 /\ data = 0 /\ job = 0 /\ writtenSecrets = 0
    /\ scheduled = 0
NoFile == file = 0 /\ lock = 0 /\ call = 0 /\ made = 0 /\ clock = 0
NoCommand == command = 0 /\ account = 0 /\ incoming = 0 /\ linked = 0
    /\ commandPc = 0 /\ index = 0 /\ values = 0 /\ asked = 0 /\ steady = 0
    /\ changes = 0
NoYaml == rules = 0 /\ at = 0 /\ yamlPc = 0 /\ goalData = 0 /\ approval = 0
    /\ documents = 0 /\ planned = 0

InitPart ==
    /\ part \in {"jobs", "spec", "preferences", "command", "yaml"}
    /\ faults = 0
    /\ Init
    /\ IF part = "spec" THEN JS!Init ELSE NoJobSpec
    /\ IF part = "preferences" THEN FP!Init ELSE NoFile
    /\ IF part = "command" THEN CP!Init ELSE NoCommand
    /\ IF part = "yaml" THEN MY!Init ELSE NoYaml

StepJobs ==
    /\ part = "jobs" /\ Next
    /\ UNCHANGED <<part, faults, JobSpecVars, FileVars, CommandVars, YamlVars>>

StepJobSpec ==
    /\ part = "spec" /\ JS!Next
    /\ UNCHANGED <<part, faults, FileVars, CommandVars, YamlVars, vars>>

StepFile ==
    /\ part = "preferences" /\ FP!Next
    /\ UNCHANGED <<part, JobSpecVars, CommandVars, YamlVars, vars>>

StepCommand ==
    /\ part = "command" /\ CP!Next
    /\ UNCHANGED <<part, faults, JobSpecVars, FileVars, YamlVars, vars>>

StepYaml ==
    /\ part = "yaml" /\ MY!Next
    /\ UNCHANGED <<part, faults, JobSpecVars, FileVars, CommandVars, vars>>

NextPart == StepJobs \/ StepJobSpec \/ StepFile \/ StepCommand \/ StepYaml

allVars == <<part, faults, vars, JobSpecVars, FileVars, CommandVars, YamlVars>>

Parts == InitPart /\ [][NextPart]_allVars

(* Calls to schedule end, processes that use the file of preferences go on *)
(* or die, and so do commands, whose users answer.                         *)
FairParts ==
    /\ Parts
    /\ \A c \in Calls : WF_vars(part = "jobs" /\ Schedule(c))
    /\ \A u \in Users : WF_FileVars(part = "preferences" /\ FP!Step(u))
    /\ WF_CommandVars(part = "command" /\ CP!Step)
    /\ WF_CommandVars(part = "command" /\ CP!Answer)

---------------------------------------------------------------------------
(* Every call to schedule a goal ends (KubernetesGoalScheduler.schedule),  *)
(* every call of the file of preferences (FilePreferenceStore) that is not *)
(* killed, and every command whose user answers (mapCommand).              *)
CallsComeToAnEnd ==
    /\ part = "jobs" => CallsEnd
    /\ \A u \in Users : <>(part = "preferences" => FP!HasEnded(u))
    /\ <>(part = "command" => commandPc \in CP!Ended)

(* The job made of a goal is one that Kubernetes takes unless the goal asks*)
(* for a name or a path that is taken, and its containers share the project*)
(* (createJobSpec, k8sFulfillmentCallback).                                *)
JobIsValid == part = "spec" => JS!JobIsValid /\ JS!SharesProject

(* A container finds the secrets that were written for it to files, unless *)
(* a callback run with the planning added them (k8sFulfillmentCallback).   *)
SecretsArrive == part = "spec" => JS!SecretsArrive

(* The file of preferences, locked and written as a whole by processes     *)
(* that die, and created without the lock by those that find none,         *)
(* implements a store of single entries that only they may reset, and a    *)
(* lock is left for good only by who met a file that was broken or just    *)
(* being created (FilePreferenceStore).                                    *)
ImplementsStore ==
    /\ part = "preferences" => FP!Store!Init
    /\ [][part = "preferences" => FP!Store!Next]_(FP!Store!storeVars)
    /\ [](part = "preferences" => FP!TypeOK /\ FP!LockLeaksOnlyOnBrokenFile)

(* A command runs for owner, name and provider of one repository, however  *)
(* often the user was asked (mapCommand).                                  *)
OneRepository == part = "command" => CP!OneRepository

(* A goal waits for the goals of every earlier group of its rule, and for  *)
(* those of the rules it depends on (convertGoals); of the rules of one    *)
(* name the last counts (configureYaml); and a machine that does not start *)
(* has a cause.                                                            *)
GoalsInOrder ==
    part = "yaml" => MY!GoalsInOrder /\ MY!LaterRulesWin /\ MY!FailsForCause
===============================================================================
