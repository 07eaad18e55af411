------------------------------ MODULE DockerJob ------------------------------
(***************************************************************************)
(* A container goal executed with the Docker CLI (goal/container/          *)
(* docker.ts): a network is created, a `docker run` is spawned for every   *)
(* container, the first container decides, the others are killed.  The     *)
(* goal may be executed again: the containers' names and the registration  *)
(* are the same.                                                           *)
(***************************************************************************)
EXTENDS Integers, FiniteSets

CONSTANTS
    Containers,   \* number of containers of the goal, the first is the main one
    LongCommand,  \* containers whose command has more than one element
    Executions,   \* bound: executions of the goal
    MaxFaults     \* bound: Docker commands and preparations that fail

VARIABLES
    pc,           \* what the execution does next
    execution,    \* its number
    spawned,      \* containers spawned so far
    failures,     \* messages of the execution
    toKill,       \* containers whose `docker kill` has not ended
    container,    \* execution and container -> what Docker makes of it
    network,      \* execution -> BOOLEAN
    args,         \* container -> how often its command was put before its args
    output,       \* code the container put in result.json, NoCode: no such file
    code,         \* execution -> the result's code, NoCode before it ends
    missed,       \* history: containers a kill came too early for, or failed on
    faults

vars == <<pc, execution, spawned, failures, toKill, container, network, args, output, code,
          missed, faults>>

C == 1..Containers
E == 1..Executions
Main == 1
NoCode == 0 - 1
Status == {"none", "starting", "running", "succeeded", "failed", "killed"}
Ended == {"succeeded", "failed", "killed"}
Mine(c) == container[execution][c]

Init ==
    /\ pc = "prepare" /\ execution = 1 /\ spawned = {} /\ failures = 0 /\ toKill = {}
    /\ container = [e \in E |-> [c \in C |-> "none"]]
    /\ network = [e \in E |-> FALSE]
    /\ args = [c \in C |-> 0]
    /\ output = NoCode /\ code = [e \in E |-> NoCode] /\ missed = {}
    /\ faults = 0

Fault == faults < MaxFaults /\ faults' = faults + 1

Return(result) == pc' = "ended" /\ code' = [code EXCEPT ![execution] = result]

PrepareInputAndOutput ==
    /\ pc = "prepare"
    /\ \/ pc' = "network" /\ UNCHANGED <<code, faults>>
       \/ Fault /\ Return(1)
    /\ UNCHANGED <<execution, spawned, failures, toKill, container, network, args, output, missed>>

CreateNetwork ==
    /\ pc = "network"
    /\ \/ /\ network' = [network EXCEPT ![execution] = TRUE]
          /\ pc' = "spawn" /\ UNCHANGED <<code, faults>>
       \/ Fault /\ Return(128) /\ UNCHANGED network
    /\ UNCHANGED <<execution, spawned, failures, toKill, container, args, output, missed>>

(* The rest of a long command goes before the arguments, in the            *)
(* registration's own array.                                               *)
ArgsOf(c) == IF c \in LongCommand THEN [args EXCEPT ![c] = @ + 1] ELSE args

(* Containers are spawned one after the other, and none is waited for.     *)
(* Without its secrets a container is spawned all the same.                *)
SpawnContainer ==
    LET c == Cardinality(spawned) + 1 IN
    /\ pc = "spawn" /\ c \in C
    /\ spawned' = spawned \cup {c}
    /\ container' = [container EXCEPT ![execution][c] = "starting"]
    /\ args' = ArgsOf(c)
    /\ \/ failures' = failures /\ UNCHANGED faults
       \/ failures' = failures + 1 /\ Fault
    /\ UNCHANGED <<pc, execution, toKill, network, code, output, missed>>

OnlySidecars == spawned \ {Main}        \* variant: as after a main container

KilledOnFailure == spawned

(* A volume that the registration does not have ends the loop, after the   *)
(* arguments were changed.                                                 *)
FailToSpawn ==
    /\ pc = "spawn" /\ Cardinality(spawned) < Containers /\ Fault
    /\ failures' = failures + 1
    /\ args' = ArgsOf(Cardinality(spawned) + 1)
    /\ pc' = "kill" /\ toKill' = KilledOnFailure
    /\ UNCHANGED <<execution, spawned, container, network, code, output, missed>>

SpawnedAll ==
    /\ pc = "spawn" /\ spawned = C
    /\ IF failures > 0 THEN pc' = "kill" /\ toKill' = KilledOnFailure
                       ELSE pc' = "wait" /\ UNCHANGED toKill
    /\ UNCHANGED <<execution, spawned, failures, container, network, args, code, faults, output, missed>>

AnySettled == \E c \in C : Mine(c) \in Ended   \* variant: the first container to end

MainSettled == Mine(Main) \in Ended

Sidecars == C \ {Main}

ExitFailure(status) == IF status = "failed" THEN 1 ELSE 0

AwaitMain ==
    /\ pc = "wait" /\ MainSettled
    /\ failures' = failures + ExitFailure(Mine(Main))
    /\ pc' = "output"
    /\ UNCHANGED <<execution, spawned, toKill, container, network, args, code, faults, output, missed>>

(* result.json is read when nothing failed.                                *)
ReadOutput ==
    /\ pc = "output"
    /\ \/ failures > 0 /\ UNCHANGED <<failures, output, faults>>
       \/ failures = 0 /\ output' \in {NoCode, 0, 1} /\ UNCHANGED <<failures, faults>>
       \/ failures = 0 /\ failures' = 1 /\ Fault /\ UNCHANGED output
    /\ pc' = "kill" /\ toKill' = Sidecars
    /\ UNCHANGED <<execution, spawned, container, network, args, code, missed>>

(* The kills are spawned together; Docker can kill what runs, and nothing  *)
(* else.                                                                   *)
Kill(c) ==
    /\ c \in toKill /\ toKill' = toKill \ {c}
    /\ \/ /\ Mine(c) = "running"
          /\ container' = [container EXCEPT ![execution][c] = "killed"]
          /\ UNCHANGED <<missed, faults>>
       \/ /\ Mine(c) # "running" \/ faults < MaxFaults
          /\ faults' = IF Mine(c) = "running" THEN faults + 1 ELSE faults
          /\ missed' = missed \cup {<<execution, c>>}
          /\ UNCHANGED container
    /\ UNCHANGED <<pc, execution, spawned, failures, network, args, output, code>>

(* Promise.all does not wait for the others when one kill throws.          *)
KilledAll ==
    /\ pc = "kill"
    /\ \/ toKill = {} /\ UNCHANGED faults
       \/ toKill # {} /\ Fault
    /\ pc' = "rmnet"
    /\ UNCHANGED <<execution, spawned, failures, toKill, container, network, args, output, code, missed>>

(* Docker keeps a network that a container uses; an error is logged only,  *)
(* unless the command could not be spawned.                                *)
RemoveNetwork ==
    /\ pc = "rmnet"
    /\ \/ /\ network' = [network EXCEPT ![execution] = \E c \in C : Mine(c) = "running"]
          /\ failures' = failures /\ UNCHANGED faults
       \/ Fault /\ UNCHANGED network /\ failures' \in {failures, failures + 1}
    /\ Return(IF failures' = 0 /\ output # NoCode THEN output ELSE failures')
    /\ UNCHANGED <<execution, spawned, toKill, container, args, output, missed>>

(* The goal is requested again, when the kills have ended.                 *)
Retry ==
    /\ pc = "ended" /\ code[execution] # 0 /\ toKill = {} /\ execution < Executions
    /\ pc' = "prepare" /\ execution' = execution + 1 /\ spawned' = {} /\ failures' = 0
    /\ output' = NoCode
    /\ UNCHANGED <<toKill, container, network, args, code, missed, faults>>

(* Docker starts a container unless its name is taken or its network gone. *)
DockerStarts(e, c) ==
    /\ container[e][c] = "starting"
    /\ container' = [container EXCEPT ![e][c] =
          IF network[e] /\ \A f \in E : container[f][c] # "running" THEN "running" ELSE "failed"]
    /\ UNCHANGED <<pc, execution, spawned, failures, toKill, network, args, code, faults, output, missed>>

DockerFailsToStart(e, c) ==
    /\ container[e][c] = "starting" /\ Fault
    /\ container' = [container EXCEPT ![e][c] = "failed"]
    /\ UNCHANGED <<pc, execution, spawned, failures, toKill, network, args, code, output, missed>>

ContainerEnds(e, c) ==
    /\ container[e][c] = "running"
    /\ \E end \in {"succeeded", "failed"} : container' = [container EXCEPT ![e][c] = end]
    /\ UNCHANGED <<pc, execution, spawned, failures, toKill, network, args, code, faults, output, missed>>

Execute ==
    \/ PrepareInputAndOutput \/ CreateNetwork \/ SpawnContainer \/ FailToSpawn \/ SpawnedAll
    \/ AwaitMain \/ ReadOutput \/ KilledAll \/ RemoveNetwork
    \/ \E c \in C : Kill(c)

Next ==
    \/ Execute \/ Retry
    \/ \E e \in E, c \in C : DockerStarts(e, c) \/ DockerFailsToStart(e, c) \/ ContainerEnds(e, c)

Spec == Init /\ [][Next]_vars

(* Commands of the CLI end, Docker starts containers, the main container   *)
(* ends.  Nothing is assumed of the sidecars.                              *)
FairSpec ==
    /\ Spec /\ WF_vars(Execute)
    /\ \A e \in E, c \in C : WF_vars(DockerStarts(e, c))
    /\ \A e \in E : WF_vars(ContainerEnds(e, Main))

---------------------------------------------------------------------------
TypeOK ==
    /\ pc \in {"prepare", "network", "spawn", "wait", "output", "kill", "rmnet", "ended"}
    /\ execution \in E /\ spawned \subseteq C /\ toKill \subseteq spawned
    /\ failures \in 0..(MaxFaults + 1) /\ faults \in 0..MaxFaults
    /\ container \in [E -> [C -> Status]]
    /\ network \in [E -> BOOLEAN]
    /\ output \in {NoCode, 0, 1} /\ code \in [E -> {NoCode, 128} \cup 0..(MaxFaults + 1)]
    /\ missed \subseteq E \X C

(* An execution succeeds only when its main container did, with everything *)
(* it was to be given.                                                     *)
SuccessIsMains ==
    \A e \in E : code[e] = 0 => container[e][Main] = "succeeded"

(* A sidecar is there as long as the main container may need it: nobody    *)
(* kills one before the main container has ended, unless the execution     *)
(* fails for want of another container.                                    *)
KillsInTime == \A c \in C : Kill(c) => Mine(Main) \in Ended \/ failures > 0
SidecarsOutliveMain == [][KillsInTime]_vars

(* No container is forgotten: one that runs, or may still start, after its *)
(* execution has ended is one whose kill came before Docker had started it *)
(* or failed.                                                              *)
NoneForgotten ==
    \A e \in E, c \in C :
        code[e] # NoCode /\ container[e][c] \in {"starting", "running"} =>
            <<e, c>> \in missed \/ (e = execution /\ c \in toKill)

(* Every execution ends, whatever becomes of its sidecars.                 *)
Ends == []<>(pc = "ended")

(* The registration says how a container is run: its command goes before   *)
(* its arguments once, however often the goal is executed.                 *)
CommandPrependedOnce == \A c \in C : args[c] <= 1
=============================================================================
