-------------------------- MODULE CommandParameters --------------------------
(***************************************************************************)
(* The parameters of a command that a machine in YAML mode runs itself     *)
(* (machine/yaml/mapCommand.ts).  Asking the user ends the invocation; the *)
(* answer starts it anew with one more incoming parameter.  Every mapped   *)
(* parameter looks up the repository on its own, and the links of the      *)
(* channel change meanwhile.                                               *)
(***************************************************************************)
EXTENDS Integers, FiniteSets, Sequences

CONSTANTS
    Repos,       \* [id, owner, repo, provider]
    Commands,    \* see Command
    MaxChanges   \* bound: changes of the links of the channel

VARIABLES
    command,
    account,     \* of the user: "linked", "linkable" or "none"
    incoming,    \* the parameters of the trigger, by name
    linked,      \* the repositories linked to the channel
    pc, index,   \* step and, among the mapped parameters, position
    values,      \* values of mapped parameters, by name
    asked,       \* what the user is asked for, and the options
    steady,      \* history: the links did not change since the invocation began
    changes

commandVars == <<command, account, incoming, linked, pc, index, values, asked, steady, changes>>

Missing == "undefined"
RepoParameters == {"owner", "repo", "provider"}   \* provider: its id, or the URL of its API

(* any: GitHubOwnerWithUser or GitHubAllRepositories.                      *)
MappedParameter == [name : RepoParameters, any : BOOLEAN, required : BOOLEAN]
Command == [prompts : BOOLEAN, secret : BOOLEAN, mapped : Seq(MappedParameter)]

Given(name) == name \in DOMAIN incoming
Maps(name) == \E i \in DOMAIN command.mapped : command.mapped[i].name = name /\ ~command.mapped[i].any
Ended == {"ran", "failed", "interrupted"}

Nothing == [name |-> Missing, options |-> {}]

(* What a user may answer: a slug is one of a repository or of none.       *)
Options(name) ==
    CASE name = "repo_id" -> {r.id : r \in linked}
      [] name = "repo_slug" -> {r.id : r \in Repos} \cup {Missing}
      [] OTHER -> {"yes"}

Init ==
    /\ command \in Commands /\ account \in {"linked", "linkable", "none"}
    /\ \E owner \in {r.owner : r \in Repos}, repo \in {r.repo : r \in Repos},
          names \in SUBSET {"owner", "repo"} :
         incoming = [n \in names |-> IF n = "owner" THEN owner ELSE repo]
    /\ linked \in SUBSET Repos
    /\ pc = "start" /\ index = 1 /\ values = <<>> /\ asked = Nothing
    /\ steady = TRUE /\ changes = 0

Ask(name) == pc' = "asking" /\ asked' = [name |-> name, options |-> Options(name)] /\ UNCHANGED <<index, values>>

PromptFor ==
    /\ pc = "start"
    /\ IF command.prompts /\ ~Given("parameter") THEN Ask("parameter")
                                                 ELSE pc' = "secrets" /\ UNCHANGED <<index, values, asked>>
    /\ UNCHANGED <<command, account, incoming, linked, steady, changes>>

(* A user without token is asked to link the account if there is a         *)
(* provider to link to, and has to run the command again.                  *)
PopulateSecrets ==
    /\ pc = "secrets"
    /\ pc' = IF command.secret /\ account = "linkable" THEN "interrupted" ELSE "mapped"
    /\ UNCHANGED <<command, account, incoming, linked, index, values, asked, steady, changes>>

---------------------------------------------------------------------------
Named(owner, repo) == {r \in Repos : r.owner = owner /\ r.repo = repo}

Selected == IF Maps("owner") /\ Maps("repo") /\ Given("owner") /\ Given("repo")
            THEN Named(incoming["owner"], incoming["repo"]) ELSE {}

(* Which question has to be answered before the repository is known.       *)
Question ==
    CASE Cardinality(Selected) = 1 -> Missing
      [] Cardinality(Selected) # 1 /\ \E i \in DOMAIN command.mapped : command.mapped[i].any -> "repo_slug"
      [] OTHER -> IF Cardinality(linked) = 1 THEN Missing
                  ELSE IF linked = {} THEN "repo_slug" ELSE "repo_id"

HasToAsk == Question # Missing /\ ~Given(Question)

AnyLinked == IF Cardinality(Selected) = 1 THEN Selected ELSE linked  \* variant: any repository of the channel

(* The first of several repositories of that owner and name.               *)
Candidates ==
    CASE Question = Missing -> IF Cardinality(Selected) = 1 THEN Selected ELSE linked
      [] Question = "repo_id" -> {r \in linked : r.id = incoming["repo_id"]}
      [] OTHER -> UNION {Named(r.owner, r.repo) : r \in {q \in Repos : q.id = incoming["repo_slug"]}}

(* A repository that was chosen and is no longer linked: find returns      *)
(* undefined, whose fields are read.                                       *)
Throws == Question = "repo_id" /\ Candidates = {}

With(parameters, name, value) ==
    [n \in DOMAIN parameters \cup {name} |-> IF n = name THEN value ELSE parameters[n]]

Populate(name, value) == values' = With(values, name, value)

Current == command.mapped[index]

PopulateIncoming ==
    /\ pc = "mapped" /\ index <= Len(command.mapped) /\ Given(Current.name)
    /\ Populate(Current.name, incoming[Current.name]) /\ index' = index + 1
    /\ UNCHANGED <<command, account, incoming, linked, pc, asked, steady, changes>>

LoadRepositoryDetails ==
    /\ pc = "mapped" /\ index <= Len(command.mapped) /\ ~Given(Current.name)
    /\ IF HasToAsk THEN Ask(Question)
       ELSE IF Throws THEN pc' = "failed" /\ UNCHANGED <<index, values, asked>>
       ELSE /\ \/ \E r \in Candidates : Populate(Current.name, r[Current.name])
               \/ Candidates = {} /\ Populate(Current.name, Missing)
            /\ index' = index + 1 /\ UNCHANGED <<pc, asked>>
    /\ UNCHANGED <<command, account, incoming, linked, steady, changes>>

MissingParameters == {i \in DOMAIN command.mapped :
                        command.mapped[i].required /\ values[command.mapped[i].name] = Missing}

Handle ==
    /\ pc = "mapped" /\ index > Len(command.mapped)
    /\ pc' = IF MissingParameters # {} THEN "failed" ELSE "ran"
    /\ UNCHANGED <<command, account, incoming, linked, index, values, asked, steady, changes>>

(* The user answers; the listener is called again.                         *)
Answer ==
    /\ pc = "asking"
    /\ \E value \in asked.options : incoming' = With(incoming, asked.name, value)
    /\ pc' = "start" /\ index' = 1 /\ values' = <<>> /\ asked' = Nothing /\ steady' = TRUE
    /\ UNCHANGED <<command, account, linked, changes>>

LinkOrUnlink ==
    /\ changes < MaxChanges /\ pc \notin Ended
    /\ \E r \in Repos : linked' \in {linked \cup {r}, linked \ {r}} \ {linked}
    /\ changes' = changes + 1 /\ steady' = FALSE
    /\ UNCHANGED <<command, account, incoming, pc, index, values, asked>>

Step == PromptFor \/ PopulateSecrets \/ PopulateIncoming \/ LoadRepositoryDetails \/ Handle

Next == Step \/ Answer \/ LinkOrUnlink

Spec == Init /\ [][Next]_commandVars /\ WF_commandVars(Step) /\ WF_commandVars(Answer)

---------------------------------------------------------------------------
RunsForOneRepository ==
    \E r \in Repos : \A name \in DOMAIN values : values[name] \in {Missing, r[name]}

(* A command runs with owner, name and provider of one repository, however *)
(* often the user was asked and the listener called anew, if the links of  *)
(* the channel do not change during the last call; the user gave neither   *)
(* owner nor name, or both of exactly one repository.                      *)
OneRepository ==
    pc = "ran" /\ steady /\ (Cardinality(Selected) = 1 \/ ~(Given("owner") \/ Given("repo"))) =>
        RunsForOneRepository

(* Whenever the user answers, the command runs, fails or is interrupted.   *)
CommandEnds == <>(pc \in Ended)

AlwaysOneRepository == pc = "ran" => RunsForOneRepository
=============================================================================
