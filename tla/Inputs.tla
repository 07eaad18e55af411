------------------------------- MODULE Inputs -------------------------------
(***************************************************************************)
(* What an SDM is given in the runs: container goals to schedule, selectors*)
(* and resources to fetch, applications to deploy, repositories and        *)
(* commands, and rules of machine.yaml files.                              *)
(***************************************************************************)
EXTENDS Integers, Sequences

(* JobSpec.  Secrets a container asks for: written to the environment or a *)
(* file, of any type of provider, with providers that match them or not.   *)
(* Files may lie in one directory, at one path, in the cache or below it,  *)
(* and where the goal or another service has its directories.              *)
Asked(name, type, matches) ==
    [name |-> name, dir |-> <<>>, kind |-> "env", type |-> type, matches |-> matches]
File(dir, name, type, matches) ==
    [name |-> name, dir |-> dir, kind |-> "file", type |-> type, matches |-> matches]

Root == <<"root">>
SomeSecrets ==
    {{}, {Asked("s1", "docker", 1), File(Root, "f", "npm", 1)},
     {Asked("s1", "maven2", 1)}, {File(Root, "f", "maven2", 1)},
     {Asked("s1", "generic", 2)}, {Asked("s1", "generic", 0)},
     {File(Root, "f", "docker", 0), File(Root, "g", "scm", 1)},
     {File(Root, "f", "docker", 0), File(Root, "f", "scm", 1)},
     {File(<<"opt", "data">>, "f", "npm", 1), File(<<"opt", "data", "x">>, "f", "scm", 1)},
     {File(<<"atm">>, "f", "npm", 1), File(<<"atm", "home", "x">>, "f", "scm", 1)},
     {File(<<"atm", "home">>, "f", "npm", 1)}, {File(<<"atm">>, "output", "npm", 1)},
     {File(<<"shared">>, "f", "npm", 1)}}

SomeGoals ==
    [where : {"k8s", "faas"}, callback : {"none", "drops", "adds"},
     containers : {<<"main", "side">>, <<"main", "main">>, <<"setup", "db">>},
     secrets : SomeSecrets, service : {"none", "before", "after"},
     podCache : BOOLEAN, podInit : BOOLEAN]

(* KubernetesFetch.  Ingress is served as version n1 only, Crd too; Role   *)
(* and Crd have no namespace.                                              *)
Kind(version, kind) == [version |-> version, kind |-> kind]
Object(kind, ns, name) == [kind |-> kind, ns |-> ns, name |-> name]
Select(action, kinds, namespaces, objects) ==
    [action |-> action, kinds |-> kinds, namespaces |-> namespaces, objects |-> objects]

SomeKinds == <<Kind("v1", "Namespace"), Kind("v1", "Secret"), Kind("b1", "Role")>>

ServedKinds ==
    {Kind("v1", "Namespace"), Kind("v1", "Secret"), Kind("b1", "Role"),
     Kind("n1", "Ingress"), Kind("n1", "Crd")}

SomeObjects ==
    {Object("Namespace", "none", "x"), Object("Namespace", "none", "y"),
     Object("Secret", "x", "s"), Object("Secret", "y", "s"), Object("Role", "none", "r"),
     Object("Crd", "none", "c"), Object("Ingress", "x", "i")}

PresentObjects == SomeObjects \ {Object("Secret", "y", "s")}

SomeSelections ==
    {<<>>, <<Select("exclude", <<>>, {}, {})>>, <<Select("", <<>>, {}, {})>>,
     <<Select("exclude", <<>>, {"x"}, {}), Select("include", <<>>, {}, {})>>,
     <<Select("exclude", <<Kind("v1", "Secret")>>, {"y"}, {}),
       Select("include", <<Kind("v1", "Secret")>>, {"x", "y"}, {}),
       Select("exclude", <<>>, {"x"}, {}),
       Select("", <<Kind("e1", "Ingress"), Kind("v1", "Namespace")>>, {}, {})>>,
     <<Select("include", <<Kind("b1", "Role")>>, {}, {Object("Role", "none", "r")}),
       Select("include", <<Kind("e1", "Ingress"), Kind("n1", "Ingress")>>, {"x", "none"}, {})>>,
     <<Select("include", <<Kind("e1", "Crd")>>, {}, {}),
       Select("include", <<Kind("n1", "Crd"), Kind("v1", "Secret")>>, {}, {})>>}

(* DeployGoal.  Which fields of the application each source knows.         *)
SomeRegistrations ==
    [name : {"undefined", "other"}, applicationData : {"none", "changes", "nothing"},
     dataSources : {{}, {"config", "goalEvent"}, {"config", "dockerfile", "spec", "goalEvent"}}]

Contents(event, commit) ==
    [s \in {"config", "dockerfile", "spec", "goalEvent", "callback", "commit"} |->
        CASE s = "config" -> {"ns", "image", "port"} [] s = "dockerfile" -> {"port"}
          [] s = "spec" -> {"deploymentSpec"} [] s = "callback" -> {"image"}
          [] s = "goalEvent" -> event [] s = "commit" -> commit]

SomeContents ==
    {Contents(event, commit) : event \in {{}, {"port", "deploymentSpec"}}, commit \in {{}, {"image"}}}

(* GoalResults.  The second secret of one command is at the path of the    *)
(* other command's.                                                        *)
SomePaths == [g \in {"c1", "c2"} |-> IF g = "c1" THEN <<"a", "b">> ELSE <<"b">>]

SomeTags == {[name |-> "", release |-> FALSE, build |-> "sdm.1"]}

(* CommandParameters.  Two providers have a repository of the same name.   *)
SomeRepos ==
    {[id |-> "r1", owner |-> "o1", repo |-> "n1", provider |-> "p1"],
     [id |-> "r2", owner |-> "o2", repo |-> "n2", provider |-> "p1"],
     [id |-> "r3", owner |-> "o1", repo |-> "n1", provider |-> "p2"]}

Mapped(name, any, required) == [name |-> name, any |-> any, required |-> required]

Parameters(any) ==
    <<Mapped("owner", any, TRUE), Mapped("repo", FALSE, TRUE), Mapped("provider", FALSE, FALSE)>>

SomeCommands ==
    {[prompts |-> TRUE, secret |-> FALSE, mapped |-> Parameters(TRUE)],
     [prompts |-> FALSE, secret |-> TRUE, mapped |-> Parameters(TRUE)],
     [prompts |-> TRUE, secret |-> TRUE, mapped |-> Parameters(FALSE)]}

(* MachineYaml.  Three documents, of which two may define the same rule.   *)
Use(use, parameters, approval) ==
    [use |-> use, parameters |-> parameters, approval |-> approval]

SomeGroups ==
    {<<>>, <<<<Use("else", 0, FALSE)>>>>,
     <<<<Use("npm", 1, FALSE), Use("docker", 0, FALSE)>>, <<Use("build", 0, TRUE)>>>>,
     <<<<Use("docker", 0, FALSE)>>, <<Use("npm", 2, FALSE)>>>>,
     <<<<Use("lock", 0, FALSE)>>, <<Use("build", 0, FALSE), Use("npm", 2, FALSE)>>,
       <<Use("docker", 0, FALSE)>>>>}

SomeDocuments ==
    LET Rules(names, groups) == [name : names, dependsOn : {{}, {"ci"}}, groups : groups]
    IN  {<<a, b, c>> :
            a \in Rules({"ci", "cd"}, SomeGroups),
            b \in Rules({"ci", "cd"}, SomeGroups \ {<<>>}),
            c \in Rules({"ci", "qa"}, {g \in SomeGroups : Len(g) > 1})}
=============================================================================
