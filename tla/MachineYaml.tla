----------------------------- MODULE MachineYaml -----------------------------
(***************************************************************************)
(* A delivery machine from YAML files (machine/yaml): the rules of the     *)
(* documents are mapped one after the other to goals, some of them shared  *)
(* between rules, and then converted to contributions that say which goal  *)
(* waits for which (machine/configure.ts).                                 *)
(***************************************************************************)
EXTENDS Integers, Sequences, FiniteSets, SequencesExt

CONSTANTS
    Documents,   \* sequences of rules, in the order of the files
    Additional,  \* names of goals the program defines
    Makers,      \* names of goal makers
    Referenced   \* goals that are defined in repositories of their own

VARIABLES
    rules,       \* the documents' rules
    at,          \* the rule to be mapped or converted next
    pc,
    goalData,    \* sequence of [name, groups, dependsOn, from]
    approval,    \* shared goals whose definition requires approval
    documents,   \* the cache: referenced goal -> its parameters, NotRead
    planned      \* rule name -> the pairs <<goal, goal it waits for>>

yamlVars == <<rules, at, pc, goalData, approval, documents, planned>>

Reference == [use : STRING, parameters : Nat, approval : BOOLEAN]
Rule == [name : STRING, dependsOn : SUBSET STRING, groups : Seq(Seq(Reference))]

(* No group is empty: what comes after an empty one would wait for nothing.*)
AreRules ==
    /\ Documents \subseteq Seq(Rule)
    /\ \A document \in Documents : \A n \in DOMAIN document :
         \A i \in DOMAIN document[n].groups : document[n].groups[i] # <<>>

NotRead == 0
Lock == [kind |-> "lock", id |-> 0, of |-> "lock", parameters |-> 0]

Init ==
    /\ rules \in Documents
    /\ at = 1 /\ pc = "map" /\ goalData = <<>> /\ approval = {}
    /\ documents = [r \in Referenced |-> NotRead]
    /\ planned = <<>>

---------------------------------------------------------------------------
(* mapGoals: the first of the mappers that knows the goal makes it.  Goals *)
(* the program defines, and the lock, are the same object in every rule.   *)
(* A goal is identified by its place, id.                                  *)

Kind(g) ==
    IF g.use = "lock" THEN "lock"
    ELSE IF g.use \in Additional THEN "additional"
    ELSE IF g.use \in Makers THEN "made"
    ELSE IF g.use \in Referenced THEN "referenced"
    ELSE "unknown"

Shared(g) == Kind(g) \in {"lock", "additional"}

(* Placeholders are resolved in the cached document itself: the parameters *)
(* of the first reference stay.                                            *)
Parameters(g) ==
    IF Kind(g) = "referenced" /\ documents[g.use] # NotRead THEN documents[g.use] ELSE g.parameters

MapGoal(g, id) ==
    [kind |-> Kind(g), id |-> IF Shared(g) THEN 0 ELSE id, of |-> g.use,
     parameters |-> IF Shared(g) THEN 0 ELSE Parameters(g)]

MapGroups(rule, n) ==
    [i \in DOMAIN rule.groups |-> [j \in DOMAIN rule.groups[i] |->
        MapGoal(rule.groups[i][j], 100 * n + 10 * i + j)]]

Mentioned(rule) == UNION {ToSet(rule.groups[i]) : i \in DOMAIN rule.groups}

(* A later rule of the same name takes the place of the earlier one.       *)
SetGoalData(data, entry) ==
    IF \E i \in DOMAIN data : data[i].name = entry.name
    THEN [i \in DOMAIN data |-> IF data[i].name = entry.name THEN entry ELSE data[i]]
    ELSE Append(data, entry)

MapRule ==
    LET rule == rules[at] IN
    /\ pc = "map" /\ at <= Len(rules)
    /\ IF rule.groups = <<>> \/ \E g \in Mentioned(rule) : Kind(g) = "unknown"
       THEN pc' = "failed" /\ UNCHANGED <<at, goalData, approval, documents>>
       ELSE /\ goalData' = SetGoalData(goalData,
                  [name |-> rule.name, groups |-> MapGroups(rule, at), dependsOn |-> rule.dependsOn, from |-> at])
            /\ approval' = approval \cup {g.use : g \in {m \in Mentioned(rule) : m.approval /\ Shared(m)}}
            /\ documents' = [r \in Referenced |->
                  IF documents[r] = NotRead /\ \E g \in Mentioned(rule) : g.use = r
                  THEN (CHOOSE g \in Mentioned(rule) : g.use = r).parameters ELSE documents[r]]
            /\ at' = at + 1 /\ UNCHANGED pc
    /\ UNCHANGED <<rules, planned>>

MappedAll ==
    /\ pc = "map" /\ at > Len(rules)
    /\ pc' = "convert" /\ at' = 1
    /\ UNCHANGED <<rules, goalData, approval, documents, planned>>

---------------------------------------------------------------------------
(* convertGoalData.                                                        *)

GoalsOf(entry) == UNION {ToSet(entry.groups[i]) : i \in DOMAIN entry.groups}
Entry(name) == goalData[CHOOSE i \in DOMAIN goalData : goalData[i].name = name]
(* A rule that depends on itself is found, without goals yet.              *)
Before(name) == \E i \in 1..at : goalData[i].name = name
DependsOn(entry) == entry.dependsOn \ {entry.name}

OnlyFirstAfter(entry, i) ==          \* variant: dependsOn goes to the first group, and that is all
    IF i = 1 THEN UNION {GoalsOf(Entry(d)) : d \in DependsOn(entry)} ELSE {}

(* A group goes after the one before, the first after the rules depended on*)
After(entry, i) ==
    IF i = 1 THEN UNION {GoalsOf(Entry(d)) : d \in DependsOn(entry)}
    ELSE ToSet(entry.groups[i - 1])

Plan(entry) ==
    UNION {ToSet(entry.groups[i]) \X After(entry, i) : i \in DOMAIN entry.groups}

ConvertRule ==
    LET entry == goalData[at] IN
    /\ pc = "convert" /\ at <= Len(goalData)
    /\ IF \E d \in entry.dependsOn : ~Before(d)
       THEN pc' = "failed" /\ UNCHANGED <<at, planned>>
       ELSE /\ planned' = Append(planned, Plan(entry)) /\ at' = at + 1 /\ UNCHANGED pc
    /\ UNCHANGED <<rules, goalData, approval, documents>>

Configured ==
    /\ pc = "convert" /\ at > Len(goalData)
    /\ pc' = "ready"
    /\ UNCHANGED <<rules, at, goalData, approval, documents, planned>>

Next == MapRule \/ MappedAll \/ ConvertRule \/ Configured

Spec == Init /\ [][Next]_yamlVars

---------------------------------------------------------------------------
Overwritten(i) == \E j \in (i + 1)..Len(rules) : rules[j].name = rules[i].name

(* What may be finished of some goals, when each waits for all it is to go *)
(* after in any of the contributions.                                      *)
Waits == UNION {planned[i] : i \in DOMAIN planned}
MayBeFinished(finished, some) ==
    \A w \in Waits : w[1] \in finished /\ w[2] \in some => w[2] \in finished

(* A machine that starts keeps the order its files ask for: goals of a rule*)
(* finish only after those of every earlier group, and after those of the  *)
(* rules it depends on.                                                    *)
GoalsInOrder ==
    pc = "ready" => \A n \in DOMAIN goalData :
        LET e == goalData[n]
            first == UNION {GoalsOf(Entry(d)) : d \in DependsOn(e)}
            some == GoalsOf(e) \cup first
        IN  \A finished \in SUBSET some : MayBeFinished(finished, some) =>
                \A i \in DOMAIN e.groups : ToSet(e.groups[i]) \cap finished # {} =>
                    /\ \A k \in 1..(i - 1) : ToSet(e.groups[k]) \subseteq finished
                    /\ first \subseteq finished

(* "Later files overwriting earlier ones": of the rules of one name the    *)
(* last counts, and no other leaves goals behind.                          *)
LaterRulesWin ==
    pc \in {"convert", "ready"} =>
        /\ \A i \in DOMAIN goalData : ~Overwritten(goalData[i].from)
        /\ {goalData[i].from : i \in DOMAIN goalData} = {i \in DOMAIN rules : ~Overwritten(i)}

(* No rule of the name comes before all of the other's.                    *)
ComesLater(name, other) ==
    \A j \in DOMAIN rules : rules[j].name = name => \E k \in 1..(j - 1) : rules[k].name = other

(* A machine that does not start has a goal nobody can make, a rule without*)
(* goals, or one that depends on a rule that comes after it: a rule that   *)
(* overwrites another one has the place of the other.                      *)
FailsForCause ==
    pc = "failed" =>
        \/ \E i \in DOMAIN rules : rules[i].groups = <<>>
        \/ \E i \in DOMAIN rules : \E g \in Mentioned(rules[i]) :
              g.use \notin Additional \cup Makers \cup Referenced \cup {"lock"}
        \/ \E i \in DOMAIN rules : /\ ~Overwritten(i)
                                   /\ \E d \in rules[i].dependsOn : ComesLater(d, rules[i].name)

(* A goal that is referenced is made with the parameters of its reference. *)
ReferencesHaveTheirParameters ==
    pc = "ready" => \A n \in DOMAIN goalData : LET e == goalData[n]  r == rules[e.from] IN
        \A i \in DOMAIN e.groups : \A j \in DOMAIN e.groups[i] :
            e.groups[i][j].kind = "referenced" => e.groups[i][j].parameters = r.groups[i][j].parameters
=============================================================================
