------------------------------ MODULE AELPolicy ------------------------------
(***************************************************************************)
(* Replaying decisions: the suffix +R of a grade (checkR in checker/       *)
(* internal/ael/checks.go) and the policies it evaluates (policy.go and    *)
(* Artifact.loadPolicies).                                                 *)
(*                                                                         *)
(* A policy file's bytes are [form, rules, default], form being            *)
(* "canonical", "noncanonical", "not a policy" or "unreadable".  Hashes    *)
(* are ideal, as in AELArtifact.  A value is <<kind, content>>, its kind   *)
(* "int", "string", "bool", "array" or "other".  An activity is [parsed,   *)
(* type, decision]; decision is << >> or <<[policy, inputs, verdict]>>,    *)
(* and inputs a function from the fields given to values.                  *)
(***************************************************************************)
EXTENDS Integers, SequencesExt

CONSTANTS
    Contents,           \* the bytes that policy files may hold
    Inputs,             \* the inputs of decisions
    Verdicts,
    MaxActivities       \* bound on the number of records


VARIABLES
    files,      \* the policy directory: name of a file to its bytes
    records,    \* the records of the run, in the order checkR meets them
    replay      \* << >>, or <<the suffix checkR returned>>

policyVars == <<files, records, replay>>

sha256(content) == <<content>>
Names == {sha256(content) : content \in Contents}

----------------------------------------------------------------------------
(***************************************************************************)
(* Loading and evaluating a policy.                                        *)
(***************************************************************************)
\* Artifact.Policies: what ParsePolicy accepted, under the file's name.
Policies == {name \in DOMAIN files : files[name].form = "canonical"}

ValueKind(v) == v[1]
ValueOf(v) == v[2]
IsInt(v) == ValueKind(v) = "int"
IsValue(v) == v = <<ValueKind(v), ValueOf(v)>> /\ (IsInt(v) => ValueOf(v) \in Int)

ASSUME PolicyAssumption ==
    /\ MaxActivities \in Nat
    /\ \A content \in Contents :
          /\ content.rules \in Seq(Range(content.rules))
          /\ \A rule \in Range(content.rules) :
                /\ IsValue(rule.value)
                /\ ValueKind(rule.value) = "array" => \A v \in ValueOf(rule.value) : IsValue(v)
    /\ \A inputs \in Inputs : \A field \in DOMAIN inputs : IsValue(inputs[field])

scalarEqual(a, b) ==
    /\ ValueKind(a) = ValueKind(b) /\ ValueKind(a) \in {"int", "string", "bool"}
    /\ ValueOf(a) = ValueOf(b)

Supported(rule) == rule.op \in {"gte", "lt", "eq", "in"}

\* Whether the rule applies: "yes", "no" or "error".
Answer(b) == IF b THEN "yes" ELSE "no"
matchWhen(rule, inputs) ==
    IF rule.field \notin DOMAIN inputs THEN "no"
    ELSE LET got == inputs[rule.field]
         IN  CASE rule.op \in {"gte", "lt"} ->
                    IF ~IsInt(got) THEN "no"
                    ELSE IF ~IsInt(rule.value) THEN "error"
                    ELSE Answer(IF rule.op = "gte" THEN ValueOf(got) >= ValueOf(rule.value)
                                                   ELSE ValueOf(got) < ValueOf(rule.value))
               [] rule.op = "eq" -> Answer(scalarEqual(got, rule.value))
               [] rule.op = "in" ->
                    IF ValueKind(rule.value) # "array" THEN "error"
                    ELSE Answer(\E v \in ValueOf(rule.value) : scalarEqual(got, v))
               [] OTHER -> "error"

\* Mutant: a malformed rule is passed over.
EvalPassingErrors(policy, inputs) ==
    LET from[i \in 1..(Len(policy.rules) + 1)] ==
          IF i > Len(policy.rules) THEN <<policy.default>>
          ELSE IF matchWhen(policy.rules[i], inputs) = "yes" THEN <<policy.rules[i].verdict>>
          ELSE from[i + 1]
    IN  from[1]

\* The loop over the rules from each of them on: what it returns, << >> for an error.
EvalFrom(policy, inputs) ==
    LET from[i \in 1..(Len(policy.rules) + 1)] ==
          IF i > Len(policy.rules) THEN <<policy.default>>
          ELSE IF matchWhen(policy.rules[i], inputs) = "error" THEN << >>
          ELSE IF matchWhen(policy.rules[i], inputs) = "yes" THEN <<policy.rules[i].verdict>>
          ELSE from[i + 1]
    IN  from

Eval(policy, inputs) == EvalFrom(policy, inputs)[1]

----------------------------------------------------------------------------
IsActivity(rec) == rec.parsed /\ rec.type = "activity"

Replays(decision) ==
    /\ decision.policy \in Policies
    /\ sha256(files[decision.policy]) = decision.policy
    /\ Eval(files[decision.policy], decision.inputs) = <<decision.verdict>>

checkR ==
    LET activities == {i \in DOMAIN records : IsActivity(records[i])}
        decided == {i \in activities : records[i].decision # << >>}
    IN  IF \E i \in decided : ~Replays(records[i].decision[1]) THEN "fail"
        ELSE IF activities = {} \/ Cardinality(decided) # Cardinality(activities) THEN "pending"
        ELSE "+R"

----------------------------------------------------------------------------
PolicyInit == files = << >> /\ records = << >> /\ replay = << >>

Put(name, content) ==
    files' = [n \in DOMAIN files \cup {name} |-> IF n = name THEN content ELSE files[n]]

\* The operator files a policy under its hash; whoever presents the run may
\* file anything under any name, or take a file away.
File(name, content) ==
    /\ replay = << >>
    /\ Put(name, content)
    /\ UNCHANGED <<records, replay>>

Unfile(name) ==
    /\ replay = << >> /\ name \in DOMAIN files
    /\ files' = [n \in DOMAIN files \ {name} |-> files[n]]
    /\ UNCHANGED <<records, replay>>

Act(rec) ==
    /\ replay = << >> /\ Len(records) < MaxActivities
    /\ records' = Append(records, rec)
    /\ UNCHANGED <<files, replay>>

Replay ==
    /\ replay = << >>
    /\ replay' = <<checkR>>
    /\ UNCHANGED <<files, records>>

Decisions ==
    [policy : Names, inputs : Inputs, verdict : Verdicts]
Activities ==
    {[parsed |-> TRUE, type |-> "activity", decision |-> <<d>>] : d \in Decisions}
    \cup {[parsed |-> TRUE, type |-> "activity", decision |-> << >>],
          [parsed |-> TRUE, type |-> "close", decision |-> << >>],
          [parsed |-> FALSE, type |-> "activity", decision |-> << >>]}

PolicyNext ==
    \/ \E name \in Names, content \in Contents : File(name, content)
    \/ \E name \in Names : Unfile(name)
    \/ \E rec \in Activities : Act(rec)
    \/ Replay

PolicySpec == PolicyInit /\ [][PolicyNext]_policyVars

----------------------------------------------------------------------------
(***************************************************************************)
(* +R says exactly that there was an activity, and that every activity     *)
(* carries a decision whose verdict is the one its inputs have under the   *)
(* very bytes it was made under: the first rule that applies decides, and  *)
(* no rule before it is malformed for these inputs.  The policy directory  *)
(* may have been rearranged since in any way.  (checkR, checks.go 719-754; *)
(* Eval and matchWhen, policy.go 51-104.)                                  *)
(***************************************************************************)
\* What a rule means: the inputs for which it applies, or cannot be applied.
Compares(rule) == rule.op \in {"gte", "lt"}
Applies(rule, inputs) ==
    /\ rule.field \in DOMAIN inputs
    /\ LET got == inputs[rule.field]
           meant == IF rule.op = "in" THEN ValueOf(rule.value) ELSE {rule.value}
       IN  IF Compares(rule)
           THEN /\ IsInt(got) /\ IsInt(rule.value)
                /\ (ValueOf(got) < ValueOf(rule.value)) <=> (rule.op = "lt")
           ELSE /\ rule.op = "eq" \/ (rule.op = "in" /\ ValueKind(rule.value) = "array")
                /\ ValueKind(got) \in {"int", "string", "bool"}
                /\ \E v \in meant : v = got
Malformed(rule, inputs) ==
    /\ rule.field \in DOMAIN inputs
    /\ \/ ~Supported(rule)
       \/ Compares(rule) /\ IsInt(inputs[rule.field]) /\ ~IsInt(rule.value)
       \/ rule.op = "in" /\ ValueKind(rule.value) # "array"

Justified(decision) ==
    LET policy == decision.policy[1]
        Decisive(i) == \/ Applies(policy.rules[i], decision.inputs)
                       \/ Malformed(policy.rules[i], decision.inputs)
        decisive == {i \in DOMAIN policy.rules : Decisive(i)}
    IN  IF decisive = {} THEN decision.verdict = policy.default
        ELSE LET i == Min(decisive)
             IN  /\ ~Malformed(policy.rules[i], decision.inputs)
                 /\ decision.verdict = policy.rules[i].verdict

ReplayExact ==
    replay # << >> =>
        LET acts == {i \in DOMAIN records : IsActivity(records[i])}
        IN  replay[1] = "+R" <=>
                /\ acts # {}
                /\ \A i \in acts :
                      /\ records[i].decision # << >>
                      /\ LET decision == records[i].decision[1]
                         IN  /\ <<decision.policy, decision.policy[1]>> \in
                                    {<<name, files[name]>> : name \in DOMAIN files}
                             /\ decision.policy[1].form = "canonical"
                             /\ Justified(decision)
=============================================================================
