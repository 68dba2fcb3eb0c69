----------------------------- MODULE MCAlgorithms -----------------------------
(***************************************************************************)
(* The sequential algorithms in one run: the governability report, JSON    *)
(* limits and canonical form, Merkle proofs, and the replay of decisions.  *)
(* They share no state: in each behaviour one of them runs, and the others *)
(* have finished on an empty input.                                        *)
(***************************************************************************)
EXTENDS MCGov, AELJson, AELMerkle, AELPolicy

\* JSON: "a" plain and escaped, and two keys that UTF-16 and code points
\* order differently; numbers on both sides of the safe range.
Text(val) == [kind |-> "string", val |-> val, plain |-> TRUE]
Number(val) == [kind |-> "number", val |-> val, plain |-> TRUE]

MCKeys == {Text(<<97>>), [Text(<<97>>) EXCEPT !.plain = FALSE], Text(<<57344>>), Text(<<128512>>)}
MCScalars ==
    {Text(<<97>>), Text(<<128512>>)}
    \cup {Number(val) : val \in {<<48>>, <<45, 48>>, <<49, 49>>, <<45, 49, 49>>,
                                 <<49, 50>>, <<45, 49, 50>>, <<49, 46, 48>>}}

\* Policies: two rules of which both may apply, the same in bytes that are
\* not canonical, and rules that are malformed for some inputs only.
Integer(n) == <<"int", n>>
Str(s) == <<"string", s>>
Rule(field, op, value, verdict) ==
    [field |-> field, op |-> op, value |-> value, verdict |-> verdict]
Doc(form, rules) == [form |-> form, rules |-> rules, default |-> "allow"]

TwoRules == <<Rule("n", "gte", Integer(2), "block"),
              Rule("n", "in", <<"array", {Integer(1), Integer(2)}>>, "defer")>>
MalformedLater == <<Rule("n", "eq", Integer(1), "block"), Rule("n", "lt", Str("x"), "defer"),
                    Rule("s", "has", Str("x"), "block")>>
MCContents == {Doc("canonical", TwoRules), Doc("noncanonical", TwoRules),
               Doc("canonical", MalformedLater)}
MCInputs == {[n |-> Integer(1)], [n |-> Integer(2), s |-> Str("x")],
             [n |-> Str("x"), s |-> Str("x")], [s |-> Str("x")]}

----------------------------------------------------------------------------
GovDone == log = << >> /\ report = <<coverage(<< >>)>>
TextDone ==
    /\ text = << >> /\ ending = "clean"
    /\ within = <<validateManifestResourceLimits(<< >>, "clean")>>
    /\ canon = <<Canonicalize(<< >>, "clean")>>
TreeDone ==
    LET leaf == merkleLeaf("p")
    IN  /\ leaves = <<leaf>> /\ climbed = <<leaf>>
        /\ claim = <<[leaf |-> leaf, index |-> 0, proof |-> << >>, tampers |-> 0]>>
PolicyDone == files = << >> /\ records = << >> /\ replay = <<"pending">>

AlgInit ==
    \/ Init /\ TextDone /\ TreeDone /\ PolicyDone
    \/ GovDone /\ TextInit /\ TreeDone /\ PolicyDone
    \/ GovDone /\ TextDone /\ TreeInit /\ PolicyDone
    \/ GovDone /\ TextDone /\ TreeDone /\ PolicyInit

AlgNext ==
    \/ Next /\ UNCHANGED <<textVars, treeVars, policyVars>>
    \/ TextNext /\ UNCHANGED <<vars, treeVars, policyVars>>
    \/ TreeNext /\ UNCHANGED <<vars, textVars, policyVars>>
    \/ PolicyNext /\ UNCHANGED <<vars, textVars, treeVars>>

AlgSpec == AlgInit /\ [][AlgNext]_<<vars, textVars, treeVars, policyVars>>
=============================================================================
