----------------------------- MODULE AELPublish -----------------------------
(***************************************************************************)
(* What EmitEvaluationPackage promises about its output directory          *)
(* (checker/internal/ael/emit.go): the directory holds no package until,   *)
(* in one step, it holds a signed one, and the signed one records a        *)
(* checker's report together with exactly the inputs that report is about. *)
(* A later emit never replaces it.                                         *)
(***************************************************************************)
EXTENDS Integers

CONSTANTS Publishers,   \* those who may publish there
          Inputs,       \* the trees a checker can be run on
          Report(_)     \* the report a checker writes about a tree

VARIABLE store          \* << >>, or <<the claim of the published package>>

Init == store = << >>

Publish(publisher, tree) ==
    /\ store = << >>
    /\ store' = <<[by |-> publisher, inputs |-> tree, report |-> Report(tree)]>>

Next == \E publisher \in Publishers, tree \in Inputs : Publish(publisher, tree)

Spec == Init /\ [][Next]_store
=============================================================================
