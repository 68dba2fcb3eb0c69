-------------------------------- MODULE MCGov --------------------------------
(***************************************************************************)
(* Instances of AELGov for TLC: two events, two event classes of which one *)
(* is covered, every outcome of the policy lookup, declared classes, and   *)
(* records that leave the class or the id empty, valid and not.            *)
(***************************************************************************)
EXTENDS AELGov

Kind(id, class, verified, valid, policy, declared) ==
    [id |-> id, class |-> class, verified |-> verified, valid |-> valid,
     policy |-> policy, declared |-> declared]

MCRecordKinds ==
    {Kind(id, class, TRUE, TRUE, policy, "none") :
        id \in {"x", "y"}, class \in {"covered", "other"},
        policy \in {"none", "read-only", "reversible", "irreversible"}}
    \cup {Kind("x", class, TRUE, TRUE, policy, "none") :
        class \in {"covered", "other"}, policy \in {"bad", "silent"}}
    \cup {Kind(id, class, TRUE, TRUE, "none", declared) :
        id \in {"x", "y"}, class \in {"covered", "other"},
        declared \in {"reversible", "unheard of"}}
    \cup {Kind("x", Unnamed, TRUE, TRUE, policy, "none") : policy \in {"none", "reversible"}}
    \cup {Kind(Unnamed, "other", TRUE, TRUE, "none", "none")}
    \cup {Kind(id, class, TRUE, FALSE, "none", "none") :
        id \in {Unnamed, "x"}, class \in {Unnamed, "covered", "other"}}
    \cup {Kind("x", "other", FALSE, TRUE, "none", "none")}
=============================================================================
