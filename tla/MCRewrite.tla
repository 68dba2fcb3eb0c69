---------------------------- MODULE MCRewrite -------------------------------
(***************************************************************************)
(* One recorder, one run, two edits, the recorder's key leaked or not:     *)
(* AEL-0 and AEL-1.                                                        *)
(***************************************************************************)
EXTENDS AELRun

MCLogs == << <<"r1", "x">> >>
MCRecorderKey == [r \in {"r1"} |-> "key1"]
MCEvents == {[class |-> "net", id |-> "e1", dir |-> "out"]}
MCNonceOf == [run \in {"x"} |-> NoNonce]
MCPlans == {plan \in [1..4 -> {"open", "activity", "heartbeat", "close"}] :
              Cardinality({i \in 1..4 : plan[i] = "activity"}) <= 1}
MCEditKinds == <<{"records", "forgery"}, {"records", "forgery"}>>
=============================================================================
