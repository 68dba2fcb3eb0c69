------------------------------ MODULE MCChain ------------------------------
(***************************************************************************)
(* Two recorders of one run, one of which records a second run: AEL-0 to   *)
(* AEL-2 under any one edit of records or manifest, with a recorder's key  *)
(* or a spare published key leaked.  Records can be spliced from another   *)
(* recorder and from another run, and a log relabelled with another run or *)
(* with none.                                                              *)
(***************************************************************************)
EXTENDS AELRun

MCLogs == << <<"r1", "x">>, <<"r2", "x">>, <<"r1", "y">> >>
MCRecorderKey == [r \in {"r1", "r2"} |-> IF r = "r1" THEN "key1" ELSE "key2"]
MCEvents == {[class |-> "net", id |-> "e1", dir |-> "out"]}
MCNonceOf == [run \in {"x", "y", NoRun} |-> NoNonce]
MCPlans == {<<"open", "heartbeat", "activity", "close">>,
            <<"open", "heartbeat", "heartbeat", "close">>}
MCEditKinds == <<{"records", "forgery", "manifest"}>>
=============================================================================
