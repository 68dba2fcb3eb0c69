----------------------------- MODULE MCExternal -----------------------------
(***************************************************************************)
(* Two recorders, both of whose keys may leak, an external log and a       *)
(* counterparty with sessions of this run and of another: AEL-3 and AEL-4. *)
(* The second edit signs a new head over whatever the first one made.      *)
(***************************************************************************)
EXTENDS AELRun

MCLogs == << <<"r1", "x">>, <<"r2", "x">> >>
MCRecorderKey == [r \in {"r1", "r2"} |-> IF r = "r1" THEN "key1" ELSE "key2"]
MCEvents == {[class |-> "net", id |-> "e1", dir |-> "out"]}
MCNonceOf == [run \in {"x"} |-> "n1"]
MCSessions == {<<"x", "n1">>, <<"x", "n2">>, <<"y", "n1">>}
MCPlans == {<<"open", "heartbeat", "activity", "close">>}
MCEditKinds == <<{"forgery", "anchors", "statements", "keys"}, {"heads"}>>
=============================================================================
