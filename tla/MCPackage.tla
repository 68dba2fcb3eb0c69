------------------------------ MODULE MCPackage ------------------------------
(***************************************************************************)
(* Instances of AELPackage for TLC.  The manifests are a good verification *)
(* record and what differs from it in one respect.                         *)
(***************************************************************************)
EXTENDS AELPackage

MCAuthorityKey == [a \in {"A"} |-> "akey"]

Good == [kind |-> "verification-record", form |-> "valid", id |-> "r1", record |-> "r1",
         producer |-> "producer", operator |-> "operator", verifier |-> "verifier",
         operatorKey |-> "okey", verifierKey |-> "vkey",
         authority |-> "A", statusKey |-> "akey", carried |-> {"vkey", "okey", "akey"},
         bound |-> TRUE, agreed |-> TRUE, exit |-> 0, conformance |-> 0,
         expires |-> NoTime]

\* A record that does not expire and one that does, one that names the
\* operator's key as the verifier's, and an operator's own evaluation package.
MCManifests ==
    {Good,
     [Good EXCEPT !.expires = 2],
     [Good EXCEPT !.verifierKey = "okey"],
     [Good EXCEPT !.kind = "evaluation-package"]}

Trust(operators, verifiers, status) ==
    [operators |-> operators, verifiers |-> verifiers, status |-> status]

\* Roles kept apart, and an operator who is trusted as a verifier too.
MCTrusts ==
    {Trust({"okey"}, {"vkey"}, {"akey"}), Trust({"okey"}, {"vkey", "okey"}, {"akey"})}
=============================================================================
