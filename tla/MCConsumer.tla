----------------------------- MODULE MCConsumer -----------------------------
(***************************************************************************)
(* Instances of AELConsumer for TLC: an artifact file, the checker, a file *)
(* that may be added to the artifact, and the specification.               *)
(***************************************************************************)
EXTENDS AELConsumer

MCEvaluated == {"artifact", "checker", "added"}
MCOthers == {SpecPath}
MCDisturbances == (0..2) \X (0..1)
MCCopied == {"artifact", "checker", SpecPath}
=============================================================================
