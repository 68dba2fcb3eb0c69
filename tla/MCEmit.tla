------------------------------- MODULE MCEmit -------------------------------
(***************************************************************************)
(* The emitter alone, for the runs about races and about the digest of the *)
(* specification; their configurations name the input paths.               *)
(***************************************************************************)
EXTENDS AELEmit

\* A failure or a write; two writes.
MCRaceDisturbances == {<<0, 0>>, <<0, 1>>, <<1, 0>>}
MCSpecDisturbances == (0..2) \X {0}
=============================================================================
