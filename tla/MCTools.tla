------------------------------- MODULE MCTools -------------------------------
(***************************************************************************)
(* The parts around the evaluation in one run: the runner of a subprocess, *)
(* key generation, the paths of an emission, the corpus report as evidence,*)
(* and what the signature on a package covers.  They share no state: in    *)
(* each behaviour one of them runs and the others have finished.           *)
(*                                                                         *)
(* A limit of one and sizes up to three tell apart empty, full, too large, *)
(* and too large after the last look.  Two generators of one role have     *)
(* trust roots in one directory, so that they share the private name.      *)
(***************************************************************************)
EXTENDS AELSubprocess, AELKeygen, AELBinding, AELPaths, AELCorpus

MCRootOf == [g \in Generators |-> IF g = "a" THEN "trust" ELSE "trust2"]

\* Returned: a command that wrote nothing.
SubprocessDone ==
    /\ pc = "returned" /\ child = "exited" /\ group = FALSE /\ escaped = FALSE
    /\ size = 0 /\ captured = 0 /\ expired = TRUE /\ ctx = "deadline"
    /\ over = FALSE /\ done = TRUE /\ dog = "ended" /\ result = "timeout"

\* A key is published, and no generator is left.
KeygenDone ==
    LET made == CHOOSE k \in Keys : RootOf[k[1]] \in Roots
    IN  /\ at = [g \in Generators |-> "gone"]
        /\ key = [g \in Generators |-> made]
        /\ half = [g \in Generators |-> "public"]
        /\ temp = [g \in Generators |-> << >>]
        /\ root = [r \in Roots |-> "directory"] /\ roleDir = root
        /\ files = (PrivatePath :> <<"private", made>>)
                     @@ (PublicPath(RootOf[made[1]], made) :> <<"public", made>>)
        /\ faults = 0

PackageDone ==
    tree = << >> /\ manifest = [files |-> <<"packed">>, runs |-> << >>] /\ edits = MaxEdits
PathsDone == fs = << >> /\ options = <<[out |-> << >>, input |-> << >>]>>
CorpusDone ==
    /\ cases = << >> /\ asked = "none" /\ entries = << >>
    /\ stdout = Silent /\ status = 0 /\ packaged = Unpackaged

ToolsInit ==
    \/ Init /\ KeygenDone /\ PackageDone /\ PathsDone /\ CorpusDone
    \/ SubprocessDone /\ KeygenInit /\ PackageDone /\ PathsDone /\ CorpusDone
    \/ SubprocessDone /\ KeygenDone /\ PackageInit /\ PathsDone /\ CorpusDone
    \/ SubprocessDone /\ KeygenDone /\ PackageDone /\ PathsInit /\ CorpusDone
    \/ SubprocessDone /\ KeygenDone /\ PackageDone /\ PathsDone /\ CorpusInit

ToolsNext ==
    \/ Next /\ UNCHANGED <<keygenVars, packageVars, pathVars, corpusVars>>
    \/ KeygenNext /\ UNCHANGED <<vars, packageVars, pathVars, corpusVars>>
    \/ PackageNext /\ UNCHANGED <<vars, keygenVars, pathVars, corpusVars>>
    \/ PathsNext /\ UNCHANGED <<vars, keygenVars, packageVars, corpusVars>>
    \/ CorpusNext /\ UNCHANGED <<vars, keygenVars, packageVars, pathVars>>

ToolsSpec ==
    /\ ToolsInit
    /\ [][ToolsNext]_<<vars, keygenVars, packageVars, pathVars, corpusVars>>
    /\ Fairness /\ KeygenFairness
=============================================================================
