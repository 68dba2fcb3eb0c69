----------------------------- MODULE AELConsumer -----------------------------
(***************************************************************************)
(* A consumer validates the published package (ValidatePackage in checker/ *)
(* internal/ael/package.go) while a process the emitter's conformance      *)
(* command left behind may still write into it.  ValidatePackage copies    *)
(* the directory file by file and reads nothing but the copy afterwards:   *)
(* the files are digested first, and the checker's output is read again to *)
(* compare the grades with it.                                             *)
(***************************************************************************)
EXTENDS AELEmit

VARIABLE reader     \* [at, todo, tree, manifest, report]: what ValidatePackage
                    \* does next, the paths it has yet to copy, its copy of the
                    \* files and of manifest.json, and the report it goes by

consumerVars == <<vars, reader>>

ManifestPath == "manifest.json"
Unread == <<"unread">>

ConsumerInit ==
    /\ Init
    /\ reader = [at |-> "idle", todo |-> {}, tree |-> EmptyTree, manifest |-> << >>,
                 report |-> Unread]

\* os.MkdirTemp, and the start of the walk; also when an answer was not enough.
OpenPackage ==
    /\ reader.at = "idle" /\ out \in Emitters
    /\ reader' = [reader EXCEPT !.at = "copy", !.todo = Paths \cup {ManifestPath}]
    /\ UNCHANGED vars

\* snapshotPackageDir, file by file.  A file that vanishes between the listing
\* and the read is an error in the code, which then accepts nothing.
SnapshotFile(p) ==
    /\ reader.at = "copy" /\ p \in reader.todo
    /\ reader' = [reader EXCEPT
           !.todo = @ \ {p},
           !.at = IF reader.todo = {p} THEN "digest" ELSE @,
           !.tree = IF p = ManifestPath THEN @ ELSE CopyPath(stage[out], @, p),
           !.manifest = IF p = ManifestPath THEN manifest[out] ELSE @]
    /\ UNCHANGED vars

\* Mutant: there is no copy, every read is of the package itself.
ExaminedLive == stage[out]

\* The directory handed to validatePackageDir.
Examined == reader.tree

\* verifyPackageSignature and validatePackageBlobs.
DigestFiles ==
    /\ reader.at = "digest"
    /\ LET valid == /\ signed[out] # << >> /\ reader.manifest = signed[out]
                    /\ signed[out][1].files = Examined
       IN  reader' = [reader EXCEPT !.at = IF valid THEN "report" ELSE "refused"]
    /\ UNCHANGED vars

\* validatePackageGradesAgainstMachineOutput reads the report anew.
ReadReport ==
    /\ reader.at = "report"
    /\ reader' = IF "output" \in DOMAIN Examined
                 THEN [reader EXCEPT !.at = "accepted", !.report = Examined["output"]]
                 ELSE [reader EXCEPT !.at = "refused"]
    /\ UNCHANGED vars

Validate ==
    \/ OpenPackage
    \/ \E p \in Paths \cup {ManifestPath} : SnapshotFile(p)
    \/ DigestFiles
    \/ ReadReport

ConsumerNext == (Next /\ UNCHANGED reader) \/ Validate

ConsumerSpec == ConsumerInit /\ [][ConsumerNext]_consumerVars

----------------------------------------------------------------------------
(***************************************************************************)
(* What the consumer accepts is of one piece: the report it goes by is the *)
(* checker's on exactly the input files it holds, which are those the      *)
(* emitter signed and evaluated, although the package may have changed     *)
(* between any two of its reads.  (ValidatePackage, package.go 207-214.)   *)
(***************************************************************************)
AcceptedIsEvaluated ==
    reader.at = "accepted" =>
        /\ reader.report = Report(Part(reader.tree, Evaluated))
        /\ Part(reader.tree, Evaluated) = replica[out]
        /\ Part(reader.tree, Evaluated \cup Others) = inputs[out]
=============================================================================
