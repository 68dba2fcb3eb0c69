------------------------------ MODULE AELEmit ------------------------------
(***************************************************************************)
(* The package emitter (checker/internal/ael/emit.go).  An emitter copies  *)
(* its inputs into a private staging directory, indexes them, runs the     *)
(* conformance command, runs the checker on a replica of the inputs, writes*)
(* the results into the staging directory, indexes it again, compares,     *)
(* signs a manifest of what it indexed and renames the directory to its    *)
(* output path.                                                            *)
(*                                                                         *)
(* What makes it hard: a process the conformance command left behind may   *)
(* write into the staging directory between any two of these steps, before *)
(* and after the rename; several emitters may share an output path; every  *)
(* step may fail and the emitter may die; failed emits are retried.        *)
(*                                                                         *)
(* A directory tree is a function from the paths present to contents, and  *)
(* a digest is the content it was made from.                               *)
(***************************************************************************)
EXTENDS Integers, FiniteSets, Functions

CONSTANTS
    Emitters,       \* the emitters that share one output path
    Evaluated,      \* paths below the artifact, its keys, or the checker
    Others,         \* other input paths: specification, package keys
    Copied,         \* the input paths that are there when copying is done
    Disturbances    \* bound on what goes wrong: the pairs <<writes, faults>>
                    \* of writes by left-behind processes and of failed steps
                    \* and crashes that may happen in one behaviour

\* The paths the emitter fills in after the first index (emitConformancePath,
\* emitMachineOutput, emitStderrPath), and the specification.
Results == {"conformance", "output", "stderr"}
SpecPath == "specification"
Paths == Evaluated \cup Others \cup Results

ASSUME PathsAssumption ==
    /\ Evaluated \cap Others = {} /\ (Evaluated \cup Others) \cap Results = {}
    /\ SpecPath \in Others \cap Copied
    /\ Copied \subseteq Evaluated \cup Others
ASSUME BoundsAssumption == Disturbances \subseteq Nat \X Nat
ASSUME EmittersAssumption == Emitters \cap {"absent", "empty"} = {}

VARIABLES
    pc,         \* what each emitter does next
    stage,      \* its staging directory, which after the rename is its package
    inputs,     \* the index of the copied inputs
    todo,       \* paths the current copy or walk has yet to visit
    replica,    \* the tree the checker is run on
    captured,   \* what the commands printed: a function on Results
    specDigest, \* the digest of the specification, read on its own
    files,      \* the index that is compared and signed
    manifest,   \* << >> or <<manifest>>: manifest.json in the staging directory
    signed,     \* << >> or <<manifest>>: what the signature file is over
    out,        \* the output path: "absent", "empty", or whose package is there
    touched,    \* emitters whose directory was written to by somebody else
    writes, faults

vars == <<pc, stage, inputs, todo, replica, captured, specDigest, files,
          manifest, signed, out, touched, writes, faults>>
work == <<inputs, todo, replica, captured, specDigest, files, manifest, signed>>

EmptyTree == [p \in {} |-> <<"none">>]
Original == <<"original">>
Written == <<"written">>

\* What the commands print.  The checker's streams depend on what it read.
Conformance == <<"conformance">>
Report(tree) == <<"report", tree>>
Stderr(tree) == <<"stderr", tree>>

\* A tree with one more file, and with one path (not) copied from another tree.
With(tree, p, content) ==
    [q \in DOMAIN tree \cup {p} |-> IF q = p THEN content ELSE tree[q]]
Without(tree, p) == Restrict(tree, DOMAIN tree \ {p})
CopyPath(from, to, p) == IF p \in DOMAIN from THEN With(to, p, from[p]) ELSE to
Part(tree, paths) == Restrict(tree, DOMAIN tree \cap paths)

----------------------------------------------------------------------------
Init ==
    /\ pc = [e \in Emitters |-> "idle"]
    /\ stage = [e \in Emitters |-> EmptyTree]
    /\ inputs = [e \in Emitters |-> EmptyTree]
    /\ todo = [e \in Emitters |-> {}]
    /\ replica = [e \in Emitters |-> EmptyTree]
    /\ captured = [e \in Emitters |-> EmptyTree]
    /\ specDigest = [e \in Emitters |-> Original]
    /\ files = [e \in Emitters |-> EmptyTree]
    /\ manifest = [e \in Emitters |-> << >>]
    /\ signed = [e \in Emitters |-> << >>]
    /\ out \in {"absent", "empty"}
    /\ touched = {}
    /\ writes = 0
    /\ faults = 0

Active == {"copy", "conformance", "replicate", "evaluate", "spec", "walk", "bind",
           "manifest", "sign", "lstat", "readdir", "clear", "rename"}

Go(e, from, to) == pc[e] = from /\ pc' = [pc EXCEPT ![e] = to]

\* Mutant: a failed emit clears the output path rather than its own directory.
FailClearingOut(e) ==
    /\ pc' = [pc EXCEPT ![e] = "failed"]
    /\ stage' = IF out \in Emitters THEN [stage EXCEPT ![out] = EmptyTree]
                ELSE [stage EXCEPT ![e] = EmptyTree]
    /\ UNCHANGED <<work, out, touched, writes, faults>>

\* An error return: the deferred cleanup removes the staging directory.
Fail(e) ==
    /\ pc' = [pc EXCEPT ![e] = "failed"]
    /\ stage' = [stage EXCEPT ![e] = EmptyTree]
    /\ UNCHANGED <<work, out, touched, writes, faults>>

(***************************************************************************)
(* createEmitStagingDir.                                                   *)
(***************************************************************************)
CreateStaging(e) ==
    \/ /\ Go(e, "idle", "copy")
       /\ out \notin Emitters
       /\ UNCHANGED <<stage, work, out, touched, writes, faults>>
    \/ /\ Go(e, "idle", "failed")
       /\ out \in Emitters
       /\ UNCHANGED <<stage, work, out, touched, writes, faults>>

\* The copies and the first packageFileBlobs.  No subprocess has run, so nobody
\* else writes here yet.
CopyInputs(e) ==
    /\ Go(e, "copy", "conformance")
    /\ stage' = [stage EXCEPT ![e] = [p \in Copied |-> Original]]
    /\ inputs' = [inputs EXCEPT ![e] = [p \in Copied |-> Original]]
    /\ UNCHANGED <<todo, replica, captured, specDigest, files, manifest, signed,
                   out, touched, writes, faults>>

\* runConformance, and the corpus digest read after it.
RunConformance(e) ==
    /\ Go(e, "conformance", "replicate")
    /\ stage' = [stage EXCEPT ![e] = With(@, "conformance", Conformance)]
    /\ captured' = [captured EXCEPT ![e] = With(EmptyTree, "conformance", Conformance)]
    /\ replica' = [replica EXCEPT ![e] = EmptyTree]
    /\ todo' = [todo EXCEPT ![e] = Evaluated]
    /\ UNCHANGED <<inputs, specDigest, files, manifest, signed,
                   out, touched, writes, faults>>

\* replicateForEvaluation copies file by file, in between others may write.
Replicate(e, p) ==
    /\ pc[e] = "replicate" /\ p \in todo[e]
    /\ replica' = [replica EXCEPT ![e] = CopyPath(stage[e], @, p)]
    /\ todo' = [todo EXCEPT ![e] = @ \ {p}]
    /\ pc' = [pc EXCEPT ![e] = IF todo[e] = {p} THEN "evaluate" ELSE @]
    /\ UNCHANGED <<stage, inputs, captured, specDigest, files, manifest, signed,
                   out, touched, writes, faults>>

\* runChecker on the replica, and writeEvaluationResults.
Evaluate(e) ==
    /\ Go(e, "evaluate", "spec")
    /\ captured' = [captured EXCEPT ![e] =
           With(With(@, "output", Report(replica[e])), "stderr", Stderr(replica[e]))]
    /\ stage' = [stage EXCEPT ![e] =
           With(With(@, "output", Report(replica[e])), "stderr", Stderr(replica[e]))]
    /\ UNCHANGED <<inputs, todo, replica, specDigest, files, manifest, signed,
                   out, touched, writes, faults>>

DigestSpec(e) ==
    \/ /\ Go(e, "spec", "walk")
       /\ SpecPath \in DOMAIN stage[e]
       /\ specDigest' = [specDigest EXCEPT ![e] = stage[e][SpecPath]]
       /\ files' = [files EXCEPT ![e] = EmptyTree]
       /\ todo' = [todo EXCEPT ![e] = Paths]
       /\ UNCHANGED <<stage, inputs, replica, captured, manifest, signed,
                      out, touched, writes, faults>>
    \/ /\ pc[e] = "spec" /\ SpecPath \notin DOMAIN stage[e]
       /\ Fail(e)

(***************************************************************************)
(* packageFileBlobs, file by file.  A path that is absent when its turn    *)
(* comes is not indexed; the code reports an error instead when the file   *)
(* was listed and vanished before it was read, and then publishes nothing. *)
(***************************************************************************)
IndexFile(e, p) ==
    /\ pc[e] = "walk" /\ p \in todo[e]
    /\ files' = [files EXCEPT ![e] = CopyPath(stage[e], @, p)]
    /\ todo' = [todo EXCEPT ![e] = @ \ {p}]
    /\ pc' = [pc EXCEPT ![e] = IF todo[e] = {p} THEN "bind" ELSE @]
    /\ UNCHANGED <<stage, inputs, replica, captured, specDigest, manifest, signed,
                   out, touched, writes, faults>>

----------------------------------------------------------------------------
(***************************************************************************)
(* The comparisons before the signature.                                   *)
(***************************************************************************)

\* Mutant: the replica is not compared; the first index is thought to be enough.
assertEvaluatedInputsSkipped(e) == TRUE

assertPackageInputBlobsMatch(e) == Part(files[e], Evaluated \cup Others) = inputs[e]
assertCapturedPackageBlob(e) == Part(files[e], Results) = captured[e]
assertEvaluatedInputsMatch(e) == Part(files[e], Evaluated) = replica[e]

BindInputs(e) ==
    LET bound == /\ assertPackageInputBlobsMatch(e)
                 /\ assertCapturedPackageBlob(e)
                 /\ assertEvaluatedInputsMatch(e)
    IN  \/ /\ Go(e, "bind", "manifest") /\ bound
           /\ UNCHANGED <<stage, work, out, touched, writes, faults>>
        \/ /\ pc[e] = "bind" /\ ~bound
           /\ Fail(e)

\* writeSignedManifest: the file is written first, the signature is made over
\* the bytes in memory.
TheManifest(e) == [files |-> files[e], spec |-> specDigest[e]]

WriteManifest(e) ==
    /\ Go(e, "manifest", "sign")
    /\ manifest' = [manifest EXCEPT ![e] = <<TheManifest(e)>>]
    /\ UNCHANGED <<stage, inputs, todo, replica, captured, specDigest, files, signed,
                   out, touched, writes, faults>>

WriteSignature(e) ==
    /\ Go(e, "sign", "lstat")
    /\ signed' = [signed EXCEPT ![e] = <<TheManifest(e)>>]
    /\ UNCHANGED <<stage, inputs, todo, replica, captured, specDigest, files, manifest,
                   out, touched, writes, faults>>

----------------------------------------------------------------------------
(***************************************************************************)
(* publishEmitPackage, one file system call per step.                      *)
(***************************************************************************)
LstatOut(e) ==
    /\ Go(e, "lstat", IF out = "absent" THEN "rename" ELSE "readdir")
    /\ UNCHANGED <<stage, work, out, touched, writes, faults>>

ReadOut(e) ==
    \/ /\ Go(e, "readdir", "clear")
       /\ out = "empty"
       /\ UNCHANGED <<stage, work, out, touched, writes, faults>>
    \/ /\ pc[e] = "readdir" /\ out # "empty"
       /\ Fail(e)

\* Mutant: a directory that is already there is never cleared.
ClearOutRefused(e) == pc[e] = "clear" /\ Fail(e)

\* os.Remove refuses a directory that is gone or no longer empty.
ClearOut(e) ==
    \/ /\ Go(e, "clear", "rename")
       /\ out = "empty"
       /\ out' = "absent"
       /\ UNCHANGED <<stage, work, touched, writes, faults>>
    \/ /\ pc[e] = "clear" /\ out # "empty"
       /\ Fail(e)

\* Mutant: a rename that replaces whatever package is there.
RenameStageOver(e) ==
    /\ Go(e, "rename", "published")
    /\ out' = e
    /\ UNCHANGED <<stage, work, touched, writes, faults>>

\* os.Rename refuses an existing directory.
RenameStage(e) ==
    \/ /\ Go(e, "rename", "published")
       /\ out = "absent"
       /\ out' = e
       /\ UNCHANGED <<stage, work, touched, writes, faults>>
    \/ /\ pc[e] = "rename" /\ out # "absent"
       /\ Fail(e)

----------------------------------------------------------------------------
(***************************************************************************)
(* The environment.  A process that the conformance command left behind    *)
(* writes, removes or adds a file, or rewrites manifest.json to suit the   *)
(* files; it cannot sign.  It knows this staging directory and not the     *)
(* replica.                                                                *)
(***************************************************************************)
Reachable(e) == pc[e] \in (Active \ {"copy", "conformance"}) \cup {"published"}

Disturb(e) ==
    /\ Reachable(e) /\ <<writes + 1, faults>> \in Disturbances
    /\ writes' = writes + 1
    /\ touched' = touched \cup {e}
    /\ UNCHANGED <<pc, inputs, todo, replica, captured, specDigest, files, signed,
                   out, faults>>

WriteFile(e, p, content) ==
    /\ Disturb(e)
    /\ stage' = [stage EXCEPT ![e] = With(@, p, content)]
    /\ UNCHANGED manifest

RemoveFile(e, p) ==
    /\ Disturb(e) /\ p \in DOMAIN stage[e]
    /\ stage' = [stage EXCEPT ![e] = Without(@, p)]
    /\ UNCHANGED manifest

RewriteManifest(e) ==
    /\ Disturb(e) /\ manifest[e] # << >>
    /\ manifest' = [manifest EXCEPT ![e] = <<[files |-> stage[e], spec |-> Written]>>]
    /\ UNCHANGED stage

\* A failed system call, a command that ran past a limit, printed no result, no
\* usable report or no matching run: every such error return is a Fail.
StepFails(e) ==
    /\ pc[e] \in Active /\ <<writes, faults + 1>> \in Disturbances
    /\ faults' = faults + 1
    /\ pc' = [pc EXCEPT ![e] = "failed"]
    /\ stage' = [stage EXCEPT ![e] = EmptyTree]
    /\ UNCHANGED <<work, out, touched, writes>>

\* The emitter dies: nothing is cleaned up.
Crash(e) ==
    /\ pc[e] \in Active /\ <<writes, faults + 1>> \in Disturbances
    /\ faults' = faults + 1
    /\ pc' = [pc EXCEPT ![e] = "crashed"]
    /\ UNCHANGED <<stage, work, out, touched, writes>>

\* The emit is run again, with a staging directory of its own.
Retry(e) ==
    /\ pc[e] \in {"failed", "crashed"}
    /\ pc' = [pc EXCEPT ![e] = "idle"]
    /\ stage' = [stage EXCEPT ![e] = EmptyTree]
    /\ manifest' = [manifest EXCEPT ![e] = << >>]
    /\ signed' = [signed EXCEPT ![e] = << >>]
    /\ touched' = touched \ {e}
    /\ UNCHANGED <<inputs, todo, replica, captured, specDigest, files, out, writes, faults>>

----------------------------------------------------------------------------
Step(e) ==
    \/ CreateStaging(e) \/ CopyInputs(e) \/ RunConformance(e)
    \/ \E p \in Paths : Replicate(e, p)
    \/ Evaluate(e) \/ DigestSpec(e)
    \/ \E p \in Paths : IndexFile(e, p)
    \/ BindInputs(e) \/ WriteManifest(e) \/ WriteSignature(e)
    \/ LstatOut(e) \/ ReadOut(e) \/ ClearOut(e) \/ RenameStage(e)

Interfere(e) ==
    \/ \E p \in Paths, content \in {Original, Written} : WriteFile(e, p, content)
    \/ \E p \in Paths : RemoveFile(e, p)
    \/ RewriteManifest(e)

Next == \E e \in Emitters :
    Step(e) \/ Retry(e) \/ Interfere(e) \/ StepFails(e) \/ Crash(e)

(***************************************************************************)
(* An emitter that can go on goes on: its code is sequential and its       *)
(* subprocesses run under a deadline.  The operator repeats a failed emit. *)
(***************************************************************************)
Fairness == \A e \in Emitters : WF_vars(Step(e)) /\ WF_vars(Retry(e))

Spec == Init /\ [][Next]_vars
FairSpec == Spec /\ Fairness

----------------------------------------------------------------------------
(***************************************************************************)
(* validatePackageBlobs and the signature check, as the reader of the      *)
(* package applies them: the manifest is the signed one and the directory  *)
(* holds its files, all of them and no others.                             *)
(***************************************************************************)
Validates(e) ==
    /\ signed[e] # << >> /\ manifest[e] = signed[e]
    /\ manifest[e][1].files = stage[e]

(***************************************************************************)
(* A package that validates holds exactly the inputs the checker was run   *)
(* on, its report on them, and every other input as it was first copied,   *)
(* whenever and whatever a left-behind process wrote.  (The comparisons of *)
(* EmitEvaluationPackage, emit.go 257-286, and the rejection it counts on.)*)
(***************************************************************************)
SignedIsEvaluated ==
    \A e \in Emitters : Validates(e) =>
        /\ Part(stage[e], Evaluated) = replica[e]
        /\ Part(stage[e], Evaluated \cup Others) = inputs[e]
        /\ stage[e]["output"] = Report(Part(stage[e], Evaluated))
        /\ stage[e]["stderr"] = Stderr(Part(stage[e], Evaluated))

(***************************************************************************)
(* A consumer finds no package or a whole one: what is at the output path  *)
(* validates unless somebody wrote into it, whatever failed or raced.      *)
(* (The comment of publishEmitPackage, emit.go 1109-1111.)                 *)
(***************************************************************************)
PublishedWhole ==
    out \in Emitters /\ out \notin touched => Validates(out)

(***************************************************************************)
(* Once the faults are over, some emitter publishes: neither a race for    *)
(* the output path nor what a failed or killed emit left behind blocks the *)
(* retries for ever.  (The comment on the staging directory, emit.go       *)
(* 147-149.)                                                               *)
(***************************************************************************)
EventuallyPublished == <>(out \in Emitters)

(***************************************************************************)
(* The specification digest in the signed manifest is that of the          *)
(* specification in the package, which the comment at emit.go 250-251      *)
(* says of it.                                                             *)
(***************************************************************************)
SpecBound ==
    out \in Emitters /\ Validates(out) => manifest[out][1].spec = stage[out][SpecPath]

(***************************************************************************)
(* Together the emitters implement one atomic, final publication of an     *)
(* honest claim.                                                           *)
(***************************************************************************)
Claim(e) == [by |-> e, inputs |-> Part(signed[e][1].files, Evaluated),
             report |-> signed[e][1].files["output"]]

Replicas == UNION {[D -> {Original, Written}] : D \in SUBSET Evaluated}

store == IF out \in Emitters THEN <<Claim(out)>> ELSE << >>

Abstract == INSTANCE AELPublish WITH Publishers <- Emitters, Inputs <- Replicas

Published == Abstract!Spec
=============================================================================
