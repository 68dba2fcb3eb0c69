---------------------------- MODULE AELEmitProofs ----------------------------
(***************************************************************************)
(* Proofs about the package emitter for any number of emitters, any input  *)
(* paths, and any number of writes, faults and retries.                    *)
(*                                                                         *)
(* Between the comparison and the signature others may write, so nothing   *)
(* can be said of the staging directory then.  The invariant is about what *)
(* the emitter holds in memory: from the comparison on, its index agrees   *)
(* with the replica, the first index and the captured output, and what it  *)
(* signs is that index.  A package that validates is the signed index.     *)
(***************************************************************************)
EXTENDS AELEmit, TLAPS

Domains ==
    /\ DOMAIN pc = Emitters /\ DOMAIN stage = Emitters /\ DOMAIN inputs = Emitters
    /\ DOMAIN todo = Emitters /\ DOMAIN replica = Emitters /\ DOMAIN captured = Emitters
    /\ DOMAIN specDigest = Emitters /\ DOMAIN files = Emitters
    /\ DOMAIN manifest = Emitters /\ DOMAIN signed = Emitters

\* Input files hold contents the checker can be run on.
CleanTree(tree) == \A p \in DOMAIN tree \cap Evaluated : tree[p] \in {Original, Written}

\* The checker's streams are those of a run on the replica.
CapturedOK(e) ==
    /\ {"output", "stderr"} \subseteq DOMAIN captured[e]
    /\ captured[e]["output"] = Report(replica[e])
    /\ captured[e]["stderr"] = Stderr(replica[e])

\* What BindInputs established.
Bound(e) ==
    /\ assertPackageInputBlobsMatch(e)
    /\ assertCapturedPackageBlob(e)
    /\ assertEvaluatedInputsMatch(e)
    /\ CapturedOK(e)

Publishing == {"lstat", "readdir", "clear", "rename", "published"}

EmitterOK(e) ==
    /\ CleanTree(stage[e]) /\ replica[e] \in Replicas
    /\ pc[e] \in {"replicate", "evaluate"} => todo[e] \subseteq Evaluated
    /\ pc[e] \in {"spec", "walk", "bind"} => CapturedOK(e)
    /\ pc[e] \in {"manifest", "sign"} => Bound(e)
    /\ pc[e] \in Publishing => signed[e] # << >>
    /\ signed[e] # << >> =>
          /\ pc[e] \in Publishing \cup {"failed", "crashed"}
          /\ signed[e] = <<TheManifest(e)>> /\ Bound(e)

EmitInv ==
    /\ Domains
    /\ \A e \in Emitters : EmitterOK(e)
    /\ out \in {"absent", "empty"} \cup Emitters
    /\ out \in Emitters => pc[out] = "published"

----------------------------------------------------------------------------
(***************************************************************************)
(* Trees.                                                                  *)
(***************************************************************************)

\* A replica is a function on evaluated paths with clean contents.
LEMMA ReplicaIs ==
    ASSUME NEW D, D \subseteq Evaluated, NEW f \in [D -> {Original, Written}]
    PROVE  f \in Replicas
  BY DEF Replicas

LEMMA EmptyTreeOK == CleanTree(EmptyTree) /\ EmptyTree \in Replicas
  <1>1. CleanTree(EmptyTree)
    BY DEF CleanTree, EmptyTree
  <1>2. EmptyTree \in [{} -> {Original, Written}]
    BY DEF EmptyTree
  <1> QED BY <1>1, <1>2, ReplicaIs

\* Writing a clean content, or a path that is no input, keeps a tree clean.
LEMMA WithClean ==
    ASSUME NEW tree, CleanTree(tree), NEW p, NEW content,
           p \in Evaluated => content \in {Original, Written}
    PROVE  CleanTree(With(tree, p, content))
  BY DEF CleanTree, With

LEMMA WithoutClean ==
    ASSUME NEW tree, CleanTree(tree), NEW p
    PROVE  CleanTree(Without(tree, p))
  BY DEF CleanTree, Without, Restrict

\* replicateForEvaluation (emit.go 449-474) adds one clean file to the replica.
LEMMA CopyReplica ==
    ASSUME NEW from, CleanTree(from), NEW to \in Replicas, NEW p \in Evaluated
    PROVE  CopyPath(from, to, p) \in Replicas
  <1>1. PICK D \in SUBSET Evaluated : to \in [D -> {Original, Written}]
    BY DEF Replicas
  <1>2. CASE p \in DOMAIN from
    <2>1. from[p] \in {Original, Written}
      BY <1>2 DEF CleanTree
    <2>2. With(to, p, from[p]) \in [D \cup {p} -> {Original, Written}]
      BY <1>1, <2>1 DEF With
    <2> QED BY <1>2, <2>2, ReplicaIs DEF CopyPath
  <1>3. CASE p \notin DOMAIN from
    BY <1>3 DEF CopyPath
  <1> QED BY <1>2, <1>3

----------------------------------------------------------------------------
(***************************************************************************)
(* The invariant.                                                          *)
(***************************************************************************)

\* No emitter has begun (emit.go 130-145).
LEMMA EmitInit == Init => EmitInv
  BY EmptyTreeOK, EmittersAssumption
     DEF Init, EmitInv, Domains, EmitterOK, Publishing

\* Steps of one emitter leave what is said of the others alone.
LEMMA Elsewhere ==
    ASSUME NEW f \in Emitters, EmitterOK(f),
           pc'[f] = pc[f], stage'[f] = stage[f], inputs'[f] = inputs[f],
           todo'[f] = todo[f], replica'[f] = replica[f], captured'[f] = captured[f],
           specDigest'[f] = specDigest[f], files'[f] = files[f],
           signed'[f] = signed[f]
    PROVE  EmitterOK(f)'
  BY DEF EmitterOK, CapturedOK, Bound, TheManifest, assertPackageInputBlobsMatch,
         assertCapturedPackageBlob, assertEvaluatedInputsMatch

\* Every step keeps the invariant.  First, a step that only fails, dies or goes on
\* with the publication leaves what the emitter holds in memory alone.
LEMMA SameWork ==
    ASSUME NEW e \in Emitters, EmitterOK(e), UNCHANGED work, CleanTree(stage'[e]),
           \/ pc'[e] \in {"failed", "crashed"}
           \/ pc[e] \in Publishing /\ pc'[e] \in Publishing
    PROVE  EmitterOK(e)'
  BY DEF work, EmitterOK, CapturedOK, Bound, TheManifest, assertPackageInputBlobsMatch,
         assertCapturedPackageBlob, assertEvaluatedInputsMatch, Publishing

\* What is said of an emitter changes only with
\* its own steps and with writes into its directory.
LEMMA EmitStep == EmitInv /\ [Next]_vars => EmitInv'
  <1> USE EmittersAssumption, PathsAssumption
  <1>1. CASE UNCHANGED vars
    BY <1>1 DEF vars, EmitInv, Domains, EmitterOK, CapturedOK, Bound, TheManifest,
                assertPackageInputBlobsMatch, assertCapturedPackageBlob,
                assertEvaluatedInputsMatch, CleanTree
  <1>2. SUFFICES ASSUME EmitInv, NEW e \in Emitters,
                        Step(e) \/ Retry(e) \/ Interfere(e) \/ StepFails(e) \/ Crash(e)
                 PROVE  EmitInv'
    BY <1>1 DEF Next
  <1>3. CASE CreateStaging(e)
    <2>1. Domains'
      BY <1>2, <1>3 DEF EmitInv, Domains, CreateStaging, Go, work
    <2>4. EmitterOK(e)'
      BY <1>2, <1>3, EmptyTreeOK, <2>1 DEF EmitInv, Domains, CreateStaging, Go, work,
                 EmitterOK, CapturedOK, Bound, TheManifest, assertPackageInputBlobsMatch,
                 assertCapturedPackageBlob, assertEvaluatedInputsMatch, Publishing
    <2>5. ASSUME NEW f \in Emitters, f # e PROVE EmitterOK(f)'
      BY <1>2, <1>3, <2>5, Elsewhere DEF EmitInv, Domains, CreateStaging, Go, work
    <2>6. /\ out' \in {"absent", "empty"} \cup Emitters
          /\ out' \in Emitters => pc'[out'] = "published"
      BY <1>2, <1>3 DEF EmitInv, Domains, CreateStaging, Go, work
    <2> QED BY <2>1, <2>4, <2>5, <2>6 DEF EmitInv
  <1>4. CASE CopyInputs(e)
    <2>1. Domains'
      BY <1>2, <1>4 DEF EmitInv, Domains, CopyInputs, Go, work
    <2>2. CleanTree(stage'[e])
      BY <1>2, <1>4 DEF EmitInv, Domains, CopyInputs, Go, CleanTree
    <2>4. EmitterOK(e)'
      BY <1>2, <1>4, <2>2, <2>1 DEF EmitInv, Domains, CopyInputs, Go, work,
                 EmitterOK, CapturedOK, Bound, TheManifest, assertPackageInputBlobsMatch,
                 assertCapturedPackageBlob, assertEvaluatedInputsMatch, Publishing
    <2>5. ASSUME NEW f \in Emitters, f # e PROVE EmitterOK(f)'
      BY <1>2, <1>4, <2>5, Elsewhere DEF EmitInv, Domains, CopyInputs, Go, work
    <2>6. /\ out' \in {"absent", "empty"} \cup Emitters
          /\ out' \in Emitters => pc'[out'] = "published"
      BY <1>2, <1>4 DEF EmitInv, Domains, CopyInputs, Go, work
    <2> QED BY <2>1, <2>4, <2>5, <2>6 DEF EmitInv
  <1>5. CASE RunConformance(e)
    <2>1. Domains'
      BY <1>2, <1>5 DEF EmitInv, Domains, RunConformance, Go, work
    <2>2. CleanTree(stage'[e])
      BY <1>2, <1>5, WithClean DEF EmitInv, Domains, EmitterOK, RunConformance, Go, Results
    <2>4. EmitterOK(e)'
      BY <1>2, <1>5, <2>2, EmptyTreeOK, <2>1 DEF EmitInv, Domains, RunConformance, Go, work,
                 EmitterOK, CapturedOK, Bound, TheManifest, assertPackageInputBlobsMatch,
                 assertCapturedPackageBlob, assertEvaluatedInputsMatch, Publishing
    <2>5. ASSUME NEW f \in Emitters, f # e PROVE EmitterOK(f)'
      BY <1>2, <1>5, <2>5, Elsewhere DEF EmitInv, Domains, RunConformance, Go, work
    <2>6. /\ out' \in {"absent", "empty"} \cup Emitters
          /\ out' \in Emitters => pc'[out'] = "published"
      BY <1>2, <1>5 DEF EmitInv, Domains, RunConformance, Go, work
    <2> QED BY <2>1, <2>4, <2>5, <2>6 DEF EmitInv
  <1>6. CASE \E p \in Paths : Replicate(e, p)
    <2>1. Domains'
      BY <1>2, <1>6 DEF EmitInv, Domains, Replicate, work
    <2>2. replica'[e] \in Replicas
      BY <1>2, <1>6, CopyReplica DEF EmitInv, Domains, EmitterOK, Replicate
    <2>4. EmitterOK(e)'
      BY <1>2, <1>6, <2>2, <2>1 DEF EmitInv, Domains, Replicate, work,
                 EmitterOK, CapturedOK, Bound, TheManifest, assertPackageInputBlobsMatch,
                 assertCapturedPackageBlob, assertEvaluatedInputsMatch, Publishing
    <2>5. ASSUME NEW f \in Emitters, f # e PROVE EmitterOK(f)'
      BY <1>2, <1>6, <2>5, Elsewhere DEF EmitInv, Domains, Replicate, work
    <2>6. /\ out' \in {"absent", "empty"} \cup Emitters
          /\ out' \in Emitters => pc'[out'] = "published"
      BY <1>2, <1>6 DEF EmitInv, Domains, Replicate, work
    <2> QED BY <2>1, <2>4, <2>5, <2>6 DEF EmitInv
  <1>7. CASE Evaluate(e)
    <2>1. Domains'
      BY <1>2, <1>7 DEF EmitInv, Domains, Evaluate, Go, work
    <2>2. CleanTree(stage'[e])
      BY <1>2, <1>7, WithClean DEF EmitInv, Domains, EmitterOK, Evaluate, Go, Results
    <2>3. CapturedOK(e)'
      BY <1>2, <1>7 DEF EmitInv, Domains, Evaluate, Go, CapturedOK, With
    <2>4. EmitterOK(e)'
      BY <1>2, <1>7, <2>2, <2>3, <2>1 DEF EmitInv, Domains, Evaluate, Go, work,
                 EmitterOK, CapturedOK, Bound, TheManifest, assertPackageInputBlobsMatch,
                 assertCapturedPackageBlob, assertEvaluatedInputsMatch, Publishing
    <2>5. ASSUME NEW f \in Emitters, f # e PROVE EmitterOK(f)'
      BY <1>2, <1>7, <2>5, Elsewhere DEF EmitInv, Domains, Evaluate, Go, work
    <2>6. /\ out' \in {"absent", "empty"} \cup Emitters
          /\ out' \in Emitters => pc'[out'] = "published"
      BY <1>2, <1>7 DEF EmitInv, Domains, Evaluate, Go, work
    <2> QED BY <2>1, <2>4, <2>5, <2>6 DEF EmitInv
  <1>8. CASE DigestSpec(e)
    <2>1. Domains'
      BY <1>2, <1>8 DEF EmitInv, Domains, DigestSpec, Go, Fail, work
    <2>4. EmitterOK(e)'
      BY <1>2, <1>8, EmptyTreeOK, <2>1 DEF EmitInv, Domains, DigestSpec, Go, Fail, work,
                 EmitterOK, CapturedOK, Bound, TheManifest, assertPackageInputBlobsMatch,
                 assertCapturedPackageBlob, assertEvaluatedInputsMatch, Publishing
    <2>5. ASSUME NEW f \in Emitters, f # e PROVE EmitterOK(f)'
      BY <1>2, <1>8, <2>5, Elsewhere DEF EmitInv, Domains, DigestSpec, Go, Fail, work
    <2>6. /\ out' \in {"absent", "empty"} \cup Emitters
          /\ out' \in Emitters => pc'[out'] = "published"
      BY <1>2, <1>8 DEF EmitInv, Domains, DigestSpec, Go, Fail, work
    <2> QED BY <2>1, <2>4, <2>5, <2>6 DEF EmitInv
  <1>9. CASE \E p \in Paths : IndexFile(e, p)
    <2>1. Domains'
      BY <1>2, <1>9 DEF EmitInv, Domains, IndexFile, work
    <2>4. EmitterOK(e)'
      BY <1>2, <1>9, EmptyTreeOK, <2>1 DEF EmitInv, Domains, IndexFile, work,
                 EmitterOK, CapturedOK, Bound, TheManifest, assertPackageInputBlobsMatch,
                 assertCapturedPackageBlob, assertEvaluatedInputsMatch, Publishing
    <2>5. ASSUME NEW f \in Emitters, f # e PROVE EmitterOK(f)'
      BY <1>2, <1>9, <2>5, Elsewhere DEF EmitInv, Domains, IndexFile, work
    <2>6. /\ out' \in {"absent", "empty"} \cup Emitters
          /\ out' \in Emitters => pc'[out'] = "published"
      BY <1>2, <1>9 DEF EmitInv, Domains, IndexFile, work
    <2> QED BY <2>1, <2>4, <2>5, <2>6 DEF EmitInv
  <1>10. CASE BindInputs(e)
    <2>1. Domains'
      BY <1>2, <1>10 DEF EmitInv, Domains, BindInputs, Go, Fail, work
    <2>4. EmitterOK(e)'
      BY <1>2, <1>10, EmptyTreeOK, <2>1 DEF EmitInv, Domains, BindInputs, Go, Fail, work,
                 EmitterOK, CapturedOK, Bound, TheManifest, assertPackageInputBlobsMatch,
                 assertCapturedPackageBlob, assertEvaluatedInputsMatch, Publishing
    <2>5. ASSUME NEW f \in Emitters, f # e PROVE EmitterOK(f)'
      BY <1>2, <1>10, <2>5, Elsewhere DEF EmitInv, Domains, BindInputs, Go, Fail, work
    <2>6. /\ out' \in {"absent", "empty"} \cup Emitters
          /\ out' \in Emitters => pc'[out'] = "published"
      BY <1>2, <1>10 DEF EmitInv, Domains, BindInputs, Go, Fail, work
    <2> QED BY <2>1, <2>4, <2>5, <2>6 DEF EmitInv
  <1>11. CASE WriteManifest(e)
    <2>1. Domains'
      BY <1>2, <1>11 DEF EmitInv, Domains, WriteManifest, Go, work
    <2>4. EmitterOK(e)'
      BY <1>2, <1>11, EmptyTreeOK, <2>1 DEF EmitInv, Domains, WriteManifest, Go, work,
                 EmitterOK, CapturedOK, Bound, TheManifest, assertPackageInputBlobsMatch,
                 assertCapturedPackageBlob, assertEvaluatedInputsMatch, Publishing
    <2>5. ASSUME NEW f \in Emitters, f # e PROVE EmitterOK(f)'
      BY <1>2, <1>11, <2>5, Elsewhere DEF EmitInv, Domains, WriteManifest, Go, work
    <2>6. /\ out' \in {"absent", "empty"} \cup Emitters
          /\ out' \in Emitters => pc'[out'] = "published"
      BY <1>2, <1>11 DEF EmitInv, Domains, WriteManifest, Go, work
    <2> QED BY <2>1, <2>4, <2>5, <2>6 DEF EmitInv
  <1>12. CASE WriteSignature(e)
    <2>1. Domains'
      BY <1>2, <1>12 DEF EmitInv, Domains, WriteSignature, Go, work
    <2>4. EmitterOK(e)'
      BY <1>2, <1>12, EmptyTreeOK, <2>1 DEF EmitInv, Domains, WriteSignature, Go, work,
                 EmitterOK, CapturedOK, Bound, TheManifest, assertPackageInputBlobsMatch,
                 assertCapturedPackageBlob, assertEvaluatedInputsMatch, Publishing
    <2>5. ASSUME NEW f \in Emitters, f # e PROVE EmitterOK(f)'
      BY <1>2, <1>12, <2>5, Elsewhere DEF EmitInv, Domains, WriteSignature, Go, work
    <2>6. /\ out' \in {"absent", "empty"} \cup Emitters
          /\ out' \in Emitters => pc'[out'] = "published"
      BY <1>2, <1>12 DEF EmitInv, Domains, WriteSignature, Go, work
    <2> QED BY <2>1, <2>4, <2>5, <2>6 DEF EmitInv
  <1>13. CASE LstatOut(e)
    <2>1. Domains'
      BY <1>2, <1>13 DEF EmitInv, Domains, LstatOut, Go, work
    <2>4. EmitterOK(e)'
      BY <1>2, <1>13, EmptyTreeOK, SameWork DEF EmitInv, Domains, EmitterOK, LstatOut, Go, Publishing
    <2>5. ASSUME NEW f \in Emitters, f # e PROVE EmitterOK(f)'
      BY <1>2, <1>13, <2>5, Elsewhere DEF EmitInv, Domains, LstatOut, Go, work
    <2>6. /\ out' \in {"absent", "empty"} \cup Emitters
          /\ out' \in Emitters => pc'[out'] = "published"
      BY <1>2, <1>13 DEF EmitInv, Domains, LstatOut, Go, work
    <2> QED BY <2>1, <2>4, <2>5, <2>6 DEF EmitInv
  <1>14. CASE ReadOut(e)
    <2>1. Domains'
      BY <1>2, <1>14 DEF EmitInv, Domains, ReadOut, Go, Fail, work
    <2>4. EmitterOK(e)'
      BY <1>2, <1>14, EmptyTreeOK, SameWork DEF EmitInv, Domains, EmitterOK, ReadOut, Go, Fail, Publishing
    <2>5. ASSUME NEW f \in Emitters, f # e PROVE EmitterOK(f)'
      BY <1>2, <1>14, <2>5, Elsewhere DEF EmitInv, Domains, ReadOut, Go, Fail, work
    <2>6. /\ out' \in {"absent", "empty"} \cup Emitters
          /\ out' \in Emitters => pc'[out'] = "published"
      BY <1>2, <1>14 DEF EmitInv, Domains, ReadOut, Go, Fail, work
    <2> QED BY <2>1, <2>4, <2>5, <2>6 DEF EmitInv
  <1>15. CASE ClearOut(e)
    <2>1. Domains'
      BY <1>2, <1>15 DEF EmitInv, Domains, ClearOut, Go, Fail, work
    <2>4. EmitterOK(e)'
      BY <1>2, <1>15, EmptyTreeOK, SameWork DEF EmitInv, Domains, EmitterOK, ClearOut, Go, Fail, Publishing
    <2>5. ASSUME NEW f \in Emitters, f # e PROVE EmitterOK(f)'
      BY <1>2, <1>15, <2>5, Elsewhere DEF EmitInv, Domains, ClearOut, Go, Fail, work
    <2>6. /\ out' \in {"absent", "empty"} \cup Emitters
          /\ out' \in Emitters => pc'[out'] = "published"
      BY <1>2, <1>15 DEF EmitInv, Domains, ClearOut, Go, Fail, work
    <2> QED BY <2>1, <2>4, <2>5, <2>6 DEF EmitInv
  <1>16. CASE RenameStage(e)
    <2>1. Domains'
      BY <1>2, <1>16 DEF EmitInv, Domains, RenameStage, Go, Fail, work
    <2>4. EmitterOK(e)'
      BY <1>2, <1>16, EmptyTreeOK, SameWork DEF EmitInv, Domains, EmitterOK, RenameStage, Go, Fail, Publishing
    <2>5. ASSUME NEW f \in Emitters, f # e PROVE EmitterOK(f)'
      BY <1>2, <1>16, <2>5, Elsewhere DEF EmitInv, Domains, RenameStage, Go, Fail, work
    <2>6. /\ out' \in {"absent", "empty"} \cup Emitters
          /\ out' \in Emitters => pc'[out'] = "published"
      BY <1>2, <1>16 DEF EmitInv, Domains, RenameStage, Go, Fail, work
    <2> QED BY <2>1, <2>4, <2>5, <2>6 DEF EmitInv
  <1>17. CASE Retry(e)
    <2>1. Domains'
      BY <1>2, <1>17 DEF EmitInv, Domains, Retry, work
    <2>4. EmitterOK(e)'
      BY <1>2, <1>17, EmptyTreeOK, <2>1 DEF EmitInv, Domains, Retry, work,
                 EmitterOK, CapturedOK, Bound, TheManifest, assertPackageInputBlobsMatch,
                 assertCapturedPackageBlob, assertEvaluatedInputsMatch, Publishing
    <2>5. ASSUME NEW f \in Emitters, f # e PROVE EmitterOK(f)'
      BY <1>2, <1>17, <2>5, Elsewhere DEF EmitInv, Domains, Retry, work
    <2>6. /\ out' \in {"absent", "empty"} \cup Emitters
          /\ out' \in Emitters => pc'[out'] = "published"
      BY <1>2, <1>17 DEF EmitInv, Domains, Retry, work
    <2> QED BY <2>1, <2>4, <2>5, <2>6 DEF EmitInv
  <1>18. CASE Interfere(e)
    <2>1. Domains'
      BY <1>2, <1>18 DEF EmitInv, Domains, Interfere, WriteFile, RemoveFile, RewriteManifest, Disturb, work
    <2>2. CleanTree(stage'[e])
      BY <1>2, <1>18, WithClean, WithoutClean DEF EmitInv, Domains, EmitterOK, Interfere, WriteFile, RemoveFile, RewriteManifest, Disturb
    <2>3. UNCHANGED <<pc, inputs, todo, replica, captured, specDigest, files, signed, out>>
      BY <1>18 DEF Interfere, WriteFile, RemoveFile, RewriteManifest, Disturb
    <2>4. EmitterOK(e)'
      BY <1>2, <2>2, <2>3 DEF EmitInv, EmitterOK, CapturedOK, Bound, TheManifest, assertPackageInputBlobsMatch,
                 assertCapturedPackageBlob, assertEvaluatedInputsMatch, Publishing
    <2>5. ASSUME NEW f \in Emitters, f # e PROVE EmitterOK(f)'
      BY <1>2, <1>18, <2>5, Elsewhere DEF EmitInv, Domains, Interfere, WriteFile, RemoveFile, RewriteManifest, Disturb, work
    <2>6. /\ out' \in {"absent", "empty"} \cup Emitters
          /\ out' \in Emitters => pc'[out'] = "published"
      BY <1>2, <1>18 DEF EmitInv, Domains, Interfere, WriteFile, RemoveFile, RewriteManifest, Disturb, work
    <2> QED BY <2>1, <2>4, <2>5, <2>6 DEF EmitInv
  <1>19. CASE StepFails(e)
    <2>1. Domains'
      BY <1>2, <1>19 DEF EmitInv, Domains, StepFails, Active, work
    <2>4. EmitterOK(e)'
      BY <1>2, <1>19, EmptyTreeOK, SameWork DEF EmitInv, Domains, EmitterOK, StepFails, Active, Publishing
    <2>5. ASSUME NEW f \in Emitters, f # e PROVE EmitterOK(f)'
      BY <1>2, <1>19, <2>5, Elsewhere DEF EmitInv, Domains, StepFails, Active, work
    <2>6. /\ out' \in {"absent", "empty"} \cup Emitters
          /\ out' \in Emitters => pc'[out'] = "published"
      BY <1>2, <1>19 DEF EmitInv, Domains, StepFails, Active, work
    <2> QED BY <2>1, <2>4, <2>5, <2>6 DEF EmitInv
  <1>20. CASE Crash(e)
    <2>1. Domains'
      BY <1>2, <1>20 DEF EmitInv, Domains, Crash, Active, work
    <2>4. EmitterOK(e)'
      BY <1>2, <1>20, EmptyTreeOK, SameWork DEF EmitInv, Domains, EmitterOK, Crash, Active, Publishing
    <2>5. ASSUME NEW f \in Emitters, f # e PROVE EmitterOK(f)'
      BY <1>2, <1>20, <2>5, Elsewhere DEF EmitInv, Domains, Crash, Active, work
    <2>6. /\ out' \in {"absent", "empty"} \cup Emitters
          /\ out' \in Emitters => pc'[out'] = "published"
      BY <1>2, <1>20 DEF EmitInv, Domains, Crash, Active, work
    <2> QED BY <2>1, <2>4, <2>5, <2>6 DEF EmitInv
  <1> QED BY <1>2, <1>3, <1>4, <1>5, <1>6, <1>7, <1>8, <1>9, <1>10, <1>11, <1>12, <1>13, <1>14, <1>15, <1>16, <1>17, <1>18, <1>19, <1>20 DEF Step

\* The invariant holds in every reachable state: what an emitter signs is the
\* index it compared (emit.go 257-286 and 384).
THEOREM EmitInvariance == Spec => []EmitInv
  BY EmitInit, EmitStep, PTL DEF Spec

----------------------------------------------------------------------------
(***************************************************************************)
(* The results.                                                            *)
(***************************************************************************)

\* What is bound is the report on the inputs that are signed (emit.go 264-286).
LEMMA BoundClaim ==
    ASSUME NEW e \in Emitters, Bound(e)
    PROVE  /\ Part(files[e], Evaluated) = replica[e]
           /\ Part(files[e], Evaluated \cup Others) = inputs[e]
           /\ files[e]["output"] = Report(replica[e])
           /\ files[e]["stderr"] = Stderr(replica[e])
  <1>1. Part(files[e], Results) = captured[e] /\ CapturedOK(e)
    BY DEF Bound, assertCapturedPackageBlob
  <1>2. ASSUME NEW p, p \in DOMAIN captured[e]
        PROVE  captured[e][p] = files[e][p]
    BY <1>1, <1>2 DEF Part, Restrict
  <1> QED BY <1>1, <1>2
        DEF Bound, CapturedOK, assertPackageInputBlobsMatch, assertEvaluatedInputsMatch

\* A package that validates holds the inputs the checker evaluated and its report
\* on them, for any number of emitters, paths, writes, faults and retries
\* (EmitEvaluationPackage, emit.go 257-286).
THEOREM SignedIsEvaluatedHolds == Spec => []SignedIsEvaluated
  <1>1. EmitInv => SignedIsEvaluated
    <2> SUFFICES ASSUME EmitInv, NEW e \in Emitters, Validates(e)
                 PROVE  /\ Part(stage[e], Evaluated) = replica[e]
                        /\ Part(stage[e], Evaluated \cup Others) = inputs[e]
                        /\ stage[e]["output"] = Report(Part(stage[e], Evaluated))
                        /\ stage[e]["stderr"] = Stderr(Part(stage[e], Evaluated))
      BY DEF SignedIsEvaluated
    <2>1. signed[e] = <<TheManifest(e)>> /\ Bound(e)
      BY DEF EmitInv, EmitterOK, Validates
    <2>2. stage[e] = files[e]
      BY <2>1 DEF Validates, TheManifest
    <2> QED BY <2>1, <2>2, BoundClaim
  <1> QED BY <1>1, EmitInvariance, PTL

\* The emitters implement one atomic and final publication of a checker's report
\* with the inputs it is about (publishEmitPackage, emit.go 1112-1134).
THEOREM PublishedHolds == Spec => Published
  <1>1. Init => Abstract!Init
    BY EmittersAssumption DEF Init, Abstract!Init, store
  <1>2. EmitInv /\ EmitInv' /\ [Next]_vars => [Abstract!Next]_store
    <2> SUFFICES ASSUME EmitInv, EmitInv', [Next]_vars
                 PROVE  [Abstract!Next]_store
      OBVIOUS
    <2>1. CASE UNCHANGED vars
      BY <2>1 DEF vars, store, Claim
    <2>2. CASE \E e \in Emitters : RenameStage(e) /\ pc'[e] = "published"
      <3>1. PICK e \in Emitters : RenameStage(e) /\ pc'[e] = "published"
        BY <2>2
      <3>2. /\ out = "absent" /\ out' = e /\ pc[e] = "rename"
            /\ signed' = signed
        BY <3>1, EmittersAssumption DEF RenameStage, Go, Fail, work, EmitInv, Domains
      <3>3. signed[e] = <<TheManifest(e)>> /\ Bound(e) /\ replica[e] \in Replicas
        BY <3>2 DEF EmitInv, EmitterOK, Publishing
      <3>4. store = << >>
        BY <3>2, EmittersAssumption DEF store
      <3>5. store' = <<[by |-> e, inputs |-> replica[e], report |-> Report(replica[e])]>>
        BY <3>2, <3>3, BoundClaim DEF store, Claim, TheManifest
      <3> QED BY <3>3, <3>4, <3>5 DEF Abstract!Next, Abstract!Publish
    <2>3. CASE \E e \in Emitters : Step(e) \/ Retry(e) \/ Interfere(e) \/ StepFails(e) \/ Crash(e)
      <3>1. PICK e \in Emitters : Step(e) \/ Retry(e) \/ Interfere(e) \/ StepFails(e) \/ Crash(e)
        BY <2>3
      <3>2. CASE out \in Emitters
        <4>1. pc[out] = "published"
          BY <3>2 DEF EmitInv
        <4>2. out' = out /\ signed'[out] = signed[out]
          BY <3>1, <3>2, <4>1, EmittersAssumption
             DEF Step, CreateStaging, CopyInputs, RunConformance, Replicate, Evaluate,
                 DigestSpec, IndexFile, BindInputs, WriteManifest, WriteSignature, LstatOut,
                 ReadOut, ClearOut, RenameStage, Retry, Interfere, WriteFile, RemoveFile,
                 RewriteManifest, Disturb, StepFails, Crash, Fail, Go, Active, work,
                 EmitInv, Domains
        <4> QED BY <3>2, <4>2 DEF store, Claim
      <3>3. CASE out \notin Emitters
        <4>1. CASE out' \notin Emitters
          BY <3>3, <4>1 DEF store
        <4>2. CASE out' \in Emitters
          <5>1. RenameStage(e) /\ pc'[e] = "published"
            BY <3>1, <3>3, <4>2, EmittersAssumption
             DEF Step, CreateStaging, CopyInputs, RunConformance, Replicate, Evaluate,
                 DigestSpec, IndexFile, BindInputs, WriteManifest, WriteSignature, LstatOut,
                 ReadOut, ClearOut, RenameStage, Retry, Interfere, WriteFile, RemoveFile,
                 RewriteManifest, Disturb, StepFails, Crash, Fail, Go, work,
                 EmitInv, Domains
          <5> QED BY <5>1, <2>2
        <4> QED BY <4>1, <4>2
      <3> QED BY <3>2, <3>3
    <2> QED BY <2>1, <2>3 DEF Next
  <1> QED BY <1>1, <1>2, EmitInvariance, PTL DEF Spec, Published, Abstract!Spec

-----------------------------------------------------------------------------
(***************************************************************************)
(* A published package that nobody wrote into is whole.                    *)
(*                                                                         *)
(* While nobody else writes into a staging directory, the second walk sees *)
(* one tree: its index is that tree on the paths it has visited, and in the*)
(* end the whole tree.  What is signed and what is written as the manifest *)
(* is that index, and neither changes afterwards.                          *)
(***************************************************************************)

IsTree(tree) == tree = [p \in DOMAIN tree |-> tree[p]] /\ DOMAIN tree \subseteq Paths

Indexed == {"bind", "manifest", "sign"} \cup Publishing

\* What holds of a staging directory that nobody else wrote into.
Quiet(e) ==
    /\ IsTree(stage[e])
    /\ pc[e] = "walk" => todo[e] \subseteq Paths /\ files[e] = Part(stage[e], Paths \ todo[e])
    /\ pc[e] \in Indexed => files[e] = stage[e]
    /\ pc[e] \in {"sign"} \cup Publishing => manifest[e] = <<TheManifest(e)>>

WholeInv == \A e \in Emitters : e \notin touched => Quiet(e)

----------------------------------------------------------------------------
(***************************************************************************)
(* Trees.                                                                  *)
(***************************************************************************)
LEMMA EmptyIsTree == IsTree(EmptyTree)
  BY DEF IsTree, EmptyTree

LEMMA WithIsTree ==
  ASSUME NEW tree, IsTree(tree), NEW p \in Paths, NEW content
  PROVE  IsTree(With(tree, p, content))
  BY DEF IsTree, With

\* The walk adds a path to what it has visited, and at its end has the tree.
LEMMA WalkOn ==
  ASSUME NEW tree, NEW visited, NEW p
  PROVE  CopyPath(tree, Part(tree, visited), p) = Part(tree, visited \cup {p})
  BY DEF CopyPath, Part, With, Restrict

LEMMA WalkAll == ASSUME NEW tree, IsTree(tree) PROVE Part(tree, Paths) = tree
  <1>1. DOMAIN tree \cap Paths = DOMAIN tree
    BY DEF IsTree
  <1> QED
    BY <1>1 DEF IsTree, Part, Restrict

LEMMA WalkNone == ASSUME NEW tree PROVE Part(tree, {}) = EmptyTree
  BY DEF Part, Restrict, EmptyTree

----------------------------------------------------------------------------
(***************************************************************************)
(* The steps.                                                              *)
(***************************************************************************)
LEMMA WholeInit == Init => WholeInv
  BY EmptyIsTree DEF Init, WholeInv, Quiet, Indexed, Publishing

\* A step of one emitter leaves the directories of the others alone.
LEMMA QuietElsewhere ==
  ASSUME NEW f, Quiet(f), pc'[f] = pc[f], stage'[f] = stage[f], todo'[f] = todo[f],
         files'[f] = files[f], specDigest'[f] = specDigest[f], manifest'[f] = manifest[f]
  PROVE  Quiet(f)'
  BY DEF Quiet, IsTree, TheManifest

\* A failure, a crash, or a step of the publication.
LEMMA QuietSameWork ==
  ASSUME NEW e, Quiet(e), UNCHANGED work,
         \/ pc'[e] = "failed" /\ stage'[e] = EmptyTree
         \/ pc'[e] = "crashed" /\ stage'[e] = stage[e]
         \/ pc[e] \in Publishing /\ pc'[e] \in Publishing /\ stage'[e] = stage[e]
  PROVE  Quiet(e)'
  <1>1. IsTree(stage'[e])
    BY EmptyIsTree DEF Quiet
  <1> QED
    BY <1>1 DEF Quiet, IsTree, TheManifest, work, Indexed, Publishing

LEMMA QuietStep ==
  ASSUME Domains, NEW e \in Emitters, Step(e), Quiet(e)
  PROVE  Quiet(e)'
  <1> USE DEF Domains
  <1>1. CASE CreateStaging(e)
    BY <1>1 DEF CreateStaging, Go, Quiet, IsTree, Indexed, Publishing
  <1>2. CASE CopyInputs(e)
    <2>1. IsTree([p \in Copied |-> Original])
      BY PathsAssumption DEF IsTree, Paths
    <2> QED
      BY <1>2, <2>1 DEF CopyInputs, Go, Quiet, IsTree, Indexed, Publishing
  <1>3. CASE RunConformance(e)
    <2>1. IsTree(stage'[e])
      BY <1>3, WithIsTree DEF RunConformance, Quiet, Paths, Results
    <2> QED
      BY <1>3, <2>1 DEF RunConformance, Go, Quiet, IsTree, Indexed, Publishing
  <1>4. CASE \E p \in Paths : Replicate(e, p)
    BY <1>4 DEF Replicate, Quiet, IsTree, Indexed, Publishing
  <1>5. CASE Evaluate(e)
    <2>1. IsTree(stage'[e])
      BY <1>5, WithIsTree DEF Evaluate, Quiet, Paths, Results
    <2> QED
      BY <1>5, <2>1 DEF Evaluate, Go, Quiet, IsTree, Indexed, Publishing
  <1>6. CASE DigestSpec(e)
    <2>1. CASE pc'[e] = "walk"
      <3>1. files'[e] = EmptyTree /\ todo'[e] = Paths /\ stage' = stage
        BY <1>6, <2>1 DEF DigestSpec, Go, Fail
      <3>2. files'[e] = Part(stage'[e], Paths \ todo'[e])
        BY <3>1, WalkNone
      <3> QED
        BY <2>1, <3>1, <3>2 DEF Quiet, IsTree, Indexed, Publishing
    <2>2. CASE pc'[e] # "walk"
      BY <1>6, <2>2, QuietSameWork DEF DigestSpec, Go, Fail
    <2> QED
      BY <2>1, <2>2
  <1>7. CASE \E p \in Paths : IndexFile(e, p)
    <2>1. PICK p \in Paths : IndexFile(e, p)
      BY <1>7
    <2>2. /\ pc[e] = "walk" /\ p \in todo[e] /\ todo'[e] = todo[e] \ {p}
          /\ files'[e] = CopyPath(stage[e], files[e], p)
          /\ pc'[e] = IF todo[e] = {p} THEN "bind" ELSE "walk"
          /\ stage' = stage
      BY <2>1 DEF IndexFile
    <2>3. todo[e] \subseteq Paths /\ files[e] = Part(stage[e], Paths \ todo[e]) /\ IsTree(stage[e])
      BY <2>2 DEF Quiet
    <2>4. (Paths \ todo[e]) \cup {p} = Paths \ todo'[e]
      BY <2>2, <2>3
    <2>5. files'[e] = Part(stage[e], Paths \ todo'[e])
      BY <2>2, <2>3, <2>4, WalkOn
    <2>6. CASE todo[e] = {p}
      <3>1. Paths \ todo'[e] = Paths
        BY <2>2, <2>6
      <3>2. files'[e] = stage'[e]
        BY <2>2, <2>3, <2>5, <3>1, WalkAll
      <3> QED
        BY <2>2, <2>3, <2>6, <3>2 DEF Quiet, IsTree, Indexed, Publishing
    <2>7. CASE todo[e] # {p}
      BY <2>2, <2>3, <2>5, <2>7 DEF Quiet, IsTree, Indexed, Publishing
    <2> QED
      BY <2>6, <2>7
  <1>8. CASE BindInputs(e)
    <2>1. CASE pc'[e] = "manifest"
      BY <1>8, <2>1 DEF BindInputs, Go, Fail, Quiet, IsTree, work, Indexed, Publishing
    <2>2. CASE pc'[e] # "manifest"
      BY <1>8, <2>2, QuietSameWork DEF BindInputs, Go, Fail
    <2> QED
      BY <2>1, <2>2
  <1>9. CASE WriteManifest(e)
    BY <1>9 DEF WriteManifest, Go, Quiet, IsTree, TheManifest, Indexed, Publishing
  <1>10. CASE WriteSignature(e)
    BY <1>10 DEF WriteSignature, Go, Quiet, IsTree, TheManifest, Indexed, Publishing
  <1>11. CASE LstatOut(e)
    BY <1>11, QuietSameWork DEF LstatOut, Go, Publishing
  <1>12. CASE ReadOut(e)
    BY <1>12, QuietSameWork DEF ReadOut, Go, Fail, Publishing
  <1>13. CASE ClearOut(e)
    BY <1>13, QuietSameWork DEF ClearOut, Go, Fail, Publishing
  <1>14. CASE RenameStage(e)
    BY <1>14, QuietSameWork DEF RenameStage, Go, Fail, Publishing
  <1> QED
    BY <1>1, <1>2, <1>3, <1>4, <1>5, <1>6, <1>7, <1>8, <1>9, <1>10, <1>11, <1>12,
       <1>13, <1>14 DEF Step

\* A step moves one emitter, and what it touches stays touched until the retry.
LEMMA OneMoves ==
  ASSUME Domains, NEW e \in Emitters,
         Step(e) \/ Retry(e) \/ Interfere(e) \/ StepFails(e) \/ Crash(e)
  PROVE  \A f \in Emitters \ {e} :
            /\ pc'[f] = pc[f] /\ stage'[f] = stage[f] /\ todo'[f] = todo[f]
            /\ files'[f] = files[f] /\ specDigest'[f] = specDigest[f]
            /\ manifest'[f] = manifest[f] /\ (f \in touched' <=> f \in touched)
  BY DEF Domains, Step, CreateStaging, CopyInputs, RunConformance, Replicate, Evaluate,
         DigestSpec, IndexFile, BindInputs, WriteManifest, WriteSignature, LstatOut,
         ReadOut, ClearOut, RenameStage, Retry, Interfere, WriteFile, RemoveFile,
         RewriteManifest, Disturb, StepFails, Crash, Fail, Go, work

LEMMA WholeStep == EmitInv /\ WholeInv /\ [Next]_vars => WholeInv'
  <1> SUFFICES ASSUME EmitInv, WholeInv, [Next]_vars PROVE WholeInv'
    OBVIOUS
  <1>1. CASE UNCHANGED vars
    BY <1>1 DEF vars, WholeInv, Quiet, IsTree, TheManifest
  <1>2. ASSUME NEW e \in Emitters,
               Step(e) \/ Retry(e) \/ Interfere(e) \/ StepFails(e) \/ Crash(e)
        PROVE  WholeInv'
    <2>1. Domains
      BY DEF EmitInv
    <2>2. ASSUME NEW f \in Emitters, f # e, f \notin touched' PROVE Quiet(f)'
      BY <1>2, <2>1, <2>2, OneMoves, QuietElsewhere DEF WholeInv
    <2>3. ASSUME e \notin touched' PROVE Quiet(e)'
      <3>1. CASE Step(e)
        <4>1. touched' = touched
          BY <3>1 DEF Step, CreateStaging, CopyInputs, RunConformance, Replicate, Evaluate,
             DigestSpec, IndexFile, BindInputs, WriteManifest, WriteSignature, LstatOut,
             ReadOut, ClearOut, RenameStage, Fail
        <4> QED
          BY <2>1, <2>3, <3>1, <4>1, QuietStep DEF WholeInv
      <3>2. CASE Retry(e)
        BY <2>1, <3>2, EmptyIsTree DEF Domains, Retry, Quiet, IsTree, Indexed, Publishing
      <3>3. CASE Interfere(e)
        BY <2>3, <3>3 DEF Interfere, WriteFile, RemoveFile, RewriteManifest, Disturb
      <3>4. CASE StepFails(e) \/ Crash(e)
        <4>1. touched' = touched /\ UNCHANGED work
          BY <3>4 DEF StepFails, Crash
        <4>2. \/ pc'[e] = "failed" /\ stage'[e] = EmptyTree
              \/ pc'[e] = "crashed" /\ stage'[e] = stage[e]
          BY <2>1, <3>4 DEF Domains, StepFails, Crash
        <4> QED
          BY <2>3, <4>1, <4>2, QuietSameWork DEF WholeInv
      <3> QED
        BY <1>2, <3>1, <3>2, <3>3, <3>4
    <2> QED
      BY <2>2, <2>3 DEF WholeInv
  <1> QED
    BY <1>1, <1>2 DEF Next

(***************************************************************************)
(* A consumer finds no package or a whole one, unless somebody wrote into  *)
(* it, whatever failed or raced (publishEmitPackage, emit.go 1109-1134).   *)
(***************************************************************************)
THEOREM PublishedWholeHolds == Spec => []PublishedWhole
  <1>1. EmitInv /\ WholeInv => PublishedWhole
    <2> SUFFICES ASSUME EmitInv, WholeInv, out \in Emitters, out \notin touched
                 PROVE  Validates(out)
      BY DEF PublishedWhole
    <2>1. pc[out] = "published" /\ Quiet(out) /\ EmitterOK(out)
      BY DEF EmitInv, WholeInv
    <2>2. /\ signed[out] # << >> /\ signed[out] = <<TheManifest(out)>>
          /\ manifest[out] = <<TheManifest(out)>> /\ files[out] = stage[out]
      BY <2>1 DEF Quiet, EmitterOK, Publishing, Indexed
    <2> QED
      BY <2>2 DEF Validates, TheManifest
  <1> QED
    BY <1>1, WholeInit, WholeStep, EmitInvariance, PTL DEF Spec
=============================================================================
