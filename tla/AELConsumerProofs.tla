-------------------------- MODULE AELConsumerProofs --------------------------
(***************************************************************************)
(* Proofs about the consumer of a package, for any number of emitters,     *)
(* any input paths, and any writes of a left-behind process.               *)
(*                                                                         *)
(* Nothing can be said of the copy while it is made.  Once its digests     *)
(* agree with a signed manifest it is the index the emitter signed, of     *)
(* which the emitter's own invariant tells the rest.                       *)
(***************************************************************************)
EXTENDS AELConsumer, AELEmitProofs

ReaderOK ==
    /\ DOMAIN reader = {"at", "todo", "tree", "manifest", "report"}
    /\ reader.at # "idle" => out \in Emitters
    /\ reader.at \in {"report", "accepted"} =>
          signed[out] # << >> /\ reader.tree = signed[out][1].files
    /\ reader.at = "accepted" => reader.report = reader.tree["output"]

ConsumerInv == EmitInv /\ ReaderOK

\* What is published stays, and so does its signature (publishEmitPackage,
\* emit.go 1112-1134: the rename refuses a directory that is there).
LEMMA PublishedStays ==
    ASSUME EmitInv, [Next]_vars, out \in Emitters
    PROVE  out' = out /\ signed'[out] = signed[out]
  <1>1. CASE UNCHANGED vars
    BY <1>1 DEF vars
  <1>2. CASE \E e \in Emitters : Step(e) \/ Retry(e) \/ Interfere(e) \/ StepFails(e) \/ Crash(e)
    <2>1. PICK e \in Emitters : Step(e) \/ Retry(e) \/ Interfere(e) \/ StepFails(e) \/ Crash(e)
      BY <1>2
    <2>2. pc[out] = "published"
      BY DEF EmitInv
    <2> QED
      BY <2>1, <2>2, EmittersAssumption
         DEF Step, CreateStaging, CopyInputs, RunConformance, Replicate, Evaluate,
             DigestSpec, IndexFile, BindInputs, WriteManifest, WriteSignature, LstatOut,
             ReadOut, ClearOut, RenameStage, Retry, Interfere, WriteFile, RemoveFile,
             RewriteManifest, Disturb, StepFails, Crash, Fail, Go, Active, work,
             EmitInv, Domains
  <1> QED BY <1>1, <1>2 DEF Next

----------------------------------------------------------------------------
\* No consumer has begun (package.go 207).
LEMMA ConsumerStart == ConsumerInit => ConsumerInv
  BY EmitInit DEF ConsumerInit, ConsumerInv, ReaderOK

\* The consumer only reads.
LEMMA ConsumerStep == ConsumerInv /\ [ConsumerNext]_consumerVars => ConsumerInv'
  <1> SUFFICES ASSUME ConsumerInv, [ConsumerNext]_consumerVars
               PROVE  ConsumerInv'
    OBVIOUS
  <1>1. CASE Next /\ UNCHANGED reader
    <2>1. EmitInv'
      BY <1>1, EmitStep DEF ConsumerInv
    <2>2. out \in Emitters => out' = out /\ signed'[out] = signed[out]
      BY <1>1, PublishedStays DEF ConsumerInv
    <2> QED BY <1>1, <2>1, <2>2 DEF ConsumerInv, ReaderOK
  <1>2. CASE UNCHANGED consumerVars
    <2>1. EmitInv'
      BY <1>2, EmitStep DEF ConsumerInv, consumerVars
    <2> QED BY <1>2, <2>1 DEF ConsumerInv, ReaderOK, consumerVars, vars
  <1>3. CASE UNCHANGED vars /\ Validate
    <2>1. EmitInv' /\ UNCHANGED <<out, signed>>
      BY <1>3, EmitStep DEF ConsumerInv, vars
    <2>2. ReaderOK'
      <3>1. CASE OpenPackage
        BY <3>1, <2>1 DEF ConsumerInv, ReaderOK, OpenPackage
      <3>2. CASE \E p \in Paths \cup {ManifestPath} : SnapshotFile(p)
        BY <3>2, <2>1 DEF ConsumerInv, ReaderOK, SnapshotFile
      <3>3. CASE DigestFiles
        BY <3>3, <2>1 DEF ConsumerInv, ReaderOK, DigestFiles, Examined
      <3>4. CASE ReadReport
        BY <3>4, <2>1 DEF ConsumerInv, ReaderOK, ReadReport, Examined
      <3> QED BY <1>3, <3>1, <3>2, <3>3, <3>4 DEF Validate
    <2> QED BY <2>1, <2>2 DEF ConsumerInv
  <1>4. Validate => UNCHANGED vars
    BY DEF Validate, OpenPackage, SnapshotFile, DigestFiles, ReadReport
  <1> QED BY <1>1, <1>2, <1>3, <1>4 DEF ConsumerNext

----------------------------------------------------------------------------
\* What the consumer accepts is of one piece, whatever is written into the
\* package meanwhile (ValidatePackage, package.go 207-214).
THEOREM AcceptedIsEvaluatedHolds == ConsumerSpec => []AcceptedIsEvaluated
  <1>1. ConsumerInv => AcceptedIsEvaluated
    <2> SUFFICES ASSUME ConsumerInv, reader.at = "accepted"
                 PROVE  /\ reader.report = Report(Part(reader.tree, Evaluated))
                        /\ Part(reader.tree, Evaluated) = replica[out]
                        /\ Part(reader.tree, Evaluated \cup Others) = inputs[out]
      BY DEF AcceptedIsEvaluated
    <2>1. out \in Emitters /\ signed[out] # << >> /\ reader.tree = signed[out][1].files
      BY DEF ConsumerInv, ReaderOK
    <2>2. signed[out] = <<TheManifest(out)>> /\ Bound(out) /\ replica[out] \in Replicas
      BY <2>1 DEF ConsumerInv, EmitInv, EmitterOK
    <2>3. reader.tree = files[out]
      BY <2>1, <2>2 DEF TheManifest
    <2>4. Part(files[out], Evaluated) = replica[out] /\ files[out]["output"] = Report(replica[out])
      BY <2>1, <2>2, BoundClaim
    <2>5. reader.report = reader.tree["output"]
      BY DEF ConsumerInv, ReaderOK
    <2>6. Part(files[out], Evaluated \cup Others) = inputs[out]
      BY <2>2 DEF Bound, assertPackageInputBlobsMatch
    <2> QED BY <2>3, <2>4, <2>5, <2>6
  <1>2. ConsumerSpec => []ConsumerInv
    BY ConsumerStart, ConsumerStep, PTL DEF ConsumerSpec
  <1> QED BY <1>1, <1>2, PTL
=============================================================================
