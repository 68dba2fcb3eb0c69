-------------------------- MODULE AELEvidenceProofs --------------------------
(***************************************************************************)
(* Proofs about the evidence in a package: what its signature covers, for  *)
(* any keys, runs, grade lines and number of changes; the corpus report    *)
(* beside the status it is packaged with, for any cases; and the output of *)
(* a command, for any limit.                                               *)
(***************************************************************************)
EXTENDS AELBinding, AELCorpus, AELSubprocess, SequenceTheorems, FiniteSetTheorems, TLAPS

(***************************************************************************)
(* AELBinding: paths, contents and the manifest.  Every path is a sequence *)
(* of names, and a report is a sequence of grades, whatever was changed.   *)
(***************************************************************************)
Names == PublicKeys \cup {"artifact", "manifest.json", "keys", "report.json", "output",
                          "copy", "inner"}
Grades == [run : Runs, line : Lines]

ContentOK(file) ==
    /\ file[1] = "report" => \E grades \in Seq(Grades) : file = ReportFile(grades)
    /\ file[1] = "artifact" => \E runs : file = ArtifactOf(runs)

TreeOK ==
    /\ DOMAIN tree \subseteq Seq(Names)
    /\ \A path \in DOMAIN tree : ContentOK(tree[path])

ManifestOK ==
    /\ DOMAIN manifest = {"kind", "files", "root", "keysDir", "inputs", "bound", "report",
                          "output", "runs", "run", "exit", "grades", "signer", "status"}
    /\ manifest.keysDir \in Seq(Names)
    /\ manifest.grades \in Seq(Grades)

BindingInv == TreeOK /\ ManifestOK

\* A finite set listed is a sequence of its members.
LEMMA SetToSeqListed ==
    ASSUME NEW S, IsFiniteSet(S)
    PROVE  SetToSeq(S) \in Seq(S)
<1>1. PICK n \in Nat : ExistsBijection(1..n, S)
  BY FS_NatBijection
<1>2. Cardinality(S) = n
  BY <1>1, FS_CountingElements
<1>3. \E f \in [1..Cardinality(S) -> S] : IsInjective(f)
  BY <1>1, <1>2 DEF ExistsBijection, Bijection, Injection
<1>4. SetToSeq(S) \in [1..Cardinality(S) -> S]
  BY <1>3 DEF SetToSeq
<1> QED BY <1>2, <1>4

\* Appending a name gives a path under the directory, with that last name.
LEMMA AppendedPath ==
    ASSUME NEW dir \in Seq(Names), NEW name \in Names
    PROVE  /\ Append(dir, name) \in Seq(Names)
           /\ Under(dir, Append(dir, name)) /\ Last(Append(dir, name)) = name
<1> DEFINE path == Append(dir, name)
<1>1. /\ path \in Seq(Names) /\ Len(path) = Len(dir) + 1 /\ Len(dir) \in Nat
      /\ \A i \in 1..Len(dir) : path[i] = dir[i]
      /\ path[Len(dir) + 1] = name
  BY AppendProperties
<1> HIDE DEF path
<1>2. /\ SubSeq(path, 1, Len(dir)) \in Seq(Names)
      /\ Len(SubSeq(path, 1, Len(dir))) = Len(dir)
      /\ \A i \in 1..Len(dir) : SubSeq(path, 1, Len(dir))[i] = path[i]
  <2>1. \A i \in 1..Len(dir) : path[i] \in Names
    BY <1>1
  <2> QED BY <1>1, <2>1, SubSeqProperties
<1>3. SubSeq(path, 1, Len(dir)) = dir
  BY <1>1, <1>2
<1> QED BY <1>1, <1>3 DEF Under, Last, path

\* Removing an element and dropping the last one leave a sequence.
LEMMA ShortenedSeq ==
    ASSUME NEW S, NEW s \in Seq(S)
    PROVE  /\ Front(s) \in Seq(S)
           /\ \A i \in DOMAIN s : RemoveAt(s, i) \in Seq(S)
<1>1. Len(s) \in Nat /\ \A j \in 1..Len(s) : s[j] \in S
  OBVIOUS
<1>2. \A m \in Int, n \in Int : 1 <= m /\ n <= Len(s) => SubSeq(s, m, n) \in Seq(S)
  BY <1>1, SubSeqProperties
<1>3. Front(s) \in Seq(S)
  BY <1>1, <1>2 DEF Front
<1>4. ASSUME NEW i \in DOMAIN s PROVE RemoveAt(s, i) \in Seq(S)
  <2>1. SubSeq(s, 1, i - 1) \in Seq(S) /\ SubSeq(s, i + 1, Len(s)) \in Seq(S)
    BY <1>1, <1>2
  <2> QED BY <2>1, ConcatProperties DEF RemoveAt
<1> QED BY <1>3, <1>4

\* Contents other than reports and artifacts say nothing to the invariant.
LEMMA Contents ==
    /\ \A key : ContentOK(KeyFile(key))
    /\ ContentOK(Output)
    /\ \A runs : ContentOK(ArtifactOf(runs))
    /\ \A grades \in Seq(Grades) : ContentOK(ReportFile(grades))
BY DEF ContentOK, KeyFile, Output, ArtifactOf, ReportFile

LEMMA Singles == \A S : << >> \in Seq(S) /\ \A x \in S : <<x>> \in Seq(S)
OBVIOUS

LEMMA BindingInit == PackageInit => BindingInv
<1> SUFFICES ASSUME PackageInit PROVE BindingInv
  OBVIOUS
<1>1. PICK kind \in {"verification-record", "evaluation-package"}, statusKey \in PublicKeys,
           runs \in {SetToSeq(set) : set \in (SUBSET Runs) \ {{}}} :
              CoherentPackage(kind, runs, statusKey)
  BY DEF PackageInit
<1> DEFINE signer == CHOOSE key \in PublicKeys : TRUE
           line == CHOOSE line \in Lines : TRUE
           grades == [i \in DOMAIN runs |-> Grade(runs[i], line)]
           keys == SetToSeq({signer, statusKey})
           inputs == [i \in DOMAIN keys |-> Append(KeysDir, keys[i])]
           paths == {Loaded(ArtifactRoot), ReportPath, OutputPath} \cup ToSet(inputs)
<1>2. runs \in Seq(Runs)
  <2>1. PICK set \in SUBSET Runs : runs = SetToSeq(set)
    OBVIOUS
  <2>2. IsFiniteSet(set)
    BY RunsAssumption, FS_Subset
  <2> QED BY <2>1, <2>2, SetToSeqListed
<1>3. line \in Lines /\ signer \in PublicKeys
  BY RunsAssumption
<1>4. grades \in Seq(Grades)
  <2>1. \A i \in DOMAIN runs : runs[i] \in Runs
    BY <1>2
  <2> HIDE DEF line
  <2>2. \A i \in DOMAIN runs : grades[i] \in Grades
    BY <1>3, <2>1 DEF Grade, Grades
  <2>3. DOMAIN runs = 1..Len(runs) /\ Len(runs) \in Nat
    BY <1>2
  <2> QED BY <2>2, <2>3
<1>5. keys \in Seq(PublicKeys)
  <2>1. IsFiniteSet({signer, statusKey})
    <3>1. IsFiniteSet({signer})
      BY FS_Singleton
    <3>2. IsFiniteSet({signer} \cup {statusKey})
      BY <3>1, FS_AddElement
    <3> QED BY <3>2, {signer, statusKey} = {signer} \cup {statusKey}
  <2>2. {signer, statusKey} \subseteq PublicKeys
    BY <1>3
  <2>3. keys \in Seq({signer, statusKey})
    BY <2>1, SetToSeqListed
  <2> HIDE DEF signer, keys
  <2> QED BY <2>2, <2>3
<1>6. paths \subseteq Seq(Names)
  <2>1. KeysDir \in Seq(Names) /\ ReportPath \in Seq(Names) /\ OutputPath \in Seq(Names)
        /\ ArtifactRoot \in Seq(Names) /\ "manifest.json" \in Names
    BY Singles DEF KeysDir, ReportPath, OutputPath, ArtifactRoot, Names
  <2>2. Loaded(ArtifactRoot) \in Seq(Names)
    BY <2>1, AppendedPath DEF Loaded
  <2>3. \A i \in DOMAIN keys : keys[i] \in Names
    BY <1>5 DEF Names
  <2> HIDE DEF keys
  <2>4. \A i \in DOMAIN keys : Append(KeysDir, keys[i]) \in Seq(Names)
    BY <2>1, <2>3, AppendedPath
  <2> QED BY <2>1, <2>2, <2>4 DEF ToSet
<1> HIDE DEF paths, grades
<1>7. TreeOK
  <2>1. /\ DOMAIN tree = paths
        /\ \A path \in paths : tree[path] =
              CASE path = Loaded(ArtifactRoot) -> ArtifactOf(ToSet(runs))
                [] path = ReportPath -> ReportFile(grades)
                [] path = OutputPath -> Output
                [] OTHER -> KeyFile(Last(path))
    BY <1>1 DEF CoherentPackage, paths, grades
  <2>2. ASSUME NEW path \in paths PROVE ContentOK(tree[path])
    BY <2>1, <1>4, Contents
  <2> QED BY <1>6, <2>1, <2>2 DEF TreeOK
<1>8. ManifestOK
  <2>1. KeysDir \in Seq(Names) /\ << >> \in Seq(Grades)
    BY <1>6, Singles DEF KeysDir, Names
  <2>2. manifest.grades = grades \/ manifest.grades = << >>
    BY <1>1 DEF CoherentPackage, grades
  <2> QED BY <1>1, <1>4, <2>1, <2>2 DEF CoherentPackage, ManifestOK
<1> QED BY <1>7, <1>8 DEF BindingInv

\* Changed grades are grades.
LEMMA RegradedSeq ==
    ASSUME NEW grades \in Seq(Grades), NEW i \in DOMAIN grades, NEW line \in Lines
    PROVE  [grades EXCEPT ![i].line = line] \in Seq(Grades)
<1>1. DOMAIN grades = 1..Len(grades) /\ Len(grades) \in Nat
  OBVIOUS
<1>2. [grades[i] EXCEPT !.line = line] \in Grades
  <2>1. grades[i] \in Grades
    BY <1>1
  <2> QED BY <2>1 DEF Grades
<1>3. [grades EXCEPT ![i].line = line] = [grades EXCEPT ![i] = [grades[i] EXCEPT !.line = line]]
  OBVIOUS
<1> QED BY <1>1, <1>2, <1>3

\* Writing one more file.
LEMMA WrittenTree ==
    ASSUME TreeOK, NEW path \in Seq(Names), NEW file, ContentOK(file),
           tree' = With(path, file)
    PROVE  TreeOK'
BY DEF TreeOK, With

\* Changing the report, which lies at its path or is no report at all.
LEMMA RewrittenReport ==
    ASSUME TreeOK, ReportPath \in DOMAIN tree, NEW run \in Runs, NEW line \in Lines
    PROVE  LET old == ReportRuns(ReportPath)
           IN  /\ old \in Seq(Grades)
               /\ tree' = [tree EXCEPT ![ReportPath] = ReportFile(Append(old, Grade(run, line)))]
                     => TreeOK'
               /\ \A i \in DOMAIN old :
                     tree' = [tree EXCEPT ![ReportPath][2][i].line = line] => TreeOK'
<1> DEFINE old == ReportRuns(ReportPath)
<1>1. old \in Seq(Grades) /\ (tree[ReportPath][1] = "report" => tree[ReportPath] = ReportFile(old))
  BY Singles DEF TreeOK, ContentOK, ReportRuns, ReportFile
<1>2. Grade(run, line) \in Grades
  BY DEF Grade, Grades
<1>3. Append(old, Grade(run, line)) \in Seq(Grades)
  <2> HIDE DEF old
  <2> QED BY <1>1, <1>2
<1>4. ASSUME tree' = [tree EXCEPT ![ReportPath] = ReportFile(Append(old, Grade(run, line)))]
      PROVE  TreeOK'
  <2> HIDE DEF old
  <2> QED BY <1>3, <1>4, Contents DEF TreeOK
<1>5. ASSUME NEW i \in DOMAIN old, tree' = [tree EXCEPT ![ReportPath][2][i].line = line]
      PROVE  TreeOK'
  <2> DEFINE new == [old EXCEPT ![i].line = line]
  <2>1. tree[ReportPath] = ReportFile(old)
    <3>1. old # << >>
      OBVIOUS
    <3> QED BY <1>1, <3>1 DEF ReportRuns
  <2>2. new \in Seq(Grades)
    BY <1>1, RegradedSeq
  <2>3. [tree[ReportPath] EXCEPT ![2][i].line = line] = ReportFile(new)
    <3> HIDE DEF old
    <3> QED BY <2>1 DEF ReportFile
  <2>4. tree' = [tree EXCEPT ![ReportPath] = ReportFile(new)]
    BY <1>5, <2>3
  <2> HIDE DEF new
  <2> QED BY <2>2, <2>4, Contents DEF TreeOK
<1> QED BY <1>1, <1>4, <1>5

LEMMA BindingStep == BindingInv /\ [PackageNext]_packageVars => BindingInv'
<1> SUFFICES ASSUME BindingInv, [PackageNext]_packageVars PROVE BindingInv'
  OBVIOUS
<1>1. ArtifactRoot \in Seq(Names) /\ KeysDir \in Seq(Names) /\ <<"copy">> \in Seq(Names)
  BY Singles DEF ArtifactRoot, KeysDir, Names
<1>2. \A path \in DOMAIN tree : Front(path) \in Seq(Names)
  BY ShortenedSeq DEF BindingInv, TreeOK
<1>3. CASE Pack
  BY <1>3 DEF Pack, BindingInv, TreeOK, ManifestOK
<1>4. CASE WriteFile
  <2>1. ManifestOK'
    BY <1>4 DEF WriteFile, BindingInv, ManifestOK
  <2>2. \A dir \in Elsewhere \cup {ArtifactRoot} : Loaded(dir) \in Seq(Names)
    <3>1. "inner" \in Names /\ "manifest.json" \in Names
      BY DEF Names
    <3>2. Elsewhere \cup {ArtifactRoot} \subseteq Seq(Names)
      BY <1>1, <3>1, AppendedPath DEF Elsewhere
    <3> QED BY <3>1, <3>2, AppendedPath DEF Loaded
  <2>3. KeyPlaces \subseteq Seq(Names)
    <3>1. "inner" \in Names /\ PublicKeys \subseteq Names
      BY DEF Names
    <3>2. {KeysDir, <<"copy">>, Append(KeysDir, "inner")} \subseteq Seq(Names)
      BY <1>1, <3>1, AppendedPath
    <3>3. ASSUME NEW path \in KeyPlaces PROVE path \in Seq(Names)
      <4>1. PICK dir \in {KeysDir, <<"copy">>, Append(KeysDir, "inner")}, key \in PublicKeys :
               path = Append(dir, key)
        BY DEF KeyPlaces
      <4> QED BY <4>1, <3>1, <3>2, AppendedPath
    <3> QED BY <3>3
  <2>4. TreeOK'
    <3>1. CASE \E dir \in Elsewhere \cup {ArtifactRoot}, runs \in SUBSET Runs :
                  tree' = With(Loaded(dir), ArtifactOf(runs))
      BY <2>2, <3>1, WrittenTree, Contents DEF BindingInv
    <3>2. CASE \E path \in KeyPlaces, key \in PublicKeys :
                  tree' = With(path, KeyFile(key))
      BY <2>3, <3>2, WrittenTree, Contents DEF BindingInv
    <3>3. CASE \E run \in Runs, line \in Lines : LET old == ReportRuns(ReportPath) IN
             /\ ReportPath \in DOMAIN tree
             /\ \/ tree' = [tree EXCEPT ![ReportPath] = ReportFile(Append(old, Grade(run, line)))]
                \/ \E i \in DOMAIN old : tree' = [tree EXCEPT ![ReportPath][2][i].line = line]
      BY <3>3, RewrittenReport DEF BindingInv
    <3> QED BY <1>4, <3>1, <3>2, <3>3 DEF WriteFile
  <2> QED BY <2>1, <2>4 DEF BindingInv
<1>5. CASE RemoveFile
  BY <1>5 DEF RemoveFile, Restrict, BindingInv, TreeOK, ManifestOK
<1>6. CASE Repoint
  <2>1. TreeOK'
    BY <1>6 DEF Repoint, BindingInv, TreeOK
  <2>2. PICK path, entry :
        /\ path \in DOMAIN tree
        /\ \/ manifest' = [manifest EXCEPT !.bound = entry]
           \/ manifest' = [manifest EXCEPT !.report = entry]
           \/ manifest' = [manifest EXCEPT !.inputs = Append(@, entry)]
           \/ manifest' = [manifest EXCEPT !.root = Front(path)]
           \/ manifest' = [manifest EXCEPT !.root = Front(path), !.bound = entry]
           \/ manifest' = [manifest EXCEPT !.keysDir = Front(path)]
           \/ manifest' = [manifest EXCEPT !.files = Append(@, entry)]
    BY <1>6 DEF Repoint
  <2>3. ManifestOK'
    BY <1>2, <2>2 DEF BindingInv, ManifestOK
  <2> QED BY <2>1, <2>3 DEF BindingInv
<1>7. CASE Unlist
  BY <1>7 DEF Unlist, BindingInv, TreeOK, ManifestOK
<1>8. CASE Restate
  <2>1. TreeOK'
    BY <1>8 DEF Restate, BindingInv, TreeOK
  <2>2. \A run \in Runs, line \in Lines : Grade(run, line) \in Grades
    BY DEF Grade, Grades
  <2>3. /\ \A i \in DOMAIN manifest.grades : RemoveAt(manifest.grades, i) \in Seq(Grades)
        /\ \A i \in DOMAIN manifest.grades, line \in Lines :
              [manifest.grades EXCEPT ![i].line = line] \in Seq(Grades)
        /\ \A grade \in Grades : Append(manifest.grades, grade) \in Seq(Grades)
    <3>1. manifest.grades \in Seq(Grades)
      BY DEF BindingInv, ManifestOK
    <3>2. \A grade \in Grades : Append(manifest.grades, grade) \in Seq(Grades)
      BY <3>1, AppendProperties
    <3> QED BY <3>1, <3>2, ShortenedSeq, RegradedSeq
  <2>4. PICK grades \in Seq(Grades) :
           /\ manifest'.grades = grades /\ manifest'.keysDir = manifest.keysDir
           /\ DOMAIN manifest' = DOMAIN manifest
    <3>1. /\ manifest.grades \in Seq(Grades)
          /\ {"grades", "keysDir"} \subseteq DOMAIN manifest
      BY DEF BindingInv, ManifestOK
    <3> QED BY <1>8, <2>2, <2>3, <3>1 DEF Restate
  <2>5. ManifestOK'
    BY <2>4 DEF BindingInv, ManifestOK
  <2> QED BY <2>1, <2>5 DEF BindingInv
<1>9. CASE UNCHANGED packageVars
  BY <1>9 DEF packageVars, BindingInv, TreeOK, ManifestOK
<1> QED BY <1>3, <1>4, <1>5, <1>6, <1>7, <1>8, <1>9 DEF PackageNext

LEMMA BindingInvariance == PackageSpec => []BindingInv
BY BindingInit, BindingStep, PTL DEF PackageSpec

\* The parts of an accepted manifest that a signature is about: every file is
\* indexed as it is, and whatever the manifest refers to is such an entry.
LEMMA AcceptedFiles ==
    ASSUME Accepted(manifest)
    PROVE  /\ ToSet(manifest.files) = {[path |-> path, digest |-> tree[path]] : path \in DOMAIN tree}
           /\ \A blob \in packageReferencedBlobs(manifest) :
                 /\ blob.path \in DOMAIN tree
                 /\ blob = [path |-> blob.path, digest |-> tree[blob.path]]
<1>1. /\ ToSet(manifest.files) = {[path |-> path, digest |-> tree[path]] : path \in DOMAIN tree}
      /\ packageReferencedBlobs(manifest) \subseteq ToSet(manifest.files)
  BY DEF Accepted, validatePackageBlobs
<1>2. ASSUME NEW blob \in packageReferencedBlobs(manifest)
      PROVE  blob.path \in DOMAIN tree /\ blob = [path |-> blob.path, digest |-> tree[blob.path]]
  <2>1. PICK path \in DOMAIN tree : blob = [path |-> path, digest |-> tree[path]]
    BY <1>1
  <2> QED BY <2>1
<1> QED BY <1>1, <1>2

\* For any files, keys and changes: an accepted package is evaluated from what
\* was signed (validateArtifactBinding, validatePackageInputKeys).
THEOREM EvaluationIsSignedHolds == PackageSpec => []EvaluationIsSigned
<1>1. BindingInv => EvaluationIsSigned
  <2> SUFFICES ASSUME BindingInv, Accepted(manifest)
               PROVE  LET Signed == {<<file.path, file.digest>> : file \in ToSet(manifest.files)}
                      IN  /\ <<Loaded(manifest.root), manifest.bound.digest>> \in Signed
                          /\ tree[Loaded(manifest.root)] = manifest.bound.digest
                          /\ \A key \in LoadedKeys(manifest.keysDir) :
                                [path |-> Append(manifest.keysDir, key), digest |-> KeyFile(key)]
                                  \in ToSet(manifest.inputs)
                          /\ \A path \in DOMAIN tree : <<path, tree[path]>> \in Signed
    BY DEF EvaluationIsSigned
  <2> DEFINE Signed == {<<file.path, file.digest>> : file \in ToSet(manifest.files)}
  <2>1. \A path \in DOMAIN tree : <<path, tree[path]>> \in Signed
    <3> SUFFICES ASSUME NEW path \in DOMAIN tree PROVE <<path, tree[path]>> \in Signed
      OBVIOUS
    <3>1. [path |-> path, digest |-> tree[path]] \in ToSet(manifest.files)
      BY AcceptedFiles
    <3> QED BY <3>1
  <2>2. /\ manifest.bound.path = Loaded(manifest.root)
        /\ manifest.bound \in packageReferencedBlobs(manifest)
    BY DEF Accepted, validateArtifactBinding, packageReferencedBlobs
  <2>3. /\ Loaded(manifest.root) \in DOMAIN tree
        /\ manifest.bound.digest = tree[Loaded(manifest.root)]
    <3>1. /\ manifest.bound.path \in DOMAIN tree
          /\ manifest.bound = [path |-> manifest.bound.path, digest |-> tree[manifest.bound.path]]
      BY <2>2, AcceptedFiles
    <3> QED BY <2>2, <3>1
  <2>4. ASSUME NEW key \in LoadedKeys(manifest.keysDir)
        PROVE  [path |-> Append(manifest.keysDir, key), digest |-> KeyFile(key)]
                  \in ToSet(manifest.inputs)
    <3> DEFINE path == Append(manifest.keysDir, key)
    <3>1. key \in PublicKeys /\ path \in DOMAIN tree /\ tree[path] = KeyFile(key)
      BY DEF LoadedKeys
    <3>2. Under(manifest.keysDir, path) /\ Last(path) = key
      <4>1. manifest.keysDir \in Seq(Names) /\ key \in Names
        BY <3>1 DEF BindingInv, ManifestOK, Names
      <4> QED BY <4>1, AppendedPath
    <3>3. path \in ToSet(Paths(manifest.inputs))
      BY <3>1, <3>2 DEF Accepted, validatePackageInputKeys
    <3> HIDE DEF path
    <3>4. PICK i \in DOMAIN manifest.inputs : manifest.inputs[i].path = path
      BY <3>3 DEF ToSet, Paths
    <3>5. /\ manifest.inputs[i] \in ToSet(manifest.inputs)
          /\ manifest.inputs[i] \in packageReferencedBlobs(manifest)
      BY DEF packageReferencedBlobs, ToSet
    <3>6. manifest.inputs[i] = [path |-> path, digest |-> tree[path]]
      BY <3>4, <3>5, AcceptedFiles
    <3> QED BY <3>1, <3>5, <3>6 DEF path
  <2> HIDE DEF Signed
  <2>5. <<Loaded(manifest.root), manifest.bound.digest>> \in Signed
    BY <2>1, <2>3
  <2> QED BY <2>1, <2>3, <2>4, <2>5 DEF Signed
<1> QED BY <1>1, BindingInvariance, PTL

\* As many entries as members, when no two entries are of one run.
LEMMA DistinctRuns ==
    ASSUME NEW grades \in Seq(Grades), IsInjective(RunsOf(grades))
    PROVE  /\ IsFiniteSet(ToSet(grades)) /\ Cardinality(ToSet(grades)) = Len(grades)
           /\ \A g, h \in ToSet(grades) : g.run = h.run => g = h
<1>1. \A i, j \in DOMAIN grades : grades[i].run = grades[j].run => i = j
  BY DEF RunsOf, IsInjective
<1>2. grades \in Bijection(1..Len(grades), ToSet(grades))
  BY <1>1 DEF ToSet, Bijection, Injection, Surjection, IsInjective
<1>3. ExistsBijection(1..Len(grades), ToSet(grades)) /\ Len(grades) \in Nat
  BY <1>2 DEF ExistsBijection
<1>4. IsFiniteSet(ToSet(grades)) /\ Cardinality(ToSet(grades)) = Len(grades)
  BY <1>3, FS_NatBijection, FS_CountingElements
<1> QED BY <1>1, <1>4 DEF ToSet

\* For any runs, lines and changes: an accepted record of a completed evaluation
\* grades each run of the artifact once, as the machine report does.
THEOREM GradesExactHolds == PackageSpec => []GradesExact
<1>1. BindingInv => GradesExact
  <2> SUFFICES ASSUME BindingInv, Accepted(manifest), manifest.kind = "verification-record",
                      manifest.exit \in {0, 4}
               PROVE  LET report == ToSet(ReportRuns(manifest.report.path))
                      IN  /\ ToSet(manifest.grades) = report
                          /\ \A run \in Runs :
                                Cardinality({g \in report : g.run = run})
                                  = IF run \in discoveredPackageRuns(manifest.root) THEN 1 ELSE 0
    BY DEF GradesExact
  <2> DEFINE runs == ReportRuns(manifest.report.path)
             graded == manifest.grades
  <2>1. graded \in Seq(Grades) /\ IsInjective(RunsOf(graded))
    BY DEF BindingInv, ManifestOK, Accepted, validatePackageSemantics
  <2>2. Len(runs) = Len(graded) /\ IsInjective(RunsOf(runs)) /\ ToSet(graded) \subseteq ToSet(runs)
    BY DEF Accepted, validatePackageGradesAgainstMachineOutput
  <2>3. runs \in Seq(Grades)
    <3>1. manifest.report.path \in DOMAIN tree
      BY AcceptedFiles DEF packageReferencedBlobs
    <3>2. ContentOK(tree[manifest.report.path])
      BY <3>1 DEF BindingInv, TreeOK
    <3> QED BY <3>2, Singles DEF ContentOK, ReportRuns, ReportFile
  <2>4. discoveredPackageRuns(manifest.root) = ToSet(RunsOf(graded))
    BY DEF Accepted, validateArtifactBinding, sameStringSet
  <2> HIDE DEF runs, graded
  <2>5. ToSet(graded) = ToSet(runs)
    <3>1. Cardinality(ToSet(graded)) = Cardinality(ToSet(runs)) /\ IsFiniteSet(ToSet(runs))
      BY <2>1, <2>2, <2>3, DistinctRuns
    <3> QED BY <2>2, <3>1, FS_Subset
  <2>6. ASSUME NEW run \in Runs
        PROVE  Cardinality({g \in ToSet(runs) : g.run = run})
                  = IF run \in discoveredPackageRuns(manifest.root) THEN 1 ELSE 0
    <3>1. run \in discoveredPackageRuns(manifest.root) <=> \E g \in ToSet(runs) : g.run = run
      BY <2>4, <2>5 DEF ToSet, RunsOf
    <3>2. CASE \E g \in ToSet(runs) : g.run = run
      <4>1. PICK g \in ToSet(runs) : g.run = run
        BY <3>2
      <4>2. {h \in ToSet(runs) : h.run = run} = {g}
        BY <4>1, <2>2, <2>3, DistinctRuns
      <4> QED BY <3>1, <4>1, <4>2, FS_Singleton
    <3>3. CASE ~ \E g \in ToSet(runs) : g.run = run
      <4>1. {h \in ToSet(runs) : h.run = run} = {}
        BY <3>3
      <4> QED BY <3>1, <3>3, <4>1, FS_EmptySet
    <3> QED BY <3>2, <3>3
  <2> QED BY <2>5, <2>6 DEF runs, graded
<1> QED BY <1>1, BindingInvariance, PTL

(***************************************************************************)
(* AELCorpus: the cases reported so far are loaded ones with the verdict   *)
(* compareExpected gave, what is printed are verdicts of these cases, in   *)
(* order, and a run that ends with a verdict has printed all of them.      *)
(***************************************************************************)
Line(j) == [case |-> j, ok |-> entries[j]]
Verdicts == {0, exitCorpusMismatch}

EntriesOK ==
    /\ cases \in Seq(CaseSpace) /\ entries \in Seq(BOOLEAN) /\ Len(entries) <= Len(cases)
    /\ \A j \in DOMAIN entries : cases[j].loads /\ entries[j] = compareExpected(cases[j])

StdoutOK ==
    /\ DOMAIN stdout = {"printed", "lines"}
    /\ \E n \in 0..Len(entries) : stdout.lines = [j \in 1..n |-> Line(j)]
    /\ status = Generating => entries = << >>
    /\ status = Generating \/ asked = "none" => stdout = Silent
    /\ status = Reporting =>
          IF asked = "human" THEN stdout.lines = [j \in 1..Len(entries) |-> Line(j)]
          ELSE stdout = Silent

VerdictOK ==
    /\ status \in {Generating, Reporting, 1} \cup Verdicts
    /\ asked \in {"none", "human", "json"} /\ (status = Reporting => asked # "none")
    /\ status \in Verdicts /\ stdout.printed =>
          /\ Len(entries) = Len(cases) /\ status = ExitStatus(entries)
          /\ stdout.lines = [j \in 1..Len(entries) |-> Line(j)]

PackagedOK ==
    packaged \notin {Pending, Unpackaged} =>
        /\ packaged.exit = status /\ packaged.result = stdout
        /\ stdout.printed /\ status \in {1} \cup Verdicts

CorpusInv == EntriesOK /\ StdoutOK /\ VerdictOK /\ PackagedOK

\* compareExpected, which looks each expectation up and compares the numbers,
\* decides whether runs and expectations can be paired off.
LEMMA PairedOff ==
    ASSUME NEW c \in CaseSpace, c.loads
    PROVE  compareExpected(c) <=> Agrees(c)
<1> DEFINE n == Len(c.expect)
           D == DOMAIN c.runs
<1>1. /\ D \subseteq RunIds /\ IsFiniteSet(D) /\ OnlyRun \notin D
  <2>1. D \subseteq RunIds
    BY DEF CaseSpace
  <2> QED BY <2>1, CorpusAssumption, FS_Subset
<1>2. /\ n \in Nat \ {0} /\ DOMAIN c.expect = 1..n
      /\ \/ n = 1 /\ c.expect[1].id = OnlyRun
         \/ /\ \A i \in 1..n : c.expect[i].id \in RunIds
            /\ \A i, j \in 1..n : c.expect[i].id = c.expect[j].id => i = j
  <2>1. c.expect \in Expectations
    BY DEF CaseSpace
  <2>2. CASE \E accepts : c.expect = <<[id |-> OnlyRun, accepts |-> accepts]>>
    <3>1. PICK accepts : c.expect = <<[id |-> OnlyRun, accepts |-> accepts]>>
      BY <2>2
    <3>2. n = 1 /\ DOMAIN c.expect = 1..1 /\ c.expect[1] = [id |-> OnlyRun, accepts |-> accepts]
      BY <3>1
    <3>3. c.expect[1].id = OnlyRun
      BY <3>2
    <3> HIDE DEF n
    <3> QED BY <3>2, <3>3
  <2>3. CASE \E m \in Nat : \E ids \in [1..m -> RunIds] :
                /\ ids # << >> /\ IsInjective(ids)
                /\ c.expect = [i \in DOMAIN ids |-> [id |-> ids[i], accepts |-> Wanted]]
    <3>0. PICK m \in Nat : \E ids \in [1..m -> RunIds] :
                /\ ids # << >> /\ IsInjective(ids)
                /\ c.expect = [i \in DOMAIN ids |-> [id |-> ids[i], accepts |-> Wanted]]
      BY <2>3
    <3>1. PICK ids \in [1..m -> RunIds] :
                /\ ids # << >> /\ IsInjective(ids)
                /\ c.expect = [i \in DOMAIN ids |-> [id |-> ids[i], accepts |-> Wanted]]
      BY <3>0
    <3>2. ids \in Seq(RunIds) /\ Len(ids) = m /\ DOMAIN ids = 1..m /\ m # 0
      BY <3>1
    <3>3. n = m /\ DOMAIN c.expect = 1..m
      BY <3>1, <3>2
    <3>4. \A i \in 1..m : c.expect[i].id = ids[i]
      BY <3>1, <3>2
    <3>5. \A i \in 1..m : ids[i] \in RunIds
      BY <3>1
    <3>6. \A i, j \in 1..m : ids[i] = ids[j] => i = j
      BY <3>1, <3>2 DEF IsInjective
    <3> HIDE DEF n
    <3> QED BY <3>2, <3>3, <3>4, <3>5, <3>6
  <2>4. Cardinality(RunIds) \in Nat
    BY CorpusAssumption, FS_CardinalityType
  <2>5. \/ \E accepts : c.expect = <<[id |-> OnlyRun, accepts |-> accepts]>>
        \/ \E ids \in BoundedSeq(RunIds, Cardinality(RunIds)) :
              /\ ids # << >> /\ IsInjective(ids)
              /\ c.expect = [i \in DOMAIN ids |-> [id |-> ids[i], accepts |-> Wanted]]
    BY <2>1 DEF Expectations
  <2>6. \A ids \in BoundedSeq(RunIds, Cardinality(RunIds)) :
           \E m \in Nat : ids \in [1..m -> RunIds]
    BY <2>4 DEF BoundedSeq, SeqOf
  <2> QED BY <2>2, <2>3, <2>5, <2>6
<1>6. compareExpected(c) <=>
         /\ Cardinality(D) = n
         /\ \A i \in 1..n : \E run \in D :
               /\ run = c.expect[i].id \/ (c.expect[i].id = OnlyRun /\ Cardinality(D) = 1)
               /\ c.runs[run] \in c.expect[i].accepts
  BY <1>2 DEF compareExpected
<1>7. Agrees(c) <=>
         \E pair \in [1..n -> D] :
            /\ ToSet(pair) = D /\ IsInjective(pair)
            /\ \A i \in 1..n : /\ c.expect[i].id \in {OnlyRun, pair[i]}
                               /\ c.runs[pair[i]] \in c.expect[i].accepts
  BY <1>2 DEF Agrees
<1> HIDE DEF n, D
<1>3. ASSUME NEW pair \in [1..n -> D], ToSet(pair) = D, IsInjective(pair)
      PROVE  Cardinality(D) = n
  <2>1. pair \in Bijection(1..n, D)
    BY <1>3 DEF ToSet, Bijection, Injection, Surjection
  <2> QED BY <1>2, <2>1, FS_CountingElements DEF ExistsBijection
<1>4. CASE n = 1 /\ c.expect[1].id = OnlyRun
  <2>1. compareExpected(c) <=> Cardinality(D) = 1 /\ \E run \in D : c.runs[run] \in c.expect[1].accepts
    <3>1. 1..n = {1}
      BY <1>4
    <3> QED BY <3>1, <1>4, <1>6
  <2>2. Agrees(c) <=> \E pair \in [1..1 -> D] : /\ ToSet(pair) = D /\ IsInjective(pair)
                                                /\ c.runs[pair[1]] \in c.expect[1].accepts
    <3>1. 1..n = {1} /\ 1..1 = {1}
      BY <1>4
    <3> QED BY <3>1, <1>4, <1>7
  <2>3. ASSUME Cardinality(D) = 1, NEW run \in D, c.runs[run] \in c.expect[1].accepts
        PROVE  Agrees(c)
    <3>1. D = {run}
      <4>1. PICK x : D = {x}
        BY <1>1, <2>3, FS_Singleton
      <4> QED BY <4>1
    <3> DEFINE pair == [i \in 1..1 |-> run]
    <3>2. pair \in [1..1 -> D] /\ ToSet(pair) = D /\ IsInjective(pair) /\ pair[1] = run
      BY <3>1 DEF ToSet, IsInjective
    <3> QED BY <2>2, <2>3, <3>2
  <2>4. ASSUME Agrees(c)
        PROVE  Cardinality(D) = 1 /\ \E run \in D : c.runs[run] \in c.expect[1].accepts
    <3>1. PICK pair \in [1..1 -> D] : /\ ToSet(pair) = D /\ IsInjective(pair)
                                      /\ c.runs[pair[1]] \in c.expect[1].accepts
      BY <2>2, <2>4
    <3> QED BY <1>3, <1>4, <3>1
  <2> QED BY <2>1, <2>3, <2>4
<1>5. CASE /\ \A i \in 1..n : c.expect[i].id \in RunIds
           /\ \A i, j \in 1..n : c.expect[i].id = c.expect[j].id => i = j
  <2> DEFINE ids == [i \in 1..n |-> c.expect[i].id]
  <2>1. compareExpected(c) <=>
           /\ Cardinality(D) = n
           /\ \A i \in 1..n : ids[i] \in D /\ c.runs[ids[i]] \in c.expect[i].accepts
    BY <1>5, <1>6, CorpusAssumption
  <2>2. Agrees(c) <=> \E pair \in [1..n -> D] :
           /\ ToSet(pair) = D /\ IsInjective(pair)
           /\ \A i \in 1..n : ids[i] = pair[i] /\ c.runs[pair[i]] \in c.expect[i].accepts
    <3>1. \A i \in 1..n : ids[i] = c.expect[i].id /\ ids[i] # OnlyRun
      BY <1>5, CorpusAssumption
    <3> HIDE DEF ids
    <3> QED BY <3>1, <1>7
  <2>3. ASSUME Cardinality(D) = n,
               \A i \in 1..n : ids[i] \in D /\ c.runs[ids[i]] \in c.expect[i].accepts
        PROVE  Agrees(c)
    <3>1. ids \in [1..n -> D] /\ IsInjective(ids)
      BY <1>5, <2>3 DEF IsInjective
    <3>2. ids \in Bijection(1..n, ToSet(ids)) /\ ToSet(ids) \subseteq D
      BY <3>1 DEF ToSet, Bijection, Injection, Surjection, IsInjective
    <3> HIDE DEF ids
    <3>3. Cardinality(ToSet(ids)) = n
      BY <1>2, <3>2, FS_CountingElements DEF ExistsBijection
    <3>4. ToSet(ids) = D
      BY <1>1, <2>3, <3>2, <3>3, FS_Subset
    <3> QED BY <2>2, <2>3, <3>1, <3>4
  <2>4. ASSUME Agrees(c)
        PROVE  /\ Cardinality(D) = n
               /\ \A i \in 1..n : ids[i] \in D /\ c.runs[ids[i]] \in c.expect[i].accepts
    <3>1. PICK pair \in [1..n -> D] :
             /\ ToSet(pair) = D /\ IsInjective(pair)
             /\ \A i \in 1..n : ids[i] = pair[i] /\ c.runs[pair[i]] \in c.expect[i].accepts
      BY <2>2, <2>4
    <3> QED BY <1>3, <3>1
  <2> QED BY <2>1, <2>3, <2>4
<1> QED BY <1>2, <1>4, <1>5

LEMMA VerdictIsBoolean == \A c : compareExpected(c) \in BOOLEAN
BY DEF compareExpected

LEMMA CorpusInvInit == CorpusInit => CorpusInv
<1> SUFFICES ASSUME CorpusInit PROVE CorpusInv
  OBVIOUS
<1>1. cases \in Seq(CaseSpace) /\ Len(cases) \in Nat
  BY CorpusAssumption DEF CorpusInit, BoundedSeq, SeqOf
<1>2. entries = << >> /\ stdout = Silent /\ status = Generating /\ packaged = Pending
  BY DEF CorpusInit
<1>3. EntriesOK
  BY <1>1, <1>2 DEF EntriesOK
<1>4. StdoutOK
  <2>1. << >> = [j \in 1..0 |-> Line(j)]
    OBVIOUS
  <2> QED BY <1>2, <2>1 DEF StdoutOK, Silent, Generating, Reporting
<1>5. VerdictOK /\ PackagedOK
  BY <1>2 DEF CorpusInit, VerdictOK, PackagedOK, Verdicts, Silent, Generating, Reporting,
              exitCorpusMismatch
<1> QED BY <1>3, <1>4, <1>5 DEF CorpusInv

\* The lines that were printed stay lines of the cases when one more is reported.
LEMMA LinesExtended ==
    ASSUME EntriesOK, NEW ok \in BOOLEAN, entries' = Append(entries, ok), NEW n \in 0..Len(entries)
    PROVE  /\ n \in 0..Len(entries') /\ Len(entries') = Len(entries) + 1
           /\ [j \in 1..n |-> Line(j)]' = [j \in 1..n |-> Line(j)]
           /\ LET lines == [j \in 1..Len(entries) |-> Line(j)]
              IN  Append(lines, [case |-> Len(entries) + 1, ok |-> ok])
                     = [j \in 1..Len(entries') |-> Line(j)']
<1> DEFINE m == Len(entries)
           line == [case |-> m + 1, ok |-> ok]
           lines == [j \in 1..m |-> Line(j)]
<1>1. /\ m \in Nat /\ Len(entries') = m + 1
      /\ \A j \in 1..m : entries'[j] = entries[j]
      /\ entries'[m + 1] = ok
  BY AppendProperties DEF EntriesOK
<1>2. [j \in 1..n |-> Line(j)]' = [j \in 1..n |-> Line(j)]
  <2>1. \A j \in 1..n : Line(j)' = Line(j)
    BY <1>1 DEF Line
  <2> QED BY <2>1
<1>3. Append(lines, line) = [j \in 1..(m + 1) |-> Line(j)']
  <2> DEFINE S == {Line(j) : j \in 1..m} \cup {line}
  <2>1. lines \in Seq(S) /\ Len(lines) = m /\ line \in S
    <3> HIDE DEF m
    <3> QED BY <1>1
  <2> HIDE DEF S, line
  <2>2. /\ Append(lines, line) \in Seq(S) /\ Len(Append(lines, line)) = m + 1
        /\ \A j \in 1..m : Append(lines, line)[j] = lines[j]
        /\ Append(lines, line)[m + 1] = line
    BY <2>1, AppendProperties
  <2>3. \A j \in 1..m : Line(j)' = Line(j)
    BY <1>1 DEF Line
  <2>4. \A j : j = m + 1 => Line(j)' = line
    BY <1>1 DEF Line, line
  <2>5. \A j \in 1..(m + 1) : Append(lines, line)[j] = Line(j)'
    <3> SUFFICES ASSUME NEW j \in 1..(m + 1) PROVE Append(lines, line)[j] = Line(j)'
      OBVIOUS
    <3>1. CASE j \in 1..m
      BY <2>2, <2>3, <3>1
    <3>2. CASE j = m + 1
      BY <2>2, <2>4, <3>2
    <3> QED BY <1>1, <3>1, <3>2
  <2>6. DOMAIN Append(lines, line) = 1..(m + 1)
    BY <2>2
  <2>7. Append(lines, line) = [j \in 1..(m + 1) |-> Append(lines, line)[j]]
    BY <2>2, <2>6
  <2> QED BY <2>5, <2>7
<1>4. Append(lines, line) = [j \in 1..Len(entries') |-> Line(j)']
  BY <1>1, <1>3
<1>5. n \in 0..(m + 1)
  BY <1>1
<1> QED BY <1>1, <1>2, <1>4, <1>5

LEMMA ReportCaseInv ==
    ASSUME CorpusInv, packaged = Pending, ReportCase
    PROVE  CorpusInv'
<1> DEFINE m == Len(entries)
           case == cases[m + 1]
           ok == compareExpected(case)
           line == [case |-> m + 1, ok |-> ok]
           LinesTo(n) == [j \in 1..n |-> Line(j)]
<1>1. /\ m \in Nat /\ m < Len(cases) /\ m + 1 \in DOMAIN cases /\ status = Reporting
      /\ asked \in {"human", "json"}
      /\ UNCHANGED <<cases, asked, packaged>>
      /\ IF asked = "human" THEN stdout.lines = LinesTo(m) ELSE stdout = Silent
  BY DEF ReportCase, CorpusInv, EntriesOK, StdoutOK, VerdictOK
<1>2. PackagedOK'
  BY <1>1 DEF PackagedOK, Pending
<1>3. CASE ~case.loads /\ status' = 1 /\ UNCHANGED <<entries, stdout>>
  BY <1>1, <1>2, <1>3 DEF CorpusInv, EntriesOK, StdoutOK, VerdictOK, Verdicts, Generating, Reporting,
                          exitCorpusMismatch, Line
<1>4. CASE /\ case.loads /\ entries' = Append(entries, ok)
           /\ \/ /\ stdout' = IF asked = "human"
                              THEN [printed |-> TRUE, lines |-> Append(stdout.lines, line)]
                              ELSE stdout
                 /\ status' = status
              \/ asked = "human" /\ status' = 1 /\ stdout' = stdout
  <2>1. ok \in BOOLEAN
    BY VerdictIsBoolean
  <2>2. EntriesOK'
    <3>1. /\ entries' \in Seq(BOOLEAN) /\ Len(entries') = m + 1
          /\ \A j \in 1..m : entries'[j] = entries[j]
          /\ entries'[m + 1] = ok
      BY <1>4, <2>1, AppendProperties DEF CorpusInv, EntriesOK
    <3>2. \A j \in DOMAIN entries' : j \in DOMAIN entries \/ j = m + 1
      BY <1>1, <3>1 DEF CorpusInv, EntriesOK
    <3>3. \A j \in DOMAIN entries' : cases[j].loads /\ entries'[j] = compareExpected(cases[j])
      BY <1>1, <1>4, <3>1, <3>2 DEF CorpusInv, EntriesOK
    <3> QED BY <1>1, <3>1, <3>3 DEF CorpusInv, EntriesOK
  <2>3. /\ Len(entries') = m + 1
        /\ \A n \in 0..m : n \in 0..Len(entries') /\ LinesTo(n)' = LinesTo(n)
        /\ Append(LinesTo(m), line) = [j \in 1..Len(entries') |-> Line(j)']
    BY <1>1, <1>4, <2>1, LinesExtended DEF CorpusInv
  <2>4. StdoutOK'
    <3>1. status' # Generating /\ asked' # "none"
      BY <1>1, <1>4 DEF Generating, Reporting
    <3>2. CASE stdout' = [printed |-> TRUE, lines |-> Append(stdout.lines, line)] /\ asked = "human"
      <4>1. stdout'.lines = [j \in 1..Len(entries') |-> Line(j)']
        BY <1>1, <2>3, <3>2
      <4>2. Len(entries') \in 0..Len(entries')
        BY <1>1, <2>3
      <4> QED BY <1>1, <3>1, <3>2, <4>1, <4>2 DEF StdoutOK
    <3>3. CASE stdout' = stdout /\ (status' = 1 \/ asked = "json")
      <4>1. PICK n \in 0..m : stdout.lines = LinesTo(n)
        BY DEF CorpusInv, StdoutOK
      <4>2. n \in 0..Len(entries') /\ stdout'.lines = [j \in 1..n |-> Line(j)']
        BY <2>3, <3>3, <4>1
      <4>3. status' = Reporting => stdout' = Silent /\ asked' # "human"
        BY <1>1, <3>3 DEF Reporting
      <4>4. DOMAIN stdout' = {"printed", "lines"}
        BY <3>3 DEF CorpusInv, StdoutOK
      <4> QED BY <3>1, <4>2, <4>3, <4>4 DEF StdoutOK
    <3> QED BY <1>1, <1>4, <3>2, <3>3
  <2>5. VerdictOK'
    BY <1>1, <1>4 DEF CorpusInv, VerdictOK, Verdicts, Generating, Reporting, exitCorpusMismatch
  <2> QED BY <1>2, <2>2, <2>4, <2>5 DEF CorpusInv
<1> QED BY <1>3, <1>4 DEF ReportCase

LEMMA FinishReportInv ==
    ASSUME CorpusInv, packaged = Pending, FinishReport
    PROVE  CorpusInv'
<1> DEFINE lines == [j \in DOMAIN entries |-> [case |-> j, ok |-> entries[j]]]
<1>1. /\ status = Reporting /\ Len(entries) = Len(cases)
      /\ UNCHANGED <<cases, asked, entries, packaged>>
      /\ asked \in {"human", "json"}
      /\ DOMAIN entries = 1..Len(entries) /\ Len(entries) \in Nat
      /\ lines = [j \in 1..Len(entries) |-> Line(j)]
  BY DEF FinishReport, CorpusInv, EntriesOK, VerdictOK, Line
<1>2. EntriesOK' /\ PackagedOK'
  BY <1>1 DEF CorpusInv, EntriesOK, PackagedOK, Pending
<1>3. ExitStatus(entries) \in Verdicts
  BY DEF ExitStatus, Verdicts
<1>4. \A n : [j \in 1..n |-> Line(j)]' = [j \in 1..n |-> Line(j)]
  BY <1>1 DEF Line
<1>5. /\ 0 \in 0..Len(entries') /\ Len(entries) \in 0..Len(entries')
      /\ status' \in Verdicts \cup {1} => status' \notin {Generating, Reporting}
      /\ Silent.lines = << >> /\ DOMAIN Silent = {"printed", "lines"}
  BY <1>1 DEF Silent, Verdicts, Generating, Reporting, exitCorpusMismatch
<1>6. ASSUME status' = ExitStatus(entries), DOMAIN stdout' = {"printed", "lines"},
             stdout'.lines = [j \in 1..Len(entries) |-> Line(j)]
      PROVE  CorpusInv'
  <2>1. stdout'.lines = [j \in 1..Len(entries) |-> Line(j)]'
    BY <1>1, <1>4, <1>6
  <2> HIDE DEF lines
  <2>2. StdoutOK'
    BY <1>1, <1>3, <1>5, <1>6, <2>1 DEF StdoutOK
  <2>3. VerdictOK'
    BY <1>1, <1>3, <1>5, <1>6, <2>1 DEF VerdictOK, ExitStatus
  <2> QED BY <1>2, <2>2, <2>3 DEF CorpusInv
<1>8. CASE asked = "human" /\ status' = ExitStatus(entries) /\ stdout' = stdout
  <2>1. DOMAIN stdout = {"printed", "lines"} /\ stdout.lines = [j \in 1..Len(entries) |-> Line(j)]
    BY <1>1, <1>8 DEF CorpusInv, StdoutOK
  <2> QED BY <1>6, <1>8, <2>1
<1>9. CASE asked = "json" /\ status' = ExitStatus(entries)
           /\ stdout' = [printed |-> TRUE, lines |-> lines]
  BY <1>1, <1>6, <1>9
<1>7. CASE asked = "json" /\ status' = 1 /\ stdout' \in {Silent, [Silent EXCEPT !.printed = TRUE]}
  <2>1. DOMAIN stdout' = {"printed", "lines"} /\ stdout'.lines = [j \in 1..0 |-> Line(j)]
    BY <1>7 DEF Silent
  <2>2. StdoutOK'
    <3>1. 0 \in 0..Len(entries')
      BY <1>1
    <3>2. stdout'.lines = [j \in 1..0 |-> Line(j)]'
      BY <1>4, <2>1
    <3> QED BY <1>1, <1>7, <2>1, <3>1, <3>2 DEF StdoutOK, Generating, Reporting
  <2> QED BY <1>1, <1>2, <1>7, <2>2 DEF CorpusInv, VerdictOK, Verdicts, Generating, Reporting,
                                exitCorpusMismatch
<1> QED BY <1>1, <1>7, <1>8, <1>9 DEF FinishReport

LEMMA CorpusInvStep == CorpusInv /\ [CorpusNext]_corpusVars => CorpusInv'
<1> SUFFICES ASSUME CorpusInv, [CorpusNext]_corpusVars PROVE CorpusInv'
  OBVIOUS
<1>1. CASE packaged = Pending /\ Generate
  <2>1. /\ entries = << >> /\ stdout = Silent
        /\ UNCHANGED <<cases, asked, entries, stdout, packaged>>
        /\ status' = 1 \/ status' = 0 \/ (status' = Reporting /\ asked # "none")
    BY <1>1 DEF Generate, CorpusInv, StdoutOK
  <2>2. EntriesOK' /\ PackagedOK'
    BY <1>1, <2>1 DEF CorpusInv, EntriesOK, PackagedOK, Pending
  <2>3. StdoutOK'
    <3>1. << >> = [j \in 1..0 |-> Line(j)]' /\ Len(entries') = 0
      BY <2>1
    <3> QED BY <2>1, <3>1 DEF StdoutOK, Silent, Generating, Reporting
  <2>4. VerdictOK'
    BY <2>1 DEF CorpusInv, VerdictOK, Verdicts, Silent, Reporting, exitCorpusMismatch
  <2> QED BY <2>2, <2>3, <2>4 DEF CorpusInv
<1>2. CASE packaged = Pending /\ ReportCase
  BY <1>2, ReportCaseInv
<1>3. CASE packaged = Pending /\ FinishReport
  BY <1>3, FinishReportInv
<1>4. CASE RunConformance
  <2>1. UNCHANGED <<cases, asked, entries, stdout, status>>
    BY <1>4 DEF RunConformance
  <2>2. EntriesOK' /\ StdoutOK' /\ VerdictOK'
    BY <2>1 DEF CorpusInv, EntriesOK, StdoutOK, VerdictOK, Line
  <2>3. PackagedOK'
    BY <1>4, <2>1 DEF RunConformance, CorpusInv, VerdictOK, PackagedOK
  <2> QED BY <2>2, <2>3 DEF CorpusInv
<1>5. CASE UNCHANGED corpusVars
  BY <1>5 DEF corpusVars, CorpusInv, EntriesOK, StdoutOK, VerdictOK, PackagedOK, Line
<1> QED BY <1>1, <1>2, <1>3, <1>4, <1>5 DEF CorpusNext

\* For any cases: a packaged status of 0 or 3 and the report beside it say the
\* same of every case (reportCases, runConformance).
THEOREM EvidenceMatchesStatusHolds == CorpusSpec => []EvidenceMatchesStatus
<1>1. CorpusInv => EvidenceMatchesStatus
  <2> DEFINE disagreeing == {j \in DOMAIN cases : ~Agrees(cases[j])}
             lines == packaged.result.lines
             complete == [j \in DOMAIN lines |-> lines[j].case] = [j \in DOMAIN cases |-> j]
  <2> SUFFICES ASSUME CorpusInv, packaged \notin {Pending, Unpackaged}
               PROVE  /\ packaged.exit = 0 => complete /\ disagreeing = {}
                      /\ packaged.exit = exitCorpusMismatch => complete /\ disagreeing # {}
                      /\ \A j \in DOMAIN lines : lines[j].ok = (lines[j].case \notin disagreeing)
    BY DEF EvidenceMatchesStatus
  <2>1. /\ packaged.exit = status /\ packaged.result = stdout /\ stdout.printed
        /\ DOMAIN cases = 1..Len(cases) /\ DOMAIN entries = 1..Len(entries)
        /\ Len(cases) \in Nat /\ Len(entries) \in Nat /\ Len(entries) <= Len(cases)
    BY DEF CorpusInv, PackagedOK, EntriesOK
  <2>2. PICK n \in 0..Len(entries) : lines = [j \in 1..n |-> Line(j)]
    BY <2>1 DEF CorpusInv, StdoutOK
  <2>3. /\ DOMAIN lines = 1..n
        /\ \A j \in 1..n : lines[j].case = j /\ lines[j].ok = entries[j]
    BY <2>2 DEF Line
  <2>4. ASSUME NEW j \in DOMAIN entries
        PROVE  /\ j \in DOMAIN cases /\ entries[j] = Agrees(cases[j])
               /\ entries[j] = FALSE <=> ~Agrees(cases[j])
    <3>1. /\ j \in DOMAIN cases /\ cases[j] \in CaseSpace /\ cases[j].loads
          /\ entries[j] = compareExpected(cases[j])
      BY <2>1 DEF CorpusInv, EntriesOK
    <3>2. compareExpected(cases[j]) <=> Agrees(cases[j])
      BY <3>1, PairedOff
    <3>3. compareExpected(cases[j]) \in BOOLEAN /\ Agrees(cases[j]) \in BOOLEAN
      BY VerdictIsBoolean DEF Agrees
    <3> QED BY <3>1, <3>2, <3>3
  <2> HIDE DEF lines
  <2>5. ASSUME NEW j \in DOMAIN lines
        PROVE  lines[j].ok = (lines[j].case \notin disagreeing)
    <3>1. /\ j \in DOMAIN entries /\ j \in DOMAIN cases
          /\ lines[j].case = j /\ lines[j].ok = Agrees(cases[j])
      <4>1. j \in DOMAIN entries /\ lines[j].case = j /\ lines[j].ok = entries[j]
        BY <2>1, <2>3, <2>5
      <4> QED BY <2>4, <4>1, Zenon
    <3>2. (j \notin disagreeing) = Agrees(cases[j])
      BY <3>1, Zenon DEF Agrees
    <3> HIDE DEF disagreeing
    <3> QED BY <3>1, <3>2, Zenon
  <2>6. ASSUME status \in Verdicts
        PROVE  /\ complete
               /\ status = 0 <=> disagreeing = {}
    <3>1. Len(entries) = Len(cases) /\ status = ExitStatus(entries)
          /\ stdout.lines = [j \in 1..Len(entries) |-> Line(j)]
      BY <2>1, <2>6 DEF CorpusInv, VerdictOK
    <3>2. DOMAIN lines = DOMAIN cases /\ \A j \in DOMAIN lines : lines[j].case = j
      BY <2>1, <3>1 DEF lines, Line
    <3>3. FALSE \in ToSet(entries) <=> disagreeing # {}
      <4>1. DOMAIN entries = DOMAIN cases
        BY <2>1, <3>1
      <4>2. \A j \in DOMAIN cases : entries[j] = FALSE <=> ~Agrees(cases[j])
        BY <2>4, <4>1, Zenon
      <4>3. FALSE \in ToSet(entries) <=> \E j \in DOMAIN cases : entries[j] = FALSE
        BY <4>1, Zenon DEF ToSet
      <4> QED BY <4>2, <4>3
    <3>4. complete
      <4> HIDE DEF disagreeing
      <4> QED BY <3>2, Zenon
    <3>5. status = 0 <=> FALSE \notin ToSet(entries)
      <4>1. status = IF FALSE \in ToSet(entries) THEN 3 ELSE 0
        BY <3>1, Zenon DEF ExitStatus, exitCorpusMismatch
      <4> DEFINE some == FALSE \in ToSet(entries)
      <4> HIDE DEF some
      <4>2. status = IF some THEN 3 ELSE 0
        BY <4>1, Zenon DEF some
      <4>3. status = 0 <=> ~some
        BY <4>2
      <4> QED BY <4>3, Zenon DEF some
    <3> HIDE DEF disagreeing, complete
    <3> QED BY <3>3, <3>4, <3>5, Zenon
  <2> QED BY <2>1, <2>5, <2>6 DEF Verdicts, exitCorpusMismatch
<1> QED BY <1>1, CorpusInvInit, CorpusInvStep, PTL DEF CorpusSpec

----------------------------------------------------------------------------
(***************************************************************************)
(* AELSubprocess: what runChecker returns as evidence.  Once Run has       *)
(* returned, no process of the group is left; a killed command always      *)
(* leaves an ended context behind, so one whose output is being read was   *)
(* not killed; and from the reading on, only a process that left the group *)
(* can make the file differ from what was read.                            *)
(***************************************************************************)
AfterWait == {"halt", "stat", "exceeded", "context", "read", "outcome", "return", "returned"}

Sizes == size \in Nat /\ captured \in Nat

GroupGone == pc \in AfterWait => Ended /\ ~group

KilledByContext == child = "killed" => ctx # "live"

NotKilled == pc \in {"read", "outcome"} => child # "killed"

ReadWhole == pc = "outcome" => captured <= Limit /\ (~escaped => captured = size)

OkReturned == result = "ok" => pc \in {"return", "returned"} /\ child = "exited"

SubInv ==
    /\ Sizes /\ GroupGone /\ KilledByContext /\ NotKilled
    /\ ReadWhole /\ OkReturned /\ WholeOutput

USE DEF Sizes, GroupGone, KilledByContext, NotKilled, ReadWhole, OkReturned, AfterWait, Ended

(***************************************************************************)
(* SubInv is inductive.                                                    *)
(***************************************************************************)
LEMMA SubInvInit == Init => SubInv
BY DEF Init, SubInv, WholeOutput

LEMMA SubInvNext == SubInv /\ [Next]_vars => SubInv'
<1> SUFFICES ASSUME SubInv, [Next]_vars PROVE SubInv'
  OBVIOUS
<1> USE LimitAssumption DEF SubInv, WholeOutput, overLimit, processes, Go
<1>1. CASE Write BY <1>1 DEF Write
<1>2. CASE ChildExits BY <1>2 DEF ChildExits
<1>3. CASE Deadline BY <1>3 DEF Deadline
<1>4. CASE KillGroup BY <1>4 DEF KillGroup
<1>5. CASE Watchdog BY <1>5 DEF Watchdog, DogPolls, DogStores, DogStops, DogHalts
<1>6. CASE Start BY <1>6 DEF Start
<1>7. CASE Reap BY <1>7 DEF Reap
<1>8. CASE Halt BY <1>8 DEF Halt
<1>9. CASE LastStat BY <1>9 DEF LastStat
<1>10. CASE Exceeded BY <1>10 DEF Exceeded
<1>11. CASE ContextErr BY <1>11 DEF ContextErr
<1>12. CASE readCapturedFile BY <1>12 DEF readCapturedFile
<1>13. CASE Outcome BY <1>13 DEF Outcome
<1>14. CASE Return BY <1>14 DEF Return
<1>15. CASE UNCHANGED vars BY <1>15 DEF vars
<1> QED
  BY <1>1, <1>2, <1>3, <1>4, <1>5, <1>6, <1>7, <1>8, <1>9, <1>10, <1>11,
     <1>12, <1>13, <1>14, <1>15 DEF Next, Runner

LEMMA SubInvariance == Spec => []SubInv
BY SubInvInit, SubInvNext, PTL DEF Spec

(***************************************************************************)
(* What runChecker returns is within the limit and is all the command and  *)
(* its group wrote.                                                        *)
(***************************************************************************)
THEOREM WholeOutputHolds == Spec => []WholeOutput
<1>1. SubInv => WholeOutput
  BY DEF SubInv
<1> QED
  BY <1>1, SubInvariance, PTL

(***************************************************************************)
(* A command that was killed for its size or its time, or never started,   *)
(* gives no output to sign.                                                *)
(***************************************************************************)
THEOREM OkMeansFinishedHolds == Spec => []OkMeansFinished
<1>1. SubInv => OkMeansFinished
  BY DEF SubInv, OkMeansFinished
<1> QED
  BY <1>1, SubInvariance, PTL
=============================================================================
