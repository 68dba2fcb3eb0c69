------------------------------ MODULE AELBinding ------------------------------
(***************************************************************************)
(* What the signature on a package covers (checker/internal/ael/package.go,*)
(* the part of validatePackageDir after the signature): the file index,    *)
(* the references into it, the verification keys, the bound artifact and   *)
(* the grades of a verification record.  AELPackage takes its outcome as   *)
(* the fields blobs, bound and agreed.                                     *)
(*                                                                         *)
(* A file's content stands for its own size and digest; a path is a        *)
(* sequence of names.  An author writes files and fills in a manifest,     *)
(* packs them (which computes the digests), and before or after that       *)
(* anything may be changed: by the author, who signs what results, or,     *)
(* files only, by whoever holds the package.                               *)
(***************************************************************************)
EXTENDS Integers, SequencesExt

CONSTANTS
    PublicKeys,           \* public keys; a .pub file is named after the key it holds
    Runs, Lines,    \* runs, and the grade lines a run may be given
    MaxEdits        \* bound on the changes made to the coherent package

ASSUME EditsAssumption == MaxEdits \in Nat
ASSUME RunsAssumption == IsFiniteSet(Runs) /\ Lines # {}

VARIABLES
    tree,       \* the files: path to content
    manifest,   \* the package manifest
    edits       \* changes made so far

packageVars == <<tree, manifest, edits>>

----------------------------------------------------------------------------
(***************************************************************************)
(* Contents and paths.                                                     *)
(***************************************************************************)
ArtifactOf(runs) == <<"artifact", runs>>
KeyFile(key) == <<"key", key>>
ReportFile(grades) == <<"report", grades>>
Output == <<"output">>

Under(dir, path) == Len(dir) < Len(path) /\ SubSeq(path, 1, Len(dir)) = dir

\* LoadArtifact reads <root>/manifest.json, and of a keys directory the
\* files that hold the key they are named after.
Loaded(root) == Append(root, "manifest.json")
LoadedKeys(dir) ==
    {key \in PublicKeys : Append(dir, key) \in DOMAIN tree /\ tree[Append(dir, key)] = KeyFile(key)}
IsArtifact(path) == path \in DOMAIN tree /\ tree[path][1] = "artifact"
discoveredPackageRuns(root) == tree[Loaded(root)][2]

\* The runs a machine report holds: none when the file is something else.
ReportRuns(path) == IF tree[path][1] = "report" THEN tree[path][2] ELSE << >>

Paths(entries) == [i \in DOMAIN entries |-> entries[i].path]
RunsOf(grades) == [i \in DOMAIN grades |-> grades[i].run]

\* The members of a set in some order: SetToSeq, found step by step.
Listed(set) == FoldSet(LAMBDA member, list : Append(list, member), << >>, set)

\* sameStringSet against a list without repetitions.
sameStringSet(set, list) == IsInjective(list) /\ ToSet(list) = set

----------------------------------------------------------------------------
(***************************************************************************)
(* The validation.                                                         *)
(***************************************************************************)
validatePackageSemantics(m) == m.runs # << >> /\ IsInjective(RunsOf(m.grades))

packageReferencedBlobs(m) == {m.bound, m.report, m.output} \cup ToSet(m.inputs)

\* No path twice; references as indexed; the files exactly the indexed ones.
validatePackageBlobs(m) ==
    /\ IsInjective(Paths(m.files)) /\ IsInjective(Paths(m.inputs))
    /\ packageReferencedBlobs(m) \subseteq ToSet(m.files)
    /\ ToSet(m.files) = {[path |-> path, digest |-> tree[path]] : path \in DOMAIN tree}

\* Every key file under the keys directory is a listed input, and the
\* signer's and the status authority's keys are among the inputs.
validatePackageInputKeys(m) ==
    LET declared == ToSet(Paths(m.inputs))
    IN  /\ \E path \in DOMAIN tree : Under(m.keysDir, path)
        /\ \A path \in DOMAIN tree :
              Under(m.keysDir, path) /\ Last(path) \in PublicKeys => path \in declared
        /\ {KeyFile(m.signer), KeyFile(m.status)} \subseteq {tree[path] : path \in declared}

\* Mutant: any manifest.json inside the root may be declared.
validateArtifactBindingNested(m) ==
    /\ Under(m.root, m.bound.path) /\ Last(m.bound.path) = "manifest.json"
    /\ IsArtifact(Loaded(m.root))
    /\ LET runs == discoveredPackageRuns(m.root)
       IN  /\ sameStringSet(runs, m.runs) /\ m.run \in runs
           /\ m.kind = "verification-record" => sameStringSet(runs, RunsOf(m.grades))

validateArtifactBinding(m) ==
    /\ m.bound.path = Loaded(m.root)
    /\ IsArtifact(Loaded(m.root))
    /\ LET runs == discoveredPackageRuns(m.root)
       IN  /\ sameStringSet(runs, m.runs) /\ m.run \in runs
           /\ m.kind = "verification-record" => sameStringSet(runs, RunsOf(m.grades))

\* Mutant: runs of the report that the record does not grade are overlooked.
validatePackageGradesAgainstMachineOutputSubset(m) ==
    LET runs == ReportRuns(m.report.path)
    IN  IsInjective(RunsOf(runs)) /\ ToSet(m.grades) \subseteq ToSet(runs)

validatePackageGradesAgainstMachineOutput(m) ==
    LET runs == ReportRuns(m.report.path)
    IN  /\ Len(runs) = Len(m.grades)
        /\ IsInjective(RunsOf(runs))
        /\ ToSet(m.grades) \subseteq ToSet(runs)

\* validatePackageDir, of a package whose signature verifies.
Accepted(m) ==
    /\ validatePackageSemantics(m)
    /\ validatePackageBlobs(m)
    /\ validatePackageInputKeys(m)
    /\ validateArtifactBinding(m)
    /\ m.kind = "verification-record" /\ m.exit \in {0, 4} =>
          validatePackageGradesAgainstMachineOutput(m)

----------------------------------------------------------------------------
(***************************************************************************)
(* A coherent package, and changes to it.  Digests are << >> until Pack.   *)
(* The keys the artifact is checked with and those of the signer and the   *)
(* status authority lie in one directory, of which each is an input.       *)
(***************************************************************************)
ArtifactRoot == <<"artifact">>
KeysDir == <<"keys">>
ReportPath == <<"report.json">>
OutputPath == <<"output">>
Grade(run, line) == [run |-> run, line |-> line]
Unhashed(path) == [path |-> path, digest |-> << >>]

CoherentPackage(kind, runs, status) ==
    LET signer == CHOOSE key \in PublicKeys : TRUE
        line == CHOOSE line \in Lines : TRUE
        grades == [i \in DOMAIN runs |-> Grade(runs[i], line)]
        keys == SetToSeq({signer, status})
        inputs == [i \in DOMAIN keys |-> Append(KeysDir, keys[i])]
        paths == {Loaded(ArtifactRoot), ReportPath, OutputPath} \cup ToSet(inputs)
    IN  /\ tree = [path \in paths |->
                      CASE path = Loaded(ArtifactRoot) -> ArtifactOf(ToSet(runs))
                        [] path = ReportPath -> ReportFile(grades)
                        [] path = OutputPath -> Output
                        [] OTHER -> KeyFile(Last(path))]
        /\ manifest = [kind |-> kind, files |-> << >>, root |-> ArtifactRoot, keysDir |-> KeysDir,
                       inputs |-> [i \in DOMAIN inputs |-> Unhashed(inputs[i])],
                       bound |-> Unhashed(Loaded(ArtifactRoot)), report |-> Unhashed(ReportPath),
                       output |-> Unhashed(OutputPath),
                       runs |-> runs, run |-> runs[1], exit |-> 0,
                       grades |-> IF kind = "verification-record" THEN grades ELSE << >>,
                       signer |-> signer, status |-> status]

PackageInit ==
    /\ \E kind \in {"verification-record", "evaluation-package"}, status \in PublicKeys,
          runs \in {SetToSeq(set) : set \in (SUBSET Runs) \ {{}}} :
              CoherentPackage(kind, runs, status)
    /\ edits = 0

Packed == manifest.files # << >>

Pack ==
    LET paths == Listed(DOMAIN tree)
        Hashed(blob) == [blob EXCEPT !.digest = tree[blob.path]]
    IN  /\ ~Packed
        /\ {blob.path : blob \in packageReferencedBlobs(manifest)} \subseteq DOMAIN tree
        /\ manifest' = [manifest EXCEPT
              !.files = [i \in DOMAIN paths |-> [path |-> paths[i], digest |-> tree[paths[i]]]],
              !.inputs = [i \in DOMAIN @ |-> Hashed(@[i])],
              !.bound = Hashed(@), !.report = Hashed(@), !.output = Hashed(@)]
        /\ UNCHANGED <<tree, edits>>

MayEdit == edits < MaxEdits /\ edits' = edits + 1

\* Where a manifest or a key may be put: a second root, inside the first, aside.
Elsewhere == {<<"copy">>, Append(ArtifactRoot, "inner")}
KeyPlaces == UNION {{Append(dir, key) : key \in PublicKeys} :
                       dir \in {KeysDir, <<"copy">>, Append(KeysDir, "inner")}}

With(path, file) == [p \in DOMAIN tree \cup {path} |-> IF p = path THEN file ELSE tree[p]]

WriteFile ==
    /\ MayEdit /\ UNCHANGED manifest
    /\ \/ \E dir \in Elsewhere \cup {ArtifactRoot}, runs \in SUBSET Runs :
             tree' = With(Loaded(dir), ArtifactOf(runs))
       \/ \E path \in KeyPlaces, key \in PublicKeys : tree' = With(path, KeyFile(key))
       \/ \E run \in Runs, line \in Lines : LET old == ReportRuns(ReportPath) IN
             /\ ReportPath \in DOMAIN tree
             /\ \/ tree' = [tree EXCEPT ![ReportPath] = ReportFile(Append(old, Grade(run, line)))]
                \/ \E i \in DOMAIN old :
                      tree' = [tree EXCEPT ![ReportPath][2][i].line = line]

RemoveFile ==
    /\ MayEdit /\ UNCHANGED manifest
    /\ \E path \in DOMAIN tree : tree' = Restrict(tree, DOMAIN tree \ {path})

\* The author points the manifest at other files, or misstates a digest.
Repoint ==
    /\ MayEdit /\ UNCHANGED tree
    /\ \E path \in DOMAIN tree :
          LET Entry(file) == IF Packed THEN [path |-> path, digest |-> file] ELSE Unhashed(path)
          IN  \E file \in {tree[path], Output} : \E entry \in {Entry(file)} :
                \/ manifest' = [manifest EXCEPT !.bound = entry]
                \/ manifest' = [manifest EXCEPT !.report = entry]
                \/ manifest' = [manifest EXCEPT !.inputs = Append(@, entry)]
                \/ manifest' = [manifest EXCEPT !.root = Front(path)]
                \/ manifest' = [manifest EXCEPT !.root = Front(path), !.bound = entry]
                \/ manifest' = [manifest EXCEPT !.keysDir = Front(path)]
                \/ Packed /\ manifest' = [manifest EXCEPT !.files = Append(@, entry)]

\* The author drops an input or an indexed file.
Unlist ==
    /\ MayEdit /\ UNCHANGED tree
    /\ \/ \E i \in DOMAIN manifest.inputs : manifest' = [manifest EXCEPT !.inputs = RemoveAt(@, i)]
       \/ \E i \in DOMAIN manifest.files : manifest' = [manifest EXCEPT !.files = RemoveAt(@, i)]

\* The author declares other runs, grades, keys or an exit status.
Restate ==
    /\ MayEdit /\ UNCHANGED tree
    /\ \/ \E run \in Runs : \/ manifest' = [manifest EXCEPT !.run = run]
                            \/ manifest' = [manifest EXCEPT !.runs = Append(@, run)]
       \/ \E i \in DOMAIN manifest.runs : manifest' = [manifest EXCEPT !.runs = RemoveAt(@, i)]
       \/ \E i \in DOMAIN manifest.grades :
             \/ manifest' = [manifest EXCEPT !.grades = RemoveAt(@, i)]
             \/ \E line \in Lines : manifest' = [manifest EXCEPT !.grades[i].line = line]
       \/ \E run \in Runs, line \in Lines :
             /\ manifest.kind = "verification-record"
             /\ manifest' = [manifest EXCEPT !.grades = Append(@, Grade(run, line))]
       \/ \E exit \in {0, 3, 4} : manifest' = [manifest EXCEPT !.exit = exit]
       \/ \E key \in PublicKeys : \/ manifest' = [manifest EXCEPT !.signer = key]
                            \/ manifest' = [manifest EXCEPT !.status = key]

PackageNext == Pack \/ WriteFile \/ RemoveFile \/ Repoint \/ Unlist \/ Restate

PackageSpec == PackageInit /\ [][PackageNext]_packageVars

----------------------------------------------------------------------------
(***************************************************************************)
(* Properties.                                                             *)
(***************************************************************************)
\* Everything an accepted package is evaluated from is what was signed: the
\* artifact manifest the loader opens is the declared one, each key it loads
\* is a declared input, and every file is in the index with its content
\* (package.go 1181: the digest binding must not bind some other file).
EvaluationIsSigned ==
    LET Signed == {<<file.path, file.digest>> : file \in ToSet(manifest.files)}
    IN  Packed /\ Accepted(manifest) =>
          /\ <<Loaded(manifest.root), manifest.bound.digest>> \in Signed
          /\ tree[Loaded(manifest.root)] = manifest.bound.digest
          /\ \A key \in LoadedKeys(manifest.keysDir) :
                [path |-> Append(manifest.keysDir, key), digest |-> KeyFile(key)]
                  \in ToSet(manifest.inputs)
          /\ \A path \in DOMAIN tree : <<path, tree[path]>> \in Signed

\* An accepted record of a completed evaluation grades every run of the
\* bound artifact once, each with the line the machine report gives it, and
\* the report has no run besides (validatePackageGradesAgainstMachineOutput).
GradesExact ==
    /\ Packed /\ Accepted(manifest)
    /\ manifest.kind = "verification-record" /\ manifest.exit \in {0, 4}
    => /\ ToSet(manifest.grades) = ToSet(ReportRuns(manifest.report.path))
       /\ \A run \in Runs :
             Cardinality({g \in ToSet(ReportRuns(manifest.report.path)) : g.run = run})
               = IF run \in discoveredPackageRuns(manifest.root) THEN 1 ELSE 0
=============================================================================
