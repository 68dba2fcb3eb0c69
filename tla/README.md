# A TLA+ model of the Agent Evidence Levels checker

The repository defines *agent evidence levels* (AEL-0 to AEL-4): how much a
third party may conclude from the logs an agent's recorders leave behind. Its
Go program (`checker/`) evaluates an artifact (recorder logs, keys, anchors,
counterparty statements), generates a conformance corpus, and emits and
validates signed evaluation packages. This directory models the program in
TLA+, checks small instances with TLC and proves theorems with TLAPS.

## 1. Inventory

| Component | State it keeps | Operations | What is hard |
|---|---|---|---|
| Artifact loader (`artifact.go`, `record.go`) | records with the facts `Verify` derived, logs, keys, anchors, statements | `LoadArtifact`, `Record.Verify`, `ForRun` | a missing key is *undecided*, not failed; later facts depend on earlier ones |
| Grade checks (`checks.go`) | none: outcomes a to w of one run, a grade | `Evaluate`, 23 checks, `computeGrade` | what the checks say *together* about a presenter who edits, replays, re-signs |
| `aelcheck` (`cmd/aelcheck`) | exit status | `conformanceExit` | several runs, one of them bad or not listed |
| Corpus generator (`cmd/aelgen`) | recorder chains, tree heads, statements; perturbed copies | `buildRecords`, `buildAnchors`, `buildCounterparty`, `buildCases` | each perturbation is tested alone; their combinations are not |
| Package emitter (`emit.go`) | staging directory, captured digests, output directory | `EmitEvaluationPackage` and its steps | files change between hash, evaluation and signature; failure half way; two emitters |
| Subprocess runner (`emit.go`, `process_unix.go`) | child process, output size, deadline | `runChecker`, `subprocessLimits` | three ways to end racing; orphaned processes |
| Package validator (`package.go`) | private snapshot, trust keys, display state | `ValidatePackage` | a copy that changes under validation; status records and time |
| Governability (`gov.go`) | per-event accumulators | `Governability`, `accumulate`, `coverage` | several records of one event, in any order |
| Policies and check R (`policy.go`, `checks.go`) | the policy directory | `ParsePolicy`, `Eval`, `checkR` | first match wins; a malformed rule counts only when it is reached; the directory may have been rearranged |
| Key generation (`keygen.go`) | key files of a role | `generateTrustKeypair`, `writeKeyFileExclusive` | the second file fails after the first was written; roots that share a directory share the private name |
| Canonical JSON (`canonical.go`) | none | `Canonicalize`, `IsCanonical` | one reading and one form of a document, however keys are spelled and ordered |
| Closed schemas, manifest limits (`schema.go`) | none | validators, `validateManifestResourceLimits` | limits at any depth, at their boundary |
| Corpus report (`cmd/aelgen`) | cases reported so far, what was printed | `generate`, `reportCases`, `ExitStatus` | a report that fails half way is packaged as evidence |
| Emission paths (`emit.go`) | the file system | `validateEmitPaths`, `createEmitStagingDir` | two ways to resolve one path through links |

The components interact through files: recorders and the external parties
produce an artifact, the checker reads it once into memory and evaluates it; the
emitter runs a checker binary on a copy, hashes what it copied and signs; the
validator snapshots the package, verifies signature, blobs and status and
re-evaluates the artifact. No shared memory is involved except inside the
subprocess runner (a watchdog goroutine and an atomic flag).

What makes them correct: a grade is never higher than the evidence supports,
whatever was done to the artifact; an honest complete run gets its grade; a
missing input makes a verdict undecided rather than wrong; what a package signs
is what was evaluated, and it appears in one piece or not at all.

## 2. Modules

| Module | Models |
|---|---|
| `AELArtifact` | the data `LoadArtifact` builds, `Record.Verify`, `ForRun`, Merkle recomputation |
| `AELChecks` | the checks a to w, `computeGrade`, `Evaluate`, `conformanceExit` |
| `AELRun` | the state machine: recording, presenting with edits, checking; the properties |
| `AELRunProofs` | TLAPS proofs about `AELRun`: the inductive invariant, AEL-0 and AEL-1 |
| `AELGradeProofs` | TLAPS proofs about `AELRun`: AEL-1 to AEL-4, the heartbeat, withheld keys, exit status |
| `AELPublish` | abstract: one final publication of a report with the inputs it is about |
| `AELEmit` | the emitters at one output path, with a left-behind writer, faults and retries; refines `AELPublish` |
| `AELEmitProofs` | TLAPS proofs about `AELEmit`: the refinement, and that a published package is whole |
| `AELSubprocess` | one command run by the emitter: the runner, the watchdog, the deadline, the descendants |
| `AELPackage` | validation of signed packages over time: trust roles, expiry, status statements, exit status |
| `AELPackageProofs` | TLAPS proofs about `AELPackage` |
| `AELConsumer` | a consumer that copies the published package file by file while it changes; extends `AELEmit` |
| `AELConsumerProofs` | TLAPS proof about `AELConsumer` |
| `AELBinding` | what the signature on a package covers: file index, references, keys, artifact, grades |
| `AELGov` | the governability report: classification, merging by event id, coverage |
| `AELKeygen` | key generators of one role, call by call, with failures, crashes and retries |
| `AELKeygenProofs` | TLAPS proofs about `AELKeygen` |
| `AELPaths` | the paths of an emission over a file system with symbolic links |
| `AELCorpus` | the corpus run, its report, and what the emitter packages of it |
| `AELEvidenceProofs` | TLAPS proofs about `AELBinding`, `AELCorpus` and `AELSubprocess` |
| `AELLimits` | JSON texts as token sequences, and the pass over a manifest's limits |
| `AELJson` | canonical JSON; extends `AELLimits` |
| `AELMerkle` | the generator's Merkle tree and proofs against the checker's climb |
| `AELPolicy` | policies, their evaluation, and the suffix +R |
| `AELAlgorithmProofs` | TLAPS proofs about `AELGov`, `AELPolicy`, `AELMerkle`, `AELPaths` and `AELLimits` |
| `MCChain`, `MCRewrite`, `MCExternal` | instances of `AELRun` for TLC |
| `MCEmit`, `MCConsumer`, `MCPackage`, `MCGov`, `MCPaths` | instances of the modules of these names |
| `MCAlgorithms` | `AELGov`, `AELJson`, `AELMerkle` and `AELPolicy` in one run |
| `MCTools` | `AELSubprocess`, `AELKeygen`, `AELBinding`, `AELPaths` and `AELCorpus` in one run |

`AELRun` extends `AELChecks`, which extends `AELArtifact`. `AELConsumer` extends
`AELEmit`, which names `AELPublish` as its abstract specification (`Published`, by
`INSTANCE ... WITH`). `AELJson` extends `AELLimits`. The other modules stand alone, and
each says what another one takes for granted: the emitter sees a subprocess as one atomic step that
yields a report or an error (`AELSubprocess`) and its output path as one that does
not overlap its inputs (`AELPaths`); `AELArtifact` takes an inclusion proof to
reach a log's root for exactly the right leaf and place (`AELMerkle`) and
canonical bytes to have one reading (`AELJson`); `AELGov` takes the policy lookup
as an outcome (`AELPolicy` models the files); `AELPackage` takes the blobs, the
bound artifact and the agreement of the grades as facts of a manifest
(`AELBinding`) and the private copy as one tree (`AELConsumer`).

`MCAlgorithms` and `MCTools` put modules that share no state into one run: in each
behaviour one of them runs and the variables of the others are fixed at a finished
state. The reachable states are the sum of theirs, not the product, and each
property speaks of the one that runs.

### AELRun: state and actions

`written` holds what every recorder signed, log by log; `tree` the external
log's leaves; `issued` the counterparty's statements; `leaked` the keys the
presenter holds; `art` the artifact; `report` the checker's result. `phase`
goes from recording to presenting to checked.

* *Recording*: `WriteOpen`, `WriteActivity`, `WriteHeartbeat`, `WriteClose`
  continue a chain as `buildRecords` does (next `seq`, hash of the previous
  payload, a close that commits to count and head). `BodyForms` lets an activity
  record be signed in non-canonical bytes or with an unknown field, as the
  corpus's raw patches do. `Register` puts the current head of a chain into the
  external log, `ConfirmReceived` and `ConfirmNone` issue statements, `Tick` is
  time.
* *Presenting*: `Present` assembles the artifact the way `writeCase` does, with
  any of the tree heads the log could have signed. Then up to `MaxEdits` edits of
  the kinds in `EditKinds`: the corpus's perturbations, at any place and in any
  combination. Records are dropped, exchanged, flipped, garbled or spliced from
  elsewhere; with a leaked key new ones are appended or a whole log is re-signed;
  logs are left out of the manifest (though not the last), listed twice, put under
  another recorder, another run or the empty run; keys withheld;
  `anchors.json` and `counterparty.jsonl` doctored. `EditKinds` gives the kinds
  that each edit in turn may be of: rewriting history takes an edit of the records
  *and then* one of the anchors or the head.
  The keys that leak together are a member of `CanLeak`. An instance lists the sets that
  matter to its properties, since with more keys the presenter can do whatever it could
  with fewer; the theorems are about every choice of sets.
* *Checking*: `Check` evaluates what is presented. Nothing follows, so the runs
  say `CHECK_DEADLOCK FALSE`.

### AELEmit: state and actions

Each emitter `e` has a program counter, a staging directory `stage[e]` (a
function from paths to contents, which after the rename is its package), the
index of the copied inputs, the private replica, what the commands printed, the
index to be signed, and the two files `manifest[e]` and `signed[e]`. `out` says
what is at the shared output path. The actions follow `EmitEvaluationPackage` in
order: `CreateStaging`, `CopyInputs`, `RunConformance`, `Replicate` (one file a
step), `Evaluate`, `DigestSpec`, `IndexFile` (one file a step), `BindInputs` with
its three comparisons, `WriteManifest`, `WriteSignature`, and the four system
calls of `publishEmitPackage`. Any error return is `Fail`, which cleans up;
`StepFails` is an error that the model does not compute; `Crash` leaves
everything behind; `Retry` is the operator's. From the conformance command on, a
process left behind may write, add or remove any file of the package or rewrite
its manifest at any moment (`WriteFile`, `RemoveFile`, `RewriteManifest`).

### AELSubprocess: state and actions

The runner (`Start`, `Reap`, `Halt`, `LastStat`, `Exceeded`, `ContextErr`,
`readCapturedFile`, `Outcome`, `Return`), the watchdog goroutine (`DogPolls`,
`DogStores`, `DogStops`, `DogHalts`), the context's `Deadline` and `KillGroup`,
and the command with its descendants (`Write`, `ChildExits`) take steps in any
order. `over` is the atomic flag, `done` the closed channel, `ctx` the context
with its first cause.

### AELConsumer: state and actions

To the emitter's variables it adds `reader`. `OpenPackage` starts the walk of the
published directory, `SnapshotFile` copies one file, `DigestFiles` checks the
signature and the index of the copy, and `ReadReport` reads the checker's output
from the copy again to compare the grades with it. The left-behind process may
write between any two of these steps.

### AELBinding: state and actions

`tree` maps paths to contents, `manifest` is the package manifest. An author
starts from a coherent package of either kind (`PackageInit`), `Pack`s it, which
computes the digests, and before or after that files are written or removed and the
manifest is changed (`Repoint`, `Unlist`, `Restate`): the changes the fixtures of
`writePackageFixtures` make one at a time, in any combination of `MaxEdits`.
`Accepted` is the part of `validatePackageDir` after the signature.

### AELPackage: state and actions

Until the consumer validates, a verifier and an operator `Sign` manifests, status
authorities `IssueCurrent` and `Withdraw`, and time `Tick`s. `Validate` takes any
manifest with any signature ever made, any statement ever signed (or one altered
after signing), any trust configuration, evaluation time and maximum age, and
computes the display state and exit status; `ValidateAgain` repeats it at a
later time with the same inputs.

### AELGov: state and actions

`Record` appends an activity record (identity, class, whether it verifies and is
schema-valid, the outcome of the policy lookup, the declared class) to the run. Identity
and class may be empty (`Unnamed`), in an invalid record because they cannot be
recovered and in a valid one because it says so;
`Govern` accounts for the log record by record (`Accounts`, the loop of `governRun`) and
reports `coverage`.

### AELKeygen: state and actions

Each generator has a place in `generateTrustKeypair` (`at`), the key it generated,
the half it is writing and its temporary file; `files` maps the names taken to
contents. `LstatRoot`, `MkdirAll` and `InspectRoleDir` prepare the role's directory;
`CreateTemp`, `WriteTemp`, `LinkFile` and `RemoveTemp` are
`writeKeyFileExclusive`, for the private half and then the public one; `UndoTemp`
and `RemovePrivate` are what a failure does. `StepFails` is a call that fails,
`Crash` a generator that dies, `Retry` the operator's next attempt with a new key.
All generators of a role share the private name when their trust roots lie in one
directory, which `--dir` allows.

### AELPaths, AELCorpus: state and actions

`AELPaths`: `MakeEntry` adds a directory or a link to the file system `fs`; `Emit`
names an output and an input, also with `..` in them. The file system calls
(`Follow`, `EvalSymlinks`, `Lstat`, `Clean`) are external and follow POSIX and
`path/filepath`: `Walk` takes one component after the other, a link puts the path it
leads to in the place of one, and after `MaxEntries` links the walk gives up, so that
`Steps` is enough for every walk to end; `resolveEmitPath`, `validateEmitPaths` and the staging parent are
the code's.

`AELCorpus`: `Generate` writes the corpus or fails; `ReportCase` evaluates,
compares and prints one case; `FinishReport` encodes the JSON report and decides the
exit status; `RunConformance` is the emitter's side, which packages what was printed
with the status.

### AELLimits, AELJson, AELMerkle, AELPolicy: state and actions

Each builds an input step by step and then runs the algorithm once. `AELLimits`:
`Write` appends a token the decoder would allow, `Limit` ends the text and makes the pass
over it; in `AELJson` the end of the text (`Read`) computes its canonical form as well.
`AELMerkle`: `Grow` appends a leaf, `Claim` presents a leaf at an
index with the proof of some leaf, `Tamper` cuts, extends or alters the proof,
`Climb` is the checker; the recursions on slices of leaves are functions of the slice's
size and first leaf. `AELPolicy`: `File` and `Unfile` change the policy
directory, `Act` records an activity, `Replay` is `checkR`.

### What is abstracted, and what the properties therefore do not say

* Cryptography is ideal: a hash is its preimage in a box, a signature is the
  name of the key. A Merkle root stands for its sequence of leaves.
* Timestamps are whole seconds; `hmax + htol` does not overflow a duration.
* A malformed line leaves the zero payload; a partly unmarshalled one is not
  distinguished from it.
* Whether bytes are canonical and schema-valid is one field (`form`).
* The manifest is not signed. AEL-2 and AEL-4 are therefore stated relative to
  the classes and flows it declares.
* The external log registers only heads that recorders really wrote, and keys
  are used by the presenter only after recording. AEL-3 is about rewriting
  history after it was anchored, which is what the level promises.
* A statement the counterparty signed can be withheld without trace, so
  `ConfirmedDeliveries` has one direction: what the logs show was confirmed.
* `AELEmit`: the left-behind process knows the staging directory but not the
  replica, whose name is random and is made after it was started (a process that
  could write there could write anywhere the emitter can). A file that vanishes
  in the middle of an index is left out of it, where the code returns an error.
  Contents are original, written, or what the commands print.
* `AELSubprocess`: a signalled process writes no more; the two streams are one.
* `AELPackage`: the private copy is taken as one tree (`AELConsumer` does not);
  authorities are honest about time and say nothing more about a record they
  withdrew; the consumer's clock is its own. The manifest's schema, its bindings
  and its agreement with the machine output are facts of a manifest (`form`,
  `bound`, `agreed`); the last two are what `AELBinding` computes.
* `AELConsumer`: a file that vanishes between the listing and the read is left out
  of the copy, where the code returns an error; either way it is not accepted.
* `AELBinding`: the content of a file stands for its size and digest; an artifact
  is the set of its runs and a grade line stands for line, annotations and
  outcomes; path syntax and the executable, stdout and stderr blobs (which are
  treated as `output` is) are left out.
* `AELGov`: the policy lookup is its outcome. The report is its coverage part; the
  list of findings, which follows the order of the logs, and the notes are left out,
  so `OrderFree` does not speak of them.
* `AELKeygen`: removing one's own temporary file never fails visibly. Only a key
  that no trust root trusts and no generator is working on is deleted by hand.
* `AELPaths`: an input is a directory; of files only directories and links are
  kept; one input stands for the artifact and the keys directory, which are treated
  alike. Nobody changes the file system during an emission.
* `AELCorpus`: a case is what its evaluation yields; the writing of its files is
  one step that may fail.
* `AELLimits`, `AELJson`: the decoder's grammar is external; a string is its code points and one
  bit for a needless escape; invalid UTF-8 and lone surrogates are left out.
* `AELPolicy`: a policy is its bytes; hashes are ideal; a number that is not an
  integer is a value of kind `other`.

## 3. Runs

Each property of a passing run also has a mutant of the code's logic under which
the same run finds a violation.

| Run | Instance | Shows |
|---|---|---|
| `chain` | two recorders of one run, one of which has a second run; any prefix of two plans; one edit of records or manifest, which may put a log under the other run or under none; a spare key may leak, or a recorder's with it | `AuthenticPrefix`, `OmissionEvident`, `CleanExit`, `TypeOK`, `IndInv` |
| `rewrite` | one run of three or four records of any type, an activity at most once, two edits, the recorder's key may leak, time passes, records with an unknown field | `HonestVerdict`, `AuthenticPrefix`, `WholeRun`, `SilenceEvident` |
| `external` | two recorders, whose keys both leak or neither, edits of records and anchors; a counterparty with three sessions, up to two statements, an edit of them or a key withheld | `AnchoredHistory`, `ConfirmedDeliveries`, `MissingKeyUndecided`, `HistoryInv` |
| `emit_writer` | one emitter, one fault and retries, any two writes at any moment, also after publication, four input paths, one consumer | `SignedIsEvaluated`: a package that validates holds what was evaluated; `AcceptedIsEvaluated`: what a consumer accepts is of one piece |
| `emit_race` | two emitters; one fault or one write of a left-behind process | `PublishedWhole`, `EventuallyPublished`, `Published` (the refinement of `AELPublish`) |
| `status` | four manifests (one expires, one names the operator's key as the verifier's, one is the operator's own package), trust roles apart or not, two statements about two records, times 0 to 2 | `VerifiedBounded`, `NoSelfVerification`, `BadNewsStays` |
| `algorithms` | three records of two events with every lookup outcome, some with an empty class or id; every text of up to seven tokens (four with a number); every log of up to five leaves with one change to a proof; two activities and every arrangement of policy files | `OrderFree`, `WorstCaseKept`, `LimitsExact`, `Unambiguous`, `CanonicalForm`, `InclusionExact`, `ReplayExact` |
| `tools` | a subprocess with limit 1 and up to 3 units of output; two generators with two trust roots in one directory; packages of up to two runs with two edits; file systems of three entries with every output and input; corpora of two cases | `WholeOutput`, `OkMeansFinished`, `Returns`, `KeysKept`, `TrustedUsable`, `FailureLeavesNoKey`, `EventuallyKeyed`, `EvaluationIsSigned`, `GradesExact`, `PlainOverlapRefused`, `EvidenceMatchesStatus` |

Four runs show what the code does where the repository says something else:

| Run | Property | What the code does |
|---|---|---|
| `spec_digest` | `SpecBound` | the specification digest is read before, and apart from, the index that is compared (emit.go 250-257): a file changed and restored around the first reading is published with a digest that is not its own |
| `terminal` | `TerminalReported` | a withdrawal whose effective time lies before its issue time is reported as unknown between the two (package.go 312), where SPEC.md 178 requires the terminal state |
| `gov_lost` | `UnrecoveredUnassessable` | a record without a recoverable class is hidden by an earlier record of the same event id, and the run is reported OK (gov.go 401-421) |
| `overlap` | `OverlapRefused` | an output that is itself a link standing in the artifact is compared with the inputs by where it leads, and staged where it stands (emit.go 720, 1081): the package is staged inside what is copied into it |

None of them yields a false grade. `spec_digest` makes a package whose manifest
names a digest that re-hashing the shipped specification refutes.

Other disagreements are visible in the models and have no run of their own.
Two of them bound what a property that holds can say, and the property names them.
The manifest may label a log with the empty run (schema.go 222-232), which
`artifactRuns` passes over beside any other run (checks.go 871 and 877): the log is
never graded and the exit status can be 0 whatever it holds, though
docs/ARTIFACT-FORMAT.md 230-234 and docs/CHECKER-DESIGN.md 68-69 say that no run the
artifact carries is hidden by the manifest. `RelabelRun` reaches this, so `CleanExit`
speaks of the logs presented under a run, and says that there is one. And a valid
record may have `event.class` `""` (schema.go 322), which `accumulate` and `coverage`
pass over (gov.go 182 and 441): an event that every record leaves without a class is
never a gap, irreversible or not, though docs/GOVERNABILITY-EXTENSION.md 97 wants the
class of every event that is not lowered to be in the correspondence set. `MCGov` has
such records, and `WorstCaseKept` says of a gap that some record gave the event a class
outside the set.
In `AELGov`, a declared record of an uncovered class is excused by a policy-bound
record of the same event id, though docs/GOVERNABILITY-EXTENSION.md 95 says that
only a policy-bound class may lower an event's coverage (gov.go 438; the report
lists a class conflict). In `AELSubprocess`, the watchdog may take one more tick
after it was halted, and its cancellation, coming after the overflow check, is
reported as an expired deadline (emit.go 570-578). In `AELPaths`, an input written
`link/..` is cleaned by text for the comparison and followed by the copy, a second
way to the overlap. `loadPolicies` keeps the bytes of a policy before it parses them
(artifact.go 303), and governability goes by those bytes, so a policy that is not
canonical fails to load for check R (`AELPolicy`) and may still excuse an event for
governability, whose comment (gov.go 331) speaks of a policy that is trusted. In
`AELCorpus`, `compareExpected` looks every expectation up and compares the numbers:
a case that expected one run twice would leave another run uncompared; the cases are
written down in `buildCases`, and none does.

Bounds: a log of four records holds an open, a heartbeat, an activity and a
close, which is every record type; the shorter ones leave a log without one of
them. A second run is needed for splices, two recorders for AEL-2 and above, two
leaves for both heads. A recorder's clock does not go back, so timestamps that do occur only
in logs whose records were exchanged, dropped or forged. Two edits are needed to rewrite a log *and* its anchor;
the theorems below remove the bounds for every property of `AELRun`.

For the emitter, two writes are what it takes to change a file and restore it,
and four paths are an evaluated file, the checker, a file that may be added, and
the specification; two emitters and one fault let either fail at the point
where the other has just passed a test. For the subprocess, a limit of one and
three units tell empty, full, too large, and too large after the last look. For
status, three times order issue, effect and evaluation in every way, and two
statements are a current one and a withdrawal; the authority's window is two and the
consumer's maximum age one or none; that the statement of another authority counts for
nothing is in the theorem only, as the run has one. For packages, two edits move a reference and
what it refers to, or a digest and the file; two runs let a grade be missing,
doubled or exchanged. For key generation two generators and two faults let one fail
at each call while the other holds the private name. Three file system entries are
an artifact, a link and where it leads. In JSON, seven tokens hold an object with two
members or a nested one, which is what limits, duplicates and key order need; the
limits are scaled to two and three, the safe range to eleven, so that values lie on
both sides. Five leaves are a tree whose right part is not a power of two; the size a
proof claims is the log's, so the refusal of an empty one is not exercised. Two rules
of which both may apply and two activities are what first match and the counting of
decisions need. For governability, two records of one event collide and a third
comes between them. The runs say `CHECK_DEADLOCK FALSE` because the modelled
activity ends: a checked artifact, a published package, a returned command, a
last validation, a report.

Fairness. Three modules state liveness, in two runs. In `AELEmit` an emitter that can take a
step takes one (sequential code whose subprocesses run under a deadline) and the
operator repeats a failed emit; faults are bounded, so they end. In
`AELSubprocess` the runner, the watchdog, the timer and the kill are weakly fair,
as goroutines, timers and signals are; the command and its descendants are not,
so `Returns` holds for a command that never ends. In `AELKeygen` a generator is
sequential code that waits for nobody, and whoever needs the key repeats a
generation that failed; `EventuallyKeyed` leaves out the case of a private key that
a dead generator left behind, which only an operator can clear. All other properties are
safety properties and assume no fairness.

## 4. Proofs

`AELRunProofs` proves, for every choice of logs, keys, events, leaks, plans and
bounds allowed by the named assumptions of `AELRun`:

* `Invariance`: `Spec => []IndInv`. `IndInv` adds to the type invariant that
  what a recorder wrote is one chain (`ChainsOK`), that a presented record
  carrying a sound key's signature was written by that key's holder (`Unforged`),
  and that the report is about the presented artifact (`PhasesOK`). Neither AEL-0
  nor AEL-1 is inductive alone, because both speak of the report only.
* `TypeCorrect`: `Spec => []TypeOK`.
* `AuthenticPrefixHolds` (AEL-0): by `Unforged` a record under a sound key is a
  recorded one; the recomputed predecessor links make the presented log a hash
  chain; two chains that share a record share everything before it, at the same
  numbers (`ChainsAgree`, by a least counterexample).
* `WholeRunHolds` (AEL-1): a close under a sound key is a recorded close, which
  is the last record of its log.

`AELGradeProofs` proves the other properties of `AELRun` under the same assumptions
(none of the edits' number, the logs' length, the number of recorders, runs, leaves,
sessions and statements is bounded):

* `HistoryHolds`: `Spec => []HistoryInv`, the second inductive invariant. What was
  recorded is complete in itself: contents are ones a record of the type can have
  (`ContentsOK`), every leaf of the external log is the number and payload of a
  recorded record (`LeavesOK`). What is presented may be false, but a tree head under
  the log's key is over a prefix of its leaves (`HeadOK`), a statement under the
  counterparty's key was issued by it (`StatementsOK`), the blocks of the manifest are
  the declared ones up to the edits (`BlocksOK`), and what was not edited is as it was
  recorded (`PresentedOK`).
* `SilenceEvidentHolds`: `HonestLog` says that a log closed under a sound key is, place by
  place, a log some recorder wrote; check h then compares the recorder's own times.
* `CleanExitHolds`: exit status 0 needs a grade of 1 or more for every discovered run, so
  that there is a log of it, whose records name a run (`GradedRunHasLog`), and
  such a grade needs the checks a, b, d, e, w and f to i (`GradeNeeds`, `CheckedLower`).
  Check i demands the close of every log of the run, and `WholeRun` makes a log with a
  close under a sound key the whole log.
* `OmissionEvidentHolds` (AEL-2): check l makes the recorders distinct, so that what check
  m looks up in one log it looks up in each (`DistinctRecorders`, `AuditedLogs`).
* `AnchoredHistoryHolds` (AEL-3): check u leaves no leaked key the head could be under, so the
  head is the external log's (`SoundHead`); the leaf that is included was written by a
  recorder, and the last record carries it, so the whole log is that recorder's
  (`AnchoredLast`, `AnchoredLog`).
* `ConfirmedDeliveriesHolds` (AEL-4): the nonce of the session comes from the anchored log, a
  statement under the declared key is the counterparty's (`SoundStatement`), and check t
  finds every delivery among them.
* `MissingKeyUndecidedHolds`: for each check from a to w, publishing fewer keys leaves its
  outcome or makes it undecided (`ChecksUpToUV`, by a lemma for each shape of loop the
  checks run: `FirstOutcomeUpToUV`, `RecorderUpToUV`, `RecorderKeyUpToUV`); so the grade
  does not rise (`GradeUpToUV`).
* `HonestVerdictHolds`: on a run nobody tampered with, each of the checks up to AEL-1 is
  computed on what was recorded (`UneditedLog`, `LiveLog`), and their conjunction is the
  grade the recording deserves, also for recorders that declare no heartbeat at all
  (`hmax` zero).

The constants are assumed to be what the configuration of a deployment is: logs of
different names (`LogsAssumption`), a spare key that belongs to no recorder or authority
(`KeysAssumption`), recorders whose runs have names (`RunsAssumption`), a class of "no event" that no manifest covers or calls a flow
(`ClassesAssumption`), and natural numbers for times and bounds. TLC evaluates each
assumption on every run of `AELRun`.

`AELEmitProofs` proves, for any emitters, input paths, writes, faults and
retries:

* `EmitInvariance`: `Spec => []EmitInv`. While others may write, nothing can be
  said of the staging directory; the invariant is about what the emitter holds in
  memory. From the comparisons on, its index agrees with the replica, the first
  index and the captured streams (`Bound`), the captured streams are a report on
  the replica (`CapturedOK`), and whatever is signed is that index.
* `SignedIsEvaluatedHolds`: a directory that validates is the signed index, and
  so the evaluated inputs and the report on them.
* `PublishedHolds`: `Spec => Published`. The rename is the abstract `Publish`,
  every other step a stutter; a published package never leaves `out`.

* `PublishedWholeHolds`: as long as nobody else wrote into a staging directory, the index
  of the second walk is the tree on the paths it has visited (`Quiet`), so that at its end
  index, manifest, signature and directory agree; with `EmitInv` the package at the output
  path validates.

`AELEvidenceProofs` proves, of the evidence in a package:

* `EvaluationIsSignedHolds` and `GradesExactHolds`, for any keys, runs, grade lines and
  number of changes before and after signing. `BindingInv` says little: that whatever was
  written or restated, paths are sequences of names and a report holds a sequence of
  grades. Everything else is what the validator itself establishes: its index is the tree,
  and each reference is an entry of it (`validatePackageBlobs`), the declared inputs fill
  the keys directory, and the counts of runs and grades make the matching exact.
* `EvidenceMatchesStatusHolds`, for any cases. `CorpusInv` says that each entry is the
  comparison of its case (`EntriesOK`), that what is printed is a part of the lines in
  order (`StdoutOK`), and that a verdict is given after all of them (`VerdictOK`).
  `PairedOff` shows that looking up each expectation and comparing the numbers decides
  whether runs and expectations can be paired off, for expectations that name different
  runs. It assumes that runs have names (`CorpusAssumption`: `""` names none).
* `WholeOutputHolds` and `OkMeansFinishedHolds`, for every limit and every amount of
  output, by `SubInv`: after `Run` has returned no process of the group is left; a killed
  command leaves an ended context behind, so output that is read is not a killed command's;
  from the reading on only a process that left the group can change the file.

`AELAlgorithmProofs` proves what loops and recursions compute, for every input.
A recursive function exists because there is no least length or size for which it does
not (`AccountsExist`, `LoopExists`, `RootsExist`), and its values are reasoned about in
the same way.

* `WorstCaseKeptHolds` and `OrderFreeHolds`, for any records and correspondence set: the
  accounts are described by the *set* of verified records (`Describes`,
  `AccountsDescribed`), because `mergeEvent` keeps a finding that none is above, the
  classes are a union, and a conflict is two different classes (`AccountNext`). Which of
  several equal findings is kept depends on the order, and no part of the report does as
  long as every class was recovered (`LoweredFromSet`, `SameCoverage`). A gap is an
  event whose union of classes reaches outside the set, and each class in the union is
  one a verified record gave it (`GapsUncovered`); the union has no empty class, which is
  why the theorem says nothing of events left without one.
* `ReplayExactHolds`, for any policies, inputs and records: `RuleMeaning` compares one
  rule with what it means, `EvalExact` the loop with the first rule that is decisive.
  It assumes that an integer value holds an integer (`PolicyAssumption`, as `asInt` does).
* `InclusionExactHolds`, for any log, entry and proof, in both directions: an entry with
  the generator's proof reaches the root, and nothing else does. `Split` shows that the
  doubling loop leaves two smaller, non-empty halves; `AgreesUp` takes a climb one node up,
  on either side; `SlicesAgree` puts them together: a least size at which climb and tree
  disagree would have halves at which they agree. That two nodes are equal only when their
  halves are is what an ideal hash gives (`NodeExact`).
* `PlainOverlapRefusedHolds`, for any file system of directories and links, any output
  and any input. `PathsInv` says that entries lie below directories or links that exist
  and that links and arguments are short. `FollowOK` gives each walk a measure that every
  step lowers, so it ends within `Steps` (`WalkEnds`); `WalkLonger` compares the walks
  along a path and along the path with one component more, which until the shorter ends
  take the same steps: so `Lstat` and `EvalSymlinks` agree on what is not a link
  (`LstatFound`), and where a path leads, its entry exists (`Reached`). The existing part
  that `resolveEmitPath` cuts a path at is then the same for the output and for its
  parent, or one component apart, and the parent resolves to a prefix of the output
  (`StagingAbove`): what is staged inside the input leads inside the input, and is
  refused. Conversely a missing output below a directory elsewhere would have to be an
  entry that is not there (`ElsewhereAccepted`). It assumes that `..` is not a name
  (`ComponentsAssumption`).
* `LimitsExactHolds`, for any tokens, limits and length of the text. What is open after a
  text is given by the positions of the open containers, outermost first (`OpensOK`,
  `OpensNext`), of which the last holds the next token (`OpenParent`). `PassOK` relates them
  to the pass: its stack has one cell for each, which counts the children that container
  has by then (an object's cell counts members, of which the last may be half complete:
  `CellOK`), and the limits have been kept so far; or the pass has refused, and they have
  not. `PassNext` takes this over one token, since a token is a child of the innermost
  container only (`KidsOfOpen`, `SoFarNext`). The inductive invariant `LimitsInv` says it of
  the text written so far, so the recursion of the pass needs no induction of its own:
  it has a solution for a text because it had one before the last token (`PassGrows`). It
  assumes that the limits are natural numbers (`LimitsAssumption`).

`AELConsumerProofs` proves `AcceptedIsEvaluatedHolds` for any number of writes into
the package while it is copied: what the consumer digested is its own copy, and a
signature binds that copy to what was evaluated (`EmitInv`, `BoundClaim`).

`AELKeygenProofs` proves `KeysKeptHolds`, `TrustedUsableHolds` and
`FailureLeavesNoKeyHolds` for any generators, trust roots, faults and repetitions.
`KeygenInv` says who may have put the role's private key there (`HasPrivate`), what
of the pair in work is published (`Published`), that whatever is trusted has its
private half at hand (`Usable`), and that a key numbered after the last fault is its
generator's present one (`Fresh`): without it a repeated generation might meet its
own old files. Since all generators of a role share the private name, at most one key
lies there, and a removal can only hit the remover's own key or an orphan.

`AELPackageProofs` proves `NoSelfVerificationHolds`, `VerifiedBoundedHolds` and
`BadNewsStaysHolds` for any manifests, authorities, trust configurations, times and
statements. The invariant is about what authorities said (a current statement about a
record is not younger than the same authority's withdrawal of it, and reaches no
further than the window) and that the consumer was shown what could be shown. It
assumes what `AELPackage` names: authorities with keys of their own
(`AuthoritiesAssumption`), a consumer that lists the operator's key among the operators
(`TrustsAssumption`; one that does not cannot tell an operator from a verifier), and
times that are whole numbers.

Only model-checked, of the safety properties, and why:

* `Unambiguous`, `CanonicalForm`: `AELJson` parses and writes values by mutually recursive
  operators, as the code does, and the provers prove nothing in a module with a recursive
  operator. The library's induction theorems take an operator as a parameter, which the
  installed provers cannot instantiate; an argument by a least counterexample, as in
  `AELAlgorithmProofs`, needs recursions that are functions of a number, and parser and
  writer recurse over trees of values.

Liveness (`EventuallyPublished`, `Returns`, `EventuallyKeyed`) stays with TLC as well.

## 5. Plan

Done: recording, presenting and checking; the emitter with its abstract publication, a
left-behind writer and a consumer; the subprocess runner; the validator over time and
what its signature covers; key generation; paths; the corpus run and its report;
governability; policies and the suffix +R; Merkle proofs; manifest limits and canonical
JSON.

Left: theorems about `CanonicalForm` and `Unambiguous`, with the parser and the writer of
`AELJson` as functions of a number, by a least counterexample.

Not modelled, and why:

* the field by field schemas (types, required and unknown members, formats of
  identifiers and times): each is one independent test without state, and the table
  driven tests of `checker/internal/ael` visit each of them; the models take their
  outcome as one fact (`form`, `valid`) and keep the order in which it is decided;
* option parsing, help and human readable reports: input and output without effect
  on a grade or an exit status other than those modelled;
* the contents of the corpus cases (`aelgen/main.go`): data; the rules by which records,
  proofs and statements are built are in `AELRun` and `AELMerkle`;
* processes on systems other than Unix (`process_other.go`), where there are no
  process groups: the fallback kills the command only;
* the cryptography: signatures and digests are ideal.
