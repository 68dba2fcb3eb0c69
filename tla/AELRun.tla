------------------------------- MODULE AELRun -------------------------------
(***************************************************************************)
(* Runs are recorded, presented and checked.                               *)
(*                                                                         *)
(* Recorders write signed, hash-chained logs (the way buildRecords of      *)
(* cmd/aelgen does), an external log anchors their heads, a counterparty   *)
(* signs what it received, and keys may leak.  A presenter then assembles  *)
(* the artifact and edits it: the edits are the perturbations of the       *)
(* conformance corpus (buildCases of cmd/aelgen), in any order and at any  *)
(* place.  Finally the checker evaluates what it was given.                *)
(*                                                                         *)
(* The presenter works under ideal cryptography: it can present any record *)
(* somebody signed, in any order, and new records only under a leaked key. *)
(***************************************************************************)
EXTENDS AELChecks

CONSTANTS
    Logs,         \* sequence of <<recorder, run>>, the manifest's log order
    RecorderKey,  \* the signing key of each recorder
    LogKey,       \* the signing key of the external log
    CpKey,        \* the signing key of the counterparty
    SpareKey,     \* a published key no recorder signs with
    Events,       \* event records [class, id, dir]
    Covered,      \* classes every recorder must record (correspondence)
    Flows,        \* classes the counterparty confirms
    NonceOf,      \* the nonce a run opens with
    Plans,        \* the sequences of record types a recorder may write
    Sessions,     \* <<run, nonce>> pairs the counterparty answers to
    BodyForms,    \* the forms in which activity records and statements occur
    HMax, HTol,   \* declared heartbeat interval and tolerance
    CanLeak,      \* the sets of keys that may fall to the presenter together
    EditKinds,    \* which parts of the artifact the first, second, ... edit is to
    MinRecords,   \* logs presented are at least this long
    MaxTime, MaxRecords, MaxLeaves, MaxStatements, MaxEdits  \* bounds

Recorders == {Logs[l][1] : l \in DOMAIN Logs}
Runs == {Logs[l][2] : l \in DOMAIN Logs}
Keys == {RecorderKey[r] : r \in Recorders} \cup {LogKey, CpKey, SpareKey}

ASSUME LogsAssumption ==
    /\ Logs \in Seq(Recorders \X Runs)
    /\ \A l, k \in DOMAIN Logs : Logs[l] = Logs[k] => l = k
\* A record names its run (validateRecordPayloadSchema), so recorders do.
ASSUME RunsAssumption == NoRun \notin Runs
ASSUME KeysAssumption ==
    /\ NoKey \notin Keys
    /\ SpareKey \notin {RecorderKey[r] : r \in Recorders} \cup {LogKey, CpKey}
    /\ CanLeak \subseteq SUBSET Keys
    /\ EditKinds \in [1..MaxEdits -> SUBSET {"records", "forgery", "manifest", "keys",
                                             "anchors", "heads", "statements"}]
ASSUME PlansAssumption ==
    /\ Plans \subseteq Seq({"open", "activity", "heartbeat", "close"})
    /\ BodyForms \subseteq Forms
\* NoEvent stands for a nil pointer; its class is no class.
ASSUME ClassesAssumption == NoEvent.class \notin Covered \cup Flows
ASSUME BoundsAssumption ==
    /\ {HMax, HTol, MaxTime, MinRecords, MaxRecords,
         MaxLeaves, MaxStatements, MaxEdits} \subseteq Nat

VARIABLES
    phase,    \* "recording", then "presenting", then "checked"
    clock,    \* whole seconds
    written,  \* what each recorder signed, log by log
    tree,     \* the leaves of the external log
    issued,   \* the counterparty's signed statements, in order
    leaked,   \* keys the presenter holds
    art,      \* the artifact, empty until it is presented
    edits,    \* number of edits the presenter made
    report    \* the checker's report, empty until it has run

vars == <<phase, clock, written, tree, issued, leaked, art, edits, report>>
recording == <<clock, written, tree, issued>>

Recorder(l) == Logs[l][1]
RunOf(l) == Logs[l][2]
Key(l) == RecorderKey[Recorder(l)]
Last(s) == s[Len(s)]
-----------------------------------------------------------------------------
(***************************************************************************)
(* Recording.                                                              *)
(***************************************************************************)

\* Mutant: numbers start at 1, and the count is one more than the last of them.
NextPayloadFromOne(chain, recorder, run, key, type, ts, event, form) ==
    LET head == IF chain = << >> THEN zeroPrev ELSE Hash(Last(chain))
    IN  [v |-> 1, type |-> type, run |-> run, recorder |-> recorder, key |-> key,
         seq |-> Len(chain) + 1, prev |-> head, ts |-> ts,
         hmax |-> IF type = "open" THEN HMax ELSE 0,
         htol |-> IF type = "open" THEN HTol ELSE 0,
         nonce |-> IF type = "open" THEN NonceOf[run] ELSE NoNonce,
         event |-> IF type = "activity" THEN event ELSE NoEvent,
         count |-> IF type = "close" THEN Len(chain) + 2 ELSE 0,
         head |-> IF type = "close" THEN head ELSE NoHash,
         form |-> form]

\* A payload that continues the chain: the next seq, linked to the last
\* record, a close committing to the count and to the head before it.
NextPayload(chain, recorder, run, key, type, ts, event, form) ==
    LET head == IF chain = << >> THEN zeroPrev ELSE Hash(Last(chain))
    IN  [v |-> 1, type |-> type, run |-> run, recorder |-> recorder, key |-> key,
         seq |-> Len(chain), prev |-> head, ts |-> ts,
         hmax |-> IF type = "open" THEN HMax ELSE 0,
         htol |-> IF type = "open" THEN HTol ELSE 0,
         nonce |-> IF type = "open" THEN NonceOf[run] ELSE NoNonce,
         event |-> IF type = "activity" THEN event ELSE NoEvent,
         count |-> IF type = "close" THEN Len(chain) + 1 ELSE 0,
         head |-> IF type = "close" THEN head ELSE NoHash,
         form |-> form]

Signed(payload, key) == [parsed |-> TRUE, raw |-> payload, signer |-> key]

NoArtifact ==
    [runs |-> {}, logs |-> << >>, keys |-> {}, correspondence |-> Nil,
     anchor |-> Nil, anchors |-> Nil, anchorsErr |-> FALSE,
     counterparty |-> Nil, statements |-> Nil, statementsErr |-> FALSE]

Init ==
    /\ phase = "recording"
    /\ clock = 0
    /\ written = [l \in DOMAIN Logs |-> << >>]
    /\ tree = << >>
    /\ issued = << >>
    /\ leaked = {}
    /\ art = NoArtifact
    /\ edits = 0
    /\ report = << >>

Recording == phase = "recording"

IsOpen(l) == written[l] # << >> /\ Last(written[l]).type # "close"

\* Some plan continues what is written with a record of this type.
Planned(l, type) ==
    \E plan \in Plans :
        /\ Len(written[l]) < Len(plan)
        /\ \A i \in DOMAIN written[l] : plan[i] = written[l][i].type
        /\ plan[Len(written[l]) + 1] = type

Write(l, type, event, form) ==
    /\ Recording
    /\ Planned(l, type)
    /\ Len(written[l]) < MaxRecords
    /\ written' = [written EXCEPT ![l] =
           Append(@, NextPayload(@, Recorder(l), RunOf(l), Key(l),
                                 type, clock, event, form))]
    /\ UNCHANGED <<phase, clock, tree, issued, leaked, art, edits, report>>

WriteOpen(l) == written[l] = << >> /\ Write(l, "open", NoEvent, "valid")
WriteActivity(l, event, form) == IsOpen(l) /\ Write(l, "activity", event, form)
WriteHeartbeat(l) == IsOpen(l) /\ Write(l, "heartbeat", NoEvent, "valid")
WriteClose(l) == IsOpen(l) /\ Write(l, "close", NoEvent, "valid")

Tick ==
    /\ Recording
    /\ clock < MaxTime
    /\ clock' = clock + 1
    /\ UNCHANGED <<phase, written, tree, issued, leaked, art, edits, report>>

\* The external log appends the head of a recorder's chain.
Register(l) ==
    /\ Recording
    /\ Len(tree) < MaxLeaves
    /\ written[l] # << >>
    /\ tree' = Append(tree, merkleLeaf(Last(written[l])))
    /\ UNCHANGED <<phase, clock, written, issued, leaked, art, edits, report>>

\* A statement of the counterparty: an event it received in a session, or
\* none at all.
Statement(session, flow, id, form) ==
    [v |-> 1, type |-> "received", run |-> session[1], nonce |-> session[2],
     flow |-> flow, received |-> id, none |-> id = NoEvent.id,
     form |-> form]

Confirm(session, flow, id, form) ==
    /\ Recording
    /\ Len(issued) < MaxStatements
    /\ issued' = Append(issued, Signed(Statement(session, flow, id, form), CpKey))
    /\ UNCHANGED <<phase, clock, written, tree, leaked, art, edits, report>>

ConfirmReceived(session, event, form) ==
    event.dir = "out" /\ Confirm(session, event.class, event.id, form)
ConfirmNone(session, flow) == Confirm(session, flow, NoEvent.id, "valid")

-----------------------------------------------------------------------------
(***************************************************************************)
(* Presenting: the artifact as recorded, with one of the tree heads the    *)
(* external log signed (any prefix of its leaves).                         *)
(***************************************************************************)
PresentedLog(l) ==
    [id |-> Recorder(l), run |-> RunOf(l), key |-> Key(l),
     records |-> [i \in DOMAIN written[l] |-> Signed(written[l][i], Key(l))]]

\* buildAnchors: a tree head over the leaves and one entry for each leaf.
EntriesOf(leaves) ==
    {[recorder |-> leaves[i][1].recorder, run |-> leaves[i][1].run,
      seq |-> leaves[i][1].seq, leaf |-> leaves[i], index |-> i - 1,
      proof |-> leaves] : i \in DOMAIN leaves}

AnchorsOver(leaves, signer) ==
    [log |-> "log", root |-> leaves, size |-> Len(leaves),
     signed |-> [log |-> "log", root |-> leaves, size |-> Len(leaves)],
     canonical |-> TRUE, signer |-> signer, schema |-> TRUE,
     entries |-> EntriesOf(leaves)]

\* Keys leak unnoticed at any time before: which ones matters only from here.
Present(size, keys) ==
    /\ Recording
    /\ leaked' = keys
    /\ size \in 0..Len(tree)
    /\ \A l \in DOMAIN Logs : Len(written[l]) >= MinRecords
    /\ phase' = "presenting"
    /\ art' = [runs |-> Runs,
               logs |-> [l \in DOMAIN Logs |-> PresentedLog(l)],
               keys |-> Keys,
               correspondence |-> <<Covered>>,
               anchor |-> <<[logKey |-> LogKey]>>,
               anchors |-> IF size = 0 THEN Nil
                           ELSE <<AnchorsOver(SubSeq(tree, 1, size), LogKey)>>,
               anchorsErr |-> FALSE,
               counterparty |-> <<[key |-> CpKey, flows |-> Flows]>>,
               statements |-> <<issued>>,
               statementsErr |-> FALSE]
    /\ UNCHANGED <<recording, edits, report>>

\* An edit replaces the artifact; the checker has not run yet.
Presenting == phase = "presenting"

Editing(kind) == Presenting /\ edits < MaxEdits /\ kind \in EditKinds[edits + 1]

Edit(new) ==
    /\ art' = new
    /\ edits' = edits + 1
    /\ UNCHANGED <<phase, recording, leaked, report>>

EditRecords(l, records) == Edit([art EXCEPT !.logs[l].records = records])
Records(l) == art.logs[l].records
Remove(s, i) == SubSeq(s, 1, i - 1) \o SubSeq(s, i + 1, Len(s))
InsertAt(s, i, x) == SubSeq(s, 1, i - 1) \o <<x>> \o SubSeq(s, i, Len(s))

\* Mutant: the record is emptied and its place is left.
DropRecordHole(l, i) ==
    EditRecords(l, [j \in DOMAIN Records(l) |->
                       IF j = i THEN [parsed |-> FALSE] ELSE Records(l)[j]])

\* Remove a record: in the interior or at the tail.
DropRecord(l, i) == EditRecords(l, Remove(Records(l), i))

\* Exchange two adjacent records.
TransposeRecords(l, i) ==
    /\ i < Len(Records(l))
    /\ EditRecords(l, [Records(l) EXCEPT ![i] = Records(l)[i + 1],
                                         ![i + 1] = Records(l)[i]])

\* Change a payload byte: the signature no longer matches.
FlipByte(l, i) ==
    EditRecords(l, [Records(l) EXCEPT ![i].raw.ts = @ + 1, ![i].signer = NoKey])

\* Damage a line so that it no longer decodes.
GarbleLine(l, i) == EditRecords(l, [Records(l) EXCEPT ![i].parsed = FALSE])

\* Put a record a recorder signed, for any log and run, at any place.
SpliceRecord(l, i, k, j) ==
    EditRecords(l, InsertAt(Records(l), i, Signed(written[k][j], Key(k))))

\* A holder of a leaked key signs one more record onto the presented chain.
ForgeNext(l, key, type, event, form) ==
    /\ key \in leaked
    /\ \A i \in DOMAIN Records(l) : Records(l)[i].parsed
    /\ LET chain == [i \in DOMAIN Records(l) |-> Records(l)[i].raw]
           payload == NextPayload(chain, art.logs[l].id, art.logs[l].run, key, type,
                                  IF chain = << >> THEN 0 ELSE Last(chain).ts, event, form)
       IN  EditRecords(l, Append(Records(l), Signed(payload, key)))

\* buildRecords: the whole chain of a plan, re-signed under one key.
buildChain(plan, recorder, run, key) ==
    LET chain[i \in 0..Len(plan)] ==
            IF i = 0 THEN << >>
            ELSE Append(chain[i - 1],
                        NextPayload(chain[i - 1], recorder, run, key,
                                    plan[i].type, plan[i].ts, plan[i].event, plan[i].form))
    IN  chain[Len(plan)]

buildRecords(plan, recorder, run, key) ==
    LET chain == buildChain(plan, recorder, run, key)
    IN  [i \in DOMAIN plan |-> Signed(chain[i], key)]

\* A holder of a leaked key writes a log anew from what was recorded in it,
\* without one of the records or with an event in the place of one of them.
Resign(l, key, plan) ==
    /\ key \in leaked
    /\ EditRecords(l, buildRecords(plan, art.logs[l].id, art.logs[l].run, key))

ResignWithout(l, key, i) == Resign(l, key, Remove(written[l], i))
ResignInstead(l, key, i, event) ==
    /\ i > 1
    /\ Resign(l, key, [written[l] EXCEPT ![i].type = "activity", ![i].event = event])

\* The manifest lists the logs and is not signed: leave a log out, though not
\* the last, list one a second time, under another recorder's name, under
\* another run or under none, or with another key.
OmitLog(l) ==
    /\ DOMAIN art.logs # {l}
    /\ Edit([art EXCEPT !.logs = Restrict(@, DOMAIN @ \ {l})])
ListTwice(l) ==
    /\ Len(Logs) + 1 \notin DOMAIN art.logs
    /\ Edit([art EXCEPT !.logs = [k \in DOMAIN @ \cup {Len(Logs) + 1} |->
                                     IF k \in DOMAIN @ THEN @[k] ELSE @[l]]])
RelabelLog(l, recorder) == Edit([art EXCEPT !.logs[l].id = recorder])
RelabelRun(l, run) == Edit([art EXCEPT !.logs[l].run = run])
DeclareKey(l, key) == Edit([art EXCEPT !.logs[l].key = key])

\* Nor are its other blocks: leave a run out of the list, which keeps the empty
\* identifier when there is no other (here the empty set), narrow the covered classes,
\* declare another key for the external log or for the counterparty.
OmitRun(run) == Edit([art EXCEPT !.runs = @ \ {run}])
NarrowCorrespondence(class) ==
    Edit([art EXCEPT !.correspondence = <<@[1] \ {class}>>])
DeclareLogKey(key) == Edit([art EXCEPT !.anchor = <<[logKey |-> key]>>])
DeclareCounterpartyKey(key) == Edit([art EXCEPT !.counterparty[1].key = key])

\* Do not publish a key.
WithholdKey(key) == Edit([art EXCEPT !.keys = @ \ {key}])

\* anchors.json: drop or relabel an entry, damage a proof or the file, add a
\* field the schema does not know, claim another root, or sign a head over the
\* presented logs with a leaked key.
EditAnchors(new) == Edit([art EXCEPT !.anchors = <<new>>])
Anchors == art.anchors[1]

DropEntry(e) == EditAnchors([Anchors EXCEPT !.entries = @ \ {e}])
RelabelEntry(e, seq) ==
    EditAnchors([Anchors EXCEPT !.entries = (@ \ {e}) \cup {[e EXCEPT !.seq = seq]}])
CorruptProof(e) ==
    EditAnchors([Anchors EXCEPT !.entries =
                    (@ \ {e}) \cup {[e EXCEPT !.proof = NoRoot]}])
ClaimRoot(leaves) ==
    EditAnchors([Anchors EXCEPT !.root = leaves, !.size = Len(leaves),
                                !.entries = EntriesOf(leaves)])
ExtendAnchors == EditAnchors([Anchors EXCEPT !.schema = FALSE])
GarbleAnchors == Edit([art EXCEPT !.anchors = Nil, !.anchorsErr = TRUE])

\* The heads of the presented logs that have one, in log order.
PresentedHeads ==
    LET Tops == {l \in DOMAIN art.logs :
                    Records(l) # << >> /\ Last(Records(l)).parsed}
    IN  [i \in 1..Cardinality(Tops) |->
            LET l == CHOOSE k \in Tops : Cardinality({j \in Tops : j < k}) = i - 1
            IN  merkleLeaf(Last(Records(l)).raw)]
ForgeHead(key, canonical) ==
    /\ key \in leaked
    /\ Edit([art EXCEPT !.anchor = <<[logKey |-> key]>>,
                        !.anchors = <<[AnchorsOver(PresentedHeads, key)
                                          EXCEPT !.canonical = canonical]>>,
                        !.anchorsErr = FALSE])

\* counterparty.jsonl: remove the file, drop a statement, move one to another
\* session, or forge one with a leaked key.
EditStatements(new) == Edit([art EXCEPT !.statements = <<new>>])
RemoveStatements == Edit([art EXCEPT !.statements = Nil])
DropStatement(s) == EditStatements(Remove(Statements(art), s))
AlterStatement(s, session) ==
    EditStatements([Statements(art) EXCEPT
        ![s].raw.run = session[1], ![s].raw.nonce = session[2], ![s].signer = NoKey])
ForgeStatement(key, session, event) ==
    /\ key \in leaked
    /\ Edit([art EXCEPT
           !.counterparty[1].key = key,
           !.statements = <<Append(Statements(art),
               Signed(Statement(session, event.class, event.id, "valid"), key))>>])
-----------------------------------------------------------------------------
(***************************************************************************)
(* Checking.                                                               *)
(***************************************************************************)
Check ==
    /\ Presenting
    /\ phase' = "checked"
    /\ report' = Evaluate(art)
    /\ UNCHANGED <<recording, leaked, art, edits>>

RecordingStep ==
    \/ \E l \in DOMAIN Logs :
          \/ WriteOpen(l)
          \/ \E event \in Events, form \in BodyForms : WriteActivity(l, event, form)
          \/ WriteHeartbeat(l)
          \/ WriteClose(l)
          \/ Register(l)
    \/ Tick
    \/ \E session \in Sessions :
          \/ \E event \in Events, form \in BodyForms :
                ConfirmReceived(session, event, form)
          \/ \E flow \in Flows : ConfirmNone(session, flow)
    \/ \E size \in 0..MaxLeaves, keys \in CanLeak : Present(size, keys)

\* A log listed a second time (ListTwice) is edited through the first listing.
EditRecordStep ==
    \E l \in DOMAIN Logs \cap DOMAIN art.logs :
        \/ \E i \in DOMAIN Records(l) :
              \/ DropRecord(l, i)
              \/ TransposeRecords(l, i)
              \/ FlipByte(l, i)
              \/ GarbleLine(l, i)
        \/ \E i \in 1..(Len(Records(l)) + 1), k \in DOMAIN Logs :
              \E j \in DOMAIN written[k] : SpliceRecord(l, i, k, j)

ForgeRecordStep ==
    \E l \in DOMAIN Logs \cap DOMAIN art.logs, key \in leaked :
        \/ ForgeNext(l, key, "close", NoEvent, "valid")
        \/ \E event \in Events, form \in BodyForms :
              ForgeNext(l, key, "activity", event, form)
        \/ \E i \in DOMAIN written[l] :
              \/ ResignWithout(l, key, i)
              \/ \E event \in Events : ResignInstead(l, key, i, event)

EditManifestStep ==
    \/ \E l \in DOMAIN art.logs :
          \/ OmitLog(l)
          \/ ListTwice(l)
          \/ \E recorder \in Recorders : RelabelLog(l, recorder)
          \/ \E run \in Runs \cup {NoRun} : RelabelRun(l, run)
          \/ \E key \in Keys : DeclareKey(l, key)
    \/ \E run \in art.runs : OmitRun(run)
    \/ \E class \in art.correspondence[1] : NarrowCorrespondence(class)
    \/ \E key \in Keys : DeclareLogKey(key) \/ DeclareCounterpartyKey(key)

EditKeysStep == \E key \in art.keys : WithholdKey(key)

EditAnchorStep ==
    /\ art.anchors # Nil
    /\ \/ \E e \in Anchors.entries :
             \/ DropEntry(e)
             \/ \E seq \in 0..MaxRecords : RelabelEntry(e, seq)
             \/ CorruptProof(e)
       \/ \E n \in 1..Len(tree) : ClaimRoot(SubSeq(tree, 1, n))
       \/ ExtendAnchors
       \/ GarbleAnchors

\* A head may also be signed over bytes that are not canonical.
EditHeadStep == \E key \in leaked : ForgeHead(key, TRUE)
EditRawHeadStep == \E key \in leaked : ForgeHead(key, FALSE)

EditStatementStep ==
    \/ \E s \in DOMAIN Statements(art) :
          \/ DropStatement(s)
          \/ \E session \in Sessions : AlterStatement(s, session)
    \/ \E key \in leaked, session \in Sessions, event \in Events :
          ForgeStatement(key, session, event)
    \/ art.statements # Nil /\ RemoveStatements

Next ==
    \/ RecordingStep
    \/ Editing("records") /\ EditRecordStep
    \/ Editing("forgery") /\ ForgeRecordStep
    \/ Editing("manifest") /\ EditManifestStep
    \/ Editing("keys") /\ EditKeysStep
    \/ Editing("anchors") /\ EditAnchorStep
    \/ Editing("anchors") /\ EditRawHeadStep
    \/ Editing("heads") /\ EditHeadStep
    \/ Editing("statements") /\ EditStatementStep
    \/ Check

Spec == Init /\ [][Next]_vars
-----------------------------------------------------------------------------
(***************************************************************************)
(* Properties.                                                             *)
(***************************************************************************)

IsSeq(s) == s \in Seq(Range(s))

\* Type correctness: the phases, the bounds and the shape of what is kept.
TypeOK ==
    /\ phase \in {"recording", "presenting", "checked"}
    /\ clock \in 0..MaxTime
    /\ DOMAIN written = DOMAIN Logs
    /\ \A l \in DOMAIN Logs : IsSeq(written[l]) /\ Len(written[l]) <= MaxRecords
    /\ IsSeq(tree) /\ Len(tree) <= MaxLeaves
    /\ IsSeq(issued) /\ Len(issued) <= MaxStatements
    /\ leaked \subseteq Keys
    /\ edits \in 0..MaxEdits
    /\ DOMAIN art = DOMAIN NoArtifact
    /\ art.runs \subseteq Runs
    /\ art.keys \subseteq Keys
    /\ DOMAIN art.logs \subseteq 1..(Len(Logs) + 1)
    /\ \A l \in DOMAIN art.logs :
          /\ DOMAIN art.logs[l] = {"id", "run", "key", "records"}
          /\ IsSeq(art.logs[l].records)
          /\ \A i \in DOMAIN art.logs[l].records :
                DOMAIN art.logs[l].records[i] = {"parsed", "raw", "signer"}

Checked(run, grade) == run \in DOMAIN report /\ report[run].grade >= grade

\* The presented logs of a run; the payloads of a presented log; and what was
\* recorded under its recorder and run.
LogsOf(run) == {art.logs[l] : l \in {k \in DOMAIN art.logs : art.logs[k].run = run}}
Payloads(log) == [i \in DOMAIN log.records |-> log.records[i].raw]
Recorded(log) ==
    LET l == CHOOSE k \in DOMAIN Logs : Logs[k] = <<log.id, log.run>>
    IN  written[l]
HonestClose(log) == Last(Payloads(log)).key \notin leaked

(***************************************************************************)
(* AEL-0.  A graded run shows no false history before a record whose key   *)
(* is not leaked: everything up to that record is what its recorder wrote, *)
(* from the first record on, without omission, reordering or insertion     *)
(* (checks a, d and e of checks.go).                                       *)
(***************************************************************************)
AuthenticPrefix ==
    \A run \in DOMAIN report : Checked(run, 0) =>
        \A log \in LogsOf(run) : \A i \in DOMAIN log.records :
            log.records[i].raw.key \notin leaked =>
                /\ i <= Len(Recorded(log))
                /\ \A j \in 1..i : log.records[j].raw = Recorded(log)[j]

(***************************************************************************)
(* AEL-1.  A log closed under a key that is not leaked is the whole log    *)
(* its recorder wrote, so nothing was cut off its end (checks f to j).     *)
(***************************************************************************)
WholeRun ==
    \A run \in DOMAIN report : Checked(run, 1) =>
        \A log \in LogsOf(run) : HonestClose(log) => Payloads(log) = Recorded(log)

(***************************************************************************)
(* AEL-1.  Silence shows: in a log closed under a key that is not leaked,  *)
(* the recorder never stayed silent longer than hmax + htol between two    *)
(* records, and it sent a heartbeat (checks f and h).                      *)
(***************************************************************************)
SilenceEvident ==
    \A run \in DOMAIN report : Checked(run, 1) =>
        \A log \in LogsOf(run) : HonestClose(log) =>
            LET s == Recorded(log)
            IN  /\ \A i \in 2..Len(s) : s[i].ts - s[i - 1].ts <= HMax + HTol
                /\ \E i \in DOMAIN s : s[i].type = "heartbeat"

\* The events of the declared classes in a recorded log.
RecordedIDs(s) ==
    {s[i].event.id : i \in {j \in DOMAIN s :
        s[j].type = "activity" /\ s[j].event.class \in art.correspondence[1]}}

(***************************************************************************)
(* AEL-2.  An event of a declared class that one recorder with a sound key *)
(* wrote down is in every presented log of the run, and none of those logs *)
(* invents one, also when the other recorders' keys are leaked (checks k   *)
(* to m).                                                                  *)
(***************************************************************************)
OmissionEvident ==
    \A run \in DOMAIN report : Checked(run, 2) =>
        \A log, other \in LogsOf(run) : HonestClose(log) =>
            RecordedIDs(Payloads(other)) = RecordedIDs(Recorded(log))

\* Only the run's own recorders have lost their keys.
OnlyRecorderKeysLeaked(run) ==
    leaked \subseteq {log.records[1].raw.key : log \in LogsOf(run)}

(***************************************************************************)
(* AEL-3.  Once anchored, history cannot be rewritten: every presented log *)
(* is what was recorded even when all the recorders' keys are leaked and   *)
(* whatever key the manifest declares for the external log (checks n to q  *)
(* and u).                                                                 *)
(***************************************************************************)
AnchoredHistory ==
    \A run \in DOMAIN report : Checked(run, 3) /\ OnlyRecorderKeysLeaked(run) =>
        \A log \in LogsOf(run) : Payloads(log) = Recorded(log)

\* The outbound events of the declared flows in the presented logs of a run.
Deliveries(run) ==
    {p.event.id : p \in {q \in UNION {Range(Payloads(log)) : log \in LogsOf(run)} :
        /\ q.type = "activity" /\ q.event.dir = "out"
        /\ q.event.class \in art.counterparty[1].flows}}

(***************************************************************************)
(* AEL-4.  Every outbound event of a declared flow that the logs show was  *)
(* confirmed by the counterparty itself for this run and this nonce, never *)
(* by a statement of another session (checks r to t and v).                *)
(***************************************************************************)
ConfirmedDeliveries ==
    \A run \in DOMAIN report : Checked(run, 4) /\ OnlyRecorderKeysLeaked(run) =>
        \A id \in Deliveries(run) : \E s \in DOMAIN issued :
            /\ issued[s].raw.received = id
            /\ issued[s].raw.run = run
            /\ issued[s].raw.nonce = NonceOf[run]

(***************************************************************************)
(* Presented as recorded, a run earns AEL-1 or more exactly when each of   *)
(* its logs is well formed, live and closed, and it is reported open       *)
(* exactly when a recorder stopped without closing; with hmax = 0 it is    *)
(* neither (evaluateRun and computeGrade).                                 *)
(***************************************************************************)
Live(s) ==
    /\ HMax > 0
    /\ s # << >> /\ Last(s).type = "close"
    /\ \A i \in DOMAIN s : s[i].form = "valid"
    /\ \E i \in DOMAIN s : s[i].type = "heartbeat"
    /\ \A i \in 2..Len(s) : s[i].ts - s[i - 1].ts <= HMax + HTol

HonestVerdict ==
    phase = "checked" /\ edits = 0 /\ issued = << >> =>
        \A run \in Runs :
            LET logs == {written[l] : l \in {k \in DOMAIN Logs : RunOf(k) = run}}
            IN  /\ Checked(run, 1) <=> \A s \in logs : Live(s)
                /\ report[run].open <=>
                      \E s \in logs : HMax > 0 /\ s # << >> /\ Last(s).type # "close"

(***************************************************************************)
(* A key that was not published makes a check undecided, never decided:    *)
(* every PASS and every FAIL would stand if all keys were published, and   *)
(* no grade is higher than it would be then (Record.Verify and the UV      *)
(* branches of the checks).                                                *)
(***************************************************************************)
MissingKeyUndecided ==
    art.keys # Keys => \A run \in DOMAIN report :
        LET full == evaluateRun(ForRun([art EXCEPT !.keys = Keys], run))
        IN  /\ report[run].grade <= full.grade
            /\ \A c \in DOMAIN report[run].checks :
                  report[run].checks[c] \in {UV, full.checks[c]}

(***************************************************************************)
(* aelcheck -min-grade 1 exits 0 only if every log that the artifact       *)
(* presents under a run, whichever that is and whether or not the          *)
(* manifest's run list names it, is closed and is the whole log its        *)
(* recorder wrote, and there is such a log (artifactRuns, conformanceExit).*)
(*                                                                         *)
(* A log presented under the empty run identifier is out of this: beside a *)
(* log of a run, artifactRuns passes it over (checks.go 871 and 877), and  *)
(* the status is 0 whatever it holds, although docs/ARTIFACT-FORMAT.md:233 *)
(* says that no manifest omission may hide a degraded run.  With no other  *)
(* log the status is never 0, as a record that names no run is not valid.  *)
(***************************************************************************)
CleanExit ==
    phase = "checked" /\ conformanceExit(report, 1) = 0 =>
        LET UnderRun == {l \in DOMAIN art.logs : art.logs[l].run # NoRun}
        IN  /\ UnderRun # {}
            /\ \A l \in UnderRun :
                  LET log == art.logs[l]
                  IN  /\ log.records # << >> /\ Last(Payloads(log)).type = "close"
                      /\ HonestClose(log) => Payloads(log) = Recorded(log)
-----------------------------------------------------------------------------
(***************************************************************************)
(* The inductive invariant behind the safety properties.                   *)
(***************************************************************************)

\* What a recorder wrote is one chain: numbered from 0, each record linked to
\* the one before it, all under the recorder's own key, a close only at the end.
LinkOK(s, l, i) ==
    /\ s[i].seq = i - 1
    /\ s[i].recorder = Recorder(l) /\ s[i].run = RunOf(l) /\ s[i].key = Key(l)
    /\ s[i].prev = IF i = 1 THEN zeroPrev ELSE Hash(s[i - 1])
    /\ s[i].type = "close" => i = Len(s)

ChainsOK ==
    \A l \in DOMAIN Logs : \A i \in DOMAIN written[l] : LinkOK(written[l], l, i)

\* A record that carries the signature of a key that is not leaked was
\* written by the holder of that key.
Genuine(rec) ==
    rec.signer \notin leaked \cup {NoKey} =>
        \E k \in DOMAIN Logs :
            /\ Key(k) = rec.signer
            /\ \E j \in DOMAIN written[k] : rec.raw = written[k][j]

Unforged ==
    \A l \in DOMAIN art.logs : \A i \in DOMAIN art.logs[l].records :
        Genuine(art.logs[l].records[i])

\* Nothing is presented while recording goes on, and the report is about the
\* artifact that was presented.
PhasesOK ==
    /\ phase = "recording" => art = NoArtifact
    /\ phase # "checked" => report = << >>
    /\ phase = "checked" => report = Evaluate(art)

IndInv == TypeOK /\ ChainsOK /\ Unforged /\ PhasesOK

(***************************************************************************)
(* What AEL-1 to AEL-4 need on top of it.                                  *)
(***************************************************************************)

\* What else a recorder says in its records: one open, at the start, declaring
\* the interval and the nonce; time that does not go back; a close that commits
\* to the count and to the head.
ContentOK(s, l, i) ==
    LET p == s[i]
    IN  /\ p.v = 1 /\ p.form \in Forms
        /\ p.type = "open" <=> i = 1
        /\ i = 1 => p.hmax = HMax /\ p.htol = HTol /\ p.nonce = NonceOf[RunOf(l)]
        /\ p.ts \in 0..clock /\ (i > 1 => s[i - 1].ts <= p.ts)
        /\ p.type = "close" => p.count = i /\ p.head = Hash(s[i - 1])

ContentsOK ==
    \A l \in DOMAIN Logs : \A i \in DOMAIN written[l] : ContentOK(written[l], l, i)

\* The external log holds what recorders wrote, and a tree head under a key
\* that is not leaked is the external log's own.
LeavesOK ==
    \A n \in DOMAIN tree : \E l \in DOMAIN Logs : \E j \in DOMAIN written[l] :
        tree[n] = merkleLeaf(written[l][j])

HeadOK ==
    art.anchors # Nil =>
        /\ DOMAIN Anchors = DOMAIN AnchorsOver(<< >>, LogKey)
        /\ Anchors.signer \notin leaked =>
              \E n \in 0..Len(tree) : Anchors.signed.root = SubSeq(tree, 1, n)

\* A statement under a key that is not leaked was issued.
StatementOK(stmt) ==
    /\ DOMAIN stmt = {"parsed", "raw", "signer"}
    /\ stmt.signer \notin leaked \cup {NoKey} =>
          \E s \in DOMAIN issued : stmt.raw = issued[s].raw

StatementsOK ==
    /\ \A s \in DOMAIN issued : DOMAIN issued[s] = {"parsed", "raw", "signer"}
    /\ IsSeq(Statements(art))
    /\ \A s \in DOMAIN Statements(art) : StatementOK(Statements(art)[s])

\* The manifest's other blocks: no class is added, the flows are as declared.
BlocksOK ==
    phase # "recording" =>
        /\ \E classes \in SUBSET Covered : art.correspondence = <<classes>>
        /\ \E key \in Keys : art.counterparty = <<[key |-> key, flows |-> Flows]>>

\* Before the first edit the artifact shows what was recorded.
PresentedOK ==
    phase # "recording" /\ edits = 0 =>
        /\ art.runs = Runs /\ art.keys = Keys
        /\ art.logs = [l \in DOMAIN Logs |-> PresentedLog(l)]
        /\ art.anchors # Nil => Anchors.schema
        /\ art.statements = <<issued>>

\* The records of buildRecords, the leaves of buildAnchors and the statements of
\* buildCounterparty stay what their makers signed under every edit of the
\* artifact: the invariant behind AEL-1 to AEL-4.
HistoryInv ==
    /\ ContentsOK /\ LeavesOK /\ HeadOK /\ StatementsOK /\ BlocksOK /\ PresentedOK
=============================================================================
