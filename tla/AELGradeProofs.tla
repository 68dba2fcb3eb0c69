--------------------------- MODULE AELGradeProofs ---------------------------
(***************************************************************************)
(* Proofs about what the grades above AEL-0 establish, for every choice of *)
(* the constants of AELRun.                                                *)
(*                                                                         *)
(* HistoryInv is inductive given IndInv: it says what else recorders put   *)
(* into their records, that the external log holds what they wrote, and    *)
(* that a tree head or a statement under a key that is not leaked is the   *)
(* external log's or the counterparty's own.                               *)
(***************************************************************************)
EXTENDS AELRunProofs

-----------------------------------------------------------------------------
(***************************************************************************)
(* Recording preserves the invariant.                                      *)
(***************************************************************************)

\* While recording there is no artifact.
LEMMA NothingPresented ==
    ASSUME IndInv, Recording
    PROVE  /\ art = NoArtifact /\ art.anchors = Nil
           /\ IsSeq(Statements(art)) /\ DOMAIN Statements(art) = {}
<1>1. art = NoArtifact
  BY DEF IndInv, PhasesOK, Recording
<1>2. art.anchors = Nil /\ art.statements = Nil
  BY <1>1 DEF NoArtifact
<1>3. Statements(art) = << >>
  BY <1>2 DEF Statements
<1> QED BY <1>1, <1>2, <1>3, EmptyIsSeq

\* At the start nothing is written, anchored or issued.
LEMMA InitHistory == Init => HistoryInv
<1> SUFFICES ASSUME Init PROVE HistoryInv
  OBVIOUS
<1>1. IndInv /\ Recording
  BY InitInv DEF Init, Recording
<1>2. /\ \A l \in DOMAIN Logs : written[l] = << >>
      /\ tree = << >> /\ issued = << >> /\ phase = "recording"
  BY DEF Init
<1>3. \A s : s = << >> => DOMAIN s = {}
  OBVIOUS
<1>4. ContentsOK /\ LeavesOK
  BY <1>2, <1>3 DEF ContentsOK, LeavesOK
<1>5. HeadOK /\ BlocksOK /\ PresentedOK /\ StatementsOK
  BY <1>1, <1>2, <1>3, NothingPresented DEF HeadOK, BlocksOK, PresentedOK, StatementsOK
<1> QED BY <1>4, <1>5 DEF HistoryInv

\* The parts about the artifact while there is none.
LEMMA StillNothing ==
    ASSUME IndInv', phase' = "recording",
           \A s \in DOMAIN issued' : DOMAIN issued'[s] = {"parsed", "raw", "signer"}
    PROVE  HeadOK' /\ StatementsOK' /\ BlocksOK' /\ PresentedOK'
<1>1. art' = NoArtifact /\ NoArtifact.anchors = Nil /\ NoArtifact.statements = Nil
  BY DEF IndInv, PhasesOK, NoArtifact
<1>2. Statements(art') = << >>
  BY <1>1 DEF Statements
<1> QED BY <1>1, <1>2, EmptyIsSeq DEF HeadOK, StatementsOK, BlocksOK, PresentedOK

\* What the next record says beyond what NextPayloadFields states.
LEMMA NextPayloadContent ==
    ASSUME NEW chain, NEW recorder, NEW run, NEW key, NEW type, NEW ts, NEW event,
           NEW form
    PROVE  LET p == NextPayload(chain, recorder, run, key, type, ts, event, form)
           IN  /\ p.v = 1 /\ p.form = form /\ p.ts = ts /\ p.type = type
               /\ type = "open" => p.hmax = HMax /\ p.htol = HTol /\ p.nonce = NonceOf[run]
               /\ type = "close" =>
                     /\ p.count = Len(chain) + 1
                     /\ p.head = IF chain = << >> THEN zeroPrev ELSE Hash(Last(chain))
BY DEF NextPayload

\* A recorder extends its log by an open exactly when the log is empty.
LEMMA WriteHistory ==
    ASSUME IndInv, IndInv', HistoryInv, NEW l \in DOMAIN Logs, NEW type, NEW event,
           NEW form \in Forms, Write(l, type, event, form),
           IF type = "open" THEN written[l] = << >> ELSE IsOpen(l)
    PROVE  HistoryInv'
<1> DEFINE s == written[l]
           p == NextPayload(s, Recorder(l), RunOf(l), Key(l), type, clock, event, form)
<1>1. /\ DOMAIN written = DOMAIN Logs /\ IsSeq(s) /\ phase' = "recording"
      /\ clock \in Nat
      /\ UNCHANGED <<phase, clock, tree, issued, leaked, art, edits, report>>
  BY BoundsAssumption DEF IndInv, TypeOK, Write, Recording
<1>2. written' = [written EXCEPT ![l] = Append(s, p)]
  BY DEF Write
<1>3. /\ DOMAIN Append(s, p) = 1..(Len(s) + 1)
      /\ \A i \in 1..Len(s) : Append(s, p)[i] = s[i]
      /\ Append(s, p)[Len(s) + 1] = p
  <2> HIDE DEF p
  <2> QED BY <1>1, AppendIsSeq
<1>4. Len(s) \in Nat /\ DOMAIN s = 1..Len(s) /\ (s = << >> <=> Len(s) = 0)
  BY <1>1, EmptyIsSeq DEF IsSeq
<1>5. /\ p.v = 1 /\ p.form = form /\ p.ts = clock /\ p.type = type
      /\ type = "open" => p.hmax = HMax /\ p.htol = HTol /\ p.nonce = NonceOf[RunOf(l)]
      /\ type = "close" =>
            /\ p.count = Len(s) + 1
            /\ p.head = IF s = << >> THEN zeroPrev ELSE Hash(Last(s))
  BY NextPayloadContent
<1> HIDE DEF p
<1>6. \A k \in DOMAIN Logs : written'[k] = IF k = l THEN Append(s, p) ELSE written[k]
  BY <1>1, <1>2
<1>7. \A k \in DOMAIN Logs : \A i \in DOMAIN written[k] :
         i \in DOMAIN written'[k] /\ written'[k][i] = written[k][i]
  <2> SUFFICES ASSUME NEW k \in DOMAIN Logs, NEW i \in DOMAIN written[k]
               PROVE  i \in DOMAIN written'[k] /\ written'[k][i] = written[k][i]
    OBVIOUS
  <2>1. CASE k # l
    BY <2>1, <1>6
  <2>2. CASE k = l
    <3>1. written'[k] = Append(s, p) /\ i \in 1..Len(s)
      BY <2>2, <1>4, <1>6
    <3>2. i \in 1..(Len(s) + 1)
      BY <3>1, <1>4
    <3> QED BY <3>1, <3>2, <2>2, <1>3
  <2> QED BY <2>1, <2>2
<1>8. LeavesOK'
  <2> SUFFICES ASSUME NEW n \in DOMAIN tree
               PROVE  \E k \in DOMAIN Logs : \E j \in DOMAIN written'[k] :
                         tree[n] = merkleLeaf(written'[k][j])
    BY <1>1 DEF LeavesOK
  <2>1. PICK k \in DOMAIN Logs : \E j \in DOMAIN written[k] :
           tree[n] = merkleLeaf(written[k][j])
    BY DEF HistoryInv, LeavesOK
  <2> QED BY <2>1, <1>7
<1>9. ContentsOK'
  <2> SUFFICES ASSUME NEW k \in DOMAIN Logs, NEW i \in DOMAIN written'[k]
               PROVE  ContentOK(written[k], k, i)'
    BY DEF ContentsOK
  <2>1. CASE k # l
    <3>1. written'[k] = written[k] /\ clock' = clock
      BY <2>1, <1>1, <1>6
    <3>2. ContentOK(written[k], k, i)
      BY <3>1 DEF HistoryInv, ContentsOK
    <3> QED BY <3>1, <3>2 DEF ContentOK
  <2>2. CASE k = l /\ i \in 1..Len(s)
    <3>1. ContentOK(s, l, i)
      BY <2>2, <1>4 DEF HistoryInv, ContentsOK
    <3>2. written'[k][i] = s[i] /\ (i > 1 => written'[k][i - 1] = s[i - 1])
      <4>1. written'[k] = Append(s, p)
        BY <2>2, <1>6
      <4>2. i > 1 => i - 1 \in 1..Len(s)
        BY <2>2, <1>4
      <4> QED BY <4>1, <4>2, <2>2, <1>3
    <3>3. s[i].type = "close" => i > 1
      BY <3>1, <2>2 DEF ContentOK
    <3> QED BY <3>1, <3>2, <3>3, <2>2, <1>1 DEF ContentOK
  <2>3. CASE k = l /\ i = Len(s) + 1
    <3>1. written'[k] = Append(s, p)
      BY <2>3, <1>6
    <3>2. written'[k][i] = p
      BY <3>1, <2>3, <1>3
    <3>3. type = "open" <=> i = 1
      BY <2>3, <1>4 DEF IsOpen
    <3>4. i > 1 => Len(s) \in DOMAIN s /\ i - 1 = Len(s) /\ s # << >>
      BY <2>3, <1>4
    <3>5. i > 1 => written'[k][i - 1] = Last(s)
      BY <3>1, <3>4, <1>3, <1>4 DEF Last
    <3>6. i > 1 => Last(s).ts \in 0..clock
      BY <3>4 DEF HistoryInv, ContentsOK, ContentOK, Last
    <3>7. type = "close" => i > 1
      BY <3>3, <2>3, <1>4
    <3>8. i > 1 => Last(s).ts <= clock
      BY <3>6, <1>1
    <3>9. type = "close" => p.count = i /\ p.head = Hash(written'[k][i - 1])
      BY <3>4, <3>5, <3>7, <1>5, <2>3
    <3>10. i = 1 => p.hmax = HMax /\ p.htol = HTol /\ p.nonce = NonceOf[RunOf(k)]
      BY <3>3, <1>5, <2>3
    <3>11. clock \in 0..clock
      BY <1>1
    <3> QED BY <3>2, <3>3, <3>5, <3>8, <3>9, <3>10, <3>11, <1>1, <1>5 DEF ContentOK
  <2>4. k = l => i \in 1..Len(s) \/ i = Len(s) + 1
    <3>1. k = l => DOMAIN written'[k] = 1..(Len(s) + 1)
      BY <1>3, <1>6
    <3> QED BY <3>1, <1>4
  <2> QED BY <2>1, <2>2, <2>3, <2>4
<1>10. HeadOK' /\ StatementsOK' /\ BlocksOK' /\ PresentedOK'
  BY <1>1, StillNothing DEF HistoryInv, StatementsOK
<1> QED BY <1>8, <1>9, <1>10 DEF HistoryInv

\* Time passes.
LEMMA TickHistory ==
    ASSUME IndInv, IndInv', HistoryInv, Tick
    PROVE  HistoryInv'
<1>1. /\ clock \in Nat /\ clock' = clock + 1 /\ phase' = "recording"
      /\ UNCHANGED <<phase, written, tree, issued, leaked, art, edits>>
  BY BoundsAssumption DEF Tick, Recording, IndInv, TypeOK
<1>2. ContentsOK'
  <2> SUFFICES ASSUME NEW l \in DOMAIN Logs, NEW i \in DOMAIN written[l]
               PROVE  ContentOK(written[l], l, i)'
    BY <1>1 DEF ContentsOK
  <2>1. ContentOK(written[l], l, i)
    BY DEF HistoryInv, ContentsOK
  <2>2. \A t \in 0..clock : t \in 0..clock'
    BY <1>1
  <2> QED BY <1>1, <2>1, <2>2 DEF ContentOK
<1>3. LeavesOK' /\ HeadOK' /\ StatementsOK' /\ BlocksOK' /\ PresentedOK'
  BY <1>1, StillNothing DEF HistoryInv, LeavesOK, StatementsOK
<1> QED BY <1>2, <1>3 DEF HistoryInv

\* A registered leaf is the head of a recorder's log.
LEMMA RegisterHistory ==
    ASSUME IndInv, IndInv', HistoryInv, NEW l \in DOMAIN Logs, Register(l)
    PROVE  HistoryInv'
<1> DEFINE x == merkleLeaf(Last(written[l]))
<1>1. /\ phase' = "recording" /\ tree' = Append(tree, x) /\ written[l] # << >>
      /\ UNCHANGED <<phase, clock, written, issued, leaked, art, edits>>
  BY DEF Register, Recording
<1>2. Len(written[l]) \in DOMAIN written[l]
  <2>1. IsSeq(written[l])
    BY DEF IndInv, TypeOK
  <2> QED BY <2>1, <1>1, EmptyIsSeq DEF IsSeq
<1>3. \E j \in DOMAIN written[l] : x = merkleLeaf(written[l][j])
  BY <1>2 DEF Last
<1> HIDE DEF x
<1>4. IsSeq(tree)
  BY DEF IndInv, TypeOK
<1>5. /\ DOMAIN tree' = 1..(Len(tree) + 1) /\ tree'[Len(tree) + 1] = x
      /\ \A n \in 1..Len(tree) : tree'[n] = tree[n]
  BY <1>1, <1>4, AppendIsSeq
<1>6. DOMAIN tree = 1..Len(tree) /\ Len(tree) \in Nat
  BY <1>4 DEF IsSeq
<1>7. LeavesOK'
  <2> SUFFICES ASSUME NEW n \in DOMAIN tree'
               PROVE  \E k \in DOMAIN Logs : \E j \in DOMAIN written[k] :
                         tree'[n] = merkleLeaf(written[k][j])
    BY <1>1 DEF LeavesOK
  <2>1. n \in 1..Len(tree) \/ n = Len(tree) + 1
    BY <1>5, <1>6
  <2>2. CASE n \in 1..Len(tree)
    BY <2>2, <1>5, <1>6 DEF HistoryInv, LeavesOK
  <2> QED BY <2>1, <2>2, <1>3, <1>5
<1>8. ContentsOK' /\ HeadOK' /\ StatementsOK' /\ BlocksOK' /\ PresentedOK'
  BY <1>1, StillNothing DEF HistoryInv, ContentsOK, ContentOK, StatementsOK
<1> QED BY <1>7, <1>8 DEF HistoryInv

\* The counterparty issues one more statement.
LEMMA ConfirmHistory ==
    ASSUME IndInv, IndInv', HistoryInv, NEW session, NEW flow, NEW id, NEW form,
           Confirm(session, flow, id, form)
    PROVE  HistoryInv'
<1> DEFINE x == Signed(Statement(session, flow, id, form), CpKey)
<1>1. /\ phase' = "recording" /\ issued' = Append(issued, x)
      /\ UNCHANGED <<phase, clock, written, tree, leaked, art, edits>>
  BY DEF Confirm, Recording
<1>2. DOMAIN x = {"parsed", "raw", "signer"}
  BY SignedFields
<1> HIDE DEF x
<1>3. IsSeq(issued)
  BY DEF IndInv, TypeOK
<1>4. /\ DOMAIN issued' = 1..(Len(issued) + 1) /\ issued'[Len(issued) + 1] = x
      /\ \A s \in 1..Len(issued) : issued'[s] = issued[s]
  BY <1>1, <1>3, AppendIsSeq
<1>5. DOMAIN issued = 1..Len(issued) /\ Len(issued) \in Nat
  BY <1>3 DEF IsSeq
<1>6. ASSUME NEW s \in DOMAIN issued'
      PROVE  DOMAIN issued'[s] = {"parsed", "raw", "signer"}
  <2>1. s \in 1..Len(issued) \/ s = Len(issued) + 1
    BY <1>4, <1>5
  <2>2. CASE s \in 1..Len(issued)
    BY <2>2, <1>4, <1>5 DEF HistoryInv, StatementsOK
  <2> QED BY <2>1, <2>2, <1>2, <1>4
<1>7. ContentsOK' /\ LeavesOK'
  BY <1>1 DEF HistoryInv, ContentsOK, ContentOK, LeavesOK
<1>8. HeadOK' /\ StatementsOK' /\ BlocksOK' /\ PresentedOK'
  BY <1>1, <1>6, StillNothing
<1> QED BY <1>7, <1>8 DEF HistoryInv

\* The artifact starts as what was recorded, under a prefix of the external
\* log's leaves.
LEMMA PresentHistory ==
    ASSUME IndInv, HistoryInv, NEW size, NEW keys \in CanLeak, Present(size, keys)
    PROVE  HistoryInv'
<1>1. /\ phase' = "presenting" /\ size \in 0..Len(tree)
      /\ UNCHANGED <<clock, written, tree, issued, edits, report>>
  BY DEF Present, recording
<1>2. /\ art'.runs = Runs /\ art'.keys = Keys
      /\ art'.logs = [l \in DOMAIN Logs |-> PresentedLog(l)]
      /\ art'.correspondence = <<Covered>>
      /\ art'.counterparty = <<[key |-> CpKey, flows |-> Flows]>>
      /\ art'.statements = <<issued>>
      /\ art'.anchors = IF size = 0 THEN Nil
                        ELSE <<AnchorsOver(SubSeq(tree, 1, size), LogKey)>>
  BY DEF Present
<1>3. ContentsOK' /\ LeavesOK'
  BY <1>1 DEF HistoryInv, ContentsOK, ContentOK, LeavesOK
<1>4. art'.anchors # Nil =>
         /\ art'.anchors[1] = AnchorsOver(SubSeq(tree, 1, size), LogKey)
         /\ size \in 0..Len(tree')
  BY <1>1, <1>2
<1>5. \A leaves : LET A == AnchorsOver(leaves, LogKey)
                  IN  /\ DOMAIN A = DOMAIN AnchorsOver(<< >>, LogKey)
                      /\ A.signed.root = leaves /\ A.schema
  BY DEF AnchorsOver
<1>6. HeadOK'
  BY <1>1, <1>4, <1>5 DEF HeadOK, Anchors
<1>7. BlocksOK'
  <2>1. CpKey \in Keys
    BY DEF Keys
  <2> QED BY <1>2, <2>1 DEF BlocksOK
<1>8. Statements(art') = issued
  BY <1>2 DEF Statements, Nil
<1>9. StatementsOK'
  <2>1. IsSeq(issued) /\ \A s \in DOMAIN issued : DOMAIN issued[s] = {"parsed", "raw", "signer"}
    BY DEF IndInv, TypeOK, HistoryInv, StatementsOK
  <2> QED BY <1>1, <1>8, <2>1 DEF StatementsOK, StatementOK
<1>10. PresentedOK'
  BY <1>1, <1>2, <1>4, <1>5 DEF PresentedOK, Anchors, PresentedLog
<1> QED BY <1>3, <1>6, <1>7, <1>9, <1>10 DEF HistoryInv
-----------------------------------------------------------------------------
(***************************************************************************)
(* Editing preserves the invariant.                                        *)
(***************************************************************************)

\* It is enough that the parts about the artifact hold of the new one.
LEMMA EditHistory ==
    ASSUME IndInv, HistoryInv, Presenting, NEW new, Edit(new),
           HeadOK', StatementsOK', BlocksOK'
    PROVE  HistoryInv'
<1>1. /\ edits' = edits + 1 /\ edits \in Nat
      /\ UNCHANGED <<clock, written, tree>>
  BY BoundsAssumption DEF Edit, recording, IndInv, TypeOK
<1>2. ContentsOK' /\ LeavesOK'
  BY <1>1 DEF HistoryInv, ContentsOK, ContentOK, LeavesOK
<1>3. PresentedOK'
  BY <1>1 DEF PresentedOK
<1> QED BY <1>2, <1>3 DEF HistoryInv

\* The parts whose block of the artifact stays as it is.
LEMMA BlocksKept ==
    ASSUME HistoryInv, Presenting, NEW new, Edit(new)
    PROVE  /\ art' = new
           /\ new.anchors = art.anchors => HeadOK'
           /\ new.statements = art.statements => StatementsOK'
           /\ new.correspondence = art.correspondence /\ new.counterparty = art.counterparty
                 => BlocksOK'
<1>1. /\ art' = new
      /\ UNCHANGED <<phase, tree, issued, leaked>>
  BY DEF Edit, recording
<1>2. HeadOK /\ StatementsOK /\ BlocksOK
  BY DEF HistoryInv
<1>3. new.anchors = art.anchors => HeadOK'
  BY <1>1, <1>2 DEF HeadOK, Anchors
<1>4. new.statements = art.statements => StatementsOK'
  BY <1>1, <1>2 DEF StatementsOK, StatementOK, Statements
<1>5. new.correspondence = art.correspondence /\ new.counterparty = art.counterparty
         => BlocksOK'
  BY <1>1, <1>2 DEF BlocksOK
<1> QED BY <1>1, <1>3, <1>4, <1>5

\* The fields of the artifact.
LEMMA ArtifactFields ==
    ASSUME IndInv
    PROVE  {"runs", "logs", "keys", "correspondence", "anchor", "anchors", "anchorsErr",
            "counterparty", "statements", "statementsErr"} \subseteq DOMAIN art
BY ArtifactFacts DEF NoArtifact

\* An edit of something else.
LEMMA EditOtherHistory ==
    ASSUME IndInv, HistoryInv, Presenting, NEW new, Edit(new),
           new.anchors = art.anchors, new.statements = art.statements,
           new.correspondence = art.correspondence, new.counterparty = art.counterparty
    PROVE  HistoryInv'
BY BlocksKept, EditHistory

LEMMA EditRecordsHistory ==
    ASSUME IndInv, HistoryInv, Presenting, NEW l, NEW records, EditRecords(l, records)
    PROVE  HistoryInv'
<1> DEFINE new == [art EXCEPT !.logs[l].records = records]
<1>1. /\ new.anchors = art.anchors /\ new.statements = art.statements
      /\ new.correspondence = art.correspondence /\ new.counterparty = art.counterparty
  BY ArtifactFields
<1>2. Edit(new)
  BY DEF EditRecords
<1> HIDE DEF new
<1> QED BY <1>1, <1>2, EditOtherHistory

\* Edits of records, with and without a key, are edits of nothing else.
LEMMA RecordStepsHistory ==
    ASSUME IndInv, HistoryInv, Presenting, EditRecordStep \/ ForgeRecordStep
    PROVE  HistoryInv'
<1>1. CASE EditRecordStep
  <2>1. PICK l : \E records : EditRecords(l, records)
    BY <1>1 DEF EditRecordStep, DropRecord, TransposeRecords, FlipByte, GarbleLine,
                SpliceRecord
  <2> QED BY <2>1, EditRecordsHistory
<1>2. CASE ForgeRecordStep
  <2>1. ASSUME NEW l, NEW key, NEW plan, Resign(l, key, plan)
        PROVE  HistoryInv'
    BY <2>1, EditRecordsHistory DEF Resign
  <2>2. ASSUME NEW l, NEW key, NEW type, NEW event, NEW form,
               ForgeNext(l, key, type, event, form)
        PROVE  HistoryInv'
    BY <2>2, EditRecordsHistory DEF ForgeNext
  <2> QED BY <1>2, <2>1, <2>2 DEF ForgeRecordStep, ResignWithout, ResignInstead
<1> QED BY <1>1, <1>2

\* The manifest's edits narrow the covered classes or change a declared key.
LEMMA EditManifestHistory ==
    ASSUME IndInv, HistoryInv, Presenting, EditManifestStep
    PROVE  HistoryInv'
<1> USE ArtifactFields
<1>1. ASSUME NEW logs, Edit([art EXCEPT !.logs = logs])
      PROVE  HistoryInv'
  <2> DEFINE new == [art EXCEPT !.logs = logs]
  <2>1. /\ new.anchors = art.anchors /\ new.statements = art.statements
        /\ new.correspondence = art.correspondence /\ new.counterparty = art.counterparty
    OBVIOUS
  <2>2. Edit(new)
    BY <1>1
  <2> HIDE DEF new
  <2> QED BY <2>1, <2>2, EditOtherHistory
<1>2. ASSUME NEW l, OmitLog(l) \/ ListTwice(l)
      PROVE  HistoryInv'
  BY <1>1, <1>2 DEF OmitLog, ListTwice
<1>3. ASSUME NEW l, NEW x, RelabelLog(l, x) \/ RelabelRun(l, x) \/ DeclareKey(l, x)
      PROVE  HistoryInv'
  <2>1. PICK f \in {"id", "run", "key"} : Edit([art EXCEPT !.logs[l][f] = x])
    BY <1>3 DEF RelabelLog, RelabelRun, DeclareKey
  <2> DEFINE new == [art EXCEPT !.logs[l][f] = x]
  <2>2. /\ new.anchors = art.anchors /\ new.statements = art.statements
        /\ new.correspondence = art.correspondence /\ new.counterparty = art.counterparty
    OBVIOUS
  <2>3. Edit(new)
    BY <2>1
  <2> HIDE DEF new
  <2> QED BY <2>2, <2>3, EditOtherHistory
<1>4. ASSUME NEW x, OmitRun(x) \/ DeclareLogKey(x)
      PROVE  HistoryInv'
  <2>1. PICK new : /\ Edit(new)
                   /\ new \in {[art EXCEPT !.runs = art.runs \ {x}],
                               [art EXCEPT !.anchor = <<[logKey |-> x]>>]}
    BY <1>4 DEF OmitRun, DeclareLogKey
  <2>2. /\ new.anchors = art.anchors /\ new.statements = art.statements
        /\ new.correspondence = art.correspondence /\ new.counterparty = art.counterparty
    BY <2>1
  <2> QED BY <2>1, <2>2, EditOtherHistory
<1>5. phase' = phase /\ BlocksOK /\ phase = "presenting"
  BY DEF HistoryInv, Presenting, EditManifestStep, OmitLog, ListTwice, RelabelLog,
         RelabelRun, DeclareKey, OmitRun, NarrowCorrespondence, DeclareLogKey,
         DeclareCounterpartyKey, Edit
<1>6. ASSUME NEW class, NarrowCorrespondence(class)
      PROVE  HistoryInv'
  <2> DEFINE new == [art EXCEPT !.correspondence = <<art.correspondence[1] \ {class}>>]
  <2>1. /\ new.anchors = art.anchors /\ new.statements = art.statements
        /\ new.counterparty = art.counterparty
        /\ new.correspondence = <<art.correspondence[1] \ {class}>>
    OBVIOUS
  <2>2. Edit(new)
    BY <1>6 DEF NarrowCorrespondence
  <2> HIDE DEF new
  <2>3. art' = new /\ HeadOK' /\ StatementsOK'
    BY <2>1, <2>2, BlocksKept
  <2>4. PICK classes \in SUBSET Covered : art.correspondence = <<classes>>
    BY <1>5 DEF BlocksOK
  <2>5. new.correspondence = <<classes \ {class}>> /\ classes \ {class} \in SUBSET Covered
    BY <2>1, <2>4
  <2>6. BlocksOK'
    BY <1>5, <2>1, <2>3, <2>5 DEF BlocksOK
  <2> QED BY <2>2, <2>3, <2>6, EditHistory
<1>7. ASSUME NEW key \in Keys, DeclareCounterpartyKey(key)
      PROVE  HistoryInv'
  <2> DEFINE new == [art EXCEPT !.counterparty[1].key = key]
  <2>1. PICK old \in Keys : art.counterparty = <<[key |-> old, flows |-> Flows]>>
    BY <1>5 DEF BlocksOK
  <2>2. /\ new.anchors = art.anchors /\ new.statements = art.statements
        /\ new.correspondence = art.correspondence
        /\ new.counterparty = [art.counterparty EXCEPT ![1].key = key]
    OBVIOUS
  <2>3. new.counterparty = <<[key |-> key, flows |-> Flows]>>
    BY <2>1, <2>2
  <2>4. Edit(new)
    BY <1>7 DEF DeclareCounterpartyKey
  <2> HIDE DEF new
  <2>5. art' = new /\ HeadOK' /\ StatementsOK'
    BY <2>2, <2>4, BlocksKept
  <2>6. BlocksOK'
    BY <1>5, <2>2, <2>3, <2>5 DEF BlocksOK
  <2> QED BY <2>4, <2>5, <2>6, EditHistory
<1> QED BY <1>2, <1>3, <1>4, <1>6, <1>7 DEF EditManifestStep

\* Publishing fewer keys changes none of this.
LEMMA EditKeysHistory ==
    ASSUME IndInv, HistoryInv, Presenting, EditKeysStep
    PROVE  HistoryInv'
<1>1. PICK key : WithholdKey(key)
  BY DEF EditKeysStep
<1> DEFINE new == [art EXCEPT !.keys = art.keys \ {key}]
<1>2. /\ new.anchors = art.anchors /\ new.statements = art.statements
      /\ new.correspondence = art.correspondence /\ new.counterparty = art.counterparty
  BY ArtifactFields
<1>3. Edit(new)
  BY <1>1 DEF WithholdKey
<1> HIDE DEF new
<1> QED BY <1>2, <1>3, EditOtherHistory

\* The fields of anchors.json.
LEMMA AnchorsFields ==
    DOMAIN AnchorsOver(<< >>, LogKey) =
        {"log", "root", "size", "signed", "canonical", "signer", "schema", "entries"}
BY DEF AnchorsOver

\* An edit of anchors.json keeps what was signed and who signed it.
LEMMA EditAnchorsHistory ==
    ASSUME IndInv, HistoryInv, Presenting, art.anchors # Nil, NEW new, EditAnchors(new),
           DOMAIN new = DOMAIN Anchors, new.signer = Anchors.signer,
           new.signed = Anchors.signed
    PROVE  HistoryInv'
<1> DEFINE a == [art EXCEPT !.anchors = <<new>>]
<1>1. /\ a.anchors = <<new>> /\ a.statements = art.statements
      /\ a.correspondence = art.correspondence /\ a.counterparty = art.counterparty
  BY ArtifactFields
<1>2. Edit(a)
  BY DEF EditAnchors
<1> HIDE DEF a
<1>3. art' = a /\ StatementsOK' /\ BlocksOK'
  BY <1>1, <1>2, BlocksKept
<1>4. UNCHANGED <<tree, leaked>>
  BY <1>2 DEF Edit, recording
<1>5. art'.anchors[1] = new
  BY <1>1, <1>3
<1>6. HeadOK'
  BY <1>4, <1>5, AnchorsFields DEF HistoryInv, HeadOK, Anchors, AnchorsOver
<1> QED BY <1>2, <1>3, <1>6, EditHistory

\* Nobody can sign a tree head without the key.
LEMMA EditAnchorStepHistory ==
    ASSUME IndInv, HistoryInv, Presenting, EditAnchorStep
    PROVE  HistoryInv'
<1>1. art.anchors # Nil
  BY DEF EditAnchorStep
<1>2. DOMAIN Anchors =
         {"log", "root", "size", "signed", "canonical", "signer", "schema", "entries"}
  BY <1>1, AnchorsFields DEF HistoryInv, HeadOK
<1>3. ASSUME NEW entries, EditAnchors([Anchors EXCEPT !.entries = entries])
      PROVE  HistoryInv'
  <2> DEFINE new == [Anchors EXCEPT !.entries = entries]
  <2>1. DOMAIN new = DOMAIN Anchors /\ new.signer = Anchors.signer /\ new.signed = Anchors.signed
    BY <1>2
  <2>2. EditAnchors(new)
    BY <1>3
  <2> HIDE DEF new
  <2> QED BY <1>1, <2>1, <2>2, EditAnchorsHistory
<1>4. ASSUME NEW leaves, ClaimRoot(leaves)
      PROVE  HistoryInv'
  <2> DEFINE new == [Anchors EXCEPT !.root = leaves, !.size = Len(leaves),
                                    !.entries = EntriesOf(leaves)]
  <2>1. DOMAIN new = DOMAIN Anchors /\ new.signer = Anchors.signer /\ new.signed = Anchors.signed
    BY <1>2
  <2>2. EditAnchors(new)
    BY <1>4 DEF ClaimRoot
  <2> HIDE DEF new
  <2> QED BY <1>1, <2>1, <2>2, EditAnchorsHistory
<1>5. ASSUME ExtendAnchors
      PROVE  HistoryInv'
  <2> DEFINE new == [Anchors EXCEPT !.schema = FALSE]
  <2>1. DOMAIN new = DOMAIN Anchors /\ new.signer = Anchors.signer /\ new.signed = Anchors.signed
    BY <1>2
  <2>2. EditAnchors(new)
    BY <1>5 DEF ExtendAnchors
  <2> HIDE DEF new
  <2> QED BY <1>1, <2>1, <2>2, EditAnchorsHistory
<1>6. ASSUME GarbleAnchors
      PROVE  HistoryInv'
  <2> DEFINE new == [art EXCEPT !.anchors = Nil, !.anchorsErr = TRUE]
  <2>1. /\ new.anchors = Nil /\ new.statements = art.statements
        /\ new.correspondence = art.correspondence /\ new.counterparty = art.counterparty
    BY ArtifactFields
  <2>2. Edit(new)
    BY <1>6 DEF GarbleAnchors
  <2> HIDE DEF new
  <2>3. art' = new /\ StatementsOK' /\ BlocksOK'
    BY <2>1, <2>2, BlocksKept
  <2>4. HeadOK'
    BY <2>1, <2>3 DEF HeadOK
  <2> QED BY <2>2, <2>3, <2>4, EditHistory
<1>7. ASSUME NEW e, DropEntry(e) \/ CorruptProof(e) \/ (\E seq : RelabelEntry(e, seq))
      PROVE  HistoryInv'
  BY <1>3, <1>7 DEF DropEntry, CorruptProof, RelabelEntry
<1> QED BY <1>4, <1>5, <1>6, <1>7 DEF EditAnchorStep

\* A head over the presented logs is signed with a leaked key.
LEMMA EditHeadHistory ==
    ASSUME IndInv, HistoryInv, Presenting, EditHeadStep \/ EditRawHeadStep
    PROVE  HistoryInv'
<1>1. PICK key \in leaked, canonical \in BOOLEAN : ForgeHead(key, canonical)
  BY DEF EditHeadStep, EditRawHeadStep
<1> DEFINE x == [AnchorsOver(PresentedHeads, key) EXCEPT !.canonical = canonical]
           new == [art EXCEPT !.anchor = <<[logKey |-> key]>>, !.anchors = <<x>>,
                              !.anchorsErr = FALSE]
<1>2. DOMAIN x = DOMAIN AnchorsOver(<< >>, LogKey) /\ x.signer = key
  BY DEF AnchorsOver
<1>3. Edit(new)
  BY <1>1 DEF ForgeHead
<1> HIDE DEF x
<1>4. /\ new.anchors = <<x>> /\ new.statements = art.statements
      /\ new.correspondence = art.correspondence /\ new.counterparty = art.counterparty
  BY ArtifactFields
<1> HIDE DEF new
<1>5. art' = new /\ StatementsOK' /\ BlocksOK'
  BY <1>3, <1>4, BlocksKept
<1>6. leaked' = leaked /\ art'.anchors[1] = x
  BY <1>3, <1>4, <1>5 DEF Edit
<1>7. HeadOK'
  BY <1>2, <1>6, AnchorsFields DEF HeadOK, Anchors, AnchorsOver
<1> QED BY <1>3, <1>5, <1>7, EditHistory

\* Statements are replaced by a sequence of statements that are as good.
StatementsFine(stmts) ==
    IsSeq(stmts) /\ \A s \in DOMAIN stmts : StatementOK(stmts[s])

LEMMA StatementsReplaced ==
    ASSUME HistoryInv, NEW new, Edit(new), NEW stmts,
           Statements(new) = stmts, StatementsFine(stmts)
    PROVE  StatementsOK'
<1>1. art' = new /\ UNCHANGED <<issued, leaked>>
  BY DEF Edit, recording
<1>2. Statements(art') = stmts
  BY <1>1
<1> QED BY <1>1, <1>2 DEF HistoryInv, StatementsOK, StatementOK, StatementsFine

LEMMA EditStatementsHistory ==
    ASSUME IndInv, HistoryInv, Presenting, NEW stmts, EditStatements(stmts),
           StatementsFine(stmts)
    PROVE  HistoryInv'
<1> DEFINE new == [art EXCEPT !.statements = <<stmts>>]
<1>1. /\ new.anchors = art.anchors /\ new.statements = <<stmts>>
      /\ new.correspondence = art.correspondence /\ new.counterparty = art.counterparty
  BY ArtifactFields
<1>2. Edit(new)
  BY DEF EditStatements
<1> HIDE DEF new
<1>3. Statements(new) = stmts
  BY <1>1 DEF Statements, Nil
<1>4. StatementsOK'
  BY <1>2, <1>3, StatementsReplaced
<1> QED BY <1>1, <1>2, <1>4, BlocksKept, EditHistory

\* Nobody can sign a statement without the key.
LEMMA EditStatementHistory ==
    ASSUME IndInv, HistoryInv, Presenting, EditStatementStep
    PROVE  HistoryInv'
<1> DEFINE stmts == Statements(art)
<1>1. /\ IsSeq(stmts) /\ \A s \in DOMAIN stmts : StatementOK(stmts[s])
      /\ DOMAIN stmts = 1..Len(stmts) /\ Len(stmts) \in Nat
  BY DEF HistoryInv, StatementsOK, IsSeq
<1> HIDE DEF stmts
<1>2. ASSUME NEW s \in DOMAIN stmts, DropStatement(s)
      PROVE  HistoryInv'
  <2>1. IsSeq(Remove(stmts, s)) /\ Range(Remove(stmts, s)) \subseteq Range(stmts)
    BY <1>1, <1>2, RemoveIsSeq
  <2>2. StatementsFine(Remove(stmts, s))
    BY <2>1, <1>1 DEF StatementsFine, Range
  <2> QED BY <1>2, <2>2, EditStatementsHistory DEF DropStatement, stmts
<1>3. ASSUME NEW s \in DOMAIN stmts, NEW session, AlterStatement(s, session)
      PROVE  HistoryInv'
  <2> DEFINE r == [stmts EXCEPT ![s].raw.run = session[1], ![s].raw.nonce = session[2],
                                ![s].signer = NoKey]
  <2>1. EditStatements(r)
    BY <1>3 DEF AlterStatement, stmts
  <2>2. StatementOK(stmts[s])
    BY <1>1, <1>3
  <2>3. /\ r = [k \in DOMAIN stmts |-> r[k]]
        /\ \A k \in DOMAIN stmts : k # s => r[k] = stmts[k]
    OBVIOUS
  <2>4. DOMAIN r[s] = DOMAIN stmts[s] /\ r[s].signer = NoKey
    BY <1>3, <2>2 DEF StatementOK
  <2> HIDE DEF r
  <2>5. IsSeq(r) /\ DOMAIN r = DOMAIN stmts
    BY <2>3, <1>1, MapIsSeq
  <2>6. StatementsFine(r)
    BY <2>2, <2>3, <2>4, <2>5, <1>1 DEF StatementsFine, StatementOK
  <2> QED BY <2>1, <2>6, EditStatementsHistory
<1>4. ASSUME RemoveStatements
      PROVE  HistoryInv'
  <2> DEFINE new == [art EXCEPT !.statements = Nil]
  <2>1. /\ new.anchors = art.anchors /\ new.statements = Nil
        /\ new.correspondence = art.correspondence /\ new.counterparty = art.counterparty
    BY ArtifactFields
  <2>2. Edit(new)
    BY <1>4 DEF RemoveStatements
  <2> HIDE DEF new
  <2>3. Statements(new) = << >> /\ StatementsFine(<< >>)
    BY <2>1, EmptyIsSeq DEF Statements, StatementsFine
  <2>4. StatementsOK'
    BY <2>2, <2>3, StatementsReplaced
  <2> QED BY <2>1, <2>2, <2>4, BlocksKept, EditHistory
<1>5. ASSUME NEW key \in leaked, NEW session, NEW event, ForgeStatement(key, session, event)
      PROVE  HistoryInv'
  <2> DEFINE x == Signed(Statement(session, event.class, event.id, "valid"), key)
             more == Append(stmts, x)
             new == [art EXCEPT !.counterparty[1].key = key, !.statements = <<more>>]
  <2>1. Edit(new)
    BY <1>5 DEF ForgeStatement, stmts
  <2>2. StatementOK(x)
    BY <1>5, SignedFields DEF StatementOK
  <2> HIDE DEF x
  <2>3. StatementsFine(more)
    <3>1. /\ IsSeq(more) /\ DOMAIN more = 1..(Len(stmts) + 1)
          /\ more[Len(stmts) + 1] = x /\ \A k \in 1..Len(stmts) : more[k] = stmts[k]
      BY <1>1, AppendIsSeq
    <3> HIDE DEF more
    <3>2. \A k \in DOMAIN more : k \in 1..Len(stmts) \/ k = Len(stmts) + 1
      BY <3>1, <1>1
    <3> QED BY <3>1, <3>2, <2>2, <1>1 DEF StatementsFine
  <2> HIDE DEF more
  <2>4. phase = "presenting" /\ key \in Keys
    BY <1>5, KeysAssumption DEF Presenting, IndInv, TypeOK
  <2>5. PICK old \in Keys : art.counterparty = <<[key |-> old, flows |-> Flows]>>
    BY <2>4 DEF HistoryInv, BlocksOK
  <2>6. /\ new.anchors = art.anchors /\ new.correspondence = art.correspondence
        /\ new.statements = <<more>>
        /\ new.counterparty = [art.counterparty EXCEPT ![1].key = key]
    BY ArtifactFields
  <2>7. new.counterparty = <<[key |-> key, flows |-> Flows]>>
    BY <2>5, <2>6
  <2> HIDE DEF new
  <2>8. art' = new /\ HeadOK' /\ phase' = phase
    BY <2>1, <2>6, BlocksKept DEF Edit
  <2>9. StatementsOK'
    <3>1. Statements(new) = more
      BY <2>6 DEF Statements, Nil
    <3> QED BY <3>1, <2>1, <2>3, StatementsReplaced
  <2>10. BlocksOK'
    BY <2>4, <2>6, <2>7, <2>8 DEF HistoryInv, BlocksOK
  <2> QED BY <2>1, <2>8, <2>9, <2>10, EditHistory
<1> QED BY <1>2, <1>3, <1>4, <1>5 DEF EditStatementStep, stmts

\* Checking leaves everything but the report and the phase alone.
LEMMA CheckHistory ==
    ASSUME IndInv, HistoryInv, Check
    PROVE  HistoryInv'
<1>1. /\ phase = "presenting" /\ phase' = "checked"
      /\ UNCHANGED <<clock, written, tree, issued, leaked, art, edits>>
  BY DEF Check, Presenting, recording
<1>2. ContentsOK' /\ LeavesOK'
  BY <1>1 DEF HistoryInv, ContentsOK, ContentOK, LeavesOK
<1>3. HeadOK' /\ StatementsOK'
  BY <1>1 DEF HistoryInv, HeadOK, Anchors, StatementsOK, StatementOK, Statements
<1>4. BlocksOK' /\ PresentedOK'
  BY <1>1 DEF HistoryInv, BlocksOK, PresentedOK, Anchors, PresentedLog
<1> QED BY <1>2, <1>3, <1>4 DEF HistoryInv

\* Every recording step, by the lemma about it.
LEMMA RecordingStepHistory ==
    ASSUME IndInv, HistoryInv, RecordingStep
    PROVE  HistoryInv'
<1>0. IndInv'
  BY RecordingStepInv
<1>1. ASSUME NEW l \in DOMAIN Logs, NEW type, NEW event, NEW form \in Forms,
             Write(l, type, event, form),
             IF type = "open" THEN written[l] = << >> ELSE IsOpen(l)
      PROVE  HistoryInv'
  BY <1>0, <1>1, WriteHistory
<1>2. BodyForms \subseteq Forms /\ "valid" \in Forms
  BY PlansAssumption DEF Forms
<1>3. ASSUME NEW l \in DOMAIN Logs, WriteOpen(l) \/ WriteHeartbeat(l) \/ WriteClose(l)
      PROVE  HistoryInv'
  BY <1>1, <1>2, <1>3 DEF WriteOpen, WriteHeartbeat, WriteClose
<1>4. ASSUME NEW l \in DOMAIN Logs, NEW event, NEW form \in BodyForms,
             WriteActivity(l, event, form)
      PROVE  HistoryInv'
  BY <1>1, <1>2, <1>4 DEF WriteActivity
<1>5. ASSUME NEW l \in DOMAIN Logs, Register(l)
      PROVE  HistoryInv'
  BY <1>0, <1>5, RegisterHistory
<1>6. CASE Tick
  BY <1>0, <1>6, TickHistory
<1>7. ASSUME NEW session, NEW flow, NEW id, NEW form, Confirm(session, flow, id, form)
      PROVE  HistoryInv'
  BY <1>0, <1>7, ConfirmHistory
<1>8. CASE \E size \in 0..MaxLeaves, keys \in CanLeak : Present(size, keys)
  BY <1>8, PresentHistory
<1> QED BY <1>3, <1>4, <1>5, <1>6, <1>7, <1>8
        DEF RecordingStep, ConfirmReceived, ConfirmNone

\* HistoryInv holds in every reachable state, whoever holds which keys.
THEOREM HistoryHolds == Spec => []HistoryInv
<1>1. Init => HistoryInv
  BY InitHistory
<1>2. IndInv /\ HistoryInv /\ [Next]_vars => HistoryInv'
  <2> SUFFICES ASSUME IndInv, HistoryInv, [Next]_vars PROVE HistoryInv'
    OBVIOUS
  <2>1. CASE RecordingStep
    BY <2>1, RecordingStepHistory
  <2>2. CASE Editing("records") /\ EditRecordStep
    BY <2>2, RecordStepsHistory DEF Editing
  <2>10. CASE Editing("forgery") /\ ForgeRecordStep
    BY <2>10, RecordStepsHistory DEF Editing
  <2>3. CASE Editing("manifest") /\ EditManifestStep
    BY <2>3, EditManifestHistory DEF Editing
  <2>4. CASE Editing("keys") /\ EditKeysStep
    BY <2>4, EditKeysHistory DEF Editing
  <2>5. CASE Editing("anchors") /\ EditAnchorStep
    BY <2>5, EditAnchorStepHistory DEF Editing
  <2>6. CASE Editing("heads") /\ EditHeadStep
    BY <2>6, EditHeadHistory DEF Editing
  <2>11. CASE Editing("anchors") /\ EditRawHeadStep
    BY <2>11, EditHeadHistory DEF Editing
  <2>7. CASE Editing("statements") /\ EditStatementStep
    BY <2>7, EditStatementHistory DEF Editing
  <2>8. CASE Check
    BY <2>8, CheckHistory
  <2>9. CASE UNCHANGED vars
    <3> USE <2>9 DEF vars, HistoryInv
    <3>1. ContentsOK' /\ LeavesOK'
      BY DEF ContentsOK, ContentOK, LeavesOK
    <3>2. HeadOK' /\ StatementsOK'
      BY DEF HeadOK, Anchors, StatementsOK, StatementOK, Statements
    <3>3. BlocksOK' /\ PresentedOK'
      BY DEF BlocksOK, PresentedOK, Anchors, PresentedLog
    <3> QED BY <3>1, <3>2, <3>3
  <2> QED BY <2>1, <2>2, <2>3, <2>4, <2>5, <2>6, <2>7, <2>8, <2>9, <2>10, <2>11 DEF Next
<1> QED BY <1>1, <1>2, Invariance, PTL DEF Spec
-----------------------------------------------------------------------------
(***************************************************************************)
(* The view of one run, and what its grade says of the checks.             *)
(***************************************************************************)

\* The view of a run: its logs, and the other blocks as they are.
LEMMA ViewOfRun ==
    ASSUME NEW A, NEW run,
           {"runs", "logs", "keys", "correspondence", "anchor", "anchors", "anchorsErr",
            "counterparty", "statements", "statementsErr"} \subseteq DOMAIN A
    PROVE  LET v == ForRun(A, run)
           IN  /\ v.keys = A.keys /\ v.correspondence = A.correspondence
               /\ v.anchor = A.anchor /\ v.anchorsErr = A.anchorsErr
               /\ v.anchors = AnchorsForRun(A, run)
               /\ v.counterparty = A.counterparty
               /\ v.statements = A.statements /\ v.statementsErr = A.statementsErr
               /\ artifactRun(v) = run
               /\ v.logs = [l \in {k \in DOMAIN A.logs : A.logs[k].run = run} |-> A.logs[l]]
               /\ logsForArtifactRun(v) = v.logs
<1> DEFINE v == ForRun(A, run)
           D == {k \in DOMAIN A.logs : A.logs[k].run = run}
<1>1. v = [A EXCEPT !.runs = {run},
                    !.logs = RestrictValues(A.logs, LAMBDA log : log.run = run),
                    !.anchors = AnchorsForRun(A, run)]
  BY DEF ForRun
<1>2. RestrictValues(A.logs, LAMBDA log : log.run = run) = [l \in D |-> A.logs[l]]
  BY DEF RestrictValues, Restrict
<1>3. v.runs = {run} /\ v.logs = [l \in D |-> A.logs[l]]
  BY <1>1, <1>2
<1>4. /\ v.keys = A.keys /\ v.correspondence = A.correspondence
      /\ v.anchor = A.anchor /\ v.anchorsErr = A.anchorsErr
      /\ v.anchors = AnchorsForRun(A, run)
      /\ v.counterparty = A.counterparty
      /\ v.statements = A.statements /\ v.statementsErr = A.statementsErr
  BY <1>1
<1> HIDE DEF v
<1>5. artifactRun(v) = run
  BY <1>3 DEF artifactRun
<1>6. {l \in DOMAIN v.logs : artifactRun(v) \in {NoRun, v.logs[l].run}} = D
  BY <1>3, <1>5
<1>7. logsForArtifactRun(v) = [l \in D |-> v.logs[l]]
  BY <1>6 DEF logsForArtifactRun, RestrictValues, Restrict
<1>8. logsForArtifactRun(v) = v.logs
  BY <1>3, <1>7
<1> QED BY <1>3, <1>4, <1>5, <1>8 DEF v

\* The same of the presented artifact.
LEMMA ViewOfArtifact ==
    ASSUME IndInv, NEW run
    PROVE  LET v == ForRun(art, run)
           IN  /\ v.keys = art.keys /\ v.correspondence = art.correspondence
               /\ v.anchor = art.anchor /\ v.anchorsErr = art.anchorsErr
               /\ v.anchors = AnchorsForRun(art, run)
               /\ v.counterparty = art.counterparty
               /\ v.statements = art.statements /\ v.statementsErr = art.statementsErr
               /\ artifactRun(v) = run
               /\ v.logs = [l \in {k \in DOMAIN art.logs : art.logs[k].run = run} |->
                               art.logs[l]]
               /\ logsForArtifactRun(v) = v.logs
BY ArtifactFields, ViewOfRun

\* What the report says of a run was evaluated on its view.
LEMMA Reported ==
    ASSUME IndInv, NEW run \in DOMAIN report
    PROVE  /\ phase = "checked" /\ run \in artifactRuns(art)
           /\ report[run] = evaluateRun(ForRun(art, run))
<1>1. report # << >>
  <2>1. DOMAIN << >> = {}
    OBVIOUS
  <2> QED BY <2>1
<1>2. report = Evaluate(art) /\ phase = "checked"
  BY <1>1 DEF IndInv, TypeOK, PhasesOK
<1> QED BY <1>2 DEF Evaluate

\* The grades, and the checks that each of them needs.
LEMMA GradeNeeds ==
    ASSUME NEW checks, NEW g, g = computeGrade(checks)
    PROVE  /\ g \in {-1, 0, 1, 2, 3, 4}
           /\ g >= 0 => allPass(checks, {"a", "b", "d", "e", "w"})
           /\ g >= 1 => allPass(checks, {"f", "g", "h", "i"}) /\ checks.j # Fail
           /\ g >= 2 => allPass(checks, {"k", "l", "m"})
           /\ g >= 3 => allPass(checks, {"n", "o", "u", "p", "q"})
           /\ g >= 4 => allPass(checks, {"r", "s", "t", "v"})
BY DEF computeGrade, Ungraded

\* A lower grade needs no more.
LEMMA CheckedLower ==
    ASSUME IndInv, NEW run, NEW n \in 0..4, NEW m \in 0..4, m <= n, Checked(run, n)
    PROVE  run \in DOMAIN report /\ Checked(run, m)
<1>1. run \in DOMAIN report /\ report[run] = evaluateRun(ForRun(art, run))
  BY Reported DEF Checked
<1>2. report[run].grade = computeGrade(Checks(ForRun(art, run)))
  BY <1>1 DEF evaluateRun
<1>3. report[run].grade \in {-1, 0, 1, 2, 3, 4}
  BY <1>2, GradeNeeds
<1> QED BY <1>1, <1>3 DEF Checked

\* Which checks passed on the view of a graded run.
LEMMA GradedChecks ==
    ASSUME IndInv, NEW run, NEW n \in 0..4, Checked(run, n)
    PROVE  LET v == ForRun(art, run)
           IN  /\ checkSignatures(v) = Pass /\ checkCanonicalPayloads(v) = Pass
               /\ checkSequenceOrder(v) = Pass /\ checkPredecessorLinks(v) = Pass
               /\ checkClosedSchemas(v) = Pass
               /\ n >= 1 => /\ checkOpen(v) = Pass /\ checkContiguous(v) = Pass
                            /\ checkHeartbeat(v) = Pass /\ checkCloseCount(v) = Pass
               /\ n >= 2 => /\ checkTwoRecorders(v) = Pass /\ checkKeysDiffer(v) = Pass
                            /\ checkCrossAudit(v) = Pass
               /\ n >= 3 => /\ checkTreeHead(v) = Pass /\ checkInclusion(v) = Pass
                            /\ checkAnchorLeaves(v) = Pass /\ checkUnanchoredWindow(v) = Pass
                            /\ checkLogKeyIndependent(v) = Pass
               /\ n >= 4 => /\ checkCounterpartySignatures(v) = Pass
                            /\ checkCounterpartyBinding(v) = Pass
                            /\ checkCounterpartyAudit(v) = Pass
                            /\ checkCounterpartyKeyIndependent(v) = Pass
<1> DEFINE c == Checks(ForRun(art, run))
           g == report[run].grade
<1>1. run \in DOMAIN report /\ report[run] = evaluateRun(ForRun(art, run))
  BY Reported DEF Checked
<1>2. g = computeGrade(c)
  BY <1>1 DEF evaluateRun
<1>3. g >= n
  BY DEF Checked
<1> HIDE DEF c, g
<1>4. g \in {-1, 0, 1, 2, 3, 4}
  BY <1>2, GradeNeeds
<1>5. g >= 0 /\ (n >= 1 => g >= 1) /\ (n >= 2 => g >= 2) /\ (n >= 3 => g >= 3) /\ (n >= 4 => g >= 4)
  BY <1>3, <1>4
<1>6. /\ allPass(c, {"a", "b", "d", "e", "w"})
      /\ n >= 1 => allPass(c, {"f", "g", "h", "i"})
      /\ n >= 2 => allPass(c, {"k", "l", "m"})
      /\ n >= 3 => allPass(c, {"n", "o", "u", "p", "q"})
      /\ n >= 4 => allPass(c, {"r", "s", "t", "v"})
  BY <1>2, <1>5, GradeNeeds
<1>7. /\ c.a = Pass /\ c.b = Pass /\ c.d = Pass /\ c.e = Pass /\ c.w = Pass
      /\ n >= 1 => c.f = Pass /\ c.g = Pass /\ c.h = Pass /\ c.i = Pass
      /\ n >= 2 => c.k = Pass /\ c.l = Pass /\ c.m = Pass
      /\ n >= 3 => c.n = Pass /\ c.o = Pass /\ c.p = Pass /\ c.q = Pass /\ c.u = Pass
      /\ n >= 4 => c.r = Pass /\ c.s = Pass /\ c.t = Pass /\ c.v = Pass
  BY <1>6 DEF allPass
<1> QED BY <1>7 DEF c, Checks

\* A log of a graded run is one of its view's logs, and all of it decodes.
LEMMA LogInView ==
    ASSUME IndInv, NEW run, Checked(run, 0), NEW log \in LogsOf(run)
    PROVE  /\ \E l \in DOMAIN ForRun(art, run).logs : ForRun(art, run).logs[l] = log
           /\ IsSeq(log.records) /\ log.records # << >>
           /\ DOMAIN log.records = 1..Len(log.records) /\ Len(log.records) \in Nat \ {0}
           /\ \A i \in DOMAIN log.records :
                 /\ log.records[i].parsed /\ Payload(log.records[i]) = log.records[i].raw
                 /\ log.records[i].raw.recorder = log.id
                 /\ log.records[i].raw.run = log.run
           /\ log.run = run
           /\ Payloads(log) = [i \in 1..Len(log.records) |-> log.records[i].raw]
           /\ IsSeq(Payloads(log)) /\ Len(Payloads(log)) = Len(log.records)
           /\ Last(Payloads(log)) = log.records[Len(log.records)].raw
<1>1. PICK l \in DOMAIN art.logs : log = art.logs[l] /\ art.logs[l].run = run
  BY DEF LogsOf
<1>2. l \in DOMAIN ForRun(art, run).logs /\ ForRun(art, run).logs[l] = log
  BY <1>1, ArtifactFields, ForRunLogs
<1>3. SequenceOrderOK(log) /\ PredecessorLinksOK(log)
  BY GradedRun DEF Checked
<1>4. IsSeq(log.records)
  BY <1>1, ArtifactFacts DEF LogOK, RecordsOK
<1>5. DOMAIN log.records = 1..Len(log.records) /\ Len(log.records) \in Nat \ {0}
  BY <1>3, <1>4, EmptyIsSeq DEF IsSeq, SequenceOrderOK
<1>6. Payloads(log) = [i \in 1..Len(log.records) |-> log.records[i].raw]
  BY <1>5 DEF Payloads
<1>7. IsSeq(Payloads(log)) /\ Len(Payloads(log)) = Len(log.records)
  BY <1>5, <1>6, FunctionIsSeq
<1>8. Last(Payloads(log)) = log.records[Len(log.records)].raw
  BY <1>5, <1>6, <1>7 DEF Last
<1> QED BY <1>1, <1>2, <1>3, <1>4, <1>5, <1>6, <1>7, <1>8 DEF SequenceOrderOK, Payload

\* Where a log and what was recorded agree as a whole, they do so place by place.
LEMMA WholeLog ==
    ASSUME IndInv, NEW run, Checked(run, 0), NEW log \in LogsOf(run),
           NEW k \in DOMAIN Logs, Payloads(log) = written[k]
    PROVE  /\ DOMAIN written[k] = DOMAIN log.records /\ Len(written[k]) = Len(log.records)
           /\ \A i \in DOMAIN written[k] :
                 Payload(log.records[i]) = written[k][i] /\ log.records[i].parsed
BY LogInView

\* A log closed under a sound key is what some recorder wrote.
LEMMA HonestLog ==
    ASSUME IndInv, WholeRun, NEW run, Checked(run, 1), NEW log \in LogsOf(run),
           HonestClose(log)
    PROVE  \E k \in DOMAIN Logs : Recorded(log) = written[k] /\ Payloads(log) = written[k]
<1>1. Checked(run, 0) /\ run \in DOMAIN report
  BY CheckedLower
<1>2. Payloads(log) = Recorded(log)
  BY <1>1 DEF WholeRun
<1>3. /\ Len(log.records) \in DOMAIN log.records
      /\ log.records[Len(log.records)].raw.key \notin leaked
  BY <1>1, LogInView DEF HonestClose
<1>4. \E k \in DOMAIN Logs : Recorded(log) = written[k]
  BY <1>1, <1>3, SoundRecord
<1> QED BY <1>2, <1>4

\* AEL-1 for any recorders, intervals, edits and leaks: in a log closed under a
\* sound key the recorder never stayed silent for longer than it declared.
THEOREM SilenceEvidentHolds == Spec => []SilenceEvident
<1>1. IndInv /\ HistoryInv /\ WholeRun => SilenceEvident
  <2> SUFFICES ASSUME IndInv, HistoryInv, WholeRun, NEW run \in DOMAIN report,
                      Checked(run, 1), NEW log \in LogsOf(run), HonestClose(log)
               PROVE  LET s == Recorded(log)
                      IN  /\ \A i \in 2..Len(s) : s[i].ts - s[i - 1].ts <= HMax + HTol
                          /\ \E i \in DOMAIN s : s[i].type = "heartbeat"
    BY DEF SilenceEvident
  <2> DEFINE v == ForRun(art, run)
  <2>1. Checked(run, 0)
    BY CheckedLower
  <2>2. PICK k \in DOMAIN Logs : Recorded(log) = written[k] /\ Payloads(log) = written[k]
    BY HonestLog
  <2> DEFINE s == written[k]
             n == Len(log.records)
             TS(i) == Payload(log.records[i]).ts
  <2>3. PICK l \in DOMAIN v.logs : v.logs[l] = log
    BY <2>1, LogInView
  <2>4. checkOpen(v) = Pass /\ checkHeartbeat(v) = Pass
    BY GradedChecks
  <2>5. OpenOK(log) /\ checkHeartbeatLog(log) = Pass
    BY <2>3, <2>4 DEF checkOpen, checkHeartbeat, Require, Pass, Fail
  <2>6. /\ n \in Nat \ {0} /\ DOMAIN log.records = 1..n
        /\ DOMAIN s = 1..n /\ Len(s) = n
        /\ \A i \in 1..n : Payload(log.records[i]) = s[i]
    BY <2>1, <2>2, LogInView, WholeLog
  <2>7. s[1].hmax = HMax /\ s[1].htol = HTol
    <3>1. 1 \in DOMAIN s
      BY <2>6
    <3> QED BY <3>1 DEF HistoryInv, ContentsOK, ContentOK
  <2>8. s[1].hmax > 0
    BY <2>5, <2>6 DEF OpenOK
  <2>9. /\ \A i \in 2..n : SpacingOK(TS(i - 1), TS(i), HMax + HTol)
        /\ \E i \in 2..n : Payload(log.records[i]).type = "heartbeat"
    <3>1. /\ Payload(log.records[1]).hmax = HMax /\ Payload(log.records[1]).htol = HTol
          /\ log.records # << >>
      BY <2>5, <2>6, <2>7 DEF OpenOK
    <3>2. ~(HMax <= 0)
      BY <2>7, <2>8, BoundsAssumption
    <3> QED BY <2>5, <3>1, <3>2 DEF checkHeartbeatLog, Require, Pass, Fail
  <2>10. ASSUME NEW i \in 2..n
         PROVE  s[i].ts - s[i - 1].ts <= HMax + HTol
    <3>1. i \in 1..n /\ i - 1 \in 1..n
      BY <2>6
    <3> QED BY <3>1, <2>6, <2>9 DEF SpacingOK
  <2>11. \E i \in DOMAIN s : s[i].type = "heartbeat"
    <3>1. \A i \in 2..n : i \in 1..n
      BY <2>6
    <3> QED BY <3>1, <2>6, <2>9
  <2> QED BY <2>2, <2>6, <2>10, <2>11
<1> QED BY <1>1, Invariance, HistoryHolds, WholeRunHolds, PTL

\* A run that earns a grade has a log, and it is not the empty run: a record of
\* the empty run fails its schema, and a record of another run its sequence.
LEMMA GradedRunHasLog ==
    ASSUME IndInv, NEW run, Checked(run, 0)
    PROVE  run # NoRun /\ \E l \in DOMAIN art.logs : art.logs[l].run = run
<1> DEFINE v == ForRun(art, run)
<1>1. checkSequenceOrder(v) = Pass /\ checkClosedSchemas(v) = Pass
  BY GradedChecks
<1>2. /\ v.logs = [l \in {k \in DOMAIN art.logs : art.logs[k].run = run} |-> art.logs[l]]
      /\ v.keys = art.keys
  BY ViewOfArtifact
<1> HIDE DEF v
<1>3. PICK l \in DOMAIN v.logs : SequenceOrderOK(v.logs[l])
  BY <1>1 DEF checkSequenceOrder, Require, Pass, Fail, UV
<1>4. l \in DOMAIN art.logs /\ art.logs[l].run = run /\ v.logs[l] = art.logs[l]
  BY <1>2
<1>5. v.logs[l] \in LogsOf(run)
  BY <1>4 DEF LogsOf
<1>6. 1 \in DOMAIN v.logs[l].records
  BY <1>5, LogInView
<1> DEFINE rec == v.logs[l].records[1]
<1>7. rec.raw.run = run /\ rec \in AllRecords(v)
  <2>1. rec.raw.run = v.logs[l].run
    BY <1>3, <1>6 DEF SequenceOrderOK
  <2>2. rec \in {v.logs[l].records[i] : i \in DOMAIN v.logs[l].records}
    BY <1>6
  <2> HIDE DEF rec
  <2>3. rec \in AllRecords(v)
    BY <1>3, <2>2, Zenon DEF AllRecords
  <2> QED BY <1>4, <2>1, <2>3
<1> HIDE DEF rec
<1>8. CASE ~SchemaOK(rec, v.keys)
  <2>1. CASE CanonicalOK(rec, v.keys)
    <3>1. checkClosedSchemas(v) = Fail
      BY <1>7, <1>8, <2>1 DEF checkClosedSchemas
    <3> QED BY <1>1, <3>1 DEF Pass, Fail
  <2>2. CASE ~CanonicalOK(rec, v.keys)
    <3>1. checkClosedSchemas(v) \in {Fail, UV}
      BY <1>7, <2>2 DEF checkClosedSchemas
    <3> QED BY <1>1, <3>1 DEF Pass, Fail, UV
  <2> QED BY <2>1, <2>2
<1>9. SchemaOK(rec, v.keys) => rec.raw.run # NoRun
  BY DEF SchemaOK
<1> QED BY <1>4, <1>7, <1>8, <1>9

\* aelcheck -min-grade 1 exits 0 only over whole, closed logs, for any artifact
\* the edits can make, of however many runs and logs; logs under the empty run
\* identifier, which is graded only when no other is there, aside.
THEOREM CleanExitHolds == Spec => []CleanExit
<1>1. ASSUME IndInv, phase = "checked", conformanceExit(report, 1) = 0, NEW run \in artifactRuns(art)
      PROVE  run \in DOMAIN report /\ Checked(run, 1) /\ Checked(run, 0)
  <2>1. run \in DOMAIN report
    BY <1>1 DEF IndInv, PhasesOK, Evaluate
  <2>2. report[run].grade \in {-1, 0, 1, 2, 3, 4}
    BY <1>1, <2>1, Reported, GradeNeeds DEF evaluateRun
  <2>3. Checked(run, 1)
    BY <1>1, <2>1, <2>2 DEF conformanceExit, Checked
  <2> QED BY <1>1, <2>1, <2>3, CheckedLower
<1>2. ASSUME IndInv, phase = "checked", conformanceExit(report, 1) = 0
      PROVE  \E l \in DOMAIN art.logs : art.logs[l].run # NoRun
  <2>1. PICK run : run \in artifactRuns(art)
    BY DEF artifactRuns
  <2>2. Checked(run, 0)
    BY <1>1, <1>2, <2>1
  <2> QED BY <1>2, <2>2, GradedRunHasLog
<1>3. ASSUME IndInv, WholeRun, phase = "checked", conformanceExit(report, 1) = 0,
             NEW l \in DOMAIN art.logs, art.logs[l].run # NoRun
      PROVE  LET log == art.logs[l]
             IN  /\ log.records # << >> /\ Last(Payloads(log)).type = "close"
                 /\ HonestClose(log) => Payloads(log) = Recorded(log)
  <2> DEFINE log == art.logs[l]
             run == art.logs[l].run
  <2>1. run \in artifactRuns(art)
    BY <1>3 DEF artifactRuns
  <2>2. run \in DOMAIN report /\ Checked(run, 1) /\ Checked(run, 0)
    BY <1>1, <1>3, <2>1
  <2>3. log \in LogsOf(run)
    BY <1>3 DEF LogsOf
  <2>4. CloseCountOK(log)
    BY <1>3, <2>2, <2>3, ClosedRun
  <2>5. log.records # << >> /\ Last(Payloads(log)).type = "close"
    BY <1>3, <2>2, <2>3, <2>4, LogInView, SMTT(30) DEF CloseCountOK
  <2>6. HonestClose(log) => Payloads(log) = Recorded(log)
    BY <1>3, <2>2, <2>3 DEF WholeRun
  <2> QED BY <2>5, <2>6
<1>4. IndInv /\ WholeRun => CleanExit
  BY <1>2, <1>3, Zenon DEF CleanExit
<1> QED BY <1>4, Invariance, WholeRunHolds, PTL
-----------------------------------------------------------------------------
(***************************************************************************)
(* AEL-2.                                                                  *)
(***************************************************************************)

\* The covered classes of an artifact are declared ones, so no event without a
\* class is covered.
LEMMA CoveredClasses ==
    ASSUME IndInv, HistoryInv, phase # "recording"
    PROVE  /\ art.correspondence # Nil /\ art.correspondence[1] \subseteq Covered
           /\ NoEvent.class \notin art.correspondence[1]
<1>1. PICK classes \in SUBSET Covered : art.correspondence = <<classes>>
  BY DEF HistoryInv, BlocksOK
<1>2. art.correspondence # Nil /\ art.correspondence[1] = classes
  BY <1>1 DEF Nil
<1> QED BY <1>2, ClassesAssumption

\* What check m looks up in a log is what the log records.
LEMMA CoveredRecorded ==
    ASSUME IndInv, HistoryInv, NEW run, Checked(run, 0), NEW log \in LogsOf(run)
    PROVE  coveredEvents(log, art.correspondence[1]) = RecordedIDs(Payloads(log))
<1> DEFINE C == art.correspondence[1]
           s == Payloads(log)
           Seen(i) == /\ Payload(log.records[i]).type = "activity"
                      /\ Payload(log.records[i]).event # NoEvent
                      /\ Payload(log.records[i]).event.class \in C
           Rec(i) == s[i].type = "activity" /\ s[i].event.class \in C
<1>1. /\ DOMAIN s = DOMAIN log.records
      /\ \A i \in DOMAIN s : Payload(log.records[i]) = s[i]
  BY LogInView
<1>2. NoEvent.class \notin C
  BY CoveredClasses, Reported DEF Checked
<1>3. \A i \in DOMAIN s : Seen(i) <=> Rec(i)
  BY <1>1, <1>2
<1>4. {j \in DOMAIN log.records : Seen(j)} = {j \in DOMAIN s : Rec(j)}
  BY <1>1, <1>3
<1>5. \A i \in {j \in DOMAIN s : Rec(j)} : Payload(log.records[i]).event.id = s[i].event.id
  BY <1>1
<1>6. coveredEvents(log, C) = {Payload(log.records[i]).event.id : i \in {j \in DOMAIN log.records : Seen(j)}}
  BY DEF coveredEvents
<1>7. RecordedIDs(s) = {s[i].event.id : i \in {j \in DOMAIN s : Rec(j)}}
  BY DEF RecordedIDs
<1> HIDE DEF Seen, Rec, s, C
<1>8. coveredEvents(log, C) = RecordedIDs(s)
  BY <1>4, <1>5, <1>6, <1>7
<1> QED BY <1>8 DEF s, C

\* LastWithID looks only at the identifier.
LastOfID(logs, id) ==
    CHOOSE k \in DOMAIN logs :
        /\ logs[k].id = id
        /\ \A j \in DOMAIN logs : logs[j].id = id => j <= k

\* Check l makes the recorders of a run distinct, so the maps it and check m
\* keep by recorder lose no log.
LEMMA DistinctRecorders ==
    ASSUME IndInv, NEW run, Checked(run, 2)
    PROVE  LET logs == ForRun(art, run).logs
           IN  /\ DOMAIN logs \subseteq Int
               /\ \A l, k \in DOMAIN logs : logs[l].id = logs[k].id => l = k
               /\ \A l \in DOMAIN logs : LastWithID(logs, l) = l
<1> DEFINE v == ForRun(art, run)
           logs == v.logs
<1>1. DOMAIN logs \subseteq Int /\ logsForArtifactRun(v) = logs
  <2>1. logs = [l \in {k \in DOMAIN art.logs : art.logs[k].run = run} |-> art.logs[l]]
    BY ViewOfArtifact
  <2>2. DOMAIN art.logs \subseteq Int
    BY ArtifactFacts, LogsAssumption
  <2> QED BY <2>1, <2>2, ViewOfArtifact
<1>2. checkKeysDiffer(v) = Pass
  BY GradedChecks
<1> HIDE DEF v
<1>3. \A l, k \in DOMAIN logs :
         l # k => RecorderKeyOf(logs[LastWithID(logs, l)]) # RecorderKeyOf(logs[LastWithID(logs, k)])
  BY <1>1, <1>2 DEF checkKeysDiffer, Require, Pass, Fail, UV
<1>4. \A l : LastWithID(logs, l) = LastOfID(logs, logs[l].id)
  BY DEF LastWithID, LastOfID
<1>5. ASSUME NEW l \in DOMAIN logs, NEW k \in DOMAIN logs, logs[l].id = logs[k].id
      PROVE  l = k
  BY <1>3, <1>4, <1>5
<1>6. ASSUME NEW l \in DOMAIN logs
      PROVE  LastWithID(logs, l) = l
  <2>1. l <= l
    BY <1>1
  <2>2. \E k \in DOMAIN logs : /\ logs[k].id = logs[l].id
                               /\ \A j \in DOMAIN logs : logs[j].id = logs[l].id => j <= k
    BY <1>5, <2>1
  <2>3. LastWithID(logs, l) \in DOMAIN logs /\ logs[LastWithID(logs, l)].id = logs[l].id
    BY <2>2 DEF LastWithID
  <2> QED BY <2>3, <1>5
<1> QED BY <1>1, <1>5, <1>6 DEF v

\* Check m then finds the same events in every log.
LEMMA AuditedLogs ==
    ASSUME IndInv, HistoryInv, NEW run, Checked(run, 2),
           NEW log \in LogsOf(run), NEW other \in LogsOf(run)
    PROVE  RecordedIDs(Payloads(other)) \subseteq RecordedIDs(Payloads(log))
<1> DEFINE v == ForRun(art, run)
           logs == v.logs
           C == art.correspondence[1]
           seen == UNION {coveredEvents(logs[l], C) : l \in DOMAIN logs}
<1>1. Checked(run, 0)
  BY CheckedLower
<1>2. logsForArtifactRun(v) = logs /\ v.correspondence = art.correspondence
  BY ViewOfArtifact
<1>3. checkCrossAudit(v) = Pass
  BY GradedChecks
<1>4. PICK l \in DOMAIN logs : logs[l] = log
  BY <1>1, LogInView
<1>5. PICK o \in DOMAIN logs : logs[o] = other
  BY <1>1, LogInView
<1>6. LastWithID(logs, l) = l
  BY DistinctRecorders
<1> HIDE DEF v
<1>7. seen \subseteq coveredEvents(logs[LastWithID(logs, l)], C)
  BY <1>2, <1>3 DEF checkCrossAudit, Require, Pass, Fail, UV
<1>8. coveredEvents(other, C) \subseteq coveredEvents(log, C)
  BY <1>4, <1>5, <1>6, <1>7
<1>9. /\ coveredEvents(log, C) = RecordedIDs(Payloads(log))
      /\ coveredEvents(other, C) = RecordedIDs(Payloads(other))
  BY <1>1, CoveredRecorded
<1> QED BY <1>8, <1>9

\* AEL-2 for any number of recorders, classes, edits and leaks: one recorder
\* with a sound key is enough for an event not to be hidden, nor invented.
THEOREM OmissionEvidentHolds == Spec => []OmissionEvident
<1>1. IndInv /\ HistoryInv /\ WholeRun => OmissionEvident
  <2> SUFFICES ASSUME IndInv, HistoryInv, WholeRun, NEW run \in DOMAIN report,
                      Checked(run, 2), NEW log \in LogsOf(run), NEW other \in LogsOf(run),
                      HonestClose(log)
               PROVE  RecordedIDs(Payloads(other)) = RecordedIDs(Recorded(log))
    BY DEF OmissionEvident
  <2>1. Checked(run, 1)
    BY CheckedLower
  <2>2. Payloads(log) = Recorded(log)
    BY <2>1 DEF WholeRun
  <2>3. RecordedIDs(Payloads(other)) = RecordedIDs(Payloads(log))
    BY AuditedLogs
  <2> QED BY <2>2, <2>3
<1> QED BY <1>1, Invariance, HistoryHolds, WholeRunHolds, PTL
-----------------------------------------------------------------------------
(***************************************************************************)
(* AEL-3.                                                                  *)
(***************************************************************************)

\* A loop over outcomes passes when every one of them does.
LEMMA AllOutcomesPass ==
    ASSUME NEW outs, FirstOutcome(outs) = Pass
    PROVE  \A i \in DOMAIN outs : outs[i] = Pass
BY DEF FirstOutcome, Pass, Fail, UV

\* Checks u and v: a declared key they accept is none of the recorders'.
LEMMA IndependentKey ==
    ASSUME IndInv, NEW run, Checked(run, 0), NEW declared, OnlyRecorderKeysLeaked(run),
           KeyIndependentOfRecorders(ForRun(art, run), declared) = Pass
    PROVE  declared \notin leaked
<1> DEFINE v == ForRun(art, run)
           LogOutcome(l) ==
               LET out == verifiedRecorderKey(v.logs[l], v.keys)
               IN  IF out # Pass THEN out
                   ELSE Require(RecorderKeyOf(v.logs[l]) # declared)
           outs == [l \in DOMAIN v.logs |-> LogOutcome(l)]
<1>1. logsForArtifactRun(v) = v.logs
  BY ViewOfArtifact
<1>2. FirstOutcome(outs) = Pass
  BY <1>1 DEF KeyIndependentOfRecorders
<1>3. \A l \in DOMAIN v.logs : LogOutcome(l) = Pass
  <2>1. DOMAIN outs = DOMAIN v.logs /\ \A l \in DOMAIN v.logs : outs[l] = LogOutcome(l)
    OBVIOUS
  <2> HIDE DEF outs, LogOutcome
  <2> QED BY <1>2, <2>1, AllOutcomesPass
<1>4. ASSUME NEW log \in LogsOf(run)
      PROVE  log.records[1].raw.key # declared
  <2>1. PICK l \in DOMAIN v.logs : v.logs[l] = log
    BY LogInView
  <2>2. RecorderKeyOf(v.logs[l]) # declared
    BY <1>3, <2>1 DEF Require, Pass, Fail
  <2>3. Payload(log.records[1]) = log.records[1].raw
    BY LogInView
  <2> QED BY <2>1, <2>2, <2>3 DEF RecorderKeyOf
<1> QED BY <1>4 DEF OnlyRecorderKeysLeaked

\* The anchors of a view are the artifact's, with the run's entries.
LEMMA AnchorsInView ==
    ASSUME IndInv, HistoryInv, NEW run, art.anchors # Nil
    PROVE  LET v == ForRun(art, run)
           IN  /\ v.anchors # Nil
               /\ v.anchors[1].root = Anchors.root /\ v.anchors[1].signed = Anchors.signed
               /\ v.anchors[1].signer = Anchors.signer
               /\ v.anchors[1].entries = {e \in Anchors.entries : e.run = run}
<1>1. DOMAIN Anchors = DOMAIN AnchorsOver(<< >>, LogKey)
  BY DEF HistoryInv, HeadOK
<1>2. {"root", "signed", "signer", "entries"} \subseteq DOMAIN Anchors
  BY <1>1 DEF AnchorsOver
<1>3. ForRun(art, run).anchors =
          <<[Anchors EXCEPT !.entries = {e \in Anchors.entries : e.run = run}]>>
  BY ViewOfArtifact DEF AnchorsForRun, Anchors
<1> QED BY <1>2, <1>3 DEF Nil

\* The tree head of a run with AEL-3 is the external log's own when only the
\* recorders' keys leaked: check u leaves no other key it could be under.
LEMMA SoundHead ==
    ASSUME IndInv, HistoryInv, NEW run, Checked(run, 3), OnlyRecorderKeysLeaked(run)
    PROVE  /\ art.anchors # Nil
           /\ \E n \in 0..Len(tree) : Anchors.root = SubSeq(tree, 1, n)
<1> DEFINE v == ForRun(art, run)
<1>1. Checked(run, 0)
  BY CheckedLower
<1>2. checkTreeHead(v) = Pass /\ checkLogKeyIndependent(v) = Pass
  BY GradedChecks
<1>3. art.anchors # Nil
  <2>1. v.anchors # Nil
    BY <1>2 DEF checkTreeHead, AnchorsOutcome, Pass, Fail, UV
  <2> QED BY <2>1, ViewOfArtifact DEF AnchorsForRun
<1>4. /\ v.anchors[1].root = Anchors.root /\ v.anchors[1].signed = Anchors.signed
      /\ v.anchors[1].signer = Anchors.signer
  BY <1>3, AnchorsInView
<1> HIDE DEF v
<1>5. /\ v.anchors[1].signed =
             [log |-> v.anchors[1].log, root |-> v.anchors[1].root, size |-> v.anchors[1].size]
      /\ v.anchors[1].signer = v.anchor[1].logKey
  BY <1>2 DEF checkTreeHead, Require, Pass, Fail, UV
<1>6. KeyIndependentOfRecorders(v, v.anchor[1].logKey) = Pass
  BY <1>2 DEF checkLogKeyIndependent, Pass, UV
<1>7. v.anchor[1].logKey \notin leaked
  BY <1>1, <1>6, IndependentKey DEF v
<1>8. Anchors.signer \notin leaked
  BY <1>4, <1>5, <1>7
<1>9. Anchors.signed.root = Anchors.root
  BY <1>4, <1>5
<1> QED BY <1>3, <1>8, <1>9 DEF HistoryInv, HeadOK

\* What a proof against such a head includes, some recorder wrote.
LEMMA IncludedLeaf ==
    ASSUME IndInv, HistoryInv, NEW n \in 0..Len(tree), NEW leaf, NEW index, NEW size, NEW proof,
           merkleRootFromProof(leaf, index, size, proof) = SubSeq(tree, 1, n)
    PROVE  \E k \in DOMAIN Logs : \E j \in DOMAIN written[k] : leaf = Hash(written[k][j])
<1> DEFINE root == SubSeq(tree, 1, n)
<1>1. /\ tree \in Seq(Range(tree)) /\ Len(tree) \in Nat /\ DOMAIN tree = 1..Len(tree)
  BY SeqIsSeq DEF IndInv, TypeOK, IsSeq
<1>2. Len(root) = n /\ \A i \in 1..n : root[i] = tree[i] /\ i \in DOMAIN tree
  BY <1>1
<1>3. \A i \in DOMAIN tree : \E k \in DOMAIN Logs : \E j \in DOMAIN written[k] :
         tree[i] = Hash(written[k][j])
  BY DEF HistoryInv, LeavesOK, merkleLeaf
<1> HIDE DEF root
<1>4. root # NoRoot
  <2> SUFFICES ASSUME root = NoRoot PROVE FALSE
    OBVIOUS
  <2>1. n = 1 /\ root[1] = NoHash
    BY <1>2 DEF NoRoot
  <2>2. tree[1] = NoHash /\ 1 \in DOMAIN tree
    BY <1>2, <2>1
  <2>3. \A p : Hash(p) # NoHash
    BY DEF Hash, NoHash
  <2> QED BY <1>3, <2>2, <2>3
<1>5. /\ size > 0 /\ index \in 0..(size - 1)
      /\ Len(proof) = size /\ proof[index + 1] = leaf /\ proof = root
  BY <1>4 DEF merkleRootFromProof, root
<1>6. index + 1 \in 1..n /\ leaf = root[index + 1]
  BY <1>2, <1>5
<1> QED BY <1>2, <1>3, <1>6

\* In such a run the last record of every log was anchored, so some recorder
\* wrote it, even if the recorders' keys are leaked.
LEMMA AnchoredLast ==
    ASSUME IndInv, HistoryInv, NEW run, Checked(run, 3), OnlyRecorderKeysLeaked(run),
           NEW log \in LogsOf(run)
    PROVE  \E k \in DOMAIN Logs : \E j \in DOMAIN written[k] :
              log.records[Len(log.records)].raw = written[k][j]
<1> DEFINE v == ForRun(art, run)
           n == Len(log.records)
           entries == v.anchors[1].entries
<1>1. Checked(run, 0) /\ Checked(run, 2)
  BY CheckedLower
<1>2. /\ checkInclusion(v) = Pass /\ checkAnchorLeaves(v) = Pass
      /\ checkUnanchoredWindow(v) = Pass /\ checkContiguous(v) = Pass
  BY GradedChecks
<1>3. PICK m \in 0..Len(tree) : Anchors.root = SubSeq(tree, 1, m)
  BY SoundHead
<1>4. v.anchors[1].root = SubSeq(tree, 1, m)
  BY <1>3, SoundHead, AnchorsInView
<1>5. PICK l \in DOMAIN v.logs : v.logs[l] = log
  BY <1>1, LogInView
<1>6. /\ n \in Nat \ {0} /\ DOMAIN log.records = 1..n
      /\ \A i \in DOMAIN log.records :
            log.records[i].parsed /\ Payload(log.records[i]) = log.records[i].raw
  BY <1>1, LogInView
<1>7. logsForArtifactRun(v) = v.logs
  BY ViewOfArtifact
<1>8. \A a, b \in DOMAIN v.logs : v.logs[a].id = v.logs[b].id => a = b
  BY <1>1, DistinctRecorders
<1> HIDE DEF v
<1>9. \A i \in 1..n : log.records[i].raw.seq = i - 1
  BY <1>2, <1>5, <1>6 DEF checkContiguous, ContiguousOK, Require, Pass, Fail
<1>10. WithinAnchored(log, entries)
  BY <1>2, <1>5, <1>7 DEF checkUnanchoredWindow, Require, Pass, Fail
<1>11. PICK e \in entries : e.recorder = log.id /\ Payload(log.records[n]).seq <= e.seq
  <2>1. n \in DOMAIN log.records
    BY <1>6
  <2> QED BY <1>10, <2>1 DEF WithinAnchored
<1>12. FoundRecordHasLeaf(v, e)
  BY <1>2 DEF checkAnchorLeaves, Require, Pass, Fail
<1>13. PICK a \in DOMAIN v.logs : \E i \in DOMAIN v.logs[a].records :
          /\ Matches(v, e, a, i)
          /\ RecordHash(v.logs[a].records[i]) = e.leaf
  BY <1>12 DEF FoundRecordHasLeaf
<1>14. v.logs[a] = log
  BY <1>5, <1>8, <1>11, <1>13 DEF Matches
<1>15. PICK i \in 1..n : /\ Payload(log.records[i]).seq = e.seq
                         /\ RecordHash(log.records[i]) = e.leaf
  BY <1>6, <1>13, <1>14 DEF Matches
<1>16. i = n
  <2>1. n \in 1..n /\ log.records[n].raw.seq = n - 1 /\ log.records[i].raw.seq = i - 1
    BY <1>6, <1>9
  <2> QED BY <2>1, <1>6, <1>11, <1>15, SMTT(30)
<1>17. e.leaf = Hash(log.records[n].raw)
  BY <1>6, <1>15, <1>16 DEF RecordHash
<1>18. merkleRootFromProof(e.leaf, e.index, v.anchors[1].size, e.proof) = SubSeq(tree, 1, m)
  BY <1>2, <1>4 DEF checkInclusion, Require, Pass, Fail
<1>19. PICK k \in DOMAIN Logs : \E j \in DOMAIN written[k] : e.leaf = Hash(written[k][j])
  BY <1>18, IncludedLeaf
<1>20. \A p, q : Hash(p) = Hash(q) => p = q
  BY DEF Hash
<1> QED BY <1>17, <1>19, <1>20

\* So every log of the run is what its recorder wrote.
LEMMA AnchoredLog ==
    ASSUME IndInv, HistoryInv, NEW run, Checked(run, 3), OnlyRecorderKeysLeaked(run),
           NEW log \in LogsOf(run)
    PROVE  \E k \in DOMAIN Logs : Recorded(log) = written[k] /\ Payloads(log) = written[k]
<1>1. run \in DOMAIN report /\ Checked(run, 1)
  BY CheckedLower
<1>2. PICK k \in DOMAIN Logs : \E j \in DOMAIN written[k] :
         log.records[Len(log.records)].raw = written[k][j]
  BY AnchoredLast
<1> QED BY <1>1, <1>2, WrittenClose

\* AEL-3 for any recorders, leaves, edits and leaked recorder keys: once
\* anchored, history cannot be rewritten.
THEOREM AnchoredHistoryHolds == Spec => []AnchoredHistory
<1>1. IndInv /\ HistoryInv => AnchoredHistory
  BY AnchoredLog DEF AnchoredHistory
<1> QED BY <1>1, Invariance, HistoryHolds, PTL
-----------------------------------------------------------------------------
(***************************************************************************)
(* AEL-4.                                                                  *)
(***************************************************************************)

\* The counterparty block of an artifact is there and declares the flows.
LEMMA DeclaredFlows ==
    ASSUME IndInv, HistoryInv, phase # "recording"
    PROVE  art.counterparty # Nil /\ art.counterparty[1].flows = Flows
<1>1. PICK key \in Keys : art.counterparty = <<[key |-> key, flows |-> Flows]>>
  BY DEF HistoryInv, BlocksOK
<1> QED BY <1>1 DEF Nil

\* The nonce check t compares with is the one the run was opened with, which
\* the anchored logs cannot misstate.
LEMMA OpenedNonce ==
    ASSUME IndInv, HistoryInv, NEW run, Checked(run, 3), OnlyRecorderKeysLeaked(run),
           OpenPayloads(ForRun(art, run)) # {}
    PROVE  runNonce(ForRun(art, run)) = NonceOf[run]
<1> DEFINE v == ForRun(art, run)
<1>1. Checked(run, 0)
  BY CheckedLower
<1>2. v.logs = [l \in {k \in DOMAIN art.logs : art.logs[k].run = run} |-> art.logs[l]]
  BY ViewOfArtifact
<1>3. PICK open \in OpenPayloads(v) : runNonce(v) = open.nonce
  BY DEF runNonce
<1> HIDE DEF v
<1>4. PICK l \in DOMAIN v.logs : open = Payload(v.logs[l].records[1])
  BY <1>3 DEF OpenPayloads
<1> DEFINE log == art.logs[l]
<1>5. log \in LogsOf(run) /\ open = Payload(log.records[1])
  BY <1>2, <1>4 DEF LogsOf
<1>6. PICK k \in DOMAIN Logs : Payloads(log) = written[k]
  BY <1>5, AnchoredLog
<1>7. 1 \in DOMAIN log.records /\ log.records[1].raw.run = run
  BY <1>1, <1>5, LogInView
<1>8. 1 \in DOMAIN written[k] /\ open = written[k][1] /\ written[k][1].run = run
  <2>1. DOMAIN written[k] = DOMAIN log.records /\ Payload(log.records[1]) = log.records[1].raw
    BY <1>1, <1>5, <1>6, <1>7, WholeLog, LogInView
  <2>2. Payload(log.records[1]) = written[k][1]
    BY <1>1, <1>5, <1>6, <1>7, <2>1, WholeLog
  <2> QED BY <1>5, <1>7, <2>1, <2>2
<1>9. written[k][1].run = RunOf(k) /\ written[k][1].nonce = NonceOf[RunOf(k)]
  BY <1>8 DEF IndInv, ChainsOK, LinkOK, HistoryInv, ContentsOK, ContentOK
<1> QED BY <1>3, <1>8, <1>9 DEF v

\* What check t finds on the outbound side contains every delivery.
LEMMA DeliveryRecorded ==
    ASSUME IndInv, HistoryInv, NEW run, Checked(run, 0), NEW id \in Deliveries(run)
    PROVE  id \in RecordedOut(ForRun(art, run), Flows)
<1> DEFINE v == ForRun(art, run)
<1>1. art.counterparty[1].flows = Flows
  BY DeclaredFlows, Reported DEF Checked
<1>2. PICK p \in UNION {Range(Payloads(log)) : log \in LogsOf(run)} :
         /\ p.type = "activity" /\ p.event.dir = "out"
         /\ p.event.class \in Flows /\ p.event.id = id
  BY <1>1 DEF Deliveries
<1> PICK log \in LogsOf(run) : p \in Range(Payloads(log))
  OBVIOUS
<1>3. /\ DOMAIN Payloads(log) = DOMAIN log.records
      /\ \A i \in DOMAIN log.records : Payloads(log)[i] = log.records[i].raw
  BY DEF Payloads
<1>4. PICK i \in DOMAIN log.records : p = log.records[i].raw
  BY <1>3 DEF Range
<1>5. log.records[i].parsed
  BY <1>2, LogInView
<1>6. log.records[i] \in AllRecords(v)
  <2>1. PICK l \in DOMAIN v.logs : v.logs[l] = log
    BY LogInView
  <2> HIDE DEF v
  <2> QED BY <2>1 DEF AllRecords
<1>7. p.event # NoEvent
  BY <1>2, ClassesAssumption
<1> HIDE DEF v
<1>8. id \in RecordedOut(v, Flows)
  BY <1>2, <1>4, <1>5, <1>6, <1>7 DEF RecordedOut
<1> QED BY <1>8 DEF v

\* A statement under the declared key is the counterparty's own when check v
\* passed.
LEMMA SoundStatement ==
    ASSUME IndInv, HistoryInv, NEW run, Checked(run, 4), OnlyRecorderKeysLeaked(run),
           NEW s \in DOMAIN Statements(art),
           StatementSignatureOK(Statements(art)[s], art.keys, art.counterparty[1].key)
    PROVE  \E i \in DOMAIN issued : Statements(art)[s].raw = issued[i].raw
<1> DEFINE v == ForRun(art, run)
           fp == art.counterparty[1].key
<1>1. checkCounterpartyKeyIndependent(v) = Pass /\ Checked(run, 0)
  BY GradedChecks, CheckedLower
<1>2. v.counterparty = art.counterparty
  BY ViewOfArtifact
<1>3. KeyIndependentOfRecorders(v, fp) = Pass
  BY <1>1, <1>2 DEF checkCounterpartyKeyIndependent, Pass, UV
<1>4. fp \notin leaked
  BY <1>1, <1>3, IndependentKey
<1>5. Statements(art)[s].signer = fp /\ fp # NoKey
  BY ArtifactFacts, KeysAssumption DEF StatementSignatureOK
<1> QED BY <1>4, <1>5 DEF HistoryInv, StatementsOK, StatementOK

\* AEL-4 for any flows, sessions, statements, edits and leaked recorder keys:
\* what the logs show as delivered the counterparty confirmed in this session.
THEOREM ConfirmedDeliveriesHolds == Spec => []ConfirmedDeliveries
<1>1. IndInv /\ HistoryInv => ConfirmedDeliveries
  <2> SUFFICES ASSUME IndInv, HistoryInv, NEW run \in DOMAIN report, Checked(run, 4),
                      OnlyRecorderKeysLeaked(run), NEW id \in Deliveries(run)
               PROVE  \E s \in DOMAIN issued :
                         /\ issued[s].raw.received = id
                         /\ issued[s].raw.run = run
                         /\ issued[s].raw.nonce = NonceOf[run]
    BY DEF ConfirmedDeliveries
  <2> DEFINE v == ForRun(art, run)
             fp == art.counterparty[1].key
             stmts == counterpartyStatementsForRun(v)
  <2>1. Checked(run, 0) /\ Checked(run, 3)
    BY CheckedLower
  <2>2. art.counterparty # Nil /\ art.counterparty[1].flows = Flows
    BY DeclaredFlows, Reported
  <2>3. /\ v.keys = art.keys /\ v.counterparty = art.counterparty /\ artifactRun(v) = run
        /\ Statements(v) = Statements(art)
    BY ViewOfArtifact DEF Statements
  <2>4. id \in RecordedOut(v, Flows)
    BY <2>1, DeliveryRecorded
  <2>5. checkCounterpartyAudit(v) = Pass
    BY GradedChecks
  <2>6. runNonceOK(v) => runNonce(v) = NonceOf[run]
    BY <2>1, OpenedNonce DEF runNonceOK
  <2> HIDE DEF v
  <2>7. \A s \in DOMAIN stmts : s \in DOMAIN Statements(art) /\ stmts[s] = Statements(art)[s]
    BY <2>3 DEF counterpartyStatementsForRun, RestrictValues, Restrict
  <2> HIDE DEF stmts
  <2>8. /\ runNonceOK(v)
        /\ \A s \in DOMAIN stmts :
              /\ StatementSignatureOK(stmts[s], art.keys, fp)
              /\ stmts[s].raw.run = run /\ stmts[s].raw.nonce = runNonce(v)
        /\ RecordedOut(v, Flows) = ConfirmedIn(stmts, Flows)
    BY <2>2, <2>3, <2>5 DEF checkCounterpartyAudit, Require, Pass, Fail, UV, stmts
  <2>9. PICK s \in DOMAIN stmts : stmts[s].raw.received = id
    BY <2>4, <2>8 DEF ConfirmedIn
  <2>10. PICK i \in DOMAIN issued : stmts[s].raw = issued[i].raw
    BY <2>7, <2>8, SoundStatement
  <2> QED BY <2>6, <2>8, <2>9, <2>10
<1> QED BY <1>1, Invariance, HistoryHolds, PTL
-----------------------------------------------------------------------------
(***************************************************************************)
(* Keys that were not published.                                           *)
(***************************************************************************)

\* An outcome x that is undecided or agrees with y.
UpToUV(x, y) == x \in {UV, y}

\* Views that differ at most in the published keys, w having all those of v.
MoreKeys(v, w) ==
    /\ v.keys \subseteq w.keys
    /\ v.logs = w.logs /\ v.correspondence = w.correspondence
    /\ v.anchor = w.anchor /\ v.anchors = w.anchors /\ v.anchorsErr = w.anchorsErr
    /\ v.counterparty = w.counterparty
    /\ v.statements = w.statements /\ v.statementsErr = w.statementsErr
    /\ artifactRun(v) = artifactRun(w)

\* Views in which the loops have a first element.
Listed(v) ==
    /\ DOMAIN v.logs \subseteq Nat /\ DOMAIN Statements(v) \subseteq Nat
    /\ \A l \in DOMAIN v.logs : IsSeq(v.logs[l].records)

\* What Record.Verify establishes stands when more keys are published, and what
\* it refutes under a published key stays refuted.
LEMMA MoreKeysRecord ==
    ASSUME NEW K, NEW L, K \subseteq L, NEW rec
    PROVE  /\ SignatureUV(rec, L) => SignatureUV(rec, K)
           /\ SignatureOK(rec, K) => SignatureOK(rec, L)
           /\ CanonicalOK(rec, K) => CanonicalOK(rec, L)
           /\ SchemaOK(rec, K) => SchemaOK(rec, L)
           /\ ~SignatureUV(rec, K) =>
                 /\ SignatureOK(rec, L) => SignatureOK(rec, K)
                 /\ CanonicalOK(rec, L) => CanonicalOK(rec, K)
           /\ SignatureOK(rec, K) /\ CanonicalOK(rec, L) => CanonicalOK(rec, K)
           /\ CanonicalOK(rec, K) /\ SchemaOK(rec, L) => SchemaOK(rec, K)
BY DEF SignatureUV, SignatureOK, CanonicalOK, SchemaOK

LEMMA MoreKeysStatement ==
    ASSUME NEW K, NEW L, K \subseteq L, NEW stmt, NEW fp
    PROVE  /\ StatementSignatureOK(stmt, K, fp) => StatementSignatureOK(stmt, L, fp)
           /\ StatementCanonicalOK(stmt, K, fp) => StatementCanonicalOK(stmt, L, fp)
           /\ StatementSchemaOK(stmt, K, fp) => StatementSchemaOK(stmt, L, fp)
           /\ StatementCanonicalOK(stmt, K, fp) /\ StatementSchemaOK(stmt, L, fp) =>
                 StatementSchemaOK(stmt, K, fp)
           /\ fp \in K => (StatementSchemaOK(stmt, K, fp) <=> StatementSchemaOK(stmt, L, fp))
BY DEF StatementSignatureOK, StatementCanonicalOK, StatementSchemaOK

\* A loop that stops at its first element not passing is decided the same way
\* when the elements it met were.
LEMMA FirstOutcomeUpToUV ==
    ASSUME NEW f, NEW g, DOMAIN f = DOMAIN g, DOMAIN f \subseteq Nat,
           \A i \in DOMAIN f : f[i] \in Outcome /\ UpToUV(f[i], g[i])
    PROVE  FirstOutcome(f) \in Outcome /\ UpToUV(FirstOutcome(f), FirstOutcome(g))
<1> USE DEF UpToUV, Outcome, Pass, Fail, UV
<1> DEFINE T == {i \in DOMAIN f : f[i] # Pass}
<1>1. CASE T = {}
  <2>1. \A i \in DOMAIN f : f[i] = Pass
    BY <1>1
  <2>2. \A i \in DOMAIN g : g[i] = Pass
    BY <2>1
  <2> QED BY <2>1, <2>2 DEF FirstOutcome
<1>2. CASE T # {}
  <2>1. PICK d \in T : \A e \in T : d <= e
    BY <1>2, Least
  <2>2. d \in Nat /\ \A j \in DOMAIN f : j < d => f[j] = Pass /\ g[j] = Pass
    BY <2>1
  <2>3. CASE f[d] = UV
    BY <2>1, <2>2, <2>3 DEF FirstOutcome
  <2>4. CASE f[d] # UV
    <3>1. f[d] = Fail /\ g[d] = Fail
      BY <2>1, <2>4
    <3>2. ASSUME NEW h, DOMAIN h = DOMAIN f, h[d] = Fail,
                 \A j \in DOMAIN f : j < d => h[j] = Pass
          PROVE  FirstOutcome(h) = Fail
      <4>1. ASSUME NEW i \in DOMAIN h, h[i] = UV,
                   \A j \in DOMAIN h : j < i => h[j] = Pass
            PROVE  FALSE
        <5>1. i \in Nat /\ d \in DOMAIN h /\ i # d
          BY <2>1, <3>2, <4>1
        <5>2. i < d \/ d < i
          BY <5>1, <2>2
        <5> QED BY <5>1, <5>2, <3>2, <4>1
      <4> QED BY <2>1, <3>2, <4>1 DEF FirstOutcome
    <3>3. FirstOutcome(f) = Fail
      BY <3>1, <3>2, <2>2
    <3>4. FirstOutcome(g) = Fail
      BY <3>1, <3>2, <2>2
    <3> QED BY <3>3, <3>4
  <2> QED BY <2>3, <2>4
<1> QED BY <1>1, <1>2

\* recorderAEL1, which check k runs over each log.
LEMMA RecorderUpToUV ==
    ASSUME NEW K, NEW L, K \subseteq L, NEW log, IsSeq(log.records)
    PROVE  /\ recorderAEL1(log, K) \in Outcome
           /\ UpToUV(recorderAEL1(log, K), recorderAEL1(log, L))
<1> DEFINE n == Len(log.records)
           Out(i, keys) ==
               IF SignatureUV(log.records[i], keys) THEN UV
               ELSE Require(/\ CanonicalOK(log.records[i], keys)
                            /\ Payload(log.records[i]).seq = i - 1
                            /\ IF i = 1
                               THEN /\ Payload(log.records[i]).type = "open"
                                    /\ Payload(log.records[i]).prev = zeroPrev
                                    /\ Payload(log.records[i]).hmax > 0
                               ELSE Payload(log.records[i]).prev
                                       = RecordHash(log.records[i - 1]))
           outs(keys) == [i \in 1..n |-> Out(i, keys)]
           Rest == IF checkHeartbeatLog(log) # Pass THEN Fail
                   ELSE Require(/\ Payload(log.records[n]).type = "close"
                                /\ Payload(log.records[n]).count = n
                                /\ Payload(log.records[n]).count >= 2
                                /\ Payload(log.records[n]).head = RecordHash(log.records[n - 1]))
<1>1. \A keys : recorderAEL1(log, keys) =
                    IF n = 0 THEN Fail
                    ELSE IF FirstOutcome(outs(keys)) # Pass THEN FirstOutcome(outs(keys))
                    ELSE Rest
  BY DEF recorderAEL1
<1>2. Rest \in {Pass, Fail}
  BY DEF Require
<1> HIDE DEF Rest
<1>3. \A i \in 1..n : Out(i, K) \in Outcome /\ UpToUV(Out(i, K), Out(i, L))
  BY MoreKeysRecord DEF Require, UpToUV, Outcome
<1> HIDE DEF Out
<1>4. /\ FirstOutcome(outs(K)) \in Outcome
      /\ UpToUV(FirstOutcome(outs(K)), FirstOutcome(outs(L)))
  <2>1. \A keys : DOMAIN outs(keys) = 1..n /\ \A i \in 1..n : outs(keys)[i] = Out(i, keys)
    OBVIOUS
  <2>2. 1..n \subseteq Nat
    BY DEF IsSeq
  <2> HIDE DEF outs
  <2> QED BY <2>1, <2>2, <1>3, FirstOutcomeUpToUV
<1> HIDE DEF outs
<1> QED BY <1>1, <1>2, <1>4 DEF UpToUV, Outcome, Pass, Fail, UV

\* verifiedRecorderKey, which checks l, u and v run over each log.
LEMMA RecorderKeyUpToUV ==
    ASSUME NEW K, NEW L, K \subseteq L, NEW log, IsSeq(log.records)
    PROVE  /\ verifiedRecorderKey(log, K) \in Outcome
           /\ UpToUV(verifiedRecorderKey(log, K), verifiedRecorderKey(log, L))
<1> DEFINE Out(i, keys) ==
               IF SignatureUV(log.records[i], keys) THEN UV
               ELSE Require(/\ SignatureOK(log.records[i], keys)
                            /\ log.records[i].raw.key # NoKey
                            /\ log.records[i].raw.key = RecorderKeyOf(log))
           outs(keys) == [i \in DOMAIN log.records |-> Out(i, keys)]
           Rest == Require(log.key \in {NoKey, RecorderKeyOf(log)})
<1>1. \A keys : verifiedRecorderKey(log, keys) =
                    IF log.records = << >> THEN Fail
                    ELSE IF FirstOutcome(outs(keys)) # Pass THEN FirstOutcome(outs(keys))
                    ELSE Rest
  BY DEF verifiedRecorderKey
<1>2. Rest \in {Pass, Fail}
  BY DEF Require
<1> HIDE DEF Rest
<1>3. \A i \in DOMAIN log.records : Out(i, K) \in Outcome /\ UpToUV(Out(i, K), Out(i, L))
  BY MoreKeysRecord DEF Require, UpToUV, Outcome
<1> HIDE DEF Out
<1>4. /\ FirstOutcome(outs(K)) \in Outcome
      /\ UpToUV(FirstOutcome(outs(K)), FirstOutcome(outs(L)))
  <2>1. \A keys : /\ DOMAIN outs(keys) = DOMAIN log.records
                  /\ \A i \in DOMAIN log.records : outs(keys)[i] = Out(i, keys)
    OBVIOUS
  <2>2. DOMAIN log.records \subseteq Nat
    BY DEF IsSeq
  <2> HIDE DEF outs
  <2> QED BY <2>1, <2>2, <1>3, FirstOutcomeUpToUV
<1> HIDE DEF outs
<1> QED BY <1>1, <1>2, <1>4 DEF UpToUV, Outcome, Pass, Fail, UV

\* The selections the checks make are the same on both views.
LEMMA MoreKeysSame ==
    ASSUME NEW v, NEW w, MoreKeys(v, w), Listed(v)
    PROVE  /\ AllRecords(v) = AllRecords(w)
           /\ Statements(v) = Statements(w)
           /\ logsForArtifactRun(v) = logsForArtifactRun(w)
           /\ counterpartyStatementsForRun(v) = counterpartyStatementsForRun(w)
           /\ OpenPayloads(v) = OpenPayloads(w)
           /\ LET logs == logsForArtifactRun(v)
              IN  /\ DOMAIN logs \subseteq Nat
                  /\ \A l \in DOMAIN logs : IsSeq(logs[l].records)
           /\ DOMAIN counterpartyStatementsForRun(v) \subseteq Nat
<1> DEFINE logs == logsForArtifactRun(v)
           D == {l \in DOMAIN v.logs : artifactRun(v) \in {NoRun, v.logs[l].run}}
<1>1. Statements(v) = Statements(w)
  BY DEF MoreKeys, Statements
<1>2. AllRecords(v) = AllRecords(w)
  BY DEF MoreKeys, AllRecords
<1>3. logsForArtifactRun(v) = logsForArtifactRun(w)
  BY DEF MoreKeys, logsForArtifactRun
<1>4. counterpartyStatementsForRun(v) = counterpartyStatementsForRun(w)
  BY <1>1 DEF MoreKeys, counterpartyStatementsForRun
<1>5. OpenPayloads(v) = OpenPayloads(w)
  BY DEF MoreKeys, OpenPayloads
<1>6. logs = [l \in D |-> v.logs[l]]
  BY DEF logsForArtifactRun, RestrictValues, Restrict
<1>7. DOMAIN counterpartyStatementsForRun(v) \subseteq DOMAIN Statements(v)
  BY DEF counterpartyStatementsForRun, RestrictValues, Restrict
<1>8. DOMAIN logs \subseteq Nat /\ \A l \in DOMAIN logs : IsSeq(logs[l].records)
  <2> HIDE DEF logs
  <2> QED BY <1>6 DEF Listed
<1> QED BY <1>1, <1>2, <1>3, <1>4, <1>5, <1>7, <1>8 DEF Listed

\* Checks a, b, c and w.
LEMMA AuthenticUpToUV ==
    ASSUME NEW v, NEW w, MoreKeys(v, w), Listed(v)
    PROVE  /\ UpToUV(checkSignatures(v), checkSignatures(w))
           /\ UpToUV(checkCanonicalPayloads(v), checkCanonicalPayloads(w))
           /\ UpToUV(checkByteflipDuty(checkSignatures(v)), checkByteflipDuty(checkSignatures(w)))
           /\ UpToUV(checkClosedSchemas(v), checkClosedSchemas(w))
<1> DEFINE records == AllRecords(v)
           fp == IF v.counterparty = Nil THEN NoKey ELSE v.counterparty[1].key
           stmts == {Statements(v)[s] : s \in DOMAIN Statements(v)}
           Broken(keys) ==
               \/ \E rec \in records : CanonicalOK(rec, keys) /\ ~SchemaOK(rec, keys)
               \/ v.anchors # Nil /\ ~v.anchors[1].schema
               \/ \E stmt \in stmts : /\ StatementCanonicalOK(stmt, keys, fp)
                                      /\ ~StatementSchemaOK(stmt, keys, fp)
           Unread(keys) ==
               \/ \E rec \in records : ~CanonicalOK(rec, keys)
               \/ \E stmt \in stmts : ~StatementCanonicalOK(stmt, keys, fp)
<1>1. v.keys \subseteq w.keys /\ AllRecords(w) = records
  BY MoreKeysSame DEF MoreKeys
<1>2. \A rec :
         /\ SignatureUV(rec, w.keys) => SignatureUV(rec, v.keys)
         /\ SignatureOK(rec, v.keys) => SignatureOK(rec, w.keys)
         /\ CanonicalOK(rec, v.keys) => CanonicalOK(rec, w.keys)
         /\ SchemaOK(rec, v.keys) => SchemaOK(rec, w.keys)
         /\ ~SignatureUV(rec, v.keys) /\ SignatureOK(rec, w.keys) => SignatureOK(rec, v.keys)
         /\ SignatureOK(rec, v.keys) /\ CanonicalOK(rec, w.keys) => CanonicalOK(rec, v.keys)
         /\ CanonicalOK(rec, v.keys) /\ SchemaOK(rec, w.keys) => SchemaOK(rec, v.keys)
  BY <1>1, MoreKeysRecord
<1>3. \A stmt :
         /\ StatementCanonicalOK(stmt, v.keys, fp) => StatementCanonicalOK(stmt, w.keys, fp)
         /\ StatementCanonicalOK(stmt, v.keys, fp) /\ StatementSchemaOK(stmt, w.keys, fp)
               => StatementSchemaOK(stmt, v.keys, fp)
  BY <1>1, MoreKeysStatement
<1>4. UpToUV(checkSignatures(v), checkSignatures(w))
  <2>1. \A x : x \in {v, w} => AllRecords(x) = records
    BY <1>1
  <2> HIDE DEF records
  <2>2. CASE checkSignatures(v) = Fail /\ records # {}
    <3>1. PICK rec \in records : ~SignatureUV(rec, v.keys) /\ ~SignatureOK(rec, v.keys)
      BY <2>1, <2>2 DEF checkSignatures, Pass, Fail, UV
    <3>2. ~SignatureUV(rec, w.keys) /\ ~SignatureOK(rec, w.keys)
      BY <3>1, <1>2 DEF SignatureUV
    <3>3. checkSignatures(w) = Fail
      BY <2>1, <3>2 DEF checkSignatures
    <3> QED BY <2>2, <3>3 DEF UpToUV
  <2>3. CASE checkSignatures(v) = Pass
    <3>1. records # {} /\ \A rec \in records : SignatureOK(rec, v.keys)
      BY <2>1, <2>3 DEF checkSignatures, Pass, Fail, UV
    <3>2. \A rec \in records : SignatureOK(rec, w.keys) /\ ~SignatureUV(rec, w.keys)
      BY <3>1, <1>2 DEF SignatureUV, SignatureOK
    <3>3. checkSignatures(w) = Pass
      BY <2>1, <3>1, <3>2 DEF checkSignatures
    <3> QED BY <2>3, <3>3 DEF UpToUV
  <2>4. records = {} => checkSignatures(v) = Fail /\ checkSignatures(w) = Fail
    BY <2>1 DEF checkSignatures
  <2>5. checkSignatures(v) \in {Pass, Fail, UV}
    BY DEF checkSignatures
  <2> QED BY <2>2, <2>3, <2>4, <2>5 DEF UpToUV
<1>5. UpToUV(checkCanonicalPayloads(v), checkCanonicalPayloads(w))
  <2>1. AllRecords(v) = records /\ AllRecords(w) = records
    BY <1>1
  <2> HIDE DEF records
  <2>2. CASE \E rec \in records : SignatureOK(rec, v.keys) /\ ~CanonicalOK(rec, v.keys)
    <3>1. \E rec \in records : SignatureOK(rec, w.keys) /\ ~CanonicalOK(rec, w.keys)
      BY <2>2, <1>2
    <3>2. checkCanonicalPayloads(v) = Fail /\ checkCanonicalPayloads(w) = Fail
      BY <2>1, <2>2, <3>1 DEF checkCanonicalPayloads
    <3> QED BY <3>2 DEF UpToUV
  <2>3. CASE \A rec \in records : SignatureOK(rec, v.keys) /\ CanonicalOK(rec, v.keys)
    <3>1. \A rec \in records : SignatureOK(rec, w.keys) /\ CanonicalOK(rec, w.keys)
      BY <2>3, <1>2
    <3>2. checkCanonicalPayloads(v) = Pass /\ checkCanonicalPayloads(w) = Pass
      BY <2>1, <2>3, <3>1 DEF checkCanonicalPayloads
    <3> QED BY <3>2 DEF UpToUV
  <2>4. CASE /\ ~\E rec \in records : SignatureOK(rec, v.keys) /\ ~CanonicalOK(rec, v.keys)
             /\ \E rec \in records : ~SignatureOK(rec, v.keys)
    BY <2>1, <2>4 DEF checkCanonicalPayloads, UpToUV
  <2> QED BY <2>2, <2>3, <2>4
<1>6. UpToUV(checkByteflipDuty(checkSignatures(v)), checkByteflipDuty(checkSignatures(w)))
  BY <1>4 DEF UpToUV, checkByteflipDuty, Pass, UV
<1>7. UpToUV(checkClosedSchemas(v), checkClosedSchemas(w))
  <2>1. checkClosedSchemas(v) = IF Broken(v.keys) THEN Fail
                                ELSE IF Unread(v.keys) THEN UV ELSE Pass
    BY DEF checkClosedSchemas
  <2>2. checkClosedSchemas(w) = IF Broken(w.keys) THEN Fail
                                ELSE IF Unread(w.keys) THEN UV ELSE Pass
    <3>1. /\ AllRecords(w) = AllRecords(v) /\ Statements(w) = Statements(v)
          /\ w.counterparty = v.counterparty /\ w.anchors = v.anchors
      BY MoreKeysSame DEF MoreKeys
    <3> QED BY <3>1 DEF checkClosedSchemas
  <2> HIDE DEF records, stmts, fp
  <2>3. Broken(v.keys) => Broken(w.keys)
    BY <1>2, <1>3
  <2>4. ~Unread(v.keys) => ~Unread(w.keys)
    BY <1>2, <1>3
  <2>5. ~Unread(v.keys) /\ ~Broken(v.keys) => ~Broken(w.keys)
    <3> SUFFICES ASSUME ~Unread(v.keys), ~Broken(v.keys), Broken(w.keys) PROVE FALSE
      OBVIOUS
    <3>1. \A rec \in records : SchemaOK(rec, v.keys) /\ SchemaOK(rec, w.keys)
      BY <1>2
    <3>2. \A stmt \in stmts : StatementSchemaOK(stmt, v.keys, fp)
      OBVIOUS
    <3>3. \A stmt \in stmts : StatementSchemaOK(stmt, w.keys, fp)
      BY <3>2, <1>1, MoreKeysStatement
    <3> QED BY <3>1, <3>3
  <2> QED BY <2>1, <2>2, <2>3, <2>4, <2>5 DEF UpToUV
<1> QED BY <1>4, <1>5, <1>6, <1>7

\* Checks d to j, m and o to q do not look at the published keys.
LEMMA KeyFreeChecks ==
    ASSUME NEW v, NEW w, MoreKeys(v, w), Listed(v)
    PROVE  /\ checkSequenceOrder(v) = checkSequenceOrder(w)
           /\ checkPredecessorLinks(v) = checkPredecessorLinks(w)
           /\ checkOpen(v) = checkOpen(w) /\ checkContiguous(v) = checkContiguous(w)
           /\ checkHeartbeat(v) = checkHeartbeat(w)
           /\ checkCloseCount(v) = checkCloseCount(w) /\ checkOpenEnd(v) = checkOpenEnd(w)
           /\ checkCrossAudit(v) = checkCrossAudit(w)
           /\ AnchorsOutcome(v) = AnchorsOutcome(w)
           /\ checkInclusion(v) = checkInclusion(w)
           /\ checkAnchorLeaves(v) = checkAnchorLeaves(w)
           /\ checkUnanchoredWindow(v) = checkUnanchoredWindow(w)
<1>1. /\ v.logs = w.logs /\ v.correspondence = w.correspondence /\ v.anchors = w.anchors
      /\ v.anchor = w.anchor /\ v.anchorsErr = w.anchorsErr
      /\ logsForArtifactRun(v) = logsForArtifactRun(w)
  BY MoreKeysSame DEF MoreKeys
<1>2. checkSequenceOrder(v) = checkSequenceOrder(w)
  BY <1>1 DEF checkSequenceOrder
<1>3. checkPredecessorLinks(v) = checkPredecessorLinks(w)
  BY <1>1 DEF checkPredecessorLinks
<1>4. checkOpen(v) = checkOpen(w) /\ checkContiguous(v) = checkContiguous(w)
  BY <1>1 DEF checkOpen, checkContiguous
<1>5. checkHeartbeat(v) = checkHeartbeat(w)
  BY <1>1 DEF checkHeartbeat
<1>6. checkCloseCount(v) = checkCloseCount(w) /\ checkOpenEnd(v) = checkOpenEnd(w)
  BY <1>1 DEF checkCloseCount, checkOpenEnd
<1>7. checkCrossAudit(v) = checkCrossAudit(w)
  BY <1>1 DEF checkCrossAudit
<1>8. AnchorsOutcome(v) = AnchorsOutcome(w)
  BY <1>1 DEF AnchorsOutcome
<1>9. checkInclusion(v) = checkInclusion(w)
  BY <1>1, <1>8 DEF checkInclusion
<1>10. \A e : FoundRecordHasLeaf(v, e) = FoundRecordHasLeaf(w, e)
  BY <1>1 DEF FoundRecordHasLeaf, Matches
<1>11. checkAnchorLeaves(v) = checkAnchorLeaves(w)
  BY <1>1, <1>8, <1>10 DEF checkAnchorLeaves
<1>12. checkUnanchoredWindow(v) = checkUnanchoredWindow(w)
  BY <1>1, <1>8 DEF checkUnanchoredWindow
<1> QED BY <1>2, <1>3, <1>4, <1>5, <1>6, <1>7, <1>8, <1>9, <1>11, <1>12

\* Checks k and l, and the loop that checks u and v share.
LEMMA RecordersUpToUV ==
    ASSUME NEW v, NEW w, MoreKeys(v, w), Listed(v)
    PROVE  /\ UpToUV(checkTwoRecorders(v), checkTwoRecorders(w))
           /\ UpToUV(checkKeysDiffer(v), checkKeysDiffer(w))
           /\ \A declared : UpToUV(KeyIndependentOfRecorders(v, declared),
                                   KeyIndependentOfRecorders(w, declared))
<1> DEFINE logs == logsForArtifactRun(v)
<1>1. /\ v.keys \subseteq w.keys /\ logsForArtifactRun(w) = logs
      /\ DOMAIN logs \subseteq Nat /\ \A l \in DOMAIN logs : IsSeq(logs[l].records)
  BY MoreKeysSame DEF MoreKeys
<1>2. logsForArtifactRun(v) = logs
  OBVIOUS
<1> HIDE DEF logs
<1>3. \A l \in DOMAIN logs :
         /\ recorderAEL1(logs[l], v.keys) \in Outcome
         /\ UpToUV(recorderAEL1(logs[l], v.keys), recorderAEL1(logs[l], w.keys))
  BY <1>1, RecorderUpToUV
<1>4. \A l \in DOMAIN logs :
         /\ verifiedRecorderKey(logs[l], v.keys) \in Outcome
         /\ UpToUV(verifiedRecorderKey(logs[l], v.keys), verifiedRecorderKey(logs[l], w.keys))
  BY <1>1, RecorderKeyUpToUV
<1>5. UpToUV(checkTwoRecorders(v), checkTwoRecorders(w))
  <2> DEFINE outs(keys) == [l \in DOMAIN logs |-> recorderAEL1(logs[l], keys)]
  <2>1. \A keys : /\ DOMAIN outs(keys) = DOMAIN logs
                  /\ \A l \in DOMAIN logs : outs(keys)[l] = recorderAEL1(logs[l], keys)
    OBVIOUS
  <2>2. \A x \in {v, w} : checkTwoRecorders(x) =
           IF Cardinality(DOMAIN logs) < 2 THEN Fail ELSE FirstOutcome(outs(x.keys))
    BY <1>1, <1>2 DEF checkTwoRecorders
  <2> HIDE DEF outs
  <2>3. UpToUV(FirstOutcome(outs(v.keys)), FirstOutcome(outs(w.keys)))
    BY <2>1, <1>1, <1>3, FirstOutcomeUpToUV
  <2> QED BY <2>2, <2>3 DEF UpToUV
<1>6. UpToUV(checkKeysDiffer(v), checkKeysDiffer(w))
  <2> DEFINE outs(keys) == [l \in DOMAIN logs |-> verifiedRecorderKey(logs[l], keys)]
             Rest == Require(\A l, k \in DOMAIN logs : l # k =>
                                RecorderKeyOf(logs[LastWithID(logs, l)])
                                   # RecorderKeyOf(logs[LastWithID(logs, k)]))
  <2>1. \A keys : /\ DOMAIN outs(keys) = DOMAIN logs
                  /\ \A l \in DOMAIN logs : outs(keys)[l] = verifiedRecorderKey(logs[l], keys)
    OBVIOUS
  <2>2. \A x \in {v, w} : checkKeysDiffer(x) =
           IF Cardinality(DOMAIN logs) < 2 THEN UV
           ELSE IF FirstOutcome(outs(x.keys)) # Pass THEN FirstOutcome(outs(x.keys))
           ELSE Rest
    BY <1>1, <1>2 DEF checkKeysDiffer
  <2> HIDE DEF outs, Rest
  <2>3. UpToUV(FirstOutcome(outs(v.keys)), FirstOutcome(outs(w.keys)))
    BY <2>1, <1>1, <1>4, FirstOutcomeUpToUV
  <2> QED BY <2>2, <2>3 DEF UpToUV, Pass, UV
<1>7. ASSUME NEW declared
      PROVE  UpToUV(KeyIndependentOfRecorders(v, declared),
                    KeyIndependentOfRecorders(w, declared))
  <2> DEFINE Out(l, keys) ==
                 LET out == verifiedRecorderKey(logs[l], keys)
                 IN  IF out # Pass THEN out ELSE Require(RecorderKeyOf(logs[l]) # declared)
             outs(keys) == [l \in DOMAIN logs |-> Out(l, keys)]
  <2>1. \A x \in {v, w} : KeyIndependentOfRecorders(x, declared) = FirstOutcome(outs(x.keys))
    BY <1>1, <1>2 DEF KeyIndependentOfRecorders
  <2>2. \A l \in DOMAIN logs : /\ Out(l, v.keys) \in Outcome
                               /\ UpToUV(Out(l, v.keys), Out(l, w.keys))
    BY <1>4 DEF UpToUV, Outcome, Require, Pass, UV
  <2>3. \A keys : /\ DOMAIN outs(keys) = DOMAIN logs
                  /\ \A l \in DOMAIN logs : outs(keys)[l] = Out(l, keys)
    OBVIOUS
  <2> HIDE DEF Out, outs
  <2>4. UpToUV(FirstOutcome(outs(v.keys)), FirstOutcome(outs(w.keys)))
    BY <2>2, <2>3, <1>1, FirstOutcomeUpToUV
  <2> QED BY <2>1, <2>4
<1> QED BY <1>5, <1>6, <1>7

\* Checks n and r to v.
LEMMA ExternalUpToUV ==
    ASSUME NEW v, NEW w, MoreKeys(v, w), Listed(v)
    PROVE  /\ UpToUV(checkTreeHead(v), checkTreeHead(w))
           /\ UpToUV(checkCounterpartySignatures(v), checkCounterpartySignatures(w))
           /\ UpToUV(checkCounterpartyBinding(v), checkCounterpartyBinding(w))
           /\ UpToUV(checkCounterpartyAudit(v), checkCounterpartyAudit(w))
           /\ UpToUV(checkLogKeyIndependent(v), checkLogKeyIndependent(w))
           /\ UpToUV(checkCounterpartyKeyIndependent(v), checkCounterpartyKeyIndependent(w))
<1> DEFINE fp == v.counterparty[1].key
           stmts == counterpartyStatementsForRun(v)
<1>1. /\ v.keys \subseteq w.keys /\ v.anchor = w.anchor /\ v.anchors = w.anchors
      /\ v.counterparty = w.counterparty /\ v.statements = w.statements
      /\ v.statementsErr = w.statementsErr /\ artifactRun(v) = artifactRun(w)
  BY DEF MoreKeys
<1>2. /\ Statements(v) = Statements(w) /\ counterpartyStatementsForRun(w) = stmts
      /\ OpenPayloads(v) = OpenPayloads(w) /\ AllRecords(v) = AllRecords(w)
      /\ DOMAIN stmts \subseteq Nat /\ AnchorsOutcome(v) = AnchorsOutcome(w)
  BY MoreKeysSame, KeyFreeChecks
<1>3. runNonceOK(v) = runNonceOK(w) /\ runNonce(v) = runNonce(w)
  BY <1>2 DEF runNonceOK, runNonce
<1>4. UpToUV(checkTreeHead(v), checkTreeHead(w))
  BY <1>1, <1>2 DEF checkTreeHead, UpToUV
<1>5. UpToUV(checkLogKeyIndependent(v), checkLogKeyIndependent(w))
  BY <1>1, RecordersUpToUV DEF checkLogKeyIndependent, UpToUV
<1>6. UpToUV(checkCounterpartyKeyIndependent(v), checkCounterpartyKeyIndependent(w))
  BY <1>1, RecordersUpToUV DEF checkCounterpartyKeyIndependent, UpToUV
<1>7. counterpartyStatementsForRun(v) = stmts /\ w.counterparty[1].key = fp
  BY <1>1
<1> HIDE DEF stmts, fp
<1>8. \A stmt : StatementSignatureOK(stmt, v.keys, fp) => StatementSignatureOK(stmt, w.keys, fp)
  BY <1>1, MoreKeysStatement
<1>9. fp \in v.keys => /\ fp \in w.keys
                       /\ \A stmt : StatementSchemaOK(stmt, v.keys, fp)
                                       <=> StatementSchemaOK(stmt, w.keys, fp)
  BY <1>1, MoreKeysStatement
<1>10. UpToUV(checkCounterpartySignatures(v), checkCounterpartySignatures(w))
  <2> DEFINE Good(keys) == /\ DOMAIN Statements(v) # {}
                           /\ \A s \in DOMAIN stmts : StatementSchemaOK(stmts[s], keys, fp)
  <2>1. \A x \in {v, w} : checkCounterpartySignatures(x) =
           IF v.counterparty = Nil THEN UV
           ELSE IF v.statements = Nil THEN UV
           ELSE IF v.statementsErr THEN Fail
           ELSE IF fp \notin x.keys THEN UV
           ELSE Require(Good(x.keys))
    BY <1>1, <1>2, <1>7 DEF checkCounterpartySignatures, fp
  <2>2. fp \in v.keys => fp \in w.keys /\ (Good(v.keys) <=> Good(w.keys))
    BY <1>9
  <2> HIDE DEF Good
  <2>3. fp \in v.keys => Require(Good(v.keys)) = Require(Good(w.keys))
    BY <2>2 DEF Require
  <2>4. UpToUV(checkCounterpartySignatures(v), checkCounterpartySignatures(w))
    BY <2>1, <2>2, <2>3 DEF UpToUV
  <2> QED BY <2>4
<1>11. UpToUV(checkCounterpartyBinding(v), checkCounterpartyBinding(w))
  <2> DEFINE Bound(s) == /\ stmts[s].raw.v = 1
                         /\ stmts[s].raw.type = "received"
                         /\ stmts[s].raw.run = artifactRun(v)
                         /\ stmts[s].raw.nonce = runNonce(v)
                         /\ ReceiptChoiceOK(stmts[s].raw)
             Out(s, keys) == IF ~StatementSignatureOK(stmts[s], keys, fp) THEN UV
                             ELSE Require(Bound(s))
             outs(keys) == [s \in DOMAIN stmts |-> Out(s, keys)]
  <2>1. \A x \in {v, w} : checkCounterpartyBinding(x) =
           IF v.counterparty = Nil THEN UV
           ELSE IF v.statements = Nil THEN UV
           ELSE IF ~runNonceOK(v) THEN Fail
           ELSE IF DOMAIN stmts = {} /\ DOMAIN Statements(v) # {} THEN Fail
           ELSE FirstOutcome(outs(x.keys))
    <3>1. /\ \A x \in {v, w} :
                /\ x.counterparty = v.counterparty /\ x.statements = v.statements
                /\ counterpartyStatementsForRun(x) = stmts /\ Statements(x) = Statements(v)
                /\ runNonceOK(x) = runNonceOK(v) /\ runNonce(x) = runNonce(v)
                /\ artifactRun(x) = artifactRun(v)
      BY <1>1, <1>2, <1>3, <1>7
    <3> SUFFICES ASSUME NEW x \in {v, w}
                 PROVE  checkCounterpartyBinding(x) =
                           IF v.counterparty = Nil THEN UV
                           ELSE IF v.statements = Nil THEN UV
                           ELSE IF ~runNonceOK(v) THEN Fail
                           ELSE IF DOMAIN stmts = {} /\ DOMAIN Statements(v) # {} THEN Fail
                           ELSE FirstOutcome(outs(x.keys))
      OBVIOUS
    <3> QED BY <3>1, Zenon DEF checkCounterpartyBinding, fp
  <2> HIDE DEF Bound
  <2>2. \A s \in DOMAIN stmts : /\ Out(s, v.keys) \in Outcome
                                /\ UpToUV(Out(s, v.keys), Out(s, w.keys))
    BY <1>8 DEF UpToUV, Outcome, Require
  <2>3. \A keys : /\ DOMAIN outs(keys) = DOMAIN stmts
                  /\ \A s \in DOMAIN stmts : outs(keys)[s] = Out(s, keys)
    OBVIOUS
  <2> HIDE DEF Out, outs
  <2>4. UpToUV(FirstOutcome(outs(v.keys)), FirstOutcome(outs(w.keys)))
    BY <2>2, <2>3, <1>2, FirstOutcomeUpToUV
  <2> QED BY <2>1, <2>4 DEF UpToUV
<1>12. UpToUV(checkCounterpartyAudit(v), checkCounterpartyAudit(w))
  <2> DEFINE flows == v.counterparty[1].flows
             Unread(keys) == \E s \in DOMAIN stmts :
                                \/ ~StatementSignatureOK(stmts[s], keys, fp)
                                \/ stmts[s].raw.run # artifactRun(v)
                                \/ stmts[s].raw.nonce # runNonce(v)
             Rest == Require(RecordedOut(v, flows) = ConfirmedIn(stmts, flows))
  <2>1. RecordedOut(w, flows) = RecordedOut(v, flows)
    BY <1>2 DEF RecordedOut
  <2>2. \A x \in {v, w} : checkCounterpartyAudit(x) =
           IF v.counterparty = Nil THEN UV
           ELSE IF v.statements = Nil THEN UV
           ELSE IF flows = {} \/ ~runNonceOK(v) THEN UV
           ELSE IF Unread(x.keys) THEN UV
           ELSE Rest
    BY <1>1, <1>2, <1>3, <1>7, <2>1 DEF checkCounterpartyAudit, fp
  <2>3. ~Unread(v.keys) => ~Unread(w.keys)
    BY <1>8
  <2> HIDE DEF Rest, Unread, flows
  <2> QED BY <2>2, <2>3 DEF UpToUV
<1> QED BY <1>4, <1>5, <1>6, <1>10, <1>11, <1>12

CheckIDs == {"a", "b", "c", "d", "e", "f", "g", "h", "i", "j", "k", "l", "m", "n", "o",
             "p", "q", "r", "s", "t", "u", "v", "w"}

\* So every check is decided the same way on the two views, or undecided on the
\* one with fewer keys.
LEMMA ChecksUpToUV ==
    ASSUME NEW v, NEW w, MoreKeys(v, w), Listed(v)
    PROVE  /\ DOMAIN Checks(v) = CheckIDs
           /\ \A id \in CheckIDs : UpToUV(Checks(v)[id], Checks(w)[id])
           /\ Checks(v).j = Checks(w).j
<1>1. DOMAIN Checks(v) = CheckIDs
  BY DEF Checks, CheckIDs
<1>2. Checks(v).j = Checks(w).j
  BY KeyFreeChecks DEF Checks
<1>3. ASSUME NEW id \in {"a", "b", "c", "w"}
      PROVE  UpToUV(Checks(v)[id], Checks(w)[id])
  BY AuthenticUpToUV DEF Checks
<1>4. ASSUME NEW id \in {"d", "e", "f", "g", "h", "i", "j", "m", "o", "p", "q"}
      PROVE  UpToUV(Checks(v)[id], Checks(w)[id])
  BY KeyFreeChecks DEF Checks, UpToUV
<1>5. ASSUME NEW id \in {"k", "l"}
      PROVE  UpToUV(Checks(v)[id], Checks(w)[id])
  BY RecordersUpToUV DEF Checks
<1>6. ASSUME NEW id \in {"n", "r", "s", "t", "u", "v"}
      PROVE  UpToUV(Checks(v)[id], Checks(w)[id])
  BY ExternalUpToUV DEF Checks
<1> QED BY <1>1, <1>2, <1>3, <1>4, <1>5, <1>6 DEF CheckIDs

\* And then the grade is no higher on that view.
LEMMA GradeUpToUV ==
    ASSUME NEW c, NEW d, \A id \in CheckIDs : UpToUV(c[id], d[id]), c.j = d.j
    PROVE  computeGrade(c) <= computeGrade(d)
<1>1. ASSUME NEW ids, ids \subseteq CheckIDs
      PROVE  allPass(c, ids) => allPass(d, ids)
  BY <1>1 DEF allPass, UpToUV, Pass, UV
<1>2. /\ allPass(c, {"a", "b", "d", "e", "w"}) => allPass(d, {"a", "b", "d", "e", "w"})
      /\ allPass(c, {"f", "g", "h", "i"}) => allPass(d, {"f", "g", "h", "i"})
      /\ allPass(c, {"k", "l", "m"}) => allPass(d, {"k", "l", "m"})
      /\ allPass(c, {"n", "o", "u", "p", "q"}) => allPass(d, {"n", "o", "u", "p", "q"})
      /\ allPass(c, {"r", "s", "t", "v"}) => allPass(d, {"r", "s", "t", "v"})
  BY <1>1 DEF CheckIDs
<1> QED BY <1>2 DEF computeGrade, Ungraded

\* For any artifact and any keys withheld from it: a key that is not published
\* leaves checks undecided and decides none.
THEOREM MissingKeyUndecidedHolds == Spec => []MissingKeyUndecided
<1>1. IndInv /\ HistoryInv => MissingKeyUndecided
  <2> SUFFICES ASSUME IndInv, HistoryInv, NEW run \in DOMAIN report
               PROVE  LET full == evaluateRun(ForRun([art EXCEPT !.keys = Keys], run))
                      IN  /\ report[run].grade <= full.grade
                          /\ \A c \in DOMAIN report[run].checks :
                                report[run].checks[c] \in {UV, full.checks[c]}
    BY DEF MissingKeyUndecided
  <2> DEFINE A == [art EXCEPT !.keys = Keys]
             v == ForRun(art, run)
             w == ForRun(A, run)
             Blocks == {"runs", "logs", "keys", "correspondence", "anchor", "anchors",
                        "anchorsErr", "counterparty", "statements", "statementsErr"}
  <2>1. Blocks \subseteq DOMAIN art /\ art.keys \subseteq Keys
    BY ArtifactFacts DEF NoArtifact
  <2>2. /\ Blocks \subseteq DOMAIN A /\ A.keys = Keys
        /\ A.logs = art.logs /\ A.correspondence = art.correspondence
        /\ A.anchor = art.anchor /\ A.anchors = art.anchors /\ A.anchorsErr = art.anchorsErr
        /\ A.counterparty = art.counterparty
        /\ A.statements = art.statements /\ A.statementsErr = art.statementsErr
    BY <2>1
  <2> HIDE DEF A
  <2>3. /\ w.keys = A.keys /\ w.correspondence = A.correspondence
        /\ w.anchor = A.anchor /\ w.anchorsErr = A.anchorsErr
        /\ w.anchors = AnchorsForRun(A, run)
        /\ w.counterparty = A.counterparty
        /\ w.statements = A.statements /\ w.statementsErr = A.statementsErr
        /\ artifactRun(w) = run
        /\ w.logs = [l \in {k \in DOMAIN A.logs : A.logs[k].run = run} |-> A.logs[l]]
    BY <2>2, ViewOfRun
  <2>4. AnchorsForRun(A, run) = AnchorsForRun(art, run)
    BY <2>2 DEF AnchorsForRun
  <2>5. MoreKeys(v, w)
    <3> HIDE DEF v, w
    <3>1. /\ v.keys = art.keys /\ v.correspondence = art.correspondence
          /\ v.anchor = art.anchor /\ v.anchorsErr = art.anchorsErr
          /\ v.anchors = AnchorsForRun(art, run)
          /\ v.counterparty = art.counterparty
          /\ v.statements = art.statements /\ v.statementsErr = art.statementsErr
          /\ artifactRun(v) = run
          /\ v.logs = [l \in {k \in DOMAIN art.logs : art.logs[k].run = run} |-> art.logs[l]]
      BY ViewOfArtifact DEF v
    <3> QED BY <2>1, <2>2, <2>3, <2>4, <3>1 DEF MoreKeys
  <2>6. Listed(v)
    <3>1. v.logs = [l \in {k \in DOMAIN art.logs : art.logs[k].run = run} |-> art.logs[l]]
      BY ViewOfArtifact
    <3>2. v.statements = art.statements
      BY ViewOfArtifact
    <3>3. Statements(v) = Statements(art)
      BY <3>2 DEF Statements
    <3>4. DOMAIN art.logs \subseteq Nat /\ \A l \in DOMAIN art.logs : IsSeq(art.logs[l].records)
      BY ArtifactFacts, LogsAssumption DEF LogOK, RecordsOK
    <3>5. DOMAIN Statements(art) \subseteq Nat
      BY DEF HistoryInv, StatementsOK, IsSeq
    <3> HIDE DEF v
    <3> QED BY <3>1, <3>3, <3>4, <3>5 DEF Listed
  <2>7. report[run] = evaluateRun(v)
    BY Reported
  <2> HIDE DEF v, w
  <2>8. /\ DOMAIN Checks(v) = CheckIDs
        /\ \A id \in CheckIDs : Checks(v)[id] \in {UV, Checks(w)[id]}
        /\ computeGrade(Checks(v)) <= computeGrade(Checks(w))
    BY <2>5, <2>6, ChecksUpToUV, GradeUpToUV DEF UpToUV
  <2> QED BY <2>7, <2>8 DEF evaluateRun, w, A
<1> QED BY <1>1, Invariance, HistoryHolds, PTL
-----------------------------------------------------------------------------
(***************************************************************************)
(* Runs presented as recorded.                                             *)
(***************************************************************************)

\* What the checker sees of a log that was not edited.
LEMMA UneditedLog ==
    ASSUME IndInv, HistoryInv, NEW l \in DOMAIN Logs
    PROVE  LET s == written[l]
               log == PresentedLog(l)
           IN  /\ DOMAIN s = 1..Len(s) /\ Len(s) \in Nat /\ (s = << >> <=> Len(s) = 0)
               /\ DOMAIN log.records = 1..Len(s) /\ Len(log.records) = Len(s)
               /\ log.records = << >> <=> s = << >>
               /\ log.id = Recorder(l) /\ log.run = RunOf(l)
               /\ \A i \in 1..Len(s) :
                     /\ log.records[i].parsed /\ log.records[i].raw = s[i]
                     /\ Payload(log.records[i]) = s[i]
                     /\ RecordHash(log.records[i]) = Hash(s[i])
                     /\ SignatureOK(log.records[i], Keys)
                     /\ ~SignatureUV(log.records[i], Keys)
                     /\ CanonicalOK(log.records[i], Keys) <=> s[i].form # "noncanonical"
                     /\ SchemaOK(log.records[i], Keys) <=> s[i].form = "valid"
<1> DEFINE s == written[l]
           log == PresentedLog(l)
<1>1. IsSeq(s)
  BY DEF IndInv, TypeOK
<1>2. DOMAIN s = 1..Len(s) /\ Len(s) \in Nat /\ (s = << >> <=> Len(s) = 0)
  BY <1>1, EmptyIsSeq DEF IsSeq
<1>3. /\ log.id = Recorder(l) /\ log.run = RunOf(l)
      /\ log.records = [i \in DOMAIN s |-> Signed(s[i], Key(l))]
  BY DEF PresentedLog
<1> HIDE DEF log, s
<1>4. IsSeq(log.records) /\ Len(log.records) = Len(s) /\ DOMAIN log.records = DOMAIN s
  BY <1>1, <1>3, MapIsSeq
<1>5. log.records = << >> <=> s = << >>
  BY <1>2, <1>4, EmptyIsSeq
<1>6. Key(l) \in Keys
  <2>1. Recorder(l) \in Recorders
    BY DEF Recorder, Recorders
  <2> QED BY <2>1 DEF Key, Keys
<1>7. ASSUME NEW i \in 1..Len(s)
      PROVE  /\ log.records[i].parsed /\ log.records[i].raw = s[i]
             /\ log.records[i].signer = Key(l) /\ s[i].key = Key(l)
             /\ s[i].form \in Forms /\ s[i].run # NoRun
  <2>1. log.records[i] = Signed(s[i], Key(l))
    BY <1>2, <1>3
  <2>2. LinkOK(s, l, i) /\ ContentOK(s, l, i)
    BY <1>2 DEF s, IndInv, ChainsOK, HistoryInv, ContentsOK
  <2>3. RunOf(l) # NoRun
    BY RunsAssumption DEF Runs, RunOf
  <2> QED BY <2>1, <2>2, <2>3, SignedFields DEF LinkOK, ContentOK
<1>8. ASSUME NEW i \in 1..Len(s)
      PROVE  /\ Payload(log.records[i]) = s[i]
             /\ RecordHash(log.records[i]) = Hash(s[i])
             /\ SignatureOK(log.records[i], Keys)
             /\ ~SignatureUV(log.records[i], Keys)
             /\ CanonicalOK(log.records[i], Keys) <=> s[i].form # "noncanonical"
             /\ SchemaOK(log.records[i], Keys) <=> s[i].form = "valid"
  BY <1>6, <1>7 DEF Payload, RecordHash, SignatureOK, SignatureUV, CanonicalOK, SchemaOK, Forms
<1> QED BY <1>2, <1>3, <1>4, <1>5, <1>7, <1>8 DEF s, log

\* The checks of AEL-1 that look at one log, on a log that was not edited: they
\* pass exactly when it is live, its form aside.
LEMMA LiveLog ==
    ASSUME IndInv, HistoryInv, NEW l \in DOMAIN Logs
    PROVE  LET s == written[l]
               log == PresentedLog(l)
               valid == \A i \in DOMAIN s : s[i].form = "valid"
           IN  /\ s # << >> => /\ SequenceOrderOK(log) /\ PredecessorLinksOK(log)
                               /\ ContiguousOK(log)
               /\ Live(s) => /\ valid /\ s # << >> /\ OpenOK(log)
                             /\ checkHeartbeatLog(log) = Pass
                             /\ CloseCountOK(log) /\ ~OpenEnded(log)
               /\ valid /\ OpenOK(log) /\ checkHeartbeatLog(log) = Pass /\ CloseCountOK(log)
                     => Live(s)
               /\ OpenEnded(log) <=> HMax > 0 /\ s # << >> /\ Last(s).type # "close"
<1> DEFINE s == written[l]
           log == PresentedLog(l)
           n == Len(s)
           valid == \A i \in DOMAIN s : s[i].form = "valid"
<1>1. /\ DOMAIN s = 1..n /\ n \in Nat /\ (s = << >> <=> n = 0)
      /\ DOMAIN log.records = 1..n /\ Len(log.records) = n
      /\ log.records = << >> <=> s = << >>
      /\ log.id = Recorder(l) /\ log.run = RunOf(l)
      /\ \A i \in 1..n : /\ log.records[i].parsed /\ log.records[i].raw = s[i]
                         /\ Payload(log.records[i]) = s[i]
                         /\ RecordHash(log.records[i]) = Hash(s[i])
  BY UneditedLog
<1>2. \A i \in 1..n : LinkOK(s, l, i) /\ ContentOK(s, l, i)
  BY <1>1 DEF IndInv, ChainsOK, HistoryInv, ContentsOK
<1> HIDE DEF s, log, n
<1>3. s # << >> => /\ n \in 1..n /\ 1 \in 1..n /\ n >= 1
                   /\ Last(s) = s[n]
  BY <1>1 DEF Last, n
<1>4. \A i \in 1..n : i > 1 => i - 1 \in 1..n
  BY <1>1
<1>5. ASSUME NEW i \in 1..n
      PROVE  /\ s[i].seq = i - 1 /\ s[i].v = 1
             /\ s[i].recorder = log.id /\ s[i].run = log.run
             /\ i = 1 => s[i].seq = 0 /\ s[i].prev = zeroPrev
             /\ i # 1 => /\ s[i].seq > s[i - 1].seq
                         /\ s[i].prev = RecordHash(log.records[i - 1])
  <2>1. s[i].seq = i - 1 /\ s[i].v = 1 /\ s[i].recorder = log.id /\ s[i].run = log.run
    BY <1>1, <1>2 DEF LinkOK, ContentOK
  <2>2. i = 1 => s[i].seq = 0 /\ s[i].prev = zeroPrev
    BY <1>2, <2>1 DEF LinkOK
  <2>3. ASSUME i # 1
        PROVE  /\ s[i].seq > s[i - 1].seq
               /\ s[i].prev = RecordHash(log.records[i - 1])
    <3>1. i - 1 \in 1..n
      BY <2>3, <1>4
    <3>2. s[i - 1].seq = i - 2
      <4>1. LinkOK(s, l, i - 1)
        BY <3>1, <1>2
      <4>2. i - 1 - 1 = i - 2
        OBVIOUS
      <4> QED BY <4>1, <4>2 DEF LinkOK
    <3>3. s[i].prev = Hash(s[i - 1])
      BY <2>3, <1>2 DEF LinkOK
    <3> QED BY <2>1, <3>1, <3>2, <3>3, <1>1
  <2> QED BY <2>1, <2>2, <2>3
<1>6. s # << >> => SequenceOrderOK(log)
  <2> SUFFICES ASSUME s # << >>, NEW i \in 1..n
               PROVE  /\ log.records[i].parsed
                      /\ log.records[i].raw.v = 1
                      /\ log.records[i].raw.recorder = log.id
                      /\ log.records[i].raw.run = log.run
                      /\ IF i = 1 THEN log.records[i].raw.seq = 0
                         ELSE log.records[i].raw.seq > log.records[i - 1].raw.seq
    BY <1>1 DEF SequenceOrderOK
  <2>1. i # 1 => log.records[i - 1].raw = s[i - 1]
    <3>1. i # 1 => i - 1 \in 1..n
      BY <1>1, <1>4
    <3> QED BY <3>1, <1>1
  <2>2. log.records[i].parsed /\ log.records[i].raw = s[i]
    BY <1>1
  <2>3. CASE i = 1
    BY <2>2, <2>3, <1>5
  <2>4. CASE i # 1
    BY <2>1, <2>2, <2>4, <1>5
  <2> QED BY <2>3, <2>4
<1>7. s # << >> => PredecessorLinksOK(log)
  <2> SUFFICES ASSUME s # << >>, NEW i \in 1..n
               PROVE  /\ log.records[i].parsed
                      /\ log.records[i].raw.prev =
                            IF i = 1 THEN zeroPrev ELSE RecordHash(log.records[i - 1])
    BY <1>1 DEF PredecessorLinksOK
  <2> QED BY <1>1, <1>5
<1>8. ContiguousOK(log)
  BY <1>1, <1>5 DEF ContiguousOK
<1>9. s # << >> => /\ s[1].type = "open" /\ s[1].seq = 0 /\ s[1].hmax = HMax /\ s[1].htol = HTol
                   /\ Payload(log.records[1]) = s[1] /\ Payload(log.records[n]) = s[n]
  BY <1>1, <1>2, <1>3, <1>5 DEF ContentOK
<1>10. OpenOK(log) <=> s # << >> /\ HMax > 0
  BY <1>1, <1>9 DEF OpenOK
<1>11. OpenEnded(log) <=> HMax > 0 /\ s # << >> /\ Last(s).type # "close"
  BY <1>1, <1>3, <1>9 DEF OpenEnded
<1> DEFINE Beats == \E i \in DOMAIN s : s[i].type = "heartbeat"
           Spaced == \A i \in 2..n : s[i].ts - s[i - 1].ts <= HMax + HTol
<1>12. ASSUME s # << >>, HMax > 0
       PROVE  checkHeartbeatLog(log) = Pass <=> Beats /\ Spaced
  <2>1. checkHeartbeatLog(log) = Pass <=>
           /\ \A i \in 2..n : /\ log.records[i - 1].parsed /\ log.records[i].parsed
                              /\ SpacingOK(Payload(log.records[i - 1]).ts,
                                           Payload(log.records[i]).ts, HMax + HTol)
           /\ \E i \in 2..n : Payload(log.records[i]).type = "heartbeat"
    <3>1. /\ log.records # << >> /\ Payload(log.records[1]).hmax = HMax
          /\ Payload(log.records[1]).htol = HTol /\ ~(HMax <= 0) /\ Len(log.records) = n
      BY <1>1, <1>9, <1>12, BoundsAssumption
    <3> HIDE DEF s, log, n
    <3> QED BY <3>1 DEF checkHeartbeatLog, Require, Pass, Fail
  <2>2. \A i \in 2..n : i \in 1..n /\ i - 1 \in 1..n /\ i > 1
    BY <1>1
  <2>3. \A i \in 2..n : s[i - 1].ts <= s[i].ts
    BY <2>2, <1>2 DEF ContentOK
  <2>4. \A i \in 1..n : s[i].ts \in Int
    BY <1>2 DEF ContentOK
  <2>5. (\A i \in 2..n : /\ log.records[i - 1].parsed /\ log.records[i].parsed
                         /\ SpacingOK(Payload(log.records[i - 1]).ts,
                                      Payload(log.records[i]).ts, HMax + HTol))
           <=> Spaced
    BY <2>2, <2>3, <2>4, <1>1 DEF SpacingOK
  <2>6. (\E i \in 2..n : Payload(log.records[i]).type = "heartbeat") <=> Beats
    <3>1. s[1].type # "heartbeat"
      BY <1>9, <1>12
    <3>2. \A i \in 1..n : i # 1 => i \in 2..n
      BY <1>1
    <3> QED BY <3>1, <3>2, <2>2, <1>1
  <2> QED BY <2>1, <2>5, <2>6
<1>13. CloseCountOK(log) <=> s # << >> /\ Last(s).type = "close"
  <2>1. CloseCountOK(log) => s # << >> /\ Last(s).type = "close"
    BY <1>1, <1>3, <1>9 DEF CloseCountOK
  <2>2. ASSUME s # << >>, Last(s).type = "close"
        PROVE  CloseCountOK(log)
    <3>1. s[n].type = "close" /\ n \in 1..n /\ n # 1
      BY <2>2, <1>3, <1>9
    <3>2. n >= 2 /\ n - 1 \in 1..n
      BY <3>1, <1>1
    <3>3. s[n].count = n /\ s[n].head = Hash(s[n - 1])
      BY <3>1, <1>2 DEF ContentOK
    <3>4. \A i \in 1..(n - 1) : i \in 1..n /\ i # n
      BY <1>1
    <3>5. \A i \in 1..(n - 1) : s[i].type # "close"
      BY <3>4, <1>2 DEF LinkOK, n
    <3> QED BY <3>1, <3>2, <3>3, <3>4, <3>5, <2>2, <1>1 DEF CloseCountOK
  <2> QED BY <2>1, <2>2
<1>14. Live(s) <=> /\ HMax > 0 /\ s # << >> /\ Last(s).type = "close"
                   /\ valid /\ Beats /\ Spaced
  BY DEF Live, n
<1> HIDE DEF Beats, Spaced, valid
<1>15. Live(s) => /\ valid /\ s # << >> /\ OpenOK(log)
                  /\ checkHeartbeatLog(log) = Pass
                  /\ CloseCountOK(log) /\ ~OpenEnded(log)
  BY <1>10, <1>11, <1>12, <1>13, <1>14
<1>16. valid /\ OpenOK(log) /\ checkHeartbeatLog(log) = Pass /\ CloseCountOK(log) => Live(s)
  BY <1>10, <1>12, <1>13, <1>14
<1> QED BY <1>6, <1>7, <1>8, <1>11, <1>15, <1>16 DEF s, log, valid

\* AEL-1 or more, check by check.
LEMMA GradeOne ==
    ASSUME NEW checks
    PROVE  computeGrade(checks) >= 1 <=>
              /\ allPass(checks, {"a", "b", "d", "e", "w", "f", "g", "h", "i"})
              /\ checks.j # Fail
BY DEF computeGrade, allPass, Ungraded

\* The view of a run presented as recorded, under all the keys.
LEMMA UneditedView ==
    ASSUME IndInv, HistoryInv, phase = "checked", edits = 0, issued = << >>, NEW run \in Runs
    PROVE  LET v == ForRun(art, run)
               D == {l \in DOMAIN Logs : RunOf(l) = run}
           IN  /\ run \in DOMAIN report /\ report[run] = evaluateRun(v)
               /\ D # {} /\ v.logs = [l \in D |-> PresentedLog(l)] /\ v.keys = Keys
               /\ v.anchors # Nil => v.anchors[1].schema
               /\ DOMAIN Statements(v) = {}
<1> DEFINE v == ForRun(art, run)
           D == {l \in DOMAIN Logs : RunOf(l) = run}
<1>1. /\ art.runs = Runs /\ art.keys = Keys
      /\ art.logs = [l \in DOMAIN Logs |-> PresentedLog(l)]
      /\ art.anchors # Nil => Anchors.schema
      /\ art.statements = <<issued>>
  BY DEF HistoryInv, PresentedOK
<1>2. run \in DOMAIN report
  BY <1>1, RunsAssumption DEF IndInv, PhasesOK, Evaluate, artifactRuns
<1>3. report[run] = evaluateRun(v)
  BY <1>2, Reported
<1>4. D # {}
  BY DEF Runs, RunOf
<1>5. \A l \in DOMAIN Logs : PresentedLog(l).run = RunOf(l)
  BY DEF PresentedLog
<1>6. /\ v.logs = [l \in {k \in DOMAIN art.logs : art.logs[k].run = run} |-> art.logs[l]]
      /\ v.keys = art.keys /\ v.statements = art.statements
      /\ v.anchors = AnchorsForRun(art, run)
  BY ViewOfArtifact
<1> HIDE DEF v
<1>7. v.logs = [l \in D |-> PresentedLog(l)]
  <2>1. {k \in DOMAIN art.logs : art.logs[k].run = run} = D
    BY <1>1, <1>5
  <2>2. v.logs = [l \in D |-> art.logs[l]]
    BY <2>1, <1>6
  <2>3. \A l \in D : art.logs[l] = PresentedLog(l)
    BY <1>1
  <2> HIDE DEF D
  <2> QED BY <2>2, <2>3
<1>8. v.anchors # Nil => v.anchors[1].schema
  <2> SUFFICES ASSUME v.anchors # Nil PROVE v.anchors[1].schema
    OBVIOUS
  <2>1. art.anchors # Nil
    BY <1>6 DEF AnchorsForRun
  <2>2. "schema" \in DOMAIN Anchors
    BY <2>1 DEF HistoryInv, HeadOK, AnchorsOver
  <2> QED BY <2>1, <2>2, <1>1, <1>6 DEF AnchorsForRun, Anchors
<1>9. DOMAIN Statements(v) = {}
  <2>1. Statements(v) = << >>
    BY <1>1, <1>6 DEF Statements, Nil
  <2> QED BY <2>1
<1> QED BY <1>1, <1>2, <1>3, <1>4, <1>6, <1>7, <1>8, <1>9 DEF v

\* For any recorders, plans, times and body forms: a run nobody tampered with
\* gets the grade its recording deserves, and is reported open exactly when a
\* recorder stopped without closing.
THEOREM HonestVerdictHolds == Spec => []HonestVerdict
<1>1. IndInv /\ HistoryInv => HonestVerdict
  <2> SUFFICES ASSUME IndInv, HistoryInv, phase = "checked", edits = 0, issued = << >>,
                      NEW run \in Runs
               PROVE  LET logs == {written[l] : l \in {k \in DOMAIN Logs : RunOf(k) = run}}
                      IN  /\ Checked(run, 1) <=> \A s \in logs : Live(s)
                          /\ report[run].open <=>
                                \E s \in logs : HMax > 0 /\ s # << >> /\ Last(s).type # "close"
    BY DEF HonestVerdict
  <2> DEFINE v == ForRun(art, run)
             D == {l \in DOMAIN Logs : RunOf(l) = run}
             c == Checks(v)
             log(l) == PresentedLog(l)
  <2>1. /\ run \in DOMAIN report /\ report[run] = evaluateRun(v)
        /\ D # {} /\ v.logs = [l \in D |-> log(l)] /\ v.keys = Keys
        /\ v.anchors # Nil => v.anchors[1].schema
        /\ DOMAIN Statements(v) = {}
    BY UneditedView
  <2> HIDE DEF v
  <2>2. Checked(run, 1) <=> computeGrade(c) >= 1
    BY <2>1 DEF Checked, evaluateRun
  <2>3. report[run].open <=> checkOpenEnd(v) = Fail
    <3>1. report[run].open = (c.j = Fail)
      BY <2>1 DEF evaluateRun
    <3>2. c.j = checkOpenEnd(v)
      BY DEF Checks
    <3> HIDE DEF c
    <3> QED BY <3>1, <3>2
  <2>4. /\ DOMAIN v.logs = D /\ \A l \in D : v.logs[l] = log(l)
    BY <2>1
  <2>5. checkOpenEnd(v) = Fail <=> \E l \in D : OpenEnded(log(l))
    BY <2>4 DEF checkOpenEnd, Require, Pass, Fail
  <2>6. \A l \in D : OpenEnded(log(l)) <=>
           HMax > 0 /\ written[l] # << >> /\ Last(written[l]).type # "close"
    BY LiveLog
  <2>7. ASSUME \A l \in D : Live(written[l])
        PROVE  computeGrade(c) >= 1
    <3>1. \A l \in D : /\ written[l] # << >> /\ \A i \in DOMAIN written[l] : written[l][i].form = "valid"
                       /\ SequenceOrderOK(log(l)) /\ PredecessorLinksOK(log(l))
                       /\ ContiguousOK(log(l)) /\ OpenOK(log(l))
                       /\ checkHeartbeatLog(log(l)) = Pass
                       /\ CloseCountOK(log(l)) /\ ~OpenEnded(log(l))
      <4> SUFFICES ASSUME NEW l \in D
                   PROVE  /\ written[l] # << >>
                          /\ \A i \in DOMAIN written[l] : written[l][i].form = "valid"
                          /\ SequenceOrderOK(log(l)) /\ PredecessorLinksOK(log(l))
                          /\ ContiguousOK(log(l)) /\ OpenOK(log(l))
                          /\ checkHeartbeatLog(log(l)) = Pass
                          /\ CloseCountOK(log(l)) /\ ~OpenEnded(log(l))
        OBVIOUS
      <4>1. Live(written[l]) /\ l \in DOMAIN Logs
        BY <2>7
      <4> HIDE DEF log
      <4> QED BY <4>1, LiveLog DEF log
    <3>2. \A rec \in AllRecords(v) : /\ SchemaOK(rec, Keys) /\ CanonicalOK(rec, Keys)
                                     /\ SignatureOK(rec, Keys) /\ ~SignatureUV(rec, Keys)
      <4> SUFFICES ASSUME NEW l \in D, NEW i \in DOMAIN log(l).records
                   PROVE  LET rec == log(l).records[i]
                          IN  /\ SchemaOK(rec, Keys) /\ CanonicalOK(rec, Keys)
                              /\ SignatureOK(rec, Keys) /\ ~SignatureUV(rec, Keys)
        BY <2>4 DEF AllRecords
      <4>1. l \in DOMAIN Logs
        OBVIOUS
      <4>2. i \in 1..Len(written[l]) /\ i \in DOMAIN written[l]
        BY <4>1, UneditedLog
      <4>3. written[l][i].form = "valid"
        BY <3>1, <4>2
      <4> QED BY <4>1, <4>2, <4>3, UneditedLog
    <3>3. AllRecords(v) # {}
      <4>1. PICK l \in D : TRUE
        BY <2>1
      <4>2. log(l).records # << >> /\ DOMAIN log(l).records = 1..Len(written[l])
               /\ Len(written[l]) \in Nat /\ Len(written[l]) # 0
        BY <3>1, UneditedLog
      <4>3. 1 \in DOMAIN log(l).records
        BY <4>2
      <4>4. v.logs[l].records[1] \in AllRecords(v)
        BY <4>3, <2>4 DEF AllRecords
      <4> QED BY <4>4
    <3> HIDE DEF D, log
    <3>4. checkSignatures(v) = Pass /\ checkCanonicalPayloads(v) = Pass
      BY <3>2, <3>3, <2>1 DEF checkSignatures, checkCanonicalPayloads
    <3>5. checkClosedSchemas(v) = Pass
      BY <3>2, <2>1 DEF checkClosedSchemas
    <3>6. checkSequenceOrder(v) = Pass /\ checkPredecessorLinks(v) = Pass
      BY <3>1, <2>1, <2>4 DEF checkSequenceOrder, checkPredecessorLinks, Require
    <3>7. /\ checkOpen(v) = Pass /\ checkContiguous(v) = Pass
          /\ checkHeartbeat(v) = Pass /\ checkCloseCount(v) = Pass
      BY <3>1, <2>4 DEF checkOpen, checkContiguous, checkHeartbeat, checkCloseCount, Require
    <3>8. checkOpenEnd(v) # Fail
      BY <3>1, <2>4 DEF checkOpenEnd, Require, Pass, Fail
    <3>9. \A id \in {"a", "b", "d", "e", "w", "f", "g", "h", "i"} : c[id] = Pass
      BY <3>4, <3>5, <3>6, <3>7 DEF Checks
    <3>10. c.j # Fail
      BY <3>8 DEF Checks
    <3> QED BY <3>9, <3>10, GradeOne DEF allPass
  <2>8. ASSUME computeGrade(c) >= 1, NEW l \in D
        PROVE  Live(written[l])
    <3>1. \A id \in {"a", "b", "d", "e", "w", "f", "g", "h", "i"} : c[id] = Pass
      BY <2>8, GradeOne DEF allPass
    <3>2. /\ checkClosedSchemas(v) = Pass /\ checkOpen(v) = Pass
          /\ checkHeartbeat(v) = Pass /\ checkCloseCount(v) = Pass
      BY <3>1 DEF Checks
    <3>3. OpenOK(log(l)) /\ checkHeartbeatLog(log(l)) = Pass /\ CloseCountOK(log(l))
      BY <3>2, <2>4 DEF checkOpen, checkHeartbeat, checkCloseCount, Require, Pass, Fail
    <3>4. \A rec \in AllRecords(v) : SchemaOK(rec, Keys)
      BY <3>2, <2>1 DEF checkClosedSchemas, Pass, Fail, UV
    <3>5. \A i \in DOMAIN written[l] : written[l][i].form = "valid"
      <4> SUFFICES ASSUME NEW i \in DOMAIN written[l] PROVE written[l][i].form = "valid"
        OBVIOUS
      <4>1. l \in DOMAIN Logs
        OBVIOUS
      <4>2. i \in 1..Len(written[l]) /\ i \in DOMAIN log(l).records
        BY <4>1, UneditedLog
      <4>3. log(l).records[i] \in AllRecords(v)
        BY <4>2, <2>4 DEF AllRecords
      <4>4. SchemaOK(log(l).records[i], Keys)
        BY <3>4, <4>3
      <4> QED BY <4>1, <4>2, <4>4, UneditedLog
    <3> QED BY <3>3, <3>5, LiveLog
  <2> HIDE DEF c
  <2>9. Checked(run, 1) <=> \A l \in D : Live(written[l])
    BY <2>2, <2>7, <2>8
  <2>10. report[run].open <=>
            \E l \in D : HMax > 0 /\ written[l] # << >> /\ Last(written[l]).type # "close"
    BY <2>3, <2>5, <2>6
  <2> HIDE DEF v, log
  <2> QED BY <2>9, <2>10
<1> QED BY <1>1, Invariance, HistoryHolds, PTL
=============================================================================
