---------------------------- MODULE AELRunProofs ----------------------------
(***************************************************************************)
(* Proofs about AELRun, for every choice of its constants.                 *)
(*                                                                         *)
(* IndInv is inductive: a recorder's log is one hash chain under its own   *)
(* key, and no edit of the artifact produces a record that carries a sound *)
(* key's signature and that the key's holder did not write.  AEL-0 follows *)
(* because two hash chains that share a record share everything before it; *)
(* AEL-1 because a close is the last record of the log it is written to.   *)
(***************************************************************************)
EXTENDS AELRun, TLAPS, WellFoundedInduction

-----------------------------------------------------------------------------
(***************************************************************************)
(* Sequences.                                                              *)
(***************************************************************************)

\* A sequence has its range's sequences as its type, whatever its elements.
LEMMA SeqIsSeq ==
    ASSUME NEW S, NEW s \in Seq(S)
    PROVE  /\ IsSeq(s) /\ Len(s) \in Nat /\ DOMAIN s = 1..Len(s)
           /\ Range(s) \subseteq S
BY DEF IsSeq, Range

\* The empty sequence, and the only sequence of length 0.
LEMMA EmptyIsSeq ==
    /\ IsSeq(<< >>) /\ Len(<< >>) = 0
    /\ \A s : IsSeq(s) => (Len(s) = 0 <=> s = << >>)
<1>1. << >> \in Seq({}) /\ Len(<< >>) = 0
  OBVIOUS
<1>2. ASSUME NEW s, IsSeq(s), Len(s) = 0
      PROVE  s = << >>
  BY <1>2 DEF IsSeq
<1> QED BY <1>1, <1>2, SeqIsSeq

\* Every function on 1..n is a sequence of length n.
LEMMA FunctionIsSeq ==
    ASSUME NEW n \in Nat, NEW f, f = [i \in 1..n |-> f[i]]
    PROVE  IsSeq(f) /\ Len(f) = n /\ DOMAIN f = 1..n
<1>1. f \in [1..n -> Range(f)]
  BY DEF Range
<1>2. f \in Seq(Range(f)) /\ Len(f) = n
  BY <1>1
<1> QED BY <1>2 DEF IsSeq

\* The same for a function on the domain of a sequence.
LEMMA MapIsSeq ==
    ASSUME NEW s, IsSeq(s), NEW f, f = [i \in DOMAIN s |-> f[i]]
    PROVE  IsSeq(f) /\ Len(f) = Len(s) /\ DOMAIN f = DOMAIN s
<1>1. DOMAIN s = 1..Len(s) /\ Len(s) \in Nat
  BY DEF IsSeq
<1> QED BY <1>1, FunctionIsSeq

\* A sequence is a sequence over every set that contains its elements.
LEMMA SeqWiden ==
    ASSUME NEW s, IsSeq(s), NEW S, Range(s) \subseteq S
    PROVE  s \in Seq(S)
<1>1. s \in [1..Len(s) -> S] /\ Len(s) \in Nat
  BY DEF IsSeq, Range
<1> QED BY <1>1

\* Append extends a sequence by its last element.
LEMMA AppendIsSeq ==
    ASSUME NEW s, IsSeq(s), NEW x
    PROVE  /\ IsSeq(Append(s, x))
           /\ Len(Append(s, x)) = Len(s) + 1
           /\ DOMAIN Append(s, x) = 1..(Len(s) + 1)
           /\ \A i \in 1..Len(s) : Append(s, x)[i] = s[i]
           /\ Append(s, x)[Len(s) + 1] = x
<1> DEFINE S == Range(s) \cup {x}
<1>1. s \in Seq(S) /\ x \in S
  BY SeqWiden
<1>2. Append(s, x) \in Seq(S) /\ Len(Append(s, x)) = Len(s) + 1 /\ Len(s) \in Nat
  BY <1>1
<1>3. \A i \in 1..Len(s) : Append(s, x)[i] = s[i]
  BY <1>1
<1>4. Append(s, x)[Len(s) + 1] = x
  BY <1>1
<1>5. IsSeq(Append(s, x)) /\ DOMAIN Append(s, x) = 1..(Len(s) + 1)
  BY <1>2, SeqIsSeq
<1> QED BY <1>2, <1>3, <1>4, <1>5

\* Remove keeps a subset of the elements.
LEMMA RemoveIsSeq ==
    ASSUME NEW s, IsSeq(s), NEW i \in DOMAIN s
    PROVE  IsSeq(Remove(s, i)) /\ Range(Remove(s, i)) \subseteq Range(s)
<1>1. s \in Seq(Range(s)) /\ i \in 1..Len(s) /\ Len(s) \in Nat
  BY DEF IsSeq
<1>2. SubSeq(s, 1, i - 1) \in Seq(Range(s)) /\ SubSeq(s, i + 1, Len(s)) \in Seq(Range(s))
  BY <1>1
<1>3. Remove(s, i) \in Seq(Range(s))
  BY <1>2 DEF Remove
<1> QED BY <1>3, SeqIsSeq

\* InsertAt adds one element.
LEMMA InsertIsSeq ==
    ASSUME NEW s, IsSeq(s), NEW i \in 1..(Len(s) + 1), NEW x
    PROVE  IsSeq(InsertAt(s, i, x)) /\ Range(InsertAt(s, i, x)) \subseteq Range(s) \cup {x}
<1> DEFINE S == Range(s) \cup {x}
<1>1. s \in Seq(S) /\ <<x>> \in Seq(S) /\ Len(s) \in Nat
  BY SeqWiden
<1>2. SubSeq(s, 1, i - 1) \in Seq(S) /\ SubSeq(s, i, Len(s)) \in Seq(S)
  BY <1>1
<1>3. InsertAt(s, i, x) \in Seq(S)
  BY <1>1, <1>2 DEF InsertAt
<1> QED BY <1>3, SeqIsSeq

\* Every non-empty set of naturals has a least element.
LEMMA Least ==
    ASSUME NEW T, T \subseteq Nat, T # {}
    PROVE  \E d \in T : \A e \in T : d <= e
<1>1. IsWellFoundedOn(OpToRel(<,Nat), Nat)
  BY NatLessThanWellFounded
<1>2. PICK x \in T : \A y \in T : ~ (<<y, x>> \in OpToRel(<,Nat))
  BY <1>1, WFMin
<1>3. \A y \in T : ~(y < x)
  BY <1>2 DEF OpToRel
<1> QED BY <1>3
-----------------------------------------------------------------------------
(***************************************************************************)
(* Recording preserves the invariant.                                      *)
(***************************************************************************)

\* Nothing is presented and nothing is written at the start.
LEMMA InitInv == Init => IndInv
<1> SUFFICES ASSUME Init PROVE IndInv
  OBVIOUS
<1> USE DEF Init
<1>1. IsSeq(<< >>) /\ Len(<< >>) = 0
  BY EmptyIsSeq
<1>2. Len(Logs) \in Nat /\ DOMAIN Logs = 1..Len(Logs)
  BY LogsAssumption
<1>3. TypeOK
  BY <1>1, <1>2, BoundsAssumption DEF TypeOK, NoArtifact
<1>4. ChainsOK /\ Unforged /\ PhasesOK
  BY <1>1 DEF ChainsOK, Unforged, PhasesOK, NoArtifact
<1> QED BY <1>3, <1>4 DEF IndInv

\* What the next record of a chain says of itself.
LEMMA NextPayloadFields ==
    ASSUME NEW chain, NEW recorder, NEW run, NEW key, NEW type, NEW ts, NEW event,
           NEW form
    PROVE  LET p == NextPayload(chain, recorder, run, key, type, ts, event, form)
           IN  /\ p.seq = Len(chain) /\ p.recorder = recorder /\ p.run = run
               /\ p.key = key /\ p.type = type
               /\ p.prev = IF chain = << >> THEN zeroPrev ELSE Hash(Last(chain))
BY DEF NextPayload

\* A recorder extends an empty log or one that is not closed.
LEMMA WriteInv ==
    ASSUME IndInv, NEW l \in DOMAIN Logs, NEW type, NEW event, NEW form,
           written[l] = << >> \/ IsOpen(l), Write(l, type, event, form)
    PROVE  IndInv'
<1> DEFINE s == written[l]
           p == NextPayload(s, Recorder(l), RunOf(l), Key(l), type, clock, event, form)
<1>1. /\ DOMAIN written = DOMAIN Logs /\ IsSeq(s) /\ Len(s) < MaxRecords
      /\ phase = "recording" /\ art = NoArtifact
      /\ UNCHANGED <<phase, clock, tree, issued, leaked, art, edits, report>>
  BY DEF IndInv, TypeOK, Write, Recording, PhasesOK
<1>2. written' = [written EXCEPT ![l] = Append(s, p)]
  BY DEF Write
<1>3. /\ IsSeq(Append(s, p)) /\ Len(Append(s, p)) = Len(s) + 1
      /\ DOMAIN Append(s, p) = 1..(Len(s) + 1)
      /\ \A i \in 1..Len(s) : Append(s, p)[i] = s[i]
      /\ Append(s, p)[Len(s) + 1] = p
  <2> HIDE DEF p
  <2> QED BY <1>1, AppendIsSeq
<1>4. Len(s) \in Nat /\ DOMAIN s = 1..Len(s)
  BY <1>1 DEF IsSeq
<1>5. \A k \in DOMAIN Logs : written'[k] = IF k = l THEN Append(s, p) ELSE written[k]
  <2> HIDE DEF p
  <2> QED BY <1>1, <1>2
<1> HIDE DEF p
<1>6. DOMAIN written' = DOMAIN Logs
  BY <1>1, <1>2
<1>7. Len(Append(s, p)) <= MaxRecords
  BY <1>1, <1>3, <1>4, BoundsAssumption
<1>8. TypeOK'
  <2>1. \A k \in DOMAIN Logs : IsSeq(written'[k]) /\ Len(written'[k]) <= MaxRecords
    BY <1>3, <1>5, <1>7 DEF IndInv, TypeOK
  <2> QED BY <1>1, <1>6, <2>1 DEF IndInv, TypeOK
<1>9. ChainsOK'
  <2> SUFFICES ASSUME NEW k \in DOMAIN Logs, NEW i \in DOMAIN written'[k]
               PROVE  LinkOK(written'[k], k, i)
    BY DEF ChainsOK
  <2>1. CASE k # l
    BY <2>1, <1>5 DEF IndInv, ChainsOK
  <2>2. ASSUME k = l, i \in 1..Len(s)
        PROVE  LinkOK(written'[k], k, i)
    <3>a. written'[k] = Append(s, p)
      BY <2>2, <1>5
    <3>b. i # 1 => i - 1 \in 1..Len(s)
      BY <2>2, <1>4
    <3>1. written'[k][i] = s[i] /\ (i # 1 => written'[k][i - 1] = s[i - 1])
      BY <3>a, <3>b, <2>2, <1>3
    <3>2. LinkOK(s, l, i)
      BY <2>2, <1>4 DEF IndInv, ChainsOK
    <3>3. s[i].type # "close"
      BY <3>2, <2>2, <1>4 DEF LinkOK, IsOpen, Last
    <3> QED BY <3>1, <3>2, <3>3, <2>2, <1>4 DEF LinkOK
  <2>3. ASSUME k = l, i = Len(s) + 1
        PROVE  LinkOK(written'[k], k, i)
    <3>1. /\ p.seq = Len(s) /\ p.recorder = Recorder(l) /\ p.run = RunOf(l)
          /\ p.key = Key(l)
          /\ p.prev = IF s = << >> THEN zeroPrev ELSE Hash(Last(s))
      BY NextPayloadFields DEF p
    <3>2. written'[k] = Append(s, p)
      BY <2>3, <1>5
    <3>3. written'[k][i] = p /\ Len(written'[k]) = i
      BY <3>2, <2>3, <1>3
    <3>4. s = << >> <=> i = 1
      BY <2>3, <1>1, <1>4, EmptyIsSeq
    <3>5. i # 1 => Len(s) \in 1..Len(s) /\ i - 1 = Len(s)
      BY <2>3, <1>4
    <3>6. i # 1 => written'[k][i - 1] = Last(s)
      BY <3>2, <3>5, <1>3 DEF Last
    <3>7. p.seq = i - 1
      BY <3>1, <1>4, <2>3
    <3>8. p.prev = IF i = 1 THEN zeroPrev ELSE Hash(written'[k][i - 1])
      BY <3>1, <3>4, <3>6
    <3> QED BY <3>1, <3>3, <3>7, <3>8, <2>3 DEF LinkOK
  <2>4. k = l => i \in 1..Len(s) \/ i = Len(s) + 1
    <3>1. k = l => DOMAIN written'[k] = 1..(Len(s) + 1)
      BY <1>3, <1>5
    <3> QED BY <3>1, <1>4
  <2> QED BY <2>1, <2>2, <2>3, <2>4
<1>10. Unforged' /\ PhasesOK'
  BY <1>1 DEF IndInv, Unforged, PhasesOK, NoArtifact
<1> QED BY <1>8, <1>9, <1>10 DEF IndInv

\* The clock, the external log and the counterparty do not touch what the
\* invariant is about.
LEMMA OtherRecordingInv ==
    ASSUME IndInv,
           \/ Tick
           \/ \E l \in DOMAIN Logs : Register(l)
           \/ \E session, flow, id, form : Confirm(session, flow, id, form)
    PROVE  IndInv'
<1>1. /\ phase = "recording" /\ art = NoArtifact /\ report = << >>
      /\ UNCHANGED <<phase, written, leaked, art, edits, report>>
  BY DEF IndInv, PhasesOK, Recording, Tick, Register, Confirm
<1>2. /\ clock' \in 0..MaxTime
      /\ IsSeq(tree') /\ Len(tree') <= MaxLeaves
      /\ IsSeq(issued') /\ Len(issued') <= MaxStatements
  <2> USE BoundsAssumption DEF IndInv, TypeOK
  <2>0. IsSeq(tree) /\ IsSeq(issued)
    OBVIOUS
  <2>a. Len(tree) \in Nat /\ Len(issued) \in Nat
    BY <2>0 DEF IsSeq
  <2>1. CASE Tick
    BY <2>1 DEF Tick
  <2>2. ASSUME NEW l \in DOMAIN Logs, Register(l)
        PROVE  /\ clock' = clock /\ issued' = issued
               /\ IsSeq(tree') /\ Len(tree') <= MaxLeaves
    <3> DEFINE x == merkleLeaf(Last(written[l]))
    <3>1. tree' = Append(tree, x) /\ Len(tree) < MaxLeaves
      BY <2>2 DEF Register
    <3> HIDE DEF x
    <3>2. IsSeq(Append(tree, x)) /\ Len(Append(tree, x)) = Len(tree) + 1
      BY <2>0, AppendIsSeq
    <3> QED BY <2>2, <2>a, <3>1, <3>2 DEF Register
  <2>3. ASSUME NEW session, NEW flow, NEW id, NEW form, Confirm(session, flow, id, form)
        PROVE  /\ clock' = clock /\ tree' = tree
               /\ IsSeq(issued') /\ Len(issued') <= MaxStatements
    <3> DEFINE x == Signed(Statement(session, flow, id, form), CpKey)
    <3>1. issued' = Append(issued, x) /\ Len(issued) < MaxStatements
      BY <2>3 DEF Confirm
    <3> HIDE DEF x
    <3>2. IsSeq(Append(issued, x)) /\ Len(Append(issued, x)) = Len(issued) + 1
      BY <2>0, AppendIsSeq
    <3> QED BY <2>3, <2>a, <3>1, <3>2 DEF Confirm
  <2> QED BY <2>1, <2>2, <2>3
<1>3. TypeOK'
  BY <1>1, <1>2 DEF IndInv, TypeOK
<1>4. ChainsOK' /\ Unforged' /\ PhasesOK'
  BY <1>1 DEF IndInv, ChainsOK, Unforged, Genuine, PhasesOK, NoArtifact
<1> QED BY <1>3, <1>4 DEF IndInv

\* Presenting shows the recorders' own records.
LEMMA PresentInv ==
    ASSUME IndInv, NEW size, NEW keys \in CanLeak, Present(size, keys)
    PROVE  IndInv'
<1>1. /\ phase' = "presenting" /\ leaked' = keys /\ report = << >>
      /\ UNCHANGED <<clock, written, tree, issued, edits, report>>
  BY DEF IndInv, PhasesOK, Recording, Present, recording
<1>2. /\ DOMAIN art' = DOMAIN NoArtifact
      /\ art'.runs = Runs /\ art'.keys = Keys
      /\ art'.logs = [l \in DOMAIN Logs |-> PresentedLog(l)]
  BY DEF Present, NoArtifact
<1>3. DOMAIN Logs = 1..Len(Logs) /\ Len(Logs) \in Nat
  BY LogsAssumption
<1>4. ASSUME NEW l \in DOMAIN Logs
      PROVE  /\ DOMAIN PresentedLog(l) = {"id", "run", "key", "records"}
             /\ IsSeq(PresentedLog(l).records)
             /\ DOMAIN PresentedLog(l).records = DOMAIN written[l]
             /\ \A i \in DOMAIN written[l] :
                   PresentedLog(l).records[i] = Signed(written[l][i], Key(l))
  <2> DEFINE r == [i \in DOMAIN written[l] |-> Signed(written[l][i], Key(l))]
  <2>1. IsSeq(written[l])
    BY <1>4 DEF IndInv, TypeOK
  <2>2. r = [i \in DOMAIN written[l] |-> r[i]]
    OBVIOUS
  <2>3. PresentedLog(l).records = r
    BY DEF PresentedLog
  <2>4. \A i \in DOMAIN written[l] : r[i] = Signed(written[l][i], Key(l))
    OBVIOUS
  <2>5. DOMAIN PresentedLog(l) = {"id", "run", "key", "records"}
    BY DEF PresentedLog
  <2> HIDE DEF r
  <2>6. IsSeq(r) /\ DOMAIN r = DOMAIN written[l]
    BY <2>1, <2>2, MapIsSeq
  <2> QED BY <2>3, <2>4, <2>5, <2>6
<1>5. \A p, k : /\ DOMAIN Signed(p, k) = {"parsed", "raw", "signer"}
                /\ Signed(p, k).raw = p /\ Signed(p, k).signer = k
  BY DEF Signed
<1>6. TypeOK'
  <2>1. DOMAIN art'.logs \subseteq 1..(Len(Logs) + 1)
    BY <1>2, <1>3
  <2>2. \A l \in DOMAIN art'.logs :
          /\ DOMAIN art'.logs[l] = {"id", "run", "key", "records"}
          /\ IsSeq(art'.logs[l].records)
          /\ \A i \in DOMAIN art'.logs[l].records :
                DOMAIN art'.logs[l].records[i] =
                    {"parsed", "raw", "signer"}
    BY <1>2, <1>4, <1>5
  <2>3. keys \subseteq Keys
    BY KeysAssumption
  <2> QED BY <1>1, <1>2, <2>1, <2>2, <2>3 DEF IndInv, TypeOK
<1>7. Unforged'
  BY <1>1, <1>2, <1>4, <1>5 DEF Unforged, Genuine
<1>8. ChainsOK' /\ PhasesOK'
  BY <1>1 DEF IndInv, ChainsOK, PhasesOK
<1> QED BY <1>6, <1>7, <1>8 DEF IndInv
-----------------------------------------------------------------------------
(***************************************************************************)
(* Editing preserves the invariant.                                        *)
(***************************************************************************)
RecordOK(rec) ==
    /\ DOMAIN rec = {"parsed", "raw", "signer"}
    /\ Genuine(rec)
RecordsOK(records) == IsSeq(records) /\ \A i \in DOMAIN records : RecordOK(records[i])
LogOK(log) ==
    DOMAIN log = {"id", "run", "key", "records"} /\ RecordsOK(log.records)

\* The part of the invariant an edit can disturb.
LEMMA ArtifactFacts ==
    ASSUME IndInv
    PROVE  /\ DOMAIN art = DOMAIN NoArtifact
           /\ art.runs \subseteq Runs /\ art.keys \subseteq Keys
           /\ DOMAIN art.logs \subseteq 1..(Len(Logs) + 1)
           /\ \A l \in DOMAIN art.logs : LogOK(art.logs[l])
BY DEF IndInv, TypeOK, Unforged, LogOK, RecordsOK, RecordOK

\* It is enough that the new artifact has the shape and that its records are
\* genuine.
LEMMA EditInv ==
    ASSUME IndInv, Presenting, edits < MaxEdits, NEW new, Edit(new),
           DOMAIN new = DOMAIN NoArtifact, new.runs \subseteq Runs, new.keys \subseteq Keys,
           DOMAIN new.logs \subseteq 1..(Len(Logs) + 1),
           \A l \in DOMAIN new.logs : LogOK(new.logs[l])
    PROVE  IndInv'
<1>1. /\ art' = new /\ edits' = edits + 1 /\ phase = "presenting"
      /\ UNCHANGED <<phase, clock, written, tree, issued, leaked, report>>
  BY DEF Edit, Presenting, recording
<1>2. edits' \in 0..MaxEdits
  BY <1>1, BoundsAssumption DEF IndInv, TypeOK
<1>3. TypeOK'
  BY <1>1, <1>2 DEF IndInv, TypeOK, LogOK, RecordsOK, RecordOK
<1>4. Unforged'
  BY <1>1 DEF Unforged, Genuine, LogOK, RecordsOK, RecordOK
<1>5. ChainsOK' /\ PhasesOK'
  BY <1>1 DEF IndInv, ChainsOK, PhasesOK
<1> QED BY <1>3, <1>4, <1>5 DEF IndInv

\* An edit of one log's records.
LEMMA EditRecordsInv ==
    ASSUME IndInv, Presenting, edits < MaxEdits, NEW l \in DOMAIN art.logs,
           NEW records, RecordsOK(records), EditRecords(l, records)
    PROVE  IndInv'
<1> DEFINE new == [art EXCEPT !.logs[l].records = records]
<1>1. DOMAIN art = DOMAIN NoArtifact /\ \A k \in DOMAIN art.logs : LogOK(art.logs[k])
  BY ArtifactFacts
<1>2. {"runs", "keys", "logs"} \subseteq DOMAIN art
  BY <1>1 DEF NoArtifact
<1>3. /\ DOMAIN new = DOMAIN art /\ new.runs = art.runs /\ new.keys = art.keys
      /\ new.logs = [art.logs EXCEPT ![l].records = records]
  BY <1>2
<1>4. LogOK(art.logs[l])
  BY <1>1
<1>5. \A k \in DOMAIN new.logs : LogOK(new.logs[k])
  BY <1>1, <1>3, <1>4 DEF LogOK
<1>6. Edit(new) /\ DOMAIN new.logs = DOMAIN art.logs
  BY <1>3 DEF EditRecords
<1> HIDE DEF new
<1> QED BY <1>1, <1>3, <1>5, <1>6, ArtifactFacts, EditInv

\* An edit that leaves the logs, the runs and the keys alone.
LEMMA EditElsewhereInv ==
    ASSUME IndInv, Presenting, edits < MaxEdits, NEW new, Edit(new),
           DOMAIN new = DOMAIN art, new.logs = art.logs,
           new.runs = art.runs, new.keys = art.keys
    PROVE  IndInv'
BY ArtifactFacts, EditInv

\* The records of the presented logs, and of the recorders, are genuine.
LEMMA PresentedRecords ==
    ASSUME IndInv, NEW l \in DOMAIN art.logs
    PROVE  /\ RecordsOK(Records(l)) /\ IsSeq(Records(l))
           /\ DOMAIN Records(l) = 1..Len(Records(l)) /\ Len(Records(l)) \in Nat
           /\ \A rec \in Range(Records(l)) : RecordOK(rec)
<1>1. RecordsOK(Records(l))
  BY ArtifactFacts DEF LogOK, Records
<1>2. \A rec \in Range(Records(l)) : RecordOK(rec)
  BY <1>1 DEF RecordsOK, Range
<1> QED BY <1>1, <1>2 DEF RecordsOK, IsSeq

\* What Signed puts into a record.
LEMMA SignedFields ==
    ASSUME NEW payload, NEW key
    PROVE  /\ DOMAIN Signed(payload, key) =
                  {"parsed", "raw", "signer"}
           /\ Signed(payload, key).raw = payload
           /\ Signed(payload, key).signer = key
           /\ Signed(payload, key).parsed
BY DEF Signed

\* A signed payload is a genuine record if its key is leaked, or its holder
\* wrote the payload.
LEMMA SignedOK ==
    /\ \A payload : \A key \in leaked : RecordOK(Signed(payload, key))
    /\ \A k \in DOMAIN Logs : \A j \in DOMAIN written[k] :
          RecordOK(Signed(written[k][j], Key(k)))
BY SignedFields DEF RecordOK, Genuine

\* A sequence whose elements are genuine records.
LEMMA RangeOK ==
    ASSUME NEW s, IsSeq(s), \A rec \in Range(s) : RecordOK(rec)
    PROVE  RecordsOK(s)
BY DEF RecordsOK, Range

\* Tampering with records without a key: what carries a sound signature
\* afterwards carried it before, or was written by a recorder.
LEMMA EditRecordStepInv ==
    ASSUME IndInv, Presenting, edits < MaxEdits, EditRecordStep
    PROVE  IndInv'
<1>1. PICK l \in DOMAIN Logs \cap DOMAIN art.logs :
        \/ \E i \in DOMAIN Records(l) :
              \/ DropRecord(l, i)
              \/ TransposeRecords(l, i)
              \/ FlipByte(l, i)
              \/ GarbleLine(l, i)
        \/ \E i \in 1..(Len(Records(l)) + 1), k \in DOMAIN Logs :
              \E j \in DOMAIN written[k] : SpliceRecord(l, i, k, j)
  BY DEF EditRecordStep
<1> DEFINE s == Records(l)
<1>2. /\ RecordsOK(s) /\ IsSeq(s) /\ \A rec \in Range(s) : RecordOK(rec)
      /\ DOMAIN s = 1..Len(s) /\ Len(s) \in Nat
  BY PresentedRecords
<1>3. ASSUME NEW i \in DOMAIN s, DropRecord(l, i)
      PROVE  IndInv'
  <2>1. IsSeq(Remove(s, i)) /\ Range(Remove(s, i)) \subseteq Range(s)
    BY <1>2, <1>3, RemoveIsSeq
  <2>2. RecordsOK(Remove(s, i))
    BY <2>1, <1>2, RangeOK
  <2> QED BY <1>3, <2>2, EditRecordsInv DEF DropRecord
<1>4. ASSUME NEW i \in DOMAIN s, TransposeRecords(l, i)
      PROVE  IndInv'
  <2> DEFINE r == [s EXCEPT ![i] = s[i + 1], ![i + 1] = s[i]]
  <2>1. i + 1 \in DOMAIN s
    BY <1>2, <1>4 DEF TransposeRecords
  <2>2. r = [k \in DOMAIN s |-> r[k]] /\ \A k \in DOMAIN s : r[k] \in Range(s)
    BY <2>1 DEF Range
  <2>3. EditRecords(l, r)
    BY <1>4 DEF TransposeRecords
  <2> HIDE DEF r
  <2>4. IsSeq(r) /\ DOMAIN r = DOMAIN s
    BY <2>2, <1>2, MapIsSeq
  <2>5. RecordsOK(r)
    BY <2>2, <2>4, <1>2 DEF RecordsOK
  <2> QED BY <2>3, <2>5, EditRecordsInv
<1>5. ASSUME NEW i \in DOMAIN s, FlipByte(l, i)
      PROVE  IndInv'
  <2> DEFINE r == [s EXCEPT ![i].raw.ts = s[i].raw.ts + 1, ![i].signer = NoKey]
  <2>1. EditRecords(l, r)
    BY <1>5 DEF FlipByte
  <2>2. RecordOK(s[i])
    BY <1>2, <1>5 DEF RecordsOK
  <2>3. /\ r = [k \in DOMAIN s |-> r[k]]
        /\ \A k \in DOMAIN s : k # i => r[k] = s[k]
    OBVIOUS
  <2>4. DOMAIN r[i] = DOMAIN s[i] /\ r[i].signer = NoKey
    BY <1>5, <2>2 DEF RecordOK
  <2> HIDE DEF r
  <2>5. IsSeq(r) /\ DOMAIN r = DOMAIN s
    BY <2>3, <1>2, MapIsSeq
  <2>6. RecordsOK(r)
    BY <2>2, <2>3, <2>4, <2>5, <1>2 DEF RecordsOK, RecordOK, Genuine
  <2> QED BY <2>1, <2>6, EditRecordsInv
<1>6. ASSUME NEW i \in DOMAIN s, GarbleLine(l, i)
      PROVE  IndInv'
  <2> DEFINE r == [s EXCEPT ![i].parsed = FALSE]
  <2>1. EditRecords(l, r)
    BY <1>6 DEF GarbleLine
  <2>2. RecordOK(s[i])
    BY <1>2, <1>6 DEF RecordsOK
  <2>3. /\ r = [k \in DOMAIN s |-> r[k]]
        /\ \A k \in DOMAIN s : k # i => r[k] = s[k]
    OBVIOUS
  <2>4. /\ DOMAIN r[i] = DOMAIN s[i]
        /\ r[i].signer = s[i].signer /\ r[i].raw = s[i].raw
    BY <1>6, <2>2 DEF RecordOK
  <2> HIDE DEF r
  <2>5. IsSeq(r) /\ DOMAIN r = DOMAIN s
    BY <2>3, <1>2, MapIsSeq
  <2>6. RecordsOK(r)
    BY <2>2, <2>3, <2>4, <2>5, <1>2 DEF RecordsOK, RecordOK, Genuine
  <2> QED BY <2>1, <2>6, EditRecordsInv
<1>7. ASSUME NEW i \in 1..(Len(s) + 1), NEW k \in DOMAIN Logs,
             NEW j \in DOMAIN written[k], SpliceRecord(l, i, k, j)
      PROVE  IndInv'
  <2> DEFINE x == Signed(written[k][j], Key(k))
  <2>1. RecordOK(x) /\ EditRecords(l, InsertAt(s, i, x))
    BY <1>7, SignedOK DEF SpliceRecord
  <2> HIDE DEF x
  <2>2. IsSeq(InsertAt(s, i, x)) /\ Range(InsertAt(s, i, x)) \subseteq Range(s) \cup {x}
    BY <1>2, <1>7, InsertIsSeq
  <2>3. RecordsOK(InsertAt(s, i, x))
    BY <2>1, <2>2, <1>2, RangeOK
  <2> QED BY <2>1, <2>3, EditRecordsInv
<1> QED BY <1>1, <1>3, <1>4, <1>5, <1>6, <1>7

\* Records signed with a leaked key claim no sound signature.
LEMMA ForgeRecordStepInv ==
    ASSUME IndInv, Presenting, edits < MaxEdits, ForgeRecordStep
    PROVE  IndInv'
<1>1. PICK l \in DOMAIN Logs \cap DOMAIN art.logs, key \in leaked :
        \/ ForgeNext(l, key, "close", NoEvent, "valid")
        \/ \E event \in Events, form \in BodyForms :
              ForgeNext(l, key, "activity", event, form)
        \/ \E i \in DOMAIN written[l] :
              \/ ResignWithout(l, key, i)
              \/ \E event \in Events : ResignInstead(l, key, i, event)
  BY DEF ForgeRecordStep
<1>2. ASSUME NEW type, NEW event, NEW form, ForgeNext(l, key, type, event, form)
      PROVE  IndInv'
  <2>1. PICK payload : EditRecords(l, Append(Records(l), Signed(payload, key)))
    BY <1>2 DEF ForgeNext
  <2> DEFINE x == Signed(payload, key)
  <2>2. RecordOK(x)
    BY SignedOK
  <2>3. EditRecords(l, Append(Records(l), x))
    BY <2>1
  <2> HIDE DEF x
  <2>4. RecordsOK(Append(Records(l), x))
    <3>1. /\ RecordsOK(Records(l)) /\ IsSeq(Records(l))
          /\ DOMAIN Records(l) = 1..Len(Records(l)) /\ Len(Records(l)) \in Nat
      BY PresentedRecords
    <3>2. /\ IsSeq(Append(Records(l), x))
          /\ DOMAIN Append(Records(l), x) = 1..(Len(Records(l)) + 1)
          /\ \A i \in 1..Len(Records(l)) : Append(Records(l), x)[i] = Records(l)[i]
          /\ Append(Records(l), x)[Len(Records(l)) + 1] = x
      BY <3>1, AppendIsSeq
    <3>3. ASSUME NEW i \in 1..(Len(Records(l)) + 1)
          PROVE  RecordOK(Append(Records(l), x)[i])
      <4>1. i \in 1..Len(Records(l)) \/ i = Len(Records(l)) + 1
        BY <3>1
      <4> QED BY <4>1, <2>2, <3>1, <3>2 DEF RecordsOK
    <3> QED BY <3>2, <3>3 DEF RecordsOK
  <2> QED BY <2>3, <2>4, EditRecordsInv
<1>3. ASSUME NEW plan, IsSeq(plan), Resign(l, key, plan)
      PROVE  IndInv'
  <2> DEFINE r == buildRecords(plan, art.logs[l].id, art.logs[l].run, key)
         chain == buildChain(plan, art.logs[l].id, art.logs[l].run, key)
  <2>1. r = [i \in DOMAIN plan |-> Signed(chain[i], key)]
    BY DEF buildRecords
  <2>2. EditRecords(l, r)
    BY <1>3 DEF Resign
  <2> HIDE DEF r, chain
  <2>3. r = [i \in DOMAIN plan |-> r[i]] /\ \A i \in DOMAIN plan : r[i] = Signed(chain[i], key)
    BY <2>1
  <2>4. IsSeq(r) /\ DOMAIN r = DOMAIN plan
    BY <2>3, <1>3, MapIsSeq
  <2>5. RecordsOK(r)
    BY <2>3, <2>4, SignedOK DEF RecordsOK
  <2> QED BY <2>2, <2>5, EditRecordsInv
<1>4. IsSeq(written[l])
  BY DEF IndInv, TypeOK
<1>5. ASSUME NEW i \in DOMAIN written[l], ResignWithout(l, key, i)
      PROVE  IndInv'
  BY <1>3, <1>4, <1>5, RemoveIsSeq DEF ResignWithout
<1>6. ASSUME NEW i \in DOMAIN written[l], NEW event, ResignInstead(l, key, i, event)
      PROVE  IndInv'
  <2> DEFINE plan == [written[l] EXCEPT ![i].type = "activity", ![i].event = event]
  <2>1. plan = [k \in DOMAIN written[l] |-> plan[k]]
    OBVIOUS
  <2>2. Resign(l, key, plan)
    BY <1>6 DEF ResignInstead
  <2> HIDE DEF plan
  <2>3. IsSeq(plan)
    BY <2>1, <1>4, MapIsSeq
  <2> QED BY <2>2, <2>3, <1>3
<1> QED BY <1>1, <1>2, <1>5, <1>6

\* The manifest rearranges logs and changes what is declared of them, never
\* their records.
LEMMA EditManifestStepInv ==
    ASSUME IndInv, Presenting, edits < MaxEdits, EditManifestStep
    PROVE  IndInv'
<1>1. /\ DOMAIN art = DOMAIN NoArtifact /\ art.runs \subseteq Runs
      /\ art.keys \subseteq Keys /\ DOMAIN art.logs \subseteq 1..(Len(Logs) + 1)
      /\ \A l \in DOMAIN art.logs : LogOK(art.logs[l])
  BY ArtifactFacts
<1>2. {"runs", "keys", "logs", "correspondence", "anchor", "counterparty"} \subseteq DOMAIN art
  BY <1>1 DEF NoArtifact
<1>3. ASSUME NEW l \in DOMAIN art.logs, OmitLog(l)
      PROVE  IndInv'
  <2> DEFINE new == [art EXCEPT !.logs = Restrict(art.logs, DOMAIN art.logs \ {l})]
  <2>1. /\ DOMAIN new = DOMAIN art /\ new.runs = art.runs /\ new.keys = art.keys
        /\ new.logs = Restrict(art.logs, DOMAIN art.logs \ {l})
    BY <1>2
  <2>2. Edit(new)
    BY <1>3 DEF OmitLog
  <2> HIDE DEF new
  <2>3. DOMAIN new.logs \subseteq DOMAIN art.logs /\ \A k \in DOMAIN new.logs : LogOK(new.logs[k])
    BY <1>1, <2>1 DEF Restrict
  <2> QED BY <1>1, <2>1, <2>2, <2>3, EditInv
<1>4. ASSUME NEW l \in DOMAIN art.logs, ListTwice(l)
      PROVE  IndInv'
  <2> DEFINE two == [k \in DOMAIN art.logs \cup {Len(Logs) + 1} |->
                        IF k \in DOMAIN art.logs THEN art.logs[k] ELSE art.logs[l]]
             new == [art EXCEPT !.logs = two]
  <2>1. Edit(new)
    BY <1>4 DEF ListTwice
  <2>2. \A k \in DOMAIN two : LogOK(two[k])
    BY <1>1, <1>4
  <2>3. DOMAIN two \subseteq 1..(Len(Logs) + 1)
    BY <1>1, LogsAssumption
  <2> HIDE DEF two
  <2>4. /\ DOMAIN new = DOMAIN art /\ new.runs = art.runs /\ new.keys = art.keys
        /\ new.logs = two
    BY <1>2
  <2> HIDE DEF new
  <2> QED BY <1>1, <2>1, <2>2, <2>3, <2>4, EditInv
<1>5. ASSUME NEW l \in DOMAIN art.logs, NEW x, RelabelLog(l, x) \/ RelabelRun(l, x) \/ DeclareKey(l, x)
      PROVE  IndInv'
  <2>1. PICK f \in {"id", "run", "key"} : Edit([art EXCEPT !.logs[l][f] = x])
    BY <1>5 DEF RelabelLog, RelabelRun, DeclareKey
  <2> DEFINE new == [art EXCEPT !.logs[l][f] = x]
  <2>2. /\ DOMAIN new = DOMAIN art /\ new.runs = art.runs /\ new.keys = art.keys
        /\ new.logs = [art.logs EXCEPT ![l][f] = x]
    BY <1>2
  <2>3. Edit(new)
    BY <2>1
  <2> HIDE DEF new
  <2>4. LogOK(art.logs[l])
    BY <1>1, <1>5
  <2>5. DOMAIN new.logs = DOMAIN art.logs /\ \A k \in DOMAIN new.logs : LogOK(new.logs[k])
    BY <1>1, <2>2, <2>4 DEF LogOK
  <2> QED BY <1>1, <2>2, <2>3, <2>5, EditInv
<1>6. ASSUME NEW run, OmitRun(run)
      PROVE  IndInv'
  <2> DEFINE new == [art EXCEPT !.runs = art.runs \ {run}]
  <2>1. /\ DOMAIN new = DOMAIN art /\ new.runs = art.runs \ {run}
        /\ new.keys = art.keys /\ new.logs = art.logs
    BY <1>2
  <2>2. Edit(new)
    BY <1>6 DEF OmitRun
  <2> HIDE DEF new
  <2> QED BY <1>1, <2>1, <2>2, EditInv
<1>7. ASSUME NEW class, NarrowCorrespondence(class)
      PROVE  IndInv'
  <2> DEFINE new == [art EXCEPT !.correspondence = <<art.correspondence[1] \ {class}>>]
  <2>1. /\ DOMAIN new = DOMAIN art /\ new.runs = art.runs
        /\ new.keys = art.keys /\ new.logs = art.logs
    BY <1>2
  <2>2. Edit(new)
    BY <1>7 DEF NarrowCorrespondence
  <2> HIDE DEF new
  <2> QED BY <2>1, <2>2, EditElsewhereInv
<1>8. ASSUME NEW key, DeclareLogKey(key)
      PROVE  IndInv'
  <2> DEFINE new == [art EXCEPT !.anchor = <<[logKey |-> key]>>]
  <2>1. /\ DOMAIN new = DOMAIN art /\ new.runs = art.runs
        /\ new.keys = art.keys /\ new.logs = art.logs
    BY <1>2
  <2>2. Edit(new)
    BY <1>8 DEF DeclareLogKey
  <2> HIDE DEF new
  <2> QED BY <2>1, <2>2, EditElsewhereInv
<1>9. ASSUME NEW key, DeclareCounterpartyKey(key)
      PROVE  IndInv'
  <2> DEFINE new == [art EXCEPT !.counterparty[1].key = key]
  <2>1. /\ DOMAIN new = DOMAIN art /\ new.runs = art.runs
        /\ new.keys = art.keys /\ new.logs = art.logs
    BY <1>2
  <2>2. Edit(new)
    BY <1>9 DEF DeclareCounterpartyKey
  <2> HIDE DEF new
  <2> QED BY <2>1, <2>2, EditElsewhereInv
<1> QED
  BY <1>3, <1>4, <1>5, <1>6, <1>7, <1>8, <1>9 DEF EditManifestStep

\* Fewer keys are published, all of them known ones.
LEMMA EditKeysStepInv ==
    ASSUME IndInv, Presenting, edits < MaxEdits, EditKeysStep
    PROVE  IndInv'
<1>1. PICK key : WithholdKey(key)
  BY DEF EditKeysStep
<1> DEFINE new == [art EXCEPT !.keys = art.keys \ {key}]
<1>2. {"runs", "keys", "logs"} \subseteq DOMAIN art
  BY ArtifactFacts DEF NoArtifact
<1>3. /\ DOMAIN new = DOMAIN art /\ new.runs = art.runs
      /\ new.keys = art.keys \ {key} /\ new.logs = art.logs
  BY <1>2
<1>4. Edit(new)
  BY <1>1 DEF WithholdKey
<1> HIDE DEF new
<1> QED BY <1>3, <1>4, ArtifactFacts, EditInv

\* anchors.json and counterparty.jsonl hold no records.
LEMMA EditElsewhereStepInv ==
    ASSUME IndInv, Presenting, edits < MaxEdits,
           EditAnchorStep \/ EditHeadStep \/ EditRawHeadStep \/ EditStatementStep
    PROVE  IndInv'
<1>1. {"runs", "keys", "logs", "anchor", "anchors", "anchorsErr", "counterparty",
       "statements"} \subseteq DOMAIN art
  BY ArtifactFacts DEF NoArtifact
<1>2. ASSUME NEW x, EditAnchors(x)
      PROVE  IndInv'
  <2> DEFINE new == [art EXCEPT !.anchors = <<x>>]
  <2>1. /\ DOMAIN new = DOMAIN art /\ new.runs = art.runs
        /\ new.keys = art.keys /\ new.logs = art.logs
    BY <1>1
  <2>2. Edit(new)
    BY <1>2 DEF EditAnchors
  <2> HIDE DEF new
  <2> QED BY <2>1, <2>2, EditElsewhereInv
<1>3. ASSUME NEW x, EditStatements(x)
      PROVE  IndInv'
  <2> DEFINE new == [art EXCEPT !.statements = <<x>>]
  <2>1. /\ DOMAIN new = DOMAIN art /\ new.runs = art.runs
        /\ new.keys = art.keys /\ new.logs = art.logs
    BY <1>1
  <2>2. Edit(new)
    BY <1>3 DEF EditStatements
  <2> HIDE DEF new
  <2> QED BY <2>1, <2>2, EditElsewhereInv
<1>4. ASSUME GarbleAnchors
      PROVE  IndInv'
  <2> DEFINE new == [art EXCEPT !.anchors = Nil, !.anchorsErr = TRUE]
  <2>1. /\ DOMAIN new = DOMAIN art /\ new.runs = art.runs
        /\ new.keys = art.keys /\ new.logs = art.logs
    BY <1>1
  <2>2. Edit(new)
    BY <1>4 DEF GarbleAnchors
  <2> HIDE DEF new
  <2> QED BY <2>1, <2>2, EditElsewhereInv
<1>5. ASSUME NEW key, NEW canonical, ForgeHead(key, canonical)
      PROVE  IndInv'
  <2> DEFINE x == [AnchorsOver(PresentedHeads, key) EXCEPT !.canonical = canonical]
             new == [art EXCEPT !.anchor = <<[logKey |-> key]>>,
                                !.anchors = <<x>>, !.anchorsErr = FALSE]
  <2>1. Edit(new)
    BY <1>5 DEF ForgeHead
  <2> HIDE DEF x
  <2>2. /\ DOMAIN new = DOMAIN art /\ new.runs = art.runs
        /\ new.keys = art.keys /\ new.logs = art.logs
    BY <1>1
  <2> HIDE DEF new
  <2> QED BY <2>1, <2>2, EditElsewhereInv
<1>6. ASSUME RemoveStatements
      PROVE  IndInv'
  <2> DEFINE new == [art EXCEPT !.statements = Nil]
  <2>1. /\ DOMAIN new = DOMAIN art /\ new.runs = art.runs
        /\ new.keys = art.keys /\ new.logs = art.logs
    BY <1>1
  <2>2. Edit(new)
    BY <1>6 DEF RemoveStatements
  <2> HIDE DEF new
  <2> QED BY <2>1, <2>2, EditElsewhereInv
<1>7. ASSUME NEW key, NEW session, NEW event, ForgeStatement(key, session, event)
      PROVE  IndInv'
  <2> DEFINE x == Append(Statements(art),
                         Signed(Statement(session, event.class, event.id, "valid"), key))
             new == [art EXCEPT !.counterparty[1].key = key, !.statements = <<x>>]
  <2>1. Edit(new)
    BY <1>7 DEF ForgeStatement
  <2> HIDE DEF x
  <2>2. /\ DOMAIN new = DOMAIN art /\ new.runs = art.runs
        /\ new.keys = art.keys /\ new.logs = art.logs
    BY <1>1
  <2> HIDE DEF new
  <2> QED BY <2>1, <2>2, EditElsewhereInv
<1>8. CASE EditAnchorStep
  <2>1. ASSUME NEW e, DropEntry(e) \/ CorruptProof(e) PROVE IndInv'
    BY <1>2, <2>1 DEF DropEntry, CorruptProof
  <2>2. ASSUME NEW e, NEW seq, RelabelEntry(e, seq) PROVE IndInv'
    BY <1>2, <2>2 DEF RelabelEntry
  <2>3. ASSUME NEW leaves, ClaimRoot(leaves) PROVE IndInv'
    BY <1>2, <2>3 DEF ClaimRoot
  <2>4. ASSUME ExtendAnchors PROVE IndInv'
    BY <1>2, <2>4 DEF ExtendAnchors
  <2> QED BY <1>4, <1>8, <2>1, <2>2, <2>3, <2>4 DEF EditAnchorStep
<1>9. CASE EditStatementStep
  <2>1. ASSUME NEW s, DropStatement(s) PROVE IndInv'
    BY <1>3, <2>1 DEF DropStatement
  <2>2. ASSUME NEW s, NEW session, AlterStatement(s, session) PROVE IndInv'
    BY <1>3, <2>2 DEF AlterStatement
  <2> QED BY <1>6, <1>7, <1>9, <2>1, <2>2 DEF EditStatementStep
<1>10. CASE EditHeadStep \/ EditRawHeadStep
  BY <1>5, <1>10 DEF EditHeadStep, EditRawHeadStep
<1> QED BY <1>8, <1>9, <1>10
-----------------------------------------------------------------------------
(***************************************************************************)
(* The invariant and the theorems.                                         *)
(***************************************************************************)
\* Checking only writes the report.
LEMMA CheckInv ==
    ASSUME IndInv, Check
    PROVE  IndInv'
<1>1. /\ phase' = "checked" /\ report' = Evaluate(art)
      /\ UNCHANGED <<clock, written, tree, issued, leaked, art, edits>>
  BY DEF Check, recording
<1>2. TypeOK'
  BY <1>1 DEF IndInv, TypeOK
<1>3. ChainsOK' /\ Unforged'
  BY <1>1 DEF IndInv, ChainsOK, Unforged, Genuine
<1>4. PhasesOK'
  BY <1>1 DEF PhasesOK
<1> QED BY <1>2, <1>3, <1>4 DEF IndInv

\* Every recording step, by the lemma about it.
LEMMA RecordingStepInv ==
    ASSUME IndInv, RecordingStep
    PROVE  IndInv'
<1>1. ASSUME NEW l \in DOMAIN Logs, NEW type, NEW event, NEW form, Write(l, type, event, form),
             written[l] = << >> \/ IsOpen(l)
      PROVE  IndInv'
  BY <1>1, WriteInv
<1>2. CASE \E l \in DOMAIN Logs : \/ WriteOpen(l)
                                  \/ \E event \in Events, form \in BodyForms :
                                        WriteActivity(l, event, form)
                                  \/ WriteHeartbeat(l)
                                  \/ WriteClose(l)
  BY <1>1, <1>2 DEF WriteOpen, WriteActivity, WriteHeartbeat, WriteClose
<1>3. CASE Tick \/ \E l \in DOMAIN Logs : Register(l)
  BY <1>3, OtherRecordingInv
<1>4. ASSUME NEW session, NEW flow, NEW id, NEW form, Confirm(session, flow, id, form)
      PROVE  IndInv'
  BY <1>4, OtherRecordingInv
<1>5. CASE \E session \in Sessions :
              \/ \E event \in Events, form \in BodyForms :
                    ConfirmReceived(session, event, form)
              \/ \E flow \in Flows : ConfirmNone(session, flow)
  BY <1>4, <1>5 DEF ConfirmReceived, ConfirmNone
<1>6. CASE \E size \in 0..MaxLeaves, keys \in CanLeak : Present(size, keys)
  BY <1>6, PresentInv
<1> QED BY <1>2, <1>3, <1>5, <1>6 DEF RecordingStep

\* The invariant holds in every reachable state, for any recorders, runs,
\* keys, leaks and bounds, and under every edit of the artifact.
THEOREM Invariance == Spec => []IndInv
<1>1. Init => IndInv
  BY InitInv
<1>2. IndInv /\ [Next]_vars => IndInv'
  <2> SUFFICES ASSUME IndInv, [Next]_vars PROVE IndInv'
    OBVIOUS
  <2>1. CASE RecordingStep
    BY <2>1, RecordingStepInv
  <2>2. CASE Editing("records") /\ EditRecordStep
    BY <2>2, EditRecordStepInv DEF Editing
  <2>3. CASE Editing("forgery") /\ ForgeRecordStep
    BY <2>3, ForgeRecordStepInv DEF Editing
  <2>4. CASE Editing("manifest") /\ EditManifestStep
    BY <2>4, EditManifestStepInv DEF Editing
  <2>5. CASE Editing("keys") /\ EditKeysStep
    BY <2>5, EditKeysStepInv DEF Editing
  <2>6. CASE Editing("anchors") /\ EditAnchorStep
    BY <2>6, EditElsewhereStepInv DEF Editing
  <2>7. CASE Editing("statements") /\ EditStatementStep
    BY <2>7, EditElsewhereStepInv DEF Editing
  <2>8. CASE Editing("heads") /\ EditHeadStep
    BY <2>8, EditElsewhereStepInv DEF Editing
  <2>11. CASE Editing("anchors") /\ EditRawHeadStep
    BY <2>11, EditElsewhereStepInv DEF Editing
  <2>9. CASE Check
    BY <2>9, CheckInv
  <2>10. CASE UNCHANGED vars
    BY <2>10 DEF vars, IndInv, TypeOK, ChainsOK, Unforged, Genuine, PhasesOK
  <2> QED BY <2>1, <2>2, <2>3, <2>4, <2>5, <2>6, <2>7, <2>8, <2>9, <2>10, <2>11 DEF Next
<1> QED BY <1>1, <1>2, PTL DEF Spec

\* The type invariant of every reachable state.
THEOREM TypeCorrect == Spec => []TypeOK
<1>1. IndInv => TypeOK
  BY DEF IndInv
<1> QED BY <1>1, Invariance, PTL
-----------------------------------------------------------------------------
(***************************************************************************)
(* What the checks establish.                                              *)
(***************************************************************************)

\* A run's view holds the run's logs and all published keys.
LEMMA ForRunLogs ==
    ASSUME NEW A, NEW run, {"runs", "logs", "anchors", "keys"} \subseteq DOMAIN A,
           NEW l \in DOMAIN A.logs, A.logs[l].run = run
    PROVE  /\ ForRun(A, run).keys = A.keys
           /\ l \in DOMAIN ForRun(A, run).logs
           /\ ForRun(A, run).logs[l] = A.logs[l]
BY DEF ForRun, RestrictValues, Restrict

\* Checks a, d and e, which every grade needs, hold of each log of the run.
LEMMA GradedRun ==
    ASSUME IndInv, NEW run \in DOMAIN report, Checked(run, 0), NEW log \in LogsOf(run)
    PROVE  /\ SequenceOrderOK(log) /\ PredecessorLinksOK(log)
           /\ \A i \in DOMAIN log.records : SignatureOK(log.records[i], art.keys)
<1> DEFINE v == ForRun(art, run)
<1>1. report = Evaluate(art)
  <2>1. report # << >>
    <3>1. DOMAIN << >> = {}
      OBVIOUS
    <3> QED BY <3>1
  <2> QED BY <2>1 DEF IndInv, PhasesOK
<1>2. report[run] = evaluateRun(v)
  BY <1>1 DEF Evaluate
<1>3. report[run].grade = computeGrade(Checks(v))
  BY <1>2 DEF evaluateRun
<1>4. allPass(Checks(v), {"a", "b", "d", "e", "w"})
  BY <1>3 DEF computeGrade, Checked, Ungraded
<1>5. /\ checkSignatures(v) = Pass /\ checkSequenceOrder(v) = Pass
      /\ checkPredecessorLinks(v) = Pass
  <2>1. Checks(v).a = Pass /\ Checks(v).d = Pass /\ Checks(v).e = Pass
    BY <1>4 DEF allPass
  <2> QED BY <2>1 DEF Checks
<1>6. PICK l \in DOMAIN art.logs : log = art.logs[l] /\ art.logs[l].run = run
  BY DEF LogsOf
<1>7. v.keys = art.keys /\ l \in DOMAIN v.logs /\ v.logs[l] = log
  <2>1. {"runs", "logs", "anchors", "keys"} \subseteq DOMAIN art
    BY ArtifactFacts DEF NoArtifact
  <2> QED BY <2>1, <1>6, ForRunLogs
<1> HIDE DEF v
<1>8. SequenceOrderOK(log) /\ PredecessorLinksOK(log)
  BY <1>5, <1>7 DEF checkSequenceOrder, checkPredecessorLinks, Require, Pass, Fail, UV
<1>9. \A rec \in AllRecords(v) : SignatureOK(rec, v.keys)
  BY <1>5 DEF checkSignatures, Pass, Fail, UV
<1>10. \A i \in DOMAIN log.records : log.records[i] \in AllRecords(v)
  BY <1>7 DEF AllRecords
<1> QED BY <1>7, <1>8, <1>9, <1>10

\* The first n elements of s form a hash chain.
Chained(s, n) ==
    \A m \in 1..n : s[m].prev = IF m = 1 THEN zeroPrev ELSE Hash(s[m - 1])

\* Two hash chains that agree at one place agree at every earlier place, and
\* that place has the same number in both.
LEMMA ChainsAgree ==
    ASSUME NEW R, NEW n \in Nat, NEW W, NEW w \in Nat, Chained(R, n), Chained(W, w),
           NEW i \in 1..n, NEW j \in 1..w, R[i] = W[j]
    PROVE  i = j /\ \A m \in 1..i : R[m] = W[m]
<1> USE DEF Chained
<1> DEFINE Agree(d) == d < j /\ R[i - d] = W[j - d]
           T == {d \in Nat : d < i /\ ~Agree(d)}
<1>1. ASSUME NEW d \in Nat, d < i
      PROVE  Agree(d)
  <2>1. SUFFICES ASSUME T # {} PROVE FALSE
    BY <1>1
  <2>2. PICK c \in T : \A e \in T : c <= e
    BY <2>1, Least
  <2>3. c # 0
    <3>1. i - 0 = i /\ j - 0 = j /\ 0 < j
      OBVIOUS
    <3>2. Agree(0)
      BY <3>1
    <3> QED BY <3>2
  <2>4. c - 1 \in Nat /\ c - 1 < i /\ c - 1 \notin T
    BY <2>2, <2>3
  <2>5. Agree(c - 1)
    BY <2>4
  <2> DEFINE a == i - (c - 1)
             b == j - (c - 1)
  <2>6. /\ a \in 2..n /\ b \in 1..w /\ a - 1 = i - c /\ b - 1 = j - c
    BY <2>2, <2>3, <2>5
  <2>7. R[a].prev = Hash(R[i - c]) /\ W[b].prev = R[a].prev
    <3>1. R[a].prev = IF a = 1 THEN zeroPrev ELSE Hash(R[a - 1])
      BY <2>6
    <3>2. a # 1
      BY <2>6
    <3> QED BY <3>1, <3>2, <2>5, <2>6
  <2>8. W[b].prev = IF b = 1 THEN zeroPrev ELSE Hash(W[b - 1])
    BY <2>6
  <2>9. \A x, y : Hash(x) # zeroPrev /\ (Hash(x) = Hash(y) => x = y)
    BY DEF Hash, zeroPrev
  <2>10. b # 1 /\ R[i - c] = W[j - c]
    BY <2>6, <2>7, <2>8, <2>9
  <2>11. c < j
    BY <2>2, <2>6, <2>10
  <2> QED BY <2>2, <2>10, <2>11
<1>2. i - 1 \in Nat /\ i - 1 < i /\ i - (i - 1) = 1
  OBVIOUS
<1>3. i - 1 < j /\ R[1] = W[j - (i - 1)]
  BY <1>1, <1>2
<1>4. R[1].prev = zeroPrev
  OBVIOUS
<1>5. i = j
  <2>1. j - (i - 1) \in 1..w
    BY <1>3
  <2>2. \A x : Hash(x) # zeroPrev
    BY DEF Hash, zeroPrev
  <2>3. j - (i - 1) = 1
    BY <2>1, <2>2, <1>3, <1>4
  <2> QED BY <2>3
<1>6. ASSUME NEW m \in 1..i
      PROVE  R[m] = W[m]
  <2>1. i - m \in Nat /\ i - m < i /\ i - (i - m) = m /\ j - (i - m) = m
    BY <1>5
  <2> QED BY <1>1, <2>1
<1> QED BY <1>5, <1>6

\* The log a recorder and a run name is unique.
LEMMA RecordedLog ==
    ASSUME NEW log, NEW k \in DOMAIN Logs, Recorder(k) = log.id, RunOf(k) = log.run
    PROVE  Recorded(log) = written[k]
<1>1. Logs[k] = <<log.id, log.run>>
  BY LogsAssumption DEF Recorder, RunOf
<1>2. \A l \in DOMAIN Logs : Logs[l] = <<log.id, log.run>> => l = k
  BY <1>1, LogsAssumption
<1>3. (CHOOSE l \in DOMAIN Logs : Logs[l] = <<log.id, log.run>>) = k
  BY <1>1, <1>2
<1> QED BY <1>3 DEF Recorded

\* A record that some recorder wrote, in a log of a graded run, vouches for
\* everything before it.
LEMMA WrittenRecord ==
    ASSUME IndInv, NEW run \in DOMAIN report, Checked(run, 0), NEW log \in LogsOf(run),
           NEW i \in DOMAIN log.records, NEW k \in DOMAIN Logs,
           NEW j \in DOMAIN written[k], log.records[i].raw = written[k][j]
    PROVE  /\ Recorded(log) = written[k] /\ i = j
           /\ \A m \in 1..i : log.records[m].raw = written[k][m]
<1> DEFINE rec == log.records[i]
<1>1. SequenceOrderOK(log) /\ PredecessorLinksOK(log)
  BY GradedRun
<1>2. LogOK(log)
  BY ArtifactFacts DEF LogsOf
<1>3. DOMAIN log.records = 1..Len(log.records) /\ Len(log.records) \in Nat
  BY <1>2 DEF LogOK, RecordsOK, RecordOK, IsSeq
<1>4. rec.raw = written[k][j]
  OBVIOUS
<1>5. \A m \in DOMAIN written[k] : LinkOK(written[k], k, m)
  BY DEF IndInv, ChainsOK
<1>6. DOMAIN written[k] = 1..Len(written[k]) /\ Len(written[k]) \in Nat
  BY DEF IndInv, TypeOK, IsSeq
<1>7. Recorder(k) = log.id /\ RunOf(k) = log.run
  <2>1. rec.raw.recorder = log.id /\ rec.raw.run = log.run
    BY <1>1 DEF SequenceOrderOK
  <2>2. written[k][j].recorder = Recorder(k) /\ written[k][j].run = RunOf(k)
    BY <1>5 DEF LinkOK
  <2> QED BY <1>4, <2>1, <2>2
<1> DEFINE R == [m \in DOMAIN log.records |-> log.records[m].raw]
<1>8. \A m \in 1..Len(log.records) :
          R[m].prev = IF m = 1 THEN zeroPrev ELSE Hash(R[m - 1])
  <2> SUFFICES ASSUME NEW m \in 1..Len(log.records)
               PROVE  R[m].prev = IF m = 1 THEN zeroPrev ELSE Hash(R[m - 1])
    OBVIOUS
  <2>1. R[m] = log.records[m].raw
    BY <1>3
  <2>2. CASE m = 1
    BY <2>1, <2>2, <1>1, <1>3 DEF PredecessorLinksOK
  <2>3. CASE m # 1
    <3>1. m - 1 \in DOMAIN log.records
      BY <2>3, <1>3
    <3>2. /\ log.records[m].raw.prev = RecordHash(log.records[m - 1])
          /\ log.records[m - 1].parsed
      BY <2>3, <3>1, <1>1, <1>3 DEF PredecessorLinksOK
    <3> QED BY <2>1, <2>3, <3>1, <3>2 DEF RecordHash
  <2> QED BY <2>2, <2>3
<1>9. \A m \in 1..Len(written[k]) :
          written[k][m].prev = IF m = 1 THEN zeroPrev ELSE Hash(written[k][m - 1])
  BY <1>5, <1>6 DEF LinkOK
<1>10. R[i] = written[k][j]
  BY <1>4
<1>11. \A m \in DOMAIN log.records : R[m] = log.records[m].raw
  OBVIOUS
<1> HIDE DEF R
<1>12. i = j /\ \A m \in 1..i : R[m] = written[k][m]
  <2> DEFINE W == written[k]
             n == Len(log.records)
             w == Len(written[k])
  <2>1. n \in Nat /\ w \in Nat /\ i \in 1..n /\ j \in 1..w
    BY <1>3, <1>6
  <2>2. Chained(R, n) /\ Chained(W, w)
    BY <1>8, <1>9 DEF Chained
  <2>3. R[i] = W[j]
    BY <1>10
  <2> HIDE DEF W, n, w
  <2>4. i = j /\ \A m \in 1..i : R[m] = W[m]
    BY <2>1, <2>2, <2>3, ChainsAgree
  <2> QED BY <2>4 DEF W
<1>13. \A m \in 1..i : log.records[m].raw = written[k][m]
  <2>1. 1..i \subseteq DOMAIN log.records
    BY <1>3
  <2> QED BY <2>1, <1>11, <1>12
<1> QED BY <1>7, <1>12, <1>13, RecordedLog

\* So does a record with a sound key.
LEMMA SoundRecord ==
    ASSUME IndInv, NEW run \in DOMAIN report, Checked(run, 0), NEW log \in LogsOf(run),
           NEW i \in DOMAIN log.records, log.records[i].raw.key \notin leaked
    PROVE  \E k \in DOMAIN Logs :
               /\ Recorded(log) = written[k]
               /\ i \in DOMAIN written[k]
               /\ \A m \in 1..i : log.records[m].raw = written[k][m]
<1> DEFINE rec == log.records[i]
<1>1. \A m \in DOMAIN log.records : SignatureOK(log.records[m], art.keys)
  BY GradedRun
<1>2. Genuine(rec)
  <2>1. LogOK(log)
    BY ArtifactFacts DEF LogsOf
  <2> QED BY <2>1 DEF LogOK, RecordsOK, RecordOK
<1>3. rec.signer = rec.raw.key /\ rec.signer \notin leaked \cup {NoKey}
  BY <1>1, ArtifactFacts, KeysAssumption DEF SignatureOK
<1>4. PICK k \in DOMAIN Logs : \E j \in DOMAIN written[k] : rec.raw = written[k][j]
  BY <1>2, <1>3 DEF Genuine
<1>5. PICK j \in DOMAIN written[k] : rec.raw = written[k][j]
  BY <1>4
<1> QED BY <1>5, WrittenRecord

\* AEL-0 for any recorders, runs, edits and leaks: what a graded log shows up
\* to a record with a sound key is what its recorder wrote.
THEOREM AuthenticPrefixHolds == Spec => []AuthenticPrefix
<1>1. IndInv => AuthenticPrefix
  <2> SUFFICES ASSUME IndInv, NEW run \in DOMAIN report, Checked(run, 0),
                      NEW log \in LogsOf(run), NEW i \in DOMAIN log.records,
                      log.records[i].raw.key \notin leaked
               PROVE  /\ i <= Len(Recorded(log))
                      /\ \A j \in 1..i : log.records[j].raw = Recorded(log)[j]
    BY DEF AuthenticPrefix
  <2>1. PICK k \in DOMAIN Logs :
          /\ Recorded(log) = written[k]
          /\ i \in DOMAIN written[k]
          /\ \A m \in 1..i : log.records[m].raw = written[k][m]
    BY SoundRecord
  <2>2. DOMAIN written[k] = 1..Len(written[k]) /\ Len(written[k]) \in Nat
    BY DEF IndInv, TypeOK, IsSeq
  <2> QED BY <2>1, <2>2
<1> QED BY <1>1, Invariance, PTL

\* Check i, which AEL-1 needs on top of the AEL-0 checks.
LEMMA ClosedRun ==
    ASSUME IndInv, NEW run \in DOMAIN report, Checked(run, 1), NEW log \in LogsOf(run)
    PROVE  Checked(run, 0) /\ CloseCountOK(log)
<1> DEFINE v == ForRun(art, run)
<1>1. report = Evaluate(art)
  <2>1. report # << >>
    <3>1. DOMAIN << >> = {}
      OBVIOUS
    <3> QED BY <3>1
  <2> QED BY <2>1 DEF IndInv, PhasesOK
<1>2. report[run].grade = computeGrade(Checks(v))
  BY <1>1 DEF Evaluate, evaluateRun
<1>3. allPass(Checks(v), {"f", "g", "h", "i"}) /\ Checked(run, 0)
  BY <1>2 DEF computeGrade, Checked, Ungraded
<1>4. checkCloseCount(v) = Pass
  <2>1. Checks(v).i = Pass
    BY <1>3 DEF allPass
  <2> QED BY <2>1 DEF Checks
<1>5. PICK l \in DOMAIN art.logs : log = art.logs[l] /\ art.logs[l].run = run
  BY DEF LogsOf
<1>6. l \in DOMAIN v.logs /\ v.logs[l] = log
  <2>1. {"runs", "logs", "anchors", "keys"} \subseteq DOMAIN art
    BY ArtifactFacts DEF NoArtifact
  <2> QED BY <2>1, <1>5, ForRunLogs
<1> HIDE DEF v
<1>7. CloseCountOK(log)
  BY <1>4, <1>6 DEF checkCloseCount, Require, Pass, Fail
<1> QED BY <1>3, <1>7

\* A log of a run with AEL-1 whose last record some recorder wrote is the whole
\* log that recorder wrote.
LEMMA WrittenClose ==
    ASSUME IndInv, NEW run \in DOMAIN report, Checked(run, 1), NEW log \in LogsOf(run),
           NEW k \in DOMAIN Logs, NEW j \in DOMAIN written[k],
           log.records[Len(log.records)].raw = written[k][j]
    PROVE  Recorded(log) = written[k] /\ Payloads(log) = written[k]
<1> DEFINE n == Len(log.records)
<1>1. Checked(run, 0) /\ CloseCountOK(log) /\ PredecessorLinksOK(log)
  BY ClosedRun, GradedRun
<1>2. IsSeq(log.records)
  BY ArtifactFacts DEF LogsOf, LogOK, RecordsOK
<1>3. n \in Nat /\ n # 0 /\ DOMAIN log.records = 1..n
  BY <1>1, <1>2, EmptyIsSeq DEF IsSeq, CloseCountOK
<1>4. Payloads(log) = [i \in 1..n |-> log.records[i].raw]
  BY <1>3 DEF Payloads
<1>5. /\ Recorded(log) = written[k] /\ n = j
      /\ \A m \in 1..n : log.records[m].raw = written[k][m]
  BY <1>1, <1>3, WrittenRecord
<1>6. log.records[n].raw.type = "close"
  BY <1>1, <1>3, SMTT(30) DEF CloseCountOK, PredecessorLinksOK, Payload
<1>7. n = Len(written[k])
  <2>1. LinkOK(written[k], k, n)
    BY <1>5 DEF IndInv, ChainsOK
  <2> QED BY <2>1, <1>3, <1>5, <1>6 DEF LinkOK
<1>8. written[k] = [i \in 1..n |-> written[k][i]]
  BY <1>7 DEF IndInv, TypeOK, IsSeq
<1> QED BY <1>4, <1>5, <1>8

\* AEL-1 for any recorders, runs, edits and leaks: a log closed under a sound
\* key is the whole log.
THEOREM WholeRunHolds == Spec => []WholeRun
<1>1. IndInv => WholeRun
  <2> SUFFICES ASSUME IndInv, NEW run \in DOMAIN report, Checked(run, 1),
                      NEW log \in LogsOf(run), HonestClose(log)
               PROVE  Payloads(log) = Recorded(log)
    BY DEF WholeRun
  <2> DEFINE n == Len(log.records)
  <2>1. Checked(run, 0) /\ CloseCountOK(log)
    BY ClosedRun
  <2>2. IsSeq(log.records)
    BY ArtifactFacts DEF LogsOf, LogOK, RecordsOK
  <2>3. n \in Nat /\ n # 0 /\ DOMAIN log.records = 1..n
    BY <2>1, <2>2, EmptyIsSeq DEF IsSeq, CloseCountOK
  <2>4. Last(Payloads(log)) = log.records[n].raw
    <3>1. Payloads(log) = [i \in 1..n |-> log.records[i].raw]
      BY <2>3 DEF Payloads
    <3>2. Len(Payloads(log)) = n
      BY <2>2, <2>3, <3>1, FunctionIsSeq
    <3> QED BY <2>3, <3>1, <3>2 DEF Last
  <2>5. PICK k \in DOMAIN Logs :
          /\ n \in DOMAIN written[k]
          /\ \A m \in 1..n : log.records[m].raw = written[k][m]
    BY <2>1, <2>3, <2>4, SoundRecord DEF HonestClose
  <2>6. log.records[n].raw = written[k][n]
    BY <2>3, <2>5
  <2> QED BY <2>5, <2>6, WrittenClose
<1> QED BY <1>1, Invariance, PTL
=============================================================================
