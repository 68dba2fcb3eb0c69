----------------------------- MODULE AELChecks -----------------------------
(***************************************************************************)
(* The checks a to w of checker/internal/ael/checks.go, the grade they     *)
(* earn, and the exit status of cmd/aelcheck.  Each check is an operator   *)
(* on the view of one run and yields PASS, FAIL or UV.  A loop that        *)
(* returns on its first offending element is FirstOutcome over the         *)
(* per-element outcomes; where every offence is a FAIL it is a quantifier. *)
(*                                                                         *)
(* Timestamps are whole seconds and hmax + htol is far below the range of  *)
(* time.Duration.  Messages are left out.                                  *)
(***************************************************************************)
EXTENDS AELArtifact

Pass == "PASS"
Fail == "FAIL"
UV == "UV"
Outcome == {Pass, Fail, UV}

\* FAIL on an offence, PASS otherwise.
Require(ok) == IF ok THEN Pass ELSE Fail

\* The outcome of a loop that returns at the first element not passing.
FirstOutcome(outs) ==
    IF \A i \in DOMAIN outs : outs[i] = Pass THEN Pass
    ELSE IF \E i \in DOMAIN outs :
               /\ outs[i] = UV
               /\ \A j \in DOMAIN outs : j < i => outs[j] = Pass
         THEN UV
         ELSE Fail
-----------------------------------------------------------------------------
(***************************************************************************)
(* AEL-0: authentic and ordered.                                           *)
(***************************************************************************)
checkSignatures(art) ==
    LET records == AllRecords(art)
    IN  IF records = {} THEN Fail
        ELSE IF \E rec \in records : /\ ~SignatureUV(rec, art.keys)
                                     /\ ~SignatureOK(rec, art.keys)
             THEN Fail
        ELSE IF \E rec \in records : SignatureUV(rec, art.keys) THEN UV
        ELSE Pass

checkCanonicalPayloads(art) ==
    LET records == AllRecords(art)
    IN  IF \E rec \in records : /\ SignatureOK(rec, art.keys)
                                /\ ~CanonicalOK(rec, art.keys)
        THEN Fail
        ELSE IF \E rec \in records : ~SignatureOK(rec, art.keys) THEN UV
        ELSE Pass

\* Statements of every run are examined, not only those of the view's run.
checkClosedSchemas(art) ==
    LET records == AllRecords(art)
        stmts == {Statements(art)[s] : s \in DOMAIN Statements(art)}
        fp == IF art.counterparty = Nil THEN NoKey ELSE art.counterparty[1].key
    IN  IF \/ \E rec \in records : /\ CanonicalOK(rec, art.keys)
                                   /\ ~SchemaOK(rec, art.keys)
           \/ art.anchors # Nil /\ ~art.anchors[1].schema
           \/ \E stmt \in stmts : /\ StatementCanonicalOK(stmt, art.keys, fp)
                                  /\ ~StatementSchemaOK(stmt, art.keys, fp)
        THEN Fail
        ELSE IF \/ \E rec \in records : ~CanonicalOK(rec, art.keys)
                \/ \E stmt \in stmts : ~StatementCanonicalOK(stmt, art.keys, fp)
             THEN UV
        ELSE Pass

checkByteflipDuty(sig) == IF sig = Pass THEN UV ELSE sig

\* Mutant: records of another run are not noticed.
SequenceOrderAnyRun(log) ==
    /\ log.records # << >>
    /\ \A i \in DOMAIN log.records :
          LET rec == log.records[i]
          IN  /\ rec.parsed
              /\ rec.raw.v = 1
              /\ rec.raw.recorder = log.id
              /\ IF i = 1 THEN rec.raw.seq = 0
                 ELSE rec.raw.seq > log.records[i - 1].raw.seq

SequenceOrderOK(log) ==
    /\ log.records # << >>
    /\ \A i \in DOMAIN log.records :
          LET rec == log.records[i]
          IN  /\ rec.parsed
              /\ rec.raw.v = 1
              /\ rec.raw.recorder = log.id
              /\ rec.raw.run = log.run
              /\ IF i = 1 THEN rec.raw.seq = 0
                 ELSE rec.raw.seq > log.records[i - 1].raw.seq

checkSequenceOrder(art) ==
    IF DOMAIN art.logs = {} THEN UV
    ELSE Require(\A l \in DOMAIN art.logs : SequenceOrderOK(art.logs[l]))

\* Mutant: only the first link is checked.
PredecessorLinksFirst(log) ==
    /\ log.records # << >>
    /\ \A i \in DOMAIN log.records :
          log.records[i].parsed /\ (i = 1 => log.records[i].raw.prev = zeroPrev)

PredecessorLinksOK(log) ==
    /\ log.records # << >>
    /\ \A i \in DOMAIN log.records :
          /\ log.records[i].parsed
          /\ log.records[i].raw.prev =
                IF i = 1 THEN zeroPrev ELSE RecordHash(log.records[i - 1])

checkPredecessorLinks(art) ==
    IF DOMAIN art.logs = {} THEN UV
    ELSE Require(\A l \in DOMAIN art.logs : PredecessorLinksOK(art.logs[l]))
-----------------------------------------------------------------------------
(***************************************************************************)
(* AEL-1: gap- and truncation-evident within a run.                        *)
(***************************************************************************)
OpenOK(log) ==
    /\ log.records # << >>
    /\ LET open == Payload(log.records[1])
       IN  open.type = "open" /\ open.seq = 0 /\ open.hmax > 0

checkOpen(art) == Require(\A l \in DOMAIN art.logs : OpenOK(art.logs[l]))

ContiguousOK(log) ==
    \A i \in DOMAIN log.records :
        log.records[i].parsed /\ log.records[i].raw.seq = i - 1

checkContiguous(art) ==
    Require(\A l \in DOMAIN art.logs : ContiguousOK(art.logs[l]))

\* Mutants: the limit itself is already too long; one second more is allowed.
SpacingStrict(prevTS, curTS, limit) == curTS >= prevTS /\ curTS - prevTS < limit
SpacingLax(prevTS, curTS, limit) == curTS >= prevTS /\ curTS - prevTS <= limit + 1

\* Timestamps never go back and never lie further apart than the limit.
SpacingOK(prevTS, curTS, limit) == curTS >= prevTS /\ curTS - prevTS <= limit

checkHeartbeatLog(log) ==
    IF log.records = << >> THEN Fail
    ELSE LET open == Payload(log.records[1])
             TS(i) == Payload(log.records[i]).ts
         IN  Require(\/ open.hmax <= 0
                     \/ /\ \A i \in 2..Len(log.records) :
                              /\ log.records[i - 1].parsed /\ log.records[i].parsed
                              /\ SpacingOK(TS(i - 1), TS(i), open.hmax + open.htol)
                        /\ \E i \in 2..Len(log.records) :
                              Payload(log.records[i]).type = "heartbeat")

checkHeartbeat(art) ==
    Require(\A l \in DOMAIN art.logs : checkHeartbeatLog(art.logs[l]) = Pass)

CloseCountOK(log) ==
    /\ log.records # << >>
    /\ LET n == Len(log.records)
           close == Payload(log.records[n])
       IN  /\ close.type = "close"
           /\ \A i \in 1..(n - 1) : Payload(log.records[i]).type # "close"
           /\ close.count = n
           /\ close.count >= 2
           /\ close.head = RecordHash(log.records[n - 1])

checkCloseCount(art) ==
    Require(\A l \in DOMAIN art.logs : CloseCountOK(art.logs[l]))

\* FAIL is the OPEN/ABNORMAL-END message, the only failure of this check.
OpenEnded(log) ==
    /\ log.records # << >>
    /\ Payload(log.records[1]).hmax > 0
    /\ Payload(log.records[Len(log.records)]).type # "close"

checkOpenEnd(art) == Require(\A l \in DOMAIN art.logs : ~OpenEnded(art.logs[l]))
-----------------------------------------------------------------------------
(***************************************************************************)
(* AEL-2: cross-domain omission-evident.                                   *)
(***************************************************************************)
recorderAEL1(log, keys) ==
    LET n == Len(log.records)
        RecordOutcome(i) ==
            LET rec == log.records[i]
                payload == Payload(rec)
            IN  IF SignatureUV(rec, keys) THEN UV
                ELSE Require(/\ CanonicalOK(rec, keys)
                             /\ payload.seq = i - 1
                             /\ IF i = 1
                                THEN /\ payload.type = "open"
                                     /\ payload.prev = zeroPrev
                                     /\ payload.hmax > 0
                                ELSE payload.prev = RecordHash(log.records[i - 1]))
        each == FirstOutcome([i \in 1..n |-> RecordOutcome(i)])
        close == Payload(log.records[n])
    IN  IF n = 0 THEN Fail
        ELSE IF each # Pass THEN each
        ELSE IF checkHeartbeatLog(log) # Pass THEN Fail
        ELSE Require(/\ close.type = "close"
                     /\ close.count = n
                     /\ close.count >= 2
                     /\ close.head = RecordHash(log.records[n - 1]))

checkTwoRecorders(art) ==
    LET logs == logsForArtifactRun(art)
    IN  IF Cardinality(DOMAIN logs) < 2 THEN Fail
        ELSE FirstOutcome([l \in DOMAIN logs |-> recorderAEL1(logs[l], art.keys)])

\* verifiedRecorderKey: the outcome, and the key when the outcome is PASS.
RecorderKeyOf(log) == Payload(log.records[1]).key

verifiedRecorderKey(log, keys) ==
    LET RecordOutcome(i) ==
            LET rec == log.records[i]
            IN  IF SignatureUV(rec, keys) THEN UV
                ELSE Require(/\ SignatureOK(rec, keys)
                             /\ rec.raw.key # NoKey
                             /\ rec.raw.key = RecorderKeyOf(log))
        each == FirstOutcome([i \in DOMAIN log.records |-> RecordOutcome(i)])
    IN  IF log.records = << >> THEN Fail
        ELSE IF each # Pass THEN each
        ELSE Require(log.key \in {NoKey, RecorderKeyOf(log)})

\* Go maps keyed by log.ID keep the entry of the last log with that ID.
LastWithID(logs, l) ==
    CHOOSE k \in DOMAIN logs :
        /\ logs[k].id = logs[l].id
        /\ \A j \in DOMAIN logs : logs[j].id = logs[l].id => j <= k

checkKeysDiffer(art) ==
    LET logs == logsForArtifactRun(art)
        each == FirstOutcome([l \in DOMAIN logs |->
                                  verifiedRecorderKey(logs[l], art.keys)])
        Key(l) == RecorderKeyOf(logs[LastWithID(logs, l)])
    IN  IF Cardinality(DOMAIN logs) < 2 THEN UV
        ELSE IF each # Pass THEN each
        ELSE Require(\A l, k \in DOMAIN logs : l # k => Key(l) # Key(k))

coveredEvents(log, classes) ==
    {Payload(log.records[i]).event.id :
        i \in {j \in DOMAIN log.records :
                  /\ Payload(log.records[j]).type = "activity"
                  /\ Payload(log.records[j]).event # NoEvent
                  /\ Payload(log.records[j]).event.class \in classes}}

\* Mutant: a one-way audit, only the first log's events are looked for.
checkCrossAuditOneWay(art) ==
    LET logs == logsForArtifactRun(art)
        classes == art.correspondence[1]
        first == CHOOSE l \in DOMAIN logs : \A k \in DOMAIN logs : l <= k
        seen == coveredEvents(logs[first], classes)
    IN  IF art.correspondence = Nil THEN UV
        ELSE IF classes = {} \/ Cardinality(DOMAIN logs) < 2 THEN UV
        ELSE Require(\A l \in DOMAIN logs :
                        seen \subseteq
                            coveredEvents(logs[LastWithID(logs, l)], classes))

checkCrossAudit(art) ==
    LET logs == logsForArtifactRun(art)
        classes == art.correspondence[1]
        seen == UNION {coveredEvents(logs[l], classes) : l \in DOMAIN logs}
    IN  IF art.correspondence = Nil THEN UV
        ELSE IF classes = {} \/ Cardinality(DOMAIN logs) < 2 THEN UV
        ELSE Require(\A l \in DOMAIN logs :
                        seen \subseteq
                            coveredEvents(logs[LastWithID(logs, l)], classes))
-----------------------------------------------------------------------------
(***************************************************************************)
(* AEL-3: externally anchored.                                             *)
(***************************************************************************)
\* The opening of checks n, o, p and q: is there an anchors.json to examine?
AnchorsOutcome(art) ==
    IF art.anchor = Nil THEN UV
    ELSE IF art.anchorsErr THEN Fail
    ELSE IF art.anchors = Nil THEN UV
    ELSE Pass

\* Mutant: a log key that is not published fails the tree head.
checkTreeHeadNoKey(art) ==
    LET head == art.anchors[1]
    IN  IF AnchorsOutcome(art) # Pass THEN AnchorsOutcome(art)
        ELSE Require(/\ art.anchor[1].logKey \in art.keys
                     /\ head.canonical
                     /\ head.signed = [log |-> head.log, root |-> head.root, size |-> head.size]
                     /\ head.signer = art.anchor[1].logKey)

checkTreeHead(art) ==
    LET head == art.anchors[1]
    IN  IF AnchorsOutcome(art) # Pass THEN AnchorsOutcome(art)
        ELSE IF art.anchor[1].logKey \notin art.keys THEN UV
        ELSE Require(/\ head.canonical
                     /\ head.signed = [log |-> head.log, root |-> head.root, size |-> head.size]
                     /\ head.signer = art.anchor[1].logKey)

checkInclusion(art) ==
    LET head == art.anchors[1]
    IN  IF AnchorsOutcome(art) # Pass THEN AnchorsOutcome(art)
        ELSE Require(/\ head.entries # {}
                     /\ \A e \in head.entries :
                           merkleRootFromProof(e.leaf, e.index, head.size, e.proof)
                               = head.root)

\* findRecord: the first record, in log and file order, at the entry's place.
Matches(art, e, l, i) ==
    /\ art.logs[l].id = e.recorder
    /\ art.logs[l].run = e.run
    /\ Payload(art.logs[l].records[i]).seq = e.seq

FoundRecordHasLeaf(art, e) ==
    \E l \in DOMAIN art.logs : \E i \in DOMAIN art.logs[l].records :
        /\ Matches(art, e, l, i)
        /\ RecordHash(art.logs[l].records[i]) = e.leaf
        /\ \A k \in DOMAIN art.logs : \A j \in DOMAIN art.logs[k].records :
              Matches(art, e, k, j) => (l < k \/ (l = k /\ i <= j))

checkAnchorLeaves(art) ==
    IF AnchorsOutcome(art) # Pass THEN AnchorsOutcome(art)
    ELSE Require(\A e \in art.anchors[1].entries : FoundRecordHasLeaf(art, e))

\* A record is inside the window when no entry of its recorder reaches it.
WithinAnchored(log, entries) ==
    /\ \E e \in entries : e.recorder = log.id
    /\ \A i \in DOMAIN log.records :
          \E e \in entries : /\ e.recorder = log.id
                             /\ Payload(log.records[i]).seq <= e.seq

checkUnanchoredWindow(art) ==
    LET logs == logsForArtifactRun(art)
    IN  IF AnchorsOutcome(art) # Pass THEN AnchorsOutcome(art)
        ELSE Require(\A l \in DOMAIN logs :
                        WithinAnchored(logs[l], art.anchors[1].entries))

\* The loop checks u and v share: the declared key signs for no recorder.
KeyIndependentOfRecorders(art, declared) ==
    LET logs == logsForArtifactRun(art)
        LogOutcome(l) ==
            LET out == verifiedRecorderKey(logs[l], art.keys)
            IN  IF out # Pass THEN out ELSE Require(RecorderKeyOf(logs[l]) # declared)
    IN  FirstOutcome([l \in DOMAIN logs |-> LogOutcome(l)])

\* Mutant: the declared log key is taken at its word.
checkLogKeyDeclared(art) == IF art.anchor = Nil THEN UV ELSE Pass

checkLogKeyIndependent(art) ==
    IF art.anchor = Nil THEN UV
    ELSE KeyIndependentOfRecorders(art, art.anchor[1].logKey)
-----------------------------------------------------------------------------
(***************************************************************************)
(* AEL-4: counterparty-confirmed.                                          *)
(***************************************************************************)
checkCounterpartySignatures(art) ==
    LET fp == art.counterparty[1].key
        stmts == counterpartyStatementsForRun(art)
    IN  IF art.counterparty = Nil THEN UV
        ELSE IF art.statements = Nil THEN UV
        ELSE IF art.statementsErr THEN Fail
        ELSE IF fp \notin art.keys THEN UV
        ELSE Require(/\ DOMAIN Statements(art) # {}
                     /\ \A s \in DOMAIN stmts :
                           StatementSchemaOK(stmts[s], art.keys, fp))

\* runNonce: PASS when every opened log of the run declares one same nonce.
OpenPayloads(art) ==
    {Payload(log.records[1]) :
        log \in {art.logs[l] : l \in {k \in DOMAIN art.logs :
                    /\ art.logs[k].run = artifactRun(art)
                    /\ art.logs[k].records # << >>}}}

runNonceOK(art) ==
    /\ OpenPayloads(art) # {}
    /\ \A open \in OpenPayloads(art) : open.type = "open" /\ open.nonce # NoNonce
    /\ \A p, q \in OpenPayloads(art) : p.nonce = q.nonce

runNonce(art) == (CHOOSE open \in OpenPayloads(art) : TRUE).nonce

\* A received statement names an event or says "none", never both.
ReceiptChoiceOK(stmt) == (stmt.received # NoEvent.id) # stmt.none

checkCounterpartyBinding(art) ==
    LET stmts == counterpartyStatementsForRun(art)
        fp == art.counterparty[1].key
        StatementOutcome(s) ==
            IF ~StatementSignatureOK(stmts[s], art.keys, fp) THEN UV
            ELSE Require(/\ stmts[s].raw.v = 1
                         /\ stmts[s].raw.type = "received"
                         /\ stmts[s].raw.run = artifactRun(art)
                         /\ stmts[s].raw.nonce = runNonce(art)
                         /\ ReceiptChoiceOK(stmts[s].raw))
    IN  IF art.counterparty = Nil THEN UV
        ELSE IF art.statements = Nil THEN UV
        ELSE IF ~runNonceOK(art) THEN Fail
        ELSE IF DOMAIN stmts = {} /\ DOMAIN Statements(art) # {} THEN Fail
        ELSE FirstOutcome([s \in DOMAIN stmts |-> StatementOutcome(s)])

RecordedOut(art, flows) ==
    {rec.raw.event.id : rec \in {r \in AllRecords(art) :
        /\ r.parsed
        /\ r.raw.type = "activity"
        /\ r.raw.event # NoEvent
        /\ r.raw.event.dir = "out"
        /\ r.raw.event.class \in flows}}

ConfirmedIn(stmts, flows) ==
    {stmts[s].raw.received : s \in {t \in DOMAIN stmts :
        /\ stmts[t].raw.flow \in flows
        /\ ~stmts[t].raw.none
        /\ stmts[t].raw.received # NoEvent.id}}

checkCounterpartyAudit(art) ==
    LET stmts == counterpartyStatementsForRun(art)
        fp == art.counterparty[1].key
        flows == art.counterparty[1].flows
    IN  IF art.counterparty = Nil THEN UV
        ELSE IF art.statements = Nil THEN UV
        ELSE IF flows = {} \/ ~runNonceOK(art) THEN UV
        ELSE IF \E s \in DOMAIN stmts :
                   \/ ~StatementSignatureOK(stmts[s], art.keys, fp)
                   \/ stmts[s].raw.run # artifactRun(art)
                   \/ stmts[s].raw.nonce # runNonce(art)
             THEN UV
        ELSE Require(RecordedOut(art, flows) = ConfirmedIn(stmts, flows))

\* Mutant: the declared counterparty key is taken at its word.
checkCounterpartyKeyDeclared(art) == IF art.counterparty = Nil THEN UV ELSE Pass

checkCounterpartyKeyIndependent(art) ==
    IF art.counterparty = Nil THEN UV
    ELSE KeyIndependentOfRecorders(art, art.counterparty[1].key)
-----------------------------------------------------------------------------
(***************************************************************************)
(* The grade of a run and the exit status of aelcheck.                     *)
(***************************************************************************)
Checks(art) ==
    [a |-> checkSignatures(art),
     b |-> checkCanonicalPayloads(art),
     c |-> checkByteflipDuty(checkSignatures(art)),
     d |-> checkSequenceOrder(art),
     e |-> checkPredecessorLinks(art),
     w |-> checkClosedSchemas(art),
     f |-> checkOpen(art),
     g |-> checkContiguous(art),
     h |-> checkHeartbeat(art),
     i |-> checkCloseCount(art),
     j |-> checkOpenEnd(art),
     k |-> checkTwoRecorders(art),
     l |-> checkKeysDiffer(art),
     m |-> checkCrossAudit(art),
     n |-> checkTreeHead(art),
     o |-> checkInclusion(art),
     p |-> checkAnchorLeaves(art),
     q |-> checkUnanchoredWindow(art),
     r |-> checkCounterpartySignatures(art),
     s |-> checkCounterpartyBinding(art),
     t |-> checkCounterpartyAudit(art),
     u |-> checkLogKeyIndependent(art),
     v |-> checkCounterpartyKeyIndependent(art)]

allPass(checks, ids) == \A id \in ids : checks[id] = Pass

\* -1 stands for an ungraded run, which computeGrade flags and leaves at 0.
Ungraded == -1

\* Mutant: AEL-1 without the close of the run.
computeGradeUnclosed(checks) ==
    IF ~allPass(checks, {"a", "b", "d", "e", "w"}) THEN Ungraded
    ELSE IF ~allPass(checks, {"f", "g", "h"}) THEN 0
    ELSE 1

computeGrade(checks) ==
    IF ~allPass(checks, {"a", "b", "d", "e", "w"}) THEN Ungraded
    ELSE IF checks.j = Fail \/ ~allPass(checks, {"f", "g", "h", "i"}) THEN 0
    ELSE IF ~allPass(checks, {"k", "l", "m"}) THEN 1
    ELSE IF ~allPass(checks, {"n", "o", "u", "p", "q"}) THEN 2
    ELSE IF ~allPass(checks, {"r", "s", "t", "v"}) THEN 3
    ELSE 4

evaluateRun(art) ==
    LET checks == Checks(art)
    IN  [checks |-> checks, open |-> checks.j = Fail, grade |-> computeGrade(checks)]

Evaluate(art) == [run \in artifactRuns(art) |-> evaluateRun(ForRun(art, run))]

\* cmd/aelcheck: an open run outranks a nonconforming one.  minGrade is 0 by
\* default, and an ungraded run is below every minimum.
conformanceExit(report, minGrade) ==
    IF DOMAIN report = {} THEN 3
    ELSE IF \E run \in DOMAIN report : report[run].open THEN 4
    ELSE IF \E run \in DOMAIN report : report[run].grade < minGrade THEN 3
    ELSE 0
=============================================================================
