---------------------------- MODULE AELArtifact ----------------------------
(***************************************************************************)
(* The artifact the checker loads (checker/internal/ael/artifact.go and    *)
(* record.go): signed records, recorder logs, the manifest's optional      *)
(* blocks, anchors.json and counterparty.jsonl, and the three facts        *)
(* Record.Verify derives from a record and the published keys.             *)
(*                                                                         *)
(* Cryptography is ideal.  The hash of a payload is the payload in a box,  *)
(* so it is injective; a signature is the name of the key that made it, so *)
(* only a holder of the key can produce it.                                *)
(*                                                                         *)
(* A pointer that Go may leave nil is a sequence of length 0 or 1.         *)
(***************************************************************************)
EXTENDS Integers, Sequences, FiniteSets, Functions

Nil == << >>

(***************************************************************************)
(* Hashes.  NoHash is the empty string a malformed line leaves in          *)
(* Record.Hash; it equals neither the zero hash nor any payload's hash.    *)
(***************************************************************************)
zeroPrev == << >>
Hash(payload) == <<payload>>
NoHash == <<0, 0>>

NoKey == "no key"
NoNonce == "no nonce"
NoEvent == [class |-> "none", id |-> "none", dir |-> "none"]

\* The empty run identifier: the manifest may label a log with it, but a record
\* that names no run fails its schema.
NoRun == ""

\* The Go zero value of Payload, which a malformed line leaves behind.
ZeroPayload ==
    [v |-> 0, type |-> "none", run |-> NoRun, recorder |-> "none", key |-> NoKey,
     seq |-> 0, prev |-> NoHash, ts |-> 0, hmax |-> 0, htol |-> 0,
     nonce |-> NoNonce, event |-> NoEvent, count |-> 0, head |-> NoHash,
     form |-> "none"]

(***************************************************************************)
(* A record is [parsed, raw, signer]: whether the line decodes and         *)
(* unmarshals, the payload, and the key whose signature the line carries.  *)
(* The field form of a payload tells whether its bytes are canonical and   *)
(* schema-valid; two forms of one content are different bytes.             *)
(***************************************************************************)
Forms == {"valid", "noncanonical", "unknown field"}

Payload(rec) == IF rec.parsed THEN rec.raw ELSE ZeroPayload
RecordHash(rec) == IF rec.parsed THEN Hash(rec.raw) ELSE NoHash

\* Record.Verify, field by field: a missing published key is UV, and each
\* later fact is established only once the earlier ones are.
SignatureUV(rec, keys) == rec.parsed /\ rec.raw.key \notin keys
SignatureOK(rec, keys) ==
    rec.parsed /\ rec.raw.key \in keys /\ rec.signer = rec.raw.key
CanonicalOK(rec, keys) == SignatureOK(rec, keys) /\ rec.raw.form # "noncanonical"
SchemaOK(rec, keys) ==
    /\ CanonicalOK(rec, keys)
    /\ rec.raw.form # "unknown field" /\ rec.raw.run # NoRun

(***************************************************************************)
(* A counterparty statement is [parsed, raw, signer] too, with raw = [v,   *)
(* type, run, flow, nonce, received, none, form]; received is an event id  *)
(* or NoEvent.id.  It is verified under the one declared key.              *)
(***************************************************************************)
StatementSignatureOK(stmt, keys, fp) ==
    stmt.parsed /\ fp \in keys /\ stmt.signer = fp
StatementCanonicalOK(stmt, keys, fp) ==
    StatementSignatureOK(stmt, keys, fp) /\ stmt.raw.form # "noncanonical"
StatementSchemaOK(stmt, keys, fp) ==
    StatementCanonicalOK(stmt, keys, fp) /\ stmt.raw.form # "unknown field"

(***************************************************************************)
(* A Merkle root stands for the leaves below it.  An entry carries the     *)
(* leaf sequence its proof was built from; recomputation reaches that root *)
(* exactly when the leaf sits at the entry's index of a tree of the        *)
(* declared size, and otherwise reaches something that is no tree's root.  *)
(***************************************************************************)
NoRoot == <<NoHash>>
merkleLeaf(payload) == Hash(payload)
merkleRootFromProof(leaf, index, size, proof) ==
    IF /\ size > 0 /\ index \in 0..(size - 1)
       /\ Len(proof) = size /\ proof[index + 1] = leaf
    THEN proof
    ELSE NoRoot

(***************************************************************************)
(* The artifact:                                                           *)
(*   runs            the manifest's run identifiers                        *)
(*   logs            [id, run, key, records] by position in the manifest   *)
(*   keys            the published keys                                    *)
(*   correspondence  Nil or <<set of covered classes>>                     *)
(*   anchor          Nil or <<[logKey]>>, the manifest's anchor block      *)
(*   anchors         Nil or <<[log, root, size, signed, canonical, signer, *)
(*                   schema, entries]>>, anchors.json                      *)
(*   anchorsErr      anchors.json was present but could not be loaded      *)
(*   statementsErr   counterparty.jsonl could not be read to its end       *)
(*   counterparty    Nil or <<[key, flows]>>                               *)
(*   statements      Nil (file missing) or <<statements by line>>          *)
(***************************************************************************)
AllRecords(art) ==
    UNION {{art.logs[l].records[i] : i \in DOMAIN art.logs[l].records} :
              l \in DOMAIN art.logs}

\* Statements as loadCounterparty leaves them: none when the file is missing.
Statements(art) == IF art.statements = Nil THEN << >> ELSE art.statements[1]

\* Mutant: only the runs the manifest names are evaluated.
manifestRuns(art) ==
    LET runs == art.runs \ {NoRun} IN IF runs = {} THEN {NoRun} ELSE runs

\* Runs named by the manifest's list or by a recorder entry.  The empty run
\* identifier is passed over wherever it stands, and is the only run when there
\* is no other.
artifactRuns(art) ==
    LET runs == (art.runs \cup {art.logs[l].run : l \in DOMAIN art.logs}) \ {NoRun}
    IN  IF runs = {} THEN {NoRun} ELSE runs

\* Artifact.ForRun: logs and anchor entries of one run; statements stay.
AnchorsForRun(art, run) ==
    IF art.anchors = Nil THEN Nil
    ELSE <<[art.anchors[1] EXCEPT
               !.entries = {e \in art.anchors[1].entries : e.run = run}]>>

ForRun(art, run) ==
    [art EXCEPT !.runs = {run},
                !.logs = RestrictValues(art.logs, LAMBDA log : log.run = run),
                !.anchors = AnchorsForRun(art, run)]

\* The run a single-run view is about, and that run's logs.
artifactRun(art) == CHOOSE run \in art.runs : TRUE
logsForArtifactRun(art) ==
    RestrictValues(art.logs, LAMBDA log : artifactRun(art) \in {NoRun, log.run})

counterpartyStatementsForRun(art) ==
    RestrictValues(Statements(art),
        LAMBDA stmt : ~stmt.parsed \/ stmt.raw.run = artifactRun(art))
=============================================================================
