----------------------------- MODULE AELPackage -----------------------------
(***************************************************************************)
(* Validation of signed packages over time (checker/internal/ael/package.go*)
(* and cmd/aelpackage).  A verifier signs verification records, an operator*)
(* signs what it likes; status authorities sign current, revoked and       *)
(* superseded statements; a holder keeps everything that was ever signed   *)
(* and shows a consumer any of it, altered or not; the consumer validates  *)
(* under its own trust configuration at a time of its own.                 *)
(*                                                                         *)
(* Signatures are ideal: a signature is a record of the key and what it is *)
(* over.  Times are whole numbers.                                         *)
(***************************************************************************)
EXTENDS Integers, FiniteSets

CONSTANTS
    Manifests,      \* the package manifests that may be signed or shown
    Records,        \* identifiers of the records authorities speak about
    StatusForms,    \* whether statements may be non-canonical
    VerifierKey, OperatorKey,
    Authorities,    \* identifiers of status authorities
    AuthorityKey,   \* each authority's key, as the consumer configured it
    Trusts,         \* consumer trust roots [operators, verifiers, status]
    Ages,           \* values of --max-status-age, 0 for none
    Window,         \* longest next_update - issued_at an authority chooses
    MaxTime, MaxSigned, MaxStatements

ASSUME TimesAssumption ==
    /\ MaxTime \in Nat /\ MaxSigned \in Nat /\ MaxStatements \in Nat
    /\ Window \in Nat \ {0} /\ Ages \subseteq Nat
ASSUME AuthoritiesAssumption ==
    /\ \A a \in Authorities, b \in Authorities :
          AuthorityKey[a] = AuthorityKey[b] => a = b
    /\ \A a \in Authorities : AuthorityKey[a] \notin {VerifierKey, OperatorKey}
\* Expiry times are times, and the consumer knows the operator for one.
ASSUME ManifestsAssumption == \A m \in Manifests : m.expires \in Int
ASSUME TrustsAssumption == \A trust \in Trusts : OperatorKey \in trust.operators

Times == 0..MaxTime
NoTime == -1            \* the zero time: none was supplied
Terminal == {"revoked", "superseded"}

VARIABLES
    clock,
    signatures,     \* package signatures [key, manifest] made so far
    statements,     \* status signatures [key, status] made so far
    withdrawn,      \* [record, authority, at] of the withdrawals made so far
    view            \* the consumer's last validation: its inputs and the result

vars == <<clock, signatures, statements, withdrawn, view>>

----------------------------------------------------------------------------
(***************************************************************************)
(* validatePackageDir up to the evaluation result: the state of a package  *)
(* that is refused, or "accepted".  A package shown is                     *)
(* [manifest, sig, blobs], blobs telling whether the files are the listed. *)
(***************************************************************************)
packageSignerKey(m) == IF m.kind = "verification-record" THEN m.verifierKey ELSE m.operatorKey

validatePackageSemantics(m) ==
    /\ m.form = "valid" /\ m.record = m.id
    /\ m.kind = "verification-record" => m.verifier \notin {m.producer, m.operator}

\* Mutant: an operator's key may be trusted as a verifier's too.
loadPackageTrustKeysAnyRole(m, trust) ==
    IF m.kind = "verification-record" THEN trust.verifiers \cup trust.operators
    ELSE trust.operators

\* The keys of the signer's role; none are usable when a verifier is an operator.
loadPackageTrustKeys(m, trust) ==
    IF m.kind # "verification-record" THEN trust.operators
    ELSE IF trust.verifiers \cap trust.operators # {} THEN {}
    ELSE trust.verifiers

validatePackageInputKeys(m) == {packageSignerKey(m), m.statusKey} \subseteq m.carried

Acceptance(pkg, trust) ==
    LET m == pkg.manifest
        key == packageSignerKey(m)
    IN  IF ~validatePackageSemantics(m) THEN "INVALID"
        ELSE IF key \notin loadPackageTrustKeys(m, trust) THEN "UNTRUSTED"
        ELSE IF \/ pkg.sig # [key |-> key, manifest |-> m]
                \/ ~pkg.blobs
                \/ ~validatePackageInputKeys(m)
                \/ ~m.bound
                \/ m.kind = "verification-record" /\ m.exit \in {0, 4} /\ ~m.agreed
             THEN "INVALID"
        ELSE "accepted"

----------------------------------------------------------------------------
(***************************************************************************)
(* Status statements [form, record, authority, issued, next, effective,    *)
(* state], shown with a signature [key, status].                           *)
(***************************************************************************)

\* Mutant: a statement about any record of the authority is good enough.
validateVerificationStatusAnyRecord(m, shown, trust) ==
    /\ shown.status.form = "valid"
    /\ shown.status.authority = m.authority
    /\ m.statusKey \in trust.status
    /\ shown.sig = [key |-> m.statusKey, status |-> shown.status]

validateVerificationStatusSchema(status) ==
    /\ status.form = "valid"
    /\ status.state = "current" => status.next > status.issued

validateVerificationStatus(m, shown, trust) ==
    /\ validateVerificationStatusSchema(shown.status)
    /\ shown.status.record = m.id /\ shown.status.authority = m.authority
    /\ m.statusKey \in trust.status
    /\ shown.sig = [key |-> m.statusKey, status |-> shown.status]

\* Mutant: the consumer's maximum age is applied to withdrawals as well.
StatusStateAging(status, time, maxAge) ==
    IF time < status.issued \/ (maxAge > 0 /\ time >= status.issued + maxAge)
      THEN "STATUS-UNKNOWN"
    ELSE IF status.state = "current"
      THEN IF time >= status.next THEN "STATUS-UNKNOWN" ELSE "VERIFIED"
    ELSE IF time < status.effective THEN "STATUS-UNKNOWN"
    ELSE IF status.state = "revoked" THEN "REVOKED" ELSE "SUPERSEDED"

\* Time and statement decide, in this order: not yet issued, stale, withdrawn.
StatusState(status, time, maxAge) ==
    IF time < status.issued THEN "STATUS-UNKNOWN"
    ELSE IF status.state = "current"
      THEN IF \/ maxAge > 0 /\ time >= status.issued + maxAge
              \/ time >= status.next
           THEN "STATUS-UNKNOWN" ELSE "VERIFIED"
    ELSE IF time < status.effective THEN "STATUS-UNKNOWN"
    ELSE IF status.state = "revoked" THEN "REVOKED" ELSE "SUPERSEDED"

\* The state a consumer displays; status is a set of at most one shown statement.
DisplayState(pkg, trust, status, time, maxAge) ==
    LET m == pkg.manifest
    IN  IF Acceptance(pkg, trust) # "accepted" THEN Acceptance(pkg, trust)
        ELSE IF m.exit = 4 THEN "EVALUATION-OPEN"
        ELSE IF m.exit # 0 THEN "EVALUATION-FAILED"
        ELSE IF m.conformance # 0 THEN "CONFORMANCE-FAILED"
        ELSE IF m.kind = "evaluation-package" THEN "EVALUATED"
        ELSE IF time = NoTime THEN "STATUS-UNKNOWN"
        ELSE IF m.expires # NoTime /\ time >= m.expires THEN "EXPIRED"
        ELSE IF ~\E s \in status : validateVerificationStatus(m, s, trust)
             THEN "STATUS-UNKNOWN"
        ELSE StatusState((CHOOSE s \in status : TRUE).status, time, maxAge)

\* The exit status of aelpackage: 1 after an error, 3 when not current.
packageExitCode(state) == IF state \in {"VERIFIED", "EVALUATED"} THEN 0
                          ELSE IF state \in {"INVALID", "UNTRUSTED"} THEN 1 ELSE 3

----------------------------------------------------------------------------
NoView == [state |-> "none"]

Init ==
    /\ clock = 0
    /\ signatures = {} /\ statements = {} /\ withdrawn = {}
    /\ view = NoView

\* What happens before the consumer validates; its time is its own.
World == view = NoView /\ UNCHANGED view

Tick ==
    /\ World /\ clock < MaxTime
    /\ clock' = clock + 1
    /\ UNCHANGED <<signatures, statements, withdrawn>>

\* A verifier signs verification records that name its key; an operator signs
\* anything.
Sign(key, m) ==
    /\ World /\ Cardinality(signatures) < MaxSigned
    /\ key = VerifierKey =>
          m.kind = "verification-record" /\ packageSignerKey(m) = VerifierKey
    /\ signatures' = signatures \cup {[key |-> key, manifest |-> m]}
    /\ UNCHANGED <<clock, statements, withdrawn>>

\* Status authorities.  One that withdrew a record says nothing more about it.
Issue(a, status) ==
    /\ World /\ Cardinality(statements) < MaxStatements
    /\ ~\E w \in withdrawn : w.record = status.record /\ w.authority = a
    /\ statements' = statements \cup {[key |-> AuthorityKey[a], status |-> status]}
    /\ UNCHANGED <<clock, signatures>>

IssueCurrent(a, record, form) ==
    \E next \in clock..(clock + Window) :
        /\ Issue(a, [form |-> form, record |-> record, authority |-> a, issued |-> clock,
                     next |-> next, effective |-> NoTime, state |-> "current"])
        /\ UNCHANGED withdrawn

Withdraw(a, record, state, effective) ==
    /\ Issue(a, [form |-> "valid", record |-> record, authority |-> a, issued |-> clock,
                 next |-> NoTime, effective |-> effective, state |-> state])
    /\ withdrawn' = withdrawn \cup {[record |-> record, authority |-> a, at |-> clock]}

(***************************************************************************)
(* What the holder can show: any manifest with any signature, its files or *)
(* others, and no statement, a signed one, or one altered after signing.   *)
(***************************************************************************)
ShownPackages == [manifest : Manifests, sig : signatures, blobs : BOOLEAN]
Alterations(status) ==
    {status, [status EXCEPT !.state = "current", !.next = MaxTime + 1]}
ShownStatuses ==
    {{}} \cup UNION {{{[status |-> s, sig |-> sig]} : s \in Alterations(sig.status)} :
                        sig \in statements}

View(pkg, trust, status, time, age) ==
    LET state == DisplayState(pkg, trust, status, time, age)
    IN  [pkg |-> pkg, trust |-> trust, status |-> status, time |-> time, age |-> age,
         state |-> state, exit |-> packageExitCode(state)]

\* ValidatePackage, on a private copy of what is shown.
Validate ==
    /\ view = NoView
    /\ \E pkg \in ShownPackages, trust \in Trusts, status \in ShownStatuses,
          time \in Times \cup {NoTime}, age \in Ages :
          view' = View(pkg, trust, status, time, age)
    /\ UNCHANGED <<clock, signatures, statements, withdrawn>>

\* The same inputs once more, later.
ValidateAgain ==
    /\ view # NoView /\ view.time \in 0..(MaxTime - 1)
    /\ view' = View(view.pkg, view.trust, view.status, view.time + 1, view.age)
    /\ UNCHANGED <<clock, signatures, statements, withdrawn>>

Next ==
    \/ Tick
    \/ \E key \in {VerifierKey, OperatorKey}, m \in Manifests : Sign(key, m)
    \/ \E a \in Authorities, record \in Records, form \in StatusForms :
          IssueCurrent(a, record, form)
    \/ \E a \in Authorities, record \in Records, state \in Terminal, effective \in Times :
          Withdraw(a, record, state, effective)
    \/ Validate
    \/ ValidateAgain

Spec == Init /\ [][Next]_vars

----------------------------------------------------------------------------
(***************************************************************************)
(* Properties.                                                             *)
(***************************************************************************)

(***************************************************************************)
(* aelpackage exits 0 for a verification record only while it may: a       *)
(* trusted verifier who is no operator signed this very manifest, its      *)
(* evaluation and conformance run succeeded, it has not expired, and if    *)
(* the authority whose key it names has withdrawn it, the withdrawal is    *)
(* younger than the authority's window and the consumer's maximum age.     *)
(* (validatePackageDir, package.go 208-355: replay of a current statement  *)
(* is bounded.)                                                            *)
(***************************************************************************)
VerifiedBounded ==
    view # NoView /\ view.exit = 0 /\ view.pkg.manifest.kind = "verification-record" =>
        LET m == view.pkg.manifest
        IN  /\ \E key \in view.trust.verifiers \ view.trust.operators :
                  [key |-> key, manifest |-> m] \in signatures
            /\ m.exit = 0 /\ m.conformance = 0
            /\ m.expires # NoTime => view.time < m.expires
            /\ \A w \in withdrawn :
                  w.record = m.id /\ AuthorityKey[w.authority] = m.statusKey =>
                      /\ view.time < w.at + Window
                      /\ view.age > 0 => view.time < w.at + view.age

(***************************************************************************)
(* Whoever signs, an operator cannot make a package that exits 0 as a      *)
(* verification record: a record that passes was signed by a verifier.     *)
(* (loadPackageTrustKeys and packageSignerTrustRole, package.go 418-440.)  *)
(***************************************************************************)
NoSelfVerification ==
    view # NoView /\ view.exit = 0 /\ view.pkg.manifest.kind = "verification-record" =>
        [key |-> VerifierKey, manifest |-> view.pkg.manifest] \in signatures

(***************************************************************************)
(* With the same inputs a later validation never takes bad news back: a    *)
(* withdrawn record stays withdrawn until it expires, and one that was     *)
(* expired, failed or stale does not become verified again (into which of  *)
(* the other states it may pass is left open).                             *)
(* (The order of the cases of validatePackageDir, package.go 263-355.)     *)
(***************************************************************************)
BadNewsStays ==
    [][view # NoView =>
          /\ view.state \in {"REVOKED", "SUPERSEDED"} =>
                view'.state \in {view.state, "EXPIRED"}
          /\ view'.state = "VERIFIED" =>
                \/ view.state = "VERIFIED"
                \/ \E s \in view.status : view.time < s.status.issued]_view

(***************************************************************************)
(* A consumer that is shown an authentic withdrawal of an otherwise good   *)
(* record reports the terminal state from its effective time on, as        *)
(* section 5.2 of SPEC.md requires (an expired record may say so instead). *)
(***************************************************************************)
TerminalReported ==
    view # NoView /\ view.state = "STATUS-UNKNOWN" /\ view.time # NoTime =>
        \A s \in view.status :
            /\ validateVerificationStatus(view.pkg.manifest, s, view.trust)
            /\ s.status.state \in Terminal
            => view.time < s.status.effective
=============================================================================
