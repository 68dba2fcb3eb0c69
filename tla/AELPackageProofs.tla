-------------------------- MODULE AELPackageProofs --------------------------
(***************************************************************************)
(* For any manifests, authorities, trust configurations, times and numbers *)
(* of signatures and statements: the properties of AELPackage.             *)
(*                                                                         *)
(* The argument is about what authorities said, not about the consumer: a  *)
(* current statement about a record is never younger than a withdrawal of  *)
(* it by the same authority, and reaches no further than the window.  A    *)
(* consumer counts a statement only when it is one that was signed.        *)
(***************************************************************************)
EXTENDS AELPackage, TLAPS

\* Only the verifier's and the operator's key sign, and the verifier's key signs
\* manifests that name it.
SignatureOK(s) ==
    /\ s.key \in {VerifierKey, OperatorKey}
    /\ s.key = VerifierKey => packageSignerKey(s.manifest) = VerifierKey

\* What an authority signs about itself: times that have come, and a next update
\* within its window.
StatementOK(s) ==
    /\ \E a \in Authorities : s.key = AuthorityKey[a]
    /\ s.status.issued \in Nat /\ s.status.issued <= clock
    /\ s.status.next \in Int /\ s.status.effective \in Int
    /\ s.status.state = "current" => s.status.next <= s.status.issued + Window

WithdrawalOK(w) == w.authority \in Authorities /\ w.at \in Nat /\ w.at <= clock

\* An authority's current statements about a record precede its withdrawal.
CurrentBefore(s, w) ==
    s.key = AuthorityKey[w.authority] /\ s.status.record = w.record
        /\ s.status.state = "current"
    => s.status.issued <= w.at

\* The last validation was of something that could be shown.
ViewOK ==
    view = NoView \/
    \E pkg \in ShownPackages, trust \in Trusts, status \in ShownStatuses,
       time \in Times \cup {NoTime}, age \in Ages :
       view = View(pkg, trust, status, time, age)

PackageInv ==
    /\ clock \in Nat
    /\ \A s \in signatures : SignatureOK(s)
    /\ \A s \in statements : StatementOK(s)
    /\ \A w \in withdrawn : WithdrawalOK(w)
    /\ \A s \in statements, w \in withdrawn : CurrentBefore(s, w)
    /\ ViewOK

----------------------------------------------------------------------------
(***************************************************************************)
(* The invariant.                                                          *)
(***************************************************************************)
LEMMA PackageInvInit == Init => PackageInv
  BY DEF Init, PackageInv, ViewOK

LEMMA SameView == ASSUME view = NoView, UNCHANGED view PROVE ViewOK'
  BY DEF ViewOK

\* A new statement of an authority that has not withdrawn the record.
LEMMA IssueStep ==
  ASSUME PackageInv, NEW a \in Authorities, NEW status, Issue(a, status),
         status.issued = clock, status.next \in Int, status.effective \in Int,
         status.state = "current" => status.next <= clock + Window
  PROVE  /\ \A s \in statements' : StatementOK(s)'
         /\ \A s \in statements', w \in withdrawn : CurrentBefore(s, w)
  <1> DEFINE new == [key |-> AuthorityKey[a], status |-> status]
  <1>1. statements' = statements \cup {new} /\ clock' = clock
    BY DEF Issue
  <1>2. new.key = AuthorityKey[a] /\ new.status = status
    OBVIOUS
  <1> HIDE DEF new
  <1>3. StatementOK(new)'
    BY <1>1, <1>2 DEF StatementOK, PackageInv
  <1>4. \A s \in statements : StatementOK(s)'
    BY <1>1 DEF StatementOK, PackageInv
  <1>5. ASSUME NEW w \in withdrawn PROVE CurrentBefore(new, w)
    <2> SUFFICES ASSUME new.key = AuthorityKey[w.authority], new.status.record = w.record
                 PROVE  FALSE
      BY DEF CurrentBefore
    <2>1. w.authority = a
      BY <1>2, AuthoritiesAssumption DEF PackageInv, WithdrawalOK
    <2> QED
      BY <1>2, <2>1 DEF Issue
  <1> QED
    BY <1>1, <1>3, <1>4, <1>5 DEF PackageInv

LEMMA CurrentStep ==
  ASSUME PackageInv, NEW a \in Authorities, NEW record, NEW form,
         IssueCurrent(a, record, form)
  PROVE  PackageInv'
  <1>1. PICK next \in clock..(clock + Window) :
           /\ Issue(a, [form |-> form, record |-> record, authority |-> a, issued |-> clock,
                        next |-> next, effective |-> NoTime, state |-> "current"])
           /\ UNCHANGED withdrawn
    BY DEF IssueCurrent
  <1>2. next \in Int /\ next <= clock + Window /\ NoTime \in Int
    BY TimesAssumption DEF PackageInv, NoTime
  <1>3. /\ \A s \in statements' : StatementOK(s)'
        /\ \A s \in statements', w \in withdrawn : CurrentBefore(s, w)
    BY <1>1, <1>2, IssueStep
  <1>4. UNCHANGED <<clock, signatures, withdrawn, view>> /\ view = NoView
    BY <1>1 DEF Issue, World
  <1>5. \A s \in statements', w \in withdrawn' : CurrentBefore(s, w)'
    BY <1>3, <1>4 DEF CurrentBefore
  <1>6. ViewOK'
    BY <1>4, SameView
  <1> QED
    BY <1>3, <1>4, <1>5, <1>6 DEF PackageInv, SignatureOK, WithdrawalOK

LEMMA WithdrawStep ==
  ASSUME PackageInv, NEW a \in Authorities, NEW record, NEW state \in Terminal,
         NEW effective \in Times, Withdraw(a, record, state, effective)
  PROVE  PackageInv'
  <1> DEFINE status == [form |-> "valid", record |-> record, authority |-> a, issued |-> clock,
                        next |-> NoTime, effective |-> effective, state |-> state]
             gone == [record |-> record, authority |-> a, at |-> clock]
  <1>1. Issue(a, status) /\ withdrawn' = withdrawn \cup {gone}
    BY DEF Withdraw
  <1>2. /\ status.issued = clock /\ status.next \in Int /\ status.effective \in Int
        /\ status.state # "current"
    BY DEF NoTime, Times, Terminal
  <1>3. gone.authority = a /\ gone.at = clock
    OBVIOUS
  <1> HIDE DEF status, gone
  <1>4. /\ \A s \in statements' : StatementOK(s)'
        /\ \A s \in statements', w \in withdrawn : CurrentBefore(s, w)
    BY <1>1, <1>2, IssueStep
  <1>5. UNCHANGED <<clock, signatures, view>> /\ view = NoView
    BY <1>1 DEF Issue, World
  <1>6. \A s \in statements' : CurrentBefore(s, gone)
    BY <1>3, <1>4, <1>5 DEF CurrentBefore, StatementOK
  <1>7. \A s \in statements', w \in withdrawn' : CurrentBefore(s, w)'
    BY <1>1, <1>4, <1>6 DEF CurrentBefore
  <1>8. \A w \in withdrawn' : WithdrawalOK(w)'
    BY <1>1, <1>3, <1>5 DEF WithdrawalOK, PackageInv
  <1>9. ViewOK'
    BY <1>5, SameView
  <1> QED
    BY <1>4, <1>5, <1>7, <1>8, <1>9 DEF PackageInv, SignatureOK

LEMMA SignStep ==
  ASSUME PackageInv, NEW key \in {VerifierKey, OperatorKey}, NEW m, Sign(key, m)
  PROVE  PackageInv'
  <1> DEFINE new == [key |-> key, manifest |-> m]
  <1>1. /\ signatures' = signatures \cup {new} /\ UNCHANGED <<clock, statements, withdrawn, view>>
        /\ view = NoView
    BY DEF Sign, World
  <1>2. SignatureOK(new)
    BY DEF Sign, SignatureOK
  <1> HIDE DEF new
  <1>3. ViewOK'
    BY <1>1, SameView
  <1>4. \A s \in signatures' : SignatureOK(s)
    BY <1>1, <1>2 DEF PackageInv
  <1> QED
    BY <1>1, <1>3, <1>4
    DEF PackageInv, SignatureOK, StatementOK, WithdrawalOK, CurrentBefore

LEMMA ValidationStep ==
  ASSUME PackageInv, Validate \/ ValidateAgain
  PROVE  PackageInv'
  <1>1. UNCHANGED <<clock, signatures, statements, withdrawn>>
    BY DEF Validate, ValidateAgain
  <1>2. ShownPackages' = ShownPackages /\ ShownStatuses' = ShownStatuses
    BY <1>1 DEF ShownPackages, ShownStatuses
  <1>3. ViewOK'
    <2>1. CASE Validate
      BY <1>2, <2>1 DEF Validate, ViewOK
    <2>2. CASE ValidateAgain
      <3>1. PICK pkg \in ShownPackages, trust \in Trusts, status \in ShownStatuses,
                 time \in Times \cup {NoTime}, age \in Ages :
                 view = View(pkg, trust, status, time, age)
        BY <2>2 DEF PackageInv, ViewOK, ValidateAgain
      <3>2. /\ view.pkg = pkg /\ view.trust = trust /\ view.status = status
            /\ view.time = time /\ view.age = age
        BY <3>1 DEF View
      <3>3. time + 1 \in Times
        BY <2>2, <3>2, TimesAssumption DEF ValidateAgain, Times
      <3>4. view' = View(pkg, trust, status, time + 1, age)
        BY <2>2, <3>2 DEF ValidateAgain
      <3> QED
        BY <1>2, <3>3, <3>4 DEF ViewOK
    <2> QED
      BY <2>1, <2>2
  <1> QED
    BY <1>1, <1>3 DEF PackageInv, SignatureOK, StatementOK, WithdrawalOK, CurrentBefore

LEMMA PackageInvNext == PackageInv /\ [Next]_vars => PackageInv'
  <1> SUFFICES ASSUME PackageInv, [Next]_vars PROVE PackageInv'
    OBVIOUS
  <1>1. CASE Tick
    <2>1. /\ clock' = clock + 1 /\ UNCHANGED <<signatures, statements, withdrawn, view>>
          /\ view = NoView
      BY <1>1 DEF Tick, World
    <2>2. ViewOK'
      BY <2>1, SameView
    <2>3. clock' \in Nat /\ clock <= clock'
      BY <2>1 DEF PackageInv
    <2>4. \A s \in statements : StatementOK(s)'
      BY <2>3 DEF PackageInv, StatementOK
    <2>5. \A w \in withdrawn : WithdrawalOK(w)'
      BY <2>3 DEF PackageInv, WithdrawalOK
    <2> QED
      BY <2>1, <2>2, <2>3, <2>4, <2>5 DEF PackageInv, SignatureOK, CurrentBefore
  <1>2. CASE UNCHANGED vars
    <2>1. UNCHANGED <<clock, signatures, statements, withdrawn, view>>
      BY <1>2 DEF vars
    <2>2. ViewOK'
      BY <2>1 DEF PackageInv, ViewOK, ShownPackages, ShownStatuses
    <2> QED
      BY <2>1, <2>2 DEF PackageInv, SignatureOK, StatementOK, WithdrawalOK, CurrentBefore
  <1> QED
    BY <1>1, <1>2, CurrentStep, WithdrawStep, SignStep, ValidationStep DEF Next

(***************************************************************************)
(* The invariant holds in every reachable state.                           *)
(***************************************************************************)
THEOREM PackageInvariance == Spec => []PackageInv
  BY PackageInvInit, PackageInvNext, PTL DEF Spec

----------------------------------------------------------------------------
(***************************************************************************)
(* What a validation that ends well was shown.                             *)
(***************************************************************************)

\* At most one statement is shown, under a signature some authority made.
LEMMA ShownStatus ==
  ASSUME NEW status \in ShownStatuses, NEW s \in status
  PROVE  s.sig \in statements /\ status = {s}
  <1>1. PICK sig \in statements : status \in {{[status |-> t, sig |-> sig]} : t \in Alterations(sig.status)}
    BY DEF ShownStatuses
  <1>2. PICK t \in Alterations(sig.status) : status = {[status |-> t, sig |-> sig]}
    BY <1>1
  <1> QED
    BY <1>2

\* A statement that counts is one that an authority signed, about this record
\* and with the key the manifest names.
LEMMA CountedStatus ==
  ASSUME NEW status \in ShownStatuses, NEW s \in status, NEW m, NEW trust,
         validateVerificationStatus(m, s, trust)
  PROVE  \E st \in statements :
            st.key = m.statusKey /\ st.status = s.status /\ st.status.record = m.id
  <1>1. s.sig \in statements
    BY ShownStatus
  <1>2. s.sig.key = m.statusKey /\ s.sig.status = s.status /\ s.status.record = m.id
    BY DEF validateVerificationStatus
  <1> QED
    BY <1>1, <1>2

\* The signer of what is accepted has a role of its own and signed it.
LEMMA AcceptedSigned ==
  ASSUME NEW pkg \in ShownPackages, NEW trust, Acceptance(pkg, trust) = "accepted",
         pkg.manifest.kind = "verification-record"
  PROVE  LET key == packageSignerKey(pkg.manifest)
         IN  /\ key \in trust.verifiers /\ trust.verifiers \cap trust.operators = {}
             /\ [key |-> key, manifest |-> pkg.manifest] \in signatures
  BY DEF Acceptance, loadPackageTrustKeys, ShownPackages

\* What exit status 0 means for a verification record.
LEMMA ExitZero ==
  ASSUME NEW pkg, NEW trust, NEW status, NEW time, NEW age,
         View(pkg, trust, status, time, age).exit = 0,
         pkg.manifest.kind = "verification-record"
  PROVE  DisplayState(pkg, trust, status, time, age) = "VERIFIED"
  BY DEF View, packageExitCode, DisplayState, StatusState, Acceptance

\* What it takes to be displayed as verified.
LEMMA DisplayedVerified ==
  ASSUME NEW pkg, NEW trust, NEW status \in ShownStatuses, NEW time, NEW age,
         DisplayState(pkg, trust, status, time, age) = "VERIFIED"
  PROVE  /\ Acceptance(pkg, trust) = "accepted" /\ time # NoTime
         /\ pkg.manifest.exit = 0 /\ pkg.manifest.conformance = 0
         /\ pkg.manifest.expires # NoTime => ~(time >= pkg.manifest.expires)
         /\ \E s \in status :
               /\ validateVerificationStatus(pkg.manifest, s, trust)
               /\ StatusState(s.status, time, age) = "VERIFIED"
  <1>1. /\ Acceptance(pkg, trust) = "accepted" /\ time # NoTime
        /\ pkg.manifest.exit = 0 /\ pkg.manifest.conformance = 0
        /\ pkg.manifest.expires # NoTime => ~(time >= pkg.manifest.expires)
        /\ \E s \in status : validateVerificationStatus(pkg.manifest, s, trust)
        /\ StatusState((CHOOSE s \in status : TRUE).status, time, age) = "VERIFIED"
    BY DEF DisplayState, Acceptance
  <1>2. PICK s \in status : validateVerificationStatus(pkg.manifest, s, trust)
    BY <1>1
  <1>3. (CHOOSE t \in status : TRUE) = s
    <2>1. status = {s}
      BY ShownStatus
    <2> QED
      BY <2>1
  <1> QED
    BY <1>1, <1>2, <1>3

\* A verified record's current statement, and how long it lasts.
LEMMA VerifiedStatus ==
  ASSUME NEW status, status.issued \in Int, status.next \in Int, NEW time \in Int,
         NEW age \in Nat, StatusState(status, time, age) = "VERIFIED"
  PROVE  /\ status.state = "current" /\ status.issued <= time /\ time < status.next
         /\ age > 0 => time < status.issued + age
  BY DEF StatusState

----------------------------------------------------------------------------
(***************************************************************************)
(* A record that passes was signed by a verifier: an operator, known as    *)
(* one, cannot make it (package.go 418-440).                               *)
(***************************************************************************)
THEOREM NoSelfVerificationHolds == Spec => []NoSelfVerification
  <1>1. PackageInv => NoSelfVerification
    <2> SUFFICES ASSUME PackageInv, view # NoView, view.exit = 0,
                        view.pkg.manifest.kind = "verification-record"
                 PROVE  [key |-> VerifierKey, manifest |-> view.pkg.manifest] \in signatures
      BY DEF NoSelfVerification
    <2>1. PICK pkg \in ShownPackages, trust \in Trusts, status \in ShownStatuses,
               time \in Times \cup {NoTime}, age \in Ages :
               view = View(pkg, trust, status, time, age)
      BY DEF PackageInv, ViewOK
    <2>2. view.pkg = pkg
      BY <2>1 DEF View
    <2>3. DisplayState(pkg, trust, status, time, age) = "VERIFIED"
      BY <2>1, <2>2, ExitZero
    <2>4. Acceptance(pkg, trust) = "accepted"
      BY <2>3, DisplayedVerified
    <2> DEFINE key == packageSignerKey(pkg.manifest)
               made == [key |-> key, manifest |-> pkg.manifest]
    <2>5. key \in trust.verifiers /\ trust.verifiers \cap trust.operators = {} /\ made \in signatures
      BY <2>2, <2>4, AcceptedSigned
    <2>6. SignatureOK(made) /\ made.key = key
      BY <2>5 DEF PackageInv
    <2>7. key = VerifierKey
      BY <2>5, <2>6, TrustsAssumption DEF SignatureOK
    <2> QED
      BY <2>2, <2>5, <2>7
  <1> QED
    BY <1>1, PackageInvariance, PTL

(***************************************************************************)
(* What exit status 0 means, and that the replay of a current statement is *)
(* bounded by the authority's window and the consumer's maximum age        *)
(* (package.go 208-355).                                                   *)
(***************************************************************************)
THEOREM VerifiedBoundedHolds == Spec => []VerifiedBounded
  <1>1. PackageInv => VerifiedBounded
    <2> SUFFICES ASSUME PackageInv, view # NoView, view.exit = 0,
                        view.pkg.manifest.kind = "verification-record"
                 PROVE  LET m == view.pkg.manifest
                        IN  /\ \E key \in view.trust.verifiers \ view.trust.operators :
                                  [key |-> key, manifest |-> m] \in signatures
                            /\ m.exit = 0 /\ m.conformance = 0
                            /\ m.expires # NoTime => view.time < m.expires
                            /\ \A w \in withdrawn :
                                  w.record = m.id /\ AuthorityKey[w.authority] = m.statusKey =>
                                      /\ view.time < w.at + Window
                                      /\ view.age > 0 => view.time < w.at + view.age
      BY DEF VerifiedBounded
    <2>1. PICK pkg \in ShownPackages, trust \in Trusts, status \in ShownStatuses,
               time \in Times \cup {NoTime}, age \in Ages :
               view = View(pkg, trust, status, time, age)
      BY DEF PackageInv, ViewOK
    <2>2. view.pkg = pkg /\ view.trust = trust /\ view.time = time /\ view.age = age
      BY <2>1 DEF View
    <2>3. DisplayState(pkg, trust, status, time, age) = "VERIFIED"
      BY <2>1, <2>2, ExitZero
    <2> DEFINE m == pkg.manifest
               key == packageSignerKey(m)
    <2>4. /\ Acceptance(pkg, trust) = "accepted" /\ time # NoTime
          /\ m.exit = 0 /\ m.conformance = 0
          /\ m.expires # NoTime => ~(time >= m.expires)
          /\ \E s \in status : /\ validateVerificationStatus(m, s, trust)
                              /\ StatusState(s.status, time, age) = "VERIFIED"
      BY <2>3, DisplayedVerified
    <2>5. time \in Int /\ age \in Nat /\ Window \in Nat /\ m.expires \in Int
      BY TimesAssumption, ManifestsAssumption DEF Times, NoTime, ShownPackages
    <2>6. key \in trust.verifiers \ trust.operators /\ [key |-> key, manifest |-> m] \in signatures
      BY <2>2, <2>4, AcceptedSigned
    <2>7. ASSUME NEW w \in withdrawn, w.record = m.id, AuthorityKey[w.authority] = m.statusKey
          PROVE  time < w.at + Window /\ (age > 0 => time < w.at + age)
      <3>1. PICK s \in status : /\ validateVerificationStatus(m, s, trust)
                                /\ StatusState(s.status, time, age) = "VERIFIED"
        BY <2>4
      <3>2. PICK st \in statements :
                st.key = m.statusKey /\ st.status = s.status /\ st.status.record = m.id
        BY <3>1, CountedStatus
      <3>3. StatementOK(st) /\ WithdrawalOK(w) /\ CurrentBefore(st, w)
        BY DEF PackageInv
      <3>4. st.status.issued \in Int /\ st.status.next \in Int /\ w.at \in Int
        BY <3>3 DEF StatementOK, WithdrawalOK
      <3>5. /\ st.status.state = "current" /\ time < st.status.next
            /\ age > 0 => time < st.status.issued + age
        BY <2>5, <3>1, <3>2, <3>4, VerifiedStatus
      <3>6. st.status.issued <= w.at /\ st.status.next <= st.status.issued + Window
        BY <2>7, <3>2, <3>3, <3>5 DEF CurrentBefore, StatementOK
      <3> QED
        BY <2>5, <3>4, <3>5, <3>6
    <2>8. m.expires # NoTime => time < m.expires
      BY <2>4, <2>5
    <2> QED
      BY <2>2, <2>4, <2>6, <2>7, <2>8
  <1> QED
    BY <1>1, PackageInvariance, PTL

----------------------------------------------------------------------------
(***************************************************************************)
(* The same inputs an instant later.                                       *)
(***************************************************************************)

\* The display with one statement that counts.
Display(pkg, trust, shown, time, age) ==
    IF pkg.manifest.exit = 4 THEN "EVALUATION-OPEN"
    ELSE IF pkg.manifest.exit # 0 THEN "EVALUATION-FAILED"
    ELSE IF pkg.manifest.conformance # 0 THEN "CONFORMANCE-FAILED"
    ELSE IF pkg.manifest.kind = "evaluation-package" THEN "EVALUATED"
    ELSE IF time = NoTime THEN "STATUS-UNKNOWN"
    ELSE IF pkg.manifest.expires # NoTime /\ time >= pkg.manifest.expires THEN "EXPIRED"
    ELSE StatusState(shown.status, time, age)

LEMMA DisplayOne ==
  ASSUME NEW pkg, NEW trust, NEW status \in ShownStatuses, NEW s \in status,
         Acceptance(pkg, trust) = "accepted",
         validateVerificationStatus(pkg.manifest, s, trust), NEW time, NEW age
  PROVE  DisplayState(pkg, trust, status, time, age) = Display(pkg, trust, s, time, age)
  <1>1. status = {s}
    BY ShownStatus
  <1>2. (CHOOSE t \in status : TRUE) = s /\ \E t \in status : validateVerificationStatus(pkg.manifest, t, trust)
    BY <1>1
  <1> QED
    BY <1>2 DEF DisplayState, Display

\* Nothing but a statement that counts makes a record verified or withdrawn.
LEMMA DisplayNeedsStatus ==
  ASSUME NEW pkg, NEW trust, NEW status, NEW time, NEW age,
         DisplayState(pkg, trust, status, time, age) \in {"VERIFIED", "REVOKED", "SUPERSEDED"}
  PROVE  /\ Acceptance(pkg, trust) = "accepted"
         /\ \E s \in status : validateVerificationStatus(pkg.manifest, s, trust)
  <1>1. Acceptance(pkg, trust) \in {"INVALID", "UNTRUSTED", "accepted"}
    BY DEF Acceptance
  <1> QED
    BY <1>1 DEF DisplayState

LEMMA StatusLater ==
  ASSUME NEW status, status.issued \in Int, status.next \in Int, status.effective \in Int,
         NEW time \in Int, NEW age \in Nat
  PROVE  /\ StatusState(status, time, age) \in {"REVOKED", "SUPERSEDED"} =>
              StatusState(status, time + 1, age) = StatusState(status, time, age)
         /\ StatusState(status, time + 1, age) = "VERIFIED" =>
              StatusState(status, time, age) = "VERIFIED" \/ time < status.issued
  <1>1. ASSUME StatusState(status, time, age) \in {"REVOKED", "SUPERSEDED"}
        PROVE  StatusState(status, time + 1, age) = StatusState(status, time, age)
    <2>1. ~(time < status.issued) /\ status.state # "current" /\ ~(time < status.effective)
      BY <1>1 DEF StatusState
    <2>2. ~(time + 1 < status.issued) /\ ~(time + 1 < status.effective)
      BY <2>1
    <2> QED
      BY <2>1, <2>2 DEF StatusState
  <1>2. ASSUME StatusState(status, time + 1, age) = "VERIFIED", ~(time < status.issued)
        PROVE  StatusState(status, time, age) = "VERIFIED"
    <2>1. /\ status.state = "current" /\ time + 1 < status.next
          /\ age > 0 => time + 1 < status.issued + age
      BY <1>2, VerifiedStatus
    <2>2. ~(age > 0 /\ time >= status.issued + age) /\ ~(time >= status.next)
      BY <2>1
    <2> QED
      BY <1>2, <2>1, <2>2 DEF StatusState
  <1> QED
    BY <1>1, <1>2

\* The same inputs an instant later: nothing withdrawn comes back, and only a
\* statement that was not yet issued makes a record verified.
LEMMA DisplayLater ==
  ASSUME PackageInv, NEW pkg \in ShownPackages, NEW trust, NEW status \in ShownStatuses,
         NEW time \in Times, NEW age \in Ages
  PROVE  LET now == DisplayState(pkg, trust, status, time, age)
             later == DisplayState(pkg, trust, status, time + 1, age)
         IN  /\ now \in {"REVOKED", "SUPERSEDED"} => later \in {now, "EXPIRED"}
             /\ later = "VERIFIED" =>
                   now = "VERIFIED" \/ \E s \in status : time < s.status.issued
  <1> DEFINE now == DisplayState(pkg, trust, status, time, age)
             later == DisplayState(pkg, trust, status, time + 1, age)
  <1>1. CASE /\ Acceptance(pkg, trust) = "accepted"
             /\ \E s \in status : validateVerificationStatus(pkg.manifest, s, trust)
    <2>1. PICK s \in status : validateVerificationStatus(pkg.manifest, s, trust)
      BY <1>1
    <2>2. s.status.issued \in Int /\ s.status.next \in Int /\ s.status.effective \in Int
      <3>1. PICK st \in statements : st.status = s.status
        BY <2>1, CountedStatus
      <3> QED
        BY <3>1 DEF PackageInv, StatementOK
    <2>3. time \in Int /\ age \in Nat /\ pkg.manifest.expires \in Int
          /\ time # NoTime /\ time + 1 # NoTime
      BY TimesAssumption, ManifestsAssumption DEF Times, NoTime, ShownPackages
    <2>4. now = Display(pkg, trust, s, time, age)
      BY <1>1, <2>1, DisplayOne
    <2>5. later = Display(pkg, trust, s, time + 1, age)
      BY <1>1, <2>1, DisplayOne
    <2>6. time + 1 < pkg.manifest.expires => time < pkg.manifest.expires
      BY <2>3
    <2> HIDE DEF now, later
    <2>7. now \in {"REVOKED", "SUPERSEDED"} => later \in {now, "EXPIRED"}
      BY <2>2, <2>3, <2>4, <2>5, StatusLater DEF Display
    <2>8. later = "VERIFIED" => now = "VERIFIED" \/ time < s.status.issued
      BY <2>2, <2>3, <2>4, <2>5, <2>6, StatusLater DEF Display
    <2> QED
      BY <2>7, <2>8 DEF now, later
  <1> QED
    BY <1>1, DisplayNeedsStatus

(***************************************************************************)
(* With the same inputs a later validation never takes bad news back       *)
(* (package.go 263-355).                                                   *)
(***************************************************************************)
THEOREM BadNewsStaysHolds == Spec => BadNewsStays
  <1> DEFINE Kept ==
        /\ view.state \in {"REVOKED", "SUPERSEDED"} => view'.state \in {view.state, "EXPIRED"}
        /\ view'.state = "VERIFIED" =>
              view.state = "VERIFIED" \/ \E s \in view.status : view.time < s.status.issued
  <1>1. PackageInv /\ [Next]_vars => [view # NoView => Kept]_view
    <2> SUFFICES ASSUME PackageInv, [Next]_vars, view # NoView, view' # view PROVE Kept
      OBVIOUS
    <2>1. ValidateAgain
      BY DEF Next, vars, Tick, Sign, IssueCurrent, Withdraw, Issue, World, Validate
    <2>2. PICK pkg \in ShownPackages, trust \in Trusts, status \in ShownStatuses,
               time \in Times \cup {NoTime}, age \in Ages :
               view = View(pkg, trust, status, time, age)
      BY DEF PackageInv, ViewOK
    <2>3. /\ view.pkg = pkg /\ view.trust = trust /\ view.status = status
          /\ view.time = time /\ view.age = age
          /\ view.state = DisplayState(pkg, trust, status, time, age)
      BY <2>2 DEF View
    <2>4. time \in Times
      BY <2>1, <2>3, TimesAssumption DEF ValidateAgain, Times, NoTime
    <2>5. view'.state = DisplayState(pkg, trust, status, time + 1, age)
      BY <2>1, <2>3 DEF ValidateAgain, View
    <2> QED
      BY <2>3, <2>4, <2>5, DisplayLater
  <1> QED
    BY <1>1, PackageInvariance, PTL DEF Spec, BadNewsStays
=============================================================================
