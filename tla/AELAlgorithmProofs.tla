------------------------- MODULE AELAlgorithmProofs -------------------------
(***************************************************************************)
(* Proofs about the sequential algorithms: the governability report, for   *)
(* any records and any correspondence set; the replay of decisions, for    *)
(* any policies, inputs and records, however the policy directory is       *)
(* rearranged; Merkle proofs, for any log, entry and proof; the paths of   *)
(* an emission, for any file system of directories and links; and the      *)
(* limits of a manifest, for any text and any limits.                      *)
(***************************************************************************)
EXTENDS AELGov, AELMerkle, AELPolicy, AELPaths, AELLimits, NaturalsInduction,
        SequenceTheorems, FiniteSetTheorems, FunctionTheorems, TLAPS

\* Every non-empty set of naturals has a least element.
LEMMA LeastElement ==
    ASSUME NEW T, T \subseteq Nat, T # {}
    PROVE  \E d \in T : \A e \in T : d <= e
<1>1. IsWellFoundedOn(OpToRel(<,Nat), Nat)
  BY NatLessThanWellFounded
<1>2. PICK x \in T : \A y \in T : ~ (<<y, x>> \in OpToRel(<,Nat))
  BY <1>1, WFMin
<1>3. \A y \in T : ~(y < x)
  BY <1>2 DEF OpToRel
<1> QED BY <1>3

----------------------------------------------------------------------------
(***************************************************************************)
(* AELGov: classes, provenances and findings.                              *)
(***************************************************************************)
Above(b, a) ==
    \/ revOrder(b.class) > revOrder(a.class)
    \/ revOrder(b.class) = revOrder(a.class) /\ statusRank(b.status) > statusRank(a.status)

IsFinding(ev) ==
    /\ ev = [id |-> ev.id, eventClass |-> ev.eventClass, status |-> ev.status, class |-> ev.class]
    /\ Known(ev.class)

LEMMA RevOrder ==
    ASSUME NEW class, Known(class)
    PROVE  /\ revOrder(class) \in 1..4
           /\ revOrder(class) = 4 <=> class = "irreversible"
<1>1. /\ DOMAIN vocabulary = 1..4
      /\ vocabulary[1] = "read-only" /\ vocabulary[2] = "reversible"
      /\ vocabulary[3] = "external-reversible" /\ vocabulary[4] = "irreversible"
  BY DEF vocabulary
<1>2. PICK i \in 1..4 : vocabulary[i] = class
  BY <1>1 DEF Known, Range
<1>3. \A j, k \in 1..4 : vocabulary[j] = vocabulary[k] => j = k
  BY <1>1
<1>4. revOrder(class) \in 1..4 /\ vocabulary[revOrder(class)] = class
  BY <1>1, <1>2 DEF revOrder
<1> QED BY <1>1, <1>3, <1>4

LEMMA StatusRank == \A status : /\ statusRank(status) \in 0..2
                                /\ statusRank(status) = 2 <=> status = "POLICY-BOUND"
BY DEF statusRank

LEMMA Classified ==
    ASSUME NEW rec
    PROVE  LET ev == classifyEvent(rec)
           IN  IsFinding(ev) /\ ev.id = rec.id /\ ev.eventClass = rec.class
<1>1. Known("irreversible")
  BY DEF Known, Range, vocabulary
<1>2. \A class : Known(normalizeClass(class))
  BY <1>1 DEF normalizeClass
<1> DEFINE Good(ev) == IsFinding(ev) /\ ev.id = rec.id /\ ev.eventClass = rec.class
<1>3. ASSUME NEW status, NEW class, Known(class)
      PROVE  Good(Finding(rec, status, class))
  BY <1>3 DEF IsFinding, Finding
<1> HIDE DEF Good
<1>4. Good(classifyEvent(rec))
  BY <1>1, <1>2, <1>3 DEF classifyEvent
<1> QED BY <1>4 DEF Good

\* mergeEvent keeps one of the two, and neither is above it.
LEMMA Merged ==
    ASSUME NEW a, NEW b, IsFinding(a), IsFinding(b)
    PROVE  /\ mergeEvent(a, b) \in {a, b}
           /\ ~Above(a, mergeEvent(a, b)) /\ ~Above(b, mergeEvent(a, b))
           /\ \A c : IsFinding(c) /\ ~Above(c, a) => ~Above(c, mergeEvent(a, b))
<1>1. \A c : IsFinding(c) => revOrder(c.class) \in 1..4 /\ statusRank(c.status) \in 0..2
  BY RevOrder, StatusRank DEF IsFinding
<1> QED BY <1>1 DEF mergeEvent, Above

----------------------------------------------------------------------------
(***************************************************************************)
(* What the account of one event id holds, told from the set of verified   *)
(* records about it and not from their order.                              *)
(***************************************************************************)
AccountOf(a, S) ==
    /\ a = [primary |-> a.primary, classes |-> a.classes, conflict |-> a.conflict,
            unassessable |-> a.unassessable]
    /\ \E rec \in S : a.primary = classifyEvent(rec)
    /\ \A rec \in S : ~Above(classifyEvent(rec), a.primary)
    /\ a.classes = {rec.class : rec \in S} \ {Unnamed}
    /\ a.conflict <=> \E r1, r2 \in S : Unnamed \notin {r1.class, r2.class} /\ r1.class # r2.class
    /\ a.unassessable <=> \E rec \in S : classifyEvent(rec).status = "UNASSESSABLE"

AboutId(S, id) == {rec \in S : rec.id = id}

Describes(acc, S) ==
    /\ acc = [id \in DOMAIN acc |-> acc[id]]
    /\ DOMAIN acc = {rec.id : rec \in S}
    /\ \A id \in DOMAIN acc : AccountOf(acc[id], AboutId(S, id))

\* The account of an id after one more record about it.
LEMMA AccountFirst ==
    ASSUME NEW rec
    PROVE  LET ev == classifyEvent(rec)
           IN  AccountOf([primary |-> ev, classes |-> {ev.eventClass} \ {Unnamed},
                          conflict |-> FALSE, unassessable |-> ev.status = "UNASSESSABLE"], {rec})
<1>1. ~Above(classifyEvent(rec), classifyEvent(rec))
  BY Classified, RevOrder, StatusRank DEF Above, IsFinding
<1> QED BY <1>1, Classified DEF AccountOf

LEMMA AccountNext ==
    ASSUME NEW a, NEW S, AccountOf(a, S), NEW rec
    PROVE  LET ev == classifyEvent(rec)
               classes == {ev.eventClass} \ {Unnamed}
           IN  AccountOf([primary |-> mergeEvent(a.primary, ev),
                          classes |-> a.classes \cup classes,
                          conflict |-> \/ a.conflict
                                       \/ a.classes # {} /\ ~(classes \subseteq a.classes),
                          unassessable |-> a.unassessable \/ ev.status = "UNASSESSABLE"],
                         S \cup {rec})
<1> DEFINE ev == classifyEvent(rec)
           classes == {ev.eventClass} \ {Unnamed}
           conflict == a.conflict \/ (a.classes # {} /\ ~(classes \subseteq a.classes))
           T == S \cup {rec}
<1>1. IsFinding(ev) /\ ev.eventClass = rec.class
  BY Classified
<1>2. PICK r \in S : a.primary = classifyEvent(r)
  BY DEF AccountOf
<1>3. IsFinding(a.primary)
  BY <1>2, Classified
<1>4. /\ \E r1 \in T : mergeEvent(a.primary, ev) = classifyEvent(r1)
      /\ \A r1 \in T : ~Above(classifyEvent(r1), mergeEvent(a.primary, ev))
  <2>1. mergeEvent(a.primary, ev) \in {a.primary, ev}
    BY <1>1, <1>3, Merged
  <2>2. \A r1 \in S : IsFinding(classifyEvent(r1)) /\ ~Above(classifyEvent(r1), a.primary)
    BY Classified DEF AccountOf
  <2>3. ~Above(ev, mergeEvent(a.primary, ev))
    BY <1>1, <1>3, Merged
  <2>4. \A r1 \in S : ~Above(classifyEvent(r1), mergeEvent(a.primary, ev))
    BY <1>1, <1>3, <2>2, Merged
  <2> QED BY <1>2, <2>1, <2>3, <2>4
<1>5. a.classes \cup classes = {r1.class : r1 \in T} \ {Unnamed}
  BY <1>1 DEF AccountOf
<1>6. conflict <=> \E r1, r2 \in T : Unnamed \notin {r1.class, r2.class} /\ r1.class # r2.class
  BY <1>1 DEF AccountOf
<1>7. (a.unassessable \/ ev.status = "UNASSESSABLE")
         <=> \E r1 \in T : classifyEvent(r1).status = "UNASSESSABLE"
  BY DEF AccountOf
<1> QED BY <1>4, <1>5, <1>6, <1>7 DEF AccountOf

\* account keeps the accounts described by the records so far.
LEMMA AccountStep ==
    ASSUME NEW acc, NEW S, Describes(acc, S), NEW rec
    PROVE  Describes(account(acc, rec), IF rec.verified THEN S \cup {rec} ELSE S)
<1>1. CASE ~rec.verified
  BY <1>1 DEF account
<1>2. CASE rec.verified
  <2> DEFINE ev == classifyEvent(rec)
             T == S \cup {rec}
             after == accumulate(acc, ev)
  <2>1. ev.id = rec.id /\ account(acc, rec) = after
    BY <1>2, Classified DEF account
  <2>2. /\ \A id : id # rec.id => AboutId(T, id) = AboutId(S, id)
        /\ AboutId(T, rec.id) = AboutId(S, rec.id) \cup {rec}
        /\ rec.id \notin DOMAIN acc => AboutId(S, rec.id) = {}
        /\ {r.id : r \in T} = {r.id : r \in S} \cup {rec.id}
    BY DEF AboutId, Describes
  <2>3. CASE rec.id \notin DOMAIN acc
    <3>1. /\ DOMAIN after = DOMAIN acc \cup {rec.id}
          /\ after = [id \in DOMAIN after |-> after[id]]
          /\ \A id \in DOMAIN acc : after[id] = acc[id]
          /\ after[rec.id] = [primary |-> ev, classes |-> {ev.eventClass} \ {Unnamed},
                              conflict |-> FALSE, unassessable |-> ev.status = "UNASSESSABLE"]
      BY <2>1, <2>3 DEF accumulate
    <3>2. AccountOf(after[rec.id], AboutId(T, rec.id))
      <4>1. AboutId(T, rec.id) = {rec}
        BY <2>2, <2>3
      <4> HIDE DEF T, after
      <4> QED BY <3>1, <4>1, AccountFirst
    <3> HIDE DEF after
    <3>3. DOMAIN after = {r.id : r \in T}
      BY <2>2, <3>1 DEF Describes
    <3>4. ASSUME NEW id \in DOMAIN after PROVE AccountOf(after[id], AboutId(T, id))
      <4>1. CASE id = rec.id
        BY <3>2, <4>1
      <4>2. CASE id # rec.id
        <5>1. id \in DOMAIN acc /\ after[id] = acc[id] /\ AboutId(T, id) = AboutId(S, id)
          BY <2>2, <3>1, <4>2
        <5> QED BY <5>1 DEF Describes
      <4> QED BY <4>1, <4>2
    <3> HIDE DEF T
    <3>5. Describes(after, T)
      BY <3>1, <3>3, <3>4 DEF Describes
    <3> QED BY <1>2, <2>1, <3>5 DEF T
  <2>4. CASE rec.id \in DOMAIN acc
    <3> DEFINE a == acc[rec.id]
               classes == {ev.eventClass} \ {Unnamed}
               next == [primary |-> mergeEvent(a.primary, ev),
                        classes |-> a.classes \cup classes,
                        conflict |-> \/ a.conflict
                                     \/ a.classes # {} /\ ~(classes \subseteq a.classes),
                        unassessable |-> a.unassessable \/ ev.status = "UNASSESSABLE"]
    <3>1. after = [acc EXCEPT ![rec.id] = next]
      BY <2>1, <2>4, Zenon DEF accumulate
    <3>2. AccountOf(next, AboutId(T, rec.id))
      <4>1. AccountOf(a, AboutId(S, rec.id))
        BY <2>4 DEF Describes
      <4> HIDE DEF a
      <4>2. AccountOf(next, AboutId(S, rec.id) \cup {rec})
        BY <4>1, AccountNext
      <4> QED BY <2>2, <4>2
    <3> HIDE DEF next
    <3>3. /\ DOMAIN after = DOMAIN acc
          /\ after = [id \in DOMAIN after |-> after[id]]
          /\ \A id \in DOMAIN acc : id # rec.id => after[id] = acc[id]
          /\ after[rec.id] = next
      BY <2>4, <3>1 DEF Describes
    <3> HIDE DEF after, T
    <3> QED BY <1>2, <2>1, <2>2, <2>4, <3>2, <3>3 DEF Describes, T
  <2> QED BY <2>3, <2>4
<1> QED BY <1>1, <1>2

\* The records that count, among the first n.
VerifiedOf(recs, n) == {recs[k] : k \in {j \in 1..n : recs[j].verified}}

IsAccounts(f, recs, n) ==
    f = [k \in 0..n |-> IF k = 0 THEN << >> ELSE account(f[k - 1], recs[k])]

\* The recursion of Accounts has a solution: there is no least length without.
LEMMA AccountsExist ==
    ASSUME NEW recs, NEW n \in Nat
    PROVE  \E f : IsAccounts(f, recs, n)
<1> DEFINE T == {k \in Nat : ~\E f : IsAccounts(f, recs, k)}
<1>1. SUFFICES ASSUME T # {} PROVE FALSE
  OBVIOUS
<1>2. PICK m \in T : \A k \in T : m <= k
  BY <1>1, LeastElement
<1>3. m # 0
  <2> DEFINE f == [k \in 0..0 |-> << >>]
  <2>1. \A k \in 0..0 : k = 0
    OBVIOUS
  <2>2. IsAccounts(f, recs, 0)
    BY <2>1 DEF IsAccounts
  <2> QED BY <2>2
<1>4. m - 1 \in Nat /\ m - 1 \notin T
  BY <1>2, <1>3
<1>5. PICK f : IsAccounts(f, recs, m - 1)
  BY <1>4
<1> DEFINE g == [k \in 0..m |-> IF k = m THEN account(f[m - 1], recs[m]) ELSE f[k]]
<1>6. \A k \in 0..m : g[k] = IF k = 0 THEN << >> ELSE account(g[k - 1], recs[k])
  <2> SUFFICES ASSUME NEW k \in 0..m
               PROVE  g[k] = IF k = 0 THEN << >> ELSE account(g[k - 1], recs[k])
    OBVIOUS
  <2>1. CASE k = m
    BY <1>3, <1>4, <2>1
  <2>2. CASE k # m
    <3>1. k \in 0..(m - 1) /\ g[k] = f[k] /\ (k # 0 => k - 1 \in 0..m /\ k - 1 # m)
      BY <1>4, <2>2
    <3>2. f[k] = IF k = 0 THEN << >> ELSE account(f[k - 1], recs[k])
      BY <1>5, <3>1 DEF IsAccounts
    <3> QED BY <3>1, <3>2
  <2> QED BY <2>1, <2>2
<1>7. IsAccounts(g, recs, m)
  <2> DEFINE h == [k \in 0..m |-> IF k = 0 THEN << >> ELSE account(g[k - 1], recs[k])]
  <2>1. \A k \in 0..m : g[k] = h[k]
    BY <1>6
  <2>2. g = h
    BY <2>1
  <2> QED BY <2>2 DEF IsAccounts
<1> QED BY <1>2, <1>7

\* Whatever their order, the accounts are described by the verified records.
LEMMA AccountsDescribed ==
    ASSUME NEW recs, Len(recs) \in Nat
    PROVE  Describes(Accumulated(recs), VerifiedOf(recs, Len(recs)))
<1> DEFINE n == Len(recs)
           after == Accounts(recs)
<1>1. IsAccounts(after, recs, n)
  <2>1. after = CHOOSE f : f = [k \in 0..n |-> IF k = 0 THEN << >> ELSE account(f[k - 1], recs[k])]
    BY Zenon DEF Accounts
  <2>2. \E f : f = [k \in 0..n |-> IF k = 0 THEN << >> ELSE account(f[k - 1], recs[k])]
    BY AccountsExist, Zenon DEF IsAccounts
  <2> QED BY <2>1, <2>2, Zenon DEF IsAccounts
<1> HIDE DEF n, after
<1>2. n \in Nat
  BY DEF n
<1>3. \A k \in 0..n : after[k] = IF k = 0 THEN << >> ELSE account(after[k - 1], recs[k])
  BY <1>1, <1>2 DEF IsAccounts
<1> DEFINE T == {k \in 0..n : ~Describes(after[k], VerifiedOf(recs, k))}
<1>4. T = {}
  <2>1. SUFFICES ASSUME T # {} PROVE FALSE
    OBVIOUS
  <2>2. PICK m \in T : \A k \in T : m <= k
    <3>1. T \subseteq Nat
      BY <1>2
    <3> HIDE DEF T
    <3> QED BY <2>1, <3>1, LeastElement
  <2>3. Describes(after[0], VerifiedOf(recs, 0))
    <3>1. after[0] = << >> /\ VerifiedOf(recs, 0) = {}
      BY <1>2, <1>3 DEF VerifiedOf
    <3> QED BY <3>1 DEF Describes
  <2>4. m \in 1..n /\ m - 1 \in 0..n
    BY <1>2, <2>2, <2>3
  <2>5. Describes(after[m - 1], VerifiedOf(recs, m - 1)) /\ after[m] = account(after[m - 1], recs[m])
    BY <1>2, <1>3, <2>2, <2>4
  <2>6. VerifiedOf(recs, m)
          = IF recs[m].verified THEN VerifiedOf(recs, m - 1) \cup {recs[m]}
            ELSE VerifiedOf(recs, m - 1)
    <3>1. \A j : j \in 1..m <=> j \in 1..(m - 1) \/ j = m
      BY <1>2, <2>4
    <3>2. CASE recs[m].verified
      <4>1. {j \in 1..m : recs[j].verified} = {j \in 1..(m - 1) : recs[j].verified} \cup {m}
        BY <3>1, <3>2
      <4>2. VerifiedOf(recs, m) = VerifiedOf(recs, m - 1) \cup {recs[m]}
        BY <4>1 DEF VerifiedOf
      <4> QED BY <3>2, <4>2
    <3>3. CASE ~recs[m].verified
      <4>1. {j \in 1..m : recs[j].verified} = {j \in 1..(m - 1) : recs[j].verified}
        BY <3>1, <3>3
      <4>2. VerifiedOf(recs, m) = VerifiedOf(recs, m - 1)
        BY <4>1, Zenon DEF VerifiedOf
      <4> QED BY <3>3, <4>2
    <3> QED BY <3>2, <3>3
  <2>7. Describes(account(after[m - 1], recs[m]), VerifiedOf(recs, m))
    <3> HIDE DEF T
    <3>1. Describes(account(after[m - 1], recs[m]),
                    IF recs[m].verified THEN VerifiedOf(recs, m - 1) \cup {recs[m]}
                    ELSE VerifiedOf(recs, m - 1))
      BY <2>5, AccountStep
    <3> QED BY <2>6, <3>1, Zenon
  <2>8. ~Describes(after[m], VerifiedOf(recs, m))
    OBVIOUS
  <2> HIDE DEF T
  <2> QED BY <2>5, <2>7, <2>8
<1>5. Describes(after[n], VerifiedOf(recs, n))
  BY <1>2, <1>4
<1> QED BY <1>5 DEF Accumulated, after, n

----------------------------------------------------------------------------
(***************************************************************************)
(* Coverage, from what describes the accounts.                             *)
(***************************************************************************)
LEMMA OkMeansCovered ==
    ASSUME NEW recs, coverage(recs).status = "OK"
    PROVE  \A i \in DOMAIN Accumulated(recs) :
              LET a == Accumulated(recs)[i]
              IN  Lowered(finalizeEvent(a)) \/ a.classes \subseteq Correspondence
BY DEF coverage

LEMMA GapsUncovered ==
    ASSUME NEW recs, NEW id \in coverage(recs).gaps
    PROVE  /\ id \in DOMAIN Accumulated(recs)
           /\ ~(Accumulated(recs)[id].classes \subseteq Correspondence)
BY DEF coverage

\* Two runs that differ in order only have accounts that differ only in which
\* of several equal findings they keep.
LEMMA SameCoverage ==
    ASSUME NEW r1, NEW r2,
           LET acc1 == Accumulated(r1) acc2 == Accumulated(r2)
           IN  /\ DOMAIN acc1 = DOMAIN acc2
               /\ \A i \in DOMAIN acc1 :
                     /\ acc1[i].conflict <=> acc2[i].conflict
                     /\ acc1[i].classes = acc2[i].classes
                     /\ Lowered(finalizeEvent(acc1[i])) <=> Lowered(finalizeEvent(acc2[i]))
                     /\ classRecoverable(finalizeEvent(acc1[i]))
                     /\ classRecoverable(finalizeEvent(acc2[i]))
    PROVE  coverage(r1) = coverage(r2)
<1> DEFINE acc1 == Accumulated(r1)
           acc2 == Accumulated(r2)
           anomalies(acc) == {i \in DOMAIN acc : acc[i].conflict}
           gaps(acc) == {i \in DOMAIN acc : /\ ~Lowered(finalizeEvent(acc[i]))
                                            /\ ~(acc[i].classes \subseteq Correspondence)}
           lost(acc) == \E i \in DOMAIN acc : LET ev == finalizeEvent(acc[i])
                                              IN  ev.status = "UNASSESSABLE" /\ ~classRecoverable(ev)
           status(acc) == IF lost(acc) THEN "UNASSESSABLE"
                          ELSE IF Correspondence = {} THEN "N/A"
                          ELSE IF gaps(acc) = {} THEN "OK" ELSE "GAP"
<1>1. /\ coverage(r1) = [status |-> status(acc1), anomalies |-> anomalies(acc1),
                         gaps |-> IF status(acc1) = "GAP" THEN gaps(acc1) ELSE {}]
      /\ coverage(r2) = [status |-> status(acc2), anomalies |-> anomalies(acc2),
                         gaps |-> IF status(acc2) = "GAP" THEN gaps(acc2) ELSE {}]
  BY Zenon DEF coverage
<1> HIDE DEF acc1, acc2
<1>2. /\ DOMAIN acc1 = DOMAIN acc2
      /\ \A i \in DOMAIN acc1 :
            /\ acc1[i].conflict <=> acc2[i].conflict
            /\ acc1[i].classes = acc2[i].classes
            /\ Lowered(finalizeEvent(acc1[i])) <=> Lowered(finalizeEvent(acc2[i]))
            /\ classRecoverable(finalizeEvent(acc1[i]))
            /\ classRecoverable(finalizeEvent(acc2[i]))
  BY DEF acc1, acc2
<1>3. anomalies(acc1) = anomalies(acc2) /\ gaps(acc1) = gaps(acc2)
  BY <1>2
<1>4. ~lost(acc1) /\ ~lost(acc2)
  BY <1>2
<1>5. status(acc1) = status(acc2)
  BY <1>3, <1>4
<1> HIDE DEF status, anomalies, gaps
<1> QED BY <1>1, <1>3, <1>5

\* An event is lowered exactly when nobody failed to assess it and the worst of
\* its findings is a mild one that a policy makes.
LEMMA LoweredFromSet ==
    ASSUME NEW a, NEW S, AccountOf(a, S)
    PROVE  Lowered(finalizeEvent(a)) <=>
              /\ ~\E rec \in S : classifyEvent(rec).status = "UNASSESSABLE"
              /\ \E rec \in S : /\ Lowered(classifyEvent(rec))
                                /\ \A other \in S : ~Above(classifyEvent(other), classifyEvent(rec))
<1>1. PICK r \in S : a.primary = classifyEvent(r)
  BY DEF AccountOf
<1>2. \A rec \in S : IsFinding(classifyEvent(rec)) /\ ~Above(classifyEvent(rec), a.primary)
  BY Classified DEF AccountOf
<1>3. CASE a.unassessable
  <2>1. finalizeEvent(a).status = "UNASSESSABLE"
    BY <1>1, <1>2, <1>3 DEF finalizeEvent, IsFinding
  <2> QED BY <1>3, <2>1 DEF Lowered, AccountOf
<1>4. CASE ~a.unassessable
  <2>1. Lowered(finalizeEvent(a)) <=> Lowered(a.primary)
    BY <1>4 DEF finalizeEvent
  <2>2. ASSUME NEW rec \in S, Lowered(classifyEvent(rec)),
               \A other \in S : ~Above(classifyEvent(other), classifyEvent(rec))
        PROVE  Lowered(a.primary)
    <3> DEFINE ev == classifyEvent(rec)
               p == a.primary
    <3>1. ~Above(p, ev) /\ ~Above(ev, p) /\ IsFinding(ev) /\ IsFinding(p)
      BY <1>1, <1>2, <2>2
    <3> HIDE DEF ev, p
    <3>2. /\ revOrder(ev.class) \in 1..4 /\ revOrder(p.class) \in 1..4
          /\ statusRank(ev.status) \in 0..2 /\ statusRank(p.status) \in 0..2
      BY <3>1, RevOrder, StatusRank DEF IsFinding
    <3>3. revOrder(ev.class) = revOrder(p.class) /\ statusRank(ev.status) = statusRank(p.status)
      BY <3>1, <3>2 DEF Above
    <3> QED BY <2>2, <3>1, <3>3, RevOrder, StatusRank DEF Lowered, IsFinding, ev, p
  <2> QED BY <1>1, <1>2, <1>4, <2>1, <2>2 DEF AccountOf
<1> QED BY <1>3, <1>4

\* Each account is of an id of its own, and its finding keeps a class of it.
LEMMA FinalRecoverable ==
    ASSUME NEW a, NEW S, AccountOf(a, S), \A rec \in S : classRecoverable(classifyEvent(rec))
    PROVE  classRecoverable(finalizeEvent(a))
<1>1. PICK r \in S : a.primary = classifyEvent(r)
  BY DEF AccountOf
<1>2. IsFinding(a.primary) /\ classRecoverable(a.primary)
  BY <1>1, Classified
<1>3. finalizeEvent(a).id = a.primary.id /\ finalizeEvent(a).eventClass = a.primary.eventClass
  BY <1>2 DEF finalizeEvent, IsFinding
<1> QED BY <1>2, <1>3 DEF classRecoverable

----------------------------------------------------------------------------
(***************************************************************************)
(* The report is the coverage of the log.                                  *)
(***************************************************************************)
GovInv ==
    /\ log \in Seq(RecordKinds)
    /\ report # << >> => report = <<coverage(log)>>

LEMMA GovInvariance == Spec => []GovInv
<1>1. Init => GovInv
  BY DEF Init, GovInv
<1>2. GovInv /\ [Next]_vars => GovInv'
  <2> SUFFICES ASSUME GovInv, [Next]_vars PROVE GovInv'
    OBVIOUS
  <2>1. ASSUME NEW rec \in RecordKinds, Record(rec) PROVE GovInv'
    BY <2>1 DEF Record, GovInv
  <2>2. CASE Govern
    <3>1. log' = log /\ report' = <<coverage(log)>>
      BY <2>2 DEF Govern
    <3>2. coverage(log)' = coverage(log)
      BY <3>1
    <3> QED BY <3>1, <3>2 DEF GovInv
  <2>3. CASE UNCHANGED vars
    <3>1. coverage(log)' = coverage(log)
      BY <2>3 DEF vars
    <3> QED BY <2>3, <3>1 DEF GovInv, vars
  <2> QED BY <2>1, <2>2, <2>3 DEF Next
<1> QED BY <1>1, <1>2, PTL DEF Spec

\* For any records: a run reported OK has no event that some verified record shows
\* to be irreversible and some verified record gives a class outside the set, and
\* every gap is an event that was given such a class; an event whose class is left
\* empty in every record is neither (accumulate, mergeEvent, coverage).
THEOREM WorstCaseKeptHolds == Spec => []WorstCaseKept
<1>1. ASSUME GovInv, Reported, report[1].status = "OK",
             NEW i \in Verified, NEW j \in Verified, Severe(log[i]), log[j].id = log[i].id
      PROVE  ~Outside(log[j])
  <2> DEFINE acc == Accumulated(log)
             S == VerifiedOf(log, Len(log))
             a == acc[log[i].id]
             T == AboutId(S, log[i].id)
  <2>1. coverage(log).status = "OK" /\ Len(log) \in Nat /\ DOMAIN log = 1..Len(log)
    BY <1>1 DEF GovInv, Reported
  <2>2. Describes(acc, S)
    BY <2>1, AccountsDescribed
  <2>3. log[i] \in T /\ log[j] \in T /\ T \subseteq S
    BY <1>1, <2>1 DEF Verified, VerifiedOf, AboutId
  <2> HIDE DEF S
  <2>4. log[i].id \in DOMAIN acc /\ AccountOf(a, T)
    BY <2>2, <2>3 DEF Describes
  <2>5. Lowered(finalizeEvent(a)) \/ a.classes \subseteq Correspondence
    BY <2>1, <2>4, OkMeansCovered
  <2> HIDE DEF acc, T
  <2>6. ~Lowered(finalizeEvent(a))
    <3>1. \A rec \in T : Lowered(classifyEvent(rec)) => Above(classifyEvent(log[i]), classifyEvent(rec))
      <4> SUFFICES ASSUME NEW rec \in T, Lowered(classifyEvent(rec))
                   PROVE  Above(classifyEvent(log[i]), classifyEvent(rec))
        OBVIOUS
      <4>1. Known(classifyEvent(rec).class) /\ Known(classifyEvent(log[i]).class)
        BY Classified DEF IsFinding
      <4>2. classifyEvent(log[i]).class = "irreversible" /\ classifyEvent(rec).class # "irreversible"
        BY <1>1 DEF Severe, Lowered
      <4> QED BY <4>1, <4>2, RevOrder DEF Above
    <3> QED BY <2>3, <2>4, <3>1, LoweredFromSet
  <2>7. log[j].class \in a.classes \cup {Unnamed}
    BY <2>3, <2>4 DEF AccountOf
  <2> QED BY <2>5, <2>6, <2>7 DEF Outside
<1>2. ASSUME GovInv, Reported, NEW id \in report[1].gaps
      PROVE  \E j \in Verified : log[j].id = id /\ Outside(log[j])
  <2> DEFINE acc == Accumulated(log)
             S == VerifiedOf(log, Len(log))
             a == acc[id]
             T == AboutId(S, id)
  <2>1. id \in coverage(log).gaps /\ Len(log) \in Nat /\ DOMAIN log = 1..Len(log)
    BY <1>2 DEF GovInv, Reported
  <2>2. id \in DOMAIN acc /\ ~(a.classes \subseteq Correspondence)
    BY <2>1, GapsUncovered
  <2>3. Describes(acc, S)
    BY <2>1, AccountsDescribed
  <2> HIDE DEF acc, S
  <2>4. AccountOf(a, T)
    BY <2>2, <2>3 DEF Describes
  <2>5. PICK rec \in T : Outside(rec)
    BY <2>2, <2>4 DEF AccountOf, Outside
  <2>6. PICK j \in 1..Len(log) : log[j].verified /\ log[j] = rec /\ rec.id = id
    BY <2>5 DEF AboutId, S, VerifiedOf
  <2> QED BY <2>1, <2>5, <2>6 DEF Verified
<1>3. GovInv => WorstCaseKept
  BY <1>1, <1>2 DEF WorstCaseKept
<1> QED BY <1>3, GovInvariance, PTL

\* For any records whose classes were recovered: the report is the same for
\* every order of recorders and records (accumulate, mergeEvent, coverage).
THEOREM OrderFreeHolds == Spec => []OrderFree
<1>1. GovInv => OrderFree
  <2> SUFFICES ASSUME GovInv, Reported,
                      \A i \in Verified : classRecoverable(classifyEvent(log[i])),
                      NEW p \in [DOMAIN log -> DOMAIN log], IsInjective(p)
               PROVE  coverage([i \in DOMAIN log |-> log[p[i]]]) = coverage(log)
    BY DEF OrderFree, GovInv, Reported
  <2> DEFINE moved == [i \in DOMAIN log |-> log[p[i]]]
             n == Len(log)
  <2>1. n \in Nat /\ DOMAIN log = 1..n /\ moved \in Seq(RecordKinds) /\ Len(moved) = n
    BY DEF GovInv
  <2>2. \A k \in 1..n : \E i \in 1..n : p[i] = k
    <3>1. IsFiniteSet(1..n) /\ Cardinality(1..n) = n
      <4> HIDE DEF n
      <4>1. n \in Nat /\ 1 \in Int /\ n \in Int
        BY <2>1
      <4> QED BY <4>1, FS_Interval
    <3>2. p \in Bijection(1..n, Range(p)) /\ Range(p) \subseteq 1..n
      BY <2>1 DEF Range, Bijection, Injection, Surjection, IsInjective
    <3>3. Range(p) = 1..n
      <4>1. Cardinality(Range(p)) = n
        BY <2>1, <3>2, FS_CountingElements DEF ExistsBijection
      <4> QED BY <3>1, <3>2, <4>1, FS_Subset
    <3> QED BY <2>1, <3>3 DEF Range
  <2>3. VerifiedOf(moved, n) = VerifiedOf(log, n)
    BY <2>1, <2>2 DEF VerifiedOf
  <2> DEFINE S == VerifiedOf(log, n)
  <2>4. \A rec \in S : classRecoverable(classifyEvent(rec))
    BY <2>1 DEF VerifiedOf, Verified
  <2>5. Describes(Accumulated(log), S) /\ Describes(Accumulated(moved), S)
    <3> HIDE DEF moved, n
    <3>1. Len(log) \in Nat /\ Len(moved) \in Nat /\ Len(moved) = n /\ Len(log) = n
      BY <2>1 DEF n
    <3> QED BY <2>3, <3>1, AccountsDescribed
  <2> HIDE DEF moved, S
  <2>6. coverage(moved) = coverage(log)
    <3> DEFINE acc1 == Accumulated(moved)
               acc2 == Accumulated(log)
    <3>1. DOMAIN acc1 = DOMAIN acc2
      BY <2>5 DEF Describes
    <3>2. ASSUME NEW i \in DOMAIN acc1
          PROVE  /\ acc1[i].conflict <=> acc2[i].conflict
                 /\ acc1[i].classes = acc2[i].classes
                 /\ Lowered(finalizeEvent(acc1[i])) <=> Lowered(finalizeEvent(acc2[i]))
                 /\ classRecoverable(finalizeEvent(acc1[i]))
                 /\ classRecoverable(finalizeEvent(acc2[i]))
      <4> DEFINE T == AboutId(S, i)
      <4>1. AccountOf(acc1[i], T) /\ AccountOf(acc2[i], T)
        BY <2>5, <3>1 DEF Describes
      <4>2. \A rec \in T : classRecoverable(classifyEvent(rec))
        BY <2>4 DEF AboutId
      <4> HIDE DEF T, acc1, acc2
      <4>3. classRecoverable(finalizeEvent(acc1[i])) /\ classRecoverable(finalizeEvent(acc2[i]))
        BY <4>1, <4>2, FinalRecoverable
      <4>4. Lowered(finalizeEvent(acc1[i])) <=> Lowered(finalizeEvent(acc2[i]))
        BY <4>1, LoweredFromSet
      <4>5. acc1[i].classes = acc2[i].classes /\ (acc1[i].conflict <=> acc2[i].conflict)
        BY <4>1 DEF AccountOf
      <4> QED BY <4>3, <4>4, <4>5
    <3> HIDE DEF acc1, acc2
    <3> QED BY <3>1, <3>2, SameCoverage DEF acc1, acc2
  <2> QED BY <2>6 DEF moved
<1> QED BY <1>1, GovInvariance, PTL

----------------------------------------------------------------------------
(***************************************************************************)
(* AELPolicy: what one rule means.                                         *)
(***************************************************************************)
IsRule(rule) ==
    /\ IsValue(rule.value)
    /\ ValueKind(rule.value) = "array" => \A v \in ValueOf(rule.value) : IsValue(v)

IsInputs(inputs) == \A field \in DOMAIN inputs : IsValue(inputs[field])

LEMMA ScalarEqual ==
    ASSUME NEW a, NEW b, IsValue(a), IsValue(b)
    PROVE  scalarEqual(a, b) <=> ValueKind(a) \in {"int", "string", "bool"} /\ a = b
BY DEF scalarEqual, IsValue, ValueKind, ValueOf

LEMMA RuleMeaning ==
    ASSUME NEW rule, IsRule(rule), NEW inputs, IsInputs(inputs)
    PROVE  /\ matchWhen(rule, inputs) \in {"yes", "no", "error"}
           /\ matchWhen(rule, inputs) = "error" <=> Malformed(rule, inputs)
           /\ matchWhen(rule, inputs) = "yes" <=> Applies(rule, inputs) /\ ~Malformed(rule, inputs)
<1> DEFINE got == inputs[rule.field]
           m == matchWhen(rule, inputs)
<1>1. CASE rule.field \notin DOMAIN inputs
  BY <1>1 DEF matchWhen, Malformed, Applies
<1>2. CASE rule.field \in DOMAIN inputs /\ rule.op \in {"gte", "lt"}
  <2>1. m = IF ~IsInt(got) THEN "no"
            ELSE IF ~IsInt(rule.value) THEN "error"
            ELSE Answer(IF rule.op = "gte" THEN ValueOf(got) >= ValueOf(rule.value)
                                           ELSE ValueOf(got) < ValueOf(rule.value))
    BY <1>2 DEF matchWhen
  <2>2. /\ IsInt(got) => ValueOf(got) \in Int
        /\ IsInt(rule.value) => ValueOf(rule.value) \in Int
    BY <1>2 DEF IsRule, IsInputs, IsValue
  <2>3. Malformed(rule, inputs) <=> IsInt(got) /\ ~IsInt(rule.value)
    BY <1>2 DEF Malformed, Supported, Compares
  <2>4. Applies(rule, inputs) <=> /\ IsInt(got) /\ IsInt(rule.value)
                                  /\ (ValueOf(got) < ValueOf(rule.value)) <=> (rule.op = "lt")
    BY <1>2 DEF Applies, Compares
  <2> HIDE DEF m, got
  <2>5. /\ m \in {"yes", "no", "error"}
        /\ m = "error" <=> IsInt(got) /\ ~IsInt(rule.value)
        /\ m = "yes" <=> /\ IsInt(got) /\ IsInt(rule.value)
                         /\ (ValueOf(got) < ValueOf(rule.value)) <=> (rule.op = "lt")
    BY <1>2, <2>1, <2>2 DEF Answer
  <2> QED BY <2>3, <2>4, <2>5 DEF m
<1>3. CASE rule.field \in DOMAIN inputs /\ rule.op = "eq"
  <2>1. m = Answer(scalarEqual(got, rule.value))
    BY <1>3 DEF matchWhen
  <2>2. scalarEqual(got, rule.value) <=> ValueKind(got) \in {"int", "string", "bool"} /\ got = rule.value
    BY <1>3, ScalarEqual DEF IsRule, IsInputs
  <2>3. ~Malformed(rule, inputs)
    BY <1>3 DEF Malformed, Supported, Compares
  <2>4. Applies(rule, inputs) <=> ValueKind(got) \in {"int", "string", "bool"} /\ rule.value = got
    BY <1>3 DEF Applies, Compares
  <2> HIDE DEF m, got
  <2>5. m = IF scalarEqual(got, rule.value) THEN "yes" ELSE "no"
    BY <2>1 DEF Answer
  <2> QED BY <2>2, <2>3, <2>4, <2>5 DEF m
<1>4. CASE rule.field \in DOMAIN inputs /\ rule.op = "in"
  <2> DEFINE found == \E v \in ValueOf(rule.value) : scalarEqual(got, v)
  <2>1. m = IF ValueKind(rule.value) # "array" THEN "error" ELSE Answer(found)
    BY <1>4 DEF matchWhen
  <2>2. Malformed(rule, inputs) <=> ValueKind(rule.value) # "array"
    BY <1>4 DEF Malformed, Supported, Compares
  <2>3. Applies(rule, inputs) <=> /\ ValueKind(rule.value) = "array"
                                  /\ ValueKind(got) \in {"int", "string", "bool"}
                                  /\ \E v \in ValueOf(rule.value) : v = got
    BY <1>4 DEF Applies, Compares
  <2>4. ASSUME ValueKind(rule.value) = "array"
        PROVE  found <=> Applies(rule, inputs)
    <3>1. \A v \in ValueOf(rule.value) :
             scalarEqual(got, v) <=> ValueKind(got) \in {"int", "string", "bool"} /\ v = got
      BY <1>4, <2>4, ScalarEqual DEF IsRule, IsInputs
    <3> HIDE DEF got
    <3> QED BY <2>3, <2>4, <3>1
  <2> HIDE DEF m, got, found
  <2>5. m = IF ValueKind(rule.value) # "array" THEN "error" ELSE IF found THEN "yes" ELSE "no"
    BY <2>1 DEF Answer
  <2> QED BY <2>2, <2>3, <2>4, <2>5 DEF m
<1>5. CASE rule.field \in DOMAIN inputs /\ ~Supported(rule)
  BY <1>5 DEF matchWhen, Malformed, Supported
<1> QED BY <1>1, <1>2, <1>3, <1>4, <1>5 DEF Supported

(***************************************************************************)
(* The loop over the rules.                                                *)
(***************************************************************************)
Step(policy, inputs, i, rest) ==
    IF i > Len(policy.rules) THEN <<policy.default>>
    ELSE IF matchWhen(policy.rules[i], inputs) = "error" THEN << >>
    ELSE IF matchWhen(policy.rules[i], inputs) = "yes" THEN <<policy.rules[i].verdict>>
    ELSE rest

IsLoop(f, policy, inputs, n, first) ==
    f = [i \in first..(n + 1) |-> Step(policy, inputs, i, f[i + 1])]

\* The recursion of EvalFrom has a solution, built from the last rule back.
LEMMA LoopExists ==
    ASSUME NEW policy, NEW inputs, Len(policy.rules) \in Nat
    PROVE  \E f : IsLoop(f, policy, inputs, Len(policy.rules), 1)
<1> DEFINE n == Len(policy.rules)
           T == {k \in Nat : k <= n /\ ~\E f : IsLoop(f, policy, inputs, n, n + 1 - k)}
<1>1. n \in Nat
  OBVIOUS
<1> HIDE DEF n
<1>2. T = {}
  <2>1. SUFFICES ASSUME T # {} PROVE FALSE
    OBVIOUS
  <2>2. PICK m \in T : \A k \in T : m <= k
    <3>1. T \subseteq Nat
      OBVIOUS
    <3> HIDE DEF T
    <3> QED BY <2>1, <3>1, LeastElement
  <2>3. m # 0
    <3> DEFINE f == [i \in (n + 1)..(n + 1) |-> <<policy.default>>]
    <3>1. \A i \in (n + 1)..(n + 1) : Step(policy, inputs, i, f[i + 1]) = <<policy.default>>
      BY <1>1 DEF Step, n
    <3>2. IsLoop(f, policy, inputs, n, n + 1 - 0)
      <4>1. n + 1 - 0 = n + 1
        BY <1>1
      <4> QED BY <3>1, <4>1 DEF IsLoop
    <3> QED BY <3>2
  <2> DEFINE first == n + 1 - m
  <2>4. /\ m - 1 \in Nat /\ m - 1 <= n /\ m - 1 \notin T
        /\ first \in 1..n /\ n + 1 - (m - 1) = first + 1
    <3>1. T \subseteq {k \in Nat : k <= n}
      OBVIOUS
    <3> HIDE DEF T
    <3> QED BY <1>1, <2>2, <2>3, <3>1
  <2>5. PICK f : IsLoop(f, policy, inputs, n, first + 1)
    <3>1. \E f : IsLoop(f, policy, inputs, n, n + 1 - (m - 1))
      BY <2>4
    <3> HIDE DEF first
    <3> QED BY <2>4, <3>1
  <2> DEFINE g == [i \in first..(n + 1) |-> IF i = first THEN Step(policy, inputs, i, f[i + 1]) ELSE f[i]]
             h == [i \in first..(n + 1) |-> Step(policy, inputs, i, g[i + 1])]
  <2>6. ASSUME NEW i \in first..(n + 1) PROVE g[i] = h[i]
    <3>1. CASE i = first
      <4>1. i + 1 \in first..(n + 1) /\ i + 1 # first
        BY <1>1, <2>4, <3>1
      <4> QED BY <3>1, <4>1
    <3>2. CASE i # first
      <4>1. i \in (first + 1)..(n + 1) /\ g[i] = f[i]
        BY <1>1, <2>4, <3>2
      <4>2. f[i] = Step(policy, inputs, i, f[i + 1])
        BY <2>5, <4>1 DEF IsLoop
      <4>3. i <= n => g[i + 1] = f[i + 1]
        BY <1>1, <2>4, <4>1
      <4>4. i = n + 1 => Step(policy, inputs, i, f[i + 1]) = Step(policy, inputs, i, g[i + 1])
        BY <1>1 DEF Step, n
      <4> HIDE DEF g
      <4> QED BY <1>1, <4>1, <4>2, <4>3, <4>4
    <3> QED BY <3>1, <3>2
  <2>7. g = h
    BY <2>6
  <2>8. IsLoop(g, policy, inputs, n, first)
    BY <2>7 DEF IsLoop
  <2> QED BY <2>2, <2>8
<1>3. \E f : IsLoop(f, policy, inputs, n, n + 1 - n)
  <2>1. n \in Nat /\ n <= n
    BY <1>1
  <2> QED BY <1>2, <2>1
<1>4. n + 1 - n = 1
  BY <1>1
<1> QED BY <1>3, <1>4 DEF n

\* Eval gives the verdict that is justified, and no other.
LEMMA EvalExact ==
    ASSUME NEW decision, decision.policy[1].rules \in Seq(Range(decision.policy[1].rules)),
           \A rule \in Range(decision.policy[1].rules) : IsRule(rule), IsInputs(decision.inputs)
    PROVE  Eval(decision.policy[1], decision.inputs) = <<decision.verdict>> <=> Justified(decision)
<1> DEFINE policy == decision.policy[1]
           inputs == decision.inputs
           n == Len(policy.rules)
           from == EvalFrom(policy, inputs)
           rule(i) == policy.rules[i]
           Decisive(i) == Applies(rule(i), inputs) \/ Malformed(rule(i), inputs)
           decisive == {i \in DOMAIN policy.rules : Decisive(i)}
<1>1. n \in Nat /\ DOMAIN policy.rules = 1..n
  OBVIOUS
<1>2. IsLoop(from, policy, inputs, n, 1)
  <2>1. from = CHOOSE f : IsLoop(f, policy, inputs, n, 1)
    BY Zenon DEF EvalFrom, IsLoop, Step
  <2>2. \E f : IsLoop(f, policy, inputs, n, 1)
    BY <1>1, LoopExists
  <2> HIDE DEF policy, inputs, n, from
  <2> QED BY <2>1, <2>2, Zenon
<1>3. ASSUME NEW i \in 1..n
      PROVE  LET said == matchWhen(rule(i), inputs)
             IN  /\ said \in {"yes", "no", "error"}
                 /\ said = "error" <=> Malformed(rule(i), inputs)
                 /\ said = "yes" <=> Applies(rule(i), inputs) /\ ~Malformed(rule(i), inputs)
  <2>1. IsRule(rule(i)) /\ IsInputs(inputs)
    BY <1>1 DEF Range
  <2> HIDE DEF rule, inputs
  <2> QED BY <2>1, RuleMeaning
<1>4. Justified(decision) <=>
         IF decisive = {} THEN decision.verdict = policy.default
         ELSE /\ ~Malformed(rule(Min(decisive)), inputs)
              /\ decision.verdict = rule(Min(decisive)).verdict
  BY Zenon DEF Justified
<1>5. decisive \subseteq 1..n /\ \A i \in 1..n : i \in decisive <=> Decisive(i)
  BY <1>1
<1> HIDE DEF policy, inputs, n, from, rule, decisive
<1>6. ASSUME NEW i \in 1..(n + 1)
      PROVE  from[i] = Step(policy, inputs, i, from[i + 1])
  BY <1>1, <1>2 DEF IsLoop
<1>7. ASSUME NEW m \in 1..(n + 1), \A i \in 1..(m - 1) : i \notin decisive
      PROVE  from[1] = from[m]
  <2> DEFINE T == {k \in Nat : k \in 1..m /\ from[1] # from[k]}
  <2>1. SUFFICES ASSUME T # {} PROVE FALSE
    BY <1>1
  <2>2. PICK k \in T : \A j \in T : k <= j
    <3>1. T \subseteq Nat
      OBVIOUS
    <3> HIDE DEF T
    <3> QED BY <2>1, <3>1, LeastElement
  <2>3. k - 1 \in 1..(m - 1) /\ k - 1 \in 1..n /\ k - 1 \notin T /\ k - 1 + 1 = k
    BY <1>1, <2>2
  <2>4. matchWhen(policy.rules[k - 1], inputs) = "no"
    BY <1>3, <1>5, <1>7, <2>3 DEF rule
  <2>5. from[k - 1] = from[k]
    <3>1. k - 1 \in 1..(n + 1) /\ ~(k - 1 > n)
      BY <1>1, <2>3
    <3>2. from[k - 1] = Step(policy, inputs, k - 1, from[k])
      BY <1>6, <2>3, <3>1
    <3> QED BY <2>4, <3>1, <3>2, Zenon DEF Step, n
  <2> QED BY <2>2, <2>3, <2>5
<1>8. CASE decisive = {}
  <2>1. from[1] = from[n + 1] /\ n + 1 \in 1..(n + 1) /\ n + 1 > n
    BY <1>1, <1>7, <1>8
  <2>2. from[n + 1] = <<policy.default>>
    BY <1>6, <2>1, Zenon DEF Step, n
  <2>3. from[1] = <<decision.verdict>> <=> decision.verdict = policy.default
    BY <2>1, <2>2
  <2> QED BY <1>4, <1>8, <2>3 DEF Eval, policy, inputs, from
<1>9. CASE decisive # {}
  <2> DEFINE m == Min(decisive)
  <2>1. m \in decisive /\ \A i \in decisive : m <= i
    <3>1. decisive \subseteq Nat
      BY <1>1, <1>5
    <3>2. \E x \in decisive : \A y \in decisive : x <= y
      BY <1>9, <3>1, LeastElement
    <3> QED BY <3>2 DEF Min
  <2> HIDE DEF m
  <2>2. m \in 1..n /\ m \in 1..(n + 1) /\ ~(m > n) /\ \A i \in 1..(m - 1) : i \notin decisive
    BY <1>1, <1>5, <2>1
  <2>3. from[1] = Step(policy, inputs, m, from[m + 1])
    BY <1>6, <1>7, <2>2
  <2>4. CASE Malformed(rule(m), inputs)
    <3>1. matchWhen(policy.rules[m], inputs) = "error"
      BY <1>3, <2>2, <2>4 DEF rule
    <3>2. Step(policy, inputs, m, from[m + 1]) = << >>
      BY <2>2, <3>1 DEF Step, n
    <3> QED BY <1>4, <1>9, <2>3, <2>4, <3>2 DEF Eval, policy, inputs, from, m
  <2>5. CASE ~Malformed(rule(m), inputs)
    <3>1. matchWhen(policy.rules[m], inputs) = "yes"
      BY <1>3, <1>5, <2>1, <2>2, <2>5 DEF rule
    <3>2. Step(policy, inputs, m, from[m + 1]) = <<rule(m).verdict>>
      BY <2>2, <3>1, Zenon DEF Step, n, rule
    <3>3. from[1] = <<decision.verdict>> <=> decision.verdict = rule(m).verdict
      BY <2>3, <3>2
    <3> QED BY <1>4, <1>9, <2>5, <3>3 DEF Eval, policy, inputs, from, m
  <2> QED BY <2>4, <2>5
<1> QED BY <1>8, <1>9

(***************************************************************************)
(* The directory holds policies, the records are activities, and the       *)
(* suffix is the one checkR returns for both.                              *)
(***************************************************************************)
PolicyInv ==
    /\ \A name \in DOMAIN files : files[name] \in Contents
    /\ records \in Seq(Activities)
    /\ replay # << >> => replay = <<checkR>>

LEMMA PolicyInvariance == PolicySpec => []PolicyInv
<1>1. PolicyInit => PolicyInv
  BY DEF PolicyInit, PolicyInv
<1>2. PolicyInv /\ [PolicyNext]_policyVars => PolicyInv'
  <2> SUFFICES ASSUME PolicyInv, [PolicyNext]_policyVars PROVE PolicyInv'
    OBVIOUS
  <2>1. ASSUME NEW name \in Names, NEW content \in Contents, File(name, content) PROVE PolicyInv'
    BY <2>1 DEF File, Put, PolicyInv
  <2>2. ASSUME NEW name \in Names, Unfile(name) PROVE PolicyInv'
    BY <2>2 DEF Unfile, PolicyInv
  <2>3. ASSUME NEW rec \in Activities, Act(rec) PROVE PolicyInv'
    BY <2>3 DEF Act, PolicyInv
  <2>4. CASE Replay
    <3>1. checkR' = checkR
      BY <2>4 DEF Replay, checkR, Replays, Policies
    <3> QED BY <2>4, <3>1 DEF Replay, PolicyInv
  <2>5. CASE UNCHANGED policyVars
    <3>1. checkR' = checkR
      BY <2>5 DEF policyVars, checkR, Replays, Policies
    <3> QED BY <2>5, <3>1 DEF policyVars, PolicyInv
  <2> QED BY <2>1, <2>2, <2>3, <2>4, <2>5 DEF PolicyNext
<1> QED BY <1>1, <1>2, PTL DEF PolicySpec

\* A decision replays exactly when its verdict is justified under the bytes it
\* names, filed under their hash.
LEMMA ReplaysExact ==
    ASSUME PolicyInv, NEW decision \in Decisions
    PROVE  Replays(decision) <=>
              /\ <<decision.policy, decision.policy[1]>> \in
                    {<<name, files[name]>> : name \in DOMAIN files}
              /\ decision.policy[1].form = "canonical"
              /\ Justified(decision)
<1> DEFINE name == decision.policy
<1>1. PICK content \in Contents : name = <<content>>
  BY DEF Decisions, Names, sha256
<1>2. name[1] = content
  BY <1>1
<1>3. <<name, name[1]>> \in {<<x, files[x]>> : x \in DOMAIN files}
         <=> name \in DOMAIN files /\ files[name] = content
  BY <1>2
<1>4. Eval(content, decision.inputs) = <<decision.verdict>> <=> Justified(decision)
  <2>1. content.rules \in Seq(Range(content.rules)) /\ \A rule \in Range(content.rules) : IsRule(rule)
    BY PolicyAssumption DEF IsRule
  <2>2. IsInputs(decision.inputs)
    BY PolicyAssumption DEF Decisions, IsInputs
  <2> QED BY <1>2, <2>1, <2>2, EvalExact
<1>5. Replays(decision) <=> /\ name \in DOMAIN files /\ files[name].form = "canonical"
                            /\ <<files[name]>> = name
                            /\ Eval(files[name], decision.inputs) = <<decision.verdict>>
  BY DEF Replays, Policies, sha256
<1>6. <<files[name]>> = name <=> files[name] = content
  BY <1>1
<1> HIDE DEF name
<1> QED BY <1>2, <1>3, <1>4, <1>5, <1>6 DEF name

\* For any policies, inputs and records: +R says that there was an activity and
\* that each decision is what the bytes it was made under say (checkR, Eval).
THEOREM ReplayExactHolds == PolicySpec => []ReplayExact
<1>1. PolicyInv => ReplayExact
  <2> DEFINE acts == {i \in DOMAIN records : IsActivity(records[i])}
             decided == {i \in acts : records[i].decision # << >>}
             Exact(decision) ==
                /\ <<decision.policy, decision.policy[1]>> \in
                      {<<name, files[name]>> : name \in DOMAIN files}
                /\ decision.policy[1].form = "canonical"
                /\ Justified(decision)
  <2> SUFFICES ASSUME PolicyInv, replay # << >>
               PROVE  checkR = "+R" <=>
                         /\ acts # {}
                         /\ \A i \in acts : /\ records[i].decision # << >>
                                            /\ Exact(records[i].decision[1])
    BY DEF ReplayExact, PolicyInv
  <2>1. IsFiniteSet(acts) /\ decided \subseteq acts
    <3>1. DOMAIN records = 1..Len(records) /\ Len(records) \in Nat
      BY DEF PolicyInv
    <3>2. IsFiniteSet(DOMAIN records)
      BY <3>1, FS_Interval
    <3> QED BY <3>2, FS_Subset
  <2>2. Cardinality(decided) = Cardinality(acts) <=> decided = acts
    <3> HIDE DEF acts, decided
    <3> QED BY <2>1, FS_Subset
  <2>3. ASSUME NEW i \in decided
        PROVE  Replays(records[i].decision[1]) <=> Exact(records[i].decision[1])
    <3>1. records[i] \in Activities /\ records[i].decision # << >>
      BY DEF PolicyInv
    <3>2. records[i].decision[1] \in Decisions
      BY <3>1 DEF Activities
    <3> HIDE DEF acts, decided
    <3> QED BY <3>2, ReplaysExact
  <2>4. checkR = "+R" <=> /\ \A i \in decided : Replays(records[i].decision[1])
                          /\ acts # {} /\ Cardinality(decided) = Cardinality(acts)
    BY DEF checkR
  <2>5. decided = acts <=> \A i \in acts : records[i].decision # << >>
    OBVIOUS
  <2> HIDE DEF acts, decided, Exact
  <2>6. (\A i \in decided : Replays(records[i].decision[1]))
           <=> \A i \in decided : Exact(records[i].decision[1])
    BY <2>3
  <2> QED BY <2>2, <2>4, <2>5, <2>6
<1> QED BY <1>1, PolicyInvariance, PTL

----------------------------------------------------------------------------
(***************************************************************************)
(* AELMerkle: where a tree is split.  The loop of                          *)
(* largestPowerOfTwoLessThan, from the first value of p at or above from.  *)
(***************************************************************************)
IsGrown(f, n, from) == f = [p \in from..n |-> IF 2 * p < n THEN f[2 * p] ELSE p]

\* The recursion has a solution, built from n back to 1.
LEMMA GrownExists ==
    ASSUME NEW n \in Nat \ {0}
    PROVE  \E f : IsGrown(f, n, 1)
<1> DEFINE T == {k \in Nat : k < n /\ ~\E f : IsGrown(f, n, n - k)}
<1>1. T = {}
  <2>1. SUFFICES ASSUME T # {} PROVE FALSE
    OBVIOUS
  <2>2. PICK m \in T : \A k \in T : m <= k
    <3>1. T \subseteq Nat
      OBVIOUS
    <3> HIDE DEF T
    <3> QED BY <2>1, <3>1, LeastElement
  <2>3. m # 0
    <3> DEFINE f == [p \in n..n |-> p]
    <3>1. \A p \in n..n : (IF 2 * p < n THEN f[2 * p] ELSE p) = p
      OBVIOUS
    <3>2. IsGrown(f, n, n - 0)
      <4>1. n - 0 = n
        OBVIOUS
      <4> QED BY <3>1, <4>1 DEF IsGrown
    <3> QED BY <3>2
  <2> DEFINE q == n - m
  <2>4. m - 1 \in Nat /\ m - 1 < n /\ m - 1 \notin T /\ q \in 1..n /\ n - (m - 1) = q + 1
    <3>1. T \subseteq {k \in Nat : k < n}
      OBVIOUS
    <3> HIDE DEF T
    <3> QED BY <2>2, <2>3, <3>1
  <2>5. PICK f : IsGrown(f, n, q + 1)
    <3>1. \E f : IsGrown(f, n, n - (m - 1))
      BY <2>4
    <3> HIDE DEF q
    <3> QED BY <2>4, <3>1
  <2> DEFINE g == [p \in q..n |-> IF p = q THEN IF 2 * q < n THEN f[2 * q] ELSE q ELSE f[p]]
             h == [p \in q..n |-> IF 2 * p < n THEN g[2 * p] ELSE p]
  <2> HIDE DEF q
  <2>6. ASSUME NEW p \in q..n PROVE g[p] = h[p]
    <3>1. 2 * p < n => 2 * p \in (q + 1)..n /\ g[2 * p] = f[2 * p]
      BY <2>4
    <3>2. CASE p = q
      BY <3>1, <3>2
    <3>3. CASE p # q
      <4>1. p \in (q + 1)..n
        BY <2>4, <3>3
      <4>2. f[p] = IF 2 * p < n THEN f[2 * p] ELSE p
        BY <2>5, <4>1 DEF IsGrown
      <4> QED BY <3>1, <3>3, <4>2
    <3> QED BY <3>2, <3>3
  <2>7. g = h
    BY <2>6
  <2>8. IsGrown(g, n, q)
    BY <2>7 DEF IsGrown
  <2> QED BY <2>2, <2>8 DEF q
<1>2. \E f : IsGrown(f, n, n - (n - 1))
  BY <1>1
<1>3. n - (n - 1) = 1
  OBVIOUS
<1> QED BY <1>2, <1>3

\* Both sides of a split are smaller than the tree, and neither is empty.
LEMMA Split ==
    ASSUME NEW n \in Nat, n > 1
    PROVE  /\ largestPowerOfTwoLessThan(n) \in 1..(n - 1)
           /\ n - largestPowerOfTwoLessThan(n) \in 1..(n - 1)
<1> DEFINE grown == CHOOSE f : f = [p \in 1..n |-> IF 2 * p < n THEN f[2 * p] ELSE p]
<1>1. largestPowerOfTwoLessThan(n) = grown[1]
  BY DEF largestPowerOfTwoLessThan
<1>2. IsGrown(grown, n, 1)
  <2>1. \E f : f = [p \in 1..n |-> IF 2 * p < n THEN f[2 * p] ELSE p]
    BY GrownExists DEF IsGrown
  <2> QED BY <2>1, Zenon DEF IsGrown
<1> HIDE DEF grown
<1>3. \A p \in 1..n : grown[p] = IF 2 * p < n THEN grown[2 * p] ELSE p
  BY <1>2 DEF IsGrown
<1> DEFINE T == {k \in 1..(n - 1) : grown[n - k] \notin 1..(n - 1)}
<1>4. T = {}
  <2>1. SUFFICES ASSUME T # {} PROVE FALSE
    OBVIOUS
  <2>2. PICK m \in T : \A k \in T : m <= k
    <3>1. T \subseteq Nat
      OBVIOUS
    <3> HIDE DEF T
    <3> QED BY <2>1, <3>1, LeastElement
  <2> DEFINE p == n - m
  <2>3. m \in Nat /\ p \in 1..(n - 1) /\ grown[p] \notin 1..(n - 1)
    OBVIOUS
  <2>4. 2 * p < n => n - 2 * p \in 1..(n - 1) /\ n - (n - 2 * p) = 2 * p /\ n - 2 * p < m
    BY <2>3
  <2>5. 2 * p < n => grown[2 * p] \in 1..(n - 1)
    <3>1. SUFFICES ASSUME 2 * p < n PROVE n - 2 * p \notin T
      BY <2>4
    <3> HIDE DEF T
    <3> QED BY <2>2, <2>3, <2>4, <3>1
  <2> HIDE DEF p
  <2> QED BY <1>3, <2>3, <2>5
<1>5. grown[n - (n - 1)] \in 1..(n - 1)
  BY <1>4
<1>6. n - (n - 1) = 1
  OBVIOUS
<1> QED BY <1>1, <1>5, <1>6

(***************************************************************************)
(* The three recursions have solutions: there is no least size without.    *)
(***************************************************************************)
RootsStep(f, ls, size) ==
    [first \in 1..(Len(ls) - size + 1) |->
       IF size = 1 THEN ls[first]
       ELSE LET split == largestPowerOfTwoLessThan(size)
            IN  merkleNode(f[split][first], f[size - split][first + split])]

IsRoots(f, ls, n) == f = [size \in 1..n |-> RootsStep(f, ls, size)]

ProofsStep(f, ls, size) ==
    [first \in 1..(Len(ls) - size + 1) |-> [index \in 0..(size - 1) |->
       IF size = 1 THEN << >>
       ELSE LET split == largestPowerOfTwoLessThan(size)
            IN  IF index < split
                THEN Append(f[split][first][index], SliceRoots(ls)[size - split][first + split])
                ELSE Append(f[size - split][first + split][index - split],
                            SliceRoots(ls)[split][first])]]

IsProofs(f, ls, n) == f = [size \in 1..n |-> ProofsStep(f, ls, size)]

ClimbsStep(f, leaf, proof, size) ==
    [index \in 0..(size - 1) |->
       IF size = 1 THEN [root |-> leaf, used |-> 0]
       ELSE LET split == largestPowerOfTwoLessThan(size)
                onLeft == index < split
                below == IF onLeft THEN f[split][index] ELSE f[size - split][index - split]
                sibling == proof[below.used + 1]
            IN  IF below.root = Failed \/ below.used >= Len(proof) THEN Stuck
                ELSE [used |-> below.used + 1,
                      root |-> IF onLeft THEN merkleNode(below.root, sibling)
                               ELSE merkleNode(sibling, below.root)]]

IsClimbs(f, leaf, proof, n) == f = [size \in 1..n |-> ClimbsStep(f, leaf, proof, size)]

\* A step looks below its size only.
LEMMA StepsLookBelow ==
    ASSUME NEW size \in Nat \ {0}, NEW f, NEW g, \A k \in 1..(size - 1) : g[k] = f[k]
    PROVE  /\ \A ls : RootsStep(g, ls, size) = RootsStep(f, ls, size)
           /\ \A ls : ProofsStep(g, ls, size) = ProofsStep(f, ls, size)
           /\ \A leaf, proof : ClimbsStep(g, leaf, proof, size) = ClimbsStep(f, leaf, proof, size)
<1>1. CASE size = 1
  <2>1. \A ls : RootsStep(g, ls, size) = RootsStep(f, ls, size)
    BY <1>1 DEF RootsStep
  <2>2. \A ls : ProofsStep(g, ls, size) = ProofsStep(f, ls, size)
    BY <1>1 DEF ProofsStep
  <2>3. \A leaf, proof : ClimbsStep(g, leaf, proof, size) = ClimbsStep(f, leaf, proof, size)
    BY <1>1 DEF ClimbsStep
  <2> QED BY <2>1, <2>2, <2>3
<1>2. CASE size # 1
  <2> DEFINE split == largestPowerOfTwoLessThan(size)
  <2>1. g[split] = f[split] /\ g[size - split] = f[size - split]
    <3>1. split \in 1..(size - 1) /\ size - split \in 1..(size - 1)
      BY <1>2, Split
    <3> QED BY <3>1
  <2>2. \A ls : RootsStep(g, ls, size) = RootsStep(f, ls, size)
    BY <1>2, <2>1 DEF RootsStep
  <2>3. \A ls : ProofsStep(g, ls, size) = ProofsStep(f, ls, size)
    BY <1>2, <2>1 DEF ProofsStep
  <2>4. \A leaf, proof : ClimbsStep(g, leaf, proof, size) = ClimbsStep(f, leaf, proof, size)
    BY <1>2, <2>1 DEF ClimbsStep
  <2> QED BY <2>2, <2>3, <2>4
<1> QED BY <1>1, <1>2

LEMMA RootsExist ==
    ASSUME NEW ls, NEW n \in Nat
    PROVE  \E f : IsRoots(f, ls, n)
<1> DEFINE T == {k \in Nat : ~\E f : IsRoots(f, ls, k)}
<1>1. SUFFICES ASSUME T # {} PROVE FALSE
  OBVIOUS
<1>2. PICK m \in T : \A k \in T : m <= k
  BY <1>1, LeastElement
<1>3. m # 0
  <2>1. IsRoots([size \in 1..0 |-> << >>], ls, 0)
    BY DEF IsRoots
  <2> QED BY <2>1
<1>4. m - 1 \in Nat /\ m - 1 \notin T
  BY <1>2, <1>3
<1>5. PICK f : IsRoots(f, ls, m - 1)
  BY <1>4
<1> DEFINE g == [k \in 1..m |-> IF k = m THEN RootsStep(f, ls, m) ELSE f[k]]
           h == [k \in 1..m |-> RootsStep(g, ls, k)]
<1>6. ASSUME NEW k \in 1..m PROVE g[k] = h[k]
  <2>1. \A j \in 1..(m - 1) : j \in 1..m /\ j # m
    BY <1>4
  <2>2. \A j \in 1..(k - 1) : g[j] = f[j]
    BY <1>4, <2>1
  <2>3. g[k] = RootsStep(f, ls, k)
    <3>1. CASE k = m
      BY <3>1
    <3>2. CASE k # m
      <4>1. k \in 1..(m - 1) /\ g[k] = f[k]
        BY <1>4, <3>2
      <4> QED BY <1>5, <4>1, Zenon DEF IsRoots
    <3> QED BY <3>1, <3>2
  <2> HIDE DEF g
  <2>4. RootsStep(g, ls, k) = RootsStep(f, ls, k)
    BY <2>2, StepsLookBelow
  <2> QED BY <2>3, <2>4
<1>7. IsRoots(g, ls, m)
  <2>1. g = h
    BY <1>6
  <2> QED BY <2>1 DEF IsRoots
<1> QED BY <1>2, <1>7

\* The same for the proofs.
LEMMA ProofsExist ==
    ASSUME NEW ls, NEW n \in Nat
    PROVE  \E f : IsProofs(f, ls, n)
<1> DEFINE T == {k \in Nat : ~\E f : IsProofs(f, ls, k)}
<1>1. SUFFICES ASSUME T # {} PROVE FALSE
  OBVIOUS
<1>2. PICK m \in T : \A k \in T : m <= k
  BY <1>1, LeastElement
<1>3. m # 0
  <2>1. IsProofs([size \in 1..0 |-> << >>], ls, 0)
    BY DEF IsProofs
  <2> QED BY <2>1
<1>4. m - 1 \in Nat /\ m - 1 \notin T
  BY <1>2, <1>3
<1>5. PICK f : IsProofs(f, ls, m - 1)
  BY <1>4
<1> DEFINE g == [k \in 1..m |-> IF k = m THEN ProofsStep(f, ls, m) ELSE f[k]]
           h == [k \in 1..m |-> ProofsStep(g, ls, k)]
<1>6. ASSUME NEW k \in 1..m PROVE g[k] = h[k]
  <2>1. \A j \in 1..(m - 1) : j \in 1..m /\ j # m
    BY <1>4
  <2>2. \A j \in 1..(k - 1) : g[j] = f[j]
    BY <1>4, <2>1
  <2>3. g[k] = ProofsStep(f, ls, k)
    <3>1. CASE k = m
      BY <3>1
    <3>2. CASE k # m
      <4>1. k \in 1..(m - 1) /\ g[k] = f[k]
        BY <1>4, <3>2
      <4> QED BY <1>5, <4>1, Zenon DEF IsProofs
    <3> QED BY <3>1, <3>2
  <2> HIDE DEF g
  <2>4. ProofsStep(g, ls, k) = ProofsStep(f, ls, k)
    BY <2>2, StepsLookBelow
  <2> QED BY <2>3, <2>4
<1>7. IsProofs(g, ls, m)
  <2>1. g = h
    BY <1>6
  <2> QED BY <2>1 DEF IsProofs
<1> QED BY <1>2, <1>7

\* The same for the climbs.
LEMMA ClimbsExist ==
    ASSUME NEW leaf, NEW proof, NEW n \in Nat
    PROVE  \E f : IsClimbs(f, leaf, proof, n)
<1> DEFINE T == {k \in Nat : ~\E f : IsClimbs(f, leaf, proof, k)}
<1>1. SUFFICES ASSUME T # {} PROVE FALSE
  OBVIOUS
<1>2. PICK m \in T : \A k \in T : m <= k
  BY <1>1, LeastElement
<1>3. m # 0
  <2>1. IsClimbs([size \in 1..0 |-> << >>], leaf, proof, 0)
    BY DEF IsClimbs
  <2> QED BY <2>1
<1>4. m - 1 \in Nat /\ m - 1 \notin T
  BY <1>2, <1>3
<1>5. PICK f : IsClimbs(f, leaf, proof, m - 1)
  BY <1>4
<1> DEFINE g == [k \in 1..m |-> IF k = m THEN ClimbsStep(f, leaf, proof, m) ELSE f[k]]
           h == [k \in 1..m |-> ClimbsStep(g, leaf, proof, k)]
<1>6. ASSUME NEW k \in 1..m PROVE g[k] = h[k]
  <2>1. \A j \in 1..(m - 1) : j \in 1..m /\ j # m
    BY <1>4
  <2>2. \A j \in 1..(k - 1) : g[j] = f[j]
    BY <1>4, <2>1
  <2>3. g[k] = ClimbsStep(f, leaf, proof, k)
    <3>1. CASE k = m
      BY <3>1
    <3>2. CASE k # m
      <4>1. k \in 1..(m - 1) /\ g[k] = f[k]
        BY <1>4, <3>2
      <4> QED BY <1>5, <4>1, Zenon DEF IsClimbs
    <3> QED BY <3>1, <3>2
  <2> HIDE DEF g
  <2>4. ClimbsStep(g, leaf, proof, k) = ClimbsStep(f, leaf, proof, k)
    BY <2>2, StepsLookBelow
  <2> QED BY <2>3, <2>4
<1>7. IsClimbs(g, leaf, proof, m)
  <2>1. g = h
    BY <1>6
  <2> QED BY <2>1 DEF IsClimbs
<1> QED BY <1>2, <1>7

\* What the code computes for a slice follows from its two halves.
LEMMA Unfolded ==
    /\ \A ls : Len(ls) \in Nat =>
          /\ \A size \in 1..Len(ls) : SliceRoots(ls)[size] = RootsStep(SliceRoots(ls), ls, size)
          /\ \A size \in 1..Len(ls) : SliceProofs(ls)[size] = ProofsStep(SliceProofs(ls), ls, size)
    /\ \A leaf, proof : \A n \in Nat : \A size \in 1..n :
          merkleRootFromProofAt(leaf, n, proof)[size]
            = ClimbsStep(merkleRootFromProofAt(leaf, n, proof), leaf, proof, size)
<1>1. ASSUME NEW ls, Len(ls) \in Nat
      PROVE  IsRoots(SliceRoots(ls), ls, Len(ls))
  <2>1. SliceRoots(ls) = CHOOSE f : IsRoots(f, ls, Len(ls))
    BY Zenon DEF SliceRoots, IsRoots, RootsStep
  <2> QED BY <1>1, <2>1, RootsExist
<1>2. ASSUME NEW ls, Len(ls) \in Nat
      PROVE  IsProofs(SliceProofs(ls), ls, Len(ls))
  <2>1. SliceProofs(ls) = CHOOSE f : IsProofs(f, ls, Len(ls))
    BY Zenon DEF SliceProofs, IsProofs, ProofsStep
  <2> QED BY <1>2, <2>1, ProofsExist
<1>3. ASSUME NEW leaf, NEW proof, NEW n \in Nat
      PROVE  IsClimbs(merkleRootFromProofAt(leaf, n, proof), leaf, proof, n)
  <2>1. merkleRootFromProofAt(leaf, n, proof) = CHOOSE f : IsClimbs(f, leaf, proof, n)
    BY Zenon DEF merkleRootFromProofAt, IsClimbs, ClimbsStep
  <2> QED BY <2>1, ClimbsExist
<1> QED BY <1>1, <1>2, <1>3 DEF IsRoots, IsProofs, IsClimbs

(***************************************************************************)
(* A climb and the generator's tree agree, slice by slice.                 *)
(***************************************************************************)
Begins(proof, t) == Len(t) <= Len(proof) /\ \A j \in 1..Len(t) : proof[j] = t[j]

LEMMA NodeExact ==
    /\ \A a, b, c, d : merkleNode(a, b) = merkleNode(c, d) <=> a = c /\ b = d
    /\ \A a, b : merkleNode(a, b) # Failed
    /\ \A payload : merkleLeaf(payload) # Failed
BY DEF merkleNode, merkleLeaf, Failed

\* A climb with one more sibling, and the generator's proof with one more,
\* when the slice is the left half of the larger one and when it is the right.
LEMMA OneUp ==
    ASSUME NEW S, NEW tb \in Seq(S), NEW sibling \in S, NEW proof, Len(proof) \in Nat
    PROVE  /\ Append(tb, sibling) \in Seq(S)
           /\ Len(Append(tb, sibling)) = Len(tb) + 1
           /\ Begins(proof, Append(tb, sibling)) <=>
                /\ Begins(proof, tb)
                /\ Len(tb) < Len(proof) /\ proof[Len(tb) + 1] = sibling
<1> DEFINE t == Append(tb, sibling)
<1>1. /\ t \in Seq(S) /\ Len(tb) \in Nat /\ Len(t) = Len(tb) + 1
      /\ t[Len(tb) + 1] = sibling
      /\ \A j \in 1..Len(tb) : t[j] = tb[j]
  OBVIOUS
<1> HIDE DEF t
<1>2. \A j \in 1..Len(t) : j \in 1..Len(tb) \/ j = Len(tb) + 1
  BY <1>1
<1>3. (Len(tb) + 1) \in 1..Len(t) /\ \A j \in 1..Len(tb) : j \in 1..Len(t)
  BY <1>1
<1>4. Len(t) <= Len(proof) <=> Len(tb) <= Len(proof) /\ Len(tb) < Len(proof)
  BY <1>1
<1>5. Begins(proof, t) <=> Begins(proof, tb) /\ Len(tb) < Len(proof) /\ proof[Len(tb) + 1] = sibling
  BY <1>1, <1>2, <1>3, <1>4 DEF Begins
<1> QED BY <1>1, <1>5 DEF t

\* c is the result of a climb with proof, from leaf, of a slice with root
\* root, in which want is the leaf at that place and t the proof of it.
Agrees(c, leaf, proof, root, want, t, S) ==
    /\ t \in Seq(S)
    /\ c.used \in Nat
    /\ c.root = root <=> leaf = want /\ Begins(proof, t)
    /\ c.root = root => c.used = Len(t)

LEMMA AgreesUp ==
    ASSUME NEW b, NEW leaf, NEW proof, Len(proof) \in Nat, NEW L, NEW want, NEW tb, NEW S,
           NEW R \in S, L # Failed, Agrees(b, leaf, proof, L, want, tb, S),
           NEW onLeft \in BOOLEAN
    PROVE  LET sibling == proof[b.used + 1]
               c == IF b.root = Failed \/ b.used >= Len(proof) THEN Stuck
                    ELSE [used |-> b.used + 1,
                          root |-> IF onLeft THEN merkleNode(b.root, sibling)
                                   ELSE merkleNode(sibling, b.root)]
           IN  Agrees(c, leaf, proof, IF onLeft THEN merkleNode(L, R) ELSE merkleNode(R, L),
                      want, Append(tb, R), S)
<1> DEFINE sibling == proof[b.used + 1]
           c == IF b.root = Failed \/ b.used >= Len(proof) THEN Stuck
                ELSE [used |-> b.used + 1,
                      root |-> IF onLeft THEN merkleNode(b.root, sibling)
                               ELSE merkleNode(sibling, b.root)]
           root == IF onLeft THEN merkleNode(L, R) ELSE merkleNode(R, L)
           t == Append(tb, R)
<1>1. /\ tb \in Seq(S) /\ b.used \in Nat
      /\ b.root = L <=> leaf = want /\ Begins(proof, tb)
      /\ b.root = L => b.used = Len(tb)
  BY DEF Agrees
<1>2. /\ t \in Seq(S) /\ Len(t) = Len(tb) + 1
      /\ Begins(proof, t) <=>
           Begins(proof, tb) /\ Len(tb) < Len(proof) /\ proof[Len(tb) + 1] = R
  BY <1>1, OneUp
<1>3. Len(tb) \in Nat
  BY <1>1
<1>4. c.used \in Nat
  BY <1>1 DEF Stuck
<1>5. c.root = root <=> b.root = L /\ b.used < Len(proof) /\ sibling = R
  <2>1. root # Failed
    BY NodeExact
  <2>2. CASE b.root = Failed \/ b.used >= Len(proof)
    BY <1>1, <2>1, <2>2 DEF Stuck
  <2>3. CASE ~(b.root = Failed \/ b.used >= Len(proof))
    <3>1. c.root = IF onLeft THEN merkleNode(b.root, sibling) ELSE merkleNode(sibling, b.root)
      BY <2>3
    <3>2. b.used < Len(proof)
      BY <1>1, <2>3
    <3> HIDE DEF c, sibling
    <3> QED BY <3>1, <3>2, NodeExact
  <2> QED BY <2>2, <2>3
<1>6. c.root = root => c.used = b.used + 1
  <2>1. root # Failed
    BY NodeExact
  <2>2. CASE b.root = Failed \/ b.used >= Len(proof)
    BY <2>1, <2>2 DEF Stuck
  <2> QED BY <2>2
<1>7. sibling = R /\ b.root = L <=> b.root = L /\ proof[Len(tb) + 1] = R
  BY <1>1
<1> HIDE DEF c, root, t, sibling
<1>8. Agrees(c, leaf, proof, root, want, t, S)
  BY <1>1, <1>2, <1>3, <1>4, <1>5, <1>6, <1>7 DEF Agrees
<1> QED BY <1>8 DEF c, root, t, sibling

\* The roots of the slices of ls.
RootsOf(ls) == {SliceRoots(ls)[size][first] : size \in 1..Len(ls), first \in 1..Len(ls)}

LEMMA SliceRootExact ==
    ASSUME NEW ls, Len(ls) \in Nat, \A k \in 1..Len(ls) : ls[k] # Failed,
           NEW size \in 1..Len(ls), NEW first \in 1..(Len(ls) - size + 1)
    PROVE  /\ SliceRoots(ls)[size][first] \in RootsOf(ls)
           /\ SliceRoots(ls)[size][first] # Failed
<1>1. first \in 1..Len(ls)
  OBVIOUS
<1>2. SliceRoots(ls)[size][first] \in RootsOf(ls)
  BY <1>1 DEF RootsOf
<1>3. SliceRoots(ls)[size] = RootsStep(SliceRoots(ls), ls, size)
  BY Unfolded
<1>4. SliceRoots(ls)[size][first] # Failed
  BY <1>1, <1>3, NodeExact DEF RootsStep
<1> QED BY <1>2, <1>4

\* By the size of the slice: a least size at which they disagree has halves
\* at which they agree.
LEMMA SlicesAgree ==
    ASSUME NEW ls, Len(ls) \in Nat, \A k \in 1..Len(ls) : ls[k] # Failed,
           NEW leaf, NEW proof, Len(proof) \in Nat
    PROVE  \A size \in 1..Len(ls) : \A first \in 1..(Len(ls) - size + 1), index \in 0..(size - 1) :
             Agrees(merkleRootFromProofAt(leaf, Len(ls), proof)[size][index], leaf, proof,
                    SliceRoots(ls)[size][first], ls[first + index],
                    SliceProofs(ls)[size][first][index], RootsOf(ls))
<1> DEFINE n == Len(ls)
           climbs == merkleRootFromProofAt(leaf, n, proof)
           roots == SliceRoots(ls)
           proofs == SliceProofs(ls)
           S == RootsOf(ls)
           At(size, first, index) == Agrees(climbs[size][index], leaf, proof, roots[size][first],
                                            ls[first + index], proofs[size][first][index], S)
           All(size) == \A first \in 1..(n - size + 1), index \in 0..(size - 1) : At(size, first, index)
           T == {size \in 1..n : ~All(size)}
<1>1. \A size \in 1..n : /\ roots[size] = RootsStep(roots, ls, size)
                         /\ proofs[size] = ProofsStep(proofs, ls, size)
                         /\ climbs[size] = ClimbsStep(climbs, leaf, proof, size)
  BY Unfolded
<1>2. n \in Nat
  OBVIOUS
<1>3. \A size \in 1..n : \A first \in 1..(n - size + 1) :
         roots[size][first] \in S /\ roots[size][first] # Failed
  BY SliceRootExact
<1>4. proofs = SliceProofs(ls) /\ roots = SliceRoots(ls) /\ n = Len(ls)
  OBVIOUS
<1> HIDE DEF n, climbs, roots, proofs, S
<1>5. T = {}
  <2>1. SUFFICES ASSUME T # {} PROVE FALSE
    OBVIOUS
  <2>2. PICK m \in T : \A k \in T : m <= k
    <3>1. T \subseteq Nat
      BY <1>2
    <3> HIDE DEF T
    <3> QED BY <2>1, <3>1, LeastElement
  <2>3. m \in 1..n /\ ~All(m)
    OBVIOUS
  <2>4. \A k \in 1..(m - 1) : All(k)
    <3>1. SUFFICES ASSUME NEW k \in 1..(m - 1) PROVE k \notin T
      BY <1>2, <2>3
    <3> HIDE DEF T
    <3> QED BY <2>2, <2>3, <3>1
  <2> HIDE DEF T
  <2>5. SUFFICES ASSUME NEW first \in 1..(n - m + 1), NEW index \in 0..(m - 1)
                 PROVE  At(m, first, index)
    BY <2>3
  <2>6. /\ roots[m] = RootsStep(roots, ls, m)
        /\ proofs[m] = ProofsStep(proofs, ls, m)
        /\ climbs[m] = ClimbsStep(climbs, leaf, proof, m)
    BY <1>1, <2>3
  <2>7. CASE m = 1
    <3>1. roots[m][first] = ls[first]
      BY <1>4, <2>6, <2>7 DEF RootsStep
    <3>2. proofs[m][first][index] = << >>
      BY <1>4, <2>6, <2>7 DEF ProofsStep
    <3>3. climbs[m][index] = [root |-> leaf, used |-> 0]
      BY <2>6, <2>7 DEF ClimbsStep
    <3>4. first + index = first
      BY <1>2, <2>3, <2>7
    <3>5. Begins(proof, << >>) /\ << >> \in Seq(S) /\ Len(<< >>) = 0
      BY DEF Begins
    <3> QED BY <3>1, <3>2, <3>3, <3>4, <3>5 DEF Agrees
  <2>8. CASE m # 1
    <3> DEFINE split == largestPowerOfTwoLessThan(m)
    <3>1. split \in 1..(m - 1) /\ (m - split) \in 1..(m - 1)
      BY <1>2, <2>3, <2>8, Split
    <3> HIDE DEF split
    <3>2. /\ split \in 1..n /\ first \in 1..(n - split + 1)
          /\ (m - split) \in 1..n /\ (first + split) \in 1..(n - (m - split) + 1)
      BY <1>2, <2>3, <3>1
    <3> DEFINE L == roots[split][first]
               R == roots[m - split][first + split]
    <3>3. roots[m][first] = merkleNode(L, R)
      BY <1>4, <2>6, <2>8 DEF RootsStep, split
    <3>4. L \in S /\ R \in S /\ L # Failed /\ R # Failed
      BY <1>3, <3>2
    <3> HIDE DEF L, R
    <3> DEFINE low == proofs[split][first][index]
               high == proofs[m - split][first + split][index - split]
    <3>5. proofs[m][first][index] = IF index < split THEN Append(low, R) ELSE Append(high, L)
      <4>1. first \in 1..(Len(ls) - m + 1)
        BY <1>4
      <4>2. proofs[m][first][index] = ProofsStep(proofs, ls, m)[first][index]
        BY <2>6
      <4>3. @ = IF index < split
                THEN Append(low, SliceRoots(ls)[m - split][first + split])
                ELSE Append(high, SliceRoots(ls)[split][first])
        BY <2>8, <4>1 DEF ProofsStep, split
      <4> HIDE DEF low, high
      <4> QED BY <1>4, <4>2, <4>3, Zenon DEF L, R
    <3>6. CASE index < split
      <4> DEFINE b == climbs[split][index]
                 tb == proofs[split][first][index]
      <4>1. At(split, first, index)
        <5>1. All(split) /\ index \in 0..(split - 1)
          BY <2>4, <3>1, <3>6
        <5> QED BY <3>2, <5>1
      <4>2. proofs[m][first][index] = Append(tb, R)
        BY <3>5, <3>6
      <4>3. climbs[m][index] =
              IF b.root = Failed \/ b.used >= Len(proof) THEN Stuck
              ELSE [used |-> b.used + 1, root |-> merkleNode(b.root, proof[b.used + 1])]
        BY <2>6, <2>8, <3>6 DEF ClimbsStep, split
      <4>4. Agrees(b, leaf, proof, L, ls[first + index], tb, S)
        BY <4>1 DEF L
      <4> HIDE DEF b, tb
      <4>5. Agrees(climbs[m][index], leaf, proof, merkleNode(L, R), ls[first + index], Append(tb, R), S)
        BY <3>4, <4>3, <4>4, AgreesUp
      <4> DEFINE root == roots[m][first]
                 t == proofs[m][first][index]
      <4>7. root = merkleNode(L, R) /\ t = Append(tb, R)
        BY <3>3, <4>2
      <4> HIDE DEF root, t
      <4>8. Agrees(climbs[m][index], leaf, proof, root, ls[first + index], t, S)
        BY <4>5, <4>7
      <4> QED BY <4>8 DEF root, t
    <3>7. CASE ~(index < split)
      <4> DEFINE b == climbs[m - split][index - split]
                 tb == proofs[m - split][first + split][index - split]
      <4>1. At(m - split, first + split, index - split)
        <5>1. All(m - split)
          BY <2>4, <3>1
        <5>2. (index - split) \in 0..((m - split) - 1)
          BY <1>2, <2>3, <3>1, <3>7
        <5> QED BY <3>2, <5>1, <5>2
      <4>2. proofs[m][first][index] = Append(tb, L)
        BY <3>5, <3>7
      <4>3. climbs[m][index] =
              IF b.root = Failed \/ b.used >= Len(proof) THEN Stuck
              ELSE [used |-> b.used + 1, root |-> merkleNode(proof[b.used + 1], b.root)]
        BY <2>6, <2>8, <3>7 DEF ClimbsStep, split
      <4>4. (first + split) + (index - split) = first + index
        BY <1>2, <2>3, <3>1
      <4>5. Agrees(b, leaf, proof, R, ls[first + index], tb, S)
        BY <4>1, <4>4 DEF R
      <4> HIDE DEF b, tb
      <4>6. Agrees(climbs[m][index], leaf, proof, merkleNode(L, R), ls[first + index], Append(tb, L), S)
        BY <3>4, <4>3, <4>5, AgreesUp
      <4> DEFINE root == roots[m][first]
                 t == proofs[m][first][index]
      <4>7. root = merkleNode(L, R) /\ t = Append(tb, L)
        BY <3>3, <4>2
      <4> HIDE DEF root, t
      <4>8. Agrees(climbs[m][index], leaf, proof, root, ls[first + index], t, S)
        BY <4>6, <4>7
      <4> QED BY <4>8 DEF root, t
    <3> QED BY <3>6, <3>7
  <2> QED BY <2>7, <2>8
<1>6. \A size \in 1..n : All(size)
  BY <1>5
<1> QED BY <1>6 DEF n, climbs, roots, proofs, S


\* Two sequences are the same when one begins the other and has its length.
LEMMA BeginsWhole ==
    ASSUME NEW A, NEW B, NEW s \in Seq(A), NEW t \in Seq(B)
    PROVE  s = t <=> Begins(s, t) /\ Len(s) = Len(t)
<1>1. /\ s = [j \in 1..Len(s) |-> s[j]] /\ Len(s) \in Nat
      /\ t = [j \in 1..Len(t) |-> t[j]] /\ Len(t) \in Nat
  OBVIOUS
<1>2. ASSUME Begins(s, t), Len(s) = Len(t) PROVE s = t
  <2>1. \A j \in 1..Len(t) : s[j] = t[j]
    BY <1>2 DEF Begins
  <2>2. [j \in 1..Len(t) |-> s[j]] = [j \in 1..Len(t) |-> t[j]]
    BY <2>1
  <2> QED BY <1>1, <1>2, <2>2, Zenon
<1>3. ASSUME s = t PROVE Begins(s, t) /\ Len(s) = Len(t)
  BY <1>1, <1>3 DEF Begins
<1> QED BY <1>2, <1>3

LEMMA MerkleExact ==
    ASSUME NEW A, NEW ls \in Seq(A), ls # << >>, \A k \in 1..Len(ls) : ls[k] # Failed,
           NEW leaf, NEW index \in Int, NEW B, NEW proof \in Seq(B)
    PROVE  merkleRootFromProof(leaf, index, Len(ls), proof) = merkleRoot(ls) <=>
             /\ index \in 0..(Len(ls) - 1)
             /\ ls[index + 1] = leaf
             /\ proof = merkleProof(ls, index)
<1> DEFINE n == Len(ls)
           c == merkleRootFromProofAt(leaf, n, proof)[n][index]
           t == merkleProof(ls, index)
           root == merkleRoot(ls)
           S == RootsOf(ls)
           reached == merkleRootFromProof(leaf, index, n, proof)
<1>1. n \in Nat /\ n >= 1 /\ Len(proof) \in Nat /\ n \in 1..n /\ 1 \in 1..(n - n + 1)
  OBVIOUS
<1>2. root = SliceRoots(ls)[n][1]
  BY DEF merkleRoot
<1>3. root # Failed
  BY <1>1, <1>2, SliceRootExact
<1>4. CASE index \notin 0..(n - 1)
  <2>1. reached = Failed
    BY <1>1, <1>4 DEF merkleRootFromProof
  <2> HIDE DEF reached, root
  <2> QED BY <1>3, <1>4, <2>1 DEF reached, root
<1>5. CASE index \in 0..(n - 1)
  <2>1. Agrees(c, leaf, proof, SliceRoots(ls)[n][1], ls[1 + index], t, S)
    BY <1>1, <1>5, SlicesAgree DEF merkleProof
  <2>2. 1 + index = index + 1
    OBVIOUS
  <2>3. reached = IF c.used # Len(proof) THEN Failed ELSE c.root
    BY <1>1, <1>5 DEF merkleRootFromProof
  <2> HIDE DEF c, t, root, S, reached, n
  <2>4. Agrees(c, leaf, proof, root, ls[index + 1], t, S)
    BY <1>2, <2>1, <2>2
  <2>5. proof = t <=> Begins(proof, t) /\ Len(proof) = Len(t)
    BY <2>4, BeginsWhole DEF Agrees
  <2>6. reached = root <=> c.root = root /\ c.used = Len(proof)
    BY <1>3, <2>3
  <2>7. reached = root <=> ls[index + 1] = leaf /\ proof = t
    BY <2>4, <2>5, <2>6 DEF Agrees
  <2> QED BY <1>5, <2>7 DEF n, t, root, reached
<1> QED BY <1>4, <1>5

(***************************************************************************)
(* The log holds leaf hashes; an entry presented has a whole index and a   *)
(* sequence for a proof; the answer is the one of the climb.               *)
(***************************************************************************)
LogIsLeaves == leaves \in Seq({merkleLeaf(payload) : payload \in Payloads})

ClaimIsEntry ==
    claim # << >> => /\ leaves # << >>
                     /\ claim[1] = [leaf |-> claim[1].leaf, index |-> claim[1].index,
                                    proof |-> claim[1].proof, tampers |-> claim[1].tampers]
                     /\ claim[1].index \in Int
                     /\ claim[1].proof \in Seq(Nodes)

AnswerIsClimb ==
    climbed # << >> =>
      /\ claim # << >>
      /\ climbed[1] = merkleRootFromProof(claim[1].leaf, claim[1].index, Len(leaves), claim[1].proof)

TreeInv == LogIsLeaves /\ ClaimIsEntry /\ AnswerIsClimb

LEMMA TamperedIsProof ==
    ASSUME NEW proof \in Seq(Nodes), NEW changed \in Tampered(proof)
    PROVE  changed \in Seq(Nodes)
<1>1. CASE \E i \in DOMAIN proof : changed = RemoveAt(proof, i)
  <2>1. PICK i \in 1..Len(proof) : changed = SubSeq(proof, 1, i - 1) \o SubSeq(proof, i + 1, Len(proof))
    <3>1. DOMAIN proof = 1..Len(proof)
      OBVIOUS
    <3> QED BY <1>1, <3>1, Zenon DEF RemoveAt
  <2>2. SubSeq(proof, 1, i - 1) \in Seq(Nodes) /\ SubSeq(proof, i + 1, Len(proof)) \in Seq(Nodes)
    OBVIOUS
  <2> QED BY <2>1, <2>2
<1>2. CASE \E i \in 1..(Len(proof) + 1), node \in Nodes : changed = InsertAt(proof, i, node)
  <2>1. PICK i \in 1..(Len(proof) + 1), node \in Nodes :
          changed = SubSeq(proof, 1, i - 1) \o <<node>> \o SubSeq(proof, i, Len(proof))
    BY <1>2 DEF InsertAt
  <2>2. /\ SubSeq(proof, 1, i - 1) \in Seq(Nodes) /\ SubSeq(proof, i, Len(proof)) \in Seq(Nodes)
        /\ <<node>> \in Seq(Nodes)
    OBVIOUS
  <2> QED BY <2>1, <2>2
<1>3. CASE \E i \in DOMAIN proof, node \in Nodes : changed = ReplaceAt(proof, i, node)
  BY <1>3 DEF ReplaceAt
<1> QED BY <1>1, <1>2, <1>3 DEF Tampered

\* A proof the generator builds has nodes of the log's tree only.
LEMMA BuiltIsProof ==
    ASSUME LogIsLeaves, leaves # << >>, NEW of \in 0..(Len(leaves) - 1)
    PROVE  merkleProof(leaves, of) \in Seq(Nodes)
<1>1. Len(leaves) \in 1..Len(leaves) /\ 1 \in 1..(Len(leaves) - Len(leaves) + 1) /\ Len(leaves) \in Nat
  BY DEF LogIsLeaves
<1>2. \A k \in 1..Len(leaves) : leaves[k] # Failed
  BY NodeExact DEF LogIsLeaves
<1>3. Agrees(merkleRootFromProofAt(Failed, Len(leaves), << >>)[Len(leaves)][of], Failed, << >>,
             SliceRoots(leaves)[Len(leaves)][1], leaves[1 + of],
             SliceProofs(leaves)[Len(leaves)][1][of], RootsOf(leaves))
  BY <1>1, <1>2, SlicesAgree
<1> DEFINE t == merkleProof(leaves, of)
<1>4. t \in Seq(RootsOf(leaves))
  BY <1>3 DEF Agrees, merkleProof
<1>5. Range(t) \subseteq Nodes
  BY DEF Nodes
<1> HIDE DEF t
<1>6. \A i \in 1..Len(t) : t[i] \in Nodes
  BY <1>4, <1>5 DEF Range
<1>7. t \in Seq(Nodes)
  BY <1>4, <1>6
<1> QED BY <1>7 DEF t

LEMMA TreeInvariance == TreeSpec => []TreeInv
<1>1. TreeInit => TreeInv
  BY DEF TreeInit, TreeInv, LogIsLeaves, ClaimIsEntry, AnswerIsClimb
<1>2. TreeInv /\ [TreeNext]_treeVars => TreeInv'
  <2> SUFFICES ASSUME TreeInv, [TreeNext]_treeVars PROVE TreeInv'
    OBVIOUS
  <2>1. ASSUME NEW payload \in Payloads, Grow(payload) PROVE TreeInv'
    <3>1. leaves' \in Seq({merkleLeaf(p) : p \in Payloads})
      BY <2>1 DEF TreeInv, LogIsLeaves, Grow
    <3> QED BY <2>1, <3>1 DEF TreeInv, LogIsLeaves, ClaimIsEntry, AnswerIsClimb, Grow
  <2>2. ASSUME NEW payload \in Payloads, NEW index \in -1..Len(leaves),
               NEW of \in 0..(Len(leaves) - 1), Claim(payload, index, of)
        PROVE  TreeInv'
    <3>1. Nodes' = Nodes /\ merkleProof(leaves, of) \in Seq(Nodes)
      BY <2>2, BuiltIsProof DEF TreeInv, Claim, Nodes
    <3>2. /\ leaves' = leaves /\ leaves # << >> /\ climbed' = climbed /\ climbed = << >>
          /\ claim'[1].index = index /\ claim'[1].proof = merkleProof(leaves, of)
          /\ claim'[1] = [leaf |-> claim'[1].leaf, index |-> claim'[1].index,
                          proof |-> claim'[1].proof, tampers |-> claim'[1].tampers]
      BY <2>2 DEF Claim, TreeInv, AnswerIsClimb
    <3>3. index \in Int
      BY DEF TreeInv, LogIsLeaves
    <3> QED BY <3>1, <3>2, <3>3 DEF TreeInv, LogIsLeaves, ClaimIsEntry, AnswerIsClimb
  <2>3. ASSUME Tamper PROVE TreeInv'
    <3>1. PICK proof \in Tampered(claim[1].proof) :
            claim' = <<[claim[1] EXCEPT !.proof = proof, !.tampers = @ + 1]>>
      BY <2>3 DEF Tamper
    <3>2. Nodes' = Nodes /\ leaves' = leaves /\ climbed' = climbed /\ climbed = << >> /\ claim # << >>
      BY <2>3 DEF Tamper, Nodes
    <3>3. proof \in Seq(Nodes)
      BY <3>1, <3>2, TamperedIsProof DEF TreeInv, ClaimIsEntry
    <3>4. /\ claim'[1].proof = proof /\ claim'[1].index = claim[1].index
          /\ claim'[1] = [leaf |-> claim'[1].leaf, index |-> claim'[1].index,
                          proof |-> claim'[1].proof, tampers |-> claim'[1].tampers]
      BY <3>1, <3>2 DEF TreeInv, ClaimIsEntry
    <3> QED BY <3>2, <3>3, <3>4 DEF TreeInv, LogIsLeaves, ClaimIsEntry, AnswerIsClimb
  <2>4. ASSUME Climb PROVE TreeInv'
    <3>1. Nodes' = Nodes
      BY <2>4 DEF Climb, Nodes
    <3> QED BY <2>4, <3>1 DEF TreeInv, LogIsLeaves, ClaimIsEntry, AnswerIsClimb, Climb
  <2>5. ASSUME UNCHANGED treeVars PROVE TreeInv'
    <3>1. Nodes' = Nodes
      BY <2>5 DEF treeVars, Nodes
    <3> QED BY <2>5, <3>1 DEF treeVars, TreeInv, LogIsLeaves, ClaimIsEntry, AnswerIsClimb
  <2> QED BY <2>1, <2>2, <2>3, <2>4, <2>5 DEF TreeNext
<1> QED BY <1>1, <1>2, PTL DEF TreeSpec

(***************************************************************************)
(* A climb reaches the generator's root exactly for a leaf of the log at   *)
(* the index claimed with the proof the generator builds for it, for any   *)
(* log, index and proof and however large the tree is.                     *)
(* (merkleRootFromProof, checks.go 997-1038, against merkleRoot and        *)
(* merkleProof, aelgen main.go 2525-2554.)                                 *)
(***************************************************************************)
THEOREM InclusionExactHolds == TreeSpec => []InclusionExact
<1>1. TreeInv => InclusionExact
  <2> SUFFICES ASSUME TreeInv, climbed # << >> PROVE InclusionExact
    BY DEF InclusionExact
  <2>1. /\ leaves # << >> /\ claim[1].index \in Int /\ claim[1].proof \in Seq(Nodes)
        /\ leaves \in Seq({merkleLeaf(payload) : payload \in Payloads})
    BY DEF TreeInv, LogIsLeaves, ClaimIsEntry, AnswerIsClimb
  <2>2. \A k \in 1..Len(leaves) : leaves[k] # Failed
    BY <2>1, NodeExact
  <2>3. merkleRootFromProof(claim[1].leaf, claim[1].index, Len(leaves), claim[1].proof) = merkleRoot(leaves) <=>
           /\ claim[1].index \in 0..(Len(leaves) - 1)
           /\ leaves[claim[1].index + 1] = claim[1].leaf
           /\ claim[1].proof = merkleProof(leaves, claim[1].index)
    BY <2>1, <2>2, MerkleExact
  <2> QED BY <2>3 DEF TreeInv, AnswerIsClimb, InclusionExact
<1> QED BY <1>1, TreeInvariance, PTL

----------------------------------------------------------------------------
(***************************************************************************)
(* AELPaths: what a walk along a path finds.                               *)
(***************************************************************************)
\* From 0 up to m, one after the other.
LEMMA Upwards ==
    ASSUME NEW m \in Nat, NEW T, 0 \in T, \A n \in 1..m : n - 1 \in T => n \in T
    PROVE  0..m \subseteq T
<1> DEFINE U == {n \in 0..m : n \notin T}
<1>1. SUFFICES ASSUME U # {} PROVE FALSE
  OBVIOUS
<1>2. PICK n \in U : \A k \in U : n <= k
  <2>1. U \subseteq Nat
    OBVIOUS
  <2> HIDE DEF U
  <2> QED BY <1>1, <2>1, LeastElement
<1>3. n \in 1..m /\ n - 1 \in 0..m
  OBVIOUS
<1>4. n - 1 \notin U
  <2> HIDE DEF U
  <2> QED BY <1>2, <1>3
<1> QED BY <1>3, <1>4

Parts == Components \cup {".."}

\* Entries lie in directories or links that exist, and links are short.
FsOK ==
    /\ fs = [path \in DOMAIN fs |-> fs[path]]
    /\ RootDir \in DOMAIN fs
    /\ DOMAIN fs \subseteq {RootDir} \cup Places
    /\ \A path \in DOMAIN fs : ParentDir(path) \in DOMAIN fs
    /\ \A path \in DOMAIN fs : fs[path] # <<"directory">> => fs[path][2] \in {RootDir} \cup Places

WalkOK(w) ==
    /\ w = [at |-> w.at, rest |-> w.rest, links |-> w.links, error |-> w.error]
    /\ w.at \in Seq(Components)
    /\ w.rest \in Seq(Parts)
    /\ w.links \in Nat
    /\ w.error \in {NoError, Missing, Fault}

Finished(w) == w.rest = << >> \/ w.error # NoError
Ahead(w) == Len(w.rest) + LinkLength * w.links

LEMMA PlacesShort ==
    /\ Places \subseteq Seq(Components)
    /\ \A path \in Places : Len(path) \in 1..LinkLength
<1>1. ASSUME NEW a \in Components PROVE <<a>> \in Seq(Components) /\ Len(<<a>>) \in 1..2
  OBVIOUS
<1>2. ASSUME NEW a \in Components, NEW b \in Components
      PROVE  <<a, b>> \in Seq(Components) /\ Len(<<a, b>>) \in 1..2
  OBVIOUS
<1>3. ASSUME NEW path \in Places PROVE path \in Seq(Components) /\ Len(path) \in 1..2
  <2>1. CASE \E a \in Components : path = <<a>>
    BY <1>1, <2>1
  <2>2. CASE \E a, b \in Components : path = <<a, b>>
    <3>1. PICK a \in Components, b \in Components : path = <<a, b>>
      BY <2>2
    <3> QED BY <1>2, <3>1
  <2> QED BY <2>1, <2>2 DEF Places
<1> QED BY <1>3 DEF LinkLength

\* What a link leads to.
LEMMA LinkedTo ==
    ASSUME FsOK, NEW path \in DOMAIN fs, fs[path] # <<"directory">>
    PROVE  fs[path][2] \in Seq(Components) /\ Len(fs[path][2]) \in 0..2
<1> DEFINE to == fs[path][2]
<1>1. to \in {RootDir} \cup Places
  BY Zenon DEF FsOK
<1> HIDE DEF to
<1>2. to = RootDir => to \in Seq(Components) /\ Len(to) \in 0..2
  BY DEF RootDir
<1>3. to \in Places => to \in Seq(Components) /\ Len(to) \in 0..2
  BY PlacesShort DEF LinkLength
<1> QED BY <1>1, <1>2, <1>3 DEF to

LEMMA PrefixSeq ==
    ASSUME NEW S, NEW s \in Seq(S), NEW n \in 0..Len(s)
    PROVE  /\ SubSeq(s, 1, n) \in Seq(S)
           /\ Len(SubSeq(s, 1, n)) = n
           /\ \A i \in 1..n : SubSeq(s, 1, n)[i] = s[i]
<1>1. \A i \in 1..n : s[i] \in S
  OBVIOUS
<1>2. 1 \in Int /\ n \in Int
  OBVIOUS
<1>3. /\ SubSeq(s, 1, n) \in Seq(S)
      /\ Len(SubSeq(s, 1, n)) = IF 1 <= n THEN n - 1 + 1 ELSE 0
      /\ \A i \in 1..(n - 1 + 1) : SubSeq(s, 1, n)[i] = s[1 + i - 1]
  BY <1>1, <1>2, SubSeqProperties
<1>4. n - 1 + 1 = n /\ \A i \in 1..n : 1 + i - 1 = i
  OBVIOUS
<1> QED BY <1>3, <1>4

LEMMA ParentPath ==
    ASSUME NEW S, NEW path \in Seq(S)
    PROVE  /\ ParentDir(path) \in Seq(S)
           /\ path # << >> => /\ path = Append(ParentDir(path), Last(path))
                              /\ ParentDir(path) = Front(path)
                              /\ Len(ParentDir(path)) = Len(path) - 1
                              /\ Last(path) \in S
<1>1. CASE path = << >>
  BY <1>1 DEF ParentDir, RootDir
<1>2. CASE path # << >>
  <2>1. ParentDir(path) = Front(path)
    BY <1>2 DEF ParentDir, RootDir
  <2>2. Len(path) \in Nat \ {0} /\ Len(path) \in 1..Len(path)
    BY <1>2
  <2>3. /\ Front(path) \in Seq(S) /\ Len(Front(path)) = Len(path) - 1
        /\ \A i \in 1..(Len(path) - 1) : Front(path)[i] = path[i]
    <3>1. Front(path) = SubSeq(path, 1, Len(path) - 1) /\ Len(path) - 1 \in 0..Len(path)
      BY <2>2 DEF Front
    <3> QED BY <3>1, PrefixSeq
  <2>4. Last(path) \in S
    BY <2>2 DEF Last
  <2>5. path = Append(Front(path), Last(path))
    BY <2>2, <2>3, <2>4 DEF Last
  <2> QED BY <2>1, <2>3, <2>4, <2>5
<1> QED BY <1>1, <1>2

\* A directory is entered.
LEMMA FollowDirectory ==
    ASSUME NEW w, WalkOK(w), ~Finished(w), Head(w.rest) # "..",
           Append(w.at, Head(w.rest)) \in DOMAIN fs, fs[Append(w.at, Head(w.rest))] = <<"directory">>
    PROVE  Follow(w) = [at |-> Append(w.at, Head(w.rest)), rest |-> Tail(w.rest),
                        links |-> w.links, error |-> w.error]
<1> DEFINE next == Append(w.at, Head(w.rest))
           tail == Tail(w.rest)
<1>1. Follow(w) = [w EXCEPT !.at = next, !.rest = Tail(@)]
  BY Zenon DEF Follow, Finished
<1>2. Follow(w) = [at |-> next, rest |-> tail, links |-> w.links, error |-> w.error]
  BY <1>1 DEF WalkOK
<1> QED BY <1>2

LEMMA FollowOK ==
    ASSUME FsOK, NEW w, WalkOK(w)
    PROVE  /\ WalkOK(Follow(w))
           /\ Finished(w) => Follow(w) = w
           /\ ~Finished(w) => Finished(Follow(w)) \/ Ahead(Follow(w)) < Ahead(w)
<1> DEFINE next == Append(w.at, Head(w.rest))
<1>1. CASE Finished(w)
  BY <1>1, Zenon DEF Follow, Finished
<1>2. CASE ~Finished(w)
  <2>1. /\ w.rest # << >> /\ w.error = NoError /\ Head(w.rest) \in Parts
        /\ Tail(w.rest) \in Seq(Parts) /\ Len(Tail(w.rest)) = Len(w.rest) - 1
        /\ Len(w.rest) \in Nat /\ w.links \in Nat /\ w.at \in Seq(Components)
    BY <1>2 DEF Finished, WalkOK
  <2>2. CASE Head(w.rest) = ".."
    <3>1. Follow(w) = [w EXCEPT !.at = ParentDir(@), !.rest = Tail(@)]
      BY <1>2, <2>2, Zenon DEF Follow, Finished
    <3>2. ParentDir(w.at) \in Seq(Components)
      BY <2>1, ParentPath
    <3> DEFINE up == ParentDir(w.at)
               tail == Tail(w.rest)
    <3>3. Follow(w) = [at |-> up, rest |-> tail, links |-> w.links, error |-> w.error]
      BY <3>1 DEF WalkOK
    <3> HIDE DEF up, tail
    <3>4. Ahead(Follow(w)) < Ahead(w)
      BY <2>1, <3>3 DEF Ahead, LinkLength, tail
    <3>5. WalkOK(Follow(w))
      BY <2>1, <3>2, <3>3 DEF WalkOK, up, tail
    <3> QED BY <1>2, <3>4, <3>5
  <2>3. CASE Head(w.rest) # ".."
    <3>1. next \in Seq(Components)
      BY <2>1, <2>3 DEF Parts
    <3>2. CASE next \notin DOMAIN fs
      <4>1. Follow(w) = [w EXCEPT !.error = Missing]
        BY <1>2, <2>3, <3>2, Zenon DEF Follow, Finished
      <4> QED BY <1>2, <4>1 DEF WalkOK, Finished, Missing, NoError
    <3>3. CASE next \in DOMAIN fs /\ fs[next] = <<"directory">>
      <4> DEFINE tail == Tail(w.rest)
      <4>2. Follow(w) = [at |-> next, rest |-> tail, links |-> w.links, error |-> w.error]
        BY <1>2, <2>3, <3>3, FollowDirectory
      <4> HIDE DEF next, tail
      <4>3. Ahead(Follow(w)) < Ahead(w)
        BY <2>1, <4>2 DEF Ahead, LinkLength, tail
      <4>4. WalkOK(Follow(w))
        BY <2>1, <3>1, <4>2 DEF WalkOK, tail
      <4> QED BY <1>2, <4>3, <4>4
    <3>4. CASE next \in DOMAIN fs /\ fs[next] # <<"directory">> /\ w.links = 0
      <4>1. Follow(w) = [w EXCEPT !.error = Fault]
        BY <1>2, <2>3, <3>4, Zenon DEF Follow, Finished
      <4> QED BY <1>2, <4>1 DEF WalkOK, Finished, Fault, NoError
    <3>5. CASE next \in DOMAIN fs /\ fs[next] # <<"directory">> /\ w.links # 0
      <4> DEFINE to == fs[next][2]
      <4>1. Follow(w) = [w EXCEPT !.at = RootDir, !.rest = to \o Tail(@), !.links = @ - 1]
        BY <1>2, <2>3, <3>5, Zenon DEF Follow, Finished
      <4>2. to \in Seq(Components) /\ Len(to) \in 0..2
        BY <3>5, LinkedTo
      <4> HIDE DEF to, next
      <4>3. to \o Tail(w.rest) \in Seq(Parts) /\ Len(to \o Tail(w.rest)) = Len(to) + Len(w.rest) - 1
        BY <2>1, <4>2 DEF Parts
      <4> DEFINE rest == to \o Tail(w.rest)
      <4>4. Follow(w) = [at |-> RootDir, rest |-> rest, links |-> w.links - 1, error |-> w.error]
        BY <4>1 DEF WalkOK
      <4>7. w.links - 1 \in Nat
        BY <2>1, <3>5
      <4> HIDE DEF rest
      <4>5. RootDir \in Seq(Components)
        BY DEF RootDir
      <4>6. Ahead(Follow(w)) < Ahead(w)
        <5>1. Len(rest) \in Nat /\ Len(rest) <= Len(w.rest) + 1
          <6>1. Len(rest) = Len(to) + Len(w.rest) - 1
            BY <4>3 DEF rest
          <6>2. Len(w.rest) >= 1
            BY <2>1 DEF WalkOK
          <6>3. Len(to) \in 0..2 /\ Len(w.rest) \in Nat
            BY <2>1, <4>2
          <6>4. ASSUME NEW a \in 0..2, NEW b \in Nat, b >= 1, NEW c, c = a + b - 1
                PROVE  c \in Nat /\ c <= b + 1
            BY <6>4
          <6> QED BY <6>1, <6>2, <6>3, <6>4
        <5>2. Ahead(Follow(w)) = Len(rest) + 2 * (w.links - 1)
          BY <4>4 DEF Ahead, LinkLength
        <5>3. Ahead(w) = Len(w.rest) + 2 * w.links
          BY DEF Ahead, LinkLength
        <5> QED BY <2>1, <5>1, <5>2, <5>3
      <4>8. WalkOK(Follow(w))
        BY <2>1, <4>3, <4>4, <4>5, <4>7 DEF WalkOK, rest
      <4> QED BY <1>2, <4>6, <4>8
    <3> QED BY <3>2, <3>3, <3>4, <3>5
  <2> QED BY <2>2, <2>3
<1> QED BY <1>1, <1>2

IsWalk(f, path, m) == f = [n \in 0..m |-> IF n = 0 THEN SetOut(path) ELSE Follow(f[n - 1])]

\* The recursion of Walk has a solution.
LEMMA WalkExists ==
    ASSUME NEW path, NEW m \in Nat
    PROVE  \E f : IsWalk(f, path, m)
<1> DEFINE T == {k \in Nat : \E f : IsWalk(f, path, k)}
<1>1. 0 \in T
  <2> DEFINE f == [n \in 0..0 |-> SetOut(path)]
  <2>1. \A n \in 0..0 : n = 0
    OBVIOUS
  <2>2. IsWalk(f, path, 0)
    BY <2>1 DEF IsWalk
  <2> QED BY <2>2
<1>2. ASSUME NEW k \in 1..m, k - 1 \in T PROVE k \in T
  <2>1. PICK f : IsWalk(f, path, k - 1)
    BY <1>2
  <2> DEFINE g == [n \in 0..k |-> IF n = k THEN Follow(f[k - 1]) ELSE f[n]]
             h == [n \in 0..k |-> IF n = 0 THEN SetOut(path) ELSE Follow(g[n - 1])]
  <2>2. ASSUME NEW n \in 0..k PROVE g[n] = h[n]
    <3>1. n # 0 => n - 1 \in 0..(k - 1) /\ n - 1 # k /\ n - 1 \in 0..k
      OBVIOUS
    <3>2. CASE n = k
      BY <3>1, <3>2
    <3>3. CASE n # k
      <4>1. n \in 0..(k - 1)
        BY <3>3
      <4>2. f[n] = IF n = 0 THEN SetOut(path) ELSE Follow(f[n - 1])
        BY <2>1, <4>1 DEF IsWalk
      <4> QED BY <3>1, <3>3, <4>2
    <3> QED BY <3>2, <3>3
  <2>3. g = h
    BY <2>2
  <2>4. IsWalk(g, path, k)
    BY <2>3 DEF IsWalk
  <2> QED BY <2>4
<1> HIDE DEF T
<1>3. m \in T
  BY <1>1, <1>2, Upwards
<1> QED BY <1>3 DEF T

LEMMA Walked ==
    ASSUME NEW path, Steps(path) \in Nat
    PROVE  /\ Walk(path)[0] = SetOut(path)
           /\ \A n \in 1..Steps(path) : Walk(path)[n] = Follow(Walk(path)[n - 1])
<1>1. Walk(path) = CHOOSE f : IsWalk(f, path, Steps(path))
  BY Zenon DEF Walk, IsWalk
<1>2. IsWalk(Walk(path), path, Steps(path))
  BY <1>1, WalkExists
<1> QED BY <1>2 DEF IsWalk

\* What is left of a walk is a number.
LEMMA AheadInteger ==
    ASSUME NEW x, WalkOK(x)
    PROVE  Ahead(x) \in Int
<1>1. Len(x.rest) \in Nat /\ x.links \in Nat
  BY DEF WalkOK
<1> QED BY <1>1 DEF Ahead, LinkLength

\* A walk is over after Steps, and comes no further then.
LEMMA WalkEnds ==
    ASSUME FsOK, NEW path \in Seq(Parts)
    PROVE  /\ Steps(path) \in Nat
           /\ \A n \in 0..Steps(path) : WalkOK(Walk(path)[n])
           /\ Finished(Walk(path)[Steps(path)])
<1> DEFINE w == Walk(path)
           m == Steps(path)
<1>1. m \in Nat /\ m = Len(path) + LinkLength * MaxEntries /\ Len(path) \in Nat
  BY EntriesAssumption DEF Steps, LinkLength
<1>2. w[0] = SetOut(path) /\ \A n \in 1..m : w[n] = Follow(w[n - 1])
  BY <1>1, Walked
<1> HIDE DEF w, m
<1> DEFINE T == {n \in 0..m : WalkOK(w[n]) /\ (Finished(w[n]) \/ Ahead(w[n]) <= m - n)}
<1>3. 0 \in T
  <2>1. w[0] = [at |-> << >>, rest |-> path, links |-> MaxEntries, error |-> NoError]
    BY <1>2 DEF SetOut, RootDir
  <2>2. WalkOK(w[0])
    BY <2>1, EntriesAssumption DEF WalkOK
  <2>3. Ahead(w[0]) = m
    BY <1>1, <2>1, EntriesAssumption DEF Ahead
  <2> QED BY <1>1, <2>2, <2>3
<1>4. ASSUME NEW n \in 1..m, n - 1 \in T PROVE n \in T
  <2>1. /\ WalkOK(w[n - 1]) /\ w[n] = Follow(w[n - 1])
        /\ Finished(w[n - 1]) \/ Ahead(w[n - 1]) <= m - (n - 1)
    BY <1>2, <1>4
  <2>2. WalkOK(w[n])
    BY <2>1, FollowOK
  <2>3. Ahead(w[n]) \in Int /\ Ahead(w[n - 1]) \in Int
    BY <2>1, <2>2, AheadInteger, Zenon
  <2>4. Finished(w[n]) \/ Ahead(w[n]) <= m - n
    <3>1. CASE Finished(w[n - 1])
      BY <2>1, <3>1, FollowOK
    <3>2. CASE ~Finished(w[n - 1])
      <4>1. Finished(w[n]) \/ Ahead(w[n]) < Ahead(w[n - 1])
        BY <2>1, <3>2, FollowOK
      <4> QED BY <1>1, <2>1, <2>3, <3>2, <4>1
    <3> QED BY <3>1, <3>2
  <2> QED BY <2>2, <2>4
<1>5. 0..m \subseteq T
  <2> HIDE DEF T
  <2> QED BY <1>1, <1>3, <1>4, Upwards
<1>6. \A n \in 0..m : WalkOK(w[n])
  BY <1>5
<1>7. Finished(w[m])
  <2>1. m \in T
    BY <1>1, <1>5
  <2>2. Finished(w[m]) \/ Ahead(w[m]) <= 0
    BY <1>1, <2>1
  <2>3. WalkOK(w[m])
    BY <2>1
  <2> QED BY <2>2, <2>3 DEF WalkOK, Ahead, LinkLength, Finished
<1> QED BY <1>1, <1>6, <1>7 DEF w, m

\* The same walk, with one component more ahead.
With(w, x) == [at |-> w.at, rest |-> Append(w.rest, x), links |-> w.links, error |-> w.error]

LEMMA FollowWith ==
    ASSUME FsOK, NEW w, WalkOK(w), NEW x \in Parts, ~Finished(w)
    PROVE  Follow(With(w, x)) = With(Follow(w), x)
<1> DEFINE next == Append(w.at, Head(w.rest))
           v == With(w, x)
<1>1. /\ w.rest # << >> /\ w.error = NoError /\ Head(w.rest) \in Parts
      /\ Tail(w.rest) \in Seq(Parts) /\ w.rest \in Seq(Parts)
      /\ w = [at |-> w.at, rest |-> w.rest, links |-> w.links, error |-> w.error]
  BY DEF Finished, WalkOK
<1>2. /\ v.at = w.at /\ v.links = w.links /\ v.error = w.error /\ v.rest = Append(w.rest, x)
      /\ v = [at |-> v.at, rest |-> v.rest, links |-> v.links, error |-> v.error]
  BY DEF With
<1>3. /\ v.rest # << >> /\ Head(v.rest) = Head(w.rest) /\ Tail(v.rest) = Append(Tail(w.rest), x)
  BY <1>1, <1>2
<1> HIDE DEF v
<1>4. CASE Head(w.rest) = ".."
  <2>1. Follow(w) = [w EXCEPT !.at = ParentDir(@), !.rest = Tail(@)]
    BY <1>1, <1>4, Zenon DEF Follow
  <2>2. Follow(v) = [v EXCEPT !.at = ParentDir(@), !.rest = Tail(@)]
    BY <1>1, <1>2, <1>3, <1>4, Zenon DEF Follow
  <2> DEFINE up == ParentDir(w.at)
             tail == Tail(w.rest)
             rest == Tail(v.rest)
  <2>3. Follow(w) = [at |-> up, rest |-> tail, links |-> w.links, error |-> w.error]
    BY <1>1, <2>1
  <2>4. Follow(v) = [at |-> up, rest |-> rest, links |-> w.links, error |-> w.error]
    BY <1>2, <2>2
  <2>5. rest = Append(tail, x)
    BY <1>3
  <2> HIDE DEF up, tail, rest
  <2> QED BY <2>3, <2>4, <2>5 DEF With, v
<1>5. CASE Head(w.rest) # ".." /\ next \notin DOMAIN fs
  <2>1. Follow(w) = [w EXCEPT !.error = Missing]
    BY <1>1, <1>5, Zenon DEF Follow
  <2>2. Follow(v) = [v EXCEPT !.error = Missing]
    BY <1>1, <1>2, <1>3, <1>5, Zenon DEF Follow
  <2> QED BY <1>1, <1>2, <2>1, <2>2 DEF With, v
<1>6. CASE Head(w.rest) # ".." /\ next \in DOMAIN fs /\ fs[next] = <<"directory">>
  <2>1. Follow(w) = [w EXCEPT !.at = next, !.rest = Tail(@)]
    BY <1>1, <1>6, Zenon DEF Follow
  <2>2. Follow(v) = [v EXCEPT !.at = next, !.rest = Tail(@)]
    BY <1>1, <1>2, <1>3, <1>6, Zenon DEF Follow
  <2> DEFINE tail == Tail(w.rest)
             rest == Tail(v.rest)
  <2>3. Follow(w) = [at |-> next, rest |-> tail, links |-> w.links, error |-> w.error]
    BY <1>1, <2>1
  <2>4. Follow(v) = [at |-> next, rest |-> rest, links |-> w.links, error |-> w.error]
    BY <1>2, <2>2
  <2>5. rest = Append(tail, x)
    BY <1>3
  <2> HIDE DEF next, tail, rest
  <2> QED BY <2>3, <2>4, <2>5 DEF With, v
<1>7. CASE Head(w.rest) # ".." /\ next \in DOMAIN fs /\ fs[next] # <<"directory">> /\ w.links = 0
  <2>1. Follow(w) = [w EXCEPT !.error = Fault]
    BY <1>1, <1>7, Zenon DEF Follow
  <2>2. Follow(v) = [v EXCEPT !.error = Fault]
    BY <1>1, <1>2, <1>3, <1>7, Zenon DEF Follow
  <2> QED BY <1>1, <1>2, <2>1, <2>2 DEF With, v
<1>8. CASE Head(w.rest) # ".." /\ next \in DOMAIN fs /\ fs[next] # <<"directory">> /\ w.links # 0
  <2> DEFINE to == fs[next][2]
  <2>1. Follow(w) = [w EXCEPT !.at = RootDir, !.rest = to \o Tail(@), !.links = @ - 1]
    BY <1>1, <1>8, Zenon DEF Follow
  <2>2. Follow(v) = [v EXCEPT !.at = RootDir, !.rest = to \o Tail(@), !.links = @ - 1]
    BY <1>1, <1>2, <1>3, <1>8, Zenon DEF Follow
  <2>3. to \in Seq(Parts)
    BY <1>8, LinkedTo DEF Parts
  <2> HIDE DEF to, next
  <2>4. to \o Append(Tail(w.rest), x) = Append(to \o Tail(w.rest), x)
    <3> DEFINE t == Tail(w.rest)
    <3>1. to \in Seq(Parts) /\ t \in Seq(Parts) /\ <<x>> \in Seq(Parts) /\ to \o t \in Seq(Parts)
      BY <1>1, <2>3
    <3> HIDE DEF t
    <3>2. Append(t, x) = t \o <<x>> /\ Append(to \o t, x) = (to \o t) \o <<x>>
      BY <3>1, AppendIsConcat
    <3>3. to \o (t \o <<x>>) = (to \o t) \o <<x>>
      BY <3>1, ConcatAssociative
    <3> QED BY <3>2, <3>3 DEF t
  <2> DEFINE longer == to \o Tail(w.rest)
             rest == to \o Append(Tail(w.rest), x)
  <2>5. Follow(w) = [at |-> RootDir, rest |-> longer, links |-> w.links - 1, error |-> w.error]
    BY <1>1, <2>1
  <2>6. Follow(v) = [at |-> RootDir, rest |-> rest, links |-> w.links - 1, error |-> w.error]
    BY <1>2, <1>3, <2>2
  <2>7. rest = Append(longer, x)
    BY <2>4
  <2> HIDE DEF longer, rest
  <2>8. With(Follow(w), x) = [at |-> RootDir, rest |-> Append(longer, x),
                              links |-> w.links - 1, error |-> w.error]
    BY <2>5 DEF With
  <2> QED BY <2>6, <2>7, <2>8 DEF v
<1> QED BY <1>4, <1>5, <1>6, <1>7, <1>8 DEF v

LEMMA WalkStays ==
    ASSUME FsOK, NEW path \in Seq(Parts), NEW n \in 0..Steps(path), Finished(Walk(path)[n])
    PROVE  Walk(path)[Steps(path)] = Walk(path)[n]
<1> DEFINE w == Walk(path)
           m == Steps(path)
<1>1. m \in Nat /\ \A j \in 0..m : WalkOK(w[j])
  BY WalkEnds
<1>2. \A j \in 1..m : w[j] = Follow(w[j - 1])
  BY <1>1, Walked
<1> HIDE DEF w, m
<1> DEFINE T == {j \in 0..m : j >= n => w[j] = w[n]}
<1>3. 0 \in T
  BY <1>1 DEF m
<1>4. ASSUME NEW j \in 1..m, j - 1 \in T PROVE j \in T
  <2>1. CASE j <= n
    BY <1>1, <2>1 DEF m
  <2>2. CASE j > n
    <3>1. w[j - 1] = w[n] /\ w[j] = Follow(w[j - 1])
      BY <1>1, <1>2, <1>4, <2>2 DEF m
    <3>2. Follow(w[n]) = w[n]
      BY <1>1, FollowOK DEF w, m
    <3> QED BY <3>1, <3>2
  <2> QED BY <1>1, <2>1, <2>2 DEF m
<1>5. 0..m \subseteq T
  <2> HIDE DEF T
  <2> QED BY <1>1, <1>3, <1>4, Upwards
<1>6. m \in T
  BY <1>1, <1>5
<1> QED BY <1>1, <1>6 DEF w, m

\* What a walk found is a path in the file system.
LEMMA EvalKinds ==
    ASSUME FsOK, NEW path \in Seq(Parts)
    PROVE  LET w == Walk(path)[Steps(path)]
           IN  \/ /\ w.error = NoError /\ w.rest = << >>
                  /\ EvalSymlinks(path) = Found(w.at) /\ w.at \in Seq(Components)
               \/ /\ w.error # NoError /\ w.error \in {Missing, Fault}
                  /\ EvalSymlinks(path) = w.error
<1> DEFINE w == Walk(path)[Steps(path)]
<1>1. WalkOK(w) /\ Finished(w)
  BY WalkEnds
<1>2. EvalSymlinks(path) = IF w.error # NoError THEN w.error ELSE Found(w.at)
  BY DEF EvalSymlinks
<1> HIDE DEF w
<1>3. /\ w.error = NoError /\ w.rest = << >>
         /\ EvalSymlinks(path) = Found(w.at) /\ w.at \in Seq(Components)
      \/ /\ w.error # NoError /\ w.error \in {Missing, Fault}
         /\ EvalSymlinks(path) = w.error
  BY <1>1, <1>2 DEF WalkOK, Finished
<1> QED BY <1>3 DEF w

LEMMA Outcomes ==
    /\ \A d : Found(d)[1] = "found" /\ Found(d)[2] = d /\ Found(d) \notin {Missing, Fault}
    /\ \A c, d : Found(c) = Found(d) => c = d
    /\ Missing # Fault /\ Missing[1] # "found" /\ Fault[1] # "found"
    /\ NoError \notin {Missing, Fault}
BY DEF Found, Missing, Fault, NoError

\* One component more is looked for where the walk has led.
LEMMA WalkLonger ==
    ASSUME FsOK, NEW path \in Seq(Components), NEW x \in Components
    PROVE  LET longer == EvalSymlinks(Append(path, x))
           IN  /\ EvalSymlinks(path) \in {Missing, Fault} => longer = EvalSymlinks(path)
               /\ \A d : EvalSymlinks(path) = Found(d) =>
                    /\ Append(d, x) \notin DOMAIN fs => longer = Missing
                    /\ Append(d, x) \in DOMAIN fs /\ fs[Append(d, x)] = <<"directory">> =>
                         longer = Found(Append(d, x))
<1> DEFINE q == Append(path, x)
           w == Walk(path)
           v == Walk(q)
           m == Steps(path)
<1>1. path \in Seq(Parts) /\ q \in Seq(Parts) /\ x \in Parts /\ x # ".."
  BY ComponentsAssumption DEF Parts
<1>2. /\ m \in Nat /\ \A n \in 0..m : WalkOK(w[n])
      /\ Finished(w[m])
  BY <1>1, WalkEnds
<1>3. Steps(q) = m + 1
  <2>1. Len(q) = Len(path) + 1 /\ Len(path) \in Nat
    OBVIOUS
  <2> QED BY <2>1, EntriesAssumption DEF Steps, LinkLength
<1>4. w[0] = SetOut(path) /\ \A n \in 1..m : w[n] = Follow(w[n - 1])
  BY <1>2, Walked
<1>5. v[0] = SetOut(q) /\ \A n \in 1..(m + 1) : v[n] = Follow(v[n - 1])
  BY <1>2, <1>3, Walked
<1>6. \A n \in 0..m : Finished(w[n]) => w[m] = w[n]
  BY <1>1, WalkStays
<1>7. \A n \in 0..(m + 1) : Finished(v[n]) => v[m + 1] = v[n]
  BY <1>1, <1>3, WalkStays
<1>8. EvalSymlinks(path) = IF w[m].error # NoError THEN w[m].error ELSE Found(w[m].at)
  BY DEF EvalSymlinks
<1>9. EvalSymlinks(q) = IF v[m + 1].error # NoError THEN v[m + 1].error ELSE Found(v[m + 1].at)
  BY <1>3 DEF EvalSymlinks
<1>10. SetOut(q) = With(SetOut(path), x)
  BY DEF SetOut, With
<1> HIDE DEF q, w, v, m
<1> DEFINE K == {k \in 0..m : Finished(w[k])}
<1>11. PICK k \in K : \A j \in K : k <= j
  <2>1. K \subseteq Nat /\ K # {}
    BY <1>2
  <2> HIDE DEF K
  <2> QED BY <2>1, LeastElement
<1>12. k \in 0..m /\ Finished(w[k]) /\ w[m] = w[k]
  BY <1>6, <1>11
<1>13. \A j \in 0..m : j < k => ~Finished(w[j])
  <2>1. SUFFICES ASSUME NEW j \in 0..m, j < k PROVE j \notin K
    OBVIOUS
  <2> HIDE DEF K
  <2> QED BY <1>2, <1>11, <1>12, <2>1
<1> HIDE DEF K
<1> DEFINE T == {n \in 0..m : n <= k => v[n] = With(w[n], x)}
<1>14. 0 \in T
  BY <1>2, <1>4, <1>5, <1>10
<1>15. ASSUME NEW n \in 1..m, n - 1 \in T PROVE n \in T
  <2>1. SUFFICES ASSUME n <= k PROVE v[n] = With(w[n], x)
    BY <1>2
  <2>2. v[n - 1] = With(w[n - 1], x) /\ n - 1 \in 0..m /\ n - 1 < k /\ n \in 1..(m + 1)
    BY <1>2, <1>12, <1>15, <2>1
  <2>3. Follow(With(w[n - 1], x)) = With(Follow(w[n - 1]), x)
    BY <1>1, <1>2, <1>13, <2>2, FollowWith
  <2> QED BY <1>4, <1>5, <2>2, <2>3
<1>16. v[k] = With(w[k], x)
  <2>1. 0..m \subseteq T
    <3> HIDE DEF T
    <3> QED BY <1>2, <1>14, <1>15, Upwards
  <2> QED BY <1>2, <1>12, <2>1
<1>17. ASSUME w[k].error # NoError PROVE EvalSymlinks(q) = EvalSymlinks(path)
  <2>1. v[k].error = w[k].error
    BY <1>16 DEF With
  <2>2. v[m + 1] = v[k]
    BY <1>2, <1>7, <1>12, <1>17, <2>1 DEF Finished
  <2> QED BY <1>8, <1>9, <1>12, <1>17, <2>1, <2>2
<1>18. ASSUME NEW d, EvalSymlinks(path) = Found(d), Append(d, x) \notin DOMAIN fs \/ fs[Append(d, x)] = <<"directory">>
       PROVE  /\ Append(d, x) \notin DOMAIN fs => EvalSymlinks(q) = Missing
              /\ Append(d, x) \in DOMAIN fs => EvalSymlinks(q) = Found(Append(d, x))
  <2>1. w[k].error = NoError /\ w[k].at = d /\ w[k].rest = << >>
    <3>1. w[m].error \in {NoError, Missing, Fault}
      <4>1. WalkOK(w[m])
        BY <1>2
      <4> QED BY <4>1 DEF WalkOK
    <3> QED BY <1>8, <1>12, <1>18, <3>1, Outcomes DEF Finished
  <2>2. v[k] = [at |-> d, rest |-> <<x>>, links |-> w[k].links, error |-> NoError]
    BY <1>16, <2>1 DEF With
  <2>3. k + 1 \in 0..(m + 1) /\ v[k + 1] = Follow(v[k])
    <3>1. k + 1 \in 1..(m + 1) /\ (k + 1) - 1 = k
      BY <1>2, <1>12
    <3> QED BY <1>5, <3>1
  <2>4. <<x>> # << >> /\ Head(<<x>>) = x /\ Tail(<<x>>) = << >>
    OBVIOUS
  <2>5. CASE Append(d, x) \notin DOMAIN fs
    <3>1. Follow(v[k]) = [v[k] EXCEPT !.error = Missing]
      BY <1>1, <2>2, <2>4, <2>5 DEF Follow
    <3>2. v[k + 1].error = Missing
      BY <2>2, <2>3, <3>1
    <3>3. v[m + 1] = v[k + 1]
      BY <1>7, <2>3, <3>2, Outcomes DEF Finished
    <3> QED BY <1>9, <2>5, <3>2, <3>3, Outcomes
  <2>6. CASE Append(d, x) \in DOMAIN fs
    <3> DEFINE next == Append(d, x)
    <3>1. Follow(v[k]) = [at |-> next, rest |-> << >>, links |-> w[k].links, error |-> NoError]
      <4>1. fs[next] = <<"directory">> /\ next = Append(v[k].at, Head(v[k].rest))
        BY <1>18, <2>2, <2>4, <2>6
      <4>2. WalkOK(v[k]) /\ ~Finished(v[k]) /\ Head(v[k].rest) # ".."
        <5>1. WalkOK(v[k])
          BY <1>1, <1>2, <1>3, <1>12, WalkEnds DEF v
        <5> QED BY <1>1, <2>2, <2>4, <5>1 DEF Finished
      <4>3. Follow(v[k]) = [at |-> Append(v[k].at, Head(v[k].rest)), rest |-> Tail(v[k].rest),
                            links |-> v[k].links, error |-> v[k].error]
        BY <2>6, <4>1, <4>2, FollowDirectory
      <4> QED BY <2>2, <2>4, <4>3
    <3> HIDE DEF next
    <3>2. v[k + 1].error = NoError /\ v[k + 1].rest = << >> /\ v[k + 1].at = next
      BY <2>3, <3>1
    <3>3. v[m + 1] = v[k + 1]
      BY <1>7, <2>3, <3>2 DEF Finished
    <3> QED BY <1>9, <2>6, <3>2, <3>3 DEF next
  <2> QED BY <2>5, <2>6
<1>19. EvalSymlinks(path) \in {Missing, Fault} => w[k].error # NoError
  BY <1>8, <1>12, Outcomes
<1> QED BY <1>17, <1>18, <1>19 DEF q

(***************************************************************************)
(* filepath.Clean.                                                         *)
(***************************************************************************)
CleanStep(done, name) == IF name = ".." THEN ParentDir(done) ELSE Append(done, name)

IsCleaning(f, path, m) ==
    f = [n \in 0..m |-> IF n = 0 THEN RootDir
                        ELSE IF path[n] = ".." THEN ParentDir(f[n - 1]) ELSE Append(f[n - 1], path[n])]

\* The recursion of Clean has a solution.
LEMMA CleaningExists ==
    ASSUME NEW path, NEW m \in Nat
    PROVE  \E f : IsCleaning(f, path, m)
<1> DEFINE T == {k \in Nat : \E f : IsCleaning(f, path, k)}
<1>1. 0 \in T
  <2> DEFINE f == [n \in 0..0 |-> RootDir]
  <2>1. \A n \in 0..0 : n = 0
    OBVIOUS
  <2>2. IsCleaning(f, path, 0)
    BY <2>1 DEF IsCleaning
  <2> QED BY <2>2
<1>2. ASSUME NEW k \in 1..m, k - 1 \in T PROVE k \in T
  <2>1. PICK f : IsCleaning(f, path, k - 1)
    BY <1>2
  <2> DEFINE g == [n \in 0..k |-> IF n = k THEN CleanStep(f[k - 1], path[k]) ELSE f[n]]
             h == [n \in 0..k |-> IF n = 0 THEN RootDir
                                  ELSE IF path[n] = ".." THEN ParentDir(g[n - 1])
                                  ELSE Append(g[n - 1], path[n])]
  <2>2. ASSUME NEW n \in 0..k PROVE g[n] = h[n]
    <3>1. n # 0 => n - 1 \in 0..(k - 1) /\ n - 1 # k /\ n - 1 \in 0..k
      OBVIOUS
    <3>2. CASE n = k
      BY <3>1, <3>2 DEF CleanStep
    <3>3. CASE n # k
      <4>1. n \in 0..(k - 1)
        BY <3>3
      <4>2. f[n] = IF n = 0 THEN RootDir
                   ELSE IF path[n] = ".." THEN ParentDir(f[n - 1]) ELSE Append(f[n - 1], path[n])
        BY <2>1, <4>1 DEF IsCleaning
      <4> QED BY <3>1, <3>3, <4>2
    <3> QED BY <3>2, <3>3
  <2>3. g = h
    BY <2>2
  <2>4. IsCleaning(g, path, k)
    BY <2>3 DEF IsCleaning
  <2> QED BY <2>4
<1> HIDE DEF T
<1>3. m \in T
  BY <1>1, <1>2, Upwards
<1> QED BY <1>3 DEF T

\* A clean path has no .., and a path without .. is clean.
LEMMA Cleaned ==
    ASSUME NEW path \in Seq(Parts)
    PROVE  /\ Clean(path) \in Seq(Components)
           /\ path \in Seq(Components) => Clean(path) = path
<1> DEFINE m == Len(path)
           done == CHOOSE f : IsCleaning(f, path, m)
<1>1. m \in Nat
  OBVIOUS
<1>2. Clean(path) = done[m]
  BY Zenon DEF Clean, IsCleaning
<1>3. IsCleaning(done, path, m)
  BY <1>1, CleaningExists
<1> HIDE DEF done
<1>4. done[0] = RootDir /\ \A n \in 1..m : done[n] = CleanStep(done[n - 1], path[n])
  <2> HIDE DEF m
  <2>1. \A n \in 0..m : done[n] = IF n = 0 THEN RootDir ELSE CleanStep(done[n - 1], path[n])
    BY <1>1, <1>3, Zenon DEF IsCleaning, CleanStep
  <2>2. 0 \in 0..m /\ \A n \in 1..m : n \in 0..m /\ n # 0
    BY <1>1
  <2> QED BY <2>1, <2>2
<1> HIDE DEF m
<1> DEFINE T == {n \in 0..m : done[n] \in Seq(Components)}
           U == {n \in 0..m : done[n] = SubSeq(path, 1, n)}
<1>5. 0 \in T /\ 0 \in U
  <2>1. SubSeq(path, 1, 0) = << >>
    BY SubSeqEmpty
  <2>2. done[0] = << >> /\ << >> \in Seq(Components) /\ 0 \in 0..m
    BY <1>1, <1>4 DEF RootDir
  <2> QED BY <2>1, <2>2
<1>6. ASSUME NEW n \in 1..m, n - 1 \in T PROVE n \in T
  <2>1. path[n] \in Parts
    BY <1>6 DEF m
  <2>2. CleanStep(done[n - 1], path[n]) \in Seq(Components)
    BY <1>6, <2>1, ParentPath DEF CleanStep, Parts
  <2> QED BY <1>1, <1>4, <2>2
<1>7. ASSUME path \in Seq(Components), NEW n \in 1..m, n - 1 \in U PROVE n \in U
  <2>1. path[n] \in Components /\ path[n] # ".."
    BY <1>7, ComponentsAssumption DEF m
  <2>2. done[n] = Append(SubSeq(path, 1, n - 1), path[n])
    BY <1>4, <1>7, <2>1 DEF CleanStep
  <2>3. SubSeq(path, 1, n) = Append(SubSeq(path, 1, n - 1), path[n])
    <3>1. n \in 0..Len(path) /\ n - 1 \in 0..Len(path)
      BY <1>1 DEF m
    <3> DEFINE a == SubSeq(path, 1, n)
               b == SubSeq(path, 1, n - 1)
    <3>2. /\ a \in Seq(Components) /\ Len(a) = n /\ \A i \in 1..n : a[i] = path[i]
          /\ b \in Seq(Components) /\ Len(b) = n - 1 /\ \A i \in 1..(n - 1) : b[i] = path[i]
      BY <1>7, <3>1, PrefixSeq
    <3> HIDE DEF a, b
    <3>3. /\ Append(b, path[n]) \in Seq(Components) /\ Len(Append(b, path[n])) = n
          /\ \A i \in 1..n : Append(b, path[n])[i] = path[i]
      BY <2>1, <3>2
    <3>4. a = Append(b, path[n])
      BY <3>2, <3>3, SeqEqual
    <3> QED BY <3>4 DEF a, b
  <2> QED BY <1>1, <2>2, <2>3
<1>8. 0..m \subseteq T /\ (path \in Seq(Components) => 0..m \subseteq U)
  <2> HIDE DEF T, U
  <2> QED BY <1>1, <1>5, <1>6, <1>7, Upwards
<1>9. SubSeq(path, 1, Len(path)) = path
  BY SubSeqFull
<1>10. m \in 0..m
  BY <1>1
<1> QED BY <1>2, <1>8, <1>9, <1>10 DEF m


----------------------------------------------------------------------------
(***************************************************************************)
(* AELPaths: what Lstat and EvalSymlinks say of the same path.             *)
(***************************************************************************)
LEMMA PrefixMeaning ==
    ASSUME NEW S, NEW s \in Seq(S), NEW t \in Seq(S)
    PROVE  IsPrefix(s, t) <=> Len(s) <= Len(t) /\ \A i \in 1..Len(s) : s[i] = t[i]
<1>1. CASE Len(s) <= Len(t)
  <2> DEFINE a == SubSeq(s, 1, Len(s))
             b == SubSeq(t, 1, Len(s))
  <2>1. Len(s) \in 0..Len(s) /\ Len(s) \in 0..Len(t)
    BY <1>1
  <2>2. /\ a \in Seq(S) /\ Len(a) = Len(s) /\ \A i \in 1..Len(s) : a[i] = s[i]
        /\ b \in Seq(S) /\ Len(b) = Len(s) /\ \A i \in 1..Len(s) : b[i] = t[i]
    BY <2>1, PrefixSeq
  <2>3. IsPrefix(s, t) <=> a = b
    BY <1>1 DEF IsPrefix
  <2> HIDE DEF a, b
  <2>4. a = b <=> \A i \in 1..Len(s) : a[i] = b[i]
    BY <2>2, SeqEqual
  <2> QED BY <1>1, <2>2, <2>3, <2>4
<1>2. CASE ~(Len(s) <= Len(t))
  BY <1>2 DEF IsPrefix
<1> QED BY <1>1, <1>2

LEMMA PrefixTransitive ==
    ASSUME NEW S, NEW s \in Seq(S), NEW t \in Seq(S), NEW u \in Seq(S),
           IsPrefix(s, t), IsPrefix(t, u)
    PROVE  IsPrefix(s, u)
<1>1. /\ Len(s) <= Len(t) /\ \A i \in 1..Len(s) : s[i] = t[i]
      /\ Len(t) <= Len(u) /\ \A i \in 1..Len(t) : t[i] = u[i]
  BY PrefixMeaning
<1>2. Len(s) \in Nat /\ Len(t) \in Nat /\ Len(u) \in Nat
  OBVIOUS
<1>3. Len(s) <= Len(u) /\ \A i \in 1..Len(s) : s[i] = u[i]
  BY <1>1, <1>2
<1> QED BY <1>3, PrefixMeaning

\* Everything on the way to an entry exists.
LEMMA PrefixExists ==
    ASSUME FsOK, NEW real \in DOMAIN fs
    PROVE  /\ real \in Seq(Components)
           /\ \A s \in Seq(Components) : IsPrefix(s, real) => s \in DOMAIN fs
<1>1. real \in Seq(Components) /\ Len(real) \in 0..2
  <2>1. real = RootDir \/ real \in Places
    BY DEF FsOK
  <2>2. real = RootDir => real \in Seq(Components) /\ Len(real) \in 0..2
    BY DEF RootDir
  <2>3. real \in Places => real \in Seq(Components) /\ Len(real) \in 0..2
    BY PlacesShort DEF LinkLength
  <2> QED BY <2>1, <2>2, <2>3
<1>2. ASSUME NEW s \in Seq(Components), IsPrefix(s, real) PROVE s \in DOMAIN fs
  <2>1. Len(s) \in Nat /\ Len(s) <= Len(real) /\ \A i \in 1..Len(s) : s[i] = real[i]
    BY <1>1, <1>2, PrefixMeaning
  <2>2. CASE Len(s) = Len(real)
    <3>1. s = real
      BY <1>1, <2>1, <2>2, SeqEqual
    <3> QED BY <3>1
  <2>3. CASE Len(s) = 0
    <3>1. s = RootDir
      BY <2>3 DEF RootDir
    <3> QED BY <3>1 DEF FsOK
  <2>4. CASE Len(s) = 1 /\ Len(real) = 2
    <3>1. real # << >> /\ Front(real) = SubSeq(real, 1, 1)
      <4>1. Len(real) - 1 = 1 /\ real # << >>
        BY <2>4
      <4> QED BY <4>1 DEF Front
    <3>2. ParentDir(real) = SubSeq(real, 1, 1)
      BY <3>1 DEF ParentDir, RootDir
    <3>3. 1 \in 0..Len(real)
      BY <2>4
    <3>4. /\ ParentDir(real) \in Seq(Components) /\ Len(ParentDir(real)) = 1
          /\ \A i \in 1..1 : ParentDir(real)[i] = real[i]
      BY <1>1, <3>2, <3>3, PrefixSeq
    <3>5. s = ParentDir(real)
      BY <2>1, <2>4, <3>4, SeqEqual
    <3> QED BY <3>5 DEF FsOK
  <2>5. Len(s) = Len(real) \/ Len(s) = 0 \/ (Len(s) = 1 /\ Len(real) = 2)
    <3>1. Len(real) \in 0..2 /\ Len(s) \in Nat /\ Len(s) <= Len(real)
      BY <1>1, <2>1
    <3>2. ASSUME NEW a \in Nat, NEW b \in 0..2, a <= b PROVE a = b \/ a = 0 \/ (a = 1 /\ b = 2)
      BY <3>2
    <3> QED BY <3>1, <3>2
  <2> QED BY <2>2, <2>3, <2>4, <2>5
<1> QED BY <1>1, <1>2

LEMMA RootFound ==
    ASSUME FsOK
    PROVE  EvalSymlinks(RootDir) = Found(RootDir) /\ Lstat(RootDir) = Found(RootDir)
<1>1. RootDir \in Seq(Parts)
  BY DEF RootDir
<1>2. Steps(RootDir) \in Nat
  BY <1>1, WalkEnds
<1>3. Walk(RootDir)[0] = SetOut(RootDir) /\ 0 \in 0..Steps(RootDir)
  BY <1>2, Walked
<1>4. Walk(RootDir)[Steps(RootDir)] = SetOut(RootDir)
  <2>1. Finished(Walk(RootDir)[0])
    BY <1>3 DEF Finished, SetOut, RootDir
  <2> QED BY <1>1, <1>3, <2>1, WalkStays
<1>5. EvalSymlinks(RootDir) = Found(RootDir)
  BY <1>4 DEF EvalSymlinks, SetOut
<1> QED BY <1>5 DEF Lstat

\* The entry of a path is looked for in what its parent leads to.
LEMMA LstatMeaning ==
    ASSUME FsOK, NEW path \in Seq(Components), path # RootDir
    PROVE  /\ EvalSymlinks(ParentDir(path)) \in {Missing, Fault} =>
                Lstat(path) = EvalSymlinks(ParentDir(path))
           /\ \A d : EvalSymlinks(ParentDir(path)) = Found(d) =>
                Lstat(path) = IF Append(d, Last(path)) \in DOMAIN fs
                              THEN Found(Append(d, Last(path))) ELSE Missing
           /\ \/ EvalSymlinks(ParentDir(path)) \in {Missing, Fault}
              \/ \E d \in Seq(Components) : EvalSymlinks(ParentDir(path)) = Found(d)
<1>1. ParentDir(path) = Front(path) /\ Last(path) # ".." /\ ParentDir(path) \in Seq(Components)
  BY ParentPath, ComponentsAssumption DEF RootDir
<1>2. Lstat(path) = LET dir == EvalSymlinks(ParentDir(path))
                    IN  CASE dir[1] # "found" -> dir
                          [] dir[1] = "found" /\ Append(dir[2], Last(path)) \in DOMAIN fs ->
                               Found(Append(dir[2], Last(path)))
                          [] OTHER -> Missing
  BY <1>1 DEF Lstat
<1>3. ParentDir(path) \in Seq(Parts)
  BY <1>1 DEF Parts
<1>4. \/ EvalSymlinks(ParentDir(path)) \in {Missing, Fault}
      \/ \E d \in Seq(Components) : EvalSymlinks(ParentDir(path)) = Found(d)
  BY <1>3, EvalKinds
<1>5. ASSUME EvalSymlinks(ParentDir(path)) \in {Missing, Fault}
      PROVE  Lstat(path) = EvalSymlinks(ParentDir(path))
  BY <1>2, <1>5, Outcomes
<1>6. ASSUME NEW d, EvalSymlinks(ParentDir(path)) = Found(d)
      PROVE  Lstat(path) = IF Append(d, Last(path)) \in DOMAIN fs
                           THEN Found(Append(d, Last(path))) ELSE Missing
  BY <1>2, <1>6, Outcomes
<1> QED BY <1>4, <1>5, <1>6

\* Lstat finds an entry, which is where the path leads unless it is a link.
LEMMA LstatFound ==
    ASSUME FsOK, NEW path \in Seq(Components), Lstat(path)[1] = "found"
    PROVE  LET real == Lstat(path)[2]
           IN  /\ Lstat(path) = Found(real) /\ real \in DOMAIN fs /\ real \in Seq(Components)
               /\ ~IsLink(real) => EvalSymlinks(path) = Found(real)
               /\ path # RootDir => \E d \in Seq(Components) :
                    EvalSymlinks(ParentDir(path)) = Found(d) /\ real = Append(d, Last(path))
<1>1. CASE path = RootDir
  <2>1. RootDir \in DOMAIN fs /\ RootDir \in Seq(Components)
    BY DEF FsOK, RootDir
  <2> QED BY <1>1, <2>1, RootFound, Outcomes
<1>2. CASE path # RootDir
  <2>1. PICK d \in Seq(Components) : EvalSymlinks(ParentDir(path)) = Found(d)
    BY <1>2, LstatMeaning, Outcomes
  <2> DEFINE real == Append(d, Last(path))
  <2>2. real \in DOMAIN fs /\ Lstat(path) = Found(real)
    BY <1>2, <2>1, LstatMeaning, Outcomes
  <2>3. real \in Seq(Components)
    BY <2>2, PrefixExists
  <2>4. ASSUME ~IsLink(real) PROVE EvalSymlinks(path) = Found(real)
    <3>1. /\ path = Append(ParentDir(path), Last(path))
          /\ ParentDir(path) \in Seq(Components) /\ Last(path) \in Components
      <4>1. path # << >>
        BY <1>2 DEF RootDir
      <4> QED BY <4>1, ParentPath
    <3>2. real # RootDir
      BY <2>1, <3>1 DEF RootDir
    <3>3. fs[real] = <<"directory">>
      BY <2>4, <3>2 DEF IsLink
    <3>4. EvalSymlinks(Append(ParentDir(path), Last(path))) = Found(real)
      BY <2>1, <2>2, <3>1, <3>3, WalkLonger
    <3> QED BY <3>1, <3>4
  <2> QED BY <2>1, <2>2, <2>3, <2>4, Outcomes
<1> QED BY <1>1, <1>2

\* Where a path leads, its entry exists.
LEMMA Reached ==
    ASSUME FsOK, NEW path \in Seq(Components), NEW d, EvalSymlinks(path) = Found(d)
    PROVE  Lstat(path)[1] = "found" /\ Lstat(path) \notin {Missing, Fault}
<1>1. CASE path = RootDir
  BY <1>1, RootFound, Outcomes
<1>2. CASE path # RootDir
  <2>1. /\ path = Append(ParentDir(path), Last(path))
        /\ ParentDir(path) \in Seq(Components) /\ Last(path) \in Components
    BY <1>2, ParentPath DEF RootDir
  <2>2. EvalSymlinks(ParentDir(path)) \notin {Missing, Fault}
    <3>1. EvalSymlinks(ParentDir(path)) \in {Missing, Fault} =>
            EvalSymlinks(Append(ParentDir(path), Last(path))) = EvalSymlinks(ParentDir(path))
      BY <2>1, WalkLonger
    <3>2. EvalSymlinks(path) \notin {Missing, Fault}
      BY Outcomes
    <3> QED BY <2>1, <3>1, <3>2
  <2>3. PICK c \in Seq(Components) : EvalSymlinks(ParentDir(path)) = Found(c)
    BY <1>2, <2>2, LstatMeaning
  <2>4. Append(c, Last(path)) \in DOMAIN fs
    BY <2>1, <2>3, WalkLonger, Outcomes
  <2>5. Lstat(path) = Found(Append(c, Last(path)))
    BY <1>2, <2>3, <2>4, LstatMeaning
  <2> QED BY <2>5, Outcomes
<1> QED BY <1>1, <1>2

----------------------------------------------------------------------------
(***************************************************************************)
(* AELPaths: resolveEmitPath and the arguments it keeps apart.             *)
(***************************************************************************)
\* The longest existing part of a path ends at n.
IsStop(abs, n) ==
    /\ n \in 0..Len(abs)
    /\ Lstat(SubSeq(abs, 1, n)) # Missing
    /\ \A longer \in n+1..Len(abs) : Lstat(SubSeq(abs, 1, longer)) = Missing

LEMMA StopExists ==
    ASSUME FsOK, NEW abs \in Seq(Components)
    PROVE  \E n : IsStop(abs, n)
<1> DEFINE m == Len(abs)
           K == {k \in 0..m : Lstat(SubSeq(abs, 1, m - k)) # Missing}
<1>1. m \in Nat
  OBVIOUS
<1>2. SubSeq(abs, 1, 0) = RootDir
  BY SubSeqEmpty DEF RootDir
<1>3. m \in K
  <2>1. m - m = 0 /\ m \in 0..m
    BY <1>1
  <2> QED BY <1>2, <2>1, RootFound, Outcomes
<1> HIDE DEF m
<1>4. PICK k \in K : \A j \in K : k <= j
  <2>1. K \subseteq Nat /\ K # {}
    BY <1>3
  <2> HIDE DEF K
  <2> QED BY <2>1, LeastElement
<1>5. k \in 0..m /\ m - k \in 0..m /\ Lstat(SubSeq(abs, 1, m - k)) # Missing
  BY <1>1, <1>4
<1>6. ASSUME NEW n \in (m - k)+1..m PROVE Lstat(SubSeq(abs, 1, n)) = Missing
  <2>1. m - n \in 0..m /\ m - n < k /\ m - (m - n) = n
    BY <1>1, <1>5
  <2>2. m - n \notin K
    <3>1. k \in Int /\ m - n \in Int
      BY <1>5, <2>1
    <3> HIDE DEF K
    <3> QED BY <1>4, <2>1, <3>1
  <2> QED BY <2>1, <2>2
<1>7. IsStop(abs, m - k)
  BY <1>5, <1>6 DEF IsStop, m
<1> QED BY <1>7

LEMMA StopUnique ==
    ASSUME NEW abs, Len(abs) \in Nat, NEW n, NEW k, IsStop(abs, n), IsStop(abs, k)
    PROVE  n = k
<1>1. ASSUME NEW i, NEW j, IsStop(abs, i), IsStop(abs, j), i < j PROVE FALSE
  <2>1. i \in 0..Len(abs) /\ j \in 0..Len(abs) /\ j \in i+1..Len(abs)
    BY <1>1 DEF IsStop
  <2> QED BY <1>1, <2>1 DEF IsStop
<1>2. n \in Nat /\ k \in Nat
  BY DEF IsStop
<1>3. ~(n < k)
  BY <1>1
<1>4. ~(k < n)
  BY <1>1
<1> QED BY <1>2, <1>3, <1>4

LEMMA Resolved ==
    ASSUME FsOK, NEW abs \in Seq(Components), NEW n, IsStop(abs, n)
    PROVE  LET probe == SubSeq(abs, 1, n)
               resolved == EvalSymlinks(probe)
           IN  resolveEmitPath(abs) =
                 CASE Lstat(probe) = Fault -> Fault
                   [] Lstat(probe) # Fault /\ resolved[1] = "found" ->
                        Found(resolved[2] \o SubSeq(abs, n + 1, Len(abs)))
                   [] OTHER -> Fault
<1>1. Clean(abs) = abs
  <2>1. abs \in Seq(Parts)
    BY DEF Parts
  <2> QED BY <2>1, Cleaned
<1> DEFINE clean == Clean(abs)
           stop == CHOOSE k \in 0..Len(clean) :
                     /\ Lstat(SubSeq(clean, 1, k)) # Missing
                     /\ \A longer \in k+1..Len(clean) : Lstat(SubSeq(clean, 1, longer)) = Missing
           probed == SubSeq(clean, 1, stop)
<1>2. resolveEmitPath(abs) =
        CASE Lstat(probed) = Fault -> Fault
          [] Lstat(probed) # Fault /\ EvalSymlinks(probed)[1] = "found" ->
               Found(EvalSymlinks(probed)[2] \o SubSeq(clean, stop + 1, Len(clean)))
          [] OTHER -> Fault
  BY Zenon DEF resolveEmitPath
<1> HIDE DEF clean
<1>3. IsStop(clean, stop)
  <2>1. IsStop(clean, n)
    BY <1>1 DEF clean
  <2> QED BY <2>1 DEF IsStop
<1> HIDE DEF stop
<1>4. clean = abs
  BY <1>1 DEF clean
<1>5. stop = n
  <2>1. Len(abs) \in Nat
    OBVIOUS
  <2> QED BY <1>3, <1>4, <2>1, StopUnique
<1> QED BY <1>2, <1>4, <1>5

\* A path that exists to its end is resolved to where it leads.
LEMMA ResolvedWhole ==
    ASSUME FsOK, NEW abs \in Seq(Components), NEW d \in Seq(Components), EvalSymlinks(abs) = Found(d)
    PROVE  resolveEmitPath(abs) = Found(d)
<1>1. Lstat(abs) \notin {Missing, Fault}
  BY Reached
<1>2. SubSeq(abs, 1, Len(abs)) = abs
  BY SubSeqFull
<1>3. Len(abs) \in 0..Len(abs) /\ Len(abs)+1..Len(abs) = {}
  OBVIOUS
<1>4. IsStop(abs, Len(abs))
  BY <1>1, <1>2, <1>3 DEF IsStop
<1>5. SubSeq(abs, Len(abs) + 1, Len(abs)) = << >>
  BY SubSeqEmpty
<1>6. resolveEmitPath(abs) = Found(d \o << >>)
  <2> DEFINE m == Len(abs)
             probe == SubSeq(abs, 1, m)
             rest == SubSeq(abs, m + 1, m)
  <2>1. resolveEmitPath(abs) =
          CASE Lstat(probe) = Fault -> Fault
            [] Lstat(probe) # Fault /\ EvalSymlinks(probe)[1] = "found" ->
                 Found(EvalSymlinks(probe)[2] \o rest)
            [] OTHER -> Fault
    BY <1>4, Resolved
  <2>2. probe = abs /\ rest = << >>
    BY <1>2, <1>5
  <2> HIDE DEF probe, rest
  <2> QED BY <1>1, <2>1, <2>2, Outcomes
<1> QED BY <1>6

\* The input, resolved, is what is copied.
LEMMA InputResolved ==
    ASSUME FsOK, NEW input \in Seq(Components), Copied(input)
    PROVE  /\ resolveEmitPath(input) = Found(Lstat(input)[2])
           /\ Lstat(input)[2] \in DOMAIN fs /\ Lstat(input)[2] \in Seq(Components)
<1>1. Lstat(input)[1] = "found" /\ ~IsLink(Lstat(input)[2])
  BY DEF Copied
<1>2. EvalSymlinks(input) = Found(Lstat(input)[2]) /\ Lstat(input)[2] \in Seq(Components)
  BY <1>1, LstatFound
<1> QED BY <1>1, <1>2, LstatFound, ResolvedWhole

\* What is resolved is a path without ..
LEMMA ResolvedKind ==
    ASSUME FsOK, NEW abs \in Seq(Components), resolveEmitPath(abs)[1] = "found"
    PROVE  resolveEmitPath(abs)[2] \in Seq(Components)
<1>1. PICK n : IsStop(abs, n)
  BY StopExists
<1> DEFINE probe == SubSeq(abs, 1, n)
           rest == SubSeq(abs, n + 1, Len(abs))
<1>2. n \in 0..Len(abs)
  BY <1>1 DEF IsStop
<1>3. probe \in Seq(Components) /\ rest \in Seq(Components)
  <2>1. probe \in Seq(Components)
    BY <1>2, PrefixSeq
  <2>2. n + 1 \in Int /\ Len(abs) \in Int /\ \A i \in n+1..Len(abs) : abs[i] \in Components
    BY <1>2
  <2> QED BY <2>1, <2>2, SubSeqProperties
<1>4. EvalSymlinks(probe) \in {Missing, Fault} \/ \E d \in Seq(Components) : EvalSymlinks(probe) = Found(d)
  <2>1. probe \in Seq(Parts)
    BY <1>3 DEF Parts
  <2> QED BY <2>1, EvalKinds
<1>5. resolveEmitPath(abs) =
        CASE Lstat(probe) = Fault -> Fault
          [] Lstat(probe) # Fault /\ EvalSymlinks(probe)[1] = "found" ->
               Found(EvalSymlinks(probe)[2] \o rest)
          [] OTHER -> Fault
  BY <1>1, Resolved
<1> HIDE DEF probe, rest
<1>6. EvalSymlinks(probe)[1] = "found" /\ resolveEmitPath(abs) = Found(EvalSymlinks(probe)[2] \o rest)
  BY <1>4, <1>5, Outcomes
<1>7. PICK d \in Seq(Components) : EvalSymlinks(probe) = Found(d)
  BY <1>4, <1>6, Outcomes
<1>8. d \o rest \in Seq(Components)
  BY <1>3
<1>9. EvalSymlinks(probe)[2] = d
  BY <1>7, Outcomes
<1>10. resolveEmitPath(abs)[2] = d \o rest
  BY <1>6, <1>9, Outcomes
<1> QED BY <1>8, <1>10

\* The parent of the output leads to a prefix of where the output leads.
LEMMA StagingAbove ==
    ASSUME FsOK, NEW abs \in Seq(Components), abs # RootDir,
           Lstat(abs)[1] = "found" => ~IsLink(Lstat(abs)[2]),
           resolveEmitPath(abs)[1] = "found", resolveEmitPath(ParentDir(abs))[1] = "found"
    PROVE  pathWithin(resolveEmitPath(abs)[2], resolveEmitPath(ParentDir(abs))[2])
<1> DEFINE dir == ParentDir(abs)
           m == Len(abs)
<1>1. /\ dir \in Seq(Components) /\ m \in Nat \ {0} /\ Len(dir) = m - 1
      /\ abs = Append(dir, Last(abs)) /\ Last(abs) \in Components
  <2>1. /\ dir \in Seq(Components) /\ Len(dir) = m - 1
        /\ abs = Append(dir, Last(abs)) /\ Last(abs) \in Components
    BY ParentPath DEF RootDir
  <2>2. m \in Nat \ {0}
    BY DEF RootDir
  <2> QED BY <2>1, <2>2
<1>2. SubSeq(abs, 1, m) = abs
  BY SubSeqFull
<1> HIDE DEF dir
<1>3. resolveEmitPath(dir)[2] \in Seq(Components) /\ resolveEmitPath(abs)[2] \in Seq(Components)
  BY <1>1, ResolvedKind DEF dir
<1>4. PICK n : IsStop(abs, n)
  BY StopExists
<1>5. n \in 0..m /\ Lstat(SubSeq(abs, 1, n)) # Missing
  BY <1>4 DEF IsStop
<1>6. CASE n = m
  <2>1. Lstat(abs) # Missing
    BY <1>2, <1>5, <1>6
  <2>2. Lstat(abs) # Fault
    <3>1. SUFFICES ASSUME Lstat(abs) = Fault PROVE resolveEmitPath(abs) = Fault
      BY Outcomes
    <3> QED BY <1>2, <1>4, <1>6, <3>1, Resolved
  <2>3. PICK d \in Seq(Components) : EvalSymlinks(dir) = Found(d)
    BY <2>1, <2>2, LstatMeaning DEF dir
  <2>4. Lstat(abs) = Found(Append(d, Last(abs)))
    BY <2>1, <2>3, LstatMeaning DEF dir
  <2>5. EvalSymlinks(abs) = Found(Append(d, Last(abs))) /\ Append(d, Last(abs)) \in Seq(Components)
    BY <2>4, LstatFound, Outcomes
  <2>6. resolveEmitPath(abs) = Found(Append(d, Last(abs)))
    BY <2>5, ResolvedWhole
  <2>7. resolveEmitPath(dir) = Found(d)
    BY <1>1, <2>3, ResolvedWhole
  <2>8. IsPrefix(d, Append(d, Last(abs)))
    <3>1. Len(d) <= Len(Append(d, Last(abs))) /\ \A i \in 1..Len(d) : d[i] = Append(d, Last(abs))[i]
      BY <1>1
    <3> QED BY <2>5, <3>1, PrefixMeaning
  <2> QED BY <2>6, <2>7, <2>8, Outcomes DEF pathWithin, dir
<1>7. CASE n # m
  <2>1. n \in 0..m-1 /\ n \in 0..Len(dir)
    BY <1>1, <1>5, <1>7
  <2>2. ASSUME NEW k \in 0..m-1 PROVE SubSeq(dir, 1, k) = SubSeq(abs, 1, k)
    <3> DEFINE a == SubSeq(abs, 1, k)
               b == SubSeq(dir, 1, k)
    <3>1. k \in 0..Len(dir) /\ k \in 0..Len(abs)
      BY <1>1
    <3>2. /\ a \in Seq(Components) /\ Len(a) = k /\ \A i \in 1..k : a[i] = abs[i]
          /\ b \in Seq(Components) /\ Len(b) = k /\ \A i \in 1..k : b[i] = dir[i]
      BY <1>1, <3>1, PrefixSeq
    <3>3. \A i \in 1..k : abs[i] = dir[i]
      BY <1>1, <3>1
    <3> HIDE DEF a, b
    <3>4. a = b
      BY <3>2, <3>3, SeqEqual
    <3> QED BY <3>4 DEF a, b
  <2>3. IsStop(dir, n)
    <3>1. Lstat(SubSeq(dir, 1, n)) # Missing
      BY <1>5, <2>1, <2>2
    <3>2. ASSUME NEW longer \in n+1..Len(dir) PROVE Lstat(SubSeq(dir, 1, longer)) = Missing
      <4>1. longer \in 0..m-1 /\ longer \in n+1..Len(abs)
        BY <1>1, <2>1
      <4>2. Lstat(SubSeq(abs, 1, longer)) = Missing
        BY <1>4, <4>1 DEF IsStop
      <4> QED BY <2>2, <4>1, <4>2
    <3> QED BY <2>1, <3>1, <3>2 DEF IsStop
  <2> DEFINE probe == SubSeq(abs, 1, n)
             rest == SubSeq(abs, n + 1, Len(abs))
             less == SubSeq(dir, n + 1, Len(dir))
  <2>4. resolveEmitPath(abs) =
          CASE Lstat(probe) = Fault -> Fault
            [] Lstat(probe) # Fault /\ EvalSymlinks(probe)[1] = "found" ->
                 Found(EvalSymlinks(probe)[2] \o rest)
            [] OTHER -> Fault
    BY <1>4, Resolved
  <2>5. resolveEmitPath(dir) =
          CASE Lstat(probe) = Fault -> Fault
            [] Lstat(probe) # Fault /\ EvalSymlinks(probe)[1] = "found" ->
                 Found(EvalSymlinks(probe)[2] \o less)
            [] OTHER -> Fault
    <3>1. probe = SubSeq(dir, 1, n)
      BY <2>1, <2>2
    <3> HIDE DEF probe
    <3> QED BY <1>1, <2>3, <3>1, Resolved
  <2>6. EvalSymlinks(probe) \in {Missing, Fault} \/ \E d \in Seq(Components) : EvalSymlinks(probe) = Found(d)
    <3>1. probe \in Seq(Components)
      BY <1>5, PrefixSeq
    <3>2. probe \in Seq(Parts)
      BY <3>1 DEF Parts
    <3> QED BY <3>2, EvalKinds
  <2>7. /\ rest \in Seq(Components) /\ Len(rest) = m - n
        /\ less \in Seq(Components) /\ Len(less) = m - 1 - n
        /\ \A i \in 1..(m - 1 - n) : less[i] = rest[i]
    <3>1. n + 1 \in Int /\ Len(abs) \in Int /\ Len(dir) \in Int
      BY <1>1, <2>1
    <3>2. \A i \in n+1..Len(abs) : abs[i] \in Components
      BY <2>1
    <3>3. \A i \in n+1..Len(dir) : dir[i] \in Components
      BY <1>1, <2>1
    <3>4. /\ rest \in Seq(Components)
          /\ Len(rest) = IF n + 1 <= Len(abs) THEN Len(abs) - (n + 1) + 1 ELSE 0
          /\ \A i \in 1..(Len(abs) - (n + 1) + 1) : rest[i] = abs[n + 1 + i - 1]
      BY <3>1, <3>2, SubSeqProperties
    <3>5. /\ less \in Seq(Components)
          /\ Len(less) = IF n + 1 <= Len(dir) THEN Len(dir) - (n + 1) + 1 ELSE 0
          /\ \A i \in 1..(Len(dir) - (n + 1) + 1) : less[i] = dir[n + 1 + i - 1]
      BY <3>1, <3>3, SubSeqProperties
    <3> HIDE DEF rest, less
    <3>6. Len(rest) = m - n /\ Len(less) = m - 1 - n
      BY <1>1, <2>1, <3>4, <3>5
    <3>7. ASSUME NEW i \in 1..(m - 1 - n) PROVE less[i] = rest[i]
      <4>1. /\ i \in 1..(Len(abs) - (n + 1) + 1) /\ i \in 1..(Len(dir) - (n + 1) + 1)
            /\ n + 1 + i - 1 \in 1..Len(dir)
        BY <1>1, <2>1
      <4>2. abs[n + 1 + i - 1] = dir[n + 1 + i - 1]
        BY <1>1, <4>1
      <4>3. rest[i] = abs[n + 1 + i - 1]
        BY <3>4, <4>1
      <4>4. less[i] = dir[n + 1 + i - 1]
        BY <3>5, <4>1
      <4> QED BY <4>2, <4>3, <4>4
    <3> QED BY <3>4, <3>5, <3>6, <3>7
  <2> HIDE DEF probe, rest, less
  <2>8. PICK d \in Seq(Components) : EvalSymlinks(probe) = Found(d)
    BY <2>4, <2>6, Outcomes
  <2>9. resolveEmitPath(abs)[2] = d \o rest /\ resolveEmitPath(dir)[2] = d \o less
    <3>1. EvalSymlinks(probe)[2] = d /\ EvalSymlinks(probe)[1] = "found"
      BY <2>8, Outcomes
    <3>2. Lstat(probe) # Fault
      BY <2>4, Outcomes
    <3> QED BY <2>4, <2>5, <3>1, <3>2, Outcomes
  <2>10. IsPrefix(d \o less, d \o rest)
    <3> DEFINE a == d \o less
               b == d \o rest
    <3>1. a \in Seq(Components) /\ b \in Seq(Components)
      BY <2>7
    <3>2. /\ Len(a) = Len(d) + Len(less) /\ Len(b) = Len(d) + Len(rest)
          /\ \A i \in 1..Len(d) + Len(less) : a[i] = IF i <= Len(d) THEN d[i] ELSE less[i - Len(d)]
          /\ \A i \in 1..Len(d) + Len(rest) : b[i] = IF i <= Len(d) THEN d[i] ELSE rest[i - Len(d)]
      BY <2>7, ConcatProperties
    <3> HIDE DEF a, b
    <3>3. Len(d) \in Nat
      OBVIOUS
    <3>4. Len(a) <= Len(b) /\ \A i \in 1..Len(a) : a[i] = b[i]
      <4>1. Len(a) = Len(d) + Len(less) /\ Len(b) = Len(a) + 1 /\ Len(a) \in Nat
        <5>1. Len(rest) = Len(less) + 1 /\ Len(less) \in Nat
          BY <1>1, <2>1, <2>7
        <5> QED BY <3>2, <3>3, <5>1
      <4>2. ASSUME NEW i \in 1..Len(a) PROVE a[i] = b[i]
        <5>1. i \in 1..Len(d) + Len(less) /\ i \in 1..Len(d) + Len(rest)
          BY <3>2, <3>3, <4>1
        <5>2. ~(i <= Len(d)) => i - Len(d) \in 1..(m - 1 - n)
          <6> DEFINE x == Len(d)
                     y == Len(less)
                     z == m - 1 - n
          <6>1. y = z /\ z \in Nat
            BY <1>1, <2>1, <2>7
          <6>2. x \in Nat /\ i \in 1..(x + y)
            BY <3>3, <5>1
          <6> HIDE DEF x, y, z
          <6>3. ~(i <= x) => i - x \in 1..z
            BY <6>1, <6>2
          <6> QED BY <6>3 DEF x, z
        <5> QED BY <2>7, <3>2, <5>1, <5>2
      <4> QED BY <4>1, <4>2
    <3> QED BY <3>1, <3>4, PrefixMeaning DEF a, b
  <2> QED BY <2>9, <2>10 DEF pathWithin, dir
<1> QED BY <1>6, <1>7

\* An output that is not itself a link, and an input without "..", are refused
\* when the output is staged inside the input.
LEMMA StagedApart ==
    ASSUME FsOK, NEW args, args.out \in Seq(Parts), args.input \in Seq(Components), Copied(args.input),
           Lstat(Clean(args.out))[1] = "found" => ~IsLink(Lstat(Clean(args.out))[2])
    PROVE  Apart(args)
<1> DEFINE abs == Clean(args.out)
           dir == ParentDir(abs)
           real == Lstat(args.input)[2]
           there == resolveEmitPath(abs)
           staging == resolveEmitPath(dir)
<1>1. abs \in Seq(Components) /\ dir \in Seq(Components)
  BY Cleaned, ParentPath
<1>2. resolveEmitPath(args.input) = Found(real) /\ real \in Seq(Components)
  BY InputResolved
<1>3. SUFFICES ASSUME there[1] = "found", ~pathWithin(there[2], real), ~pathWithin(real, there[2]),
                      staging[1] = "found", pathWithin(staging[2], real)
               PROVE  FALSE
  <2>1. Clean(args.out) = abs /\ StagingParent(args.out) = staging
    BY DEF StagingParent
  <2>2. resolveEmitPath(args.input)[2] = real
    BY <1>2, Outcomes
  <2> HIDE DEF abs, dir, real
  <2> QED BY <2>1, <2>2 DEF Apart, validateEmitPaths, Staged, real
<1> HIDE DEF abs, dir, real
<1>4. abs # RootDir
  <2>1. SUFFICES ASSUME abs = RootDir PROVE FALSE
    OBVIOUS
  <2>2. EvalSymlinks(abs) = Found(RootDir) /\ RootDir \in Seq(Components)
    BY <2>1, RootFound DEF RootDir
  <2>3. there[2] = << >>
    BY <1>1, <2>2, ResolvedWhole, Outcomes DEF RootDir
  <2>4. IsPrefix(<< >>, real)
    <3>1. << >> \in Seq(Components) /\ Len(<< >>) = 0 /\ Len(real) \in Nat
      BY <1>2
    <3>2. Len(<< >>) <= Len(real) /\ \A i \in 1..Len(<< >>) : << >>[i] = real[i]
      BY <3>1
    <3> QED BY <1>2, <3>1, <3>2, PrefixMeaning
  <2> QED BY <1>3, <2>3, <2>4 DEF pathWithin
<1>5. pathWithin(there[2], staging[2])
  BY <1>1, <1>3, <1>4, StagingAbove DEF abs, dir
<1>6. there[2] \in Seq(Components) /\ staging[2] \in Seq(Components)
  BY <1>1, <1>3, ResolvedKind
<1>7. pathWithin(there[2], real)
  BY <1>2, <1>3, <1>5, <1>6, PrefixTransitive DEF pathWithin
<1> QED BY <1>3, <1>7

\* An output that is missing, below a directory outside the input, is accepted.
LEMMA ElsewhereAccepted ==
    ASSUME FsOK, NEW args, args.out \in Seq(Components), args.input \in Seq(Components), Copied(args.input),
           EvalSymlinks(ParentDir(args.out))[1] = "found", Lstat(args.out) = Missing,
           ~pathWithin(EvalSymlinks(ParentDir(args.out))[2], Lstat(args.input)[2])
    PROVE  validateEmitPaths(args)
<1> DEFINE abs == args.out
           dir == ParentDir(abs)
           real == Lstat(args.input)[2]
           x == Last(abs)
           m == Len(abs)
<1>1. resolveEmitPath(args.input) = Found(real) /\ real \in DOMAIN fs /\ real \in Seq(Components)
  BY InputResolved
<1>2. abs # RootDir
  BY RootFound, Outcomes
<1>3. /\ dir \in Seq(Components) /\ m \in Nat \ {0} /\ Len(dir) = m - 1
      /\ dir = Front(abs) /\ abs = Append(dir, x) /\ x \in Components
  <2>1. abs # << >> /\ abs \in Seq(Components)
    BY <1>2 DEF RootDir
  <2>2. /\ dir \in Seq(Components) /\ Len(dir) = m - 1
        /\ dir = Front(abs) /\ abs = Append(dir, x) /\ x \in Components
    BY <2>1, ParentPath
  <2>3. m \in Nat \ {0}
    BY <2>1
  <2> QED BY <2>2, <2>3
<1>4. PICK d \in Seq(Components) : EvalSymlinks(dir) = Found(d)
  BY <1>2, LstatMeaning, Outcomes
<1>5. ~pathWithin(d, real)
  BY <1>4, Outcomes
<1>6. Append(d, x) \notin DOMAIN fs
  BY <1>2, <1>4, LstatMeaning, Outcomes
<1>7. SubSeq(abs, 1, m - 1) = dir /\ SubSeq(abs, 1, m) = abs
  BY <1>3, SubSeqFull DEF Front
<1>8. SubSeq(abs, m, m) = <<x>>
  <2> DEFINE s == SubSeq(abs, m, m)
  <2>1. m \in Int /\ \A i \in m..m : abs[i] \in Components
    BY <1>3
  <2>2. /\ s \in Seq(Components) /\ Len(s) = IF m <= m THEN m - m + 1 ELSE 0
        /\ \A i \in 1..(m - m + 1) : s[i] = abs[m + i - 1]
    BY <2>1, SubSeqProperties
  <2> HIDE DEF s
  <2>3. m - m + 1 = 1 /\ m + 1 - 1 = m /\ 1 \in 1..1 /\ abs[m] = x
    BY <1>3 DEF Last
  <2>4. Len(s) = 1 /\ s[1] = x
    BY <2>1, <2>2, <2>3
  <2>5. s = <<x>>
    BY <1>3, <2>2, <2>4
  <2> QED BY <2>5 DEF s
<1>9. Lstat(dir) \notin {Missing, Fault}
  BY <1>3, <1>4, Reached
<1> HIDE DEF dir, real, x, m
<1>10. IsStop(abs, m - 1)
  <2>1. m - 1 \in 0..m /\ \A longer \in (m - 1)+1..m : longer = m
    BY <1>3
  <2>2. Lstat(SubSeq(abs, 1, m)) = Missing
    BY <1>7
  <2> QED BY <1>7, <1>9, <2>1, <2>2 DEF IsStop, m
<1>11. resolveEmitPath(abs) = Found(d \o <<x>>)
  <2> DEFINE n == m - 1
             probe == SubSeq(abs, 1, n)
             rest == SubSeq(abs, n + 1, Len(abs))
  <2>1. resolveEmitPath(abs) =
          CASE Lstat(probe) = Fault -> Fault
            [] Lstat(probe) # Fault /\ EvalSymlinks(probe)[1] = "found" ->
                 Found(EvalSymlinks(probe)[2] \o rest)
            [] OTHER -> Fault
    BY <1>10, Resolved
  <2>2. probe = dir
    BY <1>7
  <2>3. rest = <<x>>
    <3>1. n + 1 = m /\ Len(abs) = m
      BY <1>3 DEF m
    <3> QED BY <1>8, <3>1
  <2> HIDE DEF probe, rest, n
  <2> QED BY <1>4, <1>9, <2>1, <2>2, <2>3, Outcomes
<1>12. d \o <<x>> = Append(d, x) /\ Append(d, x) \in Seq(Components)
  BY <1>3
<1>13. ~IsPrefix(real, Append(d, x))
  <2>1. SUFFICES ASSUME IsPrefix(real, Append(d, x)) PROVE FALSE
    OBVIOUS
  <2>2. Len(real) <= Len(Append(d, x)) /\ \A i \in 1..Len(real) : real[i] = Append(d, x)[i]
    <3> DEFINE longer == Append(d, x)
    <3>1. real \in Seq(Components) /\ longer \in Seq(Components) /\ IsPrefix(real, longer)
      BY <1>1, <1>12, <2>1
    <3> HIDE DEF longer
    <3>2. Len(real) <= Len(longer) /\ \A i \in 1..Len(real) : real[i] = longer[i]
      BY <3>1, PrefixMeaning
    <3> QED BY <3>2 DEF longer
  <2>3. /\ Len(Append(d, x)) = Len(d) + 1 /\ Len(d) \in Nat /\ Len(real) \in Nat
        /\ \A i \in 1..Len(d) : Append(d, x)[i] = d[i]
    BY <1>1, <1>3
  <2>4. CASE Len(real) <= Len(d)
    <3>1. \A i \in 1..Len(real) : real[i] = d[i]
      BY <2>2, <2>3, <2>4
    <3>2. IsPrefix(real, d)
      BY <1>1, <2>4, <3>1, PrefixMeaning
    <3> QED BY <1>5, <3>2 DEF pathWithin
  <2>5. CASE ~(Len(real) <= Len(d))
    <3>1. Len(real) = Len(Append(d, x))
      BY <2>2, <2>3, <2>5
    <3>2. real = Append(d, x)
      BY <1>1, <1>12, <2>2, <3>1, SeqEqual
    <3> QED BY <1>1, <1>6, <3>2
  <2> QED BY <2>4, <2>5
<1>14. ~IsPrefix(Append(d, x), real)
  BY <1>1, <1>6, <1>12, PrefixExists
<1>15. Clean(abs) = abs
  <2>1. abs \in Seq(Parts)
    BY DEF Parts
  <2> QED BY <2>1, Cleaned
<1>16. resolveEmitPath(abs)[1] = "found" /\ resolveEmitPath(abs)[2] = Append(d, x)
  BY <1>11, <1>12, Outcomes
<1>17. resolveEmitPath(args.input)[1] = "found" /\ resolveEmitPath(args.input)[2] = real
  BY <1>1, Outcomes
<1> QED BY <1>13, <1>14, <1>15, <1>16, <1>17 DEF validateEmitPaths, pathWithin

----------------------------------------------------------------------------
(***************************************************************************)
(* The file systems and arguments of PathsSpec.                            *)
(***************************************************************************)
ArgsOK ==
    /\ options = << >> \/ options = <<options[1]>>
    /\ \A i \in DOMAIN options :
         /\ options[i].out \in Seq(Parts) /\ options[i].input \in Seq(Parts)
         /\ Copied(options[i].input)

PathsInv == FsOK /\ ArgsOK

LEMMA OutsSeq == Outs \cup WithParent \cup Places \subseteq Seq(Parts)
<1>1. \A a \in Parts, b \in Parts, c \in Parts :
         <<a>> \in Seq(Parts) /\ <<a, b>> \in Seq(Parts) /\ <<a, b, c>> \in Seq(Parts)
  OBVIOUS
<1>2. Components \subseteq Parts /\ ".." \in Parts
  BY DEF Parts
<1>3. ASSUME NEW out \in Places PROVE out \in Seq(Parts)
  <2>1. out \in Seq(Components)
    BY <1>3, PlacesShort
  <2> QED BY <2>1 DEF Parts
<1>4. ASSUME NEW out \in Outs PROVE out \in Seq(Parts)
  <2>1. CASE \E a, b, c \in Components : out = <<a, b, c>>
    BY <1>1, <1>2, <2>1
  <2> QED BY <1>3, <1>4, <2>1 DEF Outs
<1>5. ASSUME NEW out \in WithParent PROVE out \in Seq(Parts)
  <2>1. CASE \E a \in Components : out = <<a, "..">>
    BY <1>1, <1>2, <2>1
  <2>2. CASE \E a, b \in Components : out = <<a, "..", b>>
    BY <1>1, <1>2, <2>2
  <2> QED BY <1>5, <2>1, <2>2 DEF WithParent
<1> QED BY <1>3, <1>4, <1>5

\* Without "..", a path has only names.
LEMMA NamesOnly ==
    ASSUME NEW path \in Seq(Parts), ".." \notin ToSet(path)
    PROVE  path \in Seq(Components)
<1>1. \A i \in 1..Len(path) : path[i] \in Parts /\ path[i] # ".."
  BY DEF ToSet
<1>2. \A i \in 1..Len(path) : path[i] \in Components
  BY <1>1 DEF Parts
<1> QED BY <1>2

LEMMA PathsStart == PathsInit => PathsInv
<1> SUFFICES ASSUME PathsInit PROVE PathsInv
  OBVIOUS
<1>1. fs = [path \in {RootDir} |-> <<"directory">>] /\ options = << >>
  BY DEF PathsInit
<1>2. FsOK
  <2>1. DOMAIN fs = {RootDir} /\ fs[RootDir] = <<"directory">> /\ ParentDir(RootDir) = RootDir
    BY <1>1 DEF ParentDir
  <2> QED BY <1>1, <2>1 DEF FsOK
<1> QED BY <1>1, <1>2 DEF PathsInv, ArgsOK

\* An entry is made in a directory that is there.
LEMMA MakeEntryKept ==
    ASSUME FsOK, MakeEntry
    PROVE  FsOK'
<1>1. PICK path \in Places \ DOMAIN fs,
           entry \in {<<"directory">>} \cup {<<"link", to>> : to \in {RootDir} \cup Places} :
        /\ ParentDir(path) \in DOMAIN fs
        /\ fs' = [p \in {path} \cup DOMAIN fs |-> IF p = path THEN entry ELSE fs[p]]
  BY DEF MakeEntry
<1>2. DOMAIN fs' = {path} \cup DOMAIN fs /\ fs'[path] = entry /\ \A p \in DOMAIN fs : fs'[p] = fs[p]
  BY <1>1
<1>3. entry # <<"directory">> => entry[2] \in {RootDir} \cup Places
  OBVIOUS
<1>4. fs' = [p \in DOMAIN fs' |-> fs'[p]]
  BY <1>1
<1>5. RootDir \in DOMAIN fs' /\ DOMAIN fs' \subseteq {RootDir} \cup Places
  BY <1>1, <1>2 DEF FsOK
<1>6. \A p \in DOMAIN fs' : ParentDir(p) \in DOMAIN fs'
  BY <1>1, <1>2 DEF FsOK
<1>7. \A p \in DOMAIN fs' : fs'[p] # <<"directory">> => fs'[p][2] \in {RootDir} \cup Places
  BY <1>1, <1>2, <1>3 DEF FsOK
<1> QED BY <1>4, <1>5, <1>6, <1>7 DEF FsOK, ParentDir, RootDir, Places

LEMMA PathsKept == PathsInv /\ [PathsNext]_pathVars => PathsInv'
<1> SUFFICES ASSUME PathsInv, [PathsNext]_pathVars PROVE PathsInv'
  OBVIOUS
<1>1. CASE MakeEntry
  <2>1. options' = << >>
    BY <1>1 DEF MakeEntry
  <2>2. FsOK'
    BY <1>1, MakeEntryKept DEF PathsInv
  <2> QED BY <2>1, <2>2 DEF PathsInv, ArgsOK
<1>2. ASSUME fs' = fs PROVE FsOK' /\ \A input : Copied(input)' = Copied(input)
  <2>1. FsOK'
    <3>1. DOMAIN fs' = DOMAIN fs /\ \A path : fs'[path] = fs[path]
      BY <1>2
    <3>2. fs' = [path \in DOMAIN fs' |-> fs'[path]]
      BY <1>2 DEF PathsInv, FsOK
    <3>3. RootDir \in DOMAIN fs' /\ DOMAIN fs' \subseteq {RootDir} \cup Places
      BY <3>1 DEF PathsInv, FsOK
    <3>4. /\ \A path \in DOMAIN fs' : ParentDir(path) \in DOMAIN fs'
          /\ \A path \in DOMAIN fs' : fs'[path] # <<"directory">> => fs'[path][2] \in {RootDir} \cup Places
      BY <3>1 DEF PathsInv, FsOK
    <3> QED BY <3>2, <3>3, <3>4 DEF FsOK, ParentDir, RootDir, Places
  <2>2. ASSUME NEW input PROVE Copied(input)' = Copied(input)
    <3>1. ASSUME NEW path PROVE Walk(path)' = Walk(path)
      BY <1>2 DEF Walk, Follow, SetOut, Steps, LinkLength, ParentDir, RootDir, Missing, Fault, NoError
    <3>2. ASSUME NEW path PROVE EvalSymlinks(path)' = EvalSymlinks(path)
      BY <3>1 DEF EvalSymlinks, Steps, LinkLength, NoError, Found
    <3>3. ASSUME NEW path PROVE Lstat(path)' = Lstat(path)
      BY <1>2, <3>2 DEF Lstat, RootDir, Missing, Found
    <3> QED BY <1>2, <3>3 DEF Copied, IsLink, RootDir
  <2> QED BY <2>1, <2>2 DEF PathsInv
<1>3. CASE Emit
  <2>1. PICK out \in Outs \cup WithParent, input \in Places \cup WithParent :
          Copied(input) /\ options' = <<[out |-> out, input |-> input]>>
    BY <1>3 DEF Emit
  <2>2. fs' = fs
    BY <1>3 DEF Emit
  <2>3. out \in Seq(Parts) /\ input \in Seq(Parts)
    BY OutsSeq
  <2>4. Copied(input)'
    BY <1>2, <2>1, <2>2
  <2>5. DOMAIN options' = {1} /\ options'[1].out = out /\ options'[1].input = input
    BY <2>1
  <2>6. ArgsOK'
    BY <2>1, <2>3, <2>4, <2>5 DEF ArgsOK
  <2> QED BY <1>2, <2>2, <2>6 DEF PathsInv
<1>4. CASE UNCHANGED pathVars
  <2>1. fs' = fs /\ options' = options
    BY <1>4 DEF pathVars
  <2>2. ArgsOK'
    BY <1>2, <2>1 DEF PathsInv, ArgsOK
  <2> QED BY <1>2, <2>1, <2>2 DEF PathsInv
<1> QED BY <1>1, <1>3, <1>4 DEF PathsNext

LEMMA PathsInvariant == PathsSpec => []PathsInv
<1>1. PathsInit => PathsInv
  BY PathsStart
<1>2. PathsInv /\ [PathsNext]_pathVars => PathsInv'
  BY PathsKept
<1> QED BY <1>1, <1>2, PTL DEF PathsSpec

LEMMA ApartHolds == PathsInv => PlainOverlapRefused
<1> SUFFICES ASSUME PathsInv, NEW i \in DOMAIN options PROVE
      LET args == options[i]
          out == EvalSymlinks(ParentDir(args.out))
          real == Lstat(args.input)[2]
      IN  /\ /\ ".." \notin ToSet(args.input)
             /\ Lstat(Clean(args.out))[1] = "found" => ~IsLink(Lstat(Clean(args.out))[2])
             => Apart(args)
          /\ /\ ".." \notin ToSet(args.out) \cup ToSet(args.input) /\ out[1] = "found"
             /\ EvalSymlinks(args.out) = Missing /\ Lstat(args.out) = Missing
             /\ ~pathWithin(out[2], real)
             => validateEmitPaths(args)
  BY DEF PlainOverlapRefused
<1> DEFINE args == options[i]
<1>1. FsOK /\ args.out \in Seq(Parts) /\ args.input \in Seq(Parts) /\ Copied(args.input)
  BY DEF PathsInv, ArgsOK
<1> HIDE DEF args
<1>2. /\ ".." \notin ToSet(args.input) => args.input \in Seq(Components)
      /\ ".." \notin ToSet(args.out) => args.out \in Seq(Components)
  BY <1>1, NamesOnly
<1>3. /\ ".." \notin ToSet(args.input)
      /\ Lstat(Clean(args.out))[1] = "found" => ~IsLink(Lstat(Clean(args.out))[2])
      => Apart(args)
  BY <1>1, <1>2, StagedApart
<1>4. /\ ".." \notin ToSet(args.out) \cup ToSet(args.input)
      /\ EvalSymlinks(ParentDir(args.out))[1] = "found" /\ Lstat(args.out) = Missing
      /\ ~pathWithin(EvalSymlinks(ParentDir(args.out))[2], Lstat(args.input)[2])
      => validateEmitPaths(args)
  BY <1>1, <1>2, ElsewhereAccepted
<1> QED BY <1>3, <1>4 DEF args

\* In every file system of directories and links, an output that is not itself
\* a link and an input without ".." are kept apart, and an output that is
\* elsewhere is accepted (validateEmitPaths and resolveEmitPath, emit.go
\* 711-777, with createEmitStagingDir and copyTree).
THEOREM PlainOverlapRefusedHolds == PathsSpec => []PlainOverlapRefused
  BY PathsInvariant, ApartHolds, PTL

----------------------------------------------------------------------------
(***************************************************************************)
(* AELLimits: containers and their children, as a text grows.              *)
(***************************************************************************)
\* Counting one element more.
LEMMA CountNext ==
    ASSUME NEW i \in Nat, NEW A, A \subseteq 1..i, NEW B, B \ {i + 1} = A
    PROVE  /\ IsFiniteSet(A) /\ IsFiniteSet(B) /\ Cardinality(A) \in Nat
           /\ Cardinality(B) = Cardinality(A) + (IF i + 1 \in B THEN 1 ELSE 0)
<1>1. IsFiniteSet(A) /\ Cardinality(A) \in Nat
  <2>1. IsFiniteSet(1..i)
    BY FS_Interval
  <2> QED BY <2>1, FS_Subset, FS_CardinalityType
<1>2. CASE i + 1 \in B
  <2>1. B = A \cup {i + 1} /\ i + 1 \notin A
    BY <1>2
  <2> QED BY <1>1, <1>2, <2>1, FS_AddElement
<1>3. CASE i + 1 \notin B
  <2>1. B = A
    BY <1>3
  <2> QED BY <1>1, <1>3, <2>1
<1> QED BY <1>2, <1>3

Opening(t, i) == {j \in 1..(i - 1) : t[j].kind \in Openers}
Closing(t, i) == {j \in 1..(i - 1) : t[j].kind \in Closers}

LEMMA DepthNext ==
    ASSUME NEW t, NEW i \in Nat
    PROVE  /\ Depth(t, i + 1) \in Int
           /\ i = 0 => Depth(t, i + 1) = 0
           /\ i # 0 => Depth(t, i + 1) = Depth(t, i) + (IF t[i].kind \in Openers THEN 1 ELSE 0)
                                            - (IF t[i].kind \in Closers THEN 1 ELSE 0)
<1>1. (i + 1) - 1 = i
  OBVIOUS
<1>2. Opening(t, i + 1) \subseteq 1..i /\ Closing(t, i + 1) \subseteq 1..i
  BY <1>1 DEF Opening, Closing
<1>3. Cardinality(Opening(t, i + 1)) \in Nat /\ Cardinality(Closing(t, i + 1)) \in Nat
  <2>1. IsFiniteSet(1..i)
    BY FS_Interval
  <2> QED BY <1>2, <2>1, FS_Subset, FS_CardinalityType
<1>4. Depth(t, i + 1) = Cardinality(Opening(t, i + 1)) - Cardinality(Closing(t, i + 1))
  BY DEF Depth, Opening, Closing
<1>5. CASE i = 0
  <2>1. Opening(t, i + 1) = {} /\ Closing(t, i + 1) = {}
    BY <1>2, <1>5
  <2> QED BY <1>4, <1>5, <2>1, FS_EmptySet
<1>6. CASE i # 0
  <2>1. i - 1 \in Nat /\ (i - 1) + 1 = i
    BY <1>6
  <2>2. /\ Opening(t, i) \subseteq 1..(i - 1) /\ Opening(t, i + 1) \ {i} = Opening(t, i)
        /\ i \in Opening(t, i + 1) <=> t[i].kind \in Openers
    BY <1>1, <2>1 DEF Opening
  <2>3. /\ Closing(t, i) \subseteq 1..(i - 1) /\ Closing(t, i + 1) \ {i} = Closing(t, i)
        /\ i \in Closing(t, i + 1) <=> t[i].kind \in Closers
    BY <1>1, <2>1 DEF Closing
  <2>4. /\ Cardinality(Opening(t, i)) \in Nat
        /\ Cardinality(Opening(t, i + 1)) =
             Cardinality(Opening(t, i)) + (IF t[i].kind \in Openers THEN 1 ELSE 0)
    BY <2>1, <2>2, CountNext
  <2>5. /\ Cardinality(Closing(t, i)) \in Nat
        /\ Cardinality(Closing(t, i + 1)) =
             Cardinality(Closing(t, i)) + (IF t[i].kind \in Closers THEN 1 ELSE 0)
    BY <2>1, <2>3, CountNext
  <2>6. Depth(t, i) = Cardinality(Opening(t, i)) - Cardinality(Closing(t, i))
    BY DEF Depth, Opening, Closing
  <2> HIDE DEF Openers, Closers
  <2> QED BY <1>3, <1>4, <1>6, <2>4, <2>5, <2>6
<1> QED BY <1>3, <1>4, <1>5, <1>6

\* Position and depth depend on what comes before.
LEMMA DepthSame ==
    ASSUME NEW t, NEW u, NEW i, \A j \in 1..(i - 1) : u[j] = t[j]
    PROVE  Depth(u, i) = Depth(t, i)
<1>1. Opening(u, i) = Opening(t, i) /\ Closing(u, i) = Closing(t, i)
  BY DEF Opening, Closing
<1> QED BY <1>1 DEF Depth, Opening, Closing

Holders(t, i) ==
    {j \in 1..(i - 1) : /\ t[j].kind \in Openers
                        /\ Depth(t, i) > 0
                        /\ Depth(t, j) = Depth(t, i) - 1}

LEMMA ParentSame ==
    ASSUME NEW t, NEW u, NEW i \in Nat, \A j \in 1..(i - 1) : u[j] = t[j]
    PROVE  Parent(u, i) = Parent(t, i)
<1>1. ASSUME NEW j \in 1..i PROVE Depth(u, j) = Depth(t, j)
  <2>1. \A k \in 1..(j - 1) : u[k] = t[k]
    OBVIOUS
  <2> QED BY <2>1, DepthSame
<1>2. Depth(u, i) = Depth(t, i)
  BY DepthSame
<1>3. Holders(u, i) = Holders(t, i)
  <2>1. \A j \in 1..(i - 1) : Depth(u, j) = Depth(t, j)
    BY <1>1
  <2> QED BY <1>2, <2>1 DEF Holders
<1>4. Parent(u, i) = Max({0} \cup Holders(u, i)) /\ Parent(t, i) = Max({0} \cup Holders(t, i))
  BY DEF Parent, Holders
<1> QED BY <1>3, <1>4

\* The greatest of some naturals up to m.
LEMMA MaxMeaning ==
    ASSUME NEW m \in Nat, NEW T, T \subseteq 0..m, T # {}
    PROVE  Max(T) \in T /\ \A x \in T : x <= Max(T)
<1> DEFINE D == {m - x : x \in T}
<1>1. D \subseteq Nat /\ D # {}
  <2>1. \A x \in T : m - x \in Nat
    OBVIOUS
  <2> QED BY <2>1
<1>2. PICK d \in D : \A e \in D : d <= e
  <2> HIDE DEF D
  <2> QED BY <1>1, LeastElement
<1>3. PICK x \in T : d = m - x
  BY <1>2
<1>4. \A y \in T : x >= y
  <2>1. SUFFICES ASSUME NEW y \in T PROVE x >= y
    OBVIOUS
  <2>2. m - y \in D /\ m - x <= m - y
    BY <1>2, <1>3
  <2>3. x \in 0..m /\ y \in 0..m
    OBVIOUS
  <2> HIDE DEF D
  <2> QED BY <2>2, <2>3
<1>5. Max(T) \in T /\ \A y \in T : Max(T) >= y
  BY <1>4, Zenon DEF Max
<1> QED BY <1>5

LEMMA ParentBefore ==
    ASSUME NEW t, NEW i \in Nat \ {0}
    PROVE  /\ Parent(t, i) \in {0} \cup Holders(t, i)
           /\ \A j \in Holders(t, i) : j <= Parent(t, i)
           /\ Parent(t, i) \in 0..(i - 1)
<1>1. Holders(t, i) \subseteq 1..(i - 1) /\ i - 1 \in Nat
  BY DEF Holders
<1>2. {0} \cup Holders(t, i) \subseteq 0..(i - 1) /\ {0} \cup Holders(t, i) # {}
  BY <1>1
<1>3. Parent(t, i) = Max({0} \cup Holders(t, i))
  BY DEF Parent, Holders
<1> QED BY <1>1, <1>2, <1>3, MaxMeaning

Kids(t, j) == Cardinality(Children(t, j))

\* A token that is not a closer is one more child of the innermost container.
LEMMA KidsNext ==
    ASSUME NEW S, NEW t \in Seq(S), NEW tok \in S, NEW j
    PROVE  LET u == Append(t, tok)
               n == Len(t)
           IN  /\ Kids(t, j) \in Nat
               /\ Parent(u, n + 1) = Parent(t, n + 1)
               /\ Kids(u, j) = Kids(t, j) + (IF tok.kind \notin Closers /\ Parent(t, n + 1) = j THEN 1 ELSE 0)
<1> DEFINE u == Append(t, tok)
           n == Len(t)
<1>1. /\ n \in Nat /\ u \in Seq(S) /\ Len(u) = n + 1 /\ u[n + 1] = tok
      /\ \A i \in 1..n : u[i] = t[i]
      /\ DOMAIN t = 1..n /\ DOMAIN u = 1..(n + 1)
  OBVIOUS
<1> HIDE DEF u, n
<1>2. ASSUME NEW i \in 1..(n + 1) PROVE Parent(u, i) = Parent(t, i)
  <2>1. \A k \in 1..(i - 1) : u[k] = t[k]
    BY <1>1
  <2> QED BY <2>1, ParentSame
<1>3. Children(t, j) \subseteq 1..n
  BY <1>1 DEF Children
<1>4. Children(u, j) \ {n + 1} = Children(t, j)
  BY <1>1, <1>2 DEF Children
<1>5. n + 1 \in Children(u, j) <=> tok.kind \notin Closers /\ Parent(t, n + 1) = j
  BY <1>1, <1>2 DEF Children
<1>6. /\ Cardinality(Children(t, j)) \in Nat
      /\ Cardinality(Children(u, j)) = Cardinality(Children(t, j)) + (IF n + 1 \in Children(u, j) THEN 1 ELSE 0)
  BY <1>1, <1>3, <1>4, CountNext
<1>7. Parent(u, n + 1) = Parent(t, n + 1)
  BY <1>1, <1>2
<1> QED BY <1>5, <1>6, <1>7 DEF Kids, u, n

\* What has just been opened holds nothing.
LEMMA NoKidsYet ==
    ASSUME NEW S, NEW t \in Seq(S), NEW j \in Nat, j >= Len(t)
    PROVE  Kids(t, j) = 0 \/ j = 0
<1>1. ASSUME j # 0 PROVE Children(t, j) = {}
  <2>1. SUFFICES ASSUME NEW i \in DOMAIN t, Parent(t, i) = j PROVE FALSE
    BY DEF Children
  <2>2. i \in Nat \ {0} /\ i <= Len(t)
    OBVIOUS
  <2>3. Parent(t, i) \in 0..(i - 1)
    BY <2>2, ParentBefore
  <2> QED BY <2>1, <2>2, <2>3
<1> QED BY <1>1, FS_EmptySet DEF Kids

----------------------------------------------------------------------------
(***************************************************************************)
(* AELLimits: the containers that are open.                                *)
(***************************************************************************)
LEMMA SeqWider ==
    ASSUME NEW S, NEW T, S \subseteq T, NEW s \in Seq(S)
    PROVE  s \in Seq(T)
<1>1. \A i \in 1..Len(s) : s[i] \in T
  OBVIOUS
<1> QED BY <1>1

\* o holds the positions of the containers open after t, outermost first.
OpensOK(o, t) ==
    /\ o \in Seq(1..Len(t))
    /\ Len(o) = Depth(t, Len(t) + 1)
    /\ \A k \in 1..Len(o) :
          /\ t[o[k]].kind \in Openers
          /\ Depth(t, o[k]) = k - 1
          /\ \A j \in 1..Len(t) : t[j].kind \in Openers /\ Depth(t, j) = k - 1 => j <= o[k]

Innermost(o) == IF o = << >> THEN 0 ELSE o[Len(o)]

NextOpens(o, tok, i) ==
    IF tok.kind \in Openers THEN Append(o, i)
    ELSE IF tok.kind \in Closers THEN SubSeq(o, 1, Len(o) - 1) ELSE o

LEMMA OpenParent ==
    ASSUME NEW S, NEW t \in Seq(S), NEW o, OpensOK(o, t)
    PROVE  Parent(t, Len(t) + 1) = Innermost(o)
<1> DEFINE n == Len(t)
<1>1. n \in Nat /\ n + 1 \in Nat \ {0} /\ (n + 1) - 1 = n
  OBVIOUS
<1>2. o \in Seq(1..n) /\ Len(o) \in Nat /\ Len(o) = Depth(t, n + 1)
  BY DEF OpensOK
<1>3. /\ Parent(t, n + 1) \in {0} \cup Holders(t, n + 1)
      /\ \A j \in Holders(t, n + 1) : j <= Parent(t, n + 1)
  BY <1>1, ParentBefore
<1>4. CASE o = << >>
  <2>1. Holders(t, n + 1) = {}
    BY <1>2, <1>4 DEF Holders
  <2> QED BY <1>3, <1>4, <2>1 DEF Innermost
<1>5. CASE o # << >>
  <2> DEFINE k == Len(o)
             p == o[k]
  <2>1. k \in 1..k /\ k > 0
    BY <1>2, <1>5
  <2>2. /\ p \in 1..n /\ t[p].kind \in Openers /\ Depth(t, p) = k - 1
        /\ \A j \in 1..n : t[j].kind \in Openers /\ Depth(t, j) = k - 1 => j <= p
    BY <1>2, <2>1 DEF OpensOK
  <2> HIDE DEF n, k, p
  <2>3. p \in Holders(t, n + 1)
    BY <1>1, <1>2, <2>1, <2>2 DEF Holders, k
  <2>4. ASSUME NEW j \in Holders(t, n + 1) PROVE j \in 1..n /\ j <= p
    BY <1>1, <1>2, <2>1, <2>2 DEF Holders, k
  <2>5. p <= Parent(t, n + 1) /\ p \in 1..n
    BY <1>3, <2>2, <2>3
  <2>6. Parent(t, n + 1) \in Holders(t, n + 1)
    <3>1. Parent(t, n + 1) # 0
      BY <1>1, <2>5 DEF n
    <3> QED BY <1>3, <3>1
  <2>7. Parent(t, n + 1) = p
    <3>1. Parent(t, n + 1) <= p /\ Parent(t, n + 1) \in 1..n
      BY <2>4, <2>6
    <3> QED BY <1>1, <2>5, <3>1 DEF n
  <2> QED BY <1>5, <2>7 DEF Innermost, n, k, p
<1> QED BY <1>4, <1>5

LEMMA OpensNext ==
    ASSUME NEW S, NEW t \in Seq(S), NEW tok \in S, NEW o, OpensOK(o, t),
           tok.kind \in Closers => o # << >>
    PROVE  OpensOK(NextOpens(o, tok, Len(t) + 1), Append(t, tok))
<1> DEFINE u == Append(t, tok)
           n == Len(t)
           q == NextOpens(o, tok, n + 1)
           l == Len(o)
<1>1. /\ n \in Nat /\ Len(u) = n + 1 /\ u[n + 1] = tok
      /\ \A i \in 1..n : u[i] = t[i]
  OBVIOUS
<1>2. /\ o \in Seq(1..n) /\ l \in Nat /\ l = Depth(t, n + 1)
      /\ \A k \in 1..l :
          /\ o[k] \in 1..n
          /\ t[o[k]].kind \in Openers
          /\ Depth(t, o[k]) = k - 1
          /\ \A j \in 1..n : t[j].kind \in Openers /\ Depth(t, j) = k - 1 => j <= o[k]
  BY DEF OpensOK
<1> HIDE DEF u, n, l
<1>3. ASSUME NEW i \in 1..(n + 1) PROVE Depth(u, i) = Depth(t, i)
  <2>1. \A j \in 1..(i - 1) : u[j] = t[j]
    BY <1>1
  <2> QED BY <2>1, DepthSame
<1>4. Depth(u, n + 1) = l
  BY <1>1, <1>2, <1>3
<1>5. Depth(u, n + 2) = l + (IF tok.kind \in Openers THEN 1 ELSE 0) - (IF tok.kind \in Closers THEN 1 ELSE 0)
  <2>1. n + 1 \in Nat /\ n + 1 # 0 /\ (n + 1) + 1 = n + 2
    BY <1>1
  <2>2. Depth(u, (n + 1) + 1) = Depth(u, n + 1) + (IF u[n + 1].kind \in Openers THEN 1 ELSE 0)
                                   - (IF u[n + 1].kind \in Closers THEN 1 ELSE 0)
    BY <2>1, DepthNext
  <2> HIDE DEF Openers, Closers
  <2> QED BY <1>1, <1>4, <2>1, <2>2
<1>6. ~(tok.kind \in Openers /\ tok.kind \in Closers)
  BY DEF Openers, Closers
<1>7. ASSUME NEW k \in 1..l
      PROVE  /\ o[k] \in 1..(n + 1)
             /\ u[o[k]].kind \in Openers
             /\ Depth(u, o[k]) = k - 1
             /\ \A j \in 1..(n + 1) : u[j].kind \in Openers /\ Depth(u, j) = k - 1 => j <= o[k]
  <2>1. o[k] \in 1..n /\ o[k] \in 1..(n + 1) /\ u[o[k]] = t[o[k]]
    <3>1. o[k] \in 1..n
      BY <1>2
    <3>2. \A j \in 1..n : j \in 1..(n + 1)
      BY <1>1
    <3> QED BY <1>1, <3>1, <3>2
  <2>2. Depth(u, o[k]) = Depth(t, o[k])
    BY <1>3, <2>1
  <2>3. ASSUME NEW j \in 1..(n + 1), u[j].kind \in Openers, Depth(u, j) = k - 1
        PROVE  j <= o[k]
    <3>1. j # n + 1
      BY <1>2, <1>4, <2>3
    <3>2. j \in 1..n
      BY <1>1, <3>1
    <3>3. t[j].kind \in Openers /\ Depth(t, j) = k - 1
      BY <1>1, <1>3, <2>3, <3>2
    <3> QED BY <1>2, <3>2, <3>3
  <2> QED BY <1>2, <2>1, <2>2, <2>3
<1>8. Len(u) + 1 = n + 2
  BY <1>1
<1>12. o \in Seq(1..(n + 1))
  <2>1. 1..n \subseteq 1..(n + 1)
    BY <1>1
  <2> QED BY <1>2, <2>1, SeqWider
<1>9. CASE tok.kind \in Openers
  <2>1. q = Append(o, n + 1)
    BY <1>9 DEF NextOpens
  <2>2. /\ q \in Seq(1..(n + 1)) /\ Len(q) = l + 1 /\ q[l + 1] = n + 1
        /\ \A k \in 1..l : q[k] = o[k]
    <3> DEFINE T == 1..(n + 1)
    <3>1. n + 1 \in T /\ o \in Seq(T)
      BY <1>1, <1>12
    <3> HIDE DEF T
    <3>2. /\ Append(o, n + 1) \in Seq(T) /\ Len(Append(o, n + 1)) = Len(o) + 1
          /\ \A k \in 1..Len(o) : Append(o, n + 1)[k] = o[k]
          /\ Append(o, n + 1)[Len(o) + 1] = n + 1
      BY <3>1, AppendProperties
    <3> QED BY <2>1, <3>2 DEF l, T
  <2> HIDE DEF q
  <2>3. Len(q) = Depth(u, n + 2)
    BY <1>2, <1>5, <1>6, <1>9, <2>2
  <2>4. ASSUME NEW k \in 1..(l + 1)
        PROVE  /\ u[q[k]].kind \in Openers
               /\ Depth(u, q[k]) = k - 1
               /\ \A j \in 1..(n + 1) : u[j].kind \in Openers /\ Depth(u, j) = k - 1 => j <= q[k]
    <3>1. CASE k = l + 1
      BY <1>1, <1>2, <1>4, <1>9, <2>2, <3>1
    <3>2. CASE k # l + 1
      <4>1. k \in 1..l
        BY <1>2, <3>2
      <4> QED BY <1>7, <2>2, <4>1
    <3> QED BY <3>1, <3>2
  <2> QED BY <1>1, <1>8, <2>2, <2>3, <2>4 DEF OpensOK, q, n, u
<1>10. CASE tok.kind \in Closers
  <2>1. q = SubSeq(o, 1, l - 1)
    BY <1>6, <1>10 DEF NextOpens, l
  <2> HIDE DEF q
  <2>2. l - 1 \in 0..l /\ l - 1 \in Nat
    BY <1>2, <1>10 DEF l
  <2>3. /\ q \in Seq(1..(n + 1)) /\ Len(q) = l - 1
        /\ \A k \in 1..(l - 1) : q[k] = o[k]
    <3>1. \A k \in 1..(l - 1) : o[k] \in 1..(n + 1)
      BY <1>2, <1>7
    <3>2. 1 \in Int /\ l - 1 \in Int
      BY <1>2
    <3>3. /\ q \in Seq(1..(n + 1))
          /\ Len(q) = IF 1 <= l - 1 THEN l - 1 - 1 + 1 ELSE 0
          /\ \A k \in 1..(l - 1 - 1 + 1) : q[k] = o[1 + k - 1]
      BY <2>1, <3>1, <3>2, SubSeqProperties
    <3>4. l - 1 - 1 + 1 = l - 1 /\ \A k \in 1..(l - 1) : 1 + k - 1 = k
      BY <1>2
    <3> QED BY <2>2, <3>3, <3>4
  <2>4. Len(q) = Depth(u, n + 2)
    BY <1>2, <1>5, <1>6, <1>10, <2>3
  <2>5. ASSUME NEW k \in 1..(l - 1)
        PROVE  /\ u[q[k]].kind \in Openers
               /\ Depth(u, q[k]) = k - 1
               /\ \A j \in 1..(n + 1) : u[j].kind \in Openers /\ Depth(u, j) = k - 1 => j <= q[k]
    <3>1. k \in 1..l
      BY <1>2
    <3> QED BY <1>7, <2>3, <3>1
  <2> QED BY <1>1, <1>8, <2>3, <2>4, <2>5 DEF OpensOK, q, n, u
<1>11. CASE tok.kind \notin Openers \cup Closers
  <2>1. q = o
    BY <1>11 DEF NextOpens
  <2>2. q \in Seq(1..(n + 1))
    BY <1>12, <2>1
  <2> HIDE DEF q
  <2>3. Len(q) = Depth(u, n + 2)
    BY <1>2, <1>5, <1>11, <2>1 DEF l
  <2> QED BY <1>1, <1>7, <1>8, <2>1, <2>2, <2>3 DEF OpensOK, q, n, u, l
<1> QED BY <1>9, <1>10, <1>11

----------------------------------------------------------------------------
(***************************************************************************)
(* AELLimits: the stack of the pass, and the limits kept so far.           *)
(***************************************************************************)
SoFar(t) ==
    \A i \in DOMAIN t :
       /\ t[i].kind = "{" => Kids(t, i) <= 2 * maxManifestObjectFields
       /\ t[i].kind = "[" => Kids(t, i) <= maxManifestArrayItems
       /\ t[i].kind \in Openers => Depth(t, i) < maxManifestNestingDepth
       /\ ~LongString(t[i])

\* The container at p may take one more child.
Room(t, p) ==
    /\ t[p].kind = "{" => Kids(t, p) + 1 <= 2 * maxManifestObjectFields
    /\ t[p].kind = "[" => Kids(t, p) + 1 <= maxManifestArrayItems

LEMMA SoFarNext ==
    ASSUME NEW S, NEW t \in Seq(S), NEW tok \in S
    PROVE  SoFar(Append(t, tok)) <=>
             /\ SoFar(t) /\ ~LongString(tok)
             /\ tok.kind \in Openers => Depth(t, Len(t) + 1) < maxManifestNestingDepth
             /\ tok.kind \notin Closers /\ Parent(t, Len(t) + 1) # 0 => Room(t, Parent(t, Len(t) + 1))
<1> DEFINE u == Append(t, tok)
           n == Len(t)
           p == Parent(t, n + 1)
           F == maxManifestObjectFields
           A == maxManifestArrayItems
           D == maxManifestNestingDepth
<1>1. /\ n \in Nat /\ u \in Seq(S) /\ Len(u) = n + 1 /\ u[n + 1] = tok
      /\ \A i \in 1..n : u[i] = t[i]
      /\ DOMAIN t = 1..n /\ DOMAIN u = 1..(n + 1)
  OBVIOUS
<1>2. F \in Nat /\ A \in Nat /\ D \in Nat
  BY LimitsAssumption
<1>3. p \in 0..n
  <2>1. n + 1 \in Nat \ {0} /\ (n + 1) - 1 = n
    BY <1>1
  <2> HIDE DEF n
  <2> QED BY <2>1, ParentBefore
<1>4. ASSUME NEW i \in 1..(n + 1)
      PROVE  Depth(u, i) = Depth(t, i)
  <2>1. \A j \in 1..(i - 1) : u[j] = t[j]
    BY <1>1
  <2> HIDE DEF u
  <2> QED BY <2>1, DepthSame
<1>5. ASSUME NEW i
      PROVE  Kids(t, i) \in Nat /\ Kids(u, i) = Kids(t, i) + (IF tok.kind \notin Closers /\ p = i THEN 1 ELSE 0)
  BY KidsNext
<1>6. Kids(u, n + 1) = 0
  <2>1. n + 1 \in Nat /\ n + 1 >= Len(u) /\ n + 1 # 0
    BY <1>1
  <2> HIDE DEF u, n
  <2> QED BY <1>1, <2>1, NoKidsYet
<1> HIDE DEF u, n, p, F, A, D
<1> DEFINE In(v, i) == /\ v[i].kind = "{" => Kids(v, i) <= 2 * F
                       /\ v[i].kind = "[" => Kids(v, i) <= A
                       /\ v[i].kind \in Openers => Depth(v, i) < D
                       /\ ~LongString(v[i])
<1>7. (SoFar(t) <=> \A i \in 1..n : In(t, i)) /\ (SoFar(u) <=> \A i \in 1..(n + 1) : In(u, i))
  BY <1>1 DEF SoFar, F, A, D
<1>8. In(u, n + 1) <=> ~LongString(tok) /\ (tok.kind \in Openers => Depth(t, n + 1) < D)
  <2>1. n + 1 \in 1..(n + 1)
    BY <1>1
  <2>2. Depth(u, n + 1) = Depth(t, n + 1) /\ u[n + 1] = tok
    BY <1>1, <1>4, <2>1
  <2>3. Kids(u, n + 1) <= 2 * F /\ Kids(u, n + 1) <= A
    BY <1>2, <1>6
  <2> QED BY <2>2, <2>3
<1>9. ASSUME NEW i \in 1..n, tok.kind \in Closers \/ i # p
      PROVE  In(u, i) <=> In(t, i)
  <2>1. u[i] = t[i] /\ Depth(u, i) = Depth(t, i) /\ Kids(u, i) = Kids(t, i)
    BY <1>1, <1>4, <1>5, <1>9
  <2> QED BY <2>1
<1>10. ASSUME NEW i \in 1..n, tok.kind \notin Closers, i = p
       PROVE  In(u, i) <=> In(t, i) /\ Room(t, p)
  <2>1. u[i] = t[i] /\ Depth(u, i) = Depth(t, i) /\ Kids(u, i) = Kids(t, i) + 1 /\ Kids(t, i) \in Nat
    BY <1>1, <1>4, <1>5, <1>10
  <2>2. Room(t, p) <=> /\ t[i].kind = "{" => Kids(t, i) + 1 <= 2 * F
                       /\ t[i].kind = "[" => Kids(t, i) + 1 <= A
    BY <1>10 DEF Room, F, A
  <2> DEFINE kids == Kids(t, i)
  <2>3. (kids + 1 <= 2 * F => kids <= 2 * F) /\ (kids + 1 <= A => kids <= A)
    <3> HIDE DEF kids
    <3>1. kids \in Nat
      BY <2>1 DEF kids
    <3> QED BY <1>2, <3>1
  <2>4. In(u, i) <=> /\ t[i].kind = "{" => kids + 1 <= 2 * F
                     /\ t[i].kind = "[" => kids + 1 <= A
                     /\ t[i].kind \in Openers => Depth(t, i) < D
                     /\ ~LongString(t[i])
    BY <2>1
  <2> HIDE DEF Openers
  <2> QED BY <2>2, <2>3, <2>4
<1> HIDE DEF In
<1>11. (\A i \in 1..(n + 1) : In(u, i)) <=> (\A i \in 1..n : In(u, i)) /\ In(u, n + 1)
  BY <1>1
<1>12. (\A i \in 1..n : In(u, i)) <=>
         (\A i \in 1..n : In(t, i)) /\ (tok.kind \notin Closers /\ p # 0 => Room(t, p))
  <2>1. p # 0 => p \in 1..n
    BY <1>1, <1>3
  <2>2. p \in 1..n => p # 0
    OBVIOUS
  <2> HIDE DEF Closers
  <2> QED BY <1>9, <1>10, <2>1, <2>2
<1>13. SoFar(u) <=>
         /\ SoFar(t) /\ ~LongString(tok) /\ (tok.kind \in Openers => Depth(t, n + 1) < D)
         /\ (tok.kind \notin Closers /\ p # 0 => Room(t, p))
  <2> HIDE DEF Openers, Closers
  <2> QED BY <1>7, <1>8, <1>11, <1>12
<1> QED BY <1>13 DEF u, n, p, D

Containers == [object : BOOLEAN, count : Nat, expectKey : BOOLEAN]

IsObject(kind) == kind = "{"
IsArray(kind) == kind = "["

\* What the stack holds about a container of a kind with so many children.
CellOK(c, kind, kids) ==
    /\ c \in Containers
    /\ \/ IsObject(kind) /\ c.object = TRUE /\ c.expectKey = TRUE /\ kids = 2 * c.count
       \/ IsObject(kind) /\ c.object = TRUE /\ c.expectKey = FALSE /\ kids = 2 * c.count - 1
       \/ IsArray(kind) /\ c.object = FALSE /\ kids = c.count

StackOK(stack, o, t) ==
    /\ stack \in Seq(Containers) /\ Len(stack) = Len(o)
    /\ \A k \in 1..Len(o) : CellOK(stack[k], t[o[k]].kind, Kids(t, o[k]))

PassOK(s, o, t) ==
    \/ s.ok = FALSE /\ ~SoFar(t)
    \/ /\ s = [ok |-> TRUE, stack |-> s.stack]
       /\ SoFar(t) /\ StackOK(s.stack, o, t)

\* One more child is counted in the innermost container only.
LEMMA KidsOfOpen ==
    ASSUME NEW S, NEW t \in Seq(S), NEW tok \in S, NEW o, OpensOK(o, t), NEW k \in 1..Len(o)
    PROVE  Kids(Append(t, tok), o[k]) =
             Kids(t, o[k]) + (IF tok.kind \notin Closers /\ k = Len(o) THEN 1 ELSE 0)
<1> DEFINE n == Len(t)
           l == Len(o)
<1>1. /\ n \in Nat /\ o \in Seq(1..n) /\ l \in Nat /\ k \in 1..l /\ o[k] \in 1..n
      /\ \A i \in 1..l : Depth(t, o[i]) = i - 1
  BY DEF OpensOK
<1>2. Parent(t, n + 1) = o[l]
  <2>1. o # << >>
    BY <1>1
  <2> QED BY <2>1, OpenParent DEF Innermost
<1>3. Kids(Append(t, tok), o[k]) =
        Kids(t, o[k]) + (IF tok.kind \notin Closers /\ Parent(t, n + 1) = o[k] THEN 1 ELSE 0)
  BY KidsNext
<1>4. o[l] = o[k] <=> k = l
  <2>1. l \in 1..l
    BY <1>1
  <2>2. Depth(t, o[l]) = l - 1 /\ Depth(t, o[k]) = k - 1
    BY <1>1, <2>1
  <2>3. o[l] = o[k] => l - 1 = k - 1
    BY <2>2
  <2>4. l - 1 = k - 1 => k = l
    BY <1>1
  <2> QED BY <2>3, <2>4
<1> QED BY <1>2, <1>3, <1>4

LEMMA CellReplaced ==
    ASSUME NEW S, NEW t \in Seq(S), NEW tok \in S, NEW o, OpensOK(o, t), o # << >>,
           tok.kind \notin Closers, NEW stack, StackOK(stack, o, t),
           NEW c, CellOK(c, t[o[Len(o)]].kind, Kids(t, o[Len(o)]) + 1)
    PROVE  StackOK([stack EXCEPT ![Len(o)] = c], o, Append(t, tok))
<1> DEFINE u == Append(t, tok)
           l == Len(o)
           next == [stack EXCEPT ![l] = c]
<1>1. o \in Seq(1..Len(t)) /\ l \in Nat
  BY DEF OpensOK
<1>2. stack \in Seq(Containers) /\ Len(stack) = l /\ c \in Containers
  BY DEF StackOK, CellOK
<1>3. l \in 1..l
  BY <1>1
<1>4. next \in Seq(Containers) /\ Len(next) = l /\ next[l] = c /\ \A k \in 1..l : k # l => next[k] = stack[k]
  BY <1>2, <1>3
<1>5. ASSUME NEW k \in 1..l PROVE CellOK(next[k], u[o[k]].kind, Kids(u, o[k]))
  <2>1. /\ u[o[k]] = t[o[k]]
        /\ Kids(u, o[k]) = Kids(t, o[k]) + (IF k = l THEN 1 ELSE 0)
    <3>1. Kids(Append(t, tok), o[k]) =
            Kids(t, o[k]) + (IF tok.kind \notin Closers /\ k = Len(o) THEN 1 ELSE 0)
      BY KidsOfOpen
    <3>2. o[k] \in 1..Len(t)
      BY <1>1
    <3>3. u[o[k]] = t[o[k]]
      BY <3>2
    <3> QED BY <3>1, <3>3
  <2>2. CASE k = l
    BY <1>4, <2>1, <2>2
  <2>3. CASE k # l
    <3>1. CellOK(stack[k], t[o[k]].kind, Kids(t, o[k]))
      BY DEF StackOK
    <3>2. Kids(t, o[k]) + 0 = Kids(t, o[k])
      <4>1. Kids(t, o[k]) \in Nat
        BY KidsNext
      <4> QED BY <4>1
    <3> QED BY <1>4, <2>1, <2>3, <3>1, <3>2
  <2> QED BY <2>2, <2>3
<1> HIDE DEF next, u, l
<1> QED BY <1>4, <1>5 DEF StackOK, next, u, l

LEMMA CellRemoved ==
    ASSUME NEW S, NEW t \in Seq(S), NEW tok \in S, NEW o, OpensOK(o, t), o # << >>,
           tok.kind \in Closers, NEW stack, StackOK(stack, o, t)
    PROVE  StackOK(Front(stack), NextOpens(o, tok, Len(t) + 1), Append(t, tok))
<1> DEFINE u == Append(t, tok)
           l == Len(o)
           q == NextOpens(o, tok, Len(t) + 1)
           next == Front(stack)
<1>1. o \in Seq(1..Len(t)) /\ l \in Nat /\ l - 1 \in 0..l
  BY DEF OpensOK
<1>2. stack \in Seq(Containers) /\ Len(stack) = l
  BY DEF StackOK
<1>3. q = SubSeq(o, 1, l - 1)
  BY DEF NextOpens, Openers, Closers
<1>4. next = SubSeq(stack, 1, l - 1)
  BY <1>2 DEF Front
<1> HIDE DEF q, next
<1>5. /\ Len(q) = l - 1 /\ \A k \in 1..(l - 1) : q[k] = o[k]
      /\ next \in Seq(Containers) /\ Len(next) = l - 1 /\ \A k \in 1..(l - 1) : next[k] = stack[k]
  BY <1>1, <1>2, <1>3, <1>4, PrefixSeq
<1>6. ASSUME NEW k \in 1..(l - 1) PROVE CellOK(next[k], u[q[k]].kind, Kids(u, q[k]))
  <2>1. k \in 1..l
    BY <1>1
  <2>2. u[o[k]] = t[o[k]] /\ Kids(u, o[k]) = Kids(t, o[k]) + 0
    <3>1. Kids(Append(t, tok), o[k]) =
            Kids(t, o[k]) + (IF tok.kind \notin Closers /\ k = Len(o) THEN 1 ELSE 0)
      BY <2>1, KidsOfOpen
    <3>2. o[k] \in 1..Len(t)
      BY <1>1, <2>1
    <3>3. u[o[k]] = t[o[k]]
      BY <3>2
    <3> QED BY <3>1, <3>3
  <2>3. Kids(t, o[k]) + 0 = Kids(t, o[k])
    <3>1. Kids(t, o[k]) \in Nat
      BY KidsNext
    <3> QED BY <3>1
  <2>4. CellOK(stack[k], t[o[k]].kind, Kids(t, o[k]))
    BY <2>1 DEF StackOK
  <2> QED BY <1>5, <2>2, <2>3, <2>4
<1> QED BY <1>5, <1>6 DEF StackOK, q, next, u

LEMMA CellPushed ==
    ASSUME NEW S, NEW u \in Seq(S), u # << >>, u[Len(u)].kind \in Openers,
           NEW o \in Seq(1..Len(u)), NEW stack, StackOK(stack, o, u)
    PROVE  StackOK(Push(stack, u[Len(u)]), Append(o, Len(u)), u)
<1> DEFINE m == Len(u)
           l == Len(o)
           c == [object |-> u[m].kind = "{", count |-> 0, expectKey |-> u[m].kind = "{"]
           q == Append(o, m)
           next == Push(stack, u[m])
<1>1. m \in Nat /\ m # 0 /\ m \in 1..m /\ l \in Nat
  OBVIOUS
<1>2. stack \in Seq(Containers) /\ Len(stack) = l
  BY DEF StackOK
<1>3. c \in Containers
  BY DEF Containers
<1>4. next = Append(stack, c)
  BY DEF Push
<1> HIDE DEF c, next
<1>5. /\ next \in Seq(Containers) /\ Len(next) = l + 1 /\ next[l + 1] = c
      /\ \A k \in 1..l : next[k] = stack[k]
  BY <1>2, <1>3, <1>4, AppendProperties
<1>6. Len(q) = l + 1 /\ q[l + 1] = m /\ \A k \in 1..l : q[k] = o[k]
  BY <1>1, AppendProperties
<1>7. CellOK(c, u[m].kind, Kids(u, m))
  <2>1. Kids(u, m) = 0
    BY <1>1, NoKidsYet
  <2>2. u[m].kind = "{" \/ u[m].kind = "["
    BY DEF Openers
  <2>3. CASE u[m].kind = "{"
    <3>1. c.object = TRUE /\ c.expectKey = TRUE /\ c.count = 0
      BY <2>3 DEF c
    <3>2. Kids(u, m) = 2 * c.count
      BY <2>1, <3>1
    <3> QED BY <1>3, <2>3, <3>1, <3>2 DEF CellOK, IsObject, IsArray
  <2>4. CASE u[m].kind = "["
    <3>1. c.object = FALSE /\ c.count = 0
      BY <2>4 DEF c
    <3> QED BY <1>3, <2>1, <2>4, <3>1 DEF CellOK, IsObject, IsArray
  <2> QED BY <2>2, <2>3, <2>4
<1> HIDE DEF q, m, l
<1>8. ASSUME NEW k \in 1..(l + 1) PROVE CellOK(next[k], u[q[k]].kind, Kids(u, q[k]))
  <2>1. CASE k = l + 1
    BY <1>5, <1>6, <1>7, <2>1
  <2>2. CASE k # l + 1
    <3>1. k \in 1..l
      BY <1>1, <2>2
    <3>2. CellOK(stack[k], u[o[k]].kind, Kids(u, o[k]))
      BY <3>1 DEF StackOK, l
    <3> QED BY <1>5, <1>6, <3>1, <3>2
  <2> QED BY <2>1, <2>2
<1> QED BY <1>5, <1>6, <1>8 DEF StackOK, q, next, m

LEMMA Parity == ASSUME NEW c \in Nat PROVE (2 * c) % 2 = 0
  OBVIOUS

\* What may come next, for the innermost container.
LEMMA LegalNext ==
    ASSUME NEW S, NEW t \in Seq(S), NEW tok \in S, NEW o, OpensOK(o, t), Legal(t, tok)
    PROVE  /\ tok.kind \in Closers => o # << >>
           /\ o # << >> => /\ o[Len(o)] \in 1..Len(t) /\ t[o[Len(o)]].kind \in Openers
                           /\ Parent(t, Len(t) + 1) = o[Len(o)]
<1> DEFINE n == Len(t)
           p == Parent(t, n + 1)
<1>1. n \in Nat /\ o \in Seq(1..n)
  BY DEF OpensOK
<1>2. p = Innermost(o)
  BY OpenParent
<1>3. ASSUME tok.kind \in Closers PROVE o # << >>
  <2>1. p # 0
    BY <1>3 DEF Legal
  <2> QED BY <1>2, <2>1 DEF Innermost
<1>4. ASSUME o # << >>
      PROVE  o[Len(o)] \in 1..n /\ t[o[Len(o)]].kind \in Openers /\ p = o[Len(o)]
  <2>1. Len(o) \in 1..Len(o)
    BY <1>1, <1>4
  <2> QED BY <1>1, <1>2, <1>4, <2>1 DEF OpensOK, Innermost
<1> QED BY <1>3, <1>4

\* After complete members of an object comes a key.
LEMMA KeyNext ==
    ASSUME NEW S, NEW t \in Seq(S), NEW tok, tok.kind \notin Closers, Legal(t, tok),
           NEW p \in 1..Len(t), Parent(t, Len(t) + 1) = p, IsObject(t[p].kind),
           Kids(t, p) % 2 = 0
    PROVE  tok.kind = "string"
<1> DEFINE n == Len(t)
<1>1. n \in Nat /\ p # 0
  OBVIOUS
<1>2. {j \in Children(t, p) : j < n + 1} = Children(t, p)
  <2>1. Children(t, p) \subseteq 1..n
    BY <1>1 DEF Children
  <2> QED BY <1>1, <2>1
<1>3. Elders(t, n + 1) = Kids(t, p)
  BY <1>2 DEF Elders, Kids
<1>4. KeyComesAt(t, n + 1)
  BY <1>1, <1>3 DEF KeyComesAt, InObject, IsObject
<1> QED BY <1>4 DEF Legal

----------------------------------------------------------------------------
(***************************************************************************)
(* AELLimits: one token of the pass.                                       *)
(***************************************************************************)
AtKey(stack) ==
    /\ stack # << >>
    /\ stack[Len(stack)].object = TRUE
    /\ stack[Len(stack)].expectKey = TRUE

\* The innermost container after one more child.
OneMore(c) ==
    IF c.object /\ c.expectKey THEN [object |-> TRUE, count |-> c.count + 1, expectKey |-> FALSE]
    ELSE IF c.object THEN [object |-> TRUE, count |-> c.count, expectKey |-> TRUE]
    ELSE [object |-> FALSE, count |-> c.count + 1, expectKey |-> c.expectKey]

\* It has no room for it.
Full(c) ==
    IF c.object THEN c.expectKey /\ c.count >= maxManifestObjectFields
    ELSE c.count >= maxManifestArrayItems

\* The stack after one more child.
Counted(stack) ==
    IF stack = << >> THEN stack
    ELSE [stack EXCEPT ![Len(stack)] = OneMore(stack[Len(stack)])]

LEMMA CellFields ==
    ASSUME NEW c \in Containers
    PROVE  /\ c = [object |-> c.object, count |-> c.count, expectKey |-> c.expectKey]
           /\ [c EXCEPT !.expectKey = TRUE] = [object |-> c.object, count |-> c.count, expectKey |-> TRUE]
           /\ [c EXCEPT !.count = @ + 1] = [object |-> c.object, count |-> c.count + 1, expectKey |-> c.expectKey]
<1>1. c = [object |-> c.object, count |-> c.count, expectKey |-> c.expectKey]
  BY DEF Containers
<1>2. ASSUME NEW x, NEW y, NEW z, c = [object |-> x, count |-> y, expectKey |-> z]
      PROVE  /\ [c EXCEPT !.expectKey = TRUE] = [object |-> x, count |-> y, expectKey |-> TRUE]
             /\ [c EXCEPT !.count = @ + 1] = [object |-> x, count |-> y + 1, expectKey |-> z]
  <2> DEFINE yes == TRUE
  <2> HIDE DEF yes
  <2>1. [c EXCEPT !.expectKey = yes] = [object |-> x, count |-> y, expectKey |-> yes]
    BY <1>2
  <2>2. [c EXCEPT !.count = @ + 1] = [object |-> x, count |-> y + 1, expectKey |-> z]
    BY <1>2
  <2> QED BY <2>1, <2>2 DEF yes
<1> QED BY <1>1, <1>2

LEMMA CountedValue ==
    ASSUME NEW stack \in Seq(Containers), NEW tok, ~AtKey(stack)
    PROVE  CountValue(stack, tok) = Counted(stack)
<1>1. CASE stack = << >>
  BY <1>1 DEF CountValue, Counted
<1>2. CASE stack # << >>
  <2> DEFINE top == Len(stack)
             c == stack[top]
  <2>1. c \in Containers
    BY <1>2
  <2> HIDE DEF c
  <2>3. c.object \in BOOLEAN /\ c.expectKey \in BOOLEAN
    BY <2>1 DEF Containers
  <2>4. CASE c.object = TRUE
    <3>1. [c EXCEPT !.expectKey = TRUE] = OneMore(c)
      <4>1. c.expectKey = FALSE
        BY <1>2, <2>3, <2>4 DEF AtKey, c
      <4>2. OneMore(c) = [object |-> TRUE, count |-> c.count, expectKey |-> TRUE]
        BY <2>4, <4>1 DEF OneMore
      <4>3. [c EXCEPT !.expectKey = TRUE] = [object |-> TRUE, count |-> c.count, expectKey |-> TRUE]
        BY <2>1, <2>4, CellFields
      <4> QED BY <4>2, <4>3
    <3>2. CountValue(stack, tok) = [stack EXCEPT ![top] = [c EXCEPT !.expectKey = TRUE]]
      BY <1>2, <2>4 DEF CountValue, c
    <3> QED BY <1>2, <3>1, <3>2 DEF Counted, c
  <2>5. CASE c.object = FALSE
    <3>1. [c EXCEPT !.count = @ + 1] = OneMore(c)
      <4>1. OneMore(c) = [object |-> FALSE, count |-> c.count + 1, expectKey |-> c.expectKey]
        BY <2>5 DEF OneMore
      <4>2. [c EXCEPT !.count = @ + 1] = [object |-> FALSE, count |-> c.count + 1, expectKey |-> c.expectKey]
        BY <2>1, <2>5, CellFields
      <4> QED BY <4>1, <4>2
    <3>2. CountValue(stack, tok) = [stack EXCEPT ![top] = [c EXCEPT !.count = @ + 1]]
      BY <1>2, <2>5 DEF CountValue, c
    <3> QED BY <1>2, <3>1, <3>2 DEF Counted, c
  <2> QED BY <2>3, <2>4, <2>5
<1> QED BY <1>1, <1>2

\* A pass that has accepted everything so far.
Good(stack) == [ok |-> TRUE, stack |-> stack]

LEMMA StepMeaning ==
    ASSUME NEW stack \in Seq(Containers), NEW tok
    PROVE  LET next == LimitStep(Good(stack), tok)
               bad == LongString(tok) \/ (stack # << >> /\ Full(stack[Len(stack)]))
           IN  /\ tok.kind \in Closers => next = Good(Front(stack))
               /\ tok.kind \notin Closers /\ bad => next.ok = FALSE
               /\ tok.kind \notin Closers /\ ~bad /\ AtKey(stack) => next = Good(Counted(stack))
               /\ tok.kind \notin Closers \cup Openers /\ ~bad => next = Good(Counted(stack))
               /\ tok.kind \in Openers /\ ~bad /\ ~AtKey(stack) =>
                    IF Len(stack) < maxManifestNestingDepth
                    THEN next = Good(Push(Counted(stack), tok))
                    ELSE next.ok = FALSE
<1> DEFINE s == Good(stack)
           top == Len(stack)
           c == stack[top]
           long == LongString(tok)
           bad == long \/ (stack # << >> /\ Full(c))
           next == LimitStep(s, tok)
           kept == Counted(stack)
<1>1. s.ok = TRUE /\ s.stack = stack
  BY DEF Good
<1>2. ASSUME stack # << >>
      PROVE  c \in Containers /\ c.object \in BOOLEAN /\ c.expectKey \in BOOLEAN /\ c.count \in Nat
  <2>1. c \in Containers
    BY <1>2
  <2> QED BY <2>1 DEF Containers
<1>3. ASSUME NEW x PROVE [s EXCEPT !.stack = x] = Good(x)
  <2> DEFINE yes == TRUE
  <2> HIDE DEF yes
  <2>1. [[ok |-> yes, stack |-> stack] EXCEPT !.stack = x] = [ok |-> yes, stack |-> x]
    OBVIOUS
  <2> QED BY <2>1 DEF Good, yes
<1>4. [s EXCEPT !.ok = FALSE].ok = FALSE
  BY DEF Good
<1>5. ~(tok.kind \in Openers /\ tok.kind \in Closers)
  BY DEF Openers, Closers
<1>6. CASE tok.kind \in Closers
  <2>1. next = [s EXCEPT !.stack = Front(stack)]
    BY <1>1, <1>6 DEF LimitStep
  <2> QED BY <1>3, <1>5, <1>6, <2>1
<1>7. CASE tok.kind \notin Closers /\ AtKey(stack)
  <2>1. stack # << >> /\ c.object = TRUE /\ c.expectKey = TRUE
    BY <1>7 DEF AtKey
  <2>2. kept = [stack EXCEPT ![top] = [object |-> TRUE, count |-> c.count + 1, expectKey |-> FALSE]]
    BY <2>1 DEF Counted, OneMore
  <2>3. next = [ok |-> ~long /\ c.count < maxManifestObjectFields, stack |-> kept]
    BY <1>1, <1>7, <2>1, <2>2, Zenon DEF LimitStep
  <2>4. Full(c) <=> ~(c.count < maxManifestObjectFields)
    <3>1. maxManifestObjectFields \in Nat
      BY LimitsAssumption
    <3> QED BY <1>2, <2>1, <3>1 DEF Full
  <2>5. CASE bad
    <3>1. next.ok = FALSE
      <4> HIDE DEF c, long, next, kept
      <4> QED BY <2>1, <2>3, <2>4, <2>5
    <3> QED BY <1>7, <2>5, <3>1
  <2>6. CASE ~bad
    <3>1. next = Good(kept)
      <4> HIDE DEF c, long, next, kept
      <4> QED BY <2>1, <2>3, <2>4, <2>6 DEF Good
    <3> QED BY <1>7, <2>6, <3>1
  <2> QED BY <2>5, <2>6
<1>8. CASE tok.kind \notin Closers /\ ~AtKey(stack)
  <2> DEFINE full == /\ stack # << >> /\ ~c.object
                     /\ CountValue(stack, tok)[top].count > maxManifestArrayItems
  <2>1. CountValue(stack, tok) = kept
    BY <1>8, CountedValue
  <2>2. ~(stack # << >> /\ c.object /\ c.expectKey)
    BY <1>2, <1>8 DEF AtKey
  <2>3. next = IF full \/ long THEN [s EXCEPT !.ok = FALSE]
               ELSE IF tok.kind \in Openers
               THEN [ok |-> top < maxManifestNestingDepth, stack |-> Push(kept, tok)]
               ELSE [s EXCEPT !.stack = kept]
    BY <1>1, <1>8, <2>1, <2>2, Zenon DEF LimitStep
  <2>4. full <=> stack # << >> /\ Full(c)
    <3>1. CASE stack = << >>
      BY <3>1
    <3>2. CASE stack # << >>
      <4>1. kept[top] = OneMore(c)
        BY <3>2 DEF Counted
      <4>2. maxManifestArrayItems \in Nat
        BY LimitsAssumption
      <4>3. CASE c.object = TRUE
        <5>1. ~Full(c)
          BY <2>2, <3>2, <4>3 DEF Full
        <5> QED BY <4>3, <5>1
      <4>4. CASE c.object = FALSE
        <5>1. OneMore(c).count = c.count + 1
          BY <4>4 DEF OneMore
        <5>2. Full(c) <=> c.count >= maxManifestArrayItems
          BY <4>4 DEF Full
        <5>3. c.count + 1 > maxManifestArrayItems <=> c.count >= maxManifestArrayItems
          BY <1>2, <3>2, <4>2
        <5> QED BY <2>1, <3>2, <4>1, <4>4, <5>1, <5>2, <5>3
      <4> QED BY <1>2, <3>2, <4>3, <4>4
    <3> QED BY <3>1, <3>2
  <2> HIDE DEF full, long, kept, next, c, s
  <2>5. CASE bad
    <3>1. next = [s EXCEPT !.ok = FALSE]
      BY <2>3, <2>4, <2>5
    <3> QED BY <1>4, <1>8, <2>5, <3>1 DEF long, next, c, s
  <2>6. CASE ~bad /\ tok.kind \in Openers
    <3>1. next = [ok |-> top < maxManifestNestingDepth, stack |-> Push(kept, tok)]
      BY <2>3, <2>4, <2>6
    <3>2. IF top < maxManifestNestingDepth THEN next = Good(Push(kept, tok)) ELSE next.ok = FALSE
      <4>1. CASE top < maxManifestNestingDepth
        <5>1. (top < maxManifestNestingDepth) = TRUE
          BY <4>1
        <5>2. next = Good(Push(kept, tok))
          BY <3>1, <5>1, Zenon DEF Good
        <5> QED BY <4>1, <5>2
      <4>2. CASE ~(top < maxManifestNestingDepth)
        <5>1. (top < maxManifestNestingDepth) = FALSE
          BY <4>2
        <5>2. next.ok = FALSE
          BY <3>1, <5>1
        <5> QED BY <4>2, <5>2
      <4> QED BY <4>1, <4>2
    <3> QED BY <1>5, <1>8, <2>6, <3>2 DEF long, next, c, s, kept
  <2>7. CASE ~bad /\ tok.kind \notin Openers
    <3>1. next = Good(kept)
      BY <1>3, <2>3, <2>4, <2>7
    <3> QED BY <1>8, <2>7, <3>1 DEF long, next, c, s, kept
  <2> QED BY <2>5, <2>6, <2>7
<1> QED BY <1>6, <1>7, <1>8

LEMMA OneMoreOK ==
    ASSUME NEW c, NEW kind, NEW kids \in Nat, CellOK(c, kind, kids),
           IsObject(kind) => kids <= 2 * maxManifestObjectFields
    PROVE  /\ CellOK(OneMore(c), kind, kids + 1)
           /\ ~Full(c) <=> /\ IsObject(kind) => kids + 1 <= 2 * maxManifestObjectFields
                           /\ IsArray(kind) => kids + 1 <= maxManifestArrayItems
           /\ c.object = TRUE /\ c.expectKey = TRUE => IsObject(kind) /\ kids % 2 = 0
<1> DEFINE F == maxManifestObjectFields
           A == maxManifestArrayItems
           n == c.count
<1>1. F \in Nat /\ A \in Nat
  BY LimitsAssumption
<1>2. c \in Containers /\ n \in Nat /\ c.expectKey \in BOOLEAN
  BY DEF CellOK, Containers
<1>3. \/ IsObject(kind) /\ c.object = TRUE /\ c.expectKey = TRUE /\ kids = 2 * n
      \/ IsObject(kind) /\ c.object = TRUE /\ c.expectKey = FALSE /\ kids = 2 * n - 1
      \/ IsArray(kind) /\ c.object = FALSE /\ kids = n
  BY DEF CellOK
<1>4. n + 1 \in Nat
  BY <1>2
<1>8. ~(IsObject(kind) /\ IsArray(kind))
  BY DEF IsObject, IsArray
<1>5. CASE IsObject(kind) /\ c.object = TRUE /\ c.expectKey = TRUE /\ kids = 2 * n
  <2>1. OneMore(c) = [object |-> TRUE, count |-> n + 1, expectKey |-> FALSE]
    BY <1>5 DEF OneMore
  <2>2. Full(c) <=> n >= F
    BY <1>5 DEF Full
  <2> HIDE DEF n, F, A
  <2>3. OneMore(c) \in Containers
    BY <1>4, <2>1 DEF Containers
  <2>4. kids + 1 = 2 * (n + 1) - 1 /\ (~(n >= F) <=> kids + 1 <= 2 * F)
    BY <1>1, <1>2, <1>5
  <2>5. kids % 2 = 0
    BY <1>2, <1>5, Parity
  <2>6. OneMore(c).object = TRUE /\ OneMore(c).expectKey = FALSE /\ OneMore(c).count = n + 1
    BY <2>1
  <2>7. CellOK(OneMore(c), kind, kids + 1)
    BY <1>5, <2>3, <2>4, <2>6 DEF CellOK
  <2> QED BY <1>8, <1>5, <2>2, <2>4, <2>5, <2>7 DEF F, A
<1>6. CASE IsObject(kind) /\ c.object = TRUE /\ c.expectKey = FALSE /\ kids = 2 * n - 1
  <2>1. OneMore(c) = [object |-> TRUE, count |-> n, expectKey |-> TRUE]
    BY <1>6 DEF OneMore
  <2>2. ~Full(c)
    BY <1>6 DEF Full
  <2>3. kids <= 2 * F
    BY <1>6
  <2> HIDE DEF n, F, A
  <2>4. OneMore(c) \in Containers
    BY <1>2, <2>1 DEF Containers
  <2>5. kids + 1 = 2 * n /\ kids + 1 <= 2 * F
    BY <1>1, <1>2, <1>6, <2>3
  <2>6. OneMore(c).object = TRUE /\ OneMore(c).expectKey = TRUE /\ OneMore(c).count = n
    BY <2>1
  <2>7. CellOK(OneMore(c), kind, kids + 1)
    BY <1>6, <2>4, <2>5, <2>6 DEF CellOK
  <2> QED BY <1>8, <1>6, <2>2, <2>5, <2>7 DEF F, A
<1>7. CASE IsArray(kind) /\ c.object = FALSE /\ kids = n
  <2>1. OneMore(c) = [object |-> FALSE, count |-> n + 1, expectKey |-> c.expectKey]
    BY <1>7 DEF OneMore
  <2>2. Full(c) <=> n >= A
    BY <1>7 DEF Full
  <2> HIDE DEF n, F, A
  <2>3. OneMore(c) \in Containers
    BY <1>2, <1>4, <2>1 DEF Containers
  <2>4. ~(n >= A) <=> kids + 1 <= A
    BY <1>1, <1>2, <1>7
  <2>5. OneMore(c).object = FALSE /\ OneMore(c).count = n + 1
    BY <2>1
  <2>6. CellOK(OneMore(c), kind, kids + 1)
    BY <1>7, <2>3, <2>5 DEF CellOK
  <2> QED BY <1>8, <1>7, <2>2, <2>4, <2>6 DEF F, A
<1> QED BY <1>3, <1>5, <1>6, <1>7

\* The stack follows the text, and the pass refuses as soon as a limit is broken.
LEMMA PassNext ==
    ASSUME NEW S, NEW t \in Seq(S), NEW tok \in S, NEW o, OpensOK(o, t), Legal(t, tok),
           NEW s, PassOK(s, o, t)
    PROVE  PassOK(LimitStep(s, tok), NextOpens(o, tok, Len(t) + 1), Append(t, tok))
<1> DEFINE u == Append(t, tok)
           n == Len(t)
           l == Len(o)
           p == o[l]
           q == NextOpens(o, tok, n + 1)
           next == LimitStep(s, tok)
           D == maxManifestNestingDepth
           stack == s.stack
<1> SUFFICES PassOK(next, q, u)
  OBVIOUS
<1>1. /\ n \in Nat /\ u \in Seq(S) /\ Len(u) = n + 1 /\ u[n + 1] = tok /\ u # << >>
  OBVIOUS
<1>2. /\ o \in Seq(1..n) /\ l = Depth(t, n + 1) /\ l \in Nat
  BY DEF OpensOK
<1>3. Parent(t, n + 1) = IF o = << >> THEN 0 ELSE p
  BY OpenParent DEF Innermost
<1>4. /\ tok.kind \in Closers => o # << >>
      /\ o # << >> => p \in 1..n /\ t[p].kind \in Openers
  BY LegalNext
<1>5. SoFar(u) <=>
        /\ SoFar(t) /\ ~LongString(tok)
        /\ tok.kind \in Openers => l < D
        /\ tok.kind \notin Closers /\ o # << >> => Room(t, p)
  <2>1. SoFar(u) <=>
          /\ SoFar(t) /\ ~LongString(tok)
          /\ tok.kind \in Openers => Depth(t, n + 1) < D
          /\ tok.kind \notin Closers /\ Parent(t, n + 1) # 0 => Room(t, Parent(t, n + 1))
    BY SoFarNext
  <2>2. o # << >> => p # 0
    <3>1. \A x \in 1..n : x # 0
      BY <1>1
    <3> QED BY <1>4, <3>1
  <2> HIDE DEF u, n, p, l, Openers, Closers
  <2>3. CASE o = << >>
    BY <1>2, <1>3, <2>1, <2>3
  <2>4. CASE o # << >>
    BY <1>2, <1>3, <2>1, <2>2, <2>4
  <2> QED BY <2>3, <2>4
<1>6. CASE s.ok = FALSE /\ ~SoFar(t)
  <2>1. next = s
    BY <1>6 DEF LimitStep
  <2>2. ~SoFar(u)
    BY <1>5, <1>6
  <2> QED BY <1>6, <2>1, <2>2 DEF PassOK
<1>7. CASE s = [ok |-> TRUE, stack |-> stack] /\ SoFar(t) /\ StackOK(stack, o, t)
  <2> DEFINE bad == LongString(tok) \/ (stack # << >> /\ Full(stack[Len(stack)]))
             kept == Counted(stack)
  <2>1. s = Good(stack)
    BY <1>7 DEF Good
  <2>2. stack \in Seq(Containers) /\ Len(stack) = l
    BY <1>7 DEF StackOK
  <2>3. /\ tok.kind \in Closers => next = Good(Front(stack))
        /\ tok.kind \notin Closers /\ bad => next.ok = FALSE
        /\ tok.kind \notin Closers /\ ~bad /\ AtKey(stack) => next = Good(kept)
        /\ tok.kind \notin Closers \cup Openers /\ ~bad => next = Good(kept)
        /\ tok.kind \in Openers /\ ~bad /\ ~AtKey(stack) =>
             IF l < D THEN next = Good(Push(kept, tok)) ELSE next.ok = FALSE
    <3>1. LimitStep(s, tok) = LimitStep(Good(stack), tok)
      BY <2>1
    <3> QED BY <2>2, <3>1, StepMeaning
  <2>4. stack = << >> <=> o = << >>
    BY <1>2, <2>2
  <2>5. ~(tok.kind \in Openers /\ tok.kind \in Closers)
    BY DEF Openers, Closers
  <2>6. ASSUME next.ok = FALSE, ~SoFar(u) PROVE PassOK(next, q, u)
    BY <2>6 DEF PassOK
  <2>7. ASSUME NEW x, next = Good(x), SoFar(u), StackOK(x, q, u) PROVE PassOK(next, q, u)
    <3>1. next.stack = x
      BY <2>7 DEF Good
    <3>2. next = [ok |-> TRUE, stack |-> next.stack]
      BY <2>7, <3>1, Zenon DEF Good
    <3> QED BY <2>7, <3>1, <3>2, Zenon DEF PassOK
  <2> HIDE DEF next, q, u
  <2>8. CASE tok.kind \in Closers
    <3>1. StackOK(Front(stack), q, u)
      BY <1>4, <1>7, <2>8, CellRemoved DEF q, u
    <3>2. SoFar(u)
      <4>1. ~LongString(tok)
        BY <2>8 DEF LongString, Closers
      <4> QED BY <1>5, <1>7, <2>5, <2>8, <4>1
    <3> QED BY <2>3, <2>7, <2>8, <3>1, <3>2
  <2>9. CASE tok.kind \notin Closers
    <3> HIDE DEF D, l, p
    <3>1. o # << >> => /\ CellOK(stack[l], t[p].kind, Kids(t, p)) /\ Kids(t, p) \in Nat
                       /\ CellOK(OneMore(stack[l]), t[p].kind, Kids(t, p) + 1)
                       /\ ~Full(stack[l]) <=> Room(t, p)
                       /\ AtKey(stack) => tok.kind = "string"
      <4>1. SUFFICES ASSUME o # << >>
                     PROVE  /\ CellOK(stack[l], t[p].kind, Kids(t, p)) /\ Kids(t, p) \in Nat
                            /\ CellOK(OneMore(stack[l]), t[p].kind, Kids(t, p) + 1)
                            /\ ~Full(stack[l]) <=> Room(t, p)
                            /\ AtKey(stack) => tok.kind = "string"
        OBVIOUS
      <4>2. l \in 1..l
        BY <1>2, <4>1 DEF l
      <4>3. CellOK(stack[l], t[p].kind, Kids(t, p))
        BY <1>7, <4>2 DEF StackOK, l, p
      <4>4. Kids(t, p) \in Nat
        BY KidsNext
      <4>5. IsObject(t[p].kind) => Kids(t, p) <= 2 * maxManifestObjectFields
        <5>1. p \in DOMAIN t
          <6>1. DOMAIN t = 1..n
            OBVIOUS
          <6> QED BY <1>4, <4>1, <6>1
        <5> QED BY <1>7, <5>1, Zenon DEF SoFar, IsObject
      <4>6. /\ CellOK(OneMore(stack[l]), t[p].kind, Kids(t, p) + 1)
            /\ ~Full(stack[l]) <=>
                 /\ IsObject(t[p].kind) => Kids(t, p) + 1 <= 2 * maxManifestObjectFields
                 /\ IsArray(t[p].kind) => Kids(t, p) + 1 <= maxManifestArrayItems
            /\ stack[l].object = TRUE /\ stack[l].expectKey = TRUE
               => IsObject(t[p].kind) /\ Kids(t, p) % 2 = 0
        BY <4>3, <4>4, <4>5, OneMoreOK
      <4>7. ~Full(stack[l]) <=> Room(t, p)
        BY <4>6, Zenon DEF Room, IsObject, IsArray
      <4>8. ASSUME AtKey(stack) PROVE tok.kind = "string"
        <5>1. IsObject(t[p].kind) /\ Kids(t, p) % 2 = 0
          BY <2>2, <4>6, <4>8 DEF AtKey
        <5>2. p \in 1..Len(t) /\ Parent(t, Len(t) + 1) = p
          BY <1>3, <1>4, <4>1
        <5> QED BY <2>9, <5>1, <5>2, KeyNext
      <4> QED BY <4>3, <4>4, <4>6, <4>7, <4>8
    <3>2. StackOK(kept, o, u)
      <4>1. CASE o = << >>
        <5>1. kept = << >>
          BY <2>4, <4>1 DEF Counted
        <5> QED BY <4>1, <5>1 DEF StackOK
      <4>2. CASE o # << >>
        <5>1. kept = [stack EXCEPT ![l] = OneMore(stack[l])]
          BY <2>2, <2>4, <4>2 DEF Counted
        <5> DEFINE more == OneMore(stack[l])
        <5>2. CellOK(more, t[o[Len(o)]].kind, Kids(t, o[Len(o)]) + 1)
          BY <3>1, <4>2 DEF l, p
        <5> HIDE DEF more, kept
        <5>3. StackOK([stack EXCEPT ![Len(o)] = more], o, u)
          BY <1>7, <2>9, <4>2, <5>2, CellReplaced DEF u
        <5> QED BY <5>1, <5>3 DEF l, more
      <4> QED BY <4>1, <4>2
    <3>3. bad <=> LongString(tok) \/ (o # << >> /\ ~Room(t, p))
      BY <2>2, <2>4, <3>1
    <3> HIDE DEF bad, kept
    <3>4. SoFar(u) <=> ~bad /\ (tok.kind \in Openers => l < D)
      BY <1>5, <1>7, <2>9, <3>3
    <3>5. AtKey(stack) => tok.kind \notin Openers
      <4>1. AtKey(stack) => o # << >>
        BY <2>4 DEF AtKey
      <4> QED BY <3>1, <4>1 DEF Openers
    <3>6. CASE bad
      BY <2>3, <2>6, <2>9, <3>4, <3>6
    <3>7. CASE ~bad /\ tok.kind \notin Openers
      <4>1. next = Good(kept)
        BY <2>3, <2>9, <3>7
      <4>2. q = o
        BY <2>9, <3>7 DEF NextOpens, q
      <4>3. SoFar(u)
        BY <3>4, <3>7
      <4> QED BY <2>7, <3>2, <4>1, <4>2, <4>3
    <3>8. CASE ~bad /\ tok.kind \in Openers
      <4>1. IF l < D THEN next = Good(Push(kept, tok)) ELSE next.ok = FALSE
        BY <2>3, <3>5, <3>8
      <4>2. SoFar(u) <=> l < D
        BY <3>4, <3>8
      <4>3. CASE ~(l < D)
        BY <2>6, <4>1, <4>2, <4>3
      <4>4. CASE l < D
        <5>1. q = Append(o, n + 1)
          BY <3>8 DEF NextOpens, q
        <5>2. o \in Seq(1..(n + 1))
          <6>1. 1..n \subseteq 1..(n + 1)
            BY <1>1
          <6> QED BY <1>2, <6>1, SeqWider
        <5>3. StackOK(Push(kept, u[Len(u)]), Append(o, Len(u)), u)
          BY <1>1, <3>2, <3>8, <5>2, CellPushed
        <5>4. StackOK(Push(kept, tok), q, u)
          BY <1>1, <5>1, <5>3
        <5> QED BY <2>7, <4>1, <4>2, <4>4, <5>4
      <4> QED BY <4>3, <4>4
    <3> QED BY <3>6, <3>7, <3>8
  <2> QED BY <2>8, <2>9
<1> QED BY <1>6, <1>7 DEF PassOK

----------------------------------------------------------------------------
(***************************************************************************)
(* AELLimits: the whole pass.                                              *)
(***************************************************************************)
IsPass(f, t) ==
    f = [n \in 0..Len(t) |-> IF n = 0 THEN Good(<< >>) ELSE LimitStep(f[n - 1], t[n])]

\* The pass over t is defined, and tells whether the limits are kept so far.
PassTells(t) ==
    /\ \E f : IsPass(f, t)
    /\ \E o : OpensOK(o, t) /\ \A f : IsPass(f, t) => PassOK(f[Len(t)], o, t)

LEMMA PassEmpty == PassTells(<< >>)
<1> DEFINE t == << >>
           f == [n \in 0..0 |-> Good(<< >>)]
<1>1. Len(t) = 0 /\ DOMAIN t = {} /\ \A n \in 0..0 : n = 0
  OBVIOUS
<1>2. IsPass(f, t)
  BY <1>1 DEF IsPass
<1>3. OpensOK(<< >>, t)
  <2>1. Depth(t, 0 + 1) = 0
    BY DepthNext
  <2> HIDE DEF t
  <2> QED BY <1>1, <2>1 DEF OpensOK
<1>4. ASSUME NEW g, IsPass(g, t) PROVE PassOK(g[Len(t)], << >>, t)
  <2>1. g[Len(t)] = Good(<< >>)
    BY <1>1, <1>4 DEF IsPass
  <2>2. SoFar(t)
    BY <1>1 DEF SoFar
  <2>3. StackOK(<< >>, << >>, t)
    BY DEF StackOK
  <2>4. Good(<< >>) = [ok |-> TRUE, stack |-> Good(<< >>).stack] /\ Good(<< >>).stack = << >>
    BY DEF Good
  <2> QED BY <2>1, <2>2, <2>3, <2>4 DEF PassOK
<1> QED BY <1>2, <1>3, <1>4 DEF PassTells

LEMMA PassValues ==
    ASSUME NEW t, Len(t) \in Nat, NEW f, IsPass(f, t)
    PROVE  /\ DOMAIN f = 0..Len(t)
           /\ \A n \in 0..Len(t) : f[n] = IF n = 0 THEN Good(<< >>) ELSE LimitStep(f[n - 1], t[n])
  BY DEF IsPass

LEMMA PassGrows ==
    ASSUME NEW S, NEW t \in Seq(S), NEW tok \in S, Legal(t, tok), PassTells(t)
    PROVE  PassTells(Append(t, tok))
<1> DEFINE u == Append(t, tok)
           n == Len(t)
<1>1. /\ n \in Nat /\ Len(u) = n + 1 /\ u[n + 1] = tok
      /\ \A i \in 1..n : u[i] = t[i]
  OBVIOUS
<1> SUFFICES PassTells(u)
  OBVIOUS
<1>2. PICK f : IsPass(f, t)
  BY DEF PassTells
<1>3. PICK o : OpensOK(o, t) /\ \A g : IsPass(g, t) => PassOK(g[n], o, t)
  BY DEF PassTells
<1>4. tok.kind \in Closers => o # << >>
  BY <1>3, LegalNext
<1>5. OpensOK(NextOpens(o, tok, n + 1), u)
  BY <1>3, <1>4, OpensNext
<1>6. ASSUME NEW s, PassOK(s, o, t) PROVE PassOK(LimitStep(s, tok), NextOpens(o, tok, n + 1), u)
  BY <1>3, <1>6, PassNext
<1> HIDE DEF u, n
<1>7. \E g : IsPass(g, u)
  <2> DEFINE g == [k \in 0..(n + 1) |-> IF k = n + 1 THEN LimitStep(f[n], tok) ELSE f[k]]
  <2>1. ASSUME NEW k \in 0..(n + 1)
        PROVE  g[k] = IF k = 0 THEN Good(<< >>) ELSE LimitStep(g[k - 1], u[k])
    <3>1. CASE k = n + 1
      <4>1. g[k - 1] = f[n] /\ k # 0
        BY <1>1, <3>1
      <4> QED BY <1>1, <3>1, <4>1
    <3>2. CASE k # n + 1
      <4>1. k \in 0..n /\ g[k] = f[k]
        BY <1>1, <3>2
      <4>2. k # 0 => k - 1 \in 0..(n + 1) /\ k - 1 # n + 1 /\ k \in 1..n
        BY <1>1, <4>1
      <4>3. k # 0 => g[k - 1] = f[k - 1] /\ u[k] = t[k]
        BY <1>1, <4>2
      <4>4. f[k] = IF k = 0 THEN Good(<< >>) ELSE LimitStep(f[k - 1], t[k])
        BY <1>1, <1>2, <4>1, PassValues DEF n
      <4> HIDE DEF g
      <4> QED BY <4>1, <4>3, <4>4
    <3> QED BY <3>1, <3>2
  <2>2. g = [k \in 0..(n + 1) |-> g[k]]
    OBVIOUS
  <2> HIDE DEF g
  <2>3. g = [k \in 0..(n + 1) |-> IF k = 0 THEN Good(<< >>) ELSE LimitStep(g[k - 1], u[k])]
    BY <2>1, <2>2
  <2>4. IsPass(g, u)
    BY <1>1, <2>3, Zenon DEF IsPass
  <2> QED BY <2>4
<1>8. ASSUME NEW g, IsPass(g, u) PROVE PassOK(g[n + 1], NextOpens(o, tok, n + 1), u)
  <2> DEFINE h == [k \in 0..n |-> g[k]]
  <2>1. \A k \in 0..(n + 1) : g[k] = IF k = 0 THEN Good(<< >>) ELSE LimitStep(g[k - 1], u[k])
    BY <1>1, <1>8, PassValues
  <2>2. ASSUME NEW k \in 0..n
        PROVE  h[k] = IF k = 0 THEN Good(<< >>) ELSE LimitStep(h[k - 1], t[k])
    <3>1. g[k] = IF k = 0 THEN Good(<< >>) ELSE LimitStep(g[k - 1], u[k])
      BY <1>1, <2>1
    <3>2. k # 0 => k - 1 \in 0..n /\ k \in 1..n
      BY <1>1
    <3>3. h[k] = g[k] /\ (k # 0 => h[k - 1] = g[k - 1] /\ u[k] = t[k])
      BY <1>1, <3>2
    <3> HIDE DEF h
    <3> QED BY <3>1, <3>3
  <2>3. h[n] = g[n] /\ h = [k \in 0..n |-> h[k]]
    BY <1>1
  <2> HIDE DEF h
  <2>4. IsPass(h, t)
    <3>1. h = [k \in 0..n |-> IF k = 0 THEN Good(<< >>) ELSE LimitStep(h[k - 1], t[k])]
      BY <2>2, <2>3
    <3> QED BY <3>1, Zenon DEF IsPass, n
  <2>5. PassOK(g[n], o, t)
    BY <1>3, <2>3, <2>4
  <2>6. g[n + 1] = LimitStep(g[n], tok)
    <3>1. n + 1 \in 0..(n + 1) /\ n + 1 # 0 /\ (n + 1) - 1 = n
      BY <1>1
    <3> QED BY <1>1, <2>1, <3>1
  <2> QED BY <1>6, <2>5, <2>6
<1>9. \E q : OpensOK(q, u) /\ \A g : IsPass(g, u) => PassOK(g[Len(u)], q, u)
  BY <1>1, <1>5, <1>8
<1> QED BY <1>7, <1>9 DEF PassTells

LEMMA PassFound ==
    ASSUME NEW t, PassTells(t)
    PROVE  \E o : OpensOK(o, t) /\ PassOK(Pass(t), o, t)
<1> DEFINE after == CHOOSE f : IsPass(f, t)
<1>1. IsPass(after, t)
  BY Zenon DEF PassTells
<1>2. Pass(t) = after[Len(t)]
  BY Zenon DEF Pass, IsPass, Good
<1> HIDE DEF after
<1>3. PICK o : OpensOK(o, t) /\ \A f : IsPass(f, t) => PassOK(f[Len(t)], o, t)
  BY DEF PassTells
<1> QED BY <1>1, <1>2, <1>3

----------------------------------------------------------------------------
(***************************************************************************)
(* AELLimits: LimitsExact.                                                 *)
(***************************************************************************)
LimitTokens == Keys \cup Scalars \cup {Token(kind) : kind \in Openers \cup Closers}

LimitsInv ==
    /\ text \in Seq(LimitTokens)
    /\ PassTells(text)
    /\ ending = "open" => within = << >>
    /\ within # << >> => within = <<validateManifestResourceLimits(text, ending)>>

LEMMA LimitsStart == LimitsInit => LimitsInv
<1> SUFFICES ASSUME LimitsInit PROVE LimitsInv
  OBVIOUS
<1>1. text = << >> /\ within = << >>
  BY DEF LimitsInit
<1>2. << >> \in Seq(LimitTokens)
  OBVIOUS
<1>3. PassTells(text)
  BY <1>1, PassEmpty
<1> QED BY <1>1, <1>2, <1>3 DEF LimitsInv

LEMMA LimitsKept == LimitsInv /\ [LimitsNext]_limitsVars => LimitsInv'
<1> SUFFICES ASSUME LimitsInv, [LimitsNext]_limitsVars PROVE LimitsInv'
  OBVIOUS
<1>1. CASE \E tok \in WrittenNext(text) : Write(tok)
  <2>1. PICK tok \in WrittenNext(text) : Write(tok)
    BY <1>1
  <2>2. tok \in LimitTokens
    BY DEF WrittenNext, LimitTokens, Closers
  <2>3. ending = "open" /\ Legal(text, tok) /\ text' = Append(text, tok)
        /\ ending' = ending /\ within' = within
    BY <2>1 DEF Write
  <2>4. text' \in Seq(LimitTokens) /\ PassTells(text')
    <3>1. text \in Seq(LimitTokens) /\ PassTells(text)
      BY DEF LimitsInv
    <3> HIDE DEF LimitTokens
    <3>2. PassTells(Append(text, tok))
      BY <2>2, <2>3, <3>1, PassGrows
    <3>3. Append(text, tok) \in Seq(LimitTokens)
      BY <2>2, <3>1
    <3> QED BY <2>3, <3>2, <3>3
  <2>5. within' = << >>
    BY <2>3 DEF LimitsInv
  <2> QED BY <2>3, <2>4, <2>5 DEF LimitsInv
<1>2. CASE \E how \in Endings : Limit(how)
  <2>1. PICK how \in Endings : Limit(how)
    BY <1>2
  <2>2. /\ text' = text /\ ending' = how /\ how # "open"
        /\ within' = <<validateManifestResourceLimits(text, how)>>
    BY <2>1 DEF Limit, Endings
  <2> QED BY <2>2 DEF LimitsInv
<1>3. CASE UNCHANGED limitsVars
  BY <1>3 DEF LimitsInv, limitsVars
<1> QED BY <1>1, <1>2, <1>3 DEF LimitsNext

LEMMA LimitsInvariant == LimitsSpec => []LimitsInv
<1> QED BY LimitsStart, LimitsKept, PTL DEF LimitsSpec

\* The verdict of the pass is WithinLimits.
LEMMA PassVerdict == LimitsInv => LimitsExact
<1> SUFFICES ASSUME LimitsInv, within # << >> PROVE within[1] <=> WithinLimits
  BY DEF LimitsExact
<1>1. within = <<validateManifestResourceLimits(text, ending)>> /\ PassTells(text)
  BY DEF LimitsInv
<1>2. within[1] = validateManifestResourceLimits(text, ending)
  BY <1>1
<1>3. PICK o : OpensOK(o, text) /\ PassOK(Pass(text), o, text)
  BY <1>1, PassFound
<1>4. Len(o) = Depth(text, Len(text) + 1) /\ Len(o) \in Nat
  BY <1>3 DEF OpensOK
<1>5. WithinLimits <=> ending = "clean" /\ Closed /\ SoFar(text)
  BY Zenon DEF WithinLimits, SoFar, Kids, Size, Positions
<1>6. validateManifestResourceLimits(text, ending) <=>
        ending = "clean" /\ Pass(text).ok /\ Pass(text).stack = << >>
  BY DEF validateManifestResourceLimits
<1>7. CASE Pass(text).ok = FALSE /\ ~SoFar(text)
  BY <1>2, <1>5, <1>6, <1>7
<1>8. CASE /\ Pass(text) = [ok |-> TRUE, stack |-> Pass(text).stack]
           /\ SoFar(text) /\ StackOK(Pass(text).stack, o, text)
  <2>1. Pass(text).ok = TRUE
    BY <1>8
  <2>2. Pass(text).stack = << >> <=> Len(o) = 0
    BY <1>8 DEF StackOK
  <2>3. Closed <=> Len(o) = 0
    BY <1>4 DEF Closed
  <2> QED BY <1>2, <1>5, <1>6, <1>8, <2>1, <2>2, <2>3
<1> QED BY <1>3, <1>7, <1>8 DEF PassOK

\* A JSON manifest is accepted exactly when it is closed, well formed and
\* every container in it, at whatever depth and after whatever siblings, keeps
\* the limits on fields, items, nesting and string bytes: for any limits and
\* any text, however long, the one pass with its stack of counters misses no
\* container and refuses none that keeps them (validateManifestResourceLimits,
\* schema.go 362-436).
THEOREM LimitsExactHolds == LimitsSpec => []LimitsExact
<1> QED BY LimitsInvariant, PassVerdict, PTL
=============================================================================
