------------------------------- MODULE AELGov -------------------------------
(***************************************************************************)
(* The governability report (checker/internal/ael/gov.go): the activity    *)
(* records of all recorders of a run are folded, in the order of the logs, *)
(* into one finding per event id, and the findings decide whether the      *)
(* operator's correspondence set covers what it must.                      *)
(*                                                                         *)
(* An activity record is [id, class, verified, valid, policy, declared]:   *)
(* the event's id and class (Unnamed where they cannot be recovered, and   *)
(* where they are recorded as the empty string, which the schema allows),  *)
(* whether signature and canonical form verify, whether the schema does,   *)
(* the outcome of looking the class up in the referenced policy ("none",   *)
(* "bad", "silent", or the value found), and the class the agent declared. *)
(*                                                                         *)
(* The report is its coverage part.  GovRun.Events, the list of findings   *)
(* in the order of the logs, and the notes are left out.                   *)
(***************************************************************************)
EXTENDS Integers, SequencesExt

CONSTANTS
    RecordKinds,        \* the activity records that recorders may write
    Correspondence,     \* the operator-declared event classes; {} for none
    MaxLog              \* bound on the number of records

ASSUME MaxLogAssumption == MaxLog \in Nat

VARIABLES
    log,        \* the records of the run, recorder by recorder
    report      \* << >>, or <<the coverage report>>

vars == <<log, report>>

Unnamed == ""   \* an id or a class that is empty, or cannot be recovered

----------------------------------------------------------------------------
(***************************************************************************)
(* Classification of one record.                                           *)
(***************************************************************************)
vocabulary == <<"read-only", "reversible", "external-reversible", "irreversible">>
revOrder(class) == CHOOSE i \in DOMAIN vocabulary : vocabulary[i] = class
Known(class) == class \in Range(vocabulary)
normalizeClass(class) == IF Known(class) THEN class ELSE "irreversible"

Finding(rec, status, class) ==
    [id |-> rec.id, eventClass |-> rec.class, status |-> status, class |-> class]

classifyEvent(rec) ==
    IF ~rec.valid THEN Finding(rec, "UNASSESSABLE", "irreversible")
    ELSE IF rec.policy = "none" THEN
      IF rec.declared = "none" THEN Finding(rec, "UNCLASSIFIED", "irreversible")
      ELSE Finding(rec, "DECLARED", normalizeClass(rec.declared))
    ELSE IF rec.policy = "silent" THEN Finding(rec, "POLICY-SILENT", "irreversible")
    ELSE IF Known(rec.policy) THEN Finding(rec, "POLICY-BOUND", rec.policy)
    ELSE Finding(rec, "POLICY-INVALID", "irreversible")

----------------------------------------------------------------------------
(***************************************************************************)
(* Merging the findings of one event id.                                   *)
(***************************************************************************)
statusRank(status) ==
    IF status = "POLICY-BOUND" THEN 2 ELSE IF status = "DECLARED" THEN 1 ELSE 0

\* Mutant: the strongest provenance first, then the most severe class.
mergeEventByRank(a, b) ==
    IF \/ statusRank(b.status) > statusRank(a.status)
       \/ /\ statusRank(b.status) = statusRank(a.status)
          /\ revOrder(b.class) > revOrder(a.class)
    THEN b ELSE a

\* The most severe class first, then the strongest provenance, then the earlier.
mergeEvent(a, b) ==
    IF \/ revOrder(b.class) > revOrder(a.class)
       \/ /\ revOrder(b.class) = revOrder(a.class)
          /\ statusRank(b.status) > statusRank(a.status)
    THEN b ELSE a

\* Mutant: the event class of the first record is kept, not the union.
accumulateFirstClass(acc, ev) ==
    IF ev.id \notin DOMAIN acc
    THEN [i \in DOMAIN acc \cup {ev.id} |->
             IF i # ev.id THEN acc[i]
             ELSE [primary |-> ev, classes |-> {ev.eventClass} \ {Unnamed}, conflict |-> FALSE,
                   unassessable |-> ev.status = "UNASSESSABLE"]]
    ELSE [acc EXCEPT ![ev.id].primary = mergeEvent(@, ev),
                     ![ev.id].unassessable = @ \/ ev.status = "UNASSESSABLE"]

accumulate(acc, ev) ==
    LET classes == {ev.eventClass} \ {Unnamed}
    IN  IF ev.id \notin DOMAIN acc
        THEN [i \in DOMAIN acc \cup {ev.id} |->
                 IF i # ev.id THEN acc[i]
                 ELSE [primary |-> ev, classes |-> classes, conflict |-> FALSE,
                       unassessable |-> ev.status = "UNASSESSABLE"]]
        ELSE LET old == acc[ev.id]
             IN  [acc EXCEPT ![ev.id] =
                    [primary |-> mergeEvent(old.primary, ev),
                     classes |-> old.classes \cup classes,
                     conflict |-> \/ old.conflict
                                  \/ old.classes # {} /\ ~(classes \subseteq old.classes),
                     unassessable |-> old.unassessable \/ ev.status = "UNASSESSABLE"]]

\* Records that do not verify are left to the grade.
account(acc, rec) == IF rec.verified THEN accumulate(acc, classifyEvent(rec)) ELSE acc

\* The loop of governRun: what is known of each event id after n records.
Accounts(records) ==
    LET after[n \in 0..Len(records)] ==
          IF n = 0 THEN << >> ELSE account(after[n - 1], records[n])
    IN  after

Accumulated(records) == Accounts(records)[Len(records)]

finalizeEvent(a) ==
    IF a.unassessable
    THEN [a.primary EXCEPT !.status = "UNASSESSABLE", !.class = "irreversible"]
    ELSE a.primary

----------------------------------------------------------------------------
(***************************************************************************)
(* Coverage of a run.                                                      *)
(***************************************************************************)
classRecoverable(ev) == ev.id # Unnamed /\ ev.eventClass # Unnamed

Lowered(ev) == ev.status = "POLICY-BOUND" /\ ev.class # "irreversible"

coverage(records) ==
    LET acc == Accumulated(records)
        anomalies == {i \in DOMAIN acc : acc[i].conflict}
        gaps == {i \in DOMAIN acc : /\ ~Lowered(finalizeEvent(acc[i]))
                                    /\ ~(acc[i].classes \subseteq Correspondence)}
        lost == \E i \in DOMAIN acc : LET ev == finalizeEvent(acc[i])
                                      IN  ev.status = "UNASSESSABLE" /\ ~classRecoverable(ev)
        status == IF lost THEN "UNASSESSABLE"
                  ELSE IF Correspondence = {} THEN "N/A"
                  ELSE IF gaps = {} THEN "OK" ELSE "GAP"
    IN  [status |-> status, anomalies |-> anomalies,
         gaps |-> IF status = "GAP" THEN gaps ELSE {}]

----------------------------------------------------------------------------
Init == log = << >> /\ report = << >>

Record(rec) ==
    /\ report = << >> /\ Len(log) < MaxLog
    /\ log' = Append(log, rec)
    /\ UNCHANGED report

Govern ==
    /\ report = << >>
    /\ report' = <<coverage(log)>>
    /\ UNCHANGED log

Next == (\E rec \in RecordKinds : Record(rec)) \/ Govern

Spec == Init /\ [][Next]_vars

----------------------------------------------------------------------------
(***************************************************************************)
(* Properties.                                                             *)
(***************************************************************************)
Verified == {i \in DOMAIN log : log[i].verified}
Reported == report # << >>

Severe(rec) == classifyEvent(rec).class = "irreversible"

\* The record gives its event a class, which is not in the correspondence set.
Outside(rec) == rec.class \notin Correspondence \cup {Unnamed}

(***************************************************************************)
(* No run is reported OK when an event that some recorder shows to be      *)
(* irreversible, or whose class nobody established, was given a class      *)
(* outside the correspondence set by any recorder, however mildly the      *)
(* others report the event; and a gap is always an event that was given    *)
(* such a class.  (mergeEvent and coverage, gov.go 375-447.)               *)
(*                                                                         *)
(* An event that every recorder leaves without a class, event.class "", is *)
(* therefore never a gap, irreversible or not: accumulate and coverage     *)
(* pass over it (gov.go 182 and 441), although the schema lets it by       *)
(* (schema.go 322) and docs/GOVERNABILITY-EXTENSION.md:97 wants the class  *)
(* of every event that is not lowered to be in the set.                    *)
(***************************************************************************)
WorstCaseKept ==
    Reported =>
        /\ report[1].status = "OK" =>
              \A i, j \in Verified :
                  Severe(log[i]) /\ log[j].id = log[i].id => ~Outside(log[j])
        /\ \A id \in report[1].gaps :
              \E j \in Verified : log[j].id = id /\ Outside(log[j])

(***************************************************************************)
(* When every class was recovered, the report does not depend on the order *)
(* of recorders and records.  (accumulate, gov.go 178-196.)                *)
(***************************************************************************)
OrderFree ==
    Reported /\ (\A i \in Verified : classRecoverable(classifyEvent(log[i]))) =>
        \A p \in {f \in [DOMAIN log -> DOMAIN log] : IsInjective(f)} :
            coverage([i \in DOMAIN log |-> log[p[i]]]) = report[1]

(***************************************************************************)
(* "If any event's class could not be recovered, the run's coverage is     *)
(* UNASSESSABLE, a failing state that is never OK or N/A" (gov.go 401-402).*)
(***************************************************************************)
UnrecoveredUnassessable ==
    Reported /\ (\E i \in Verified : ~log[i].valid /\ log[i].class = Unnamed) =>
        report[1].status = "UNASSESSABLE"
=============================================================================
