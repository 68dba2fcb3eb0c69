------------------------------ MODULE AELCorpus ------------------------------
(***************************************************************************)
(* The conformance corpus run and its evidence: generate and reportCases   *)
(* of checker/cmd/aelgen/main.go, run by runConformance of checker/        *)
(* internal/ael/emit.go, which packages what the run printed and its exit  *)
(* status.                                                                 *)
(*                                                                         *)
(* A case is [runs, expect, loads]: what evaluating it yields (run to      *)
(* result), what its author expects of which run, and whether its files    *)
(* load.  A result stands for grade, suffix and outcomes; an expectation   *)
(* [id, accepts] for the set of results it is content with, id being       *)
(* OnlyRun for the only run of the case.                                   *)
(***************************************************************************)
EXTENDS Integers, SequencesExt

CONSTANTS
    RunIds, Results,
    MaxCases        \* bound on the number of cases

\* The id of an expectation that names no run.
OnlyRun == ""

ASSUME CorpusAssumption == MaxCases \in Nat /\ IsFiniteSet(RunIds) /\ OnlyRun \notin RunIds

VARIABLES
    cases,      \* the cases of buildCases
    asked,      \* "none", "human" or "json": the --report and --json flags
    entries,    \* CorpusReport.Cases: for each case reported, whether it matched
    stdout,     \* whether the run has printed, and the cases it has printed so far
    status,     \* Generating, Reporting or the exit status
    packaged    \* Pending, Unpackaged or the [exit, result] of runConformance

corpusVars == <<cases, asked, entries, stdout, status, packaged>>

exitCorpusMismatch == 3
Generating == -2
Reporting == -1
Silent == [printed |-> FALSE, lines |-> << >>]
Pending == [exit |-> Generating, result |-> Silent]
Unpackaged == [exit |-> Reporting, result |-> Silent]

----------------------------------------------------------------------------
(***************************************************************************)
(* Comparing a case with what is expected of it.                           *)
(***************************************************************************)
compareExpected(case) ==
    /\ Cardinality(DOMAIN case.runs) = Len(case.expect)
    /\ \A i \in DOMAIN case.expect :
         LET e == case.expect[i]
             named == {run \in DOMAIN case.runs :
                         run = e.id \/ (e.id = OnlyRun /\ Cardinality(DOMAIN case.runs) = 1)}
         IN  \E run \in named : case.runs[run] \in e.accepts

\* Mutant: the verdict is printed and the run succeeds either way.
ExitStatusPrinted(reported) == 0

\* CorpusReport.ExitStatus, through statusForGenerateError.
ExitStatus(reported) ==
    IF FALSE \in ToSet(reported) THEN exitCorpusMismatch ELSE 0

----------------------------------------------------------------------------
(***************************************************************************)
(* The run.  A write may fail, and a case may fail to be written or read.  *)
(***************************************************************************)
\* One result is as good as another to expect.
Wanted == {CHOOSE result \in Results : TRUE}
Expectations ==
    {<<[id |-> OnlyRun, accepts |-> accepts]>> : accepts \in {Wanted, Results}}
    \cup {[i \in DOMAIN ids |-> [id |-> ids[i], accepts |-> Wanted]] :
            ids \in {s \in BoundedSeq(RunIds, Cardinality(RunIds)) :
                        s # << >> /\ IsInjective(s)}}

CaseSpace ==
    [runs : UNION {[set -> Results] : set \in SUBSET RunIds}, expect : Expectations,
     loads : {TRUE}]
    \cup [runs : {<< >>}, expect : {<<[id |-> OnlyRun, accepts |-> Results]>>}, loads : {FALSE}]

CorpusInit ==
    /\ cases \in BoundedSeq(CaseSpace, MaxCases)
    /\ asked \in {"none", "human", "json"}
    /\ entries = << >> /\ stdout = Silent /\ status = Generating /\ packaged = Pending

Generate ==
    /\ status = Generating
    /\ status' \in {1, IF asked = "none" THEN 0 ELSE Reporting}
    /\ UNCHANGED <<cases, asked, entries, stdout, packaged>>

\* One case of reportCases; the human report has a line for it.
ReportCase ==
    /\ status = Reporting /\ Len(entries) < Len(cases)
    /\ LET case == cases[Len(entries) + 1]
           ok == compareExpected(case)
           line == [case |-> Len(entries) + 1, ok |-> ok]
       IN  \/ ~case.loads /\ status' = 1 /\ UNCHANGED <<entries, stdout>>
           \/ /\ case.loads /\ entries' = Append(entries, ok)
              /\ \/ /\ stdout' = IF asked = "human"
                                 THEN [printed |-> TRUE, lines |-> Append(stdout.lines, line)]
                                 ELSE stdout
                    /\ status' = status
                 \/ asked = "human" /\ status' = 1 /\ stdout' = stdout
    /\ UNCHANGED <<cases, asked, packaged>>

\* The JSON report is encoded last, and may be cut short by a failed write.
FinishReport ==
    /\ status = Reporting /\ Len(entries) = Len(cases)
    /\ LET lines == [i \in DOMAIN entries |-> [case |-> i, ok |-> entries[i]]]
       IN  \/ asked = "human" /\ status' = ExitStatus(entries) /\ stdout' = stdout
           \/ /\ asked = "json" /\ status' = ExitStatus(entries)
              /\ stdout' = [printed |-> TRUE, lines |-> lines]
           \/ /\ asked = "json" /\ status' = 1
              /\ stdout' \in {Silent, [Silent EXCEPT !.printed = TRUE]}
    /\ UNCHANGED <<cases, asked, entries, packaged>>

\* runConformance: a run that could not be completed, or that printed nothing,
\* stops the emission; any other is packaged with its status.
RunConformance ==
    /\ packaged = Pending
    /\ \/ /\ status \notin {Generating, Reporting}
          /\ packaged' = IF stdout.printed THEN [exit |-> status, result |-> stdout] ELSE Unpackaged
       \/ packaged' = Unpackaged      \* the command timed out or was cut off
    /\ UNCHANGED <<cases, asked, entries, stdout, status>>

CorpusNext ==
    \/ packaged = Pending /\ (Generate \/ ReportCase \/ FinishReport)
    \/ RunConformance

CorpusSpec == CorpusInit /\ [][CorpusNext]_corpusVars

----------------------------------------------------------------------------
(***************************************************************************)
(* Properties.                                                             *)
(***************************************************************************)
\* A case agrees when its runs and its expectations can be paired off, each
\* expectation with the run it names (or the only one) and content with it.
Agrees(case) ==
    /\ case.loads
    /\ \E pair \in [DOMAIN case.expect -> DOMAIN case.runs] :
          /\ ToSet(pair) = DOMAIN case.runs /\ IsInjective(pair)
          /\ \A i \in DOMAIN pair :
                /\ case.expect[i].id \in {OnlyRun, pair[i]}
                /\ case.runs[pair[i]] \in case.expect[i].accepts

\* The status a package records and the evidence beside it say the same: 0
\* that every case was reported and agrees, 3 that every case was reported
\* and some case does not, and anything unfinished is neither.
\* (aelgen main.go 2637-2640 and the comment of runConformance.)
EvidenceMatchesStatus ==
    packaged \notin {Pending, Unpackaged} =>
      LET lines == packaged.result.lines
          complete == [j \in DOMAIN lines |-> lines[j].case] = [j \in DOMAIN cases |-> j]
          disagreeing == {j \in DOMAIN cases : ~Agrees(cases[j])}
      IN  /\ packaged.exit = 0 => complete /\ disagreeing = {}
          /\ packaged.exit = exitCorpusMismatch => complete /\ disagreeing # {}
          /\ \A j \in DOMAIN lines : lines[j].ok = (lines[j].case \notin disagreeing)
=============================================================================
