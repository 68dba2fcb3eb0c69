---------------------------- MODULE AELSubprocess ----------------------------
(***************************************************************************)
(* One command run by the emitter (runChecker, subprocessLimits and        *)
(* readCapturedFile in checker/internal/ael/emit.go, process_unix.go).     *)
(* The command writes to a capture file; a watchdog goroutine polls its    *)
(* size and cancels the context when it is too large; the context also     *)
(* ends at a deadline; cancelling kills the command's process group.  When *)
(* the command has ended, the runner kills what is left of the group,      *)
(* halts the watchdog, and decides what to return.                         *)
(*                                                                         *)
(* Descendants may stay in the group or leave it; those that left it       *)
(* cannot be killed and keep the capture file open.  A process that was    *)
(* signalled writes no more.  The two streams are treated alike, and the   *)
(* model has one.                                                          *)
(***************************************************************************)
EXTENDS Integers

CONSTANTS
    Limit,      \* maxSubprocessStdout, maxSubprocessStderr
    MaxSize     \* bound on what all writers together write

ASSUME LimitAssumption == Limit \in Nat /\ MaxSize \in Nat /\ MaxSize > Limit

VARIABLES
    pc,         \* the runner
    child,      \* "none", then "running", "exited", "killed", or "failed" to start
    group,      \* descendants in the process group are alive
    escaped,    \* descendants that left the group exist
    size,       \* of the capture file
    expired,    \* the deadline has passed
    ctx,        \* the context: "live", "cancelled" or "deadline"
    over,       \* the atomic flag of subprocessLimits
    done,       \* the channel that halts the watchdog is closed
    dog,        \* the watchdog: "select", "store", "stop", "ended"
    result,     \* what runChecker returns: "none" until it does
    captured    \* the number of bytes returned

vars == <<pc, child, group, escaped, size, expired, ctx, over, done, dog, result, captured>>
processes == <<child, group, escaped, size>>

Init ==
    /\ pc = "start" /\ child = "none"
    /\ group = FALSE /\ escaped = FALSE
    /\ size = 0 /\ expired = FALSE /\ ctx = "live"
    /\ over = FALSE /\ done = FALSE /\ dog = "select"
    /\ result = "none" /\ captured = 0

----------------------------------------------------------------------------
(***************************************************************************)
(* The command and its descendants, and time.                              *)
(***************************************************************************)
Write ==
    /\ size < MaxSize
    /\ child = "running" \/ group \/ escaped
    /\ size' = size + 1
    /\ UNCHANGED <<pc, child, group, escaped, expired, ctx, over, done, dog, result, captured>>

ChildExits ==
    /\ child = "running"
    /\ child' = "exited"
    /\ UNCHANGED <<pc, group, escaped, size, expired, ctx, over, done, dog, result, captured>>

\* The context ends with its first cause.
Deadline ==
    /\ ~expired
    /\ expired' = TRUE
    /\ ctx' = IF ctx = "live" THEN "deadline" ELSE ctx
    /\ UNCHANGED <<pc, processes, over, done, dog, result, captured>>

\* command.Cancel: the ended context kills the group.
KillGroup ==
    /\ ctx # "live" /\ child = "running"
    /\ child' = "killed" /\ group' = FALSE
    /\ UNCHANGED <<pc, escaped, size, expired, ctx, over, done, dog, result, captured>>

----------------------------------------------------------------------------
(***************************************************************************)
(* The watchdog.  When a poll is due and the channel is closed as well,    *)
(* the select takes either.                                                *)
(***************************************************************************)
overLimit == size > Limit

DogPolls ==
    /\ dog = "select" /\ overLimit
    /\ dog' = "store"
    /\ UNCHANGED <<pc, processes, expired, ctx, over, done, result, captured>>

DogStores ==
    /\ dog = "store"
    /\ dog' = "stop" /\ over' = TRUE
    /\ UNCHANGED <<pc, processes, expired, ctx, done, result, captured>>

DogStops ==
    /\ dog = "stop"
    /\ dog' = "ended"
    /\ ctx' = IF ctx = "live" THEN "cancelled" ELSE ctx
    /\ UNCHANGED <<pc, processes, expired, over, done, result, captured>>

DogHalts ==
    /\ dog = "select" /\ done
    /\ dog' = "ended"
    /\ UNCHANGED <<pc, processes, expired, ctx, over, done, result, captured>>

----------------------------------------------------------------------------
(***************************************************************************)
(* The runner.                                                             *)
(***************************************************************************)
Go(from, to) == pc = from /\ pc' = to

\* The command starts, and may start descendants; or it cannot be started.
Start ==
    /\ Go("start", "wait")
    /\ \/ child' = "running" /\ group' \in BOOLEAN /\ escaped' \in BOOLEAN
       \/ child' = "failed" /\ UNCHANGED <<group, escaped>>
    /\ UNCHANGED <<size, expired, ctx, over, done, dog, result, captured>>

Ended == child \in {"exited", "killed", "failed"}

\* Mutant: the group is only signalled when the context ended.
ReapOnlyCancelled ==
    /\ Go("wait", "halt") /\ Ended
    /\ group' = (group /\ ctx = "live")
    /\ UNCHANGED <<child, escaped, size, expired, ctx, over, done, dog, result, captured>>

\* command.Run returns, reapSubprocessGroup.
Reap ==
    /\ Go("wait", "halt") /\ Ended
    /\ group' = FALSE
    /\ UNCHANGED <<child, escaped, size, expired, ctx, over, done, dog, result, captured>>

\* Mutant: the watchdog is not told to end.
HaltWithoutClose ==
    /\ Go("halt", "stat")
    /\ UNCHANGED <<processes, expired, ctx, over, done, dog, result, captured>>

\* limits.halt: close, then a last look at the size.
Halt ==
    /\ Go("halt", "stat")
    /\ done' = TRUE
    /\ UNCHANGED <<processes, expired, ctx, over, dog, result, captured>>

LastStat ==
    /\ Go("stat", "exceeded")
    /\ over' = (over \/ overLimit)
    /\ UNCHANGED <<processes, expired, ctx, done, dog, result, captured>>

\* The decisions in order: overflow, context, then reading the file.
Exceeded ==
    /\ Go("exceeded", IF over THEN "return" ELSE "context")
    /\ result' = IF over THEN "overflow" ELSE result
    /\ UNCHANGED <<processes, expired, ctx, over, done, dog, captured>>

\* Mutant: a command that was killed is read like any other.
ContextIgnored ==
    /\ Go("context", "read")
    /\ UNCHANGED <<processes, expired, ctx, over, done, dog, result, captured>>

ContextErr ==
    /\ Go("context", IF ctx # "live" THEN "return" ELSE "read")
    /\ result' = IF ctx # "live" THEN "timeout" ELSE result
    /\ UNCHANGED <<processes, expired, ctx, over, done, dog, captured>>

readCapturedFile ==
    /\ Go("read", IF overLimit THEN "return" ELSE "outcome")
    /\ captured' = IF overLimit THEN 0 ELSE size
    /\ result' = IF overLimit THEN "grew" ELSE result
    /\ UNCHANGED <<processes, expired, ctx, over, done, dog>>

\* A nonzero exit is a result; not having run is an error.
Outcome ==
    /\ Go("outcome", "return")
    /\ result' = IF child = "failed" THEN "failed" ELSE "ok"
    /\ captured' = IF child = "failed" THEN 0 ELSE captured
    /\ UNCHANGED <<processes, expired, ctx, over, done, dog>>

\* The deferred wait for the watchdog.
Return ==
    /\ Go("return", "returned") /\ dog = "ended"
    /\ UNCHANGED <<processes, expired, ctx, over, done, dog, result, captured>>

Watchdog == DogPolls \/ DogStores \/ DogStops \/ DogHalts
Runner == Start \/ Reap \/ Halt \/ LastStat \/ Exceeded \/ ContextErr
             \/ readCapturedFile \/ Outcome \/ Return

Next == Write \/ ChildExits \/ Deadline \/ KillGroup \/ Watchdog \/ Runner

(***************************************************************************)
(* The goroutines are scheduled, timers fire and kills are delivered.  The *)
(* command owes nothing: it may run, and its descendants write, for ever.  *)
(***************************************************************************)
Fairness == WF_vars(Runner) /\ WF_vars(Watchdog) /\ WF_vars(Deadline) /\ WF_vars(KillGroup)

Spec == Init /\ [][Next]_vars
FairSpec == Spec /\ Fairness

----------------------------------------------------------------------------
(***************************************************************************)
(* What is returned as evidence is within the limit, and is all the        *)
(* command and its group ever wrote: nothing is clipped, and nothing is    *)
(* added later unless a process left the group.  (reapSubprocessGroup      *)
(* before the reading, emit.go 566-580 and 697-709.)                       *)
(***************************************************************************)
WholeOutput ==
    result = "ok" => captured <= Limit /\ (~escaped => captured = size)

(***************************************************************************)
(* A result is returned only for a command that ended by itself: one that  *)
(* was killed for size or time gives an error.  (emit.go 572-578.)         *)
(***************************************************************************)
OkMeansFinished == result = "ok" => child = "exited"

(***************************************************************************)
(* runChecker returns, however long the command runs and whatever its      *)
(* descendants hold open.  (Deadline, group kill and capture files,        *)
(* emit.go 520-568.)                                                       *)
(***************************************************************************)
Returns == <>(pc = "returned")
=============================================================================
