---------------------------- MODULE WorkspaceIO ----------------------------
(***************************************************************************)
(* read_bytes_after_quiescence of benchmarks/harness/workspace_io.py: after*)
(* a model turn the harness reads a file of the workspace that a process   *)
(* of the turn may still hold, retrying Windows sharing and lock failures  *)
(* until a deadline and failing closed on everything else.  The file       *)
(* changes under the reader: a read, the classification of its failure     *)
(* (which looks at the file again) and the next read are separate steps.   *)
(* Time is counted in ticks from the start of the call.                    *)
(***************************************************************************)
EXTENDS Integers, Sequences

CONSTANTS
  Deadline,          \* deadline_seconds
  RetryInterval,     \* retry_interval_seconds
  MaxDelay,          \* bound: ticks a read may take, or a sleep may overrun
  ErrorCodes         \* whether a failure may carry its Windows error code, or not

ASSUME ParametersAssumption ==
  /\ Deadline \in Nat \ {0} /\ RetryInterval \in Nat \ {0}
  /\ RetryInterval <= Deadline
  /\ MaxDelay \in Nat
  /\ ErrorCodes \subseteq BOOLEAN /\ ErrorCodes # {}

VARIABLES
  pc,        \* "validate", "read", "classify", "sleep" or "done"
  file,      \* what the path names, and whether it can be read now
  now,       \* ticks since the call started
  ordinal,   \* the attempt under way
  seen,      \* why the last read failed
  transient, \* transient_errors_encountered, one entry per retried failure
  result,    \* "none", "bytes", or how the call failed
  wasLocked  \* history: the file has been locked during the call

vars == <<pc, file, now, ordinal, seen, transient, result, wasLocked>>

FileState == {"ready", "locked", "absent", "directory", "denied", "broken"}

Classification == {"transient_sharing_or_lock", "nonexistent", "path_type",
                   "permanent_access_denied", "filesystem_error"}

Rejection == {"workspace_invalid", "path_escape", "symlink_or_reparse_rejected",
              "path_inspection_error", "path_resolution_error", "path_type"}

AttemptsWithoutSpare == (Deadline + RetryInterval - 1) \div RetryInterval
MaxAttempts == (Deadline + RetryInterval - 1) \div RetryInterval + 1

Smaller(a, b) == IF a < b THEN a ELSE b
Larger(a, b) == IF a < b THEN b ELSE a

TypeOK ==
  /\ pc \in {"validate", "read", "classify", "sleep", "done"}
  /\ file \in FileState
  /\ now \in Nat
  /\ ordinal \in 1 .. MaxAttempts
  /\ seen \in FileState
  /\ transient \in Nat
  /\ result \in {"none", "bytes", "reader_contract_error", "deadline_expired"}
                  \cup Rejection \cup Classification
  /\ wasLocked \in BOOLEAN

Init ==
  /\ pc = "validate"
  /\ file \in FileState
  /\ now = 0
  /\ ordinal = 1
  /\ seen = "ready"
  /\ transient = 0
  /\ result = "none"
  /\ wasLocked = (file = "locked")

(* Whoever else has the workspace open.                                    *)
FileChanges ==
  /\ pc # "done"
  /\ file' \in FileState \ {file}
  /\ wasLocked' = (wasLocked \/ file' = "locked")
  /\ UNCHANGED <<pc, now, ordinal, seen, transient, result>>

Finish(how) ==
  /\ result' = how
  /\ pc' = "done"

(* _validate_path, once, before the first attempt: a path that leaves the  *)
(* workspace, crosses a link or names a directory is never read.           *)
Validate ==
  /\ pc = "validate"
  /\ \/ /\ \E why \in Rejection \ {"path_type"} : Finish(why)
     \/ /\ file = "directory"
        /\ Finish("path_type")
     \/ /\ file # "directory"
        /\ pc' = "read"
        /\ UNCHANGED result
  /\ UNCHANGED <<file, now, ordinal, seen, transient, wasLocked>>

Read ==
  /\ pc = "read"
  /\ \E d \in 0 .. MaxDelay : now' = now + d
  /\ seen' = file
  /\ \/ /\ file = "ready"
        /\ Finish("bytes")
     \/ /\ file = "ready"                    \* a reader that returns no bytes
        /\ Finish("reader_contract_error")
     \/ /\ file # "ready"
        /\ pc' = "classify"
        /\ UNCHANGED result
  /\ UNCHANGED <<file, ordinal, transient, wasLocked>>

LockOrDenied(failure, f, coded) == failure \in {"locked", "denied"}

(* _effective_winerror: the code in the exception, or else what a second   *)
(* look at the file says now.                                              *)
LockReported(failure, f, coded) ==
  \/ failure = "locked" /\ coded
  \/ failure \in {"locked", "denied"} /\ ~ coded /\ f = "locked"

(* _classify_os_error of a failed read, given the file as it is by then.   *)
Classify(failure, f, coded) ==
  IF LockReported(failure, f, coded)                       THEN "transient_sharing_or_lock"
  ELSE IF failure = "absent" \/ f = "absent"        THEN "nonexistent"
  ELSE IF failure = "directory" \/ f = "directory"  THEN "path_type"
  ELSE IF failure \in {"locked", "denied"}          THEN "permanent_access_denied"
  ELSE "filesystem_error"

(* No attempt is left, or no time.                                         *)
Exhausted == ordinal >= MaxAttempts \/ now >= Deadline

(* A lock failure is recorded before the limits are looked at.             *)
RecordedUnlessExhausted == IF Exhausted THEN transient ELSE transient + 1
RecordedFailures == transient + 1

HandleFailureBusily ==
  /\ pc = "classify"
  /\ \E coded \in ErrorCodes :
       IF Classify(seen, file, coded) = "transient_sharing_or_lock"
       THEN pc' = "read" /\ UNCHANGED result
       ELSE Finish(Classify(seen, file, coded))
  /\ UNCHANGED <<file, now, ordinal, seen, transient, wasLocked>>

(* The except clause: fail closed, give up, or go to sleep.                *)
HandleFailure ==
  /\ pc = "classify"
  /\ \E coded \in ErrorCodes : LET class == Classify(seen, file, coded)
     IN  \/ /\ class # "transient_sharing_or_lock"
            /\ Finish(class)
            /\ UNCHANGED transient
         \/ /\ class = "transient_sharing_or_lock"
            /\ transient' = RecordedFailures
            /\ IF Exhausted
               THEN Finish("deadline_expired")
               ELSE pc' = "sleep" /\ UNCHANGED result
  /\ UNCHANGED <<file, now, ordinal, seen, wasLocked>>

(* An interval, or what is left of the deadline if that is less.           *)
Pause == Smaller(RetryInterval, Larger(0, Deadline - now))

(* time.sleep never returns early; it may overrun.                         *)
Sleep ==
  /\ pc = "sleep"
  /\ \E d \in 0 .. MaxDelay :
       now' = now + Pause + d
  /\ ordinal' = ordinal + 1
  /\ pc' = "read"
  /\ UNCHANGED <<file, seen, transient, result, wasLocked>>

Reader == Validate \/ Read \/ HandleFailure \/ Sleep

Finished == pc = "done" /\ UNCHANGED vars

Next == FileChanges \/ Reader \/ Finished

Spec == Init /\ [][Next]_vars

(* The reader is one thread the operating system keeps scheduling.         *)
FairSpec == Spec /\ WF_vars(Reader)

-----------------------------------------------------------------------------
(* The two limits agree.  The attempt limit never cuts the deadline short: *)
(* a read is given up as "deadline expired" only once the deadline has     *)
(* passed, however fast the attempts go (max_attempts =                    *)
(* ceil(deadline / interval) + 1); and the call overstays its deadline by  *)
(* at most one read that began late and the overrun of one sleep.          *)
ExpiryMeansDeadlinePassed == result = "deadline_expired" => now >= Deadline
DeadlineIsKept ==
  /\ ExpiryMeansDeadlinePassed
  /\ now <= Deadline + 2 * MaxDelay

(* The evidence is complete: every attempt before the last one is listed   *)
(* as a transient error, and the last one too when the read expired.       *)
EveryRetryIsRecorded ==
  /\ result = "bytes" => transient = ordinal - 1
  /\ result = "deadline_expired" => transient = ordinal

(* "retry only bounded Windows sharing/lock failures": a file that was     *)
(* never locked during the call is attempted once.                         *)
OnlyLocksAreRetried == ordinal > 1 => wasLocked

(* Every call ends, even if the file stays locked for ever.                *)
EveryReadEnds == <>(pc = "done")
=============================================================================
