------------------------- MODULE WorkspaceIOProofs -------------------------
(***************************************************************************)
(* For every deadline, retry interval and delay, and whatever happens to   *)
(* the file: the attempt limit of the bounded read never ends it before    *)
(* its deadline, the evidence lists every retry, only a locked file is     *)
(* retried, and the call does not overstay.                                *)
(***************************************************************************)
EXTENDS WorkspaceIO, TLAPS

(* Sleeps are at least one interval long unless they end at the deadline.  *)
Elapsed == now >= Deadline \/ now >= (ordinal - 1) * RetryInterval

(* The failures recorded so far: all of them, or all but the current one.  *)
Recorded ==
  transient = IF pc = "sleep" \/ result = "deadline_expired"
              THEN ordinal ELSE ordinal - 1

LockSeen ==
  /\ file = "locked" \/ seen = "locked" => wasLocked
  /\ ordinal > 1 \/ pc = "sleep" => wasLocked

Paced ==
  /\ pc = "validate" => now = 0
  /\ pc = "read" => now <= Deadline + MaxDelay
  /\ pc = "sleep" => now < Deadline /\ ordinal < MaxAttempts
  /\ now <= Deadline + 2 * MaxDelay

(* pc and result say the same thing about the end of the call.             *)
DoneMeansResult == (pc = "done") <=> (result # "none")

IInv ==
  /\ TypeOK
  /\ DoneMeansResult
  /\ Elapsed
  /\ Recorded
  /\ LockSeen
  /\ Paced
  /\ ExpiryMeansDeadlinePassed

LEMMA AttemptsCoverDeadline ==
  /\ MaxAttempts \in Nat /\ MaxAttempts >= 1
  /\ (MaxAttempts - 1) * RetryInterval >= Deadline
<1> DEFINE q == (Deadline + RetryInterval - 1) \div RetryInterval
<1>1. Deadline \in Nat /\ Deadline > 0 /\ RetryInterval \in Nat /\ RetryInterval > 0
  BY ParametersAssumption
<1>2. q \in Nat
  BY <1>1
<1>3. q * RetryInterval >= Deadline
  BY <1>1
<1>4. MaxAttempts = q + 1
  BY DEF MaxAttempts
<1> HIDE DEF q
<1> QED BY <1>2, <1>3, <1>4

LEMMA NextInterval ==
  ASSUME NEW k \in Nat
  PROVE  (k + 1 - 1) * RetryInterval = (k - 1) * RetryInterval + RetryInterval
BY ParametersAssumption

LEMMA InitEstablishesIInv == Init => IInv
<1> SUFFICES ASSUME Init PROVE IInv
  OBVIOUS
<1>1. 1 \in 1 .. MaxAttempts /\ 0 * RetryInterval = 0 /\ MaxDelay \in Nat
      /\ Deadline \in Nat /\ RetryInterval \in Nat
  BY AttemptsCoverDeadline, ParametersAssumption
<1>2. TypeOK
  BY <1>1 DEF Init, TypeOK, FileState
<1>3. Elapsed
  BY <1>1 DEF Init, Elapsed
<1>4. DoneMeansResult /\ ExpiryMeansDeadlinePassed
  BY DEF Init, DoneMeansResult, ExpiryMeansDeadlinePassed
<1>5. Recorded
  BY DEF Init, Recorded
<1>6. LockSeen
  <2>1. ordinal = 1 /\ pc = "validate" /\ seen = "ready"
    BY DEF Init
  <2>2. file = "locked" => wasLocked
    BY DEF Init
  <2>3. ~ (ordinal > 1) /\ pc # "sleep" /\ seen # "locked"
    BY <2>1
  <2> QED BY <2>2, <2>3 DEF LockSeen
<1>7. Paced
  BY <1>1 DEF Init, Paced
<1> QED BY <1>2, <1>3, <1>4, <1>5, <1>6, <1>7 DEF IInv

(* Sleeping: either a whole interval has passed or the deadline has come.  *)
LEMMA SleepKeepsElapsed ==
  ASSUME IInv, Sleep
  PROVE  Elapsed' /\ now' \in Nat /\ now' <= Deadline + MaxDelay
<1>1. PICK d \in 0 .. MaxDelay :
        now' = now + Smaller(RetryInterval, Larger(0, Deadline - now)) + d
  BY DEF Sleep, Pause
<1>2. /\ now \in Nat /\ ordinal \in Nat /\ d \in Nat /\ now < Deadline
      /\ ordinal' = ordinal + 1
  BY DEF Sleep, IInv, TypeOK, Paced
<1>3. Deadline \in Nat /\ RetryInterval \in Nat /\ MaxDelay \in Nat
  BY ParametersAssumption
<1>4. now' \in Nat /\ now' <= Deadline + MaxDelay
      /\ (now' >= Deadline \/ now' >= now + RetryInterval)
  BY <1>1, <1>2, <1>3 DEF Smaller, Larger
<1>5. now >= Deadline \/ now >= (ordinal - 1) * RetryInterval
  BY DEF IInv, Elapsed
<1>6. (ordinal' - 1) * RetryInterval = (ordinal - 1) * RetryInterval + RetryInterval
  BY <1>2, NextInterval
<1> DEFINE reached == (ordinal - 1) * RetryInterval
<1>7. reached \in Int
  BY <1>2, <1>3
<1>8. now' >= Deadline \/ now' >= reached + RetryInterval
  <2> HIDE DEF reached
  <2> QED BY <1>2, <1>3, <1>4, <1>5, <1>7 DEF reached
<1> QED BY <1>4, <1>6, <1>8 DEF Elapsed

(* Giving up on a locked file: the deadline has passed, or the attempts    *)
(* made already span it.                                                   *)
LEMMA ExhaustedMeansExpired ==
  ASSUME IInv, ordinal >= MaxAttempts \/ now >= Deadline
  PROVE  now >= Deadline
<1>1. now \in Nat /\ ordinal \in 1 .. MaxAttempts /\ MaxAttempts \in Nat
      /\ Deadline \in Nat /\ RetryInterval \in Nat
  BY AttemptsCoverDeadline, ParametersAssumption DEF IInv, TypeOK
<1>2. CASE now >= Deadline
  BY <1>2
<1>3. CASE ordinal >= MaxAttempts
  <2>1. ordinal = MaxAttempts
    BY <1>1, <1>3
  <2>2. now >= Deadline \/ now >= (MaxAttempts - 1) * RetryInterval
    BY <2>1 DEF IInv, Elapsed
  <2>3. (MaxAttempts - 1) * RetryInterval >= Deadline
        /\ (MaxAttempts - 1) * RetryInterval \in Int
    BY <1>1, AttemptsCoverDeadline
  <2> QED BY <1>1, <2>2, <2>3
<1> QED BY <1>2, <1>3

LEMMA ClassifyIsClassification ==
  ASSUME NEW failure, NEW f, NEW coded
  PROVE  Classify(failure, f, coded) \in Classification
BY DEF Classify, Classification

LEMMA HandleFailureKeepsIInv ==
  ASSUME IInv, HandleFailure
  PROVE  IInv'
<1>0. /\ pc = "classify" /\ result = "none" /\ transient = ordinal - 1
      /\ UNCHANGED <<file, now, ordinal, seen, wasLocked>>
      /\ ordinal \in 1 .. MaxAttempts /\ MaxAttempts \in Nat
      /\ now \in Nat /\ now <= Deadline + 2 * MaxDelay
  BY AttemptsCoverDeadline
     DEF HandleFailure, IInv, DoneMeansResult, Recorded, TypeOK, Paced
<1>a. PICK coded \in ErrorCodes :
        \/ /\ Classify(seen, file, coded) # "transient_sharing_or_lock"
           /\ Finish(Classify(seen, file, coded))
           /\ UNCHANGED transient
        \/ /\ Classify(seen, file, coded) = "transient_sharing_or_lock"
           /\ transient' = RecordedFailures
           /\ IF Exhausted
              THEN Finish("deadline_expired")
              ELSE pc' = "sleep" /\ UNCHANGED result
  BY DEF HandleFailure
<1> DEFINE class == Classify(seen, file, coded)
<1>1. CASE class # "transient_sharing_or_lock"
  <2>1. result' = class /\ pc' = "done" /\ transient' = transient
    BY <1>a, <1>1 DEF Finish
  <2>2. class \in Classification /\ class # "deadline_expired" /\ class # "none"
    BY ClassifyIsClassification DEF Classification
  <2> HIDE DEF class
  <2> QED BY <1>0, <2>1, <2>2 DEF IInv, TypeOK, DoneMeansResult, Elapsed, Recorded,
               LockSeen, Paced, ExpiryMeansDeadlinePassed
<1>2. CASE class = "transient_sharing_or_lock"
  <2>1. transient' = ordinal
    BY <1>0, <1>a, <1>2 DEF RecordedFailures
  <2>2. file = "locked" \/ seen = "locked"
    BY <1>2 DEF Classify, LockReported
  <2>3. wasLocked
    BY <2>2 DEF IInv, LockSeen
  <2>4. CASE ordinal >= MaxAttempts \/ now >= Deadline
    <3>1. result' = "deadline_expired" /\ pc' = "done"
      BY <1>a, <1>2, <2>4 DEF Exhausted, Finish
    <3>2. now >= Deadline
      BY <2>4, ExhaustedMeansExpired
    <3> QED BY <1>0, <2>1, <2>3, <3>1, <3>2 DEF IInv, TypeOK, DoneMeansResult,
                 Elapsed, Recorded, LockSeen, Paced, ExpiryMeansDeadlinePassed
  <2>5. CASE ~ (ordinal >= MaxAttempts \/ now >= Deadline)
    <3>1. pc' = "sleep" /\ result' = result
      BY <1>a, <1>2, <2>5 DEF Exhausted
    <3>2. now < Deadline /\ ordinal < MaxAttempts
      BY <1>0, <2>5, ParametersAssumption
    <3> QED BY <1>0, <2>1, <2>3, <3>1, <3>2 DEF IInv, TypeOK, DoneMeansResult,
                 Elapsed, Recorded, LockSeen, Paced, ExpiryMeansDeadlinePassed
  <2> QED BY <2>4, <2>5
<1> QED BY <1>1, <1>2

LEMMA NextKeepsIInv == IInv /\ [Next]_vars => IInv'
<1> SUFFICES ASSUME IInv, [Next]_vars PROVE IInv'
  OBVIOUS
<1>0. Deadline \in Nat /\ RetryInterval \in Nat /\ MaxDelay \in Nat
  BY ParametersAssumption
<1>1. CASE FileChanges
  BY <1>1 DEF FileChanges, IInv, TypeOK, DoneMeansResult, Elapsed, Recorded,
       LockSeen, Paced, ExpiryMeansDeadlinePassed
<1>2. CASE Validate
  BY <1>0, <1>2 DEF Validate, Finish, Rejection, IInv, TypeOK, DoneMeansResult,
       Elapsed, Recorded, LockSeen, Paced, ExpiryMeansDeadlinePassed
<1>3. CASE Read
  <2>1. PICK d \in 0 .. MaxDelay : now' = now + d
    BY <1>3 DEF Read
  <2>2. /\ pc = "read" /\ result = "none" /\ transient = ordinal - 1
        /\ UNCHANGED <<file, ordinal, transient, wasLocked>> /\ seen' = file
        /\ now <= Deadline + MaxDelay /\ now \in Nat
    BY <1>3 DEF Read, IInv, DoneMeansResult, Recorded, Paced, TypeOK
  <2>3. now' \in Nat /\ now' <= Deadline + 2 * MaxDelay /\ now' >= now
    BY <1>0, <2>1, <2>2
  <2>4. Elapsed'
    <3> DEFINE reached == (ordinal - 1) * RetryInterval
    <3>1. reached \in Int /\ (now >= Deadline \/ now >= reached)
      BY <1>0 DEF IInv, TypeOK, Elapsed
    <3>2. now' >= Deadline \/ now' >= reached
      <4> HIDE DEF reached
      <4> QED BY <1>0, <2>2, <2>3, <3>1
    <3> QED BY <2>2, <3>2 DEF Elapsed
  <2>5. \/ result' \in {"bytes", "reader_contract_error"} /\ pc' = "done"
        \/ result' = "none" /\ pc' = "classify"
    BY <1>3, <2>2 DEF Read, Finish
  <2> QED BY <2>2, <2>3, <2>4, <2>5 DEF IInv, TypeOK, DoneMeansResult, Recorded,
               LockSeen, Paced, ExpiryMeansDeadlinePassed
<1>4. CASE HandleFailure
  BY <1>4, HandleFailureKeepsIInv
<1>5. CASE Sleep
  <2>1. Elapsed' /\ now' \in Nat /\ now' <= Deadline + MaxDelay
    BY <1>5, SleepKeepsElapsed
  <2>2. /\ pc = "sleep" /\ pc' = "read" /\ ordinal' = ordinal + 1
        /\ UNCHANGED <<file, seen, transient, result, wasLocked>>
        /\ result = "none" /\ transient = ordinal /\ ordinal < MaxAttempts
        /\ wasLocked /\ MaxAttempts \in Nat
    BY <1>5, AttemptsCoverDeadline
       DEF Sleep, IInv, DoneMeansResult, Recorded, Paced, LockSeen
  <2> QED BY <1>0, <2>1, <2>2 DEF IInv, TypeOK, DoneMeansResult, Recorded,
               LockSeen, Paced, ExpiryMeansDeadlinePassed
<1>6. CASE UNCHANGED vars
  BY <1>6 DEF vars, IInv, TypeOK, DoneMeansResult, Elapsed, Recorded, LockSeen,
       Paced, ExpiryMeansDeadlinePassed
<1> QED BY <1>1, <1>2, <1>3, <1>4, <1>5, <1>6 DEF Next, Reader, Finished

LEMMA InvariantHolds == Spec => []IInv
BY InitEstablishesIInv, NextKeepsIInv, PTL DEF Spec

(* Every variable of the bounded read stays in its type.                   *)
THEOREM TypeCorrect == Spec => []TypeOK
<1>1. IInv => TypeOK
  BY DEF IInv
<1> QED BY <1>1, InvariantHolds, PTL

(* The attempt limit never cuts the deadline short, and the call overstays *)
(* it by two delays at most.                                               *)
THEOREM DeadlineIsRespected == Spec => []DeadlineIsKept
<1>1. IInv => DeadlineIsKept
  BY DEF IInv, Paced, DeadlineIsKept
<1> QED BY <1>1, InvariantHolds, PTL

(* The evidence of a read lists every failed attempt.                      *)
THEOREM EvidenceIsComplete == Spec => []EveryRetryIsRecorded
<1>1. IInv => EveryRetryIsRecorded
  BY DEF IInv, TypeOK, Recorded, DoneMeansResult, EveryRetryIsRecorded
<1> QED BY <1>1, InvariantHolds, PTL

(* A file that was never locked is attempted once.                         *)
THEOREM RetriesNeedALock == Spec => []OnlyLocksAreRetried
<1>1. IInv => OnlyLocksAreRetried
  BY DEF IInv, LockSeen, OnlyLocksAreRetried
<1> QED BY <1>1, InvariantHolds, PTL
=============================================================================
