---------------------- MODULE EmpiricalExecutorProofs ----------------------
(***************************************************************************)
(* For any number of runs and names: an accepted turn has its capture, no  *)
(* file holds anything of a turn that was not fit to be written, and, with *)
(* a transport that looks for them, no command outlives an accepted turn.  *)
(***************************************************************************)
EXTENDS EmpiricalExecutor, TLAPS

(* What the file of a run with a name of its own holds while it writes.    *)
Captured ==
  \A r \in Runs : OwnName(r) =>
    /\ pc[r] = "writing" => disk[CaptureName[r]] = "empty"
    /\ pc[r] = "validating" \/ verdict[r] = "accepted" => disk[CaptureName[r]] = r

(* A run gets as far as its capture only with a turn fit to be written.    *)
CheckedFirst ==
  \A r \in Runs : pc[r] \in {"opening", "writing", "validating"} => Writable(r)

(* The report of the commands stays true once the transport has returned.  *)
Cleared ==
  \A r \in Proving :
    /\ /\ pc[r] \in {"checking", "opening", "writing", "validating"}
          \/ verdict[r] = "accepted"
       /\ cleared[r]
       => ~ command[r]
    /\ verdict[r] = "accepted" => cleared[r]

LEMMA InitEstablishesTypeOK == Init => TypeOK
BY ExecutorAssumption DEF Init, TypeOK

(* One step of a run keeps the types.                                      *)
LEMMA RunKeepsTypeOK ==
  ASSUME TypeOK, NEW r \in Runs, Executor(r) \/ Environment(r)
  PROVE  TypeOK'
<1> USE ExecutorAssumption
<1>1. CASE Preflight(r)
  BY <1>1 DEF TypeOK, Preflight, Goto, End
<1>2. CASE Infer(r)
  <2>1. PICK f \in SUBSET Flaws, c \in BOOLEAN :
             \/ /\ flaws' = [flaws EXCEPT ![r] = f]
                /\ cleared' = [cleared EXCEPT ![r] = c]
             \/ UNCHANGED <<flaws, cleared>>
    BY <1>2 DEF Infer, Report, TypeOK
  <2>2. flaws' \in [Runs -> SUBSET Flaws] /\ cleared' \in [Runs -> BOOLEAN]
    BY <2>1 DEF TypeOK
  <2> QED
    BY <1>2, <2>2 DEF TypeOK, Infer, Goto, End
<1>3. CASE Check(r)
  BY <1>3 DEF TypeOK, Check, Goto, End
<1>4. CASE Open(r)
  BY <1>4 DEF TypeOK, Open, Goto, End
<1>5. CASE Write(r)
  BY <1>5 DEF TypeOK, Write, Filled, Goto, End
<1>6. CASE Validate(r)
  BY <1>6 DEF TypeOK, Validate, Goto, End
<1>7. CASE CommandStarts(r)
  BY <1>7 DEF TypeOK, CommandStarts
<1>8. CASE CommandExits(r)
  BY <1>8 DEF TypeOK, CommandExits
<1> QED
  BY <1>1, <1>2, <1>3, <1>4, <1>5, <1>6, <1>7, <1>8 DEF Executor, Environment

LEMMA StepKeepsTypeOK == TypeOK /\ [Next]_vars => TypeOK'
<1> SUFFICES ASSUME TypeOK, [Next]_vars PROVE TypeOK'
  OBVIOUS
<1>1. CASE \E r \in Runs : Executor(r) \/ Environment(r)
  BY <1>1, RunKeepsTypeOK
<1>2. CASE Crash
  BY <1>2 DEF TypeOK, Crash
<1>3. CASE UNCHANGED vars
  BY <1>3 DEF TypeOK, vars
<1> QED
  BY <1>1, <1>2, <1>3 DEF Next, Finished

(* The executor's state keeps its types, and a run is over exactly when it *)
(* has a verdict.                                                          *)
THEOREM TypeCorrect == Spec => []TypeOK
<1>1. Init => TypeOK
  BY InitEstablishesTypeOK
<1>2. TypeOK /\ [Next]_vars => TypeOK'
  BY StepKeepsTypeOK
<1> QED
  BY <1>1, <1>2, PTL DEF Spec

-----------------------------------------------------------------------------
(* A run's step concerns the file of another run with a name of its own    *)
(* not at all.                                                             *)
LEMMA OwnFileIsUntouched ==
  ASSUME TypeOK, NEW r \in Runs, Executor(r) \/ Environment(r),
         NEW q \in Runs, q # r, OwnName(q)
  PROVE  /\ disk'[CaptureName[q]] = disk[CaptureName[q]]
         /\ pc'[q] = pc[q] /\ verdict'[q] = verdict[q]
<1>1. CaptureName[q] # CaptureName[r] /\ CaptureName[q] \in Names
      /\ CaptureName[r] \in Names
  BY ExecutorAssumption DEF OwnName
<1>2. disk'[CaptureName[q]] = disk[CaptureName[q]]
  BY <1>1 DEF TypeOK, Executor, Environment, Preflight, Infer, Check, Open,
     Write, Validate, CommandStarts, CommandExits
<1>3. pc'[q] = pc[q]
  BY DEF TypeOK, Executor, Environment, Preflight, Infer, Check, Open,
     Write, Validate, CommandStarts, CommandExits, Goto, End
<1>4. verdict'[q] = verdict[q]
  BY DEF TypeOK, Executor, Environment, Preflight, Infer, Check, Open,
     Write, Validate, CommandStarts, CommandExits, Goto, End
<1> QED
  BY <1>2, <1>3, <1>4

(* A run's step keeps what its own file holds.                             *)
LEMMA OwnFileIsRight ==
  ASSUME TypeOK, Captured, NEW r \in Runs, Executor(r) \/ Environment(r),
         OwnName(r)
  PROVE  /\ pc'[r] = "writing" => disk'[CaptureName[r]] = "empty"
         /\ pc'[r] = "validating" \/ verdict'[r] = "accepted"
              => disk'[CaptureName[r]] = r
<1>1. CaptureName[r] \in Names
  BY ExecutorAssumption
<1>2. /\ pc[r] = "writing" => disk[CaptureName[r]] = "empty"
      /\ pc[r] = "validating" \/ verdict[r] = "accepted" => disk[CaptureName[r]] = r
  BY DEF Captured
<1>3. CASE Preflight(r)
  BY <1>2, <1>3 DEF TypeOK, Preflight, Goto, End
<1>4. CASE Infer(r)
  BY <1>2, <1>4 DEF TypeOK, Infer, Goto, End
<1>5. CASE Check(r)
  BY <1>2, <1>5 DEF TypeOK, Check, Goto, End
<1>6. CASE Open(r)
  BY <1>1, <1>2, <1>6 DEF TypeOK, Open, Goto, End
<1>7. CASE Write(r)
  BY <1>1, <1>2, <1>7 DEF TypeOK, Write, Filled, Goto, End
<1>8. CASE Validate(r)
  BY <1>2, <1>8 DEF TypeOK, Validate, Goto, End
<1>9. CASE CommandStarts(r) \/ CommandExits(r)
  BY <1>2, <1>9 DEF CommandStarts, CommandExits
<1> QED
  BY <1>3, <1>4, <1>5, <1>6, <1>7, <1>8, <1>9 DEF Executor, Environment

LEMMA StepKeepsCaptured == TypeOK /\ Captured /\ [Next]_vars => Captured'
<1> SUFFICES ASSUME TypeOK, Captured, [Next]_vars,
                    NEW q \in Runs, OwnName(q)
             PROVE  /\ pc'[q] = "writing" => disk'[CaptureName[q]] = "empty"
                    /\ pc'[q] = "validating" \/ verdict'[q] = "accepted"
                         => disk'[CaptureName[q]] = q
  BY DEF Captured, OwnName
<1>1. ASSUME NEW r \in Runs, Executor(r) \/ Environment(r), r # q
      PROVE  /\ disk'[CaptureName[q]] = disk[CaptureName[q]]
             /\ pc'[q] = pc[q] /\ verdict'[q] = verdict[q]
  BY <1>1, OwnFileIsUntouched
<1>2. CASE \E r \in Runs : Executor(r) \/ Environment(r)
  <2>1. CASE Executor(q) \/ Environment(q)
    BY <2>1, OwnFileIsRight
  <2>2. CASE \E r \in Runs : r # q /\ (Executor(r) \/ Environment(r))
    BY <1>1, <2>2 DEF Captured
  <2> QED
    BY <1>2, <2>1, <2>2
<1>3. CASE Crash
  BY <1>3 DEF Crash, TypeOK, Captured
<1>4. CASE UNCHANGED vars
  BY <1>4 DEF vars, Captured
<1> QED
  BY <1>2, <1>3, <1>4 DEF Next, Finished

(* An accepted turn has its whole capture under a name of its own, in      *)
(* every state that follows, crashes included.                             *)
THEOREM AcceptedIsCaptured == Spec => []AcceptedTurnHasItsCapture
<1>1. Init => Captured
  BY DEF Init, Captured
<1>2. TypeOK /\ Captured /\ [Next]_vars => Captured'
  BY StepKeepsCaptured
<1>3. Captured => AcceptedTurnHasItsCapture
  BY DEF Captured, AcceptedTurnHasItsCapture
<1> QED
  BY <1>1, <1>2, <1>3, TypeCorrect, PTL DEF Spec

-----------------------------------------------------------------------------
LEMMA StepKeepsCheckedFirst ==
  TypeOK /\ CheckedFirst /\ [Next]_vars => CheckedFirst'
<1> SUFFICES ASSUME TypeOK, CheckedFirst, [Next]_vars,
                    NEW q \in Runs,
                    pc'[q] \in {"opening", "writing", "validating"}
             PROVE  Writable(q)'
  BY DEF CheckedFirst
<1>1. pc[q] \in {"opening", "writing", "validating"} => Writable(q)
  BY DEF CheckedFirst
<1>2. CASE \E r \in Runs : Infer(r)
  <2>1. PICK r \in Runs : Infer(r)
    BY <1>2
  <2>2. q # r /\ pc'[q] = pc[q]
    BY <2>1 DEF Infer, Goto, End, TypeOK
  <2>3. flaws'[q] = flaws[q]
    BY <2>1, <2>2 DEF Infer, TypeOK
  <2> QED
    BY <1>1, <2>2, <2>3 DEF Writable
<1>3. CASE \E r \in Runs : Check(r)
  BY <1>1, <1>3 DEF Check, Goto, End, Writable, TypeOK
<1>4. CASE \E r \in Runs : Preflight(r) \/ Open(r) \/ Write(r) \/ Validate(r)
  BY <1>1, <1>4 DEF Preflight, Open, Write, Validate, Goto, End, Writable, TypeOK
<1>5. CASE \E r \in Runs : Environment(r)
  BY <1>1, <1>5 DEF Environment, CommandStarts, CommandExits, Writable
<1>6. CASE Crash
  BY <1>6 DEF Crash
<1>7. CASE UNCHANGED vars
  BY <1>1, <1>7 DEF vars, Writable
<1> QED
  BY <1>2, <1>3, <1>4, <1>5, <1>6, <1>7 DEF Next, Executor, Finished

LEMMA StepKeepsDiskFit ==
  TypeOK /\ CheckedFirst /\ OnlyFitTurnsReachTheDisk /\ [Next]_vars
    => OnlyFitTurnsReachTheDisk'
<1> SUFFICES ASSUME TypeOK, CheckedFirst, OnlyFitTurnsReachTheDisk, [Next]_vars,
                    NEW n \in Names, disk'[n] # "absent"
             PROVE  \E r \in Runs :
                      /\ CaptureName[r] = n
                      /\ flaws'[r] \cap Unwritable = {}
                      /\ pc'[r] \in {"writing", "validating", "over"}
  BY DEF OnlyFitTurnsReachTheDisk
<1>1. ASSUME NEW r \in Runs, CaptureName[r] = n, flaws[r] \cap Unwritable = {},
             pc[r] \in {"writing", "validating", "over"}
      PROVE  flaws'[r] \cap Unwritable = {}
             /\ pc'[r] \in {"writing", "validating", "over"}
  <2>1. pc'[r] \in {"writing", "validating", "over"}
    BY <1>1 DEF Next, Executor, Environment, Preflight, Infer, Check, Open,
       Write, Validate, CommandStarts, CommandExits, Crash, Finished, Goto, End,
       vars, TypeOK
  <2>2. flaws'[r] = flaws[r]
    BY <1>1 DEF Next, Executor, Environment, Preflight, Infer, Check, Open,
       Write, Validate, CommandStarts, CommandExits, Crash, Finished, vars, TypeOK
  <2> QED
    BY <1>1, <2>1, <2>2
<1>2. CASE disk[n] # "absent"
  BY <1>1, <1>2 DEF OnlyFitTurnsReachTheDisk
<1>3. CASE disk[n] = "absent"
  <2>1. PICK r \in Runs : (Open(r) \/ Write(r)) /\ CaptureName[r] = n
    BY <1>3 DEF Next, Executor, Environment, Preflight, Infer, Check, Open,
       Write, Validate, CommandStarts, CommandExits, Crash, Finished, vars, TypeOK
  <2>2. Writable(r)
    BY <2>1 DEF CheckedFirst, Open, Write
  <2>3. flaws'[r] = flaws[r]
    BY <2>1 DEF Open, Write
  <2>4. pc'[r] \in {"writing", "validating", "over"}
    BY <2>1 DEF Open, Write, Goto, End, TypeOK
  <2> QED
    BY <2>1, <2>2, <2>3, <2>4 DEF Writable
<1> QED
  BY <1>2, <1>3

(* Nothing of a turn that fails a check before the capture is ever on the  *)
(* disk.                                                                   *)
THEOREM DiskHoldsFitTurns == Spec => []OnlyFitTurnsReachTheDisk
<1>1. Init => CheckedFirst /\ OnlyFitTurnsReachTheDisk
  BY DEF Init, CheckedFirst, OnlyFitTurnsReachTheDisk
<1>2. TypeOK /\ CheckedFirst /\ [Next]_vars => CheckedFirst'
  BY StepKeepsCheckedFirst
<1>3. TypeOK /\ CheckedFirst /\ OnlyFitTurnsReachTheDisk /\ [Next]_vars
        => OnlyFitTurnsReachTheDisk'
  BY StepKeepsDiskFit
<1> QED
  BY <1>1, <1>2, <1>3, TypeCorrect, PTL DEF Spec

-----------------------------------------------------------------------------
LEMMA StepKeepsCleared == TypeOK /\ Cleared /\ [Next]_vars => Cleared'
<1> SUFFICES ASSUME TypeOK, Cleared, [Next]_vars, NEW q \in Proving
             PROVE  /\ /\ pc'[q] \in {"checking", "opening", "writing", "validating"}
                          \/ verdict'[q] = "accepted"
                       /\ cleared'[q]
                       => ~ command'[q]
                    /\ verdict'[q] = "accepted" => cleared'[q]
  BY DEF Cleared
<1>1. /\ /\ pc[q] \in {"checking", "opening", "writing", "validating"}
            \/ verdict[q] = "accepted"
         /\ cleared[q]
         => ~ command[q]
      /\ verdict[q] = "accepted" => cleared[q]
  BY DEF Cleared
<1> q \in Runs
  BY ExecutorAssumption
<1>2. CASE \E r \in Runs : Infer(r)
  <2>1. PICK r \in Runs : Infer(r)
    BY <1>2
  <2>2. CASE r = q
    <3>1. verdict[q] = "none"
      BY <2>1, <2>2 DEF Infer, TypeOK
    <3>2. CASE Goto(q, "checking")
      <4>1. PICK c \in Report(q) : cleared' = [cleared EXCEPT ![q] = c]
        BY <2>1, <2>2, <3>2 DEF Infer, Goto, End, TypeOK
      <4>2. cleared'[q] = c /\ c \in {FALSE, ~ command[q]}
        BY <4>1 DEF Report, TypeOK
      <4>3. verdict'[q] = "none"
        BY <3>1, <3>2 DEF Goto
      <4> QED
        BY <2>1, <2>2, <4>2, <4>3 DEF Infer
    <3>3. CASE End(q, "rejected")
      BY <3>3 DEF End, TypeOK
    <3> QED
      BY <2>1, <2>2, <3>2, <3>3 DEF Infer
  <2>3. CASE r # q
    <3>1. pc'[q] = pc[q] /\ verdict'[q] = verdict[q] /\ command'[q] = command[q]
      BY <2>1, <2>3 DEF Infer, Goto, End, TypeOK
    <3>2. cleared'[q] = cleared[q]
      BY <2>1, <2>3 DEF Infer, TypeOK
    <3> QED
      BY <1>1, <3>1, <3>2
  <2> QED
    BY <2>2, <2>3
<1>3. CASE \E r \in Runs : Preflight(r) \/ Check(r) \/ Open(r) \/ Write(r)
  BY <1>1, <1>3 DEF Preflight, Check, Open, Write, Goto, End, TypeOK
<1>4. CASE \E r \in Runs : Validate(r)
  BY <1>1, <1>4 DEF Validate, Proven, Goto, End, TypeOK
<1>5. CASE \E r \in Runs : CommandStarts(r)
  BY <1>1, <1>5 DEF CommandStarts, TypeOK
<1>6. CASE \E r \in Runs : CommandExits(r)
  BY <1>1, <1>6 DEF CommandExits, TypeOK
<1>7. CASE Crash
  BY <1>1, <1>7 DEF Crash, TypeOK
<1>8. CASE UNCHANGED vars
  BY <1>1, <1>8 DEF vars
<1> QED
  BY <1>2, <1>3, <1>4, <1>5, <1>6, <1>7, <1>8 DEF Next, Executor, Environment, Finished

(* If its transport looks for the commands of a turn, no command of an     *)
(* accepted turn is running.                                               *)
THEOREM AcceptedIsQuiet == Spec => []AcceptedTurnLeftNoCommand
<1>1. Init => Cleared
  BY ExecutorAssumption DEF Init, Cleared
<1>2. TypeOK /\ Cleared /\ [Next]_vars => Cleared'
  BY StepKeepsCleared
<1>3. Cleared => AcceptedTurnLeftNoCommand
  BY DEF Cleared, AcceptedTurnLeftNoCommand
<1> QED
  BY <1>1, <1>2, <1>3, TypeCorrect, PTL DEF Spec
=============================================================================
