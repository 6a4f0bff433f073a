------------------------ MODULE S3CoordinationProofs ------------------------
(***************************************************************************)
(* For any repository, scopes and contents, and whatever the two workers   *)
(* and the main thread do in whatever order: the two executors behave as   *)
(* EmpiricalExecutor says, nobody works in a removed workspace, a result   *)
(* is of both workers, and its score is of the edits that are there.       *)
(***************************************************************************)
EXTENDS S3Coordination, FiniteSetTheorems, SequenceTheorems, TLAPS

Runs == INSTANCE EmpiricalExecutorProofs WITH Runs <- Workers, MayCrash <- FALSE

USE DEF Workers

LEMMA AppendToOne == ASSUME NEW a, NEW b PROVE Append(<<a>>, b) = <<a, b>>
<1> DEFINE S == {a, b}  s == Append(<<a>>, b)  t == <<a, b>>
<1>1. <<a>> \in Seq(S) /\ t \in Seq(S)
  OBVIOUS
<1>2. s \in Seq(S) /\ Len(s) = 2 /\ Len(t) = 2
  BY <1>1
<1>3. s[1] = a /\ s[2] = b /\ t[1] = a /\ t[2] = b
  BY <1>1
<1> HIDE DEF s, t, S
<1>4. \A i \in 1..Len(s) : s[i] = t[i]
  BY <1>2, <1>3
<1>5. s = t
  BY <1>1, <1>2, <1>4, SeqEqual
<1> QED
  BY <1>5 DEF s, t

LEMMA ExecutorAssumptionHolds == Runs!ExecutorAssumption
BY CoordinationAssumption DEF CoordinationAssumption, Runs!ExecutorAssumption, Runs!Unwritable

(* The workers' executors are two runs of EmpiricalExecutor that share a   *)
(* capture directory.                                                      *)
THEOREM ExecutorsAreRuns == Spec => Runs!Spec
<1>1. Init => Runs!Init
  BY DEF Init, Executor!Init, Runs!Init
<1>2. ASSUME NEW w \in Workers PROVE Executor!Executor(w) => Runs!Executor(w)
  BY DEF Executor!Executor, Runs!Executor, Executor!Preflight, Runs!Preflight, Executor!Infer, Runs!Infer,
     Executor!Check, Runs!Check, Executor!Open, Runs!Open, Executor!Write, Runs!Write, Executor!Validate, Runs!Validate,
     Executor!Goto, Runs!Goto, Executor!End, Runs!End, Executor!Report, Runs!Report, Executor!Writable, Runs!Writable,
     Executor!Unwritable, Runs!Unwritable, Executor!Filled, Runs!Filled, Executor!Proven, Runs!Proven
<1>3. ASSUME NEW w \in Workers PROVE Executor!Environment(w) => Runs!Environment(w)
  BY DEF Executor!Environment, Runs!Environment, Executor!CommandStarts, Runs!CommandStarts, Executor!CommandExits, Runs!CommandExits
<1>4. [Next]_vars => [Runs!Next]_(Runs!vars)
  <2> SUFFICES ASSUME [Next]_vars PROVE Runs!Next \/ UNCHANGED executorVars
    BY DEF Runs!vars, executorVars
  <2>1. CASE Main
    BY <2>1 DEF Main, Allocate, Copy, Collect, Close, Cleanup
  <2>2. ASSUME NEW w \in Workers, Worker(w) \/ Environment(w)
        PROVE  Runs!Next \/ UNCHANGED executorVars
    BY <1>2, <1>3, <2>2 DEF Worker, Environment, SnapshotBefore, RunTurn, CheckIdentity, SnapshotAfter,
       Evaluate, MakeEnvelope, Fail, AgentEdits, Runs!Next, Executor!Environment
  <2>3. CASE UNCHANGED vars
    BY <2>3 DEF vars
  <2> QED
    BY <2>1, <2>2, <2>3 DEF Next, Finished
<1> QED
  BY <1>1, <1>4, PTL DEF Spec, Runs!Spec

LEMMA ExecutorsKeepTypes == Spec => []Executor!TypeOK
<1>1. Runs!Spec => []Runs!TypeOK
  BY ExecutorAssumptionHolds, Runs!TypeCorrect
<1>2. Runs!TypeOK => Executor!TypeOK
  BY DEF Runs!TypeOK, Executor!TypeOK
<1> QED
  BY <1>1, <1>2, ExecutorsAreRuns, PTL

(* An accepted turn of an executor has its capture, and leaves no command  *)
(* behind if its transport looks.                                          *)
LEMMA ExecutorsKeepTheirPromise ==
  Spec => [](Executor!AcceptedTurnHasItsCapture /\ Executor!AcceptedTurnLeftNoCommand)
<1>1. Runs!Spec => []Runs!AcceptedTurnHasItsCapture
  BY ExecutorAssumptionHolds, Runs!AcceptedIsCaptured
<1>2. Runs!Spec => []Runs!AcceptedTurnLeftNoCommand
  BY ExecutorAssumptionHolds, Runs!AcceptedIsQuiet
<1>3. Runs!AcceptedTurnHasItsCapture => Executor!AcceptedTurnHasItsCapture
  BY DEF Runs!AcceptedTurnHasItsCapture, Executor!AcceptedTurnHasItsCapture, Runs!OwnName, Executor!OwnName
<1>4. Runs!AcceptedTurnLeftNoCommand => Executor!AcceptedTurnLeftNoCommand
  BY DEF Runs!AcceptedTurnLeftNoCommand, Executor!AcceptedTurnLeftNoCommand
<1> QED
  BY <1>1, <1>2, <1>3, <1>4, ExecutorsAreRuns, PTL

(* What a step of one executor does to the parts the threads look at.      *)
LEMMA ExecutorStep ==
  ASSUME Executor!TypeOK, NEW w \in Workers, Executor!Executor(w)
  PROVE  /\ UNCHANGED command
         /\ verdict[w] = "none" /\ verdict' \in [Workers -> {"none", "accepted", "rejected", "crashed"}]
         /\ \A v \in Workers \ {w} : pc'[v] = pc[v] /\ verdict'[v] = verdict[v]
BY DEF Executor!TypeOK, Executor!Executor, Executor!Preflight, Executor!Infer, Executor!Check,
   Executor!Open, Executor!Write, Executor!Validate, Executor!Goto, Executor!End

-----------------------------------------------------------------------------
(* The threads and the workspace: before the submission there are none,    *)
(* and the pool is not left before both are through.                       *)
Phases ==
  /\ main \in {"allocate", "copy"} => \A w \in Workers : at[w] = "unsubmitted"
  /\ main \in {"cleanup", "over"} =>
       \A w \in Workers : at[w] \in {"unsubmitted", "done", "failed"}
  /\ removed => main = "over"

ThreadTypes ==
  at \in [Workers -> {"unsubmitted", "before", "executor", "identity",
                      "after", "evaluate", "envelope", "done", "failed"}]

LEMMA ThreadTypesKept == ThreadTypes /\ [Next]_vars => ThreadTypes'
<1> SUFFICES ASSUME ThreadTypes, [Next]_vars PROVE ThreadTypes'
  OBVIOUS
<1>1. CASE Main
  BY <1>1 DEF ThreadTypes, Main, Allocate, Copy, Collect, Close, Cleanup, threadVars
<1>2. ASSUME NEW w \in Workers, Worker(w) \/ Environment(w) PROVE ThreadTypes'
  BY <1>2 DEF ThreadTypes, Worker, Environment, SnapshotBefore, RunTurn, CheckIdentity,
     SnapshotAfter, Evaluate, MakeEnvelope, Fail, AgentEdits, Step, threadVars
<1>3. CASE UNCHANGED vars
  BY <1>3 DEF ThreadTypes, vars, threadVars
<1> QED
  BY <1>1, <1>2, <1>3 DEF Next, Finished

(* A thread that is through, or was never submitted, stays where it is     *)
(* unless the main thread submits it.                                      *)
LEMMA WorkersStayPut ==
  ASSUME ThreadTypes, NEW w \in Workers, Worker(w) \/ Environment(w), NEW v \in Workers,
         at[v] \in {"unsubmitted", "done", "failed"}
  PROVE  at'[v] = at[v]
BY DEF ThreadTypes, Worker, Environment, SnapshotBefore, RunTurn, CheckIdentity,
   SnapshotAfter, Evaluate, MakeEnvelope, Fail, AgentEdits, Step, threadVars

LEMMA WorkersLeaveMain ==
  ASSUME NEW w \in Workers, Worker(w) \/ Environment(w)
  PROVE  UNCHANGED mainVars
BY DEF Worker, Environment, SnapshotBefore, RunTurn, CheckIdentity,
   SnapshotAfter, Evaluate, MakeEnvelope, Fail, AgentEdits, mainVars

LEMMA PhasesKept == ThreadTypes /\ Phases /\ [Next]_vars => Phases'
<1> SUFFICES ASSUME ThreadTypes, Phases, [Next]_vars PROVE Phases'
  OBVIOUS
<1>1. CASE Main
  BY <1>1 DEF ThreadTypes, Phases, Main, Allocate, Copy, Collect, Close, Cleanup, Leave, threadVars
<1>2. ASSUME NEW w \in Workers, Worker(w) \/ Environment(w) PROVE Phases'
  BY <1>2, WorkersStayPut, WorkersLeaveMain DEF Phases, mainVars
<1>3. CASE UNCHANGED vars
  BY <1>3 DEF Phases, vars, threadVars, mainVars
<1> QED
  BY <1>1, <1>2, <1>3 DEF Next, Finished

(* No thread works in a removed workspace (s3/empirical.py, the pool inside *)
(* the workspace).                                                         *)
THEOREM NobodyWorksInVain == Spec => []WorkspaceOutlivesWorkers
<1>1. Init => ThreadTypes /\ Phases
  BY DEF Init, ThreadTypes, Phases
<1>2. Phases => WorkspaceOutlivesWorkers
  BY DEF Phases, WorkspaceOutlivesWorkers
<1> QED
  BY <1>1, <1>2, ThreadTypesKept, PhasesKept, PTL DEF Spec

-----------------------------------------------------------------------------
(* What is collected was done, and what is returned was collected.         *)
Accepted ==
  \A w \in Workers :
    /\ at[w] \in {"identity", "after", "evaluate", "envelope", "done"} => verdict[w] = "accepted"
    /\ at[w] \in {"unsubmitted", "before"} => verdict[w] = "none"

CollectedInOrder ==
  /\ collected \in {<<>>, <<"worker-a">>, <<"worker-a", "worker-b">>}
  /\ collected # <<>> => at["worker-a"] = "done"
  /\ collected = <<"worker-a", "worker-b">> => at["worker-b"] = "done"
  /\ main \in {"allocate", "copy"} => collected = <<>>
  /\ main = "collect" => collected # <<"worker-a", "worker-b">>
  /\ outcome = "returned" => collected = <<"worker-a", "worker-b">>

LEMMA AcceptedKept ==
  Executor!TypeOK /\ ThreadTypes /\ Phases /\ Accepted /\ [Next]_vars => Accepted'
<1> SUFFICES ASSUME Executor!TypeOK, ThreadTypes, Phases, Accepted, [Next]_vars PROVE Accepted'
  OBVIOUS
<1>1. CASE Main
  BY <1>1 DEF ThreadTypes, Phases, Accepted, Main, Allocate, Copy, Collect, Close, Cleanup,
     executorVars, threadVars
<1>2. ASSUME NEW w \in Workers, RunTurn(w) PROVE Accepted'
  BY <1>2, ExecutorStep DEF ThreadTypes, Accepted, RunTurn
<1>3. ASSUME NEW w \in Workers,
             SnapshotBefore(w) \/ CheckIdentity(w) \/ SnapshotAfter(w) \/ Evaluate(w)
               \/ MakeEnvelope(w) \/ Fail(w)
      PROVE  Accepted'
  BY <1>3 DEF ThreadTypes, Accepted, SnapshotBefore, CheckIdentity, SnapshotAfter, Evaluate,
     MakeEnvelope, Fail, Step, executorVars
<1>4. ASSUME NEW w \in Workers, Environment(w) PROVE Accepted'
  BY <1>4 DEF Accepted, Environment, AgentEdits, Executor!CommandStarts, Executor!CommandExits,
     executorVars, threadVars
<1>5. CASE UNCHANGED vars
  BY <1>5 DEF Accepted, vars, executorVars, threadVars
<1> QED
  BY <1>1, <1>2, <1>3, <1>4, <1>5 DEF Next, Worker, Finished

LEMMA CollectedInOrderKept ==
  ThreadTypes /\ CollectedInOrder /\ [Next]_vars => CollectedInOrder'
<1> SUFFICES ASSUME ThreadTypes, CollectedInOrder, [Next]_vars PROVE CollectedInOrder'
  OBVIOUS
<1>1. CASE Allocate \/ Copy \/ Close \/ Cleanup
  BY <1>1 DEF ThreadTypes, CollectedInOrder, Allocate, Copy, Close, Cleanup, Leave, threadVars
<1>2. CASE Collect
  <2>1. UNCHANGED at
    BY <1>2 DEF Collect, threadVars
  <2>2. CASE collected = <<>>
    <3>1. Append(collected, NextFuture) = <<"worker-a">> /\ NextFuture = "worker-a"
      BY <2>2 DEF NextFuture
    <3> QED
      BY <1>2, <2>1, <2>2, <3>1 DEF Collect, CollectedInOrder
  <2>3. CASE collected = <<"worker-a">>
    <3>0. NextFuture = "worker-b"
      <4>1. Len(<<"worker-a">>) = 1 /\ Len(<<>>) = 0
        OBVIOUS
      <4> QED
        BY <2>3, <4>1 DEF NextFuture
    <3>1. Append(collected, NextFuture) = <<"worker-a", "worker-b">> /\ NextFuture = "worker-b"
      <4>1. Append(<<"worker-a">>, "worker-b") = <<"worker-a", "worker-b">>
        BY AppendToOne
      <4> QED
        BY <2>3, <3>0, <4>1
    <3> QED
      BY <1>2, <2>1, <2>3, <3>1 DEF Collect, CollectedInOrder
  <2> QED
    BY <1>2, <2>2, <2>3 DEF Collect, CollectedInOrder
<1>3. ASSUME NEW w \in Workers, Worker(w) \/ Environment(w) PROVE CollectedInOrder'
  BY <1>3, WorkersStayPut, WorkersLeaveMain DEF CollectedInOrder, mainVars
<1>4. CASE UNCHANGED vars
  BY <1>4 DEF CollectedInOrder, vars, threadVars, mainVars
<1> QED
  BY <1>1, <1>2, <1>3, <1>4 DEF Next, Main, Finished

LEMMA ThreadsHold ==
  Spec => [](ThreadTypes /\ Phases /\ Accepted /\ CollectedInOrder /\ Executor!TypeOK)
<1>1. Init => ThreadTypes /\ Phases /\ Accepted /\ CollectedInOrder
  BY DEF Init, ThreadTypes, Phases, Accepted, CollectedInOrder, Executor!Init
<1> QED
  BY <1>1, ExecutorsKeepTypes, ThreadTypesKept, PhasesKept, AcceptedKept, CollectedInOrderKept,
     PTL DEF Spec

(* A result is of both workers, each of whose turns was accepted and has   *)
(* its capture (s3/empirical.py, the futures read in order).               *)
THEOREM ResultsAreJoint == Spec => []ResultIsOfBothWorkers
<1>1. Accepted /\ CollectedInOrder /\ Executor!AcceptedTurnHasItsCapture => ResultIsOfBothWorkers
  BY DEF Accepted, CollectedInOrder, ResultIsOfBothWorkers, Returned
<1> QED
  BY <1>1, ThreadsHold, ExecutorsKeepTheirPromise, PTL

-----------------------------------------------------------------------------
(* The snapshots: each copy is the source until its turn, and stays what   *)
(* it was when it was snapshotted after the turn.                          *)
Snapshots ==
  /\ root \in [Workers -> Files] /\ before \in [Workers -> Files] /\ after \in [Workers -> Files]
  /\ \A w \in Workers :
       /\ before[w] = Source
       /\ at[w] \in {"unsubmitted", "before"} =>
            pc[w] = "idle" /\ ~ command[w] /\ root[w] = Source
       /\ at[w] \in {"evaluate", "envelope", "done"} => after[w] = root[w]

(* Once its turn is accepted, nobody edits a copy any more.                *)
LEMMA EditorsAreGone ==
  ASSUME Executor!TypeOK, Accepted, Executor!AcceptedTurnLeftNoCommand, Proving = Workers,
         NEW w \in Workers, AgentEdits(w)
  PROVE  at[w] \notin {"identity", "after", "evaluate", "envelope", "done"}
BY DEF Executor!TypeOK, Accepted, Executor!AcceptedTurnLeftNoCommand, AgentEdits

LEMMA SnapshotsKept ==
  ASSUME Proving = Workers
  PROVE  Executor!TypeOK /\ ThreadTypes /\ Phases /\ Accepted
           /\ Executor!AcceptedTurnLeftNoCommand /\ Snapshots /\ [Next]_vars
         => Snapshots'
<1> SUFFICES ASSUME Executor!TypeOK, ThreadTypes, Phases, Accepted,
                    Executor!AcceptedTurnLeftNoCommand, Snapshots, [Next]_vars
             PROVE  Snapshots'
  OBVIOUS
<1>1. CASE Main
  BY <1>1 DEF ThreadTypes, Phases, Snapshots, Main, Allocate, Copy, Collect, Close, Cleanup,
     executorVars, threadVars
<1>2. ASSUME NEW w \in Workers, RunTurn(w) PROVE Snapshots'
  <2>1. UNCHANGED <<command, root, before, after>> /\ at[w] = "executor"
        /\ \A v \in Workers \ {w} : pc'[v] = pc[v] /\ at'[v] = at[v]
    BY <1>2, ExecutorStep DEF RunTurn, ThreadTypes
  <2>2. at'[w] \in {"executor", "identity", "failed"}
    BY <1>2 DEF RunTurn, ThreadTypes
  <2> QED
    BY <2>1, <2>2 DEF Snapshots
<1>3. ASSUME NEW w \in Workers, SnapshotBefore(w) PROVE Snapshots'
  BY <1>3 DEF ThreadTypes, Snapshots, SnapshotBefore, Step, executorVars
<1>4. ASSUME NEW w \in Workers, SnapshotAfter(w) PROVE Snapshots'
  BY <1>4 DEF ThreadTypes, Snapshots, SnapshotAfter, Step, executorVars
<1>5. ASSUME NEW w \in Workers,
             CheckIdentity(w) \/ Evaluate(w) \/ MakeEnvelope(w) \/ Fail(w)
      PROVE  Snapshots'
  BY <1>5 DEF ThreadTypes, Snapshots, CheckIdentity, Evaluate, MakeEnvelope, Fail, Step, executorVars
<1>6. ASSUME NEW w \in Workers, AgentEdits(w) PROVE Snapshots'
  <2>1. at[w] \notin {"identity", "after", "evaluate", "envelope", "done"}
    BY <1>6, EditorsAreGone
  <2>2. at[w] \notin {"unsubmitted", "before"}
    BY <1>6 DEF AgentEdits, Snapshots
  <2>3. PICK p \in Paths, c \in Contents \cup {Original, Deleted} :
          root' = [root EXCEPT ![w][p] = c]
    BY <1>6 DEF AgentEdits
  <2>4. root' \in [Workers -> Files] /\ \A v \in Workers \ {w} : root'[v] = root[v]
    BY <2>3 DEF Snapshots, Files
  <2>5. UNCHANGED <<executorVars, threadVars>>
    BY <1>6 DEF AgentEdits
  <2> QED
    BY <2>1, <2>2, <2>4, <2>5 DEF Snapshots, executorVars, threadVars
<1>7. ASSUME NEW w \in Workers,
             (at[w] = "executor" /\ Executor!CommandStarts(w)) \/ Executor!CommandExits(w),
             UNCHANGED <<threadVars, mainVars, root>>
      PROVE  Snapshots'
  BY <1>7 DEF Snapshots, Executor!CommandStarts, Executor!CommandExits, threadVars, Executor!TypeOK
<1>8. CASE UNCHANGED vars
  BY <1>8 DEF Snapshots, vars, executorVars, threadVars
<1> QED
  BY <1>1, <1>2, <1>3, <1>4, <1>5, <1>6, <1>7, <1>8 DEF Next, Worker, Environment, Finished

LEMMA SnapshotsHold == ASSUME Proving = Workers PROVE Spec => []Snapshots
<1>1. Init => Snapshots
  BY DEF Init, Executor!Init, Snapshots, Source, Files
<1>2. Executor!TypeOK /\ ThreadTypes /\ Phases /\ Accepted
        /\ Executor!AcceptedTurnLeftNoCommand /\ Snapshots /\ [Next]_vars
      => Snapshots'
  BY SnapshotsKept
<1> QED
  BY <1>1, <1>2, ThreadsHold, ExecutorsKeepTheirPromise, PTL DEF Spec

(* What is scored is what is there, if both transports look for commands a *)
(* turn has left running.                                                  *)
THEOREM EditsAreFinal == ASSUME Proving = Workers PROVE Spec => []ScoredEditsAreFinal
<1>1. Accepted /\ CollectedInOrder /\ Snapshots => ScoredEditsAreFinal
  BY DEF Accepted, CollectedInOrder, Snapshots, ScoredEditsAreFinal, Returned, Edits, Edited, Source
<1>2. Spec => []Snapshots
  BY SnapshotsHold
<1> QED
  BY <1>1, <1>2, ThreadsHold, PTL

-----------------------------------------------------------------------------
(* Two copies merge exactly if they differ at no path both have edited.    *)
LEMMA MergeIfNoConflict ==
  ASSUME NEW f \in [Workers -> Files]
  PROVE  (\E merged \in Files : \A w \in Workers, p \in Paths :
            f[w][p] # Original => merged[p] = f[w][p])
         <=> \A p \in Paths : f["worker-a"][p] # Original /\ f["worker-b"][p] # Original
                => f["worker-a"][p] = f["worker-b"][p]
<1>1. ASSUME \A p \in Paths : f["worker-a"][p] # Original /\ f["worker-b"][p] # Original
                => f["worker-a"][p] = f["worker-b"][p]
      PROVE  \E merged \in Files : \A w \in Workers, p \in Paths :
               f[w][p] # Original => merged[p] = f[w][p]
  <2> DEFINE merged == [p \in Paths |-> IF f["worker-a"][p] # Original
                                        THEN f["worker-a"][p] ELSE f["worker-b"][p]]
  <2>1. merged \in Files
    BY DEF Files
  <2>2. \A w \in Workers, p \in Paths : f[w][p] # Original => merged[p] = f[w][p]
    BY <1>1
  <2> QED
    BY <2>1, <2>2
<1>2. ASSUME NEW merged \in Files, NEW p \in Paths,
             \A w \in Workers, q \in Paths : f[w][q] # Original => merged[q] = f[w][q],
             f["worker-a"][p] # Original, f["worker-b"][p] # Original
      PROVE  f["worker-a"][p] = f["worker-b"][p]
  BY <1>2
<1> QED
  BY <1>1, <1>2

LEMMA NoneIsZero == ASSUME NEW S, IsFiniteSet(S) PROVE Cardinality(S) = 0 <=> S = {}
BY FS_EmptySet

LEMMA FinalEditsAreScored ==
  ScoredEditsAreFinal /\ Snapshots => ScoreIsOfTheEdits
<1> SUFFICES ASSUME ScoredEditsAreFinal, Snapshots, Returned
    PROVE  /\ Score.conflicting_edits = 0 <=>
                \E merged \in Files : \A w \in Workers, p \in Paths :
                  root[w][p] # Original => merged[p] = root[w][p]
           /\ Score.scope_collisions = 0 <=>
                \A w \in Workers : {p \in Paths : root[w][p] # Original} \subseteq Scope[w]
  BY DEF ScoreIsOfTheEdits
<1>1. \A w \in Workers : Edits[w] = {p \in Paths : root[w][p] # Original} /\ after[w] = root[w]
  BY DEF ScoredEditsAreFinal
<1>2. IsFiniteSet(Paths) /\ IsFiniteSet(Workers)
  <2>1. IsFiniteSet({"worker-a"}) /\ IsFiniteSet({"worker-b"})
    BY FS_Singleton
  <2>2. IsFiniteSet({"worker-a"} \cup {"worker-b"})
    BY <2>1, FS_Union
  <2>3. Workers = {"worker-a"} \cup {"worker-b"}
    OBVIOUS
  <2>4. IsFiniteSet(Paths)
    BY CoordinationAssumption DEF CoordinationAssumption
  <2> QED
    BY <2>2, <2>3, <2>4
<1>3. IsFiniteSet(Conflicts)
  BY <1>1, <1>2, FS_Subset DEF Conflicts
<1>4. IsFiniteSet(Collisions)
  <2>1. IsFiniteSet(Workers \X Paths)
    BY <1>2, FS_Product
  <2> QED
    BY <2>1, FS_Subset DEF Collisions
<1>5. Score.conflicting_edits = 0 <=> Conflicts = {}
  BY <1>3, NoneIsZero DEF Score
<1>6. Score.scope_collisions = 0 <=> Collisions = {}
  BY <1>4, NoneIsZero DEF Score
<1>7. Conflicts = {} <=> \A p \in Paths :
        root["worker-a"][p] # Original /\ root["worker-b"][p] # Original
          => root["worker-a"][p] = root["worker-b"][p]
  BY <1>1 DEF Conflicts
<1>8. Collisions = {} <=>
        \A w \in Workers : {p \in Paths : root[w][p] # Original} \subseteq Scope[w]
  <2>1. ASSUME NEW w \in Workers, NEW p \in Paths
        PROVE  <<w, p>> \in Collisions <=> root[w][p] # Original /\ p \notin Scope[w]
    BY <1>1 DEF Collisions
  <2>2. \A e \in Collisions : \E w \in Workers, p \in Paths : e = <<w, p>>
    BY DEF Collisions
  <2> QED
    BY <2>1, <2>2
<1>9. root \in [Workers -> Files]
  BY DEF Snapshots
<1> QED
  BY <1>5, <1>6, <1>7, <1>8, <1>9, MergeIfNoConflict

(* The score reports no conflict exactly if the two copies merge, and no   *)
(* collision exactly if each worker kept to its scope (s3/driver.py,       *)
(* score_coordination).                                                    *)
THEOREM ScoresAreTrue ==
  ASSUME Proving = Workers PROVE Spec => []ScoreIsOfTheEdits
<1>1. Spec => []ScoredEditsAreFinal
  BY EditsAreFinal
<1>2. Spec => []Snapshots
  BY SnapshotsHold
<1> QED
  BY <1>1, <1>2, FinalEditsAreScored, PTL

(* The types of the threads, the copies and the case.                      *)
THEOREM TypeCorrect == Spec => []TypeOK
<1> DEFINE Rest ==
      /\ main \in {"allocate", "copy", "collect", "closing", "cleanup", "over"}
      /\ copied \subseteq Workers
      /\ removed \in BOOLEAN
      /\ root \in [Workers -> Files]
      /\ before \in [Workers -> Files] /\ after \in [Workers -> Files]
      /\ success \in [Workers -> BOOLEAN]
      /\ outcome \in {"none", "returned", "unprovisioned", "worker_failed", "cleanup_failed"}
<1>1. Init => Rest
  <2>1. Source \in Files
    BY DEF Source, Files
  <2> QED
    BY <2>1 DEF Init
<1>2. Rest /\ [Next]_vars => Rest'
  <2> SUFFICES ASSUME Rest, [Next]_vars PROVE Rest'
    OBVIOUS
  <2>1. CASE Main
    BY <2>1 DEF Main, Allocate, Copy, NextCopy, Collect, Close, Cleanup, Leave, threadVars
  <2>2. ASSUME NEW w \in Workers, RunTurn(w) \/ SnapshotBefore(w) \/ CheckIdentity(w)
                \/ SnapshotAfter(w) \/ Evaluate(w) \/ MakeEnvelope(w) \/ Fail(w)
        PROVE  Rest'
    BY <2>2 DEF RunTurn, SnapshotBefore, CheckIdentity, SnapshotAfter, Evaluate, MakeEnvelope,
       Fail, mainVars
  <2>3. ASSUME NEW w \in Workers, AgentEdits(w) PROVE Rest'
    BY <2>3 DEF AgentEdits, Files, threadVars, mainVars
  <2>4. ASSUME UNCHANGED <<threadVars, mainVars, root>> PROVE Rest'
    BY <2>4 DEF threadVars, mainVars
  <2> QED
    BY <2>1, <2>2, <2>3, <2>4 DEF Next, Worker, Environment, Finished, vars
<1>3. Rest /\ ThreadTypes /\ CollectedInOrder /\ Executor!TypeOK => TypeOK
  BY DEF ThreadTypes, CollectedInOrder, TypeOK
<1> QED
  BY <1>1, <1>2, <1>3, ThreadsHold, PTL DEF Spec
=============================================================================
