--------------------------- MODULE S3Coordination ---------------------------
(***************************************************************************)
(* S3EmpiricalAdapter.run_case of benchmarks/s3/empirical.py: two workers  *)
(* edit two copies of one repository at the same time, each in a thread of *)
(* a pool, each through an EmpiricalExecutor of its own.  The main thread  *)
(* allocates the workspace, copies it twice, submits both workers, waits   *)
(* for them in order, and removes the workspace when the pool is closed,   *)
(* whatever happened.  The edits are what differs between a snapshot of    *)
(* the copy before the turn and one after it; the score compares them.     *)
(*                                                                         *)
(* No worker begins before both copies are made, and the executors share   *)
(* nothing but the capture directory (module EmpiricalExecutor).           *)
(***************************************************************************)
EXTENDS Naturals, Sequences, FiniteSets

CONSTANTS
  Names, CaptureName, Flaws, Proving,          \* see EmpiricalExecutor
  Paths,             \* files of the repository
  Contents,          \* what a file may hold after an edit
  Scope              \* worker_scopes: the paths each worker may change

Workers == {"worker-a", "worker-b"}

(* A file the source has, and one that has been deleted (digest None).     *)
Original == "original"
Deleted == "deleted"

ASSUME CoordinationAssumption ==
  /\ Scope \in [Workers -> SUBSET Paths] /\ IsFiniteSet(Paths)
  /\ CaptureName \in [Workers -> Names] /\ Proving \subseteq Workers
  /\ Flaws \subseteq {"model", "not_json", "schema", "no_requests", "secret", "lifecycle"}

VARIABLES
  pc, verdict, flaws, cleared, command, disk,  \* the two executors
  main,        \* where the main thread is
  copied,      \* the workers whose copy has been made
  removed,     \* the workspace has been removed
  root,        \* the files of each copy
  at,          \* where each worker's thread is
  before,      \* each worker's first snapshot
  after,       \* each worker's second snapshot
  success,     \* the verdict of the objective evaluator
  collected,   \* the workers whose future has been read, in order
  outcome      \* how run_case ended

executorVars == <<pc, verdict, flaws, cleared, command, disk>>
threadVars == <<at, before, after, success>>
mainVars == <<main, copied, removed, collected, outcome>>
vars == <<executorVars, threadVars, mainVars, root>>

Executor == INSTANCE EmpiricalExecutor WITH Runs <- Workers, MayCrash <- FALSE

Files == [Paths -> Contents \cup {Original, Deleted}]

Source == [p \in Paths |-> Original]

TypeOK ==
  /\ Executor!TypeOK
  /\ main \in {"allocate", "copy", "collect", "closing", "cleanup", "over"}
  /\ copied \subseteq Workers
  /\ removed \in BOOLEAN
  /\ root \in [Workers -> Files]
  /\ at \in [Workers -> {"unsubmitted", "before", "executor", "identity",
                         "after", "evaluate", "envelope", "done", "failed"}]
  /\ before \in [Workers -> Files] /\ after \in [Workers -> Files]
  /\ success \in [Workers -> BOOLEAN]
  /\ collected \in {<<>>, <<"worker-a">>, <<"worker-a", "worker-b">>}
  /\ outcome \in {"none", "returned", "unprovisioned", "worker_failed", "cleanup_failed"}

Init ==
  /\ Executor!Init
  /\ main = "allocate"
  /\ copied = {}
  /\ removed = FALSE
  /\ root = [w \in Workers |-> Source]
  /\ at = [w \in Workers |-> "unsubmitted"]
  /\ before = [w \in Workers |-> Source]
  /\ after = [w \in Workers |-> Source]
  /\ success = [w \in Workers |-> FALSE]
  /\ collected = <<>>
  /\ outcome = "none"

-----------------------------------------------------------------------------
(* The main thread.                                                        *)

Leave(how) ==
  /\ main' = "cleanup"
  /\ outcome' = how

(* allocate removes what it made if its security check fails.              *)
Allocate ==
  /\ main = "allocate"
  /\ \/ main' = "copy" /\ UNCHANGED <<outcome, removed>>
     \/ main' = "over" /\ outcome' = "unprovisioned" /\ removed' = TRUE
  /\ UNCHANGED <<executorVars, threadVars, copied, collected, root>>

NextCopy == IF "worker-a" \in copied THEN "worker-b" ELSE "worker-a"

(* Both copies first, then both submissions.                               *)
Copy ==
  /\ main = "copy"
  /\ \/ /\ copied' = copied \cup {NextCopy}
        /\ IF copied' = Workers
           THEN /\ main' = "collect"
                /\ at' = [w \in Workers |-> "before"]
           ELSE UNCHANGED <<main, at>>
        /\ UNCHANGED outcome
     \/ /\ Leave("unprovisioned")
        /\ UNCHANGED <<copied, at>>
  /\ UNCHANGED <<executorVars, before, after, success, removed,
                 collected, root>>

NextFuture == IF collected = <<>> THEN "worker-a" ELSE "worker-b"

(* future.result(), in the order of submission.                            *)
CollectWhatIsDone ==
  /\ main = "collect"
  /\ at[NextFuture] \in {"done", "failed"}
  /\ collected' = Append(collected, NextFuture)
  /\ IF NextFuture = "worker-b"
     THEN main' = "closing" /\ outcome' = "returned"
     ELSE UNCHANGED <<main, outcome>>
  /\ UNCHANGED <<executorVars, threadVars, copied, removed, root>>

Collect ==
  /\ main = "collect"
  /\ \/ /\ at[NextFuture] = "done"
        /\ collected' = Append(collected, NextFuture)
        /\ IF NextFuture = "worker-b"
           THEN main' = "closing" /\ outcome' = "returned"
           ELSE UNCHANGED <<main, outcome>>
     \/ /\ at[NextFuture] = "failed"
        /\ main' = "closing"
        /\ outcome' = "worker_failed"
        /\ UNCHANGED collected
  /\ UNCHANGED <<executorVars, threadVars, copied, removed, root>>

CloseWithoutWaiting ==
  /\ main = "closing"
  /\ main' = "cleanup"
  /\ UNCHANGED <<executorVars, threadVars, copied, removed, collected, outcome, root>>

(* Leaving the pool waits for both threads, also on an exception.          *)
Close ==
  /\ main = "closing"
  /\ \A w \in Workers : at[w] \in {"done", "failed"}
  /\ main' = "cleanup"
  /\ UNCHANGED <<executorVars, threadVars, copied, removed, collected, outcome, root>>

(* Leaving the workspace removes it; if that fails, the error replaces     *)
(* whatever run_case was about to return or raise.                         *)
Cleanup ==
  /\ main = "cleanup"
  /\ main' = "over"
  /\ \/ removed' = TRUE /\ UNCHANGED outcome
     \/ outcome' = "cleanup_failed" /\ UNCHANGED removed
  /\ UNCHANGED <<executorVars, threadVars, copied, collected, root>>

Main == Allocate \/ Copy \/ Collect \/ Close \/ Cleanup

-----------------------------------------------------------------------------
(* A worker's thread.                                                      *)

Step(w, from, to) ==
  /\ at[w] = from
  /\ at' = [at EXCEPT ![w] = to]

(* A snapshot that cannot be read, an executor that is not provisioned, an *)
(* evaluator that raises, an envelope that is refused: the future fails.   *)
Fail(w) ==
  /\ at[w] \in {"before", "after", "evaluate", "envelope"}
  /\ at' = [at EXCEPT ![w] = "failed"]
  /\ UNCHANGED <<executorVars, before, after, success, mainVars, root>>

SnapshotBefore(w) ==
  /\ Step(w, "before", "executor")
  /\ before' = [before EXCEPT ![w] = root[w]]
  /\ UNCHANGED <<executorVars, after, success, mainVars, root>>

RunTurnUntilAccepted(w) ==
  /\ at[w] = "executor"
  /\ Executor!Executor(w)
  /\ at' = IF verdict'[w] = "accepted" THEN [at EXCEPT ![w] = "identity"] ELSE at
  /\ UNCHANGED <<before, after, success, mainVars, root>>

(* executor.run, one step of it at a time.                                 *)
RunTurn(w) ==
  /\ at[w] = "executor"
  /\ Executor!Executor(w)
  /\ at' = CASE verdict'[w] = "none"     -> at
             [] verdict'[w] = "accepted" -> [at EXCEPT ![w] = "identity"]
             [] OTHER                    -> [at EXCEPT ![w] = "failed"]
  /\ UNCHANGED <<before, after, success, mainVars, root>>

(* The accepted output names the worker it is of, or the other one.        *)
CheckIdentity(w) ==
  /\ Step(w, "identity", "after") \/ Step(w, "identity", "failed")
  /\ UNCHANGED <<executorVars, before, after, success, mainVars, root>>

SnapshotAfter(w) ==
  /\ Step(w, "after", "evaluate")
  /\ after' = [after EXCEPT ![w] = root[w]]
  /\ UNCHANGED <<executorVars, before, success, mainVars, root>>

Evaluate(w) ==
  /\ Step(w, "evaluate", "envelope")
  /\ \E s \in BOOLEAN : success' = [success EXCEPT ![w] = s]
  /\ UNCHANGED <<executorVars, before, after, mainVars, root>>

MakeEnvelope(w) ==
  /\ Step(w, "envelope", "done")
  /\ UNCHANGED <<executorVars, before, after, success, mainVars, root>>

Worker(w) ==
  \/ SnapshotBefore(w) \/ RunTurn(w) \/ CheckIdentity(w) \/ SnapshotAfter(w)
  \/ Evaluate(w) \/ MakeEnvelope(w) \/ Fail(w)

-----------------------------------------------------------------------------
(* The agent edits its copy during its turn, and a command it has started  *)
(* edits it for as long as the command runs.                               *)
AgentEdits(w) ==
  /\ ~ removed
  /\ pc[w] = "inferring" \/ command[w]
  /\ \E p \in Paths, c \in Contents \cup {Original, Deleted} :
       /\ c # root[w][p]
       /\ root' = [root EXCEPT ![w][p] = c]
  /\ UNCHANGED <<executorVars, threadVars, mainVars>>

Environment(w) ==
  \/ AgentEdits(w)
  \/ /\ at[w] = "executor" /\ Executor!CommandStarts(w)
     /\ UNCHANGED <<threadVars, mainVars, root>>
  \/ /\ Executor!CommandExits(w)
     /\ UNCHANGED <<threadVars, mainVars, root>>

Finished == main = "over" /\ UNCHANGED vars

Next ==
  \/ Main
  \/ \E w \in Workers : Worker(w) \/ Environment(w)
  \/ Finished

Spec == Init /\ [][Next]_vars

(* The operating system schedules both threads and the main thread, and a  *)
(* transport ends every turn (its deadline: AppServer, EveryRunEnds).      *)
FairSpec == Spec /\ WF_vars(Main) /\ \A w \in Workers : WF_vars(Worker(w))

-----------------------------------------------------------------------------
(* score_coordination, on what two snapshots say each worker has edited.   *)

Edited(w, first, second) == {p \in Paths : first[w][p] # second[w][p]}

Edits == [w \in Workers |-> Edited(w, before, after)]

ConflictsOfWrittenFiles ==
  {p \in Edits["worker-a"] \cap Edits["worker-b"] :
     /\ after["worker-a"][p] # after["worker-b"][p]
     /\ \A w \in Workers : after[w][p] # Deleted}

(* Two edits of one path conflict if they leave different contents; a      *)
(* deletion counts as a content of its own.                                *)
Conflicts ==
  {p \in Edits["worker-a"] \cap Edits["worker-b"] :
     after["worker-a"][p] # after["worker-b"][p]}

(* Edits outside the scope of the worker that made them.                   *)
Collisions == {e \in Workers \X Paths : e[2] \in Edits[e[1]] \ Scope[e[1]]}

Score == [conflicting_edits |-> Cardinality(Conflicts),
          scope_collisions |-> Cardinality(Collisions),
          joint_success |-> \A w \in Workers : success[w]]

Returned == main = "over" /\ outcome = "returned"

-----------------------------------------------------------------------------
(* A case that returns a result has it from both workers: each turn was    *)
(* accepted, and each has its own capture if the names are distinct.       *)
ResultIsOfBothWorkers ==
  Returned =>
    /\ collected = <<"worker-a", "worker-b">>
    /\ \A w \in Workers : verdict[w] = "accepted"
    /\ Executor!AcceptedTurnHasItsCapture

(* No thread works in a workspace that has been removed, although one      *)
(* failed worker ends the wait for the other.                              *)
WorkspaceOutlivesWorkers ==
  removed => \A w \in Workers : at[w] \in {"unsubmitted", "done", "failed"}

(* The edits that are scored are the edits that were made: nothing a turn  *)
(* has left running changes the copy once it has been snapshotted.         *)
ScoredEditsAreFinal ==
  Returned => \A w \in Workers : Edits[w] = {p \in Paths : root[w][p] # Original}
                                /\ after[w] = root[w]

(* The score is of what was done: it reports no conflict exactly if one    *)
(* tree holds the edits of both copies, deletions included, and no         *)
(* collision exactly if each worker kept to its scope.                     *)
ScoreIsOfTheEdits ==
  Returned =>
    /\ Score.conflicting_edits = 0 <=>
         \E merged \in Files : \A w \in Workers, p \in Paths :
           root[w][p] # Original => merged[p] = root[w][p]
    /\ Score.scope_collisions = 0 <=>
         \A w \in Workers : {p \in Paths : root[w][p] # Original} \subseteq Scope[w]

(* Every case ends, with a result or an error, whichever worker fails.     *)
EveryCaseEnds == <>(main = "over")
=============================================================================
