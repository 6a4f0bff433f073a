---------------------------- MODULE SmokeAdapter ----------------------------
(***************************************************************************)
(* One PactBench task run for real: RealRunnerV2 (harness/runners.py)      *)
(* starts the adapter harness/codex_real_runner_v2.py as a shell command,  *)
(* and the adapter materialises the task (pactbench/materialize.py),       *)
(* checks it, lets an agent take one turn in it, reads what the turn has   *)
(* left, writes a capture and answers.  The work directory and the capture *)
(* are named after the task alone, so that all calls for one task share    *)
(* them.  The adapter may die, raise or be killed anywhere; the runner's   *)
(* time limit kills the shell, and the adapter only if it is that shell.   *)
(*                                                                         *)
(* A turn is the number of requests it made.  What the adapter reports, in *)
(* its answer and in its capture, is the class of its failure and the      *)
(* number of requests in its telemetry.                                    *)
(***************************************************************************)
EXTENDS Naturals, FiniteSets

CONSTANTS
    Calls,          \* calls of RealRunnerV2.run for the task
    Nobody,         \* not a call
    MaxRequests,    \* bound: requests an agent makes in one turn
    Platforms       \* "posix" and "windows", which differ in subprocess.run

ASSUME SmokeAssumption ==
    /\ Nobody \notin Calls
    /\ MaxRequests \in Nat
    /\ Platforms \subseteq {"posix", "windows"}

VARIABLES
    platform,       \* where this behaviour takes place
    runner,         \* for each call, the thread in RealRunnerV2.run
    at,             \* for each call, the place of its adapter in _main
    report,         \* for each call, what its adapter is about to report
    answered,       \* calls whose adapter printed its answer
    served,         \* for each call, requests the agent really made
    told,           \* for each call, requests in the run the client returned
    tree,           \* the work directory
    maker,          \* the call that made the last work directory
    entered,        \* calls whose turn began in the present work directory
    capture         \* the capture file

adapterVars == <<at, report, answered, served, told>>
vars == <<platform, runner, adapterVars, tree, maker, entered, capture>>

Failures == {"none", "benchmark_material_failure", "action_signal_unavailable",
             "telemetry_or_app_server_failure", "adapter_failure"}
Reports == [failure: Failures, requests: 0 .. MaxRequests]

(* _zero_telemetry goes with every failure that has no telemetry.          *)
NoTelemetry(failure) == [failure |-> failure, requests |-> 0]
NoReport == NoTelemetry("none")

Capture(c, whole, r) == [of |-> c, whole |-> whole, report |-> r]

Places == {"idle", "admit", "look", "make", "setup", "render", "preflight", "commit",
           "turn", "grade", "account", "capture", "write", "answer", "gone"}
Alive(c) == at[c] \notin {"idle", "gone"}

TypeOK ==
    /\ platform \in Platforms
    /\ runner \in [Calls -> {"idle", "waiting", "reaping", "returned", "raised"}]
    /\ at \in [Calls -> Places]
    /\ report \in [Calls -> Reports]
    /\ answered \subseteq Calls
    /\ served \in [Calls -> 0 .. MaxRequests]
    /\ told \in [Calls -> 0 .. MaxRequests]
    /\ tree \in {"none", "partial", "whole", "committed"}
    /\ maker \in Calls \cup {Nobody}
    /\ entered \subseteq Calls
    /\ capture \in [of: Calls \cup {Nobody}, whole: BOOLEAN, report: Reports]

Init ==
    /\ platform \in Platforms
    /\ runner = [c \in Calls |-> "idle"]
    /\ at = [c \in Calls |-> "idle"]
    /\ report = [c \in Calls |-> NoReport]
    /\ answered = {}
    /\ served = [c \in Calls |-> 0]
    /\ told = [c \in Calls |-> 0]
    /\ tree = "none"
    /\ maker = Nobody
    /\ entered = {}
    /\ capture = Capture(Nobody, FALSE, NoReport)

-----------------------------------------------------------------------------
(* The adapter.                                                            *)

Goto(c, from, to) == at[c] = from /\ at' = [at EXCEPT ![c] = to]
Concludes(c, r) == report' = [report EXCEPT ![c] = r]

(* The request, the task and its audit are in order.                       *)
Admit(c) ==
    /\ Goto(c, "admit", "look")
    /\ UNCHANGED <<platform, runner, report, answered, served, told, tree, maker,
                   entered, capture>>

(* "refusing to reuse materialized work directory".                        *)
LookForWork(c) ==
    /\ tree = "none"
    /\ Goto(c, "look", "make")
    /\ UNCHANGED <<platform, runner, report, answered, served, told, tree, maker,
                   entered, capture>>

(* A slip: copytree with dirs_exist_ok.                                    *)
MakeTreeAnyway(c) ==
    /\ Goto(c, "make", "setup")
    /\ tree' = "partial"
    /\ maker' = c
    /\ UNCHANGED <<platform, runner, report, answered, served, told, entered, capture>>

(* Nobody else has made the directory since: both the second look and      *)
(* copytree, whose mkdir is atomic, refuse one that exists.                *)
MakeTree(c) ==
    /\ tree = "none"
    /\ Goto(c, "make", "setup")
    /\ tree' = "partial"
    /\ maker' = c
    /\ UNCHANGED <<platform, runner, report, answered, served, told, entered, capture>>

(* The fixture has been copied and the task's set-up applied to it.        *)
ApplySetup(c) ==
    /\ Goto(c, "setup", "render")
    /\ UNCHANGED <<platform, runner, report, answered, served, told, tree, maker,
                   entered, capture>>

(* The condition is rendered, without touching what the task is about.     *)
RenderArm(c) ==
    /\ Goto(c, "render", "preflight")
    /\ tree' = "whole"
    /\ UNCHANGED <<platform, runner, report, answered, served, told, maker, entered,
                   capture>>

(* A failed check ends the call with a capture and without an inference.   *)
RunPreflight(c) ==
    /\ \/ /\ Goto(c, "preflight", "commit")
          /\ UNCHANGED report
       \/ /\ Goto(c, "preflight", "capture")
          /\ Concludes(c, NoTelemetry("benchmark_material_failure"))
    /\ UNCHANGED <<platform, runner, answered, served, told, tree, maker, entered,
                   capture>>

(* The seed commit is made, and the turn begins.                           *)
BeginTurn(c) ==
    /\ Goto(c, "commit", "turn")
    /\ tree' = "committed"
    /\ entered' = entered \cup {c}
    /\ UNCHANGED <<platform, runner, report, answered, served, told, maker, capture>>

ServeRequest(c) ==
    /\ at[c] = "turn"
    /\ served[c] < MaxRequests
    /\ served' = [served EXCEPT ![c] = @ + 1]
    /\ UNCHANGED <<platform, runner, at, report, answered, told, tree, maker, entered,
                   capture>>

(* CodexAppServer.run returns the requests it was told of, or raises.      *)
EndTurn(c) ==
    /\ \/ /\ Goto(c, "turn", "grade")
          /\ \E n \in 0 .. served[c] : told' = [told EXCEPT ![c] = n]
          /\ UNCHANGED report
       \/ /\ Goto(c, "turn", "capture")
          /\ Concludes(c, NoTelemetry("telemetry_or_app_server_failure"))
          /\ UNCHANGED told
    /\ UNCHANGED <<platform, runner, answered, served, tree, maker, entered, capture>>

(* The requests telemetry_from_app_run makes records of.                   *)
Accounted(c) == told[c]

(* Tests, frozen surface, git and files; a failure that _main expects      *)
(* leaves the call without telemetry.                                      *)
ReadPostconditions(c) ==
    /\ \/ /\ Goto(c, "grade", "account")
          /\ UNCHANGED report
       \/ /\ Goto(c, "grade", "capture")
          /\ Concludes(c, NoTelemetry("telemetry_or_app_server_failure"))
    /\ UNCHANGED <<platform, runner, answered, served, told, tree, maker, entered,
                   capture>>

(* The records and then the action signal, or a UsageLedgerError: no       *)
(* request was accepted, the task's tokens do not fit into the first one,  *)
(* or they cannot be counted.                                              *)
Account(c) ==
    /\ Goto(c, "account", "capture")
    /\ \/ Concludes(c, NoTelemetry("telemetry_or_app_server_failure"))
       \/ /\ told[c] > 0
          /\ \E failure \in {"none", "action_signal_unavailable"} :
                Concludes(c, [failure |-> failure, requests |-> Accounted(c)])
    /\ UNCHANGED <<platform, runner, answered, served, told, tree, maker, entered,
                   capture>>

(* Redacted and found free of secrets; write_text empties the file first.  *)
OpenCapture(c) ==
    /\ Goto(c, "capture", "write")
    /\ capture' = Capture(c, FALSE, NoReport)
    /\ UNCHANGED <<platform, runner, report, answered, served, told, tree, maker, entered>>

(* A slip: a full disk goes unnoticed.                                     *)
WriteCaptureQuietly(c) ==
    /\ Goto(c, "write", "answer")
    /\ capture' \in {capture, Capture(c, TRUE, report[c])}
    /\ UNCHANGED <<platform, runner, report, answered, served, told, tree, maker, entered>>

WriteCapture(c) ==
    /\ Goto(c, "write", "answer")
    /\ capture' = Capture(c, TRUE, report[c])
    /\ UNCHANGED <<platform, runner, report, answered, served, told, tree, maker, entered>>

Answer(c) ==
    /\ Goto(c, "answer", "gone")
    /\ answered' = answered \cup {c}
    /\ UNCHANGED <<platform, runner, report, served, told, tree, maker, entered, capture>>

(* What _main does not catch ends in the last handler: a refusal, a git    *)
(* command that fails, a file of the agent that is not UTF-8, a secret     *)
(* that survived the redaction, a full disk.  It writes no capture.        *)
Unguarded == {"admit", "look", "make", "setup", "render", "preflight", "commit",
              "grade", "capture", "write"}

Raise(c) ==
    /\ at[c] \in Unguarded
    /\ at' = [at EXCEPT ![c] = "answer"]
    /\ Concludes(c, NoTelemetry("adapter_failure"))
    /\ UNCHANGED <<platform, runner, answered, served, told, tree, maker, entered, capture>>

(* The process dies.                                                       *)
Die(c) ==
    /\ Alive(c)
    /\ at' = [at EXCEPT ![c] = "gone"]
    /\ UNCHANGED <<platform, runner, report, answered, served, told, tree, maker,
                   entered, capture>>

-----------------------------------------------------------------------------
(* The runner.                                                             *)

Run(c) ==
    /\ runner[c] = "idle"
    /\ runner' = [runner EXCEPT ![c] = "waiting"]
    /\ Goto(c, "idle", "admit")
    /\ UNCHANGED <<platform, report, answered, served, told, tree, maker, entered, capture>>

(* parse_response_v2: "completed response requires per-request telemetry". *)
InContract(r) == r.failure = "none" => r.requests > 0

Receive(c) ==
    /\ runner[c] = "waiting"
    /\ at[c] = "gone"
    /\ runner' = [runner EXCEPT ![c] =
            IF c \in answered /\ InContract(report[c]) THEN "returned" ELSE "raised"]
    /\ UNCHANGED <<platform, adapterVars, tree, maker, entered, capture>>

(* A slip: communicate() on every platform.                                *)
AfterKillReading == "reaping"

(* After a kill, subprocess.run waits for the shell; on Windows it reads   *)
(* the pipes to their end, which the adapter has inherited.                *)
AfterKill == IF platform = "windows" THEN "reaping" ELSE "raised"

TimeOut(c) ==
    /\ runner[c] = "waiting"
    /\ Alive(c)
    /\ runner' = [runner EXCEPT ![c] = AfterKill]
    /\ at' \in {at, [at EXCEPT ![c] = "gone"]}
    /\ UNCHANGED <<platform, report, answered, served, told, tree, maker, entered, capture>>

Reap(c) ==
    /\ runner[c] = "reaping"
    /\ at[c] = "gone"
    /\ runner' = [runner EXCEPT ![c] = "raised"]
    /\ UNCHANGED <<platform, adapterVars, tree, maker, entered, capture>>

(* Somebody removes the work directory, to run the task again, and first   *)
(* makes sure that no adapter of an earlier call is left.                  *)
ClearWork ==
    /\ tree # "none"
    /\ \A c \in Calls : ~ Alive(c)
    /\ tree' = "none"
    /\ entered' = {}
    /\ UNCHANGED <<platform, runner, adapterVars, maker, capture>>

-----------------------------------------------------------------------------
(* What an adapter does by itself, the turn apart.                         *)
Adapter(c) ==
    \/ Admit(c) \/ LookForWork(c) \/ MakeTree(c) \/ ApplySetup(c) \/ RenderArm(c)
    \/ RunPreflight(c) \/ BeginTurn(c) \/ ReadPostconditions(c) \/ Account(c)
    \/ OpenCapture(c) \/ WriteCapture(c) \/ Answer(c) \/ Raise(c)

Waiting(c) == Receive(c) \/ TimeOut(c) \/ Reap(c)

Next ==
    \/ \E c \in Calls : \/ Adapter(c) \/ ServeRequest(c) \/ EndTurn(c) \/ Die(c)
                        \/ Run(c) \/ Waiting(c)
    \/ ClearWork

Spec == Init /\ [][Next]_vars

(* The adapter and the runner are scheduled, and 1800 seconds pass; that a *)
(* turn ends is not assumed.                                               *)
FairSpec ==
    /\ Spec
    /\ \A c \in Calls : WF_vars(Adapter(c)) /\ WF_vars(Waiting(c))

-----------------------------------------------------------------------------
(* "refusing to reuse materialized work directory": an agent always works  *)
(* in a directory that its own call has made, filled, checked and          *)
(* committed, and in which no other turn ever began, although any number   *)
(* of calls start at once, die half way and are repeated.                  *)
TurnHasItsOwnTree ==
    \A c \in Calls : at[c] = "turn" =>
        tree = "committed" /\ maker = c /\ entered = {c}

(* What the runner returns is backed by the capture it names: whole, of    *)
(* the same call, with the same failure and the same requests, and none of *)
(* these requests invented.  It stays so, whatever later calls try, until  *)
(* the work directory is removed and made again.  Excepted is the answer   *)
(* that says "capture-unavailable".                                        *)
ReturnedIsCaptured ==
    \A c \in Calls :
        runner[c] = "returned" /\ report[c].failure # "adapter_failure" /\ maker = c =>
            /\ capture = Capture(c, TRUE, report[c])
            /\ report[c].requests <= served[c]
            /\ report[c].failure = "none" => report[c].requests > 0

(* "Missing telemetry is an invalid runner response; it is never converted *)
(* into zeroes" (harness README): a returned action without requests is of *)
(* a call that made none.                                                  *)
MissingTelemetryIsNeverZero ==
    \A c \in Calls :
        runner[c] = "returned" /\ report[c].requests = 0 => served[c] = 0

(* Every call returns or raises, although turns may never end, unless      *)
(* Windows makes it wait for an adapter that outlives its shell in a turn  *)
(* without end.                                                            *)
EveryCallReturns ==
    \A c \in Calls : runner[c] \in {"waiting", "reaping"} ~>
        \/ runner[c] \in {"returned", "raised"}
        \/ platform = "windows" /\ [](at[c] = "turn")
=============================================================================
