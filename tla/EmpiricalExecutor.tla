------------------------- MODULE EmpiricalExecutor -------------------------
(***************************************************************************)
(* EmpiricalExecutor.run of benchmarks/harness/empirical.py: check the     *)
(* prompt and the workspace, let a transport run one turn, refuse what is  *)
(* not evidence, write the capture, and only then validate the turn that   *)
(* is handed to the study.  Several runs share one capture directory: the  *)
(* workers of S3 at once, the cases of a study one after the other.  The   *)
(* capture is written in place (the file is emptied, then filled), and the *)
(* process may die between any two steps.                                  *)
(*                                                                         *)
(* What a turn did is abstracted to its flaws, one for each thing run() or *)
(* validate() looks at, and to the command it may have left running.       *)
(***************************************************************************)
EXTENDS Naturals, FiniteSets

CONSTANTS
  Runs,          \* calls of run()
  Names,         \* paths below capture_root
  CaptureName,   \* the path each run was given
  Flaws,         \* the flaws a turn may have
  Proving,       \* the runs whose transport looks for commands left behind
  MayCrash       \* whether the process may die

Unwritable == {"model", "not_json", "schema", "no_requests", "secret"}

ASSUME ExecutorAssumption ==
  /\ CaptureName \in [Runs -> Names]
  /\ Flaws \subseteq Unwritable \cup {"lifecycle"}
  /\ Proving \subseteq Runs /\ MayCrash \in BOOLEAN
  /\ {"absent", "empty", "broken"} \cap Runs = {}

VARIABLES
  pc,            \* where each run is
  verdict,       \* "none", "accepted", "rejected" or "crashed"
  flaws,         \* of the turn the transport returned
  cleared,       \* public_command_processes_terminated, as reported
  command,       \* a command of the turn is running
  disk           \* each capture file: the run whose whole capture it holds, or
                 \* "absent", "empty", or "broken" (part of one, or of two)

vars == <<pc, verdict, flaws, cleared, command, disk>>

TypeOK ==
  /\ pc \in [Runs -> {"idle", "inferring", "checking", "opening", "writing",
                      "validating", "over"}]
  /\ verdict \in [Runs -> {"none", "accepted", "rejected", "crashed"}]
  /\ \A r \in Runs : pc[r] = "over" <=> verdict[r] # "none"
  /\ flaws \in [Runs -> SUBSET Flaws]
  /\ cleared \in [Runs -> BOOLEAN]
  /\ command \in [Runs -> BOOLEAN]
  /\ disk \in [Names -> Runs \cup {"absent", "empty", "broken"}]

Init ==
  /\ pc = [r \in Runs |-> "idle"]
  /\ verdict = [r \in Runs |-> "none"]
  /\ flaws = [r \in Runs |-> {}]
  /\ cleared = [r \in Runs |-> FALSE]
  /\ command = [r \in Runs |-> FALSE]
  /\ disk = [n \in Names |-> "absent"]

Goto(r, stage) ==
  /\ pc' = [pc EXCEPT ![r] = stage]
  /\ UNCHANGED verdict

End(r, how) ==
  /\ pc' = [pc EXCEPT ![r] = "over"]
  /\ verdict' = [verdict EXCEPT ![r] = how]

(* An empty prompt, no workspace identity, a workspace that fails its      *)
(* security check, or a capture path outside capture_root: no inference.   *)
Preflight(r) ==
  /\ pc[r] = "idle"
  /\ Goto(r, "inferring") \/ End(r, "rejected")
  /\ UNCHANGED <<flaws, cleared, command, disk>>

(* The turn's tools start a command, which the run may end or leave.       *)
CommandStarts(r) ==
  /\ pc[r] = "inferring"
  /\ ~ command[r]
  /\ command' = [command EXCEPT ![r] = TRUE]
  /\ UNCHANGED <<pc, verdict, flaws, cleared, disk>>

CommandExits(r) ==
  /\ command[r]
  /\ command' = [command EXCEPT ![r] = FALSE]
  /\ UNCHANGED <<pc, verdict, flaws, cleared, disk>>

(* What the lifecycle record may say of the commands: a transport that     *)
(* looks never clears a turn that left one, but may fail to find out; one  *)
(* that does not look says they are gone.                                  *)
Report(r) == IF r \in Proving THEN {FALSE, ~ command[r]} ELSE {TRUE}

(* transport.run returns a turn, or raises and leaves no trace.            *)
Infer(r) ==
  /\ pc[r] = "inferring"
  /\ \/ /\ Goto(r, "checking")
        /\ \E f \in SUBSET Flaws, c \in Report(r) :
             /\ flaws' = [flaws EXCEPT ![r] = f]
             /\ cleared' = [cleared EXCEPT ![r] = c]
     \/ /\ End(r, "rejected")
        /\ UNCHANGED <<flaws, cleared>>
  /\ UNCHANGED <<command, disk>>

IgnoringSecrets(r) == flaws[r] \cap (Unwritable \ {"secret"}) = {}

(* Model identity, JSON, schema, request telemetry, secrets.               *)
Writable(r) == flaws[r] \cap Unwritable = {}

Check(r) ==
  /\ pc[r] = "checking"
  /\ IF Writable(r) THEN Goto(r, "opening") ELSE End(r, "rejected")
  /\ UNCHANGED <<flaws, cleared, command, disk>>

(* Path.write_text opens the file and thereby empties it ...               *)
Open(r) ==
  /\ pc[r] = "opening"
  /\ \/ /\ Goto(r, "writing")
        /\ disk' = [disk EXCEPT ![CaptureName[r]] = "empty"]
     \/ /\ End(r, "rejected")
        /\ UNCHANGED disk
  /\ UNCHANGED <<flaws, cleared, command>>

(* ... and then writes it from the start, over whatever another run has    *)
(* written there since; the longer of the two keeps its tail.              *)
Filled(r) ==
  IF disk[CaptureName[r]] = "empty" THEN {r} ELSE {r, "broken"}

WriteUnchecked(r) ==
  /\ pc[r] = "writing"
  /\ \E content \in Filled(r) \cup {"broken"} :
       disk' = [disk EXCEPT ![CaptureName[r]] = content]
  /\ Goto(r, "validating")
  /\ UNCHANGED <<flaws, cleared, command>>

Write(r) ==
  /\ pc[r] = "writing"
  /\ \/ /\ Goto(r, "validating")
        /\ \E content \in Filled(r) :
             disk' = [disk EXCEPT ![CaptureName[r]] = content]
     \/ /\ End(r, "rejected")                  \* the write fails half way
        /\ disk' = [disk EXCEPT ![CaptureName[r]] = "broken"]
  /\ UNCHANGED <<flaws, cleared, command>>

ProvenWhateverIsLeft(r) == "lifecycle" \notin flaws[r]

(* The process record and the initialize response are in order, and no     *)
(* command process is left or unqueryable.                                 *)
Proven(r) == "lifecycle" \notin flaws[r] /\ cleared[r]

Validate(r) ==
  /\ pc[r] = "validating"
  /\ IF Proven(r) THEN End(r, "accepted") ELSE End(r, "rejected")
  /\ UNCHANGED <<flaws, cleared, command, disk>>

(* The process dies, with every run that is under way.                     *)
Crash ==
  /\ MayCrash
  /\ \E r \in Runs : pc[r] \notin {"idle", "over"}
  /\ pc' = [r \in Runs |-> "over"]
  /\ verdict' = [r \in Runs |-> IF pc[r] = "over" THEN verdict[r] ELSE "crashed"]
  /\ UNCHANGED <<flaws, cleared, command, disk>>

Executor(r) ==
  \/ Preflight(r) \/ Infer(r) \/ Check(r) \/ Open(r) \/ Write(r) \/ Validate(r)

Environment(r) == CommandStarts(r) \/ CommandExits(r)

Finished == (\A r \in Runs : pc[r] = "over") /\ UNCHANGED vars

Next == (\E r \in Runs : Executor(r) \/ Environment(r)) \/ Crash \/ Finished

Spec == Init /\ [][Next]_vars

-----------------------------------------------------------------------------
(* Nobody else was given the name.                                         *)
OwnName(r) == \A q \in Runs : CaptureName[q] = CaptureName[r] => q = r

(* "One real model turn plus all evidence needed to reproduce its          *)
(* accounting" (EmpiricalTurn): an accepted turn has its whole capture     *)
(* under its name, and keeps it whatever else fails or dies, as long as    *)
(* nobody else was given that name.                                        *)
AcceptedTurnHasItsCapture ==
  \A r \in Runs :
    verdict[r] = "accepted" /\ OwnName(r) => disk[CaptureName[r]] = r

(* A file that was ever opened for a capture belongs to runs whose turn    *)
(* was fit to be written: nothing of a turn with a secret, a foreign model *)
(* or an output outside the schema reaches the disk, not even in part.     *)
OnlyFitTurnsReachTheDisk ==
  \A n \in Names : disk[n] # "absent" =>
    \E r \in Runs :
      /\ CaptureName[r] = n
      /\ flaws[r] \cap Unwritable = {}
      /\ pc[r] \in {"writing", "validating", "over"}

(* "empirical turn left a public command process running or unqueryable":  *)
(* no command of an accepted turn is still running, so that nothing edits  *)
(* the workspace a study is about to grade.  The code does this for the    *)
(* Codex transport; the Claude transport only says so (transport.py:394).  *)
AcceptedTurnLeftNoCommand ==
  \A r \in Proving : verdict[r] = "accepted" => ~ command[r]
=============================================================================
