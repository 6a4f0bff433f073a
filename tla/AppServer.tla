----------------------------- MODULE AppServer -----------------------------
(***************************************************************************)
(* One benchmark turn through the public app-server protocol:              *)
(* CodexAppServer.run of benchmarks/harness/codex_app_server.py, with the  *)
(* server process it owns.  The client sends initialize, initialized,      *)
(* thread/start and turn/start on the server's stdin and reads one message *)
(* at a time from its stdout, all under one deadline; whatever happens, it *)
(* leaves through the same finally block, which closes stdin, terminates   *)
(* the process, escalates to a kill, and writes the lifecycle record.      *)
(*                                                                         *)
(* The server (code outside this repository) is modelled as run() must     *)
(* expect it: it answers what it was asked, successfully or with an error, *)
(* repeats usage notifications, asks for approvals under ids of its own,   *)
(* starts commands that may outlive it, may emit a line that is not JSON,  *)
(* close stdout or exit at any time, may ignore a terminate request, and   *)
(* may leave what the client writes unread.                                *)
(***************************************************************************)
EXTENDS UsageLedger, FiniteSets

CONSTANTS
  Lasts,               \* the usage a single inference request may report
  Items,               \* the agent messages a turn may produce
  Pids,                \* the commands a turn may start
  AskIds,              \* ids the server may use for its own requests
  MaxRequests,         \* bound: inference requests a server serves
  Sides                \* the sides of the protocol a server may exercise

ASSUME LastsAssumption ==
  \A u \in Lasts : u \in UsageBreakdown /\ WellFormed(u) /\ ~ IsZero(u)

(* A side is what one server does: which items, commands and requests of   *)
(* its own, whether stderr may stay open after stdout is closed, and bounds *)
(* on the messages it writes to stdout, the inference requests it serves   *)
(* and the streamed pieces of one agent message.                           *)
Side ==
  [items : SUBSET Items, pids : SUBSET Pids, asks : SUBSET AskIds,
   stderrOutlives : BOOLEAN, messages : Nat,
   requests : 0 .. MaxRequests, pieces : Nat]

ASSUME SidesAssumption ==
  MaxRequests \in Nat /\ AskIds \subseteq Nat /\ Sides \subseteq Side

VARIABLES              \* of the client
  pc,                  \* where run() is
  outcome,             \* how it left the try block
  expired,             \* the deadline has passed
  writing,             \* the line that _send is writing to the server's stdin
  sent,                \* ids of the requests written to it
  cursor,              \* how many messages have been read (and recorded)
  ledger,              \* the UsageLedger
  usageAt,             \* the event index of every accepted usage
  refused,             \* ids of the server requests answered with an error
  answers,             \* agent_messages, in insertion order
  finalOutput,         \* the text handed to the caller
  termination,         \* termination_method
  lifecycle            \* the record of the finally block

VARIABLES              \* of the server and its children
  side,                \* which side it exercises (constant)
  server,              \* "unborn", "running" or "exited"
  signals,             \* history: the signals the client has sent it
  stdout,              \* every message written so far; read up to cursor
  stdoutOpen,          \* the write end is still open
  answered,            \* client requests the server has answered
  served,              \* inference requests, with usage and running total
  notified,            \* how many of them have been notified
  stream,              \* how far each agent message has got
  commands             \* the state of each command

clientVars == <<pc, outcome, expired, writing, sent, cursor, ledger, usageAt, refused,
                answers, finalOutput, termination, lifecycle>>
serverVars == <<side, server, signals, stdout, stdoutOpen, answered, served, notified, stream,
                commands>>
vars == <<clientVars, serverVars>>

Message ==
  [kind : {"result"}, id : 1 .. 3, thread : BOOLEAN]
    \cup [kind : {"error"}, id : 1 .. 3]
    \cup [kind : {"ask"}, id : AskIds]
    \cup [kind : {"usage"}, request : Nat \ {0}]
    \cup [kind : {"delta", "item"}, item : Items]
    \cup [kind : {"command"}, pid : Pids]
    \cup [kind : {"completed"}, text : BOOLEAN]
    \cup [kind : {"garbage"}]

Request == [last : UsageBreakdown, total : UsageBreakdown]

(* An agent message as the client holds it: the streamed pieces it appended *)
(* after the last complete text it stored, if it stored one.                *)
Answer == [item : Items, whole : BOOLEAN, pieces : Nat]

(* A line of the client's: one of its three requests, or a refusal.        *)
Line == [kind : {"request"}, id : 1 .. 3] \cup [kind : {"refusal"}, id : AskIds]

Nothing == [kind |-> "nothing"]

NoOutput == [from |-> "none"]

NoLifecycle == [written |-> FALSE]

Lifecycle ==
  [written : {TRUE}, turn_completed_observed : BOOLEAN,
   termination_method : {"already_exited", "terminate", "kill_owned_process"},
   process_terminated : BOOLEAN, accepted_usage_count : Nat,
   final_usage_reconciled : BOOLEAN,
   public_command_process_ids : SUBSET Pids,
   public_command_processes_terminated : BOOLEAN]

Reading == {"initialize", "thread", "turn"}

TypeOK ==
  /\ pc \in Reading \cup {"spawn", "started", "draining", "cleanup",
                          "unterminated", "terminating", "killing", "reaped", "done"}
  /\ outcome \in {"none", "returned", "protocol_error", "os_error",
                  "timeout_expired"}
  /\ expired \in BOOLEAN
  /\ writing \in {Nothing} \cup Line
  /\ sent \subseteq 1 .. 3
  /\ stdout \in Seq(Message)
  /\ cursor \in 0 .. Len(stdout)
  /\ ledger \in Ledger
  /\ usageAt \in Seq(Nat)
  /\ refused \in Seq(AskIds)
  /\ answers \in Seq(Answer)
  /\ finalOutput \in {NoOutput, [from |-> "turn"]}
                       \cup [from : {"item"}, answer : Answer]
  /\ termination \in {"none", "already_exited", "terminate", "kill_owned_process"}
  /\ lifecycle \in {NoLifecycle} \cup Lifecycle
  /\ side \in Sides
  /\ server \in {"unborn", "running", "exited"}
  /\ signals \subseteq {"terminate", "kill"}
  /\ stdoutOpen \in BOOLEAN
  /\ answered \subseteq sent
  /\ served \in Seq(Request)
  /\ notified \in 0 .. Len(served)
  /\ stream \in [Items -> {"absent", "partial", "complete"}]
  /\ commands \in [Pids -> {"unstarted", "running", "exited"}]

Init ==
  /\ pc = "spawn"
  /\ outcome = "none"
  /\ expired = FALSE
  /\ writing = Nothing
  /\ sent = {}
  /\ cursor = 0
  /\ ledger = EmptyLedger
  /\ usageAt = <<>>
  /\ refused = <<>>
  /\ answers = <<>>
  /\ finalOutput = NoOutput
  /\ termination = "none"
  /\ lifecycle = NoLifecycle
  /\ side \in Sides
  /\ server = "unborn"
  /\ signals = {}
  /\ stdout = <<>>
  /\ stdoutOpen = FALSE
  /\ answered = {}
  /\ served = <<>>
  /\ notified = 0
  /\ stream = [i \in Items |-> "absent"]
  /\ commands = [p \in Pids |-> "unstarted"]

-----------------------------------------------------------------------------
(* The client's finally block starts wherever the try block is left.       *)
Leave(how) ==
  /\ outcome' = how
  /\ pc' = "cleanup"

RequestLine(i) == [kind |-> "request", id |-> i]

(* Popen; the deadline starts here, and initialize is written.             *)
Spawn ==
  /\ pc = "spawn"
  /\ server' = "running"
  /\ stdoutOpen' = TRUE
  /\ pc' = "started"
  /\ writing' = RequestLine(1)
  /\ UNCHANGED <<outcome, expired, sent, cursor, ledger, usageAt, refused,
                 answers, finalOutput, termination, lifecycle,
                 side, signals, stdout, answered, served, notified, stream, commands>>

-----------------------------------------------------------------------------
(* Reading on after the try block has been left.                           *)
ReceiveWhileCleaningUp(m) ==
  /\ pc \in Reading \cup {"cleanup"}
  /\ writing = Nothing
  /\ ~ expired
  /\ cursor < Len(stdout)
  /\ m = stdout[cursor + 1]
  /\ cursor' = cursor + 1

(* _read: one message, if it arrives before the deadline.                  *)
Receive(m) ==
  /\ pc \in Reading
  /\ writing = Nothing
  /\ ~ expired
  /\ cursor < Len(stdout)
  /\ m = stdout[cursor + 1]
  /\ cursor' = cursor + 1

TimeOutUnlessInTurn ==
  /\ pc \in Reading \ {"turn"}
  /\ writing = Nothing
  /\ expired
  /\ Leave("protocol_error")
  /\ UNCHANGED <<expired, writing, sent, cursor, ledger, usageAt, refused,
                 answers, finalOutput, termination, lifecycle, serverVars>>

TimeOut ==
  /\ pc \in Reading
  /\ writing = Nothing
  /\ expired
  /\ Leave("protocol_error")
  /\ UNCHANGED <<expired, writing, sent, cursor, ledger, usageAt, refused,
                 answers, finalOutput, termination, lifecycle, serverVars>>

(* End of file: _read goes on to read all of stderr, under no deadline.    *)
ReadEof ==
  /\ pc \in Reading
  /\ writing = Nothing
  /\ ~ expired
  /\ cursor = Len(stdout)
  /\ ~ stdoutOpen
  /\ pc' = "draining"
  /\ UNCHANGED <<outcome, expired, writing, sent, cursor, ledger, usageAt, refused,
                 answers, finalOutput, termination, lifecycle,
                 serverVars>>

StderrClosed ==
  /\ server = "exited"
  /\ side.stderrOutlives => \A p \in Pids : commands[p] # "running"

DrainStderr ==
  /\ pc = "draining"
  /\ StderrClosed
  /\ Leave("protocol_error")
  /\ UNCHANGED <<expired, writing, sent, cursor, ledger, usageAt, refused,
                 answers, finalOutput, termination, lifecycle, serverVars>>

ReadGarbage ==
  /\ Receive([kind |-> "garbage"])
  /\ Leave("protocol_error")
  /\ UNCHANGED <<expired, writing, sent, ledger, usageAt, refused,
                 answers, finalOutput, termination, lifecycle, serverVars>>

(* The position of the message just read among the recorded events, from 0. *)
EventCount == cursor + 1
EventIndex == cursor

(* accept_notification; a UsageLedgerError leaves as a protocol error.     *)
ReadUsage ==
  \E m \in [kind : {"usage"}, request : 1 .. Len(served)] :
    /\ Receive(m)
    /\ LET last    == served[m.request].last
           total   == served[m.request].total
           verdict == NotificationVerdict(ledger, last, total)
       IN  /\ ledger' = AcceptNotification(ledger, last, total)
           /\ usageAt' = IF verdict = "advance" THEN Append(usageAt, EventIndex)
                         ELSE usageAt
           /\ IF verdict = "error" THEN Leave("protocol_error")
              ELSE UNCHANGED <<pc, outcome>>
    /\ UNCHANGED <<expired, writing, sent, refused, answers, finalOutput,
                   termination, lifecycle, serverVars>>

(* The request run() is waiting for, if _await_response is reading.        *)
Awaited == CASE pc = "initialize" -> {1} [] pc = "thread" -> {2} [] OTHER -> {}

(* What run() does once _await_response has returned a message: initialize *)
(* is followed by initialized and thread/start, and thread/start, if the   *)
(* message names a thread, by turn/start.                                  *)
Proceed(hasThread) ==
  \/ /\ pc = "thread" /\ ~ hasThread
     /\ Leave("protocol_error")
     /\ writing' = Nothing
  \/ /\ pc = "initialize" \/ hasThread
     /\ writing' = RequestLine(IF pc = "initialize" THEN 2 ELSE 3)
     /\ UNCHANGED <<pc, outcome>>

(* A response; one that nobody waits for is only recorded, and so is an    *)
(* error response to turn/start.                                           *)
ReadResponse ==
  /\ \/ \E i \in 1 .. 3, t \in BOOLEAN :
          /\ Receive([kind |-> "result", id |-> i, thread |-> t])
          /\ IF i \in Awaited THEN Proceed(t)
             ELSE UNCHANGED <<pc, outcome, writing>>
     \/ \E i \in 1 .. 3 :
          /\ Receive([kind |-> "error", id |-> i])
          /\ IF i \in Awaited THEN Leave("protocol_error")
             ELSE UNCHANGED <<pc, outcome>>
          /\ UNCHANGED writing
  /\ UNCHANGED <<expired, sent, ledger, usageAt, refused, answers, finalOutput,
                 termination, lifecycle, serverVars>>

(* A request of the server's own is refused, whatever it asks for.         *)
ReadAsk ==
  /\ \E i \in AskIds :
       /\ Receive([kind |-> "ask", id |-> i])
       /\ writing' = [kind |-> "refusal", id |-> i]
  /\ UNCHANGED <<pc, outcome, expired, sent, ledger, usageAt, refused, answers,
                 finalOutput, termination, lifecycle, serverVars>>

-----------------------------------------------------------------------------
(* _send: write and flush, under no deadline.  They return once the line   *)
(* is in the pipe, which may have to wait for the server to read from it,  *)
(* and fail once the server has exited.                                    *)
RequestIsWritten ==
  /\ server = "running"
  /\ \E i \in 1 .. 3 :
       /\ writing = RequestLine(i)
       /\ sent' = sent \cup {i}
       /\ pc' = CASE i = 1 -> "initialize" [] i = 2 -> "thread" [] i = 3 -> "turn"
  /\ writing' = Nothing
  /\ UNCHANGED <<outcome, expired, cursor, ledger, usageAt, refused,
                 answers, finalOutput, termination, lifecycle, serverVars>>

RefusedOnce(i) ==
  IF \E k \in 1 .. Len(refused) : refused[k] = i THEN refused ELSE Append(refused, i)

(* _respond_error: the refusal names the id it answers.                    *)
Refused(i) == Append(refused, i)

(* _await_response then compares the id of the server's request with the   *)
(* one it awaits, although the two number different requests.              *)
RefusalIsWritten ==
  /\ server = "running"
  /\ \E i \in AskIds :
       /\ writing = [kind |-> "refusal", id |-> i]
       /\ refused' = Refused(i)
       /\ IF i \in Awaited THEN Proceed(FALSE)
          ELSE /\ writing' = Nothing
               /\ UNCHANGED <<pc, outcome>>
  /\ UNCHANGED <<expired, sent, cursor, ledger, usageAt, answers, finalOutput,
                 termination, lifecycle, serverVars>>

WriteFails ==
  /\ writing # Nothing
  /\ server = "exited"
  /\ Leave("os_error")
  /\ writing' = Nothing
  /\ UNCHANGED <<expired, sent, cursor, ledger, usageAt, refused,
                 answers, finalOutput, termination, lifecycle, serverVars>>

-----------------------------------------------------------------------------
AddPiece(a) == [a EXCEPT !.pieces = @ + 1]
SetWholeKeepingPieces(a) == [a EXCEPT !.whole = TRUE]
SetWhole(a) == [a EXCEPT !.whole = TRUE, !.pieces = 0]

(* Deltas are appended to what is there, item/completed replaces it.       *)
Updated(a, kind) == IF kind = "delta" THEN AddPiece(a) ELSE SetWhole(a)

(* agent_messages is a dict: a new key goes last, a known key keeps its    *)
(* place.                                                                  *)
Store(item, kind) ==
  IF \E k \in 1 .. Len(answers) : answers[k].item = item
  THEN [k \in 1 .. Len(answers) |->
          IF answers[k].item = item THEN Updated(answers[k], kind) ELSE answers[k]]
  ELSE Append(answers, Updated([item |-> item, whole |-> FALSE, pieces |-> 0], kind))

(* Agent messages count only in the turn loop, commands are only recorded. *)
ReadItem ==
  /\ \E i \in Items, kind \in {"delta", "item"} :
       /\ Receive([kind |-> kind, item |-> i])
       /\ answers' = IF pc = "turn" THEN Store(i, kind) ELSE answers
  /\ UNCHANGED <<pc, outcome, expired, writing, sent, ledger, usageAt, refused,
                 finalOutput, termination, lifecycle, serverVars>>

ReadCommand ==
  /\ \E p \in Pids : Receive([kind |-> "command", pid |-> p])
  /\ UNCHANGED <<pc, outcome, expired, writing, sent, ledger, usageAt, refused,
                 answers, finalOutput, termination, lifecycle,
                 serverVars>>

(* turn/completed ends the loop with the text of the last key of           *)
(* agent_messages, or else with a text found in the turn itself.           *)
ReadCompleted ==
  /\ \E t \in BOOLEAN :
       /\ Receive([kind |-> "completed", text |-> t])
       /\ finalOutput' =
            IF answers # <<>>
            THEN [from |-> "item", answer |-> answers[Len(answers)]]
            ELSE IF t THEN [from |-> "turn"] ELSE NoOutput
  /\ pc = "turn"
  /\ Leave("returned")
  /\ UNCHANGED <<expired, writing, sent, ledger, usageAt, refused,
                 answers, termination, lifecycle, serverVars>>

-----------------------------------------------------------------------------
(* The finally block: close stdin, terminate a process still running ...   *)
Terminate ==
  /\ pc = "cleanup"
  /\ \/ /\ server = "exited"
        /\ termination' = "already_exited"
        /\ pc' = "terminating"
        /\ UNCHANGED signals
     \/ /\ server = "running"
        /\ termination' = "terminate"
        /\ signals' = signals \cup {"terminate"}
        /\ pc' = "terminating"
  /\ UNCHANGED <<outcome, expired, writing, sent, cursor, ledger, usageAt, refused,
                 answers, finalOutput, lifecycle,
                 side, server, stdout, stdoutOpen, answered, served, notified, stream,
                 commands>>

(* ... unless the operating system refuses that: then what run() was about *)
(* to return is replaced if the process, looked at again, still runs ...   *)
TerminateFails ==
  /\ pc = "cleanup"
  /\ server = "running"
  /\ termination' = "already_exited"
  /\ pc' = "unterminated"
  /\ UNCHANGED <<outcome, expired, writing, sent, cursor, ledger, usageAt, refused,
                 answers, finalOutput, lifecycle, serverVars>>

PollAgain ==
  /\ pc = "unterminated"
  /\ IF server = "running"
     THEN /\ outcome' = "os_error"
          /\ pc' = "done"
     ELSE /\ pc' = "reaped"
          /\ UNCHANGED outcome
  /\ UNCHANGED <<expired, writing, sent, cursor, ledger, usageAt, refused,
                 answers, finalOutput, termination, lifecycle, serverVars>>

(* ... wait five seconds for it, twice at most, with a kill in between.    *)
Reap ==
  /\ pc \in {"terminating", "killing"}
  /\ server = "exited"
  /\ pc' = "reaped"
  /\ UNCHANGED <<outcome, expired, writing, sent, cursor, ledger, usageAt, refused,
                 answers, finalOutput, termination, lifecycle,
                 serverVars>>

WaitExpiresUnkilled ==
  /\ pc = "terminating"
  /\ server = "running"
  /\ pc' = "reaped"
  /\ UNCHANGED <<outcome, expired, writing, sent, cursor, ledger, usageAt, refused,
                 answers, finalOutput, termination, lifecycle,
                 serverVars>>

WaitExpires ==
  /\ pc = "terminating"
  /\ server = "running"
  /\ termination' = "kill_owned_process"
  /\ signals' = signals \cup {"kill"}
  /\ pc' = "killing"
  /\ UNCHANGED <<outcome, expired, writing, sent, cursor, ledger, usageAt, refused,
                 answers, finalOutput, lifecycle,
                 side, server, stdout, stdoutOpen, answered, served, notified, stream,
                 commands>>

(* A kill that is refused, and a second TimeoutExpired, are raised instead *)
(* of whatever run() was about to return.                                  *)
KillFails ==
  /\ pc = "terminating"
  /\ server = "running"
  /\ termination' = "kill_owned_process"
  /\ outcome' = "os_error"
  /\ pc' = "done"
  /\ UNCHANGED <<expired, writing, sent, cursor, ledger, usageAt, refused,
                 answers, finalOutput, lifecycle, serverVars>>

KillWaitExpires ==
  /\ pc = "killing"
  /\ server = "running"
  /\ outcome' = "timeout_expired"
  /\ pc' = "done"
  /\ UNCHANGED <<expired, writing, sent, cursor, ledger, usageAt, refused,
                 answers, finalOutput, termination, lifecycle, serverVars>>

NewestCommand ==
  {p \in Pids : \E k \in 1 .. cursor :
     /\ stdout[k] = [kind |-> "command", pid |-> p]
     /\ \A l \in k + 1 .. cursor : stdout[l].kind # "command"}

(* The commands the recorded events name.                                  *)
PublicCommands ==
  {p \in Pids : \E k \in 1 .. cursor : stdout[k] = [kind |-> "command", pid |-> p]}

WriteLifecycle ==
  /\ pc = "reaped"
  /\ lifecycle' =
       [written |-> TRUE,
        turn_completed_observed |-> outcome = "returned",
        termination_method |-> termination,
        process_terminated |-> server = "exited",
        accepted_usage_count |-> Len(usageAt),
        final_usage_reconciled |-> usageAt # <<>>,
        public_command_process_ids |-> PublicCommands,
        public_command_processes_terminated |->
          \A p \in PublicCommands : commands[p] = "exited"]
  /\ pc' = "done"
  /\ UNCHANGED <<outcome, expired, writing, sent, cursor, ledger, usageAt, refused,
                 answers, finalOutput, termination, serverVars>>

Client ==
  \/ Spawn \/ WriteFails
  \/ TimeOut \/ ReadEof \/ DrainStderr
  \/ ReadGarbage \/ ReadUsage \/ ReadResponse \/ ReadAsk
  \/ ReadItem \/ ReadCommand \/ ReadCompleted
  \/ Terminate \/ TerminateFails \/ PollAgain
  \/ Reap \/ WaitExpires \/ KillFails \/ KillWaitExpires \/ WriteLifecycle

Writes == RequestIsWritten \/ RefusalIsWritten

Expire ==
  /\ pc \in Reading
  /\ ~ expired
  /\ expired' = TRUE
  /\ UNCHANGED <<pc, outcome, writing, sent, cursor, ledger, usageAt, refused,
                 answers, finalOutput, termination, lifecycle,
                 serverVars>>

-----------------------------------------------------------------------------
(* The server, as far as run() can tell.                                   *)
Emit(m) ==
  /\ server = "running"
  /\ stdoutOpen
  /\ pc \in Reading
  /\ Len(stdout) < side.messages
  /\ stdout' = Append(stdout, m)

Wrote(kind) == \E k \in 1 .. Len(stdout) : stdout[k].kind = kind

(* The turn has been requested, not refused, and not completed.            *)
TurnOpen ==
  /\ 3 \in sent
  /\ ~ Wrote("completed")
  /\ \A k \in 1 .. Len(stdout) : stdout[k] # [kind |-> "error", id |-> 3]

ServerAnswers ==
  /\ \E i \in sent \ answered :
       /\ answered' = answered \cup {i}
       /\ \/ Emit([kind |-> "result", id |-> i, thread |-> i = 2])
          \/ i = 2 /\ Emit([kind |-> "result", id |-> i, thread |-> FALSE])
          \/ ~ (i = 3 /\ Wrote("completed")) /\ Emit([kind |-> "error", id |-> i])
  /\ UNCHANGED <<clientVars, side, server, signals, stdoutOpen, served, notified, stream, commands>>

ServerAsks ==
  /\ \E i \in side.asks : Emit([kind |-> "ask", id |-> i])
  /\ UNCHANGED <<clientVars, side, server, signals, stdoutOpen, answered, served, notified,
                 stream, commands>>

ServerInfers ==
  /\ TurnOpen
  /\ pc \in Reading
  /\ server = "running"
  /\ Len(served) < side.requests
  /\ \E u \in Lasts :
       served' = Append(served,
                   [last  |-> u,
                    total |-> IF served = <<>> THEN u
                              ELSE Plus(served[Len(served)].total, u)])
  /\ UNCHANGED <<clientVars, side, server, signals, stdout, stdoutOpen, answered, notified,
                 stream, commands>>

(* The usage of served requests, in order; some may be skipped, and the    *)
(* latest may be notified again.                                           *)
ServerNotifies ==
  /\ \E j \in (notified .. Len(served)) \ {0} :
       /\ Emit([kind |-> "usage", request |-> j])
       /\ notified' = j
  /\ UNCHANGED <<clientVars, side, server, signals, stdoutOpen, answered, served, stream, commands>>

Pieces(i) == Cardinality({k \in 1 .. Len(stdout) : stdout[k] = [kind |-> "delta", item |-> i]})

ServerStreams ==
  /\ TurnOpen
  /\ \E i \in side.items :
       /\ stream[i] # "complete"
       /\ \/ /\ Pieces(i) < side.pieces
             /\ Emit([kind |-> "delta", item |-> i])
             /\ stream' = [stream EXCEPT ![i] = "partial"]
          \/ /\ Emit([kind |-> "item", item |-> i])
             /\ stream' = [stream EXCEPT ![i] = "complete"]
  /\ UNCHANGED <<clientVars, side, server, signals, stdoutOpen, answered, served, notified, commands>>

ServerStartsCommand ==
  /\ TurnOpen
  /\ \E p \in side.pids :
       /\ commands[p] = "unstarted"
       /\ Emit([kind |-> "command", pid |-> p])
       /\ commands' = [commands EXCEPT ![p] = "running"]
  /\ UNCHANGED <<clientVars, side, server, signals, stdoutOpen, answered, served, notified, stream>>

ServerCompletes ==
  /\ TurnOpen
  /\ \E t \in BOOLEAN : Emit([kind |-> "completed", text |-> t])
  /\ UNCHANGED <<clientVars, side, server, signals, stdoutOpen, answered, served, notified,
                 stream, commands>>

ServerWritesGarbage ==
  /\ Emit([kind |-> "garbage"])
  /\ UNCHANGED <<clientVars, side, server, signals, stdoutOpen, answered, served, notified,
                 stream, commands>>

ServerClosesStdout ==
  /\ side.stderrOutlives
  /\ server = "running"
  /\ stdoutOpen
  /\ pc \in Reading
  /\ stdoutOpen' = FALSE
  /\ UNCHANGED <<clientVars, side, server, signals, stdout, answered, served, notified, stream,
                 commands>>

(* On its own, on end of input, on terminate, or on kill.                  *)
ServerExits ==
  /\ server = "running"
  /\ server' = "exited"
  /\ stdoutOpen' = FALSE
  /\ UNCHANGED <<clientVars, side, signals, stdout, answered, served, notified, stream, commands>>

CommandExits ==
  /\ \E p \in Pids :
       /\ commands[p] = "running"
       /\ commands' = [commands EXCEPT ![p] = "exited"]
  /\ UNCHANGED <<clientVars, side, server, signals, stdout, stdoutOpen, answered, served,
                 notified, stream>>

Server ==
  \/ ServerAnswers \/ ServerAsks \/ ServerInfers \/ ServerNotifies
  \/ ServerStreams \/ ServerStartsCommand \/ ServerCompletes
  \/ ServerWritesGarbage \/ ServerClosesStdout \/ ServerExits \/ CommandExits

(* run() is over; what is left of the server may stay as it is.            *)
Finished == pc = "done" /\ UNCHANGED vars

Next == Client \/ Writes \/ Expire \/ Server \/ Finished

Spec == Init /\ [][Next]_vars

(* The client is one thread that the operating system schedules, and time  *)
(* passes.  Nothing is assumed of the server, not even that it ever exits, *)
(* nor that it ever takes what is written to it: of Writes nothing either. *)
FairSpec == Spec /\ WF_vars(Client) /\ WF_vars(Expire)

-----------------------------------------------------------------------------
Returned == pc = "done" /\ outcome = "returned"

(* CodexAppServer.run leaves the app-server behind only if it raises, and  *)
(* without a lifecycle record.  A run that returns has written one, and    *)
(* every record tells the truth: the process has exited, how the turn      *)
(* ended, and an escalation is never reported as a clean exit.             *)
ProcessIsAccountedFor ==
  pc = "done" =>
    /\ outcome = "returned" => lifecycle.written
    /\ IF lifecycle.written
       THEN /\ server = "exited"
            /\ lifecycle.process_terminated
            /\ lifecycle.turn_completed_observed <=> outcome = "returned"
            /\ "kill" \in signals => lifecycle.termination_method = "kill_owned_process"
            /\ signals # {} => lifecycle.termination_method # "already_exited"
       ELSE outcome \in {"os_error", "timeout_expired"}

(* The usage recorded is the usage served, although notifications may be   *)
(* repeated or lost, and every record points at the event it came from.    *)
UsageIsAttributed ==
  /\ Len(usageAt) = Len(ledger.accepted)
  /\ Len(ledger.accepted) <= Len(served)
  /\ \A i \in 1 .. Len(usageAt) :
       /\ ledger.accepted[i].last = served[i].last
       /\ usageAt[i] < cursor
       /\ stdout[usageAt[i] + 1] = [kind |-> "usage", request |-> i]

(* The run is telemetry-complete whenever the server was: if every request *)
(* was notified before turn/completed, a returned run has all of them, and *)
(* final_usage_reconciled says so.                                         *)
NotifiedBeforeCompletion(j) ==
  \E k \in 1 .. Len(stdout) :
    /\ stdout[k] = [kind |-> "usage", request |-> j]
    /\ \A l \in 1 .. k : stdout[l].kind # "completed"

FinalUsageIsComplete ==
  Returned /\ (\A j \in 1 .. Len(served) : NotifiedBeforeCompletion(j))
    => /\ lifecycle.accepted_usage_count = Len(served)
       /\ lifecycle.final_usage_reconciled = (served # <<>>)

(* The two together: the usage recorded is right, and all there is.        *)
UsageIsExact == UsageIsAttributed /\ FinalUsageIsComplete

(* If the server finished every message it began, the output of a returned *)
(* run is one of them whole, never a streamed fragment, a text with its    *)
(* own pieces repeated, or the fallback text of the turn.                  *)
OutputIsAWholeMessage ==
  Returned /\ (\E i \in Items : stream[i] = "complete")
           /\ (\A i \in Items : stream[i] # "partial")
    => /\ finalOutput.from = "item"
       /\ finalOutput.answer.whole /\ finalOutput.answer.pieces = 0

AsksRead == {k \in 1 .. cursor : stdout[k].kind = "ask"}

(* The refusals answer the requests read: one each, in the same order.     *)
AnswersAsks(at) ==
  /\ \A i \in 1 .. Len(refused) : refused[i] = stdout[at[i]].id
  /\ \A i, j \in 1 .. Len(refused) : i < j => at[i] < at[j]
  /\ \A k \in AsksRead : \E i \in 1 .. Len(refused) : at[i] = k

(* No approval is ever granted or left hanging: a returned run has refused *)
(* each request it recorded, in the order they came.                       *)
EveryAskIsRefused ==
  Returned => \E at \in [1 .. Len(refused) -> AsksRead] : AnswersAsks(at)

(* public_command_processes_terminated clears a run only if no command the *)
(* turn named while it was open is still running afterwards.               *)
ClearedRunLeavesNoCommand ==
  Returned /\ lifecycle.public_command_processes_terminated
    => \A p \in Pids : commands[p] # "running"

(* Every run ends, with a result, or with an error once the deadline has   *)
(* passed, however silent, talkative or deaf to signals the server is, but *)
(* for the two things run() waits for under no deadline: the end of stderr *)
(* when stdout is closed, which somebody may hold open for ever, and a     *)
(* server that goes on running and never takes what _send is writing.      *)
EveryRunEnds ==
  \/ <>(pc = "done")
  \/ <>[](~ stdoutOpen /\ ~ StderrClosed)
  \/ <>[](writing # Nothing /\ server = "running")

(* The client as request attribution sees it: open until run() is over,     *)
(* then closed if it returned and failed if it raised.  Whatever the server *)
(* does, requests are recorded once each, in order, and none after that.    *)
Attribution ==
  INSTANCE RequestAttribution
    WITH Requests <- Request,
         attributed <- [i \in 1 .. Len(ledger.accepted) |->
                          [last  |-> ledger.accepted[i].last,
                           total |-> ledger.accepted[i].total]],
         status <- IF pc # "done" THEN "open"
                   ELSE IF outcome = "returned" THEN "closed" ELSE "failed"

AttributesInOrder == Attribution!Spec

(* The client as a reader of the provider's stream of notifications, open   *)
(* until the try block is left: every change of its ledger is what the      *)
(* ledger makes of the notification about one request served, and whatever  *)
(* arrives after that, or is left in the pipe, no longer counts.            *)
Stream ==
  INSTANCE UsageStream
    WITH base <- 0, MayReset <- FALSE, MalformedRaws <- {},
         status <- IF outcome = "none" THEN "open" ELSE "closed"

ReadsTheStream == Stream!Spec
=============================================================================
