--------------------------- MODULE AppServerProofs ---------------------------
(***************************************************************************)
(* For any usage, commands, items and request ids, and any side a server   *)
(* takes: what a returned turn says of its process, of its usage, of its   *)
(* output and of its commands is true, and the turn records its requests   *)
(* as RequestAttribution says.  The argument: stdout only grows and is     *)
(* read in order, what belongs to a turn is written before the turn is     *)
(* completed, and a returned run has read that far; so what it has read of *)
(* the turn is all there is, and the totals, which grow strictly, tell     *)
(* each notification's request.                                            *)
(***************************************************************************)
EXTENDS AppServer, TLAPS

LEMMA ZeroIsBreakdown == Zero \in UsageBreakdown
BY DEF Zero, UsageBreakdown

LEMMA PlusIsBreakdown ==
  ASSUME NEW a \in UsageBreakdown, NEW b \in UsageBreakdown
  PROVE  Plus(a, b) \in UsageBreakdown
BY DEF Plus, UsageBreakdown

LEMMA ParsedIsItself ==
  ASSUME NEW b \in UsageBreakdown
  PROVE  FromAppServer(b) = b
BY DEF FromAppServer, UsageBreakdown

LEMMA AcceptKeepsType ==
  ASSUME NEW l \in Ledger, NEW last \in UsageBreakdown, NEW total \in UsageBreakdown
  PROVE  AcceptNotification(l, last, total) \in Ledger
<1>1. CASE NotificationVerdict(l, last, total) = "advance"
  <2> DEFINE a == [last |-> last, total |-> total, sequence |-> l.sequence + 1]
  <2>1. l.sequence + 1 \in Nat /\ l.accepted \in Seq(AcceptedUsage)
    BY DEF Ledger
  <2>2. a \in AcceptedUsage
    BY <2>1 DEF AcceptedUsage
  <2>3. Append(l.accepted, a) \in Seq(AcceptedUsage)
    BY <2>1, <2>2
  <2>4. AcceptNotification(l, last, total)
          = [total |-> total, sequence |-> l.sequence + 1, accepted |-> Append(l.accepted, a)]
    BY <1>1, ParsedIsItself DEF AcceptNotification, Advance
  <2> QED
    BY <2>1, <2>3, <2>4 DEF Ledger
<1>2. CASE NotificationVerdict(l, last, total) # "advance"
  BY <1>2 DEF AcceptNotification
<1> QED
  BY <1>1, <1>2

-----------------------------------------------------------------------------
(* Where run() is tells how it left the try block, what it has sent, and   *)
(* what the finally block has done to the process.                         *)
Before == {"spawn", "started"} \cup Reading \cup {"draining"}
After == {"cleanup", "unterminated", "terminating", "killing", "reaped", "done"}

Phases ==
  /\ pc \in Before => outcome = "none"
  /\ pc \in After => outcome # "none"
  /\ pc \in {"spawn", "started"} => sent = {}
  /\ pc = "started" => writing = RequestLine(1)
  /\ writing # Nothing => pc \in {"started"} \cup Reading
  /\ \A i \in 1 .. 3 :
       writing = RequestLine(i)
         => pc = CASE i = 1 -> "started" [] i = 2 -> "initialize" [] i = 3 -> "thread"
  /\ pc = "initialize" => sent = {1}
  /\ pc = "thread" => sent = {1, 2}
  /\ (pc = "spawn") = (server = "unborn")
  /\ pc \in {"unterminated", "terminating", "killing", "reaped"} => termination # "none"
  /\ pc = "reaped" => server = "exited"

LEMMA ReadIsMessage ==
  ASSUME TypeOK, NEW m, Receive(m)
  PROVE  /\ m \in Message /\ cursor' \in 1 .. Len(stdout) /\ cursor' = cursor + 1
         /\ m = stdout[cursor'] /\ pc \in Reading
BY DEF TypeOK, Receive

(* A line is nothing, one of the three requests or a refusal.              *)
LEMMA Lines ==
  /\ Nothing.kind = "nothing"
  /\ \A i : RequestLine(i).kind = "request" /\ RequestLine(i).id = i
  /\ \A i : RequestLine(i) # Nothing
  /\ \A i, j : RequestLine(i) = RequestLine(j) => i = j
  /\ \A i \in 1 .. 3 : RequestLine(i) \in Line
<1>1. \A i : RequestLine(i).kind = "request" /\ RequestLine(i).id = i
  BY DEF RequestLine
<1>2. \A i \in 1 .. 3 : RequestLine(i) \in Line
  BY DEF RequestLine, Line
<1>3. Nothing.kind = "nothing"
  BY DEF Nothing
<1> QED
  BY <1>1, <1>2, <1>3

(* What run() does once it has got what it was waiting for, or was not:    *)
(* nothing, leave, or begin to send the next request.                      *)
Moved ==
  \/ UNCHANGED <<pc, outcome>> /\ writing' = Nothing
  \/ Leave("protocol_error") /\ writing' = Nothing
  \/ UNCHANGED <<pc, outcome>> /\ pc = "initialize" /\ writing' = RequestLine(2)
  \/ UNCHANGED <<pc, outcome>> /\ pc = "thread" /\ writing' = RequestLine(3)

LEMMA ProceedMoves ==
  ASSUME NEW t \in BOOLEAN, Proceed(t), NEW i, i \in Awaited
  PROVE  Moved
BY DEF Proceed, Moved, Awaited, Leave

LEMMA ResponseMoves ==
  ASSUME ReadResponse
  PROVE  Moved
<1>1. writing = Nothing
  BY DEF ReadResponse, Receive
<1>2. CASE \E i \in 1 .. 3, t \in BOOLEAN :
             IF i \in Awaited THEN Proceed(t) ELSE UNCHANGED <<pc, outcome, writing>>
  BY <1>1, <1>2, ProceedMoves DEF Moved
<1>3. CASE \E i \in 1 .. 3 :
             /\ IF i \in Awaited THEN Leave("protocol_error") ELSE UNCHANGED <<pc, outcome>>
             /\ UNCHANGED writing
  BY <1>1, <1>3 DEF Moved
<1> QED
  BY <1>2, <1>3 DEF ReadResponse

LEMMA RefusalMoves ==
  ASSUME RefusalIsWritten
  PROVE  Moved
<1>1. PICK i \in AskIds : IF i \in Awaited THEN Proceed(FALSE)
                          ELSE writing' = Nothing /\ UNCHANGED <<pc, outcome>>
  BY DEF RefusalIsWritten
<1> QED
  BY <1>1, ProceedMoves DEF Moved

LEMMA EmitKeepsType ==
  ASSUME TypeOK, NEW m \in Message, Emit(m)
  PROVE  /\ stdout' \in Seq(Message)
         /\ cursor \in 0 .. Len(stdout')
BY DEF TypeOK, Emit

LEMMA StoreKeepsType ==
  ASSUME TypeOK, NEW i \in Items, NEW kind
  PROVE  Store(i, kind) \in Seq(Answer)
<1> DEFINE n == Len(answers)
           new == Updated([item |-> i, whole |-> FALSE, pieces |-> 0], kind)
<1>1. answers \in Seq(Answer) /\ n \in Nat /\ \A k \in 1 .. n : answers[k] \in Answer
  BY DEF TypeOK
<1>2. ASSUME NEW a \in Answer PROVE Updated(a, kind) \in Answer
  <2>1. AddPiece(a) \in Answer
    BY <1>2 DEF AddPiece, Answer
  <2>2. SetWhole(a) \in Answer
    BY <1>2 DEF SetWhole, Answer
  <2> QED BY <2>1, <2>2 DEF Updated
<1>3. new \in Answer
  <2>1. [item |-> i, whole |-> FALSE, pieces |-> 0] \in Answer
    BY DEF Answer
  <2> QED BY <2>1, <1>2
<1>4. CASE \E k \in 1 .. n : answers[k].item = i
  <2> DEFINE s == [k \in 1 .. n |->
                     IF answers[k].item = i THEN Updated(answers[k], kind) ELSE answers[k]]
  <2>1. s \in [1 .. n -> Answer]
    BY <1>1, <1>2
  <2>2. s \in Seq(Answer)
    BY <1>1, <2>1
  <2> QED BY <1>4, <2>2 DEF Store
<1>5. CASE ~ \E k \in 1 .. n : answers[k].item = i
  <2>1. Append(answers, new) \in Seq(Answer)
    BY <1>1, <1>3
  <2> QED BY <1>5, <2>1 DEF Store
<1> QED
  BY <1>4, <1>5

LEMMA SidesAreTyped ==
  ASSUME TypeOK
  PROVE  /\ side.items \subseteq Items /\ side.pids \subseteq Pids
         /\ side.asks \subseteq AskIds /\ AskIds \subseteq Nat
BY SidesAssumption DEF TypeOK, Side

Typed == TypeOK /\ Phases

LEMMA InitIsTyped == Init => Typed
<1> SUFFICES ASSUME Init PROVE Typed
  OBVIOUS
<1>1. EmptyLedger \in Ledger
  BY ZeroIsBreakdown DEF EmptyLedger, Ledger
<1>2. TypeOK
  <2>1. /\ stdout \in Seq(Message) /\ usageAt \in Seq(Nat) /\ refused \in Seq(AskIds)
        /\ answers \in Seq(Answer) /\ served \in Seq(Request)
        /\ cursor \in 0 .. Len(stdout) /\ notified \in 0 .. Len(served)
    BY DEF Init
  <2>2. /\ stream \in [Items -> {"absent", "partial", "complete"}]
        /\ commands \in [Pids -> {"unstarted", "running", "exited"}]
        /\ sent \subseteq 1 .. 3 /\ answered \subseteq sent
    BY DEF Init
  <2> QED BY <1>1, <2>1, <2>2 DEF Init, TypeOK
<1>3. Phases
  BY Lines DEF Init, Phases, Before, After, Reading
<1> QED BY <1>2, <1>3 DEF Typed

LEMMA StdoutClosesTyped ==
  ASSUME TypeOK, stdoutOpen' = FALSE, server' \in {"unborn", "running", "exited"},
         UNCHANGED <<clientVars, side, signals, stdout, answered, served, notified, stream, commands>>
  PROVE  TypeOK'
<1>1. UNCHANGED <<pc, outcome, expired, writing, sent, cursor, ledger, usageAt, refused, answers,
                  finalOutput, termination, lifecycle>>
  BY DEF clientVars
<1>2. UNCHANGED <<side, signals, stdout, answered, served, notified, stream, commands>>
  OBVIOUS
<1>3. server' \in {"unborn", "running", "exited"} /\ stdoutOpen' \in BOOLEAN
  OBVIOUS
<1>4. /\ pc' \in Reading \cup {"spawn", "started", "draining", "cleanup",
                              "unterminated", "terminating", "killing", "reaped", "done"}
      /\ outcome' \in {"none", "returned", "protocol_error", "os_error", "timeout_expired"}
      /\ expired' \in BOOLEAN
      /\ writing' \in {Nothing} \cup Line
      /\ sent' \subseteq 1 .. 3
      /\ termination' \in {"none", "already_exited", "terminate", "kill_owned_process"}
      /\ lifecycle' \in {NoLifecycle} \cup Lifecycle
  BY <1>1 DEF TypeOK
<1>5. /\ stdout' \in Seq(Message) /\ cursor' \in 0 .. Len(stdout')
      /\ ledger' \in Ledger /\ usageAt' \in Seq(Nat) /\ refused' \in Seq(AskIds)
      /\ answers' \in Seq(Answer)
      /\ finalOutput' \in {NoOutput, [from |-> "turn"]}
                             \cup [from : {"item"}, answer : Answer]
  BY <1>1, <1>2 DEF TypeOK
<1>6. /\ side' \in Sides /\ signals' \subseteq {"terminate", "kill"} /\ answered' \subseteq sent'
      /\ served' \in Seq(Request) /\ notified' \in 0 .. Len(served')
      /\ stream' \in [Items -> {"absent", "partial", "complete"}]
      /\ commands' \in [Pids -> {"unstarted", "running", "exited"}]
  BY <1>1, <1>2 DEF TypeOK
<1> QED BY <1>3, <1>4, <1>5, <1>6 DEF TypeOK

LEMMA LeavingKeepsPhases ==
  ASSUME Phases, NEW how \in {"returned", "protocol_error", "os_error"}, Leave(how),
         pc \in Before \ {"spawn"}, writing' = Nothing, UNCHANGED server
  PROVE  Phases'
BY Lines DEF Phases, Leave, Before, After, Reading

LEMMA NextKeepsTyped == Typed /\ [Next]_vars => Typed'
<1> SUFFICES ASSUME TypeOK, Phases, [Next]_vars PROVE TypeOK' /\ Phases'
  BY DEF Typed
<1> USE DEF clientVars, serverVars, Before, After, Reading, Leave
<1>1. CASE Spawn
  <2>1. TypeOK'
    BY <1>1, Lines DEF Spawn, TypeOK
  <2>2. Phases'
    BY <1>1, Lines DEF Spawn, Phases
  <2> QED BY <2>1, <2>2
<1>2. CASE RequestIsWritten
  <2>1. PICK i \in 1 .. 3 :
          /\ writing = RequestLine(i) /\ sent' = sent \cup {i}
          /\ pc' = CASE i = 1 -> "initialize" [] i = 2 -> "thread" [] i = 3 -> "turn"
    BY <1>2 DEF RequestIsWritten
  <2>2. /\ writing' = Nothing
        /\ UNCHANGED <<outcome, expired, cursor, ledger, usageAt, refused,
                       answers, finalOutput, termination, lifecycle, serverVars>>
    BY <1>2 DEF RequestIsWritten
  <2>3. pc = CASE i = 1 -> "started" [] i = 2 -> "initialize" [] i = 3 -> "thread"
    BY <2>1 DEF Phases
  <2>4. sent' \subseteq 1 .. 3 /\ answered' \subseteq sent'
    BY <2>1, <2>2 DEF TypeOK
  <2>5. TypeOK'
    BY <2>1, <2>2, <2>4 DEF TypeOK
  <2>6. Phases'
    <3>1. CASE i = 1
      BY <2>1, <2>2, <2>3, <3>1, Lines DEF Phases
    <3>2. CASE i = 2
      BY <2>1, <2>2, <2>3, <3>2, Lines DEF Phases
    <3>3. CASE i = 3
      BY <2>1, <2>2, <2>3, <3>3, Lines DEF Phases
    <3> QED BY <3>1, <3>2, <3>3
  <2> QED BY <2>5, <2>6
<1>3. CASE TimeOut
  <2>1. TypeOK'
    BY <1>3 DEF TimeOut, TypeOK
  <2>2. Phases'
    BY <1>3, LeavingKeepsPhases DEF TimeOut
  <2> QED BY <2>1, <2>2
<1>4. CASE ReadEof
  <2>1. TypeOK'
    BY <1>4 DEF ReadEof, TypeOK
  <2>2. Phases'
    BY <1>4, Lines DEF ReadEof, Phases
  <2> QED BY <2>1, <2>2
<1>5. CASE DrainStderr
  <2>1. TypeOK'
    BY <1>5 DEF DrainStderr, TypeOK
  <2>2. writing = Nothing
    BY <1>5 DEF DrainStderr, Phases
  <2>3. Phases'
    BY <1>5, <2>2, LeavingKeepsPhases DEF DrainStderr
  <2> QED BY <2>1, <2>3
<1>6. CASE ReadGarbage
  <2>1. cursor' \in 0 .. Len(stdout) /\ pc \in Reading
    BY <1>6, ReadIsMessage DEF ReadGarbage
  <2>2. TypeOK'
    BY <1>6, <2>1 DEF ReadGarbage, TypeOK
  <2>3. Phases'
    BY <1>6, LeavingKeepsPhases DEF ReadGarbage, Receive
  <2> QED BY <2>2, <2>3
<1>7. CASE ReadUsage
  <2>1. PICK m \in [kind : {"usage"}, request : 1 .. Len(served)] :
          /\ Receive(m)
          /\ ledger' = AcceptNotification(ledger, served[m.request].last, served[m.request].total)
          /\ usageAt' \in {usageAt, Append(usageAt, EventIndex)}
          /\ Leave("protocol_error") \/ UNCHANGED <<pc, outcome>>
    BY <1>7 DEF ReadUsage
  <2>2. cursor' \in 0 .. Len(stdout) /\ pc \in Reading
    BY <2>1, ReadIsMessage
  <2>3. served[m.request] \in Request
    BY DEF TypeOK
  <2>4. ledger' \in Ledger
    BY <2>1, <2>3, AcceptKeepsType DEF TypeOK, Request
  <2>5. usageAt' \in Seq(Nat)
    <3>1. usageAt \in Seq(Nat) /\ EventIndex \in Nat
      BY DEF TypeOK, EventIndex
    <3>2. Append(usageAt, EventIndex) \in Seq(Nat)
      BY <3>1
    <3> QED BY <2>1, <3>1, <3>2
  <2>6. UNCHANGED <<expired, writing, sent, refused, answers, finalOutput, termination,
                    lifecycle, serverVars>>
    BY <1>7 DEF ReadUsage
  <2> HIDE DEF Leave
  <2>0. writing = Nothing
    BY <2>1 DEF Receive
  <2>7. CASE Leave("protocol_error")
    <3>1. TypeOK'
      BY <2>2, <2>4, <2>5, <2>6, <2>7 DEF TypeOK, Leave
    <3>2. Phases'
      BY <2>0, <2>2, <2>6, <2>7, LeavingKeepsPhases
    <3> QED BY <3>1, <3>2
  <2>8. CASE UNCHANGED <<pc, outcome>>
    BY <2>2, <2>4, <2>5, <2>6, <2>8 DEF TypeOK, Phases
  <2> QED BY <2>1, <2>7, <2>8
<1>8. CASE ReadResponse
  <2>1. cursor' \in 0 .. Len(stdout) /\ pc \in Reading
    <3>1. PICK m : Receive(m)
      BY <1>8 DEF ReadResponse
    <3> QED BY <3>1, ReadIsMessage
  <2>2. UNCHANGED <<expired, sent, ledger, usageAt, refused, answers, finalOutput, termination,
                    lifecycle, serverVars>>
    BY <1>8 DEF ReadResponse
  <2>3. Moved
    BY <1>8, ResponseMoves
  <2> HIDE DEF Leave
  <2>4. TypeOK'
    BY <2>1, <2>2, <2>3, Lines DEF TypeOK, Moved, Leave
  <2>5. Phases'
    BY <2>1, <2>2, <2>3, Lines DEF Phases, Moved, Leave
  <2> QED BY <2>4, <2>5
<1>9. CASE ReadAsk
  <2>1. cursor' \in 0 .. Len(stdout) /\ pc \in Reading
    BY <1>9, ReadIsMessage DEF ReadAsk
  <2>2. PICK i \in AskIds : writing' = [kind |-> "refusal", id |-> i]
    BY <1>9 DEF ReadAsk
  <2>3. writing' \in Line /\ writing'.kind = "refusal"
    BY <2>2 DEF Line
  <2>4. UNCHANGED <<pc, outcome, expired, sent, ledger, usageAt, refused, answers, finalOutput,
                    termination, lifecycle, serverVars>>
    BY <1>9 DEF ReadAsk
  <2>5. TypeOK'
    BY <2>1, <2>3, <2>4 DEF TypeOK
  <2>6. Phases'
    BY <2>1, <2>3, <2>4, Lines DEF Phases
  <2> QED BY <2>5, <2>6
<1>10. CASE ReadItem
  <2>1. cursor' \in 0 .. Len(stdout) /\ pc \in Reading
    BY <1>10, ReadIsMessage DEF ReadItem
  <2>2. answers' \in Seq(Answer)
    BY <1>10, StoreKeepsType DEF ReadItem, TypeOK
  <2> QED BY <1>10, <2>1, <2>2 DEF ReadItem, TypeOK, Phases
<1>11. CASE ReadCommand
  <2>1. cursor' \in 0 .. Len(stdout) /\ pc \in Reading
    BY <1>11, ReadIsMessage DEF ReadCommand
  <2> QED BY <1>11, <2>1 DEF ReadCommand, TypeOK, Phases
<1>12. CASE ReadCompleted
  <2>1. cursor' \in 0 .. Len(stdout) /\ pc \in Reading
    BY <1>12, ReadIsMessage DEF ReadCompleted
  <2>2. answers # <<>> => answers[Len(answers)] \in Answer
    BY DEF TypeOK
  <2>3. finalOutput' \in {NoOutput, [from |-> "turn"]} \cup [from : {"item"}, answer : Answer]
    BY <1>12, <2>2 DEF ReadCompleted, TypeOK
  <2>4. TypeOK'
    BY <1>12, <2>1, <2>3 DEF ReadCompleted, TypeOK
  <2>5. Phases'
    BY <1>12, LeavingKeepsPhases DEF ReadCompleted, Receive
  <2> QED BY <2>4, <2>5
<1>13. CASE Terminate \/ TerminateFails \/ PollAgain
  <2>1. /\ pc' \in {"terminating", "unterminated", "reaped", "done"}
        /\ outcome' \in {outcome, "os_error"}
        /\ signals' \subseteq {"terminate", "kill"}
        /\ termination' \in {termination, "already_exited", "terminate"}
        /\ UNCHANGED <<expired, writing, sent, cursor, ledger, usageAt, refused, answers,
                       finalOutput, lifecycle, side, server, stdout, stdoutOpen, answered,
                       served, notified, stream, commands>>
    <3>1. CASE Terminate
      BY <3>1 DEF Terminate, TypeOK
    <3>2. CASE TerminateFails
      BY <3>2 DEF TerminateFails, TypeOK
    <3>3. CASE PollAgain
      <4>1. /\ pc' \in {"reaped", "done"} /\ outcome' \in {outcome, "os_error"}
            /\ UNCHANGED <<expired, writing, sent, cursor, ledger, usageAt, refused,
                           answers, finalOutput, termination, lifecycle, serverVars>>
        BY <3>3 DEF PollAgain
      <4>2. signals' \subseteq {"terminate", "kill"}
        BY <4>1 DEF TypeOK
      <4> QED BY <4>1, <4>2
    <3> QED BY <1>13, <3>1, <3>2, <3>3
  <2>2. TypeOK'
    BY <2>1 DEF TypeOK
  <2>3. Phases'
    <3>1. pc = "unterminated" => termination # "none" /\ server \in {"running", "exited"}
      BY DEF Phases, TypeOK
    <3>2. pc \in {"cleanup", "unterminated"} /\ writing = Nothing /\ outcome # "none"
      BY <1>13 DEF Terminate, TerminateFails, PollAgain, Phases
    <3>3. /\ pc' \in {"unterminated", "terminating", "killing", "reaped"} => termination' # "none"
          /\ pc' = "reaped" => server' = "exited"
      <4>1. CASE Terminate
        BY <4>1 DEF Terminate
      <4>2. CASE TerminateFails
        BY <4>2 DEF TerminateFails
      <4>3. CASE PollAgain
        BY <3>1, <4>3 DEF PollAgain, serverVars
      <4> QED BY <1>13, <4>1, <4>2, <4>3
    <3> QED BY <2>1, <3>2, <3>3, Lines DEF Phases, TypeOK
  <2> QED BY <2>2, <2>3
<1>14. CASE Reap \/ KillFails
  BY <1>14 DEF Reap, KillFails, TypeOK, Phases
<1>15. CASE WaitExpires
  BY <1>15 DEF WaitExpires, TypeOK, Phases
<1>16. CASE KillWaitExpires
  BY <1>16 DEF KillWaitExpires, TypeOK, Phases
<1>17. CASE WriteLifecycle
  <2>1. lifecycle' \in Lifecycle
    <3>1. PublicCommands \in SUBSET Pids
      BY DEF PublicCommands
    <3>2. termination \in {"already_exited", "terminate", "kill_owned_process"}
      BY <1>17 DEF WriteLifecycle, TypeOK, Phases
    <3>3. Len(usageAt) \in Nat
      BY DEF TypeOK
    <3>4. /\ (outcome = "returned") \in BOOLEAN /\ (server = "exited") \in BOOLEAN
          /\ (usageAt # <<>>) \in BOOLEAN
          /\ (\A p \in PublicCommands : commands[p] = "exited") \in BOOLEAN
      OBVIOUS
    <3> QED BY <1>17, <3>1, <3>2, <3>3, <3>4, Zenon DEF WriteLifecycle, Lifecycle
  <2> QED BY <1>17, <2>1 DEF WriteLifecycle, TypeOK, Phases
<1>18. CASE Expire
  BY <1>18 DEF Expire, TypeOK, Phases
<1>19. CASE ServerAnswers
  <2>1. PICK i \in sent \ answered : /\ answered' = answered \cup {i}
                                     /\ \E m \in Message : Emit(m)
    <3> SUFFICES ASSUME NEW i \in sent \ answered
                 PROVE  /\ [kind |-> "result", id |-> i, thread |-> i = 2] \in Message
                        /\ [kind |-> "result", id |-> i, thread |-> FALSE] \in Message
                        /\ [kind |-> "error", id |-> i] \in Message
      BY <1>19 DEF ServerAnswers
    <3> QED BY DEF TypeOK, Message
  <2>2. stdout' \in Seq(Message) /\ cursor \in 0 .. Len(stdout') /\ pc \in Reading
    BY <2>1, EmitKeepsType DEF Emit
  <2> QED BY <1>19, <2>1, <2>2 DEF ServerAnswers, TypeOK, Phases
<1>20. CASE ServerAsks
  <2>1. \E m \in Message : Emit(m)
    BY <1>20, SidesAreTyped DEF ServerAsks, Message
  <2>2. stdout' \in Seq(Message) /\ cursor \in 0 .. Len(stdout')
    BY <2>1, EmitKeepsType
  <2> QED BY <1>20, <2>2 DEF ServerAsks, TypeOK, Phases
<1>21. CASE ServerInfers
  <2>1. served' \in Seq(Request)
    <3>1. PICK u \in Lasts :
            served' = Append(served,
                   [last  |-> u,
                    total |-> IF served = <<>> THEN u
                              ELSE Plus(served[Len(served)].total, u)])
      BY <1>21 DEF ServerInfers
    <3>2. u \in UsageBreakdown
      BY LastsAssumption
    <3>3. served # <<>> => served[Len(served)].total \in UsageBreakdown
      <4>1. served # <<>> => served[Len(served)] \in Request
        BY DEF TypeOK
      <4> QED BY <4>1 DEF Request
    <3>4. (IF served = <<>> THEN u ELSE Plus(served[Len(served)].total, u)) \in UsageBreakdown
      BY <3>2, <3>3, PlusIsBreakdown
    <3> QED BY <3>1, <3>2, <3>4 DEF TypeOK, Request
  <2>2. notified \in 0 .. Len(served')
    BY <1>21 DEF ServerInfers, TypeOK
  <2> QED BY <1>21, <2>1, <2>2 DEF ServerInfers, TypeOK, Phases
<1>22. CASE ServerNotifies
  <2>1. PICK j \in (notified .. Len(served)) \ {0} :
          Emit([kind |-> "usage", request |-> j]) /\ notified' = j
    BY <1>22 DEF ServerNotifies
  <2>2. [kind |-> "usage", request |-> j] \in Message /\ j \in 0 .. Len(served)
    BY DEF Message, TypeOK
  <2>3. stdout' \in Seq(Message) /\ cursor \in 0 .. Len(stdout')
    BY <2>1, <2>2, EmitKeepsType
  <2> QED BY <1>22, <2>1, <2>2, <2>3 DEF ServerNotifies, TypeOK, Phases
<1>23. CASE ServerStreams
  <2>1. \E m \in Message : Emit(m)
    BY <1>23, SidesAreTyped DEF ServerStreams, Message
  <2>2. stdout' \in Seq(Message) /\ cursor \in 0 .. Len(stdout')
    BY <2>1, EmitKeepsType
  <2>3. stream' \in [Items -> {"absent", "partial", "complete"}]
    BY <1>23 DEF ServerStreams, TypeOK
  <2>4. UNCHANGED <<clientVars, side, server, signals, stdoutOpen, answered, served, notified,
                    commands>>
    BY <1>23 DEF ServerStreams
  <2> QED BY <2>2, <2>3, <2>4 DEF TypeOK, Phases
<1>24. CASE ServerStartsCommand
  <2>1. \E m \in Message : Emit(m)
    BY <1>24, SidesAreTyped DEF ServerStartsCommand, Message
  <2>2. stdout' \in Seq(Message) /\ cursor \in 0 .. Len(stdout')
    BY <2>1, EmitKeepsType
  <2>3. commands' \in [Pids -> {"unstarted", "running", "exited"}]
    BY <1>24 DEF ServerStartsCommand, TypeOK
  <2> QED BY <1>24, <2>2, <2>3 DEF ServerStartsCommand, TypeOK, Phases
<1>25. CASE ServerCompletes
  <2>1. \E m \in Message : Emit(m)
    BY <1>25 DEF ServerCompletes, Message
  <2>2. stdout' \in Seq(Message) /\ cursor \in 0 .. Len(stdout')
    BY <2>1, EmitKeepsType
  <2> QED BY <1>25, <2>2 DEF ServerCompletes, TypeOK, Phases
<1>26. CASE ServerWritesGarbage
  <2>1. [kind |-> "garbage"] \in Message
    BY DEF Message
  <2>2. stdout' \in Seq(Message) /\ cursor \in 0 .. Len(stdout')
    BY <1>26, <2>1, EmitKeepsType DEF ServerWritesGarbage
  <2> QED BY <1>26, <2>2 DEF ServerWritesGarbage, TypeOK, Phases
<1>27. CASE ServerClosesStdout
  <2>1. UNCHANGED <<pc, outcome, writing, sent, server, termination>>
    BY <1>27 DEF ServerClosesStdout, clientVars
  <2>2. TypeOK'
    BY <1>27, StdoutClosesTyped DEF ServerClosesStdout, TypeOK
  <2> QED BY <2>1, <2>2 DEF Phases
<1>28. CASE ServerExits
  <2>1. UNCHANGED <<pc, outcome, writing, sent, termination>> /\ server = "running" /\ server' = "exited"
    BY <1>28 DEF ServerExits, clientVars
  <2>2. TypeOK'
    BY <1>28, StdoutClosesTyped DEF ServerExits
  <2> QED BY <2>1, <2>2 DEF Phases
<1>29. CASE CommandExits
  BY <1>29 DEF CommandExits, TypeOK, Phases
<1>31. CASE RefusalIsWritten
  <2>1. PICK i \in AskIds : /\ writing = [kind |-> "refusal", id |-> i]
                            /\ refused' = Refused(i)
    BY <1>31 DEF RefusalIsWritten
  <2>2. UNCHANGED <<expired, sent, cursor, ledger, usageAt, answers, finalOutput, termination,
                    lifecycle, serverVars>>
    BY <1>31 DEF RefusalIsWritten
  <2>3. refused' \in Seq(AskIds)
    BY <2>1 DEF Refused, TypeOK
  <2>4. pc \in Reading
    <3>1. writing.kind = "refusal"
      BY <2>1
    <3> QED BY <3>1, Lines DEF Phases
  <2>5. Moved
    BY <1>31, RefusalMoves
  <2> HIDE DEF Leave
  <2>6. TypeOK'
    BY <2>2, <2>3, <2>5, Lines DEF TypeOK, Moved, Leave
  <2>7. Phases'
    BY <2>2, <2>4, <2>5, Lines DEF Phases, Moved, Leave
  <2> QED BY <2>6, <2>7
<1>32. CASE WriteFails
  BY <1>32, Lines DEF WriteFails, TypeOK, Phases
<1>30. CASE UNCHANGED vars
  BY <1>30 DEF vars, TypeOK, Phases
<1> QED
  BY <1>1, <1>2, <1>3, <1>4, <1>5, <1>6, <1>7, <1>8, <1>9, <1>10, <1>11, <1>12, <1>13, <1>14,
     <1>15, <1>16, <1>17, <1>18, <1>19, <1>20, <1>21, <1>22, <1>23, <1>24, <1>25, <1>26, <1>27,
     <1>28, <1>29, <1>30, <1>31, <1>32 DEF Next, Client, Writes, Server, Finished

(* Type correctness of a turn; the record of the finally block never names *)
(* a way of ending the process that was not tried.                         *)
THEOREM TypeCorrect == Spec => []TypeOK
<1>1. Typed => TypeOK
  BY DEF Typed
<1> QED
  BY <1>1, InitIsTyped, NextKeepsTyped, PTL DEF Spec

-----------------------------------------------------------------------------
(* The steps of a turn, sorted by what they do to the record of it.  Most  *)
(* steps of the client touch none of usage, output and lifecycle.          *)
Told == {"usage", "delta", "item", "completed"}

OtherClient ==
  /\ UNCHANGED <<stdout, stream, commands, served, notified, ledger, usageAt, answers,
                 finalOutput, lifecycle>>
  /\ \/ cursor' = cursor
     \/ cursor' = cursor + 1 /\ cursor < Len(stdout) /\ stdout[cursor + 1].kind \notin Told
  /\ outcome' = outcome \/ outcome' \notin {"none", "returned"}
  /\ pc # "done" /\ (pc' = "done" => outcome' # "returned")
  /\ pc' \in Reading => pc \in Reading \cup {"started"} /\ (pc = "turn" => pc' = "turn")
  /\ pc' # "spawn" /\ (pc' = "started" => pc = "spawn")
  /\ server = "exited" => server' = "exited"

(* Nothing is written to stdout; a request may be served, a process exit.  *)
Quiet ==
  /\ UNCHANGED <<pc, outcome, cursor, ledger, usageAt, answers, finalOutput, lifecycle,
                 stdout, stream, notified>>
  /\ \A p \in Pids : commands'[p] # commands[p]
                         => commands[p] = "running" /\ commands'[p] = "exited"
  /\ server = "exited" => server' = "exited"
  /\ served' = served \/ ServerInfers

Emits(m) ==
  /\ UNCHANGED <<clientVars, server>>
  /\ pc \in Reading
  /\ stdout' = Append(stdout, m)

EmitsPlain ==
  /\ \E m \in Message : m.kind \in {"result", "error", "ask", "garbage"} /\ Emits(m)
  /\ UNCHANGED <<served, notified, stream, commands>>

LEMMA EmitAppends ==
  ASSUME TypeOK, NEW m, stdout' = Append(stdout, m)
  PROVE  /\ Len(stdout') = Len(stdout) + 1 /\ Len(stdout) \in Nat
         /\ \A k \in 1 .. Len(stdout) : stdout'[k] = stdout[k]
         /\ stdout'[Len(stdout')] = m
BY DEF TypeOK

LEMMA OtherClientSteps ==
  ASSUME Typed,
         \/ Spawn \/ RequestIsWritten \/ RefusalIsWritten \/ WriteFails
         \/ TimeOut \/ ReadEof \/ DrainStderr
         \/ ReadGarbage \/ ReadResponse \/ ReadAsk \/ ReadCommand
         \/ Terminate \/ TerminateFails \/ PollAgain
         \/ Reap \/ WaitExpires \/ KillFails \/ KillWaitExpires
  PROVE  OtherClient
<1> USE DEF OtherClient, Told, Reading, serverVars, Leave
<1>1. CASE Spawn
  BY <1>1 DEF Spawn, Typed, Phases, After, Before
<1>7. CASE RequestIsWritten
  <2>1. PICK i \in 1 .. 3 :
          /\ pc = CASE i = 1 -> "started" [] i = 2 -> "initialize" [] i = 3 -> "thread"
          /\ pc' = CASE i = 1 -> "initialize" [] i = 2 -> "thread" [] i = 3 -> "turn"
    BY <1>7 DEF RequestIsWritten, Typed, Phases
  <2>2. UNCHANGED <<outcome, cursor, ledger, usageAt, answers, finalOutput, lifecycle, serverVars>>
    BY <1>7 DEF RequestIsWritten
  <2> QED BY <2>1, <2>2
<1>8. CASE RefusalIsWritten
  <2>1. Moved
    BY <1>8, RefusalMoves
  <2>2. pc \in Reading
    <3>1. writing.kind = "refusal"
      BY <1>8 DEF RefusalIsWritten
    <3> QED BY <3>1, Lines DEF Typed, Phases
  <2> QED BY <1>8, <2>1, <2>2 DEF RefusalIsWritten, Moved
<1>9. CASE WriteFails
  BY <1>9 DEF WriteFails, Typed, Phases
<1>2. CASE TimeOut \/ ReadEof \/ DrainStderr
  BY <1>2 DEF TimeOut, ReadEof, DrainStderr
<1>3. CASE ReadGarbage \/ ReadCommand
  <2>1. PICK m : Receive(m) /\ m.kind \in {"garbage", "command"}
    <3>1. CASE ReadGarbage
      <4> DEFINE m == [kind |-> "garbage"]
      <4>1. Receive(m) /\ m.kind \in {"garbage", "command"}
        BY <3>1 DEF ReadGarbage
      <4> QED BY <4>1
    <3>2. CASE ReadCommand
      BY <3>2 DEF ReadCommand
    <3> QED BY <1>3, <3>1, <3>2
  <2> QED BY <1>3, <2>1 DEF ReadGarbage, ReadCommand, Receive
<1>4. CASE ReadResponse
  <2>1. PICK m : Receive(m) /\ m.kind \in {"result", "error"}
    <3>1. CASE \E i \in 1 .. 3, t \in BOOLEAN :
                 Receive([kind |-> "result", id |-> i, thread |-> t])
      BY <3>1
    <3>2. CASE \E i \in 1 .. 3 : Receive([kind |-> "error", id |-> i])
      BY <3>2
    <3> QED BY <1>4, <3>1, <3>2 DEF ReadResponse
  <2>2. Moved
    BY <1>4, ResponseMoves
  <2> QED BY <1>4, <2>1, <2>2 DEF ReadResponse, Receive, Moved
<1>5. CASE ReadAsk
  BY <1>5 DEF ReadAsk, Receive
<1>6. CASE \/ Terminate \/ TerminateFails \/ PollAgain
           \/ Reap \/ WaitExpires \/ KillFails \/ KillWaitExpires
  BY <1>6 DEF Terminate, TerminateFails, PollAgain, Reap, WaitExpires, KillFails,
     KillWaitExpires
<1> QED
  BY <1>1, <1>2, <1>3, <1>4, <1>5, <1>6, <1>7, <1>8, <1>9

LEMMA QuietSteps ==
  ASSUME Typed,
         \/ Expire \/ ServerInfers \/ ServerClosesStdout \/ ServerExits \/ CommandExits
         \/ UNCHANGED vars
  PROVE  Quiet
<1>1. CASE Expire \/ UNCHANGED vars
  <2>1. UNCHANGED <<pc, outcome, cursor, ledger, usageAt, answers, finalOutput, lifecycle,
                    stdout, stream, notified, commands, server, served>>
    BY <1>1 DEF Expire, vars, clientVars, serverVars
  <2> QED BY <2>1 DEF Quiet
<1>2. CASE ServerInfers \/ ServerClosesStdout \/ ServerExits
  <2>1. /\ UNCHANGED <<pc, outcome, cursor, ledger, usageAt, answers, finalOutput, lifecycle,
                       stdout, stream, notified, commands>>
        /\ server = "exited" => server' = "exited"
    BY <1>2 DEF ServerInfers, ServerClosesStdout, ServerExits, clientVars
  <2>2. served' = served \/ ServerInfers
    BY <1>2 DEF ServerClosesStdout, ServerExits
  <2> QED BY <2>1, <2>2 DEF Quiet
<1>3. CASE CommandExits
  <2>1. UNCHANGED <<pc, outcome, cursor, ledger, usageAt, answers, finalOutput, lifecycle,
                    stdout, stream, notified, server, served>>
    BY <1>3 DEF CommandExits, clientVars
  <2>2. \A p \in Pids : commands'[p] # commands[p]
                         => commands[p] = "running" /\ commands'[p] = "exited"
    BY <1>3 DEF CommandExits, Typed, TypeOK
  <2> QED BY <2>1, <2>2 DEF Quiet
<1> QED
  BY <1>1, <1>2, <1>3

LEMMA PlainSteps ==
  ASSUME Typed, ServerAnswers \/ ServerAsks \/ ServerWritesGarbage
  PROVE  EmitsPlain
<1>1. CASE ServerAnswers
  <2>1. PICK i \in sent \ answered :
          \/ Emit([kind |-> "result", id |-> i, thread |-> i = 2])
          \/ Emit([kind |-> "result", id |-> i, thread |-> FALSE])
          \/ Emit([kind |-> "error", id |-> i])
    BY <1>1 DEF ServerAnswers
  <2>2. i \in 1 .. 3
    BY DEF Typed, TypeOK
  <2>3. /\ [kind |-> "result", id |-> i, thread |-> i = 2] \in Message
        /\ [kind |-> "result", id |-> i, thread |-> FALSE] \in Message
        /\ [kind |-> "error", id |-> i] \in Message
    BY <2>2 DEF Message
  <2>4. \E m \in Message : m.kind \in {"result", "error"} /\ Emit(m)
    BY <2>1, <2>3
  <2> QED BY <1>1, <2>4 DEF ServerAnswers, EmitsPlain, Emits, Emit
<1>2. CASE ServerAsks
  <2>1. PICK i \in side.asks : Emit([kind |-> "ask", id |-> i])
    BY <1>2 DEF ServerAsks
  <2>2. [kind |-> "ask", id |-> i] \in Message
    BY SidesAreTyped DEF Message, Typed
  <2> QED BY <1>2, <2>1, <2>2 DEF ServerAsks, EmitsPlain, Emits, Emit
<1>3. CASE ServerWritesGarbage
  <2>1. [kind |-> "garbage"] \in Message
    BY DEF Message
  <2> QED BY <1>3, <2>1 DEF ServerWritesGarbage, EmitsPlain, Emits, Emit
<1> QED
  BY <1>1, <1>2, <1>3

LEMMA Steps ==
  ASSUME Typed, [Next]_vars
  PROVE  \/ OtherClient \/ ReadUsage \/ ReadItem \/ ReadCompleted \/ WriteLifecycle
         \/ Quiet \/ EmitsPlain
         \/ ServerNotifies \/ ServerStreams \/ ServerStartsCommand \/ ServerCompletes
BY OtherClientSteps, QuietSteps, PlainSteps DEF Next, Client, Writes, Server, Finished

-----------------------------------------------------------------------------
(* The termination method never hides a signal that was sent: none is sent *)
(* before the finally block does, and a record is only made of a process   *)
(* that has been collected.                                                *)
SignalsAreTold ==
  /\ pc \in Before \cup {"cleanup", "unterminated"} => signals = {}
  /\ pc = "terminating" => "kill" \notin signals
  /\ pc # "done" /\ "kill" \in signals => termination = "kill_owned_process"
  /\ pc # "done" /\ signals # {} => termination # "already_exited"

Accounted ==
  /\ SignalsAreTold
  /\ pc # "done" => ~ lifecycle.written
  /\ ProcessIsAccountedFor

LEMMA AccountedStays ==
  ASSUME Typed, Accounted, [Next]_vars PROVE Accounted'
<1> USE DEF Accounted, SignalsAreTold, ProcessIsAccountedFor, Before, Reading
<1>1. CASE Terminate
  BY <1>1 DEF Terminate
<1>2. CASE TerminateFails \/ PollAgain
  BY <1>2 DEF TerminateFails, PollAgain, serverVars
<1>3. CASE Reap \/ KillFails \/ KillWaitExpires
  BY <1>3 DEF Reap, KillFails, KillWaitExpires, serverVars
<1>4. CASE WaitExpires
  BY <1>4 DEF WaitExpires
<1>5. CASE WriteLifecycle
  <2>1. /\ pc = "reaped" /\ pc' = "done" /\ server = "exited"
        /\ UNCHANGED <<outcome, termination, signals, server>>
        /\ lifecycle'.written
        /\ lifecycle'.turn_completed_observed = (outcome = "returned")
        /\ lifecycle'.termination_method = termination
        /\ lifecycle'.process_terminated = (server = "exited")
    BY <1>5 DEF WriteLifecycle, Typed, Phases, serverVars
  <2> QED BY <2>1
<1>6. CASE UNCHANGED <<pc, outcome, termination, lifecycle, signals>>
           /\ (server = "exited" => server' = "exited")
  BY <1>6
<1>7. CASE /\ UNCHANGED <<termination, lifecycle, signals>> /\ pc \in Before
           /\ pc' \in Before \cup {"cleanup"}
  BY <1>7
<1>8. CASE Spawn \/ WriteFails \/ TimeOut \/ ReadEof \/ DrainStderr
  BY <1>7, <1>8 DEF Spawn, WriteFails, TimeOut, ReadEof, DrainStderr, Leave, serverVars,
     Typed, Phases
<1>9. CASE ReadGarbage \/ ReadUsage \/ ReadItem \/ ReadCommand \/ ReadCompleted \/ ReadAsk
  BY <1>7, <1>9 DEF ReadGarbage, ReadUsage, ReadItem, ReadCommand, ReadCompleted, ReadAsk,
     Receive, Leave, serverVars
<1>10. CASE ReadResponse
  <2>1. Moved /\ pc \in Reading /\ UNCHANGED <<termination, lifecycle, signals>>
    BY <1>10, ResponseMoves DEF ReadResponse, Receive, serverVars
  <2> QED BY <1>7, <2>1 DEF Moved, Leave
<1>11. CASE RefusalIsWritten
  <2>1. pc \in Before
    BY <1>11, Lines DEF RefusalIsWritten, Typed, Phases
  <2>2. Moved /\ UNCHANGED <<termination, lifecycle, signals>>
    BY <1>11, RefusalMoves DEF RefusalIsWritten, serverVars
  <2> QED BY <1>7, <2>1, <2>2 DEF Moved, Leave
<1>12. CASE RequestIsWritten
  <2>1. pc \in Before
    BY <1>12, Lines DEF RequestIsWritten, Typed, Phases
  <2>2. pc' \in Reading /\ UNCHANGED <<termination, lifecycle, signals>>
    BY <1>12 DEF RequestIsWritten, serverVars
  <2> QED BY <1>7, <2>1, <2>2
<1>13. CASE Expire \/ UNCHANGED vars
  BY <1>6, <1>13 DEF Expire, vars, clientVars, serverVars
<1>14. CASE Server
  BY <1>6, <1>14 DEF Server, ServerAnswers, ServerAsks, ServerInfers, ServerNotifies,
     ServerStreams, ServerStartsCommand, ServerCompletes, ServerWritesGarbage,
     ServerClosesStdout, ServerExits, CommandExits, clientVars
<1> QED
  BY <1>1, <1>2, <1>3, <1>4, <1>5, <1>8, <1>9, <1>10, <1>11, <1>12, <1>13, <1>14
     DEF Next, Client, Writes, Finished

(* A run leaves the app-server behind only by raising, and without a       *)
(* record.  One that returns has a record, and whatever way a run ended,   *)
(* its record is true: the process has exited, the turn was or was not     *)
(* completed, and a process that had to be signalled or killed is never    *)
(* said to have exited of its own accord, or to have gone at the first     *)
(* request.                                                                *)
THEOREM NoProcessIsLeft == Spec => []ProcessIsAccountedFor
<1>1. Init => Accounted
  BY DEF Init, Accounted, SignalsAreTold, ProcessIsAccountedFor, NoLifecycle
<1>2. Accounted => ProcessIsAccountedFor
  BY DEF Accounted
<1> QED
  BY <1>1, <1>2, InitIsTyped, NextKeepsTyped, AccountedStays, PTL DEF Spec

-----------------------------------------------------------------------------
(* What a turn tells lies before its completion, and a returned run has    *)
(* read that far.                                                          *)
OfTurn == {"command", "delta", "item"}

TurnIsOver ==
  \A k, l \in 1 .. Len(stdout) :
    stdout[k].kind = "completed" /\ stdout[l].kind \in OfTurn => l < k

CompletedIsRead ==
  outcome = "returned" => \E k \in 1 .. cursor : stdout[k].kind = "completed"

CommandsAreNamed ==
  \A p \in Pids : commands[p] # "unstarted"
    => \E k \in 1 .. Len(stdout) : stdout[k] = [kind |-> "command", pid |-> p]

(* The message of a step that emits one, and what is kept besides.         *)
LEMMA TurnEmits ==
  ASSUME Typed, ServerStreams \/ ServerStartsCommand \/ ServerNotifies \/ ServerCompletes
  PROVE  \E m \in Message :
           /\ Emits(m)
           /\ m.kind \in OfTurn \cup {"usage", "completed"}
           /\ m.kind # "usage" => ~ Wrote("completed") /\ 3 \in sent
<1>1. CASE ServerStreams
  <2>1. PICK i \in side.items, kind \in {"delta", "item"} : Emit([kind |-> kind, item |-> i])
    BY <1>1 DEF ServerStreams
  <2>2. [kind |-> kind, item |-> i] \in Message
    BY SidesAreTyped DEF Message, Typed
  <2> QED BY <1>1, <2>1, <2>2 DEF ServerStreams, Emits, Emit, TurnOpen, OfTurn
<1>2. CASE ServerStartsCommand
  <2>1. PICK p \in side.pids : Emit([kind |-> "command", pid |-> p])
    BY <1>2 DEF ServerStartsCommand
  <2>2. [kind |-> "command", pid |-> p] \in Message
    BY SidesAreTyped DEF Message, Typed
  <2> QED BY <1>2, <2>1, <2>2 DEF ServerStartsCommand, Emits, Emit, TurnOpen, OfTurn
<1>3. CASE ServerNotifies
  <2>1. PICK j \in (notified .. Len(served)) \ {0} : Emit([kind |-> "usage", request |-> j])
    BY <1>3 DEF ServerNotifies
  <2>2. [kind |-> "usage", request |-> j] \in Message
    BY DEF Message, Typed, TypeOK
  <2> QED BY <1>3, <2>1, <2>2 DEF ServerNotifies, Emits, Emit
<1>4. CASE ServerCompletes
  <2>1. PICK t \in BOOLEAN : Emit([kind |-> "completed", text |-> t])
    BY <1>4 DEF ServerCompletes
  <2>2. [kind |-> "completed", text |-> t] \in Message
    BY DEF Message
  <2> QED BY <1>4, <2>1, <2>2 DEF ServerCompletes, Emits, Emit, TurnOpen
<1> QED
  BY <1>1, <1>2, <1>3, <1>4

(* Sending is the only thing that changes stdout, and reading never        *)
(* overtakes it.                                                           *)
LEMMA OutputGrows ==
  ASSUME Typed, [Next]_vars
  PROVE  \/ UNCHANGED stdout
         \/ \E m \in Message : Emits(m)
BY Steps, TurnEmits
   DEF OtherClient, ReadUsage, ReadItem, ReadCompleted, WriteLifecycle, Quiet, EmitsPlain, serverVars

LEMMA ReadStays ==
  ASSUME Typed, [Next]_vars
  PROVE  /\ \A k \in 1 .. Len(stdout) : stdout'[k] = stdout[k]
         /\ Len(stdout') >= Len(stdout) /\ Len(stdout) \in Nat /\ Len(stdout') \in Nat
         /\ cursor \in 0 .. Len(stdout)
<1>1. TypeOK
  BY DEF Typed
<1>2. CASE UNCHANGED stdout
  BY <1>1, <1>2 DEF TypeOK
<1>3. CASE \E m \in Message : Emits(m)
  BY <1>1, <1>3, EmitAppends DEF Emits, TypeOK
<1> QED
  BY <1>2, <1>3, OutputGrows

EmitsInTurn(m) ==
  /\ Emits(m)
  /\ m.kind \in OfTurn \cup {"completed"} => ~ Wrote("completed")

LEMMA TurnIsOverStays == ASSUME Typed, TurnIsOver, [Next]_vars PROVE TurnIsOver'
<1>1. CASE UNCHANGED stdout
  BY <1>1 DEF TurnIsOver
<1>2. CASE \E m \in Message : EmitsInTurn(m)
  <2>1. PICK m \in Message : EmitsInTurn(m)
    BY <1>2
  <2>2. /\ Len(stdout') = Len(stdout) + 1 /\ Len(stdout) \in Nat
        /\ \A k \in 1 .. Len(stdout) : stdout'[k] = stdout[k]
        /\ stdout'[Len(stdout')] = m
    <3>1. TypeOK /\ stdout' = Append(stdout, m)
      BY <2>1 DEF Emits, EmitsInTurn, Typed
    <3> QED BY <3>1, EmitAppends
  <2> SUFFICES ASSUME NEW k \in 1 .. Len(stdout'), NEW l \in 1 .. Len(stdout'),
                      stdout'[k].kind = "completed", stdout'[l].kind \in OfTurn
               PROVE  l < k
    BY DEF TurnIsOver
  <2>3. CASE l = Len(stdout')
    <3>1. m.kind \in OfTurn
      BY <2>2, <2>3
    <3>4. ~ Wrote("completed")
      BY <2>1, <3>1 DEF EmitsInTurn
    <3>2. k # l
      BY <2>3, <3>1 DEF OfTurn
    <3>3. k \in 1 .. Len(stdout) /\ stdout[k].kind = "completed"
      BY <2>2, <2>3, <3>2
    <3> QED BY <3>3, <3>4 DEF Wrote
  <2>4. CASE l # Len(stdout') /\ k = Len(stdout')
    BY <2>2, <2>4
  <2>5. CASE l # Len(stdout') /\ k # Len(stdout')
    BY <2>2, <2>5 DEF TurnIsOver
  <2> QED BY <2>3, <2>4, <2>5
<1>3. CASE EmitsPlain
  BY <1>2, <1>3 DEF EmitsPlain, EmitsInTurn, OfTurn
<1>4. CASE ServerStreams \/ ServerStartsCommand \/ ServerNotifies \/ ServerCompletes
  <2>1. \E m \in Message : EmitsInTurn(m)
    BY <1>4, TurnEmits DEF OfTurn, EmitsInTurn
  <2> QED BY <1>2, <2>1
<1>5. CASE OtherClient \/ ReadUsage \/ ReadItem \/ ReadCompleted \/ WriteLifecycle \/ Quiet
  BY <1>1, <1>5 DEF OtherClient, ReadUsage, ReadItem, ReadCompleted, WriteLifecycle, Quiet, serverVars
<1> QED
  BY <1>3, <1>4, <1>5, Steps

LEMMA ClientStaysWhileEmitting ==
  ASSUME Typed, ServerStreams \/ ServerStartsCommand \/ ServerNotifies \/ ServerCompletes \/ EmitsPlain
  PROVE  UNCHANGED clientVars /\ pc \in Reading
BY DEF ServerStreams, ServerStartsCommand, ServerNotifies, ServerCompletes, EmitsPlain, Emits, Emit

LEMMA CompletedIsReadStays ==
  ASSUME Typed, CompletedIsRead, [Next]_vars PROVE CompletedIsRead'
<1>0. /\ \A k \in 1 .. Len(stdout) : stdout'[k] = stdout[k]
      /\ cursor \in 0 .. Len(stdout) /\ Len(stdout) \in Nat
  BY ReadStays
<1>1. CASE ReadCompleted
  <2>1. PICK t \in BOOLEAN : Receive([kind |-> "completed", text |-> t])
    BY <1>1 DEF ReadCompleted
  <2>2. cursor' \in 1 .. cursor' /\ stdout'[cursor'].kind = "completed"
    BY <1>0, <1>1, <2>1 DEF ReadCompleted, Receive, serverVars
  <2> QED BY <2>2 DEF CompletedIsRead
<1>2. CASE \/ OtherClient \/ ReadUsage \/ ReadItem \/ WriteLifecycle \/ Quiet
           \/ UNCHANGED <<outcome, cursor>>
  <2>1. outcome' = "returned" => outcome = "returned"
    BY <1>2 DEF OtherClient, ReadUsage, ReadItem, WriteLifecycle, Quiet, Leave
  <2>2. cursor' \in {cursor, cursor + 1}
    BY <1>2 DEF OtherClient, ReadUsage, ReadItem, WriteLifecycle, Quiet, Receive
  <2> QED BY <1>0, <2>1, <2>2 DEF CompletedIsRead
<1> QED
  BY <1>1, <1>2, Steps, ClientStaysWhileEmitting DEF clientVars

LEMMA CommandsAreNamedStays ==
  ASSUME Typed, CommandsAreNamed, [Next]_vars PROVE CommandsAreNamed'
<1>0. /\ \A k \in 1 .. Len(stdout) : stdout'[k] = stdout[k]
      /\ Len(stdout') >= Len(stdout) /\ Len(stdout) \in Nat /\ Len(stdout') \in Nat
  BY ReadStays
<1>1. CASE ServerStartsCommand
  <2>1. PICK p \in side.pids : /\ Emit([kind |-> "command", pid |-> p])
                              /\ commands' = [commands EXCEPT ![p] = "running"]
    BY <1>1 DEF ServerStartsCommand
  <2>2. /\ Len(stdout') = Len(stdout) + 1
        /\ stdout'[Len(stdout')] = [kind |-> "command", pid |-> p]
    BY <2>1, EmitAppends DEF Emit, Typed
  <2>3. \A q \in Pids \ {p} : commands'[q] = commands[q]
    BY <2>1 DEF Typed, TypeOK
  <2> SUFFICES ASSUME NEW q \in Pids, commands'[q] # "unstarted"
               PROVE  \E k \in 1 .. Len(stdout') : stdout'[k] = [kind |-> "command", pid |-> q]
    BY DEF CommandsAreNamed
  <2>4. CASE q = p
    <3>1. Len(stdout') \in 1 .. Len(stdout')
      BY <1>0, <2>2
    <3> QED BY <2>2, <2>4, <3>1
  <2>5. CASE q # p
    <3>1. PICK k \in 1 .. Len(stdout) : stdout[k] = [kind |-> "command", pid |-> q]
      BY <2>3, <2>5 DEF CommandsAreNamed
    <3>2. k \in 1 .. Len(stdout') /\ stdout'[k] = stdout[k]
      BY <1>0
    <3> QED BY <3>1, <3>2
  <2> QED BY <2>4, <2>5
<1>2. CASE Quiet
  BY <1>0, <1>2 DEF Quiet, CommandsAreNamed
<1>3. CASE UNCHANGED commands
  <2> SUFFICES ASSUME NEW q \in Pids, commands'[q] # "unstarted"
               PROVE  \E k \in 1 .. Len(stdout') : stdout'[k] = [kind |-> "command", pid |-> q]
    BY DEF CommandsAreNamed
  <2>1. PICK k \in 1 .. Len(stdout) : stdout[k] = [kind |-> "command", pid |-> q]
    BY <1>3 DEF CommandsAreNamed
  <2>2. k \in 1 .. Len(stdout') /\ stdout'[k] = stdout[k]
    BY <1>0
  <2> QED BY <2>1, <2>2
<1> QED
  BY <1>1, <1>2, <1>3, Steps
     DEF OtherClient, ReadUsage, ReadItem, ReadCompleted, WriteLifecycle, EmitsPlain,
         ServerNotifies, ServerStreams, ServerCompletes, serverVars

LEMMA ClearedStays ==
  ASSUME Typed, TurnIsOver, CompletedIsRead, CommandsAreNamed, ClearedRunLeavesNoCommand, [Next]_vars
  PROVE  ClearedRunLeavesNoCommand'
<1> USE DEF ClearedRunLeavesNoCommand, Returned
<1>1. CASE WriteLifecycle
  <2> SUFFICES ASSUME outcome = "returned",
                      \A p \in PublicCommands : commands[p] = "exited",
                      NEW p \in Pids, commands[p] = "running"
               PROVE  FALSE
    BY <1>1 DEF WriteLifecycle, serverVars
  <2>1. PICK k \in 1 .. Len(stdout) : stdout[k] = [kind |-> "command", pid |-> p]
    BY DEF CommandsAreNamed
  <2>2. PICK l \in 1 .. cursor : stdout[l].kind = "completed"
    BY DEF CompletedIsRead
  <2>3. cursor \in 0 .. Len(stdout) /\ Len(stdout) \in Nat
    BY DEF Typed, TypeOK
  <2>4. stdout[k].kind \in OfTurn
    BY <2>1 DEF OfTurn
  <2>5. k < l
    BY <2>2, <2>3, <2>4 DEF TurnIsOver
  <2>6. p \in PublicCommands
    BY <2>1, <2>3, <2>5 DEF PublicCommands
  <2> QED BY <2>6
<1>2. CASE OtherClient
  BY <1>2 DEF OtherClient
<1>3. CASE ReadUsage \/ ReadItem \/ ReadCompleted
  BY <1>3 DEF ReadUsage, ReadItem, ReadCompleted, Receive, Leave, Reading
<1>4. CASE Quiet
  BY <1>4 DEF Quiet
<1>5. CASE ServerNotifies \/ ServerStreams \/ ServerStartsCommand \/ ServerCompletes \/ EmitsPlain
  BY <1>5, ClientStaysWhileEmitting DEF clientVars, Reading
<1> QED
  BY <1>1, <1>2, <1>3, <1>4, <1>5, Steps

(* A run that reports its commands gone left none of them running: every   *)
(* command a turn starts is named before the turn completes, and the       *)
(* record of a returned run is made from all that was read until then.     *)
THEOREM NoCommandIsLeft == Spec => []ClearedRunLeavesNoCommand
<1> DEFINE Inv == /\ Typed /\ TurnIsOver /\ CompletedIsRead /\ CommandsAreNamed
                  /\ ClearedRunLeavesNoCommand
<1>1. Init => Inv
  <2>1. Init => TurnIsOver /\ CompletedIsRead /\ CommandsAreNamed /\ ClearedRunLeavesNoCommand
    BY DEF Init, TurnIsOver, CompletedIsRead, CommandsAreNamed, ClearedRunLeavesNoCommand, Returned
  <2> QED BY <2>1, InitIsTyped
<1>2. Inv /\ [Next]_vars => Inv'
  BY NextKeepsTyped, TurnIsOverStays, CompletedIsReadStays, CommandsAreNamedStays, ClearedStays
<1> QED
  BY <1>1, <1>2, PTL DEF Spec

-----------------------------------------------------------------------------
(* The agent messages: a complete one is written last of its item, answers *)
(* hold what was read of each item, and the newest of them is handed out.  *)
Spoken(m) == m.kind \in {"delta", "item"}

StreamIsWritten ==
  \A i \in Items :
    /\ stream[i] = "complete" =>
         \E k \in 1 .. Len(stdout) : stdout[k] = [kind |-> "item", item |-> i]
    /\ \A k \in 1 .. Len(stdout) : Spoken(stdout[k]) /\ stdout[k].item = i =>
         /\ stream[i] # "absent"
         /\ stdout[k].kind = "item" => stream[i] = "complete"

ItemIsLast ==
  \A k, l \in 1 .. Len(stdout) :
    stdout[k].kind = "item" /\ k < l /\ Spoken(stdout[l]) => stdout[l].item # stdout[k].item

Early == {"spawn", "started", "initialize", "thread"}

SpokenInTurn ==
  (\E k \in 1 .. Len(stdout) : Spoken(stdout[k])) => pc \notin Early

AnswersAreRead ==
  /\ \A n \in 1 .. Len(answers) :
       /\ \E k \in 1 .. cursor : Spoken(stdout[k]) /\ stdout[k].item = answers[n].item
       /\ \A k \in 1 .. cursor : stdout[k].kind = "item" /\ stdout[k].item = answers[n].item =>
            answers[n].whole /\ answers[n].pieces = 0
  /\ \A k \in 1 .. cursor : Spoken(stdout[k]) =>
       \E n \in 1 .. Len(answers) : answers[n].item = stdout[k].item

NewestIsHandedOut ==
  outcome = "returned" /\ answers # <<>>
    => finalOutput = [from |-> "item", answer |-> answers[Len(answers)]]

(* In s the answer to i is as a message of this kind leaves it, every other *)
(* one as it was.                                                           *)
KeepsOthers(s, i, kind) ==
  /\ Len(s) \in Nat /\ Len(s) >= Len(answers)
  /\ \A n \in 1 .. Len(s) :
       /\ s[n].item # i => n \in 1 .. Len(answers) /\ s[n] = answers[n]
       /\ s[n].item = i /\ kind = "item" => s[n].whole /\ s[n].pieces = 0
  /\ \A n \in 1 .. Len(answers) : s[n].item = answers[n].item
  /\ \E n \in 1 .. Len(s) : s[n].item = i

LEMMA StoreKeepsOthers ==
  ASSUME answers \in Seq(Answer), NEW i \in Items, NEW kind \in {"delta", "item"},
         NEW s, s = Store(i, kind)
  PROVE  KeepsOthers(s, i, kind)
<1> USE DEF KeepsOthers
<1> DEFINE len == Len(answers)
<1>1. len \in Nat /\ \A n \in 1 .. len : answers[n] \in Answer
  OBVIOUS
<1>2. ASSUME NEW a \in Answer
      PROVE  /\ Updated(a, kind).item = a.item
             /\ kind = "item" => Updated(a, kind).whole /\ Updated(a, kind).pieces = 0
  <2>1. AddPiece(a).item = a.item
    BY <1>2 DEF AddPiece, Answer
  <2>2. SetWhole(a).item = a.item /\ SetWhole(a).whole /\ SetWhole(a).pieces = 0
    BY <1>2 DEF SetWhole, Answer
  <2> QED BY <2>1, <2>2 DEF Updated
<1>3. CASE \E n \in 1 .. len : answers[n].item = i
  <2>1. s = [n \in 1 .. len |->
               IF answers[n].item = i THEN Updated(answers[n], kind) ELSE answers[n]]
    BY <1>3 DEF Store
  <2>2. Len(s) = len
    BY <1>1, <2>1
  <2>3. \A n \in 1 .. len :
          s[n] = IF answers[n].item = i THEN Updated(answers[n], kind) ELSE answers[n]
    BY <2>1
  <2> QED BY <1>1, <1>2, <1>3, <2>2, <2>3
<1>4. CASE ~ \E n \in 1 .. len : answers[n].item = i
  <2> DEFINE a == [item |-> i, whole |-> FALSE, pieces |-> 0]
  <2>1. a \in Answer /\ a.item = i
    BY DEF Answer
  <2> HIDE DEF a
  <2>2. s = Append(answers, Updated(a, kind))
    BY <1>4 DEF Store, a
  <2>3. /\ Len(s) = len + 1 /\ s[len + 1] = Updated(a, kind)
        /\ \A n \in 1 .. len : s[n] = answers[n]
    BY <1>1, <2>2
  <2> QED BY <1>1, <1>2, <1>4, <2>1, <2>3
<1> QED
  BY <1>3, <1>4

(* Every step but a piece of an agent message leaves them alone.           *)
LEMMA SilentSteps ==
  ASSUME Typed, [Next]_vars
  PROVE  \/ UNCHANGED <<stdout, stream>>
         \/ \E m \in Message : Emits(m) /\ ~ Spoken(m) /\ UNCHANGED stream
         \/ ServerStreams
<1>1. CASE EmitsPlain
  BY <1>1 DEF EmitsPlain, Spoken
<1>2. CASE ServerNotifies
  <2>1. PICK j \in (notified .. Len(served)) \ {0} : Emit([kind |-> "usage", request |-> j])
    BY <1>2 DEF ServerNotifies
  <2>2. [kind |-> "usage", request |-> j] \in Message
    BY DEF Message, Typed, TypeOK
  <2> QED BY <1>2, <2>1, <2>2 DEF ServerNotifies, Emits, Emit, Spoken
<1>3. CASE ServerStartsCommand
  <2>1. PICK p \in side.pids : Emit([kind |-> "command", pid |-> p])
    BY <1>3 DEF ServerStartsCommand
  <2>2. [kind |-> "command", pid |-> p] \in Message
    BY SidesAreTyped DEF Message, Typed
  <2> QED BY <1>3, <2>1, <2>2 DEF ServerStartsCommand, Emits, Emit, Spoken
<1>4. CASE ServerCompletes
  <2>1. PICK t \in BOOLEAN : Emit([kind |-> "completed", text |-> t])
    BY <1>4 DEF ServerCompletes
  <2>2. [kind |-> "completed", text |-> t] \in Message
    BY DEF Message
  <2> QED BY <1>4, <2>1, <2>2 DEF ServerCompletes, Emits, Emit, Spoken
<1>5. CASE OtherClient \/ ReadUsage \/ ReadItem \/ ReadCompleted \/ WriteLifecycle \/ Quiet
  BY <1>5 DEF OtherClient, ReadUsage, ReadItem, ReadCompleted, WriteLifecycle, Quiet, serverVars
<1> QED
  BY <1>1, <1>2, <1>3, <1>4, <1>5, Steps

(* What ServerStreams writes: nothing more of an item that is complete.    *)
LEMMA StreamStep ==
  ASSUME Typed, ServerStreams
  PROVE  \E i \in Items, kind \in {"delta", "item"} :
           /\ Emits([kind |-> kind, item |-> i])
           /\ stream[i] # "complete" /\ 3 \in sent
           /\ stream' = [stream EXCEPT ![i] = IF kind = "item" THEN "complete" ELSE "partial"]
BY SidesAreTyped DEF Typed, ServerStreams, Emits, Emit, TurnOpen

LEMMA StreamStays ==
  ASSUME Typed, StreamIsWritten, ItemIsLast, [Next]_vars
  PROVE  StreamIsWritten' /\ ItemIsLast'
<1>1. CASE UNCHANGED <<stdout, stream>>
  BY <1>1 DEF StreamIsWritten, ItemIsLast
<1>2. CASE \E m \in Message : Emits(m) /\ ~ Spoken(m) /\ UNCHANGED stream
  <2>1. PICK m \in Message : Emits(m) /\ ~ Spoken(m) /\ UNCHANGED stream
    BY <1>2
  <2>2. TypeOK /\ stdout' = Append(stdout, m)
    BY <2>1 DEF Emits, Typed
  <2>3. /\ Len(stdout') = Len(stdout) + 1 /\ Len(stdout) \in Nat
        /\ \A k \in 1 .. Len(stdout) : stdout'[k] = stdout[k]
        /\ stdout'[Len(stdout')] = m
    BY <2>2, EmitAppends
  <2>4. \A k \in 1 .. Len(stdout') :
          Spoken(stdout'[k]) => k \in 1 .. Len(stdout) /\ stdout'[k] = stdout[k]
    BY <2>1, <2>3
  <2>5. StreamIsWritten'
    BY <2>1, <2>3, <2>4 DEF StreamIsWritten
  <2>6. ItemIsLast'
    BY <2>3, <2>4 DEF ItemIsLast, Spoken
  <2> QED BY <2>5, <2>6
<1>3. CASE ServerStreams
  <2>1. PICK i \in Items, kind \in {"delta", "item"} :
           /\ Emits([kind |-> kind, item |-> i])
           /\ stream[i] # "complete" /\ 3 \in sent
           /\ stream' = [stream EXCEPT ![i] = IF kind = "item" THEN "complete" ELSE "partial"]
    BY <1>3, StreamStep
  <2> DEFINE m == [kind |-> kind, item |-> i]
  <2>2. TypeOK /\ stdout' = Append(stdout, m)
    BY <2>1 DEF Emits, Typed
  <2>3. /\ Len(stdout') = Len(stdout) + 1 /\ Len(stdout) \in Nat
        /\ \A k \in 1 .. Len(stdout) : stdout'[k] = stdout[k]
        /\ stdout'[Len(stdout')] = m
    BY <2>2, EmitAppends
  <2>4. /\ stream'[i] = IF kind = "item" THEN "complete" ELSE "partial"
        /\ \A j \in Items \ {i} : stream'[j] = stream[j]
    BY <2>1, <2>2 DEF TypeOK
  <2>5. m.kind = kind /\ m.item = i
    OBVIOUS
  <2>6. \A k \in 1 .. Len(stdout) : Spoken(stdout[k]) /\ stdout[k].item = i
                                   => stdout[k].kind # "item"
    BY <2>1 DEF StreamIsWritten
  <2>7. ItemIsLast'
    <3> SUFFICES ASSUME NEW k \in 1 .. Len(stdout'), NEW l \in 1 .. Len(stdout'),
                        stdout'[k].kind = "item", k < l, Spoken(stdout'[l])
                 PROVE  stdout'[l].item # stdout'[k].item
      BY DEF ItemIsLast
    <3>1. k \in 1 .. Len(stdout) /\ stdout'[k] = stdout[k]
      BY <2>3
    <3>2. CASE l = Len(stdout')
      BY <2>3, <2>5, <2>6, <3>1, <3>2 DEF Spoken
    <3>3. CASE l # Len(stdout')
      BY <2>3, <3>1, <3>3 DEF ItemIsLast
    <3> QED BY <3>2, <3>3
  <2>8. StreamIsWritten'
    <3> SUFFICES ASSUME NEW j \in Items
                 PROVE  /\ stream'[j] = "complete" =>
                             \E k \in 1 .. Len(stdout') : stdout'[k] = [kind |-> "item", item |-> j]
                        /\ \A k \in 1 .. Len(stdout') : Spoken(stdout'[k]) /\ stdout'[k].item = j =>
                             /\ stream'[j] # "absent"
                             /\ stdout'[k].kind = "item" => stream'[j] = "complete"
      BY DEF StreamIsWritten
    <3>1. CASE j # i
      <4>1. stream'[j] = stream[j]
        BY <2>4, <3>1
      <4>2. stream[j] = "complete" =>
              \E k \in 1 .. Len(stdout') : stdout'[k] = [kind |-> "item", item |-> j]
        BY <2>3 DEF StreamIsWritten
      <4>3. ASSUME NEW k \in 1 .. Len(stdout'), Spoken(stdout'[k]), stdout'[k].item = j
            PROVE  /\ stream[j] # "absent"
                   /\ stdout'[k].kind = "item" => stream[j] = "complete"
        <5>1. k \in 1 .. Len(stdout) /\ stdout'[k] = stdout[k]
          BY <2>3, <2>5, <3>1, <4>3
        <5>2. Spoken(stdout[k]) /\ stdout[k].item = j
          BY <4>3, <5>1
        <5>3. stream[j] # "absent" /\ (stdout[k].kind = "item" => stream[j] = "complete")
          BY <5>1, <5>2 DEF StreamIsWritten
        <5> QED BY <5>1, <5>3
      <4> QED BY <4>1, <4>2, <4>3
    <3>2. CASE j = i
      <4>1. stream'[i] = "complete" => kind = "item"
        BY <2>4
      <4>2. kind = "item" =>
              \E k \in 1 .. Len(stdout') : stdout'[k] = [kind |-> "item", item |-> i]
        BY <2>3
      <4>3. stream'[i] # "absent"
        BY <2>4
      <4>4. ASSUME NEW k \in 1 .. Len(stdout'), Spoken(stdout'[k]), stdout'[k].item = i,
                   stdout'[k].kind = "item"
            PROVE  stream'[i] = "complete"
        <5>1. k = Len(stdout')
          BY <2>3, <2>6, <4>4
        <5> QED BY <2>3, <2>4, <2>5, <4>4, <5>1
      <4> QED BY <3>2, <4>1, <4>2, <4>3, <4>4
    <3> QED BY <3>1, <3>2
  <2> QED BY <2>7, <2>8
<1> QED
  BY <1>1, <1>2, <1>3, SilentSteps

LEMMA SpokenInTurnStays ==
  ASSUME Typed, SpokenInTurn, [Next]_vars PROVE SpokenInTurn'
<1>1. pc \notin Early => pc' \notin Early
  <2>1. CASE OtherClient
    BY <2>1 DEF OtherClient, Early, Reading
  <2>2. CASE ReadUsage \/ ReadItem \/ ReadCompleted \/ WriteLifecycle
    BY <2>2 DEF ReadUsage, ReadItem, ReadCompleted, WriteLifecycle, Leave, Early
  <2>3. CASE Quiet
    BY <2>3 DEF Quiet
  <2> QED BY <2>1, <2>2, <2>3, Steps, ClientStaysWhileEmitting DEF clientVars
<1>2. CASE UNCHANGED stdout
  BY <1>1, <1>2 DEF SpokenInTurn
<1>3. CASE \E m \in Message : Emits(m) /\ ~ Spoken(m)
  <2>1. PICK m \in Message : Emits(m) /\ ~ Spoken(m)
    BY <1>3
  <2>2. TypeOK /\ stdout' = Append(stdout, m)
    BY <2>1 DEF Emits, Typed
  <2>3. /\ Len(stdout') = Len(stdout) + 1 /\ Len(stdout) \in Nat
        /\ \A k \in 1 .. Len(stdout) : stdout'[k] = stdout[k]
        /\ stdout'[Len(stdout')] = m
    BY <2>2, EmitAppends
  <2>4. \A k \in 1 .. Len(stdout') :
          Spoken(stdout'[k]) => k \in 1 .. Len(stdout) /\ stdout'[k] = stdout[k]
    BY <2>1, <2>3
  <2> QED BY <1>1, <2>4 DEF SpokenInTurn
<1>4. CASE ServerStreams
  <2>1. 3 \in sent /\ pc \in Reading /\ pc' = pc
    BY <1>4, StreamStep DEF Emits, clientVars
  <2>2. pc = "turn"
    BY <2>1 DEF Typed, Phases, Reading
  <2> QED BY <2>1, <2>2 DEF SpokenInTurn, Early
<1> QED
  BY <1>2, <1>3, <1>4, SilentSteps

(* One piece of a message more is read, or nothing of what is known of the *)
(* answers changes.                                                        *)
LEMMA AnswersStay ==
  ASSUME Typed, AnswersAreRead, SpokenInTurn, ItemIsLast, [Next]_vars
  PROVE  AnswersAreRead'
<1>0. /\ \A k \in 1 .. Len(stdout) : stdout'[k] = stdout[k]
      /\ Len(stdout) \in Nat /\ cursor \in 0 .. Len(stdout)
  BY ReadStays
<1>1. ASSUME answers' = answers,
             \A k \in 1 .. cursor' : k \in 1 .. cursor \/ ~ Spoken(stdout'[k]),
             cursor' >= cursor, cursor' \in Nat
      PROVE  AnswersAreRead'
  <2>1. \A k \in 1 .. cursor : k \in 1 .. cursor' /\ stdout'[k] = stdout[k]
    BY <1>0, <1>1
  <2>2. \A k \in 1 .. cursor' : Spoken(stdout'[k]) => k \in 1 .. cursor /\ stdout'[k] = stdout[k]
    BY <1>1, <2>1
  <2>3. ASSUME NEW n \in 1 .. Len(answers)
        PROVE  /\ \E k \in 1 .. cursor' : Spoken(stdout'[k]) /\ stdout'[k].item = answers[n].item
               /\ \A k \in 1 .. cursor' :
                    stdout'[k].kind = "item" /\ stdout'[k].item = answers[n].item =>
                      answers[n].whole /\ answers[n].pieces = 0
    <3>1. PICK k \in 1 .. cursor : Spoken(stdout[k]) /\ stdout[k].item = answers[n].item
      BY DEF AnswersAreRead
    <3>2. \A k2 \in 1 .. cursor' : stdout'[k2].kind = "item" => Spoken(stdout'[k2])
      BY DEF Spoken
    <3>3. k \in 1 .. cursor' /\ Spoken(stdout'[k]) /\ stdout'[k].item = answers[n].item
      BY <2>1, <3>1
    <3>4. ASSUME NEW k2 \in 1 .. cursor', stdout'[k2].kind = "item",
                 stdout'[k2].item = answers[n].item
          PROVE  answers[n].whole /\ answers[n].pieces = 0
      <4>1. k2 \in 1 .. cursor /\ stdout'[k2] = stdout[k2]
        BY <2>2, <3>2, <3>4
      <4>2. stdout[k2].kind = "item" /\ stdout[k2].item = answers[n].item
        BY <3>4, <4>1
      <4> QED BY <4>1, <4>2 DEF AnswersAreRead
    <3> QED BY <3>3, <3>4
  <2>4. \A k \in 1 .. cursor' : Spoken(stdout'[k]) =>
          \E n \in 1 .. Len(answers) : answers[n].item = stdout'[k].item
    <3> SUFFICES ASSUME NEW k \in 1 .. cursor', Spoken(stdout'[k])
                 PROVE  \E n \in 1 .. Len(answers) : answers[n].item = stdout'[k].item
      OBVIOUS
    <3>1. k \in 1 .. cursor /\ stdout'[k] = stdout[k]
      BY <2>2
    <3>2. Spoken(stdout[k])
      BY <3>1
    <3> QED BY <3>1, <3>2 DEF AnswersAreRead
  <2> QED BY <1>1, <2>3, <2>4 DEF AnswersAreRead
<1>2. CASE ReadItem
  <2>1. PICK i \in Items, kind \in {"delta", "item"} :
          /\ Receive([kind |-> kind, item |-> i])
          /\ answers' = IF pc = "turn" THEN Store(i, kind) ELSE answers
    BY <1>2 DEF ReadItem
  <2> DEFINE c == cursor + 1
  <2>2. /\ cursor' = c /\ c \in 1 .. Len(stdout) /\ pc \in Reading
        /\ stdout[c].kind = kind /\ stdout[c].item = i /\ UNCHANGED stdout
        /\ 1 .. c = 1 .. cursor \cup {c}
    BY <1>0, <1>2, <2>1 DEF ReadItem, Receive, serverVars
  <2>3. Spoken(stdout[c])
    BY <2>2 DEF Spoken
  <2>4. pc = "turn"
    BY <2>2, <2>3 DEF SpokenInTurn, Early, Reading
  <2>5. answers' = Store(i, kind) /\ answers \in Seq(Answer)
    BY <2>1, <2>4 DEF Typed, TypeOK
  <2>6. /\ Len(answers') \in Nat /\ Len(answers') >= Len(answers)
        /\ \A n \in 1 .. Len(answers') :
             /\ answers'[n].item # i => n \in 1 .. Len(answers) /\ answers'[n] = answers[n]
             /\ answers'[n].item = i /\ kind = "item" => answers'[n].whole /\ answers'[n].pieces = 0
        /\ \A n \in 1 .. Len(answers) : answers'[n].item = answers[n].item
        /\ \E n \in 1 .. Len(answers') : answers'[n].item = i
    <3>1. KeepsOthers(answers', i, kind)
      BY <2>5, StoreKeepsOthers
    <3> QED BY <3>1 DEF KeepsOthers
  <2>7. \A k \in 1 .. cursor : stdout[k].kind = "item" => stdout[k].item # i
    <3>1. \A k \in 1 .. cursor : k \in 1 .. Len(stdout) /\ k < c
      BY <1>0
    <3>2. c \in 1 .. Len(stdout) /\ stdout[c].item = i
      BY <2>2
    <3> QED BY <2>3, <3>1, <3>2 DEF ItemIsLast
  <2>8. ASSUME NEW n \in 1 .. Len(answers')
        PROVE  /\ \E k \in 1 .. c : Spoken(stdout[k]) /\ stdout[k].item = answers'[n].item
               /\ \A k \in 1 .. c : stdout[k].kind = "item" /\ stdout[k].item = answers'[n].item =>
                    answers'[n].whole /\ answers'[n].pieces = 0
    <3>1. CASE answers'[n].item = i
      BY <2>2, <2>3, <2>6, <2>7, <3>1
    <3>2. CASE answers'[n].item # i
      <4>1. n \in 1 .. Len(answers) /\ answers'[n] = answers[n]
        BY <2>6, <3>2
      <4>2. PICK k \in 1 .. cursor : Spoken(stdout[k]) /\ stdout[k].item = answers[n].item
        BY <4>1 DEF AnswersAreRead
      <4>3. \A k2 \in 1 .. c : stdout[k2].item = answers[n].item => k2 \in 1 .. cursor
        BY <2>2, <3>2, <4>1
      <4> QED BY ZenonT(60), <2>2, <4>1, <4>2, <4>3 DEF AnswersAreRead
    <3> QED BY <3>1, <3>2
  <2>9. ASSUME NEW k \in 1 .. c, Spoken(stdout[k])
        PROVE  \E n \in 1 .. Len(answers') : answers'[n].item = stdout[k].item
    <3>1. CASE k = c
      BY <2>2, <2>6, <3>1
    <3>2. CASE k # c
      <4>1. PICK n \in 1 .. Len(answers) : answers[n].item = stdout[k].item
        BY <2>2, <2>9, <3>2 DEF AnswersAreRead
      <4> QED BY <2>5, <2>6, <4>1
    <3> QED BY <3>1, <3>2
  <2> QED BY <2>2, <2>8, <2>9 DEF AnswersAreRead
<1>3. CASE ReadUsage \/ ReadCompleted
  <2>1. PICK m : Receive(m) /\ ~ Spoken(m)
    <3>1. CASE ReadUsage
      <4>1. PICK m \in [kind : {"usage"}, request : 1 .. Len(served)] : Receive(m)
        BY <3>1 DEF ReadUsage
      <4> QED BY <4>1 DEF Spoken
    <3>2. CASE ReadCompleted
      BY <3>2 DEF ReadCompleted, Spoken
    <3> QED BY <1>3, <3>1, <3>2
  <2>2. /\ answers' = answers /\ UNCHANGED stdout
        /\ cursor' = cursor + 1 /\ stdout[cursor + 1] = m
    BY <1>3, <2>1 DEF ReadUsage, ReadCompleted, Receive, serverVars
  <2> QED BY <1>0, <1>1, <2>1, <2>2
<1>4. CASE OtherClient
  <2>1. stdout[cursor + 1].kind \notin Told => ~ Spoken(stdout[cursor + 1])
    BY DEF Told, Spoken
  <2> QED BY <1>0, <1>1, <1>4, <2>1 DEF OtherClient
<1>5. CASE WriteLifecycle \/ Quiet \/ UNCHANGED clientVars
  BY <1>0, <1>1, <1>5 DEF WriteLifecycle, Quiet, clientVars
<1> QED
  BY <1>2, <1>3, <1>4, <1>5, Steps, ClientStaysWhileEmitting

LEMMA NewestStays ==
  ASSUME Typed, NewestIsHandedOut, [Next]_vars PROVE NewestIsHandedOut'
<1>1. CASE OtherClient
  BY <1>1 DEF OtherClient, NewestIsHandedOut
<1>2. CASE ReadUsage \/ ReadItem
  <2>1. outcome' # "returned"
    BY <1>2 DEF ReadUsage, ReadItem, Leave, Receive, Typed, Phases, Before, Reading
  <2> QED BY <2>1 DEF NewestIsHandedOut
<1>3. CASE ReadCompleted
  BY <1>3 DEF ReadCompleted, NewestIsHandedOut
<1>4. CASE WriteLifecycle
  BY <1>4 DEF WriteLifecycle, NewestIsHandedOut
<1>5. CASE Quiet \/ UNCHANGED clientVars
  BY <1>5 DEF Quiet, clientVars, NewestIsHandedOut
<1> QED
  BY <1>1, <1>2, <1>3, <1>4, <1>5, Steps, ClientStaysWhileEmitting

Spoke ==
  /\ Typed /\ TurnIsOver /\ CompletedIsRead /\ StreamIsWritten /\ ItemIsLast
  /\ SpokenInTurn /\ AnswersAreRead /\ NewestIsHandedOut

LEMMA SpokeHandsOutWhole == Spoke => OutputIsAWholeMessage
<1> SUFFICES ASSUME Spoke, outcome = "returned", NEW i \in Items, stream[i] = "complete",
                    \A j \in Items : stream[j] # "partial"
             PROVE  /\ finalOutput.from = "item"
                    /\ finalOutput.answer.whole /\ finalOutput.answer.pieces = 0
  BY DEF OutputIsAWholeMessage, Returned
<1> USE DEF Spoke
<1>1. PICK l \in 1 .. cursor : stdout[l].kind = "completed"
  BY DEF CompletedIsRead
<1>2. cursor \in 0 .. Len(stdout) /\ Len(stdout) \in Nat /\ l \in 1 .. Len(stdout)
  BY DEF Typed, TypeOK
<1>3. ASSUME NEW j \in Items, stream[j] = "complete"
      PROVE  \E k \in 1 .. cursor : stdout[k] = [kind |-> "item", item |-> j]
  <2>1. PICK k \in 1 .. Len(stdout) : stdout[k] = [kind |-> "item", item |-> j]
    BY <1>3 DEF StreamIsWritten
  <2>2. stdout[k].kind \in OfTurn
    BY <2>1 DEF OfTurn
  <2>3. k < l
    BY <1>1, <1>2, <2>2 DEF TurnIsOver
  <2> QED BY <1>2, <2>1, <2>3
<1>4. PICK k \in 1 .. cursor : stdout[k] = [kind |-> "item", item |-> i]
  BY <1>3
<1>5. Spoken(stdout[k])
  BY <1>4 DEF Spoken
<1> DEFINE n == Len(answers)
<1>6. answers \in Seq(Answer) /\ n \in 1 .. n /\ answers # <<>>
  <2>1. answers \in Seq(Answer) /\ n \in Nat
    BY DEF Typed, TypeOK
  <2>2. \E x \in 1 .. n : answers[x].item = stdout[k].item
    BY <1>5 DEF AnswersAreRead
  <2> QED BY <2>1, <2>2
<1>7. answers[n].item \in Items
  <2>1. answers[n] \in Answer
    BY <1>6
  <2> QED BY <2>1 DEF Answer
<1>8. PICK k2 \in 1 .. cursor : Spoken(stdout[k2]) /\ stdout[k2].item = answers[n].item
  BY <1>6 DEF AnswersAreRead
<1>9. stream[answers[n].item] = "complete"
  <2>1. stream[answers[n].item] # "absent"
    <3>1. k2 \in 1 .. Len(stdout)
      BY <1>2
    <3> QED BY <1>7, <1>8, <3>1 DEF StreamIsWritten
  <2> QED BY <1>7, <2>1 DEF Typed, TypeOK
<1>10. PICK k3 \in 1 .. cursor : stdout[k3] = [kind |-> "item", item |-> answers[n].item]
  BY <1>3, <1>7, <1>9
<1>11. answers[n].whole /\ answers[n].pieces = 0
  <2>1. stdout[k3].kind = "item" /\ stdout[k3].item = answers[n].item
    BY <1>10
  <2> QED BY <1>6, <2>1 DEF AnswersAreRead
<1>12. finalOutput = [from |-> "item", answer |-> answers[n]]
  BY <1>6 DEF NewestIsHandedOut
<1> QED
  BY <1>11, <1>12

(* If the server finished every message it began, what a returned run      *)
(* hands out is one of them whole, in whatever order pieces and complete   *)
(* texts of however many messages came.                                    *)
THEOREM OutputIsWhole == Spec => []OutputIsAWholeMessage
<1>1. Init => Spoke
  <2>1. Init => /\ TurnIsOver /\ CompletedIsRead /\ StreamIsWritten /\ ItemIsLast
                /\ SpokenInTurn /\ AnswersAreRead /\ NewestIsHandedOut
    BY DEF Init, TurnIsOver, CompletedIsRead, StreamIsWritten, ItemIsLast, SpokenInTurn,
       AnswersAreRead, NewestIsHandedOut
  <2> QED BY <2>1, InitIsTyped DEF Spoke
<1>2. Spoke /\ [Next]_vars => Spoke'
  BY NextKeepsTyped, TurnIsOverStays, CompletedIsReadStays, StreamStays, SpokenInTurnStays,
     AnswersStay, NewestStays DEF Spoke
<1> QED
  BY <1>1, <1>2, SpokeHandsOutWhole, PTL DEF Spec

-----------------------------------------------------------------------------
(* What a step does to the usage: the provider serves, the client reads a  *)
(* notification, or something else happens.                                *)
LEMMA UsageSteps ==
  ASSUME Typed, [Next]_vars
  PROVE  \/ ReadUsage
         \/ /\ UNCHANGED <<ledger, usageAt>>
            /\ served' = served \/ ServerInfers
            /\ \/ cursor' = cursor
               \/ /\ cursor' = cursor + 1 /\ cursor < Len(stdout) /\ stdout' = stdout
                  /\ stdout[cursor + 1].kind # "usage"
            /\ outcome' \in {"none", "returned"} => outcome \in {"none", "returned"}
<1>1. CASE OtherClient
  BY <1>1 DEF OtherClient, Told
<1>2. CASE ReadItem \/ ReadCompleted
  <2>1. PICK m : Receive(m) /\ m.kind # "usage"
    <3>1. CASE ReadItem
      BY <3>1 DEF ReadItem
    <3>2. CASE ReadCompleted
      BY <3>2 DEF ReadCompleted
    <3> QED BY <1>2, <3>1, <3>2
  <2>2. outcome \in {"none", "returned"}
    BY <2>1 DEF Typed, Phases, Before, Receive
  <2> QED BY <1>2, <2>1, <2>2 DEF ReadItem, ReadCompleted, Receive, serverVars
<1>3. CASE WriteLifecycle
  BY <1>3 DEF WriteLifecycle, serverVars
<1>4. CASE Quiet
  BY <1>4 DEF Quiet
<1>5. CASE EmitsPlain \/ ServerNotifies \/ ServerStreams \/ ServerStartsCommand \/ ServerCompletes
  BY <1>5 DEF EmitsPlain, Emits, ServerNotifies, ServerStreams, ServerStartsCommand,
     ServerCompletes, clientVars
<1> QED
  BY <1>1, <1>2, <1>3, <1>4, <1>5, Steps

LEMMA ServedStays ==
  ASSUME Typed, [Next]_vars
  PROVE  /\ \A i \in 1 .. Len(served) : served'[i] = served[i]
         /\ Len(served') >= Len(served) /\ Len(served) \in Nat /\ Len(served') \in Nat
<1>1. served \in Seq(Request)
  BY DEF Typed, TypeOK
<1>2. CASE served' = served
  BY <1>1, <1>2
<1>3. CASE ServerInfers
  BY <1>1, <1>3 DEF ServerInfers
<1> QED
  BY <1>2, <1>3, UsageSteps DEF ReadUsage, serverVars

(* Once the try block is left, it stays left.                              *)
LEMMA LeftStays ==
  ASSUME Typed, [Next]_vars, outcome # "none"
  PROVE  outcome' # "none"
<1>1. CASE OtherClient
  BY <1>1 DEF OtherClient
<1>2. CASE ReadUsage \/ ReadItem \/ ReadCompleted
  BY <1>2 DEF ReadUsage, ReadItem, ReadCompleted, Receive, Typed, Phases, Before
<1>3. CASE WriteLifecycle \/ Quiet
  BY <1>3 DEF WriteLifecycle, Quiet
<1>4. CASE UNCHANGED clientVars
  BY <1>4 DEF clientVars
<1> QED
  BY <1>1, <1>2, <1>3, <1>4, Steps, ClientStaysWhileEmitting

-----------------------------------------------------------------------------
(* Refinement: the client reads the stream of UsageStream.tla, without a   *)
(* reset and without malformed notifications.                              *)
LEMMA SameOperators ==
  /\ Stream!Zero = Zero /\ Stream!UsageBreakdown = UsageBreakdown
  /\ \A a, b : Stream!Plus(a, b) = Plus(a, b)
  /\ Stream!EmptyLedger = EmptyLedger
  /\ \A l, a, b : /\ Stream!NotificationVerdict(l, a, b) = NotificationVerdict(l, a, b)
                  /\ Stream!AcceptNotification(l, a, b) = AcceptNotification(l, a, b)
BY DEF Stream!Zero, Zero, Stream!UsageBreakdown, UsageBreakdown, Stream!Fields, Fields,
   Stream!Plus, Plus, Stream!EmptyLedger, EmptyLedger, Stream!NotificationVerdict,
   NotificationVerdict, Stream!Verdict, Verdict, Stream!WellFormed, WellFormed,
   Stream!FromAppServer, FromAppServer, Stream!MovedBackwards, MovedBackwards,
   Stream!Subtract, Subtract, Stream!IsZero, IsZero, Stream!AcceptNotification,
   AcceptNotification, Stream!Advance, Advance

LEMMA InferServesRequest ==
  ASSUME Typed, ServerInfers
  PROVE  Stream!ServeRequest
<1>1. PICK u \in Lasts :
        served' = Append(served,
                   [last  |-> u,
                    total |-> IF served = <<>> THEN u
                              ELSE Plus(served[Len(served)].total, u)])
  BY DEF ServerInfers
<1>2. u \in UsageBreakdown
  BY LastsAssumption
<1>3. served \in Seq(Request) /\ Len(served) \in Nat
  BY DEF Typed, TypeOK
<1>4. (IF served = <<>> THEN u ELSE Plus(served[Len(served)].total, u))
        = Stream!Plus(Stream!RunningTotal, u)
  <2>1. CASE served = <<>>
    <3>1. Plus(Zero, u) = u
      BY <1>2 DEF Plus, Zero, UsageBreakdown
    <3> QED BY <2>1, <3>1, SameOperators DEF Stream!RunningTotal
  <2>2. CASE served # <<>>
    <3>1. Len(served) > 0
      BY <1>3, <2>2
    <3> QED BY <2>2, <3>1, SameOperators DEF Stream!RunningTotal
  <2> QED BY <2>1, <2>2
<1>5. Len(served) < MaxRequests
  <2>1. side.requests \in 0 .. MaxRequests /\ MaxRequests \in Nat
    BY SidesAssumption DEF Typed, TypeOK, Side
  <2> QED BY <1>3, <2>1 DEF ServerInfers
<1>6. UNCHANGED <<ledger, outcome>>
  BY DEF ServerInfers, clientVars
<1> QED
  BY <1>1, <1>4, <1>5, <1>6 DEF Stream!ServeRequest

LEMMA ReadingIsDelivery ==
  ASSUME Typed, ReadUsage
  PROVE  Stream!Deliver \/ Stream!StopReading
<1>1. PICK m \in [kind : {"usage"}, request : 1 .. Len(served)] :
        /\ Receive(m)
        /\ ledger' = AcceptNotification(ledger, served[m.request].last, served[m.request].total)
        /\ IF NotificationVerdict(ledger, served[m.request].last, served[m.request].total)
                = "error"
           THEN Leave("protocol_error") ELSE UNCHANGED <<pc, outcome>>
  BY DEF ReadUsage
<1> DEFINE j == m.request
           verdict == NotificationVerdict(ledger, served[j].last, served[j].total)
<1>2. j \in 1 .. Len(served) /\ served' = served /\ outcome = "none"
  BY <1>1 DEF ReadUsage, serverVars, Receive, Typed, Phases, Before
<1>3. CASE verdict = "error"
  <2>1. ledger' = ledger /\ outcome' # "none"
    BY <1>1, <1>3 DEF AcceptNotification, Leave
  <2> QED BY <1>2, <2>1 DEF Stream!StopReading
<1>4. CASE verdict # "error"
  <2>1. outcome' = "none"
    BY <1>1, <1>2, <1>4
  <2>2. Stream!Consume(served[j].last, served[j].total)
    BY <1>1, <1>4, <2>1, SameOperators DEF Stream!Consume
  <2> QED BY <1>2, <2>2 DEF Stream!Deliver
<1> QED
  BY <1>3, <1>4

(* Every change of the client's ledger is what the ledger makes of the     *)
(* notification about one request served, and none comes after the try     *)
(* block has been left, for any usage and any number of requests.          *)
THEOREM TurnReadsTheStream == Spec => ReadsTheStream
<1>1. Init => Stream!Init
  BY SameOperators DEF Init, Stream!Init
<1>2. Typed /\ [Next]_vars => [Stream!Next]_(Stream!vars)
  <2> SUFFICES ASSUME Typed, [Next]_vars PROVE [Stream!Next]_(Stream!vars)
    OBVIOUS
  <2>1. CASE ReadUsage
    BY <2>1, ReadingIsDelivery DEF Stream!Next
  <2>2. CASE ServerInfers
    BY <2>2, InferServesRequest DEF Stream!Next
  <2>3. CASE UNCHANGED <<ledger, served>>
    <3>1. CASE outcome = "none" /\ outcome' # "none"
      BY <2>3, <3>1 DEF Stream!Next, Stream!StopReading
    <3>2. CASE outcome # "none" \/ outcome' = "none"
      BY <2>3, <3>2, LeftStays DEF Stream!vars
    <3> QED BY <3>1, <3>2
  <2> QED BY <2>1, <2>2, <2>3, UsageSteps
<1>3. Spec => []Typed
  BY InitIsTyped, NextKeepsTyped, PTL DEF Spec
<1> QED
  BY <1>1, <1>2, <1>3, PTL DEF Spec, ReadsTheStream, Stream!Spec

-----------------------------------------------------------------------------
(* What is proved of every stream holds of the one the client reads: its   *)
(* records are the first requests served, and of all notifications exactly *)
(* the one about the next request is accepted.                             *)
StreamFacts ==
  INSTANCE UsageStreamProofs
    WITH base <- 0, MayReset <- FALSE, MalformedRaws <- {},
         status <- IF outcome = "none" THEN "open" ELSE "closed"

TotalAfter(i) == IF i = 0 THEN Zero ELSE served[i].total

ServedIsPrefix ==
  /\ Len(ledger.accepted) <= Len(served)
  /\ ledger.total = TotalAfter(Len(ledger.accepted))
  /\ \A i \in 1 .. Len(ledger.accepted) :
       ledger.accepted[i].last = served[i].last /\ ledger.accepted[i].total = served[i].total

NextIsAccepted ==
  \A j \in 1 .. Len(served) :
    NotificationVerdict(ledger, served[j].last, served[j].total) = "advance"
      <=> j = Len(ledger.accepted) + 1

Exact == ServedIsPrefix /\ NextIsAccepted

LEMMA StreamAssumptions ==
  /\ StreamFacts!LastsAssumption
  /\ StreamFacts!MalformedAssumption
  /\ StreamFacts!BoundsAssumption
BY LastsAssumption, SidesAssumption
DEF StreamFacts!LastsAssumption, StreamFacts!MalformedAssumption, StreamFacts!BoundsAssumption,
    StreamFacts!UsageBreakdown, UsageBreakdown, StreamFacts!Fields, Fields,
    StreamFacts!WellFormed, WellFormed, StreamFacts!IsZero, IsZero

LEMMA SameStream == Stream!Spec => StreamFacts!Spec
<1>1. Stream!Init => StreamFacts!Init
  BY DEF Stream!Init, StreamFacts!Init, Stream!EmptyLedger, StreamFacts!EmptyLedger,
     Stream!Zero, StreamFacts!Zero, Stream!Fields, StreamFacts!Fields
<1>2. [Stream!Next]_(Stream!vars) => [StreamFacts!Next]_(StreamFacts!vars)
  BY DEF Stream!Next, StreamFacts!Next, Stream!vars, StreamFacts!vars,
     Stream!ServeRequest, StreamFacts!ServeRequest, Stream!RunningTotal, StreamFacts!RunningTotal,
     Stream!ResetCounters, StreamFacts!ResetCounters, Stream!Deliver, StreamFacts!Deliver,
     Stream!DeliverMalformed, StreamFacts!DeliverMalformed, Stream!StopReading,
     StreamFacts!StopReading, Stream!Consume, StreamFacts!Consume, Stream!Zero, StreamFacts!Zero,
     Stream!Fields, StreamFacts!Fields, Stream!Plus, StreamFacts!Plus,
     Stream!NotificationVerdict, StreamFacts!NotificationVerdict, Stream!Verdict,
     StreamFacts!Verdict, Stream!WellFormed, StreamFacts!WellFormed, Stream!FromAppServer,
     StreamFacts!FromAppServer, Stream!MovedBackwards, StreamFacts!MovedBackwards,
     Stream!Subtract, StreamFacts!Subtract, Stream!IsZero, StreamFacts!IsZero,
     Stream!AcceptNotification, StreamFacts!AcceptNotification, Stream!Advance,
     StreamFacts!Advance
<1> QED
  BY <1>1, <1>2, PTL DEF Stream!Spec, StreamFacts!Spec

LEMMA SameVerdict ==
  \A l, a, b : StreamFacts!NotificationVerdict(l, a, b) = NotificationVerdict(l, a, b)
BY DEF StreamFacts!NotificationVerdict, NotificationVerdict, StreamFacts!Verdict, Verdict,
   StreamFacts!WellFormed, WellFormed, StreamFacts!FromAppServer, FromAppServer,
   StreamFacts!MovedBackwards, MovedBackwards, StreamFacts!Subtract, Subtract,
   StreamFacts!IsZero, IsZero, StreamFacts!Fields, Fields

LEMMA InvariantIsExact == StreamFacts!IInv => Exact
<1> SUFFICES ASSUME StreamFacts!IInv PROVE ServedIsPrefix /\ NextIsAccepted
  BY DEF Exact
<1>1. ServedIsPrefix
  BY DEF StreamFacts!IInv, StreamFacts!ServedPrefix, StreamFacts!TotalAfter, TotalAfter,
     StreamFacts!Zero, Zero, StreamFacts!Fields, Fields, ServedIsPrefix
<1>2. ASSUME NEW j \in 1 .. Len(served)
      PROVE  NotificationVerdict(ledger, served[j].last, served[j].total) = "advance"
               <=> j = Len(ledger.accepted) + 1
  <2>1. StreamFacts!NotificationVerdict(ledger, served[j].last, served[j].total) = "advance"
          => j = Len(ledger.accepted) + 1
    BY StreamFacts!AdvanceIsNextRequest, StreamAssumptions
  <2>2. j = Len(ledger.accepted) + 1
          => StreamFacts!NotificationVerdict(ledger, served[j].last, served[j].total) = "advance"
    BY StreamFacts!NextIsAccepted, StreamAssumptions
  <2> QED BY <2>1, <2>2, SameVerdict
<1> QED
  BY <1>1, <1>2 DEF NextIsAccepted

LEMMA TurnIsExact == Spec => []Exact
<1>1. StreamFacts!Spec => [](0 = 0 => StreamFacts!IInv)
  BY StreamFacts!InvariantHolds, StreamAssumptions
<1>2. (0 = 0 => StreamFacts!IInv) => Exact
  BY InvariantIsExact
<1> QED
  BY <1>1, <1>2, TurnReadsTheStream, SameStream, PTL DEF ReadsTheStream

LEMMA AdvanceIsNextRequest ==
  ASSUME TypeOK, Exact, NEW j \in 1 .. Len(served)
  PROVE  /\ NotificationVerdict(ledger, served[j].last, served[j].total) = "advance"
              <=> j = Len(ledger.accepted) + 1
         /\ NotificationVerdict(ledger, served[j].last, served[j].total) = "advance"
              => AcceptNotification(ledger, served[j].last, served[j].total)
                   = Advance(ledger, served[j].last, served[j].total)
<1>1. served[j] \in Request
  BY DEF TypeOK
<1>2. /\ FromAppServer(served[j].last) = served[j].last
      /\ FromAppServer(served[j].total) = served[j].total
  BY <1>1, ParsedIsItself DEF Request
<1> QED
  BY <1>2 DEF AcceptNotification, Exact, NextIsAccepted

-----------------------------------------------------------------------------
(* Each record points at its own notification; those come in order; and as *)
(* long as the run has not failed, what was read without a gap was counted.*)
UsageMessage(j) == [kind |-> "usage", request |-> j]

EventsMatch ==
  /\ Len(usageAt) = Len(ledger.accepted)
  /\ \A i \in 1 .. Len(usageAt) :
       usageAt[i] < cursor /\ stdout[usageAt[i] + 1] = UsageMessage(i)

NotifiedInOrder ==
  /\ \A k \in 1 .. Len(stdout) :
       stdout[k].kind = "usage" => stdout[k].request \in 1 .. notified
  /\ \A k, l \in 1 .. Len(stdout) :
       stdout[k].kind = "usage" /\ stdout[l].kind = "usage" /\ k < l
         => stdout[k].request <= stdout[l].request

ReadUpTo(m) == \A j \in 1 .. m : \E k \in 1 .. cursor : stdout[k] = UsageMessage(j)

ReadIsCounted ==
  outcome \in {"none", "returned"} =>
    \A m \in 1 .. Len(served) : ReadUpTo(m) => m <= Len(ledger.accepted)

RecordCounts ==
  Returned => /\ lifecycle.accepted_usage_count = Len(usageAt)
              /\ lifecycle.final_usage_reconciled = (usageAt # <<>>)

Counted ==
  /\ Typed /\ TurnIsOver /\ CompletedIsRead
  /\ EventsMatch /\ NotifiedInOrder
  /\ ReadIsCounted /\ RecordCounts

(* Reading a usage notification: the next request is recorded with the     *)
(* index of this very event, or the records stay; an error ends the run.   *)
LEMMA ReadUsageStep ==
  ASSUME Typed, Exact, ReadUsage
  PROVE  \E j \in 1 .. Len(served) :
           /\ cursor' = cursor + 1 /\ cursor < Len(stdout)
           /\ stdout[cursor + 1] = UsageMessage(j)
           /\ UNCHANGED <<stdout, served, notified, lifecycle>>
           /\ outcome = "none" /\ outcome' # "returned" /\ pc' # "done"
           /\ \/ /\ j = Len(ledger.accepted) + 1
                 /\ ledger' = Advance(ledger, served[j].last, served[j].total)
                 /\ usageAt' = Append(usageAt, cursor)
              \/ /\ j # Len(ledger.accepted) + 1
                 /\ UNCHANGED <<ledger, usageAt>>
<1>1. PICK m \in [kind : {"usage"}, request : 1 .. Len(served)] :
        /\ Receive(m)
        /\ ledger' = AcceptNotification(ledger, served[m.request].last, served[m.request].total)
        /\ usageAt' = IF NotificationVerdict(ledger, served[m.request].last,
                                             served[m.request].total) = "advance"
                      THEN Append(usageAt, EventIndex) ELSE usageAt
        /\ Leave("protocol_error") \/ UNCHANGED <<pc, outcome>>
  BY DEF ReadUsage
<1> DEFINE j == m.request
           verdict == NotificationVerdict(ledger, served[j].last, served[j].total)
<1>2. j \in 1 .. Len(served) /\ m = UsageMessage(j)
  BY <1>1 DEF UsageMessage
<1>3. /\ cursor' = cursor + 1 /\ cursor < Len(stdout) /\ stdout[cursor + 1] = UsageMessage(j)
      /\ pc \in Reading
  BY <1>1, <1>2 DEF Receive
<1>4. UNCHANGED <<stdout, served, notified, lifecycle>>
  BY DEF ReadUsage, serverVars
<1>5. outcome = "none" /\ outcome' # "returned" /\ pc' # "done"
  BY <1>1, <1>3 DEF Typed, Phases, Before, Reading, Leave
<1>6. TypeOK
  BY DEF Typed
<1>7. CASE verdict = "advance"
  <2>1. /\ j = Len(ledger.accepted) + 1
        /\ ledger' = Advance(ledger, served[j].last, served[j].total)
    BY <1>1, <1>2, <1>6, <1>7, AdvanceIsNextRequest
  <2>2. usageAt' = Append(usageAt, cursor)
    BY <1>1, <1>7 DEF EventIndex
  <2> QED BY <1>2, <1>3, <1>4, <1>5, <2>1, <2>2
<1>8. CASE verdict # "advance"
  <2>1. j # Len(ledger.accepted) + 1
    BY <1>2, <1>6, <1>8, AdvanceIsNextRequest
  <2>2. UNCHANGED <<ledger, usageAt>>
    BY <1>1, <1>8 DEF AcceptNotification
  <2> QED BY <1>2, <1>3, <1>4, <1>5, <2>1, <2>2
<1> QED
  BY <1>7, <1>8

LEMMA EventsStay ==
  ASSUME Typed, Exact, EventsMatch, [Next]_vars PROVE EventsMatch'
<1>1. /\ \A k \in 1 .. Len(stdout) : stdout'[k] = stdout[k]
      /\ Len(stdout) \in Nat /\ cursor \in 0 .. Len(stdout)
  BY ReadStays
<1> DEFINE n == Len(usageAt)
<1>2. n \in Nat /\ usageAt \in Seq(Nat) /\ \A i \in 1 .. n : usageAt[i] \in Nat
  BY DEF Typed, TypeOK
<1>3. CASE UNCHANGED <<ledger, usageAt>> /\ cursor' \in {cursor, cursor + 1}
  <2>1. \A i \in 1 .. n : /\ usageAt[i] < cursor' /\ usageAt[i] + 1 \in 1 .. Len(stdout)
                         /\ stdout'[usageAt[i] + 1] = UsageMessage(i)
    <3> TAKE i \in 1 .. n
    <3>1. /\ usageAt[i] \in Nat /\ usageAt[i] < cursor
          /\ stdout[usageAt[i] + 1] = UsageMessage(i)
      BY <1>2 DEF EventsMatch
    <3>2. usageAt[i] < cursor' /\ usageAt[i] + 1 \in 1 .. Len(stdout)
      BY <1>1, <1>3, <3>1
    <3> QED BY <1>1, <3>1, <3>2
  <2> QED BY <1>3, <2>1 DEF EventsMatch
<1>4. CASE ReadUsage
  <2>1. PICK j \in 1 .. Len(served) :
          /\ cursor' = cursor + 1 /\ cursor < Len(stdout)
          /\ stdout[cursor + 1] = UsageMessage(j) /\ stdout' = stdout
          /\ \/ /\ j = Len(ledger.accepted) + 1
                /\ ledger' = Advance(ledger, served[j].last, served[j].total)
                /\ usageAt' = Append(usageAt, cursor)
             \/ UNCHANGED <<ledger, usageAt>>
    BY <1>4, ReadUsageStep
  <2>2. CASE UNCHANGED <<ledger, usageAt>>
    BY <1>3, <2>1, <2>2
  <2>3. CASE /\ j = Len(ledger.accepted) + 1
             /\ ledger' = Advance(ledger, served[j].last, served[j].total)
             /\ usageAt' = Append(usageAt, cursor)
    <3>1. /\ Len(usageAt') = n + 1 /\ usageAt'[n + 1] = cursor
          /\ \A i \in 1 .. n : usageAt'[i] = usageAt[i]
      BY <1>2, <2>3
    <3>2. Len(ledger'.accepted) = Len(ledger.accepted) + 1
      BY <2>3 DEF Advance, Typed, TypeOK, Ledger
    <3>3. n = Len(ledger.accepted)
      BY DEF EventsMatch
    <3>4. \A i \in 1 .. n + 1 : usageAt'[i] < cursor' /\ stdout'[usageAt'[i] + 1] = UsageMessage(i)
      <4> TAKE i \in 1 .. n + 1
      <4>1. CASE i = n + 1
        BY <1>1, <2>1, <2>3, <3>1, <3>3, <4>1
      <4>2. CASE i # n + 1
        <5>1. i \in 1 .. n /\ usageAt'[i] = usageAt[i]
          BY <1>2, <3>1, <4>2
        <5> QED BY <1>1, <1>2, <2>1, <5>1 DEF EventsMatch
      <4> QED BY <4>1, <4>2
    <3> QED BY <3>1, <3>2, <3>3, <3>4 DEF EventsMatch
  <2> QED BY <2>1, <2>2, <2>3
<1> QED
  BY <1>3, <1>4, UsageSteps

LEMMA NotifySteps ==
  ASSUME Typed, [Next]_vars
  PROVE  \/ ServerNotifies
         \/ notified' = notified /\ stdout' = stdout
         \/ notified' = notified /\ \E m \in Message : Emits(m) /\ m.kind # "usage"
<1>1. CASE EmitsPlain
  BY <1>1 DEF EmitsPlain
<1>2. CASE ServerStreams
  <2>1. PICK i \in Items, kind \in {"delta", "item"} : Emits([kind |-> kind, item |-> i])
    BY <1>2, StreamStep
  <2>2. [kind |-> kind, item |-> i] \in Message
    BY DEF Message
  <2> QED BY <1>2, <2>1, <2>2 DEF ServerStreams
<1>3. CASE ServerStartsCommand
  <2>1. PICK p \in side.pids : Emit([kind |-> "command", pid |-> p])
    BY <1>3 DEF ServerStartsCommand
  <2>2. [kind |-> "command", pid |-> p] \in Message
    BY SidesAreTyped DEF Message, Typed
  <2> QED BY <1>3, <2>1, <2>2 DEF ServerStartsCommand, Emits, Emit
<1>4. CASE ServerCompletes
  <2>1. PICK t \in BOOLEAN : Emit([kind |-> "completed", text |-> t])
    BY <1>4 DEF ServerCompletes
  <2>2. [kind |-> "completed", text |-> t] \in Message
    BY DEF Message
  <2> QED BY <1>4, <2>1, <2>2 DEF ServerCompletes, Emits, Emit
<1>5. CASE OtherClient \/ ReadUsage \/ ReadItem \/ ReadCompleted \/ WriteLifecycle \/ Quiet
  BY <1>5 DEF OtherClient, ReadUsage, ReadItem, ReadCompleted, WriteLifecycle, Quiet, serverVars
<1> QED
  BY <1>1, <1>2, <1>3, <1>4, <1>5, Steps

LEMMA OrderStays ==
  ASSUME Typed, NotifiedInOrder, [Next]_vars PROVE NotifiedInOrder'
<1>1. CASE notified' = notified /\ stdout' = stdout
  BY <1>1 DEF NotifiedInOrder
<1>2. CASE notified' = notified /\ \E m \in Message : Emits(m) /\ m.kind # "usage"
  <2>1. PICK m \in Message : Emits(m) /\ m.kind # "usage"
    BY <1>2
  <2>2. TypeOK /\ stdout' = Append(stdout, m)
    BY <2>1 DEF Emits, Typed
  <2>3. /\ Len(stdout') = Len(stdout) + 1 /\ Len(stdout) \in Nat
        /\ \A k \in 1 .. Len(stdout) : stdout'[k] = stdout[k]
        /\ stdout'[Len(stdout')] = m
    BY <2>2, EmitAppends
  <2>4. \A k \in 1 .. Len(stdout') : stdout'[k].kind = "usage" =>
          k \in 1 .. Len(stdout) /\ stdout'[k] = stdout[k]
    BY <2>1, <2>3
  <2> QED BY <1>2, <2>4 DEF NotifiedInOrder
<1>3. CASE ServerNotifies
  <2>1. PICK j \in (notified .. Len(served)) \ {0} : Emit(UsageMessage(j)) /\ notified' = j
    BY <1>3 DEF ServerNotifies, UsageMessage
  <2>2. TypeOK /\ stdout' = Append(stdout, UsageMessage(j))
    BY <2>1 DEF Emit, Typed
  <2>3. /\ Len(stdout') = Len(stdout) + 1 /\ Len(stdout) \in Nat
        /\ \A k \in 1 .. Len(stdout) : stdout'[k] = stdout[k]
        /\ stdout'[Len(stdout')] = UsageMessage(j)
    BY <2>2, EmitAppends
  <2>4. notified \in Nat /\ j \in Nat /\ notified <= j /\ j # 0
    BY <2>1, <2>2 DEF TypeOK
  <2>5. UsageMessage(j).request = j
    BY DEF UsageMessage
  <2>6. ASSUME NEW k \in 1 .. Len(stdout'), stdout'[k].kind = "usage"
        PROVE  /\ stdout'[k].request \in 1 .. j
               /\ k # Len(stdout') => k \in 1 .. Len(stdout) /\ stdout'[k] = stdout[k]
    <3>1. CASE k = Len(stdout')
      BY <2>3, <2>4, <2>5, <3>1
    <3>2. CASE k # Len(stdout')
      <4>1. k \in 1 .. Len(stdout) /\ stdout'[k] = stdout[k]
        BY <2>3, <3>2
      <4>2. stdout[k].request \in 1 .. notified
        BY <2>6, <4>1 DEF NotifiedInOrder
      <4> QED BY <2>4, <4>1, <4>2
    <3> QED BY <3>1, <3>2
  <2>7. ASSUME NEW k \in 1 .. Len(stdout'), NEW l \in 1 .. Len(stdout'), k < l,
               stdout'[k].kind = "usage", stdout'[l].kind = "usage"
        PROVE  stdout'[k].request <= stdout'[l].request
    <3>1. k \in 1 .. Len(stdout) /\ stdout'[k] = stdout[k]
      BY <2>3, <2>7
    <3>2. CASE l = Len(stdout')
      BY <2>3, <2>5, <2>6, <2>7, <3>2
    <3>3. CASE l # Len(stdout')
      <4>1. l \in 1 .. Len(stdout) /\ stdout'[l] = stdout[l]
        BY <2>3, <3>3
      <4> QED BY <2>7, <3>1, <4>1 DEF NotifiedInOrder
    <3> QED BY <3>2, <3>3
  <2> QED BY <2>1, <2>6, <2>7 DEF NotifiedInOrder
<1> QED
  BY <1>1, <1>2, <1>3, NotifySteps

LEMMA CountedStays ==
  ASSUME Typed, Exact, NotifiedInOrder, ReadIsCounted, [Next]_vars
  PROVE  ReadIsCounted'
<1>1. /\ \A k \in 1 .. Len(stdout) : stdout'[k] = stdout[k]
      /\ Len(stdout) \in Nat /\ cursor \in 0 .. Len(stdout)
  BY ReadStays
<1>2. TypeOK /\ notified \in 0 .. Len(served) /\ Len(served) \in Nat
  BY DEF Typed, TypeOK
<1> DEFINE n == Len(ledger.accepted)
<1>3. n \in Nat
  BY DEF Typed, TypeOK, Ledger
<1>4. \A j : UsageMessage(j).kind = "usage" /\ UsageMessage(j).request = j
  BY DEF UsageMessage
<1>5. ASSUME NEW j, NEW k \in 1 .. Len(stdout), stdout[k] = UsageMessage(j)
      PROVE  j \in 1 .. Len(served)
  <2>1. j \in 1 .. notified
    BY <1>4, <1>5 DEF NotifiedInOrder
  <2> QED BY <1>2, <2>1
<1> SUFFICES ASSUME outcome' \in {"none", "returned"}, NEW m \in 1 .. Len(served'), ReadUpTo(m)'
             PROVE  m <= Len(ledger'.accepted)
  BY DEF ReadIsCounted
<1>6. m \in Nat /\ m >= 1
  BY ServedStays
<1>7. CASE ReadUsage
  <2>1. PICK j \in 1 .. Len(served) :
           /\ cursor' = cursor + 1 /\ cursor < Len(stdout)
           /\ stdout[cursor + 1] = UsageMessage(j)
           /\ stdout' = stdout /\ served' = served /\ outcome = "none"
           /\ \/ /\ j = n + 1
                 /\ ledger' = Advance(ledger, served[j].last, served[j].total)
              \/ /\ j # n + 1
                 /\ ledger' = ledger
    BY <1>7, ReadUsageStep
  <2>2. ASSUME NEW i \in 1 .. m
        PROVE  i # j => \E k \in 1 .. cursor : stdout[k] = UsageMessage(i)
    <3>1. PICK k \in 1 .. cursor + 1 : stdout[k] = UsageMessage(i)
      BY <2>1 DEF ReadUpTo
    <3>2. CASE k = cursor + 1
      BY <1>4, <2>1, <3>1, <3>2
    <3>3. CASE k # cursor + 1
      <4>1. k \in 1 .. cursor
        BY <1>1, <3>1, <3>3
      <4> QED BY <3>1, <4>1
    <3> QED BY <3>2, <3>3
  <2>3. ASSUME NEW i, NEW k \in 1 .. cursor, stdout[k] = UsageMessage(i) PROVE i <= j
    <3>1. k \in 1 .. Len(stdout) /\ cursor + 1 \in 1 .. Len(stdout) /\ k < cursor + 1
      BY <1>1, <2>1
    <3> QED BY <1>4, <2>1, <2>3, <3>1 DEF NotifiedInOrder
  <2>4. Len(ledger'.accepted) >= n /\ (j = n + 1 => Len(ledger'.accepted) = n + 1)
    BY SMTT(30), <1>3, <2>1 DEF Advance, Typed, TypeOK, Ledger
  <2>5. Len(ledger'.accepted) \in Nat
    BY SMTT(30), <1>3, <2>1 DEF Advance, Typed, TypeOK, Ledger
  <2>6. CASE m <= n
    BY <1>3, <1>6, <2>4, <2>5, <2>6
  <2>7. CASE m > n
    <3>1. n + 1 \in 1 .. m
      BY <1>3, <1>6, <2>7
    <3>2. j = n + 1
      <4> SUFFICES ASSUME j # n + 1 PROVE FALSE
        OBVIOUS
      <4>1. n + 1 <= j
        BY <2>2, <2>3, <3>1
      <4>2. ASSUME NEW i \in 1 .. n + 1
            PROVE  \E k \in 1 .. cursor : stdout[k] = UsageMessage(i)
        <5>1. i \in 1 .. m /\ i # j
          BY <1>3, <1>6, <2>7, <4>1
        <5> QED BY <2>2, <5>1
      <4>3. n + 1 \in 1 .. Len(served)
        BY <1>2, <1>3, <2>1, <2>7
      <4>4. n + 1 <= n
        BY <2>1, <4>2, <4>3 DEF ReadIsCounted, ReadUpTo
      <4> QED BY <1>3, <4>4
    <3>3. m = n + 1
      <4> SUFFICES ASSUME m # n + 1 PROVE FALSE
        OBVIOUS
      <4>1. m \in 1 .. m /\ m # j
        BY <1>6, <3>2
      <4>2. m <= j
        BY <2>2, <2>3, <4>1
      <4> QED BY <1>3, <1>6, <2>7, <3>2, <4>2
    <3> QED BY <1>3, <2>4, <3>2, <3>3
  <2> QED BY <1>3, <1>6, <2>6, <2>7
<1>8. CASE /\ UNCHANGED ledger
           /\ served' = served \/ ServerInfers
           /\ \/ cursor' = cursor
              \/ /\ cursor' = cursor + 1 /\ cursor < Len(stdout) /\ stdout' = stdout
                 /\ stdout[cursor + 1].kind # "usage"
           /\ outcome \in {"none", "returned"}
  <2>1. ASSUME NEW j \in 1 .. m
        PROVE  \E k \in 1 .. cursor : stdout[k] = UsageMessage(j)
    <3>1. PICK k \in 1 .. cursor' : stdout'[k] = UsageMessage(j)
      BY DEF ReadUpTo
    <3>2. CASE cursor' = cursor
      <4>1. k \in 1 .. cursor /\ k \in 1 .. Len(stdout)
        BY <1>1, <3>1, <3>2
      <4> QED BY <1>1, <3>1, <4>1
    <3>3. CASE /\ cursor' = cursor + 1 /\ cursor < Len(stdout) /\ stdout' = stdout
               /\ stdout[cursor + 1].kind # "usage"
      <4>1. k # cursor + 1
        BY <1>4, <3>1, <3>3
      <4>2. k \in 1 .. cursor
        BY <1>1, <3>1, <3>3, <4>1
      <4> QED BY <3>1, <3>3, <4>2
    <3> QED BY <1>8, <3>2, <3>3
  <2>2. m \in 1 .. Len(served)
    <3>1. PICK k \in 1 .. cursor : stdout[k] = UsageMessage(m)
      BY <1>6, <2>1
    <3> QED BY <1>1, <1>5, <3>1
  <2>3. ReadUpTo(m)
    BY <2>1 DEF ReadUpTo
  <2> QED BY <1>8, <2>2, <2>3 DEF ReadIsCounted
<1> QED
  BY <1>7, <1>8, UsageSteps

LEMMA RecordStays ==
  ASSUME Typed, RecordCounts, [Next]_vars PROVE RecordCounts'
<1> USE DEF RecordCounts, Returned
<1>1. CASE OtherClient
  BY <1>1 DEF OtherClient
<1>2. CASE ReadUsage \/ ReadItem \/ ReadCompleted
  BY <1>2 DEF ReadUsage, ReadItem, ReadCompleted, Receive, Leave, Reading
<1>3. CASE WriteLifecycle
  BY <1>3 DEF WriteLifecycle
<1>4. CASE Quiet
  BY <1>4 DEF Quiet
<1>5. CASE UNCHANGED clientVars
  BY <1>5 DEF clientVars
<1> QED
  BY <1>1, <1>2, <1>3, <1>4, <1>5, Steps, ClientStaysWhileEmitting

LEMMA CountedIsExact == Counted /\ Exact => UsageIsExact
<1> SUFFICES ASSUME Counted, Exact PROVE UsageIsAttributed /\ FinalUsageIsComplete
  BY DEF UsageIsExact
<1> USE DEF Counted, Exact
<1>1. UsageIsAttributed
  <2>1. Len(usageAt) \in Nat /\ Len(usageAt) = Len(ledger.accepted)
    BY DEF EventsMatch, Typed, TypeOK
  <2> QED BY <2>1 DEF UsageIsAttributed, EventsMatch, ServedIsPrefix, UsageMessage
<1>2. ASSUME Returned, \A j \in 1 .. Len(served) : NotifiedBeforeCompletion(j)
      PROVE  Len(ledger.accepted) = Len(served)
  <2>1. PICK l \in 1 .. cursor : stdout[l].kind = "completed"
    BY <1>2 DEF CompletedIsRead, Returned
  <2>2. cursor \in 0 .. Len(stdout) /\ Len(stdout) \in Nat
    BY DEF Typed, TypeOK
  <2>3. ASSUME NEW j \in 1 .. Len(served)
        PROVE  \E k \in 1 .. cursor : stdout[k] = UsageMessage(j)
    <3>1. PICK k \in 1 .. Len(stdout) :
            /\ stdout[k] = UsageMessage(j)
            /\ \A i \in 1 .. k : stdout[i].kind # "completed"
      BY <1>2 DEF NotifiedBeforeCompletion, UsageMessage
    <3>2. ~ (l <= k)
      BY <2>1, <2>2, <3>1
    <3> QED BY <2>2, <3>1, <3>2
  <2>4. Len(served) \in Nat /\ Len(ledger.accepted) \in Nat
    BY DEF Typed, TypeOK, Ledger
  <2>5. CASE Len(served) = 0
    BY <2>4, <2>5 DEF ServedIsPrefix
  <2>6. CASE Len(served) # 0
    <3>1. Len(served) \in 1 .. Len(served)
      BY <2>4, <2>6
    <3>2. ReadUpTo(Len(served))
      BY <2>3 DEF ReadUpTo
    <3>3. Len(served) <= Len(ledger.accepted)
      BY <1>2, <3>1, <3>2 DEF ReadIsCounted, Returned
    <3> QED BY <2>4, <3>3 DEF ServedIsPrefix
  <2> QED BY <2>5, <2>6
<1>3. FinalUsageIsComplete
  <2> SUFFICES ASSUME Returned, \A j \in 1 .. Len(served) : NotifiedBeforeCompletion(j)
               PROVE  /\ lifecycle.accepted_usage_count = Len(served)
                      /\ lifecycle.final_usage_reconciled = (served # <<>>)
    BY DEF FinalUsageIsComplete
  <2>1. Len(usageAt) = Len(served)
    BY <1>2 DEF EventsMatch
  <2>2. (usageAt # <<>>) = (served # <<>>)
    BY <2>1 DEF Typed, TypeOK
  <2> QED BY <2>1, <2>2 DEF RecordCounts
<1> QED
  BY <1>1, <1>3

LEMMA InitIsCounted == Init => Counted
<1> SUFFICES ASSUME Init PROVE Counted
  OBVIOUS
<1>1. Len(served) = 0 /\ Len(ledger.accepted) = 0 /\ Len(usageAt) = 0 /\ Len(stdout) = 0
  BY DEF Init, EmptyLedger
<1>2. TurnIsOver /\ CompletedIsRead /\ EventsMatch /\ NotifiedInOrder /\ ReadIsCounted
  BY <1>1 DEF Init, TurnIsOver, CompletedIsRead, EventsMatch, NotifiedInOrder, ReadIsCounted
<1>3. RecordCounts
  BY DEF Init, RecordCounts, Returned
<1> QED
  BY <1>2, <1>3, InitIsTyped DEF Counted

LEMMA NextKeepsCounted == Counted /\ Exact /\ [Next]_vars => Counted'
BY NextKeepsTyped, TurnIsOverStays, CompletedIsReadStays, EventsStay, OrderStays, CountedStays,
   RecordStays DEF Counted

(* For any usage and any number of requests: what a turn records is what   *)
(* was served, each record points at its own notification, and a returned  *)
(* run whose requests were all notified in time has every one of them.     *)
THEOREM UsageIsRight == Spec => []UsageIsExact
BY InitIsCounted, NextKeepsCounted, CountedIsExact, TurnIsExact, PTL DEF Spec

-----------------------------------------------------------------------------
(* The refusals.  Every request of the server's own that has been read is  *)
(* answered, unless the answer could not be written, and the run failed.   *)
Due == IF writing.kind = "refusal" THEN Append(refused, writing.id) ELSE refused

Answers(due, at) ==
  /\ \A i \in 1 .. Len(due) : due[i] = stdout[at[i]].id
  /\ \A i, j \in 1 .. Len(due) : i < j => at[i] < at[j]
  /\ \A k \in AsksRead : \E i \in 1 .. Len(due) : at[i] = k

AsksAreAnswered ==
  outcome \in {"none", "returned"} =>
    \E at \in [1 .. Len(Due) -> AsksRead] : Answers(Due, at)

LEMMA DueIsTyped == ASSUME TypeOK PROVE Due \in Seq(AskIds)
<1>1. refused \in Seq(AskIds) /\ writing \in {Nothing} \cup Line
  BY DEF TypeOK
<1>2. CASE writing.kind = "refusal"
  <2>1. writing.id \in AskIds
    BY <1>1, <1>2 DEF Line, Nothing
  <2> QED BY <1>1, <1>2, <2>1 DEF Due
<1> QED
  BY <1>1, <1>2 DEF Due

(* A line that is written, or that is begun without being a refusal, makes *)
(* no difference to what is due.                                           *)
LEMMA LinesAreNotDue ==
  /\ writing = Nothing => Due = refused
  /\ \A i : writing = RequestLine(i) => Due = refused
BY Lines DEF Due

LEMMA LinesAreNotDueNext ==
  /\ writing' = Nothing => Due' = refused'
  /\ \A i : writing' = RequestLine(i) => Due' = refused'
BY Lines DEF Due

LEMMA AskSteps ==
  ASSUME Typed, [Next]_vars, ~ ReadAsk
  PROVE  /\ outcome' \in {"none", "returned"} => Due' = Due
         /\ \/ cursor' = cursor
            \/ cursor' = cursor + 1 /\ cursor < Len(stdout) /\ stdout[cursor + 1].kind # "ask"
         /\ outcome' \in {"none", "returned"} => outcome \in {"none", "returned"}
<1>1. outcome' \in {"none", "returned"} => outcome \in {"none", "returned"}
  <2>1. CASE ReadUsage
    BY <2>1 DEF ReadUsage, Receive, Typed, Phases, Before
  <2> QED BY <2>1, UsageSteps
<1>0. UNCHANGED <<writing, refused>> => Due' = Due
  BY DEF Due
<1>2. CASE TimeOut \/ ReadEof \/ DrainStderr \/ Terminate \/ TerminateFails
           \/ PollAgain \/ Reap \/ WaitExpires \/ KillFails \/ KillWaitExpires
           \/ WriteLifecycle \/ Expire
  BY <1>0, <1>1, <1>2 DEF TimeOut, ReadEof, DrainStderr, Terminate, TerminateFails,
     PollAgain, Reap, WaitExpires, KillFails, KillWaitExpires, WriteLifecycle, Expire
<1>5. CASE Spawn
  <2>1. writing = Nothing
    BY <1>5 DEF Spawn, Typed, Phases, Reading
  <2> QED BY <1>1, <1>5, <2>1, LinesAreNotDue, LinesAreNotDueNext DEF Spawn
<1>6. CASE RequestIsWritten
  BY <1>1, <1>6, LinesAreNotDue, LinesAreNotDueNext DEF RequestIsWritten
<1>7. CASE RefusalIsWritten
  <2>1. PICK i \in AskIds : /\ writing = [kind |-> "refusal", id |-> i]
                            /\ refused' = Append(refused, i) /\ cursor' = cursor
    BY <1>7 DEF RefusalIsWritten, Refused
  <2>2. Due = refused'
    BY <2>1 DEF Due
  <2>3. Due' = refused'
    BY <1>7, RefusalMoves, LinesAreNotDueNext DEF Moved
  <2> QED BY <1>1, <2>1, <2>2, <2>3
<1>8. CASE WriteFails
  BY <1>8 DEF WriteFails, Leave
<1>3. CASE ReadGarbage \/ ReadUsage \/ ReadResponse \/ ReadItem \/ ReadCommand \/ ReadCompleted
  <2>1. PICK m : Receive(m) /\ m.kind # "ask"
    <3>1. CASE ReadGarbage
      <4> DEFINE m == [kind |-> "garbage"]
      <4>1. Receive(m) /\ m.kind # "ask"
        BY <3>1 DEF ReadGarbage
      <4> QED BY <4>1
    <3>2. CASE ReadUsage
      BY <3>2 DEF ReadUsage
    <3>3. CASE ReadResponse
      <4>1. CASE \E i \in 1 .. 3, t \in BOOLEAN :
                   Receive([kind |-> "result", id |-> i, thread |-> t])
        BY <4>1
      <4>2. CASE \E i \in 1 .. 3 : Receive([kind |-> "error", id |-> i])
        BY <4>2
      <4> QED BY <3>3, <4>1, <4>2 DEF ReadResponse
    <3>4. CASE ReadItem
      BY <3>4 DEF ReadItem
    <3>5. CASE ReadCommand
      BY <3>5 DEF ReadCommand
    <3>6. CASE ReadCompleted
      BY <3>6 DEF ReadCompleted
    <3> QED BY <1>3, <3>1, <3>2, <3>3, <3>4, <3>5, <3>6
  <2>2. Due' = Due
    <3>1. CASE ReadResponse
      <4>1. refused' = refused /\ writing = Nothing
        BY <3>1, <2>1 DEF ReadResponse, Receive
      <4> QED BY <3>1, <4>1, ResponseMoves, LinesAreNotDue, LinesAreNotDueNext DEF Moved
    <3>2. CASE ReadGarbage \/ ReadUsage \/ ReadItem \/ ReadCommand \/ ReadCompleted
      BY <1>0, <3>2 DEF ReadGarbage, ReadUsage, ReadItem, ReadCommand, ReadCompleted
    <3> QED BY <1>3, <3>1, <3>2
  <2> QED BY <1>1, <2>1, <2>2 DEF Receive
<1>4. CASE UNCHANGED clientVars
  BY <1>0, <1>1, <1>4 DEF clientVars
<1> QED
  BY <1>2, <1>3, <1>4, <1>5, <1>6, <1>7, <1>8
     DEF Next, Client, Writes, Server, Finished, vars, ServerAnswers, ServerAsks,
     ServerInfers, ServerNotifies, ServerStreams, ServerStartsCommand, ServerCompletes,
     ServerWritesGarbage, ServerClosesStdout, ServerExits, CommandExits

LEMMA AnsweredStays ==
  ASSUME Typed, AsksAreAnswered, [Next]_vars PROVE AsksAreAnswered'
<1>1. /\ \A k \in 1 .. Len(stdout) : stdout'[k] = stdout[k]
      /\ Len(stdout) \in Nat /\ cursor \in 0 .. Len(stdout)
  BY ReadStays
<1>2. Due \in Seq(AskIds) /\ Len(Due) \in Nat
  BY DueIsTyped DEF Typed
<1> SUFFICES ASSUME outcome' \in {"none", "returned"}
             PROVE  (\E at \in [1 .. Len(Due) -> AsksRead] : Answers(Due, at))'
  BY DEF AsksAreAnswered
<1>3. CASE ~ ReadAsk
  <2>1. /\ Due' = Due /\ outcome \in {"none", "returned"}
        /\ \/ cursor' = cursor
           \/ cursor' = cursor + 1 /\ cursor < Len(stdout) /\ stdout[cursor + 1].kind # "ask"
    BY <1>3, AskSteps
  <2>2. PICK at \in [1 .. Len(Due) -> AsksRead] : Answers(Due, at)
    BY <2>1 DEF AsksAreAnswered
  <2>3. AsksRead' = AsksRead
    BY <1>1, <2>1 DEF AsksRead
  <2>4. \A i \in 1 .. Len(Due) : stdout'[at[i]] = stdout[at[i]]
    BY <1>1, <2>2 DEF AsksRead
  <2>5. Answers(Due, at)'
    BY <2>1, <2>2, <2>3, <2>4 DEF Answers
  <2> QED BY <2>1, <2>2, <2>3, <2>5
<1>4. CASE ReadAsk
  <2>1. PICK id \in AskIds :
          /\ Receive([kind |-> "ask", id |-> id])
          /\ writing' = [kind |-> "refusal", id |-> id]
    BY <1>4 DEF ReadAsk
  <2>2. /\ Due' = Append(Due, id) /\ stdout' = stdout /\ outcome = "none"
        /\ cursor' = cursor + 1 /\ cursor < Len(stdout)
        /\ stdout[cursor + 1] = [kind |-> "ask", id |-> id]
    <3>1. refused' = refused /\ writing = Nothing
      BY <1>4, <2>1 DEF ReadAsk, Receive
    <3>2. Due = refused /\ Due' = Append(refused, id)
      BY <2>1, <3>1, LinesAreNotDue DEF Due
    <3> QED BY <1>4, <2>1, <3>2 DEF ReadAsk, serverVars, Receive, Typed, Phases, Before
  <2>3. PICK at \in [1 .. Len(Due) -> AsksRead] : Answers(Due, at)
    BY <2>2 DEF AsksAreAnswered
  <2> DEFINE n == Len(Due)
  <2>0. PICK next : next = [i \in 1 .. n + 1 |-> IF i = n + 1 THEN cursor + 1 ELSE at[i]]
    OBVIOUS
  <2>4. /\ Len(Due') = n + 1 /\ (Due')[n + 1] = id
        /\ \A i \in 1 .. n : (Due')[i] = Due[i]
    BY <1>2, <2>2
  <2>5. AsksRead' = AsksRead \cup {cursor + 1}
    BY <1>1, <2>2 DEF AsksRead
  <2>6. \A i \in 1 .. n : at[i] \in AsksRead /\ at[i] \in 1 .. cursor
    BY <2>3 DEF AsksRead
  <2>7. /\ next[n + 1] = cursor + 1
        /\ \A i \in 1 .. n : next[i] = at[i]
    BY <1>2, <2>0
  <2>8. next \in [1 .. n + 1 -> AsksRead']
    BY <1>2, <2>0, <2>5, <2>6
  <2>9. \A i \in 1 .. n + 1 : (Due')[i] = stdout'[next[i]].id
    <3> TAKE i \in 1 .. n + 1
    <3>1. CASE i = n + 1
      BY <2>2, <2>4, <2>7, <3>1
    <3>2. CASE i # n + 1
      <4>1. i \in 1 .. n
        BY <1>2, <3>2
      <4> QED BY <2>2, <2>3, <2>4, <2>7, <4>1 DEF Answers
    <3> QED BY <3>1, <3>2
  <2>10. \A i, j \in 1 .. n + 1 : i < j => next[i] < next[j]
    <3> SUFFICES ASSUME NEW i \in 1 .. n + 1, NEW j \in 1 .. n + 1, i < j
                 PROVE  next[i] < next[j]
      OBVIOUS
    <3>1. i \in 1 .. n
      BY <1>2
    <3>2. CASE j = n + 1
      BY <1>1, <2>6, <2>7, <3>1, <3>2
    <3>3. CASE j # n + 1
      <4>1. j \in 1 .. n
        BY <1>2, <3>3
      <4> QED BY <2>3, <2>7, <3>1, <4>1 DEF Answers
    <3> QED BY <3>2, <3>3
  <2>11. \A k \in AsksRead' : \E i \in 1 .. n + 1 : next[i] = k
    <3> TAKE k \in AsksRead'
    <3>1. CASE k = cursor + 1
      <4>1. n + 1 \in 1 .. n + 1
        BY <1>2
      <4> QED BY <2>7, <3>1, <4>1
    <3>2. CASE k \in AsksRead
      <4>1. PICK i \in 1 .. n : at[i] = k
        BY <2>3, <3>2 DEF Answers
      <4>2. i \in 1 .. n + 1 /\ next[i] = k
        BY <1>2, <2>7, <4>1
      <4> QED BY <4>2
    <3> QED BY <2>5, <3>1, <3>2
  <2>12. Answers(Due, next)'
    BY <2>4, <2>9, <2>10, <2>11 DEF Answers
  <2> QED BY <2>4, <2>8, <2>12
<1> QED
  BY <1>3, <1>4

(* A returned run has refused every request of the server's own that it    *)
(* recorded, once each and in the order they came, whatever ids the server *)
(* chose: 0, and those of run()'s own three requests, included.            *)
THEOREM AsksAreRefused == Spec => []EveryAskIsRefused
<1>1. Init => AsksAreAnswered
  <2> SUFFICES ASSUME Init PROVE \E at \in [1 .. Len(Due) -> AsksRead] : Answers(Due, at)
    BY DEF AsksAreAnswered
  <2>1. Len(Due) = 0 /\ AsksRead = {}
    BY LinesAreNotDue DEF Init, AsksRead
  <2>2. <<>> \in [1 .. 0 -> {}] /\ Answers(Due, <<>>)
    BY <2>1 DEF Answers
  <2> QED BY <2>1, <2>2
<1>2. Typed /\ AsksAreAnswered => EveryAskIsRefused
  <2> SUFFICES ASSUME Typed, AsksAreAnswered, Returned
               PROVE  \E at \in [1 .. Len(refused) -> AsksRead] : AnswersAsks(at)
    BY DEF EveryAskIsRefused
  <2>1. Due = refused
    BY LinesAreNotDue DEF Typed, Phases, Returned, Reading
  <2>2. PICK at \in [1 .. Len(Due) -> AsksRead] : Answers(Due, at)
    BY DEF AsksAreAnswered, Returned
  <2> QED BY <2>1, <2>2 DEF Answers, AnswersAsks
<1> QED
  BY <1>1, <1>2, InitIsTyped, NextKeepsTyped, AnsweredStays, PTL DEF Spec

-----------------------------------------------------------------------------
(* Refinement: a turn records the requests as RequestAttribution says.     *)
Recorded ==
  [i \in 1 .. Len(ledger.accepted) |->
     [last |-> ledger.accepted[i].last, total |-> ledger.accepted[i].total]]

Status ==
  IF pc # "done" THEN "open" ELSE IF outcome = "returned" THEN "closed" ELSE "failed"

LEMMA DoneStays ==
  ASSUME Typed, [Next]_vars, pc = "done" PROVE UNCHANGED <<pc, outcome>>
<1>1. CASE OtherClient
  BY <1>1 DEF OtherClient
<1>2. CASE ReadUsage \/ ReadItem \/ ReadCompleted
  BY <1>2 DEF ReadUsage, ReadItem, ReadCompleted, Receive, Reading
<1>3. CASE WriteLifecycle
  BY <1>3 DEF WriteLifecycle
<1>4. CASE Quiet
  BY <1>4 DEF Quiet
<1>5. CASE UNCHANGED clientVars
  BY <1>5 DEF clientVars
<1> QED
  BY <1>1, <1>2, <1>3, <1>4, <1>5, Steps, ClientStaysWhileEmitting

RecordedPrefix ==
  /\ Recorded = [i \in 1 .. Len(ledger.accepted) |-> served[i]]
  /\ Len(Recorded) = Len(ledger.accepted) /\ Len(ledger.accepted) \in Nat
  /\ Len(ledger.accepted) <= Len(served)

LEMMA RecordedIsServed == TypeOK /\ Exact => RecordedPrefix
<1> SUFFICES ASSUME TypeOK, Exact PROVE RecordedPrefix
  OBVIOUS
<1> DEFINE n == Len(ledger.accepted)
<1>1. n \in Nat /\ n <= Len(served) /\ Len(served) \in Nat
  BY DEF TypeOK, Ledger, Exact, ServedIsPrefix
<1>2. \A i \in 1 .. Len(served) : served[i] = [last |-> served[i].last, total |-> served[i].total]
  <2> TAKE i \in 1 .. Len(served)
  <2>1. served[i] \in Request
    BY DEF TypeOK
  <2> QED BY <2>1 DEF Request
<1>3. \A i \in 1 .. n :
        [last |-> ledger.accepted[i].last, total |-> ledger.accepted[i].total] = served[i]
  <2> TAKE i \in 1 .. n
  <2>1. i \in 1 .. Len(served)
    BY <1>1
  <2>2. ledger.accepted[i].last = served[i].last /\ ledger.accepted[i].total = served[i].total
    BY DEF Exact, ServedIsPrefix
  <2> QED BY <1>2, <2>1, <2>2
<1>4. Recorded = [i \in 1 .. n |-> served[i]]
  BY <1>3 DEF Recorded
<1> QED
  BY <1>1, <1>4 DEF RecordedPrefix

LEMMA RecordedIsServedNext == TypeOK' /\ Exact' => RecordedPrefix'
BY RecordedIsServed, PTL

LEMMA AdvanceRecords ==
  ASSUME TypeOK, Exact, TypeOK', Exact', served' = served,
         Len(ledger'.accepted) = Len(ledger.accepted) + 1
  PROVE  /\ Len(Recorded) < Len(served)
         /\ Recorded' = Append(Recorded, served[Len(Recorded) + 1])
<1> DEFINE n == Len(ledger.accepted)
<1>1. /\ Recorded = [i \in 1 .. n |-> served[i]] /\ Len(Recorded) = n /\ n \in Nat
      /\ Len(served) \in Nat
  <2>1. RecordedPrefix
    BY RecordedIsServed
  <2>2. Len(served) \in Nat /\ ledger \in Ledger
    BY DEF TypeOK
  <2>3. n \in Nat
    BY <2>2 DEF Ledger
  <2>4. Recorded = [i \in 1 .. n |-> served[i]]
    BY <2>1 DEF RecordedPrefix
  <2> HIDE DEF n
  <2>5. Len(Recorded) = n
    BY <2>3, <2>4
  <2> QED BY <2>2, <2>3, <2>4, <2>5
<1>2. Recorded' = [i \in 1 .. n + 1 |-> served[i]] /\ n + 1 <= Len(served)
  <2>1. /\ Recorded' = [i \in 1 .. Len(ledger'.accepted) |-> served'[i]]
        /\ Len(ledger'.accepted) <= Len(served')
    BY RecordedIsServedNext DEF RecordedPrefix
  <2> QED BY <2>1
<1> HIDE DEF n
<1>3. Append([i \in 1 .. n |-> served[i]], served[n + 1]) = [i \in 1 .. n + 1 |-> served[i]]
  BY <1>1
<1> QED
  BY <1>1, <1>2, <1>3

(* Whatever a server does, a turn records its requests once each and in    *)
(* order, until run() is over, and none after that.                        *)
THEOREM TurnAttributesInOrder == Spec => AttributesInOrder
<1>1. Init => Attribution!Init
  BY DEF Init, Attribution!Init, EmptyLedger
<1>2. ASSUME Typed, Typed', Exact, Exact', [Next]_vars
      PROVE  [Attribution!Next]_(Attribution!vars)
  <2>1. Typed /\ TypeOK /\ TypeOK' /\ Exact /\ Exact'
    BY <1>2 DEF Typed
  <2>2. Status' = Status \/ (Status = "open" /\ Status' \in {"closed", "failed"})
    BY <1>2, <2>1, DoneStays DEF Status
  <2>3. CASE served' = served /\ ledger' = ledger
    <3>1. Recorded' = Recorded
      BY <2>3 DEF Recorded
    <3> QED BY <2>2, <2>3, <3>1
            DEF Attribution!Next, Attribution!Stop, Attribution!vars, Recorded, Status
  <2>4. CASE ServerInfers
    <3>1. PICK u, t : served' = Append(served, [last |-> u, total |-> t])
      BY <2>4 DEF ServerInfers
    <3>2. /\ Len(served') = Len(served) + 1
          /\ served'[Len(served')] = [last |-> u, total |-> t]
      BY <2>1, <3>1 DEF TypeOK
    <3>3. served'[Len(served')] \in Request
      BY SMTT(30), <2>1, <3>2 DEF TypeOK
    <3>4. Recorded' = Recorded /\ Status' = Status
      BY <2>4 DEF ServerInfers, clientVars, Recorded, Status
    <3> QED BY <3>1, <3>2, <3>3, <3>4 DEF Attribution!Next, Attribution!Serve, Recorded, Status
  <2>5. CASE ReadUsage /\ ledger' # ledger
    <3>1. PICK j \in 1 .. Len(served) :
            /\ served' = served /\ pc' # "done"
            /\ ledger' = Advance(ledger, served[j].last, served[j].total)
      BY <2>1, <2>5, ReadUsageStep
    <3>2. Len(ledger'.accepted) = Len(ledger.accepted) + 1
      BY <2>1, <3>1 DEF Advance, TypeOK, Ledger
    <3>3. /\ Len(Recorded) < Len(served)
          /\ Recorded' = Append(Recorded, served[Len(Recorded) + 1])
      BY <2>1, <3>1, <3>2, AdvanceRecords
    <3>4. Status = "open" /\ Status' = Status
      BY <2>5, <3>1 DEF Status, ReadUsage, Receive, Reading
    <3> QED BY <3>1, <3>3, <3>4 DEF Attribution!Next, Attribution!Attribute, Recorded, Status
  <2> QED BY <2>1, <2>3, <2>4, <2>5, <1>2, UsageSteps DEF ReadUsage, serverVars
<1>3. Spec => []Typed
  BY InitIsTyped, NextKeepsTyped, PTL DEF Spec
<1> QED
  BY <1>1, <1>2, <1>3, TurnIsExact, PTL DEF Spec, AttributesInOrder, Attribution!Spec
=============================================================================
