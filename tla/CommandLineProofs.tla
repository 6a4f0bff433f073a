------------------------- MODULE CommandLineProofs -------------------------
(***************************************************************************)
(* Theorems about the two turns that start a program from a command line   *)
(* and read what it printed once it has ended: a call of the smoke adapter *)
(* and a turn through Claude Code.                                         *)
(*                                                                         *)
(* The smoke adapter: for any number of calls, on any platform, with       *)
(* deaths, time limits and repetitions anywhere, an agent works alone in a *)
(* directory its own call has made, and what a call returns is in the      *)
(* capture it names.                                                       *)
(*                                                                         *)
(* Claude Code: however the provider splits its responses into events, and *)
(* wherever the process or the time limit ends the stream, a turn that is  *)
(* returned counts the usage reported, each usage event once and in order. *)
(***************************************************************************)
EXTENDS SmokeAdapter, ClaudeTransport, TLAPS, FiniteSetTheorems, SequenceTheorems

-----------------------------------------------------------------------------
(* The smoke adapter.                                                      *)

(* The places of a call that has made the work directory.                  *)
Fresh == {"setup", "render", "preflight", "commit"}
Working == Fresh \cup {"turn", "grade", "account", "capture", "write"}

(* As long as a call works, the directory is the one it has made.          *)
Owned == \A c \in Calls : at[c] \in Working => tree # "none" /\ maker = c

(* Nobody has begun a turn in a directory that is not there or not ready,  *)
(* and only its maker in one that is.                                      *)
Untouched ==
    /\ tree = "none" => entered = {}
    /\ \A c \in Calls : at[c] \in Fresh => entered = {}
    /\ \A c \in Calls : at[c] = "turn" => tree = "committed" /\ entered = {c}

(* What is about to be reported is no more than what happened.             *)
Truthful(c) ==
    /\ report[c].requests <= served[c]
    /\ report[c].failure = "none" => report[c].requests > 0

ReportsAreTruthful ==
    \A c \in Calls :
        /\ told[c] <= served[c]
        /\ at[c] \in {"capture", "write"} => Truthful(c)

(* A call that has written its capture, or has failed before that.         *)
Concluded(c) == at[c] = "answer" \/ c \in answered

CapturesStay ==
    \A c \in Calls :
        Concluded(c) /\ report[c].failure # "adapter_failure" /\ maker = c =>
            capture = Capture(c, TRUE, report[c]) /\ Truthful(c)

AnswersAreLast ==
    \A c \in Calls :
        /\ c \in answered => at[c] = "gone"
        /\ runner[c] = "returned" => c \in answered

IInv ==
    /\ TypeOK
    /\ Owned
    /\ Untouched
    /\ ReportsAreTruthful
    /\ CapturesStay
    /\ AnswersAreLast

-----------------------------------------------------------------------------
LEMMA InitIsTypeOK == Init => TypeOK
BY SmokeAssumption
   DEF Init, TypeOK, Places, Reports, Failures, NoReport, NoTelemetry, Capture

(* What _main reports is a report, and what it writes is a capture.        *)
LEMMA ReportTypes ==
    /\ \A f \in Failures : NoTelemetry(f) \in Reports
    /\ NoReport \in Reports
    /\ \A f \in Failures, n \in 0 .. MaxRequests : [failure |-> f, requests |-> n] \in Reports
BY SmokeAssumption DEF Reports, Failures, NoReport, NoTelemetry

LEMMA CaptureTypes ==
    \A c \in Calls, w \in BOOLEAN, r \in Reports :
        Capture(c, w, r) \in [of: Calls \cup {Nobody}, whole: BOOLEAN, report: Reports]
BY DEF Capture

LEMMA FailureTypes ==
    /\ "none" \in Failures
    /\ "benchmark_material_failure" \in Failures
    /\ "action_signal_unavailable" \in Failures
    /\ "telemetry_or_app_server_failure" \in Failures
    /\ "adapter_failure" \in Failures
BY DEF Failures

LEMMA TypeOKIsKept == TypeOK /\ [Next]_vars => TypeOK'
<1> SUFFICES ASSUME TypeOK, [Next]_vars PROVE TypeOK'
  OBVIOUS
<1> USE SmokeAssumption, ReportTypes, CaptureTypes, FailureTypes
        DEF TypeOK, Places, Goto, Concludes
<1>1. ASSUME NEW c \in Calls, Adapter(c) PROVE TypeOK'
  <2>1. CASE Admit(c)
    BY <2>1 DEF Admit
  <2>2. CASE LookForWork(c)
    BY <2>2 DEF LookForWork
  <2>3. CASE MakeTree(c)
    BY <2>3 DEF MakeTree
  <2>4. CASE ApplySetup(c)
    BY <2>4 DEF ApplySetup
  <2>5. CASE RenderArm(c)
    BY <2>5 DEF RenderArm
  <2>6. CASE RunPreflight(c)
    BY <2>6 DEF RunPreflight
  <2>7. CASE BeginTurn(c)
    BY <2>7 DEF BeginTurn
  <2>8. CASE ReadPostconditions(c)
    BY <2>8 DEF ReadPostconditions
  <2>9. CASE Account(c)
    <3>1. report' \in [Calls -> Reports]
      <4>1. PICK r \in Reports : Concludes(c, r)
        BY <2>9 DEF Account, Accounted
      <4> QED BY <4>1
    <3> QED BY <2>9, <3>1 DEF Account
  <2>10. CASE OpenCapture(c)
    BY <2>10 DEF OpenCapture
  <2>11. CASE WriteCapture(c)
    BY <2>11 DEF WriteCapture
  <2>12. CASE Answer(c)
    BY <2>12 DEF Answer
  <2>13. CASE Raise(c)
    BY <2>13 DEF Raise
  <2> QED BY <1>1, <2>1, <2>2, <2>3, <2>4, <2>5, <2>6, <2>7, <2>8, <2>9, <2>10,
            <2>11, <2>12, <2>13 DEF Adapter
<1>2. ASSUME NEW c \in Calls, ServeRequest(c) PROVE TypeOK'
  BY <1>2 DEF ServeRequest
<1>3. ASSUME NEW c \in Calls, EndTurn(c) PROVE TypeOK'
  BY <1>3 DEF EndTurn
<1>4. ASSUME NEW c \in Calls, Die(c) PROVE TypeOK'
  BY <1>4 DEF Die
<1>5. ASSUME NEW c \in Calls, Run(c) PROVE TypeOK'
  BY <1>5 DEF Run
<1>6. ASSUME NEW c \in Calls, Waiting(c) PROVE TypeOK'
  BY <1>6 DEF Waiting, Receive, TimeOut, AfterKill, Reap, adapterVars
<1>7. CASE ClearWork
  BY <1>7 DEF ClearWork, adapterVars
<1>8. CASE UNCHANGED vars
  BY <1>8 DEF vars, adapterVars
<1> QED BY <1>1, <1>2, <1>3, <1>4, <1>5, <1>6, <1>7, <1>8 DEF Next

-----------------------------------------------------------------------------
LEMMA InitEstablishesIInv == Init => IInv
<1> SUFFICES ASSUME Init PROVE IInv
  OBVIOUS
<1>1. TypeOK
  BY InitIsTypeOK
<1>2. Owned /\ Untouched
  BY DEF Init, Owned, Untouched, Working, Fresh
<1>3. ReportsAreTruthful /\ CapturesStay /\ AnswersAreLast
  BY DEF Init, ReportsAreTruthful, CapturesStay, AnswersAreLast, Concluded
<1> QED BY <1>1, <1>2, <1>3 DEF IInv

(* The directory is made by one call at a time, and every step of a call   *)
(* that works is a step of its maker.                                      *)
LEMMA DirectoryIsKept ==
  ASSUME IInv, [Next]_vars
  PROVE  Owned' /\ Untouched'
<1> USE DEF IInv, TypeOK, Owned, Untouched, Working, Fresh, Goto
<1>1. ASSUME NEW c \in Calls, Adapter(c) PROVE Owned' /\ Untouched'
  <2>1. CASE Admit(c)
    BY <2>1 DEF Admit
  <2>2. CASE LookForWork(c)
    BY <2>2 DEF LookForWork
  <2>3. CASE MakeTree(c)
    BY <2>3 DEF MakeTree
  <2>4. CASE ApplySetup(c)
    BY <2>4 DEF ApplySetup
  <2>5. CASE RenderArm(c)
    BY <2>5 DEF RenderArm
  <2>6. CASE RunPreflight(c)
    BY <2>6 DEF RunPreflight
  <2>7. CASE BeginTurn(c)
    BY <2>7 DEF BeginTurn
  <2>8. CASE ReadPostconditions(c)
    BY <2>8 DEF ReadPostconditions
  <2>9. CASE Account(c)
    BY <2>9 DEF Account
  <2>10. CASE OpenCapture(c)
    BY <2>10 DEF OpenCapture
  <2>11. CASE WriteCapture(c)
    BY <2>11 DEF WriteCapture
  <2>12. CASE Answer(c)
    BY <2>12 DEF Answer
  <2>13. CASE Raise(c)
    BY <2>13 DEF Raise
  <2> QED BY <1>1, <2>1, <2>2, <2>3, <2>4, <2>5, <2>6, <2>7, <2>8, <2>9, <2>10,
            <2>11, <2>12, <2>13 DEF Adapter
<1>2. ASSUME NEW c \in Calls, ServeRequest(c) PROVE Owned' /\ Untouched'
  BY <1>2 DEF ServeRequest
<1>3. ASSUME NEW c \in Calls, EndTurn(c) PROVE Owned' /\ Untouched'
  BY <1>3 DEF EndTurn
<1>4. ASSUME NEW c \in Calls, Die(c) PROVE Owned' /\ Untouched'
  BY <1>4 DEF Die
<1>5. ASSUME NEW c \in Calls, Run(c) PROVE Owned' /\ Untouched'
  BY <1>5 DEF Run
<1>6. ASSUME NEW c \in Calls, Waiting(c) PROVE Owned' /\ Untouched'
  BY <1>6 DEF Waiting, Receive, TimeOut, Reap, adapterVars
<1>7. CASE ClearWork
  BY <1>7 DEF ClearWork, Alive, adapterVars
<1>8. CASE UNCHANGED vars
  BY <1>8 DEF vars, adapterVars
<1> QED BY <1>1, <1>2, <1>3, <1>4, <1>5, <1>6, <1>7, <1>8 DEF Next

(* Truth is not lost when an agent makes one more request.                 *)
LEMMA RequestsOnlyGrow ==
  ASSUME IInv, UNCHANGED <<runner, at, report, answered, told, maker, capture>>,
         \A d \in Calls : served[d] <= served'[d] /\ served'[d] \in Nat
  PROVE  ReportsAreTruthful' /\ CapturesStay' /\ AnswersAreLast'
<1>a. \A d \in Calls : served[d] \in Nat /\ told[d] \in Nat /\ report[d].requests \in Nat
  BY SmokeAssumption DEF IInv, TypeOK, Reports
<1>1. \A d \in Calls : told'[d] <= served'[d]
  BY <1>a DEF IInv, ReportsAreTruthful
<1>2. \A d \in Calls : Truthful(d) => Truthful(d)'
  BY <1>a DEF Truthful
<1>3. ReportsAreTruthful'
  BY <1>1, <1>2 DEF IInv, ReportsAreTruthful
<1>4. CapturesStay' /\ AnswersAreLast'
  BY <1>2 DEF IInv, CapturesStay, AnswersAreLast, Concluded
<1> QED BY <1>3, <1>4

(* A call that turns to its capture with a truthful report, be it a        *)
(* failure without telemetry.                                              *)
LEMMA NoTelemetryIsTruthful ==
  ASSUME NEW f, f # "none", NEW n \in Nat
  PROVE  /\ NoTelemetry(f).requests <= n
         /\ NoTelemetry(f).failure # "none"
BY DEF NoTelemetry

LEMMA CaptureBegins ==
  ASSUME IInv, NEW c \in Calls, NEW r, at[c] \in Working,
         r.requests <= served[c], r.failure = "none" => r.requests > 0,
         at' = [at EXCEPT ![c] = "capture"], report' = [report EXCEPT ![c] = r],
         UNCHANGED <<runner, answered, served, told, maker, capture>>
  PROVE  ReportsAreTruthful' /\ CapturesStay' /\ AnswersAreLast'
<1>1. report'[c] = r /\ at'[c] = "capture" /\ at[c] \notin {"gone", "answer"}
  BY DEF IInv, TypeOK, Working, Fresh
<1>2. \A d \in Calls : d # c => at'[d] = at[d] /\ report'[d] = report[d]
  BY DEF IInv, TypeOK
<1>3. ReportsAreTruthful'
  BY <1>1, <1>2 DEF IInv, ReportsAreTruthful, Truthful
<1>4. CapturesStay'
  BY <1>1, <1>2 DEF IInv, CapturesStay, Concluded, Truthful, AnswersAreLast
<1>5. AnswersAreLast'
  BY <1>1, <1>2 DEF IInv, AnswersAreLast
<1> QED BY <1>3, <1>4, <1>5

(* Only the call that works writes, and it writes its own report.          *)
LEMMA EvidenceIsKept ==
  ASSUME IInv, [Next]_vars
  PROVE  ReportsAreTruthful' /\ CapturesStay' /\ AnswersAreLast'
<1> DEFINE Goal == ReportsAreTruthful' /\ CapturesStay' /\ AnswersAreLast'
<1> USE DEF IInv, TypeOK, Owned, Working, Fresh, Goto, Concludes, NoTelemetry, Reports,
        ReportsAreTruthful, Truthful, CapturesStay, Concluded, AnswersAreLast
<1>a. \A c \in Calls : served[c] \in Nat /\ told[c] \in Nat /\ report[c].requests \in Nat
  BY SmokeAssumption
<1>1. ASSUME NEW c \in Calls, Adapter(c) PROVE Goal
  <2>1. CASE Admit(c)
    BY <2>1 DEF Admit
  <2>2. CASE LookForWork(c)
    BY <2>2 DEF LookForWork
  <2>3. CASE MakeTree(c)
    BY <2>3 DEF MakeTree
  <2>4. CASE ApplySetup(c)
    BY <2>4 DEF ApplySetup
  <2>5. CASE RenderArm(c)
    BY <2>5 DEF RenderArm
  <2>6. CASE RunPreflight(c)
    <3>1. CASE Concludes(c, NoTelemetry("benchmark_material_failure"))
      BY ZenonT(60), <1>a, <2>6, <3>1, NoTelemetryIsTruthful, CaptureBegins DEF RunPreflight
    <3>2. CASE UNCHANGED report /\ at' = [at EXCEPT ![c] = "commit"]
      BY <2>6, <3>2 DEF RunPreflight
    <3> QED BY <2>6, <3>1, <3>2 DEF RunPreflight
  <2>7. CASE BeginTurn(c)
    BY <2>7 DEF BeginTurn
  <2>8. CASE ReadPostconditions(c)
    <3>1. CASE Concludes(c, NoTelemetry("telemetry_or_app_server_failure"))
      BY ZenonT(60), <1>a, <2>8, <3>1, NoTelemetryIsTruthful, CaptureBegins DEF ReadPostconditions
    <3>2. CASE UNCHANGED report /\ at' = [at EXCEPT ![c] = "account"]
      BY <2>8, <3>2 DEF ReadPostconditions
    <3> QED BY <2>8, <3>1, <3>2 DEF ReadPostconditions
  <2>9. CASE Account(c)
    <3>1. CASE Concludes(c, NoTelemetry("telemetry_or_app_server_failure"))
      BY <1>a, <2>9, <3>1, NoTelemetryIsTruthful, CaptureBegins DEF Account
    <3>2. ASSUME NEW f \in Failures, told[c] > 0,
                 Concludes(c, [failure |-> f, requests |-> Accounted(c)])
          PROVE  Goal
      BY <1>a, <2>9, <3>2, CaptureBegins DEF Account, Accounted
    <3> QED BY <2>9, <3>1, <3>2 DEF Account, Failures
  <2>10. CASE OpenCapture(c)
    BY <2>10 DEF OpenCapture
  <2>11. CASE WriteCapture(c)
    BY <2>11 DEF WriteCapture
  <2>12. CASE Answer(c)
    BY <2>12 DEF Answer
  <2>13. CASE Raise(c)
    BY <2>13 DEF Raise, Unguarded
  <2> QED BY <1>1, <2>1, <2>2, <2>3, <2>4, <2>5, <2>6, <2>7, <2>8, <2>9, <2>10,
            <2>11, <2>12, <2>13 DEF Adapter
<1>2. ASSUME NEW c \in Calls, ServeRequest(c) PROVE Goal
  <2>1. \A d \in Calls : served[d] <= served'[d]
    BY <1>a, <1>2 DEF ServeRequest
  <2>2. \A d \in Calls : served'[d] \in Nat
    BY <1>a, <1>2 DEF ServeRequest
  <2> QED BY <1>2, <2>1, <2>2, RequestsOnlyGrow DEF ServeRequest
<1>3. ASSUME NEW c \in Calls, EndTurn(c) PROVE Goal
  <2>1. CASE Concludes(c, NoTelemetry("telemetry_or_app_server_failure")) /\ UNCHANGED told
    BY ZenonT(60), <1>a, <1>3, <2>1, NoTelemetryIsTruthful, CaptureBegins DEF EndTurn
  <2>2. ASSUME NEW n \in 0 .. served[c], told' = [told EXCEPT ![c] = n], UNCHANGED report,
               at' = [at EXCEPT ![c] = "grade"]
        PROVE  Goal
    <3>1. told'[c] <= served[c] /\ \A d \in Calls : d # c => told'[d] = told[d]
      BY <1>a, <2>2
    <3>2. ReportsAreTruthful'
      BY <1>3, <2>2, <3>1 DEF EndTurn
    <3> QED BY <1>3, <2>2, <3>2 DEF EndTurn
  <2> QED BY <1>3, <2>1, <2>2 DEF EndTurn
<1>4. ASSUME NEW c \in Calls, Die(c) PROVE Goal
  BY <1>4 DEF Die, Alive
<1>5. ASSUME NEW c \in Calls, Run(c) PROVE Goal
  BY <1>5 DEF Run
<1>6. ASSUME NEW c \in Calls, Waiting(c) PROVE Goal
  BY ZenonT(60), <1>6 DEF Waiting, Receive, TimeOut, AfterKill, Reap, Alive, adapterVars
<1>7. CASE ClearWork
  BY <1>7 DEF ClearWork, adapterVars
<1>8. CASE UNCHANGED vars
  BY <1>8 DEF vars, adapterVars
<1> QED BY <1>1, <1>2, <1>3, <1>4, <1>5, <1>6, <1>7, <1>8 DEF Next

LEMMA InvariantHolds == Spec => []IInv
<1>1. IInv /\ [Next]_vars => IInv'
  BY TypeOKIsKept, DirectoryIsKept, EvidenceIsKept DEF IInv
<1> QED BY <1>1, InitEstablishesIInv, PTL DEF Spec

-----------------------------------------------------------------------------
(* Every variable of the adapter and its runner stays in its type.         *)
THEOREM TypeCorrect == Spec => []TypeOK
<1>1. IInv => TypeOK
  BY DEF IInv
<1> QED BY <1>1, InvariantHolds, PTL

(* However many calls start at once, die and are repeated, an agent works  *)
(* in a directory of its own.                                              *)
THEOREM TurnsAreIsolated == Spec => []TurnHasItsOwnTree
<1>1. IInv => TurnHasItsOwnTree
  BY DEF IInv, Owned, Working, Untouched, TurnHasItsOwnTree
<1> QED BY <1>1, InvariantHolds, PTL

(* What a call returns is in the capture it names.                         *)
THEOREM ReturnsAreCaptured == Spec => []ReturnedIsCaptured
<1>1. IInv => ReturnedIsCaptured
  BY DEF IInv, AnswersAreLast, CapturesStay, Concluded, Truthful, ReturnedIsCaptured
<1> QED BY <1>1, InvariantHolds, PTL

-----------------------------------------------------------------------------
(* A turn through Claude Code.                                             *)

-----------------------------------------------------------------------------
(* The counts a provider may leave out, and their sums.                    *)

LEMMA OrZeroIsNat ==
  ASSUME NEW o \in Optional(Nat)
  PROVE  OrZero(o) \in Nat
<1>1. CASE o = {}
  BY <1>1 DEF OrZero
<1>2. CASE o # {}
  <2>1. (CHOOSE x \in o : TRUE) \in o
    BY <1>2
  <2> QED
    BY <1>2, <2>1 DEF OrZero, Optional
<1> QED
  BY <1>1, <1>2

LEMMA PlusIsOptional ==
  ASSUME NEW a \in Optional(Nat), NEW b \in Optional(Nat)
  PROVE  Plus(a, b) \in Optional(Nat)
BY DEF Plus, Optional

LEMMA PlusZero ==
  ASSUME NEW a \in Optional(Nat)
  PROVE  Plus({0}, a) = a
<1>1. \A y \in a : 0 + y = y
  BY DEF Optional
<1>2. Plus({0}, a) = {0 + y : y \in a}
  BY DEF Plus
<1> QED
  BY <1>1, <1>2

LEMMA PlusUnknown ==
  ASSUME NEW a, NEW b, a = {} \/ b = {}
  PROVE  Plus(a, b) = {}
BY DEF Plus

LEMMA AddIsUsage ==
  ASSUME NEW a \in TokenUsage, NEW b \in TokenUsage
  PROVE  Add(a, b) \in TokenUsage
<1>1. /\ Plus(a.usd, b.usd) \in Optional(Nat)
      /\ Plus(a.cached_input_tokens, b.cached_input_tokens) \in Optional(Nat)
      /\ Plus(a.cache_write_input_tokens, b.cache_write_input_tokens)
           \in Optional(Nat)
  BY PlusIsOptional DEF TokenUsage
<1>2. /\ a.input_tokens + b.input_tokens \in Nat
      /\ a.output_tokens + b.output_tokens \in Nat
      /\ a.context_tokens + b.context_tokens \in Nat
      /\ a.task_tokens + b.task_tokens \in Nat
      /\ a.requests + b.requests \in Nat
      /\ a.cache_adjusted_input_tokens + b.cache_adjusted_input_tokens \in Nat
      /\ a.tool_calls + b.tool_calls \in Nat
  BY DEF TokenUsage
<1> QED
  BY <1>1, <1>2 DEF Add, TokenUsage

LEMMA NoUsageIsUsage == NoUsage \in TokenUsage
BY DEF NoUsage, TokenUsage, Optional

LEMMA UsageCounts ==
  ASSUME NEW u \in Usage
  PROVE  /\ NormalizedInput(u) \in Nat /\ TokensOf(u) \in Nat
         /\ TokensOf(u) = NormalizedInput(u) + OrZero(u.output)
         /\ \A f \in {u.input, u.output, u.cacheRead, u.cacheWrite} :
              OrZero(f) \in Nat
         /\ u.cost \in Optional(Nat)
<1>1. /\ u.input \in Optional(Nat) /\ u.output \in Optional(Nat)
      /\ u.cacheRead \in Optional(Nat) /\ u.cacheWrite \in Optional(Nat)
      /\ u.cost \in Optional(Nat)
  BY DEF Usage
<1>2. /\ OrZero(u.input) \in Nat /\ OrZero(u.output) \in Nat
      /\ OrZero(u.cacheRead) \in Nat /\ OrZero(u.cacheWrite) \in Nat
  BY <1>1, OrZeroIsNat
<1> QED
  BY <1>1, <1>2 DEF NormalizedInput, TokensOf

-----------------------------------------------------------------------------
(* The stream of events.                                                   *)
ResponseEvents == {k \in 1 .. Len(stdout) : stdout[k].type = "response"}

LEMMA EventTypes ==
  ASSUME stdout \in Seq(Event), NEW k \in 1 .. Len(stdout)
  PROVE  /\ stdout[k].type = "response" =>
              /\ stdout[k].of \in 1 .. MaxResponses
              /\ stdout[k].usage \in Optional(Usages)
         /\ stdout[k].type = "result" => stdout[k].cost \in TotalCosts
<1>1. stdout[k] \in Event
  OBVIOUS
<1> QED
  BY <1>1 DEF Event

LEMMA UsageOfEvent ==
  ASSUME stdout \in Seq(Event), NEW k \in RequestEvents
  PROVE  /\ k \in ResponseEvents /\ k \in 1 .. Len(stdout)
         /\ UsageOf(stdout[k]) \in Usages
         /\ UsageOf(stdout[k]) \in stdout[k].usage
<1>1. k \in 1 .. Len(stdout) /\ stdout[k].type = "response" /\ stdout[k].usage # {}
  BY DEF RequestEvents, CarriesUsage
<1>2. stdout[k].usage \in Optional(Usages)
  BY <1>1, EventTypes
<1>3. (CHOOSE u \in stdout[k].usage : TRUE) \in stdout[k].usage
  BY <1>1
<1> QED
  BY <1>1, <1>2, <1>3 DEF ResponseEvents, UsageOf, Optional

LEMMA ToolCountIsNat == ASSUME stdout \in Seq(Event) PROVE ToolCount \in Nat
<1> DEFINE calls == {k \in 1 .. Len(stdout) :
                      stdout[k].type = "response" /\ stdout[k].tools = 1}
<1>1. IsFiniteSet(1 .. Len(stdout))
  BY FS_Interval
<1>2. calls \in SUBSET (1 .. Len(stdout))
  OBVIOUS
<1>3. IsFiniteSet(calls)
  BY <1>1, <1>2, FS_Subset
<1>4. Cardinality(calls) \in Nat
  BY <1>3, FS_CardinalityType
<1>5. Cardinality(calls) = Cardinality(calls)
  BY DEF Cardinality, Cardinality, IsFiniteSet, IsFiniteSet
<1> QED
  BY <1>4, <1>5 DEF ToolCount

-----------------------------------------------------------------------------
(* The inductive invariant of a turn.  The provider numbers its responses  *)
(* in the order of the stream, and an event repeats the usage of its       *)
(* response or has none.                                                   *)
ProviderOrder ==
  /\ Len(responses) <= MaxResponses
  /\ \A k \in ResponseEvents :
       /\ stdout[k].of \in 1 .. Len(responses)
       /\ stdout[k].usage \subseteq {responses[stdout[k].of].usage}
  /\ \A i, k \in ResponseEvents : i <= k => stdout[i].of <= stdout[k].of
  /\ \A k \in Results : k = Len(stdout)
  /\ \A j \in 1 .. Len(responses) :
       responses[j].spent = SpentAfter(j - 1) + TokensOf(responses[j].usage)

(* Records are made only of a stream that is whole and has been checked.   *)
Parsing == pc \in {"counting", "aggregating"} \/ outcome = "returned"

Stages ==
  /\ outcome = "none" \/ pc = "done"
  /\ pc = "collected" \/ Parsing => process = "exited"
  /\ Parsing => Results # {} /\ RequestEvents # {}
  /\ ~ Parsing => requests = <<>> /\ eventOf = <<>>
  /\ added # 0 \/ aggregate # NoUsage => pc = "aggregating" \/ outcome = "returned"
  /\ pc = "aggregating" \/ outcome = "returned" => Remaining = {}
  /\ outcome = "returned" => added = Len(requests)

OnlyRequest == \A i, k \in RequestEvents : i = k

UsageAt(i) == UsageOf(stdout[eventOf[i]])

RecordIsOf(r, u, i) ==
  /\ r.input_tokens = NormalizedInput(u)
  /\ r.output_tokens = OrZero(u.output)
  /\ r.task_tokens = IF i = 1 THEN TaskTokens ELSE 0
  /\ r.context_tokens + r.task_tokens = r.input_tokens
  /\ r.requests = 1
  /\ u.cost # {} \/ r.usd = {} \/ (OnlyRequest /\ r.usd = Result.cost)

(* The records made so far are of the first usage events, in order.        *)
Records ==
  /\ Len(requests) = Len(eventOf)
  /\ \A i \in 1 .. Len(eventOf) :
       eventOf[i] \in RequestEvents /\ RecordIsOf(requests[i], UsageAt(i), i)
  /\ \A i, k \in 1 .. Len(eventOf) : i < k => eventOf[i] < eventOf[k]
  /\ \A k \in RequestEvents :
       k <= LastCounted => \E i \in 1 .. Len(eventOf) : eventOf[i] = k

(* Without repetitions, the n-th record is of the n-th response.           *)
InOrder ==
  ReportedOnce => \A i \in 1 .. Len(eventOf) : stdout[eventOf[i]].of = i

(* What the sum of the first records is.                                   *)
Sums ==
  /\ added = 0 => aggregate = NoUsage
  /\ aggregate.requests = added
  /\ aggregate.task_tokens = IF added = 0 THEN 0 ELSE TaskTokens
  /\ aggregate.context_tokens + aggregate.task_tokens = aggregate.input_tokens
  /\ \/ aggregate.usd = {}
     \/ \A i \in 1 .. added : UsageAt(i).cost # {}
     \/ OnlyRequest /\ aggregate.usd = Result.cost
  /\ ReportedOnce =>
       aggregate.input_tokens + aggregate.output_tokens = SpentAfter(added)

TurnInv ==
  /\ TypeInvariant /\ ProviderOrder /\ Stages /\ Records /\ InOrder /\ Sums

(* Before a record is made there is nothing to relate.                     *)
LEMMA NothingCounted ==
  ASSUME requests = <<>>, eventOf = <<>>, added = 0, aggregate = NoUsage,
         stdout \in Seq(Event)
  PROVE  Records /\ InOrder /\ Sums
<1>1. Len(requests) = 0 /\ Len(eventOf) = 0 /\ LastCounted = 0
  BY DEF LastCounted
<1>2. \A k \in RequestEvents : k \in 1 .. Len(stdout)
  BY DEF RequestEvents
<1>3. Len(stdout) \in Nat
  OBVIOUS
<1>4. Records
  BY <1>1, <1>2, <1>3 DEF Records
<1>5. InOrder
  BY <1>1 DEF InOrder
<1>6. Sums
  BY DEF Sums, NoUsage, SpentAfter
<1> QED
  BY <1>4, <1>5, <1>6

LEMMA InitEstablishesTurnInv == TurnInit => TurnInv
<1> SUFFICES ASSUME TurnInit PROVE TurnInv
  OBVIOUS
<1>1. stdout = <<>> /\ responses = <<>> /\ requests = <<>> /\ eventOf = <<>>
      /\ aggregate = NoUsage /\ added = 0
  BY DEF TurnInit
<1>2. TypeInvariant
  <2>1. expired \in BOOLEAN /\ code \in BOOLEAN /\ pipesOpen \in BOOLEAN
    BY DEF TurnInit
  <2>2. pc = "spawn" /\ outcome = "none" /\ process = "unborn"
    BY DEF TurnInit
  <2>3. /\ stdout \in Seq(Event) /\ responses \in Seq([usage : Usages, spent : Nat])
        /\ requests \in Seq(TokenUsage) /\ eventOf \in Seq(Nat)
        /\ added \in 0 .. Len(requests)
    BY <1>1
  <2> QED
    BY <1>1, <2>1, <2>2, <2>3, NoUsageIsUsage DEF TypeInvariant
<1>3. ResponseEvents = {} /\ Results = {}
  BY <1>1 DEF ResponseEvents, Results
<1>4. ProviderOrder
  BY TransportAssumption, <1>1, <1>3 DEF ProviderOrder
<1>5. Stages
  BY <1>1 DEF TurnInit, Stages, Parsing
<1>6. Records /\ InOrder /\ Sums
  BY <1>1, <1>2, NothingCounted DEF TypeInvariant
<1> QED
  BY <1>2, <1>4, <1>5, <1>6 DEF TurnInv

LEMMA NonEmptyLen == ASSUME NEW S, NEW s \in Seq(S), s # <<>> PROVE Len(s) \in Nat \ {0}
BY EmptySeq

-----------------------------------------------------------------------------
(* The provider writes an event: of no response, of the last one, or the   *)
(* first one of another.                                                   *)
Wrote(e) ==
  /\ Emit(e)
  /\ \/ e.type # "response" /\ responses' = responses
     \/ /\ responses # <<>> /\ responses' = responses
        /\ e.of = Len(responses) /\ e.usage \subseteq {responses[Len(responses)].usage}
     \/ \E u \in Usages :
          /\ responses' = Append(responses,
               [usage |-> u,
                spent |-> SpentAfter(Len(responses)) + TokensOf(u)])
          /\ e.of = Len(responses) + 1 /\ e.usage \subseteq {u}
          /\ Len(responses) < MaxResponses

LEMMA BlockIsEvent ==
  ASSUME NEW j \in 1 .. MaxResponses, NEW u \in Usages, NEW e \in BlockOf(j, u)
  PROVE  e \in Event /\ e.type = "response" /\ e.of = j /\ e.usage \subseteq {u}
<1>1. {{}, {u}} \subseteq Optional(Usages)
  BY DEF Optional
<1>2. e.type = "response" /\ e.of = j /\ e.usage \subseteq {u}
  BY DEF BlockOf
<1>3. e \in [type : {"response"}, of : 1 .. MaxResponses, model : Models,
             usage : Optional(Usages), tools : 0 .. 1]
  BY <1>1 DEF BlockOf, Models
<1> QED
  BY <1>2, <1>3 DEF Event

LEMMA ProviderWrites ==
  ASSUME TurnInv,
         \/ Starts \/ Responds \/ Continues
         \/ WritesGarbage \/ WritesResult
  PROVE  \E e \in Event : Wrote(e)
<1>1. responses \in Seq([usage : Usages, spent : Nat]) /\ MaxResponses \in Nat
  BY TransportAssumption DEF TurnInv, TypeInvariant
<1>2. CASE Starts
  <2>1. PICK m \in {"expected", "other"} : Emit([type |-> "system", model |-> m])
    BY <1>2 DEF Starts
  <2>2. [type |-> "system", model |-> m] \in Event
    BY DEF Event, Models
  <2> QED
    BY <1>2, <2>1, <2>2 DEF Starts, Wrote
<1>3. CASE WritesGarbage
  <2>1. [type |-> "garbage", model |-> "unnamed"] \in Event
    BY DEF Event, Models
  <2> QED
    BY <1>3, <2>1 DEF WritesGarbage, Wrote
<1>4. CASE WritesResult
  <2>1. PICK s \in BOOLEAN, t \in TotalCosts :
          Emit([type |-> "result", model |-> "unnamed", success |-> s, cost |-> t])
    BY <1>4 DEF WritesResult
  <2>2. [type |-> "result", model |-> "unnamed", success |-> s, cost |-> t] \in Event
    BY DEF Event, Models
  <2> QED
    BY <1>4, <2>1, <2>2 DEF WritesResult, Wrote
<1>5. CASE Responds
  <2>1. PICK u \in Usages :
          /\ responses' = Append(responses,
               [usage |-> u,
                spent |-> SpentAfter(Len(responses)) + TokensOf(u)])
          /\ \E e \in BlockOf(Len(responses) + 1, u) : Emit(e)
    BY <1>5 DEF Responds
  <2>2. PICK e \in BlockOf(Len(responses) + 1, u) : Emit(e)
    BY <2>1
  <2>3. Len(responses) + 1 \in 1 .. MaxResponses
    BY <1>1, <1>5 DEF Responds
  <2>4. e \in Event /\ e.of = Len(responses) + 1 /\ e.usage \subseteq {u}
    BY <2>3, BlockIsEvent
  <2>5. Len(responses) < MaxResponses
    BY <1>5 DEF Responds
  <2> QED
    BY <2>1, <2>2, <2>4, <2>5 DEF Wrote
<1>6. CASE Continues
  <2>1. responses # <<>> /\ responses' = responses
    BY <1>6 DEF Continues
  <2> DEFINE u == responses[Len(responses)].usage
  <2>2. PICK e \in BlockOf(Len(responses), u) : Emit(e)
    BY <1>6 DEF Continues
  <2>3. u \in Usages /\ Len(responses) \in Nat \ {0}
    <3>1. Len(responses) \in Nat \ {0}
      BY <1>1, <2>1, NonEmptyLen
    <3>2. Len(responses) \in 1 .. Len(responses)
      BY <3>1
    <3>3. responses[Len(responses)] \in [usage : Usages, spent : Nat]
      BY <1>1, <3>2, ElementOfSeq
    <3> QED
      BY <3>1, <3>3
  <2>4. Len(responses) \in 1 .. MaxResponses
    BY <1>1, <2>3 DEF TurnInv, ProviderOrder
  <2>5. e \in Event /\ e.of = Len(responses) /\ e.usage \subseteq {u}
    BY <2>3, <2>4, BlockIsEvent
  <2> QED
    BY <2>1, <2>2, <2>5 DEF Wrote
<1> QED
  BY <1>2, <1>3, <1>4, <1>5, <1>6

LEMMA WritingKeepsOrder ==
  ASSUME TurnInv, NEW e \in Event, Wrote(e)
  PROVE  ProviderOrder'
<1> DEFINE n == Len(stdout)
<1>1. /\ stdout \in Seq(Event) /\ responses \in Seq([usage : Usages, spent : Nat])
      /\ n \in Nat /\ Len(responses) \in Nat /\ ProviderOrder
      /\ stdout' = Append(stdout, e) /\ Results = {} /\ MaxResponses \in Nat
  BY TransportAssumption DEF TurnInv, TypeInvariant, Wrote, Emit
<1>2. /\ Len(stdout') = n + 1 /\ stdout'[n + 1] = e
      /\ \A k \in 1 .. n : stdout'[k] = stdout[k]
  BY <1>1
<1> DEFINE m == Len(responses)
<1>3. /\ m \in Nat /\ Len(responses') \in Nat /\ Len(responses') >= m
      /\ Len(responses') <= MaxResponses
      /\ \A j \in 1 .. m : responses'[j] = responses[j]
      /\ e.type = "response" =>
           /\ e.of \in 1 .. Len(responses') /\ e.of >= m
           /\ e.usage \subseteq {responses'[e.of].usage}
      /\ \A j \in 1 .. Len(responses') : j > m =>
           responses'[j].spent = SpentAfter(m) + TokensOf(responses'[j].usage)
           /\ j = m + 1
  <2>1. CASE e.type # "response" /\ responses' = responses
    BY <1>1, <2>1 DEF ProviderOrder
  <2>2. CASE responses # <<>> /\ responses' = responses
             /\ e.of = m /\ e.usage \subseteq {responses[m].usage}
    BY <1>1, <2>2 DEF ProviderOrder
  <2>3. CASE \E u \in Usages :
              /\ responses' = Append(responses,
                   [usage |-> u,
                    spent |-> SpentAfter(Len(responses)) + TokensOf(u)])
              /\ e.of = Len(responses) + 1 /\ e.usage \subseteq {u}
              /\ Len(responses) < MaxResponses
    <3>0. PICK u \in Usages :
            /\ responses' = Append(responses,
                 [usage |-> u,
                  spent |-> SpentAfter(Len(responses)) + TokensOf(u)])
            /\ e.of = Len(responses) + 1 /\ e.usage \subseteq {u}
            /\ Len(responses) < MaxResponses
      BY <2>3
    <3> DEFINE r == [usage |-> u, spent |-> SpentAfter(m) + TokensOf(u)]
    <3>1. r.usage = u /\ r.spent = SpentAfter(m) + TokensOf(u)
      OBVIOUS
    <3>2. responses' = Append(responses, r)
      BY <3>0
    <3> HIDE DEF r
    <3>3. /\ Len(responses') = m + 1 /\ responses'[m + 1] = r
          /\ \A j \in 1 .. m : responses'[j] = responses[j]
      BY <1>1, <3>2
    <3> QED
      BY <1>1, <3>0, <3>1, <3>3
  <2> QED
    BY <2>1, <2>2, <2>3 DEF Wrote
<1>4. \A k \in ResponseEvents' : k \in ResponseEvents \/ (k = n + 1 /\ e.type = "response")
  BY <1>1, <1>2 DEF ResponseEvents
<1>5. e.type = "response" =>
        /\ e.of \in 1 .. Len(responses') /\ e.of >= m
        /\ e.usage \subseteq {responses'[e.of].usage}
  BY <1>3
<1>6. \A k \in ResponseEvents : k \in 1 .. n /\ stdout[k].of \in 1 .. Len(responses)
  BY <1>1 DEF ResponseEvents, ProviderOrder
<1>7. \A k \in ResponseEvents' :
        /\ stdout'[k].of \in 1 .. Len(responses')
        /\ stdout'[k].usage \subseteq {responses'[stdout'[k].of].usage}
  <2> SUFFICES ASSUME NEW k \in ResponseEvents'
               PROVE  /\ stdout'[k].of \in 1 .. Len(responses')
                      /\ stdout'[k].usage \subseteq {responses'[stdout'[k].of].usage}
    OBVIOUS
  <2>1. CASE k \in ResponseEvents
    <3>1. stdout'[k] = stdout[k] /\ stdout[k].of \in 1 .. m
      BY <1>2, <1>6, <2>1
    <3>2. stdout[k].usage \subseteq {responses[stdout[k].of].usage}
      BY <1>1, <2>1 DEF ProviderOrder
    <3> QED
      BY <1>3, <3>1, <3>2
  <2>2. CASE k = n + 1 /\ e.type = "response"
    BY <1>2, <1>5, <2>2
  <2> QED
    BY <1>4, <2>1, <2>2
<1>8. \A i, k \in ResponseEvents' : i <= k => stdout'[i].of <= stdout'[k].of
  <2> SUFFICES ASSUME NEW i \in ResponseEvents', NEW k \in ResponseEvents', i <= k
               PROVE  stdout'[i].of <= stdout'[k].of
    OBVIOUS
  <2>1. CASE k \in ResponseEvents
    <3>1. i \in ResponseEvents
      BY <1>1, <1>4, <1>6, <2>1
    <3> QED
      BY <1>1, <1>2, <1>6, <2>1, <3>1 DEF ProviderOrder
  <2>2. CASE k = n + 1 /\ e.type = "response"
    BY <1>1, <1>2, <1>4, <1>5, <1>6, <2>2
  <2> QED
    BY <1>4, <2>1, <2>2
<1>9. \A k \in Results' : k = Len(stdout')
  BY <1>1, <1>2 DEF Results
<1>10. \A j \in 1 .. Len(responses') :
         responses'[j].spent = SpentAfter(j - 1)' + TokensOf(responses'[j].usage)
  <2> SUFFICES ASSUME NEW j \in 1 .. Len(responses')
               PROVE  responses'[j].spent =
                        SpentAfter(j - 1)' + TokensOf(responses'[j].usage)
    OBVIOUS
  <2>1. j \in 1 .. m => responses[j].spent =
                        SpentAfter(j - 1) + TokensOf(responses[j].usage)
    BY <1>1 DEF ProviderOrder
  <2>2. j - 1 \in 0 .. m => SpentAfter(j - 1)' = SpentAfter(j - 1)
    BY <1>3 DEF SpentAfter
  <2> QED
    BY <1>3, <2>1, <2>2
<1> QED
  BY <1>3, <1>7, <1>8, <1>9, <1>10 DEF ProviderOrder

LEMMA WritingKeepsTurnInv ==
  ASSUME TurnInv, NEW e \in Event, Wrote(e)
  PROVE  TurnInv'
<1>1. /\ process = "running" /\ stdout' = Append(stdout, e)
      /\ UNCHANGED <<pc, outcome, expired, process, code, pipesOpen, requests, eventOf,
                     aggregate, added>>
  BY DEF Wrote, Emit, records
<1>2. TypeInvariant
  BY DEF TurnInv
<1>3. stdout' \in Seq(Event)
  BY <1>1, <1>2, AppendProperties DEF TypeInvariant
<1>4. responses' \in Seq([usage : Usages, spent : Nat])
  <2>1. responses \in Seq([usage : Usages, spent : Nat])
    BY <1>2 DEF TypeInvariant
  <2>2. CASE responses' = responses
    BY <2>1, <2>2
  <2>3. CASE responses' # responses
    <3>1. PICK u \in Usages :
            responses' = Append(responses,
              [usage |-> u,
               spent |-> SpentAfter(Len(responses)) + TokensOf(u)])
      BY <2>3 DEF Wrote
    <3>2. u \in Usage
      BY TransportAssumption
    <3>3. SpentAfter(Len(responses)) \in Nat
      <4>1. CASE responses = <<>>
        BY <4>1 DEF SpentAfter
      <4>2. CASE responses # <<>>
        <5>1. Len(responses) \in 1 .. Len(responses)
          BY <2>1, <4>2, NonEmptyLen
        <5>2. responses[Len(responses)] \in [usage : Usages, spent : Nat]
          BY <2>1, <5>1, ElementOfSeq
        <5> QED
          BY <5>2 DEF SpentAfter
      <4> QED
        BY <4>1, <4>2
    <3>4. [usage |-> u, spent |-> SpentAfter(Len(responses)) + TokensOf(u)]
            \in [usage : Usages, spent : Nat]
      BY <3>2, <3>3, UsageCounts
    <3> QED
      BY <2>1, <3>1, <3>4, AppendProperties
  <2> QED
    BY <2>2, <2>3
<1>5. TypeInvariant'
  BY <1>1, <1>2, <1>3, <1>4 DEF TypeInvariant
<1>6. pc # "collected" /\ ~ Parsing
  BY <1>1 DEF TurnInv, Stages
<1>7. requests = <<>> /\ eventOf = <<>> /\ added = 0 /\ aggregate = NoUsage
  BY <1>6 DEF TurnInv, Stages, Parsing
<1>8. Stages'
  BY <1>1, <1>6, <1>7 DEF TurnInv, Stages, Parsing, NoUsage
<1>9. (/\ requests = <<>> /\ eventOf = <<>> /\ added = 0 /\ aggregate = NoUsage
       /\ stdout \in Seq(Event))'
  BY <1>1, <1>3, <1>7 DEF NoUsage
<1>10. (Records /\ InOrder /\ Sums)'
  BY <1>9, NothingCounted, PTL
<1> QED
  BY <1>5, <1>8, <1>10, WritingKeepsOrder DEF TurnInv

-----------------------------------------------------------------------------
(* Every other step leaves the stream as it is.                            *)
LEMMA StreamStays ==
  ASSUME UNCHANGED <<stdout, responses>>
  PROVE  /\ ResponseEvents' = ResponseEvents
         /\ RequestEvents' = RequestEvents
         /\ Results' = Results /\ Result' = Result
         /\ OnlyRequest' = OnlyRequest /\ ReportedOnce' = ReportedOnce
         /\ \A j : SpentAfter(j)' = SpentAfter(j)
         /\ ProviderOrder' = ProviderOrder
<1>1. /\ ResponseEvents' = ResponseEvents
      /\ RequestEvents' = RequestEvents
      /\ Results' = Results
      /\ \A j : SpentAfter(j)' = SpentAfter(j)
  BY DEF ResponseEvents, RequestEvents, Results, SpentAfter
<1>2. Result' = Result
  BY <1>1 DEF Result
<1>3. OnlyRequest' = OnlyRequest
  BY <1>1 DEF OnlyRequest
<1>4. ReportedOnce' = ReportedOnce
  BY <1>1 DEF ReportedOnce, ReportsOf
<1>5. ProviderOrder' = ProviderOrder
  BY <1>1 DEF ProviderOrder
<1> QED
  BY <1>1, <1>2, <1>3, <1>4, <1>5

LEMMA RecordsStay ==
  ASSUME TurnInv, UNCHANGED <<stdout, responses, requests, eventOf>>
  PROVE  Records' /\ InOrder' /\ \A i : UsageAt(i)' = UsageAt(i)
<1>1. \A i : UsageAt(i)' = UsageAt(i)
  BY DEF UsageAt
<1>2. \A r, u, i : RecordIsOf(r, u, i)' = RecordIsOf(r, u, i)
  BY StreamStays DEF RecordIsOf
<1>3. Records'
  BY <1>1, <1>2, StreamStays DEF TurnInv, Records, LastCounted
<1>4. InOrder'
  BY StreamStays DEF TurnInv, InOrder
<1> QED
  BY <1>1, <1>3, <1>4

LEMMA QuietStep ==
  ASSUME TurnInv, UNCHANGED <<stdout, responses, records>>, Stages',
         pc' \in {"spawn", "communicate", "killed", "collected", "counting",
                  "aggregating", "done"},
         outcome' \in {"none", "no_process", "timed_out", "rejected", "returned"},
         process' \in {"unborn", "running", "exited"},
         expired' \in BOOLEAN, code' \in BOOLEAN, pipesOpen' \in BOOLEAN
  PROVE  TurnInv'
<1>1. UNCHANGED <<stdout, responses, requests, eventOf, aggregate, added>>
  BY DEF records
<1>2. TypeInvariant'
  BY <1>1 DEF TurnInv, TypeInvariant
<1>3. ProviderOrder'
  BY <1>1, StreamStays DEF TurnInv
<1>4. Records' /\ InOrder' /\ \A i : UsageAt(i)' = UsageAt(i)
  BY <1>1, RecordsStay
<1>5. Sums'
  BY <1>1, <1>4, StreamStays DEF TurnInv, Sums, NoUsage
<1> QED
  BY <1>2, <1>3, <1>4, <1>5 DEF TurnInv

LEMMA QuietActions ==
  ASSUME TurnInv,
         \/ Spawn \/ Communicate \/ TimesOut \/ CollectKilled
         \/ CheckStream \/ AllCounted \/ Return \/ Expire
         \/ Exits \/ ChildClosesPipes \/ UNCHANGED turnVars
  PROVE  TurnInv'
<1>1. UNCHANGED <<stdout, responses, records>>
  BY DEF Spawn, Communicate, TimesOut, CollectKilled,
         CheckStream, AllCounted, Return, Expire,
         Exits, ChildClosesPipes, turnVars, records
<1>2. /\ pc \in {"spawn", "communicate", "killed", "collected", "counting",
                 "aggregating", "done"}
      /\ outcome \in {"none", "no_process", "timed_out", "rejected", "returned"}
      /\ process \in {"unborn", "running", "exited"}
      /\ expired \in BOOLEAN /\ code \in BOOLEAN /\ pipesOpen \in BOOLEAN
  BY DEF TurnInv, TypeInvariant
<1>3. /\ UNCHANGED <<requests, eventOf, aggregate, added>>
      /\ Results' = Results /\ RequestEvents' = RequestEvents
      /\ Remaining' = Remaining
  BY <1>1, StreamStays DEF records, Remaining, LastCounted
<1>4. Stages
  BY DEF TurnInv
<1>5. CASE Spawn
  <2>1. Stages'
    BY <1>3, <1>4, <1>5 DEF Spawn, Finish, Stages, Parsing, NoUsage
  <2> QED
    BY <1>1, <1>2, <1>5, <2>1, QuietStep DEF Spawn, Finish
<1>6. CASE Communicate
  <2>1. Stages'
    BY <1>3, <1>4, <1>6
       DEF Communicate, AllCollected, Stages, Parsing, NoUsage
  <2> QED
    BY <1>1, <1>2, <1>6, <2>1, QuietStep DEF Communicate
<1>7. CASE TimesOut
  <2>1. Stages'
    BY <1>3, <1>4, <1>7 DEF TimesOut, Stages, Parsing, NoUsage
  <2> QED
    BY <1>1, <1>2, <1>7, <2>1, QuietStep DEF TimesOut
<1>8. CASE CollectKilled
  <2>1. Stages'
    BY <1>3, <1>4, <1>8
       DEF CollectKilled, Finish, Stages, Parsing, NoUsage
  <2> QED
    BY <1>1, <1>2, <1>8, <2>1, QuietStep DEF CollectKilled, Finish
<1>9. CASE CheckStream
  <2>1. Stages'
    BY <1>3, <1>4, <1>9 DEF CheckStream, Clean, Finish, Stages,
       Parsing, NoUsage
  <2> QED
    BY <1>1, <1>2, <1>9, <2>1, QuietStep DEF CheckStream, Finish
<1>10. CASE AllCounted
  <2>1. Stages'
    BY <1>3, <1>4, <1>10 DEF AllCounted, Stages, Parsing, NoUsage
  <2> QED
    BY <1>1, <1>2, <1>10, <2>1, QuietStep DEF AllCounted
<1>11. CASE Return
  <2>1. Stages'
    BY <1>3, <1>4, <1>11
       DEF Return, Finish, Stages, Parsing, NoUsage
  <2> QED
    BY <1>1, <1>2, <1>11, <2>1, QuietStep DEF Return, Finish
<1>12. CASE Expire
  <2>1. Stages'
    BY <1>3, <1>4, <1>12 DEF Expire, Stages, Parsing, NoUsage
  <2> QED
    BY <1>1, <1>2, <1>12, <2>1, QuietStep DEF Expire
<1>13. CASE Exits
  <2>1. Stages'
    BY <1>3, <1>4, <1>13 DEF Exits, Stages, Parsing, NoUsage
  <2>2. code' \in BOOLEAN /\ pipesOpen' \in BOOLEAN
    BY <1>13 DEF Exits
  <2> QED
    BY <1>1, <1>2, <1>13, <2>1, <2>2, QuietStep DEF Exits
<1>14. CASE ChildClosesPipes
  <2>1. Stages'
    BY <1>3, <1>4, <1>14 DEF ChildClosesPipes, Stages, Parsing, NoUsage
  <2> QED
    BY <1>1, <1>2, <1>14, <2>1, QuietStep DEF ChildClosesPipes
<1>15. CASE UNCHANGED turnVars
  <2>1. Stages'
    BY <1>3, <1>4, <1>15 DEF turnVars, Stages, Parsing, NoUsage
  <2> QED
    BY <1>1, <1>2, <1>15, <2>1, QuietStep DEF turnVars
<1> QED
  BY <1>5, <1>6, <1>7, <1>8, <1>9, <1>10, <1>11, <1>12, <1>13, <1>14, <1>15

-----------------------------------------------------------------------------
(* Making a record.                                                        *)
LEMMA ResultCost ==
  ASSUME TurnInv, Results # {}
  PROVE  Result.cost \in Optional(Nat)
<1>1. stdout \in Seq(Event) /\ \A k \in Results : k = Len(stdout)
  BY DEF TurnInv, TypeInvariant, ProviderOrder
<1>2. \A k \in Results : k \in Nat
  BY DEF Results
<1>3. \E k \in Results : \A i \in Results : i <= k
  BY <1>1, <1>2
<1> DEFINE last == CHOOSE k \in Results : \A i \in Results : i <= k
<1>4. last \in Results
  BY <1>3
<1>5. last \in 1 .. Len(stdout) /\ stdout[last].type = "result"
  BY <1>4 DEF Results
<1> HIDE DEF last
<1>6. stdout[last].cost \in TotalCosts
  BY <1>1, <1>5, EventTypes
<1> QED
  BY TransportAssumption, <1>6 DEF last, Result

LEMMA RecordIsRight ==
  ASSUME TurnInv, Results # {},
         NEW u \in Usages, Countable(u)
  PROVE  /\ RequestRecord(u) \in TokenUsage
         /\ RecordIsOf(RequestRecord(u), u, Len(requests) + 1)
<1> DEFINE r == RequestRecord(u)
<1>1. u \in Usage /\ TaskTokens \in Nat
  BY TransportAssumption
<1>2. requests \in Seq(TokenUsage) /\ stdout \in Seq(Event)
  BY DEF TurnInv, TypeInvariant
<1>3. RequestTaskTokens = IF Len(requests) + 1 = 1 THEN TaskTokens ELSE 0
  <2>1. CASE requests = <<>>
    BY <2>1 DEF RequestTaskTokens
  <2>2. CASE requests # <<>>
    BY <1>2, <2>2, NonEmptyLen DEF RequestTaskTokens
  <2> QED
    BY <2>1, <2>2
<1>4. /\ RequestTaskTokens \in Nat
      /\ RequestTaskTokens <= NormalizedInput(u)
  BY <1>1, <1>3 DEF Countable
<1>5. /\ NormalizedInput(u) \in Nat /\ OrZero(u.output) \in Nat
      /\ OrZero(u.input) \in Nat /\ OrZero(u.cacheRead) \in Nat
      /\ OrZero(u.cacheWrite) \in Nat /\ u.cost \in Optional(Nat)
  BY <1>1, UsageCounts
<1>6. NormalizedInput(u) - RequestTaskTokens \in Nat
  BY <1>4, <1>5
<1>7. CostOf(u) \in Optional(Nat)
  BY <1>5, ResultCost DEF CostOf
<1>8. \A x \in Nat : {x} \in Optional(Nat)
  BY DEF Optional
<1>9. ToolCount \in Nat
  BY <1>2, ToolCountIsNat
<1>10. r \in TokenUsage
  BY <1>4, <1>5, <1>6, <1>7, <1>8, <1>9 DEF RequestRecord, TokenUsage
<1>11. /\ r.input_tokens = NormalizedInput(u)
       /\ r.output_tokens = OrZero(u.output)
       /\ r.task_tokens = RequestTaskTokens
       /\ r.context_tokens = NormalizedInput(u) - RequestTaskTokens
       /\ r.requests = 1 /\ r.usd = CostOf(u)
  BY DEF RequestRecord
<1>12. r.context_tokens + r.task_tokens = r.input_tokens
  BY <1>4, <1>5, <1>11
<1>13. u.cost # {} \/ r.usd = {} \/ (OnlyRequest /\ r.usd = Result.cost)
  BY <1>11 DEF CostOf, OnlyRequest
<1> HIDE DEF r
<1>14. RecordIsOf(r, u, Len(requests) + 1)
  BY <1>3, <1>11, <1>12, <1>13 DEF RecordIsOf
<1> QED
  BY <1>10, <1>14 DEF r

(* The events counted are below the next one.                              *)
LEMMA CountedAreBelow ==
  ASSUME TurnInv
  PROVE  /\ eventOf \in Seq(Nat) /\ Len(eventOf) \in Nat /\ LastCounted \in Nat
         /\ \A i \in 1 .. Len(eventOf) : eventOf[i] <= LastCounted
         /\ eventOf = <<>> => LastCounted = 0 /\ Len(eventOf) = 0
         /\ eventOf # <<>> => /\ Len(eventOf) \in 1 .. Len(eventOf)
                              /\ LastCounted = eventOf[Len(eventOf)]
<1>1. eventOf \in Seq(Nat) /\ Len(eventOf) \in Nat
  BY DEF TurnInv, TypeInvariant
<1>2. CASE eventOf = <<>>
  BY <1>1, <1>2 DEF LastCounted
<1>3. CASE eventOf # <<>>
  <2>1. Len(eventOf) \in 1 .. Len(eventOf) /\ LastCounted = eventOf[Len(eventOf)]
    BY <1>1, <1>3, NonEmptyLen DEF LastCounted
  <2>2. \A i \in 1 .. Len(eventOf) : eventOf[i] \in Nat
    BY <1>1
  <2>3. \A i \in 1 .. Len(eventOf) : i < Len(eventOf) => eventOf[i] < eventOf[Len(eventOf)]
    BY <2>1 DEF TurnInv, Records
  <2> QED
    BY <1>1, <1>3, <2>1, <2>2, <2>3
<1> QED
  BY <1>2, <1>3

(* If every response is reported once, the next event is of the next one.  *)
LEMMA NextIsInOrder ==
  ASSUME TurnInv, ReportedOnce, NEW k \in Remaining,
         \A i \in Remaining : k <= i
  PROVE  stdout[k].of = Len(eventOf) + 1
<1> DEFINE m == Len(eventOf)  Of(i) == stdout[i].of
<1>1. stdout \in Seq(Event) /\ m \in Nat /\ Len(responses) \in Nat
  BY CountedAreBelow DEF TurnInv, TypeInvariant
<1>2. k \in RequestEvents /\ k > LastCounted
  BY DEF Remaining
<1>3. \A i \in RequestEvents :
        i \in ResponseEvents /\ i \in Nat /\ Of(i) \in 1 .. Len(responses)
  BY <1>1, UsageOfEvent DEF TurnInv, ProviderOrder
<1>4. \A i, j \in RequestEvents : i <= j => Of(i) <= Of(j)
  BY <1>3 DEF TurnInv, ProviderOrder
<1>5. \A i, j \in RequestEvents : Of(i) = Of(j) => i = j
  <2> SUFFICES ASSUME NEW i \in RequestEvents, NEW j \in RequestEvents,
                      Of(i) = Of(j)
               PROVE  i = j
    OBVIOUS
  <2>1. i \in ReportsOf(Of(i)) /\ j \in ReportsOf(Of(i))
    BY DEF ReportsOf
  <2>2. \E q \in RequestEvents : ReportsOf(Of(i)) = {q}
    BY <1>3 DEF ReportedOnce
  <2> QED
    BY <2>1, <2>2
<1>6. \A j \in 1 .. Len(responses) : \E q \in RequestEvents : Of(q) = j
  BY DEF ReportedOnce, ReportsOf
<1>7. Of(k) >= m + 1
  <2>1. CASE eventOf = <<>>
    BY <1>2, <1>3, <2>1, CountedAreBelow
  <2>2. CASE eventOf # <<>>
    <3>1. eventOf[m] \in RequestEvents /\ Of(eventOf[m]) = m
          /\ eventOf[m] = LastCounted /\ LastCounted \in Nat
      BY <2>2, CountedAreBelow DEF TurnInv, Records, InOrder
    <3>2. Of(eventOf[m]) <= Of(k) /\ Of(eventOf[m]) # Of(k)
      BY <1>2, <1>3, <1>4, <1>5, <3>1
    <3> QED
      BY <1>1, <1>2, <1>3, <3>1, <3>2
  <2> QED
    BY <2>1, <2>2
<1>8. Of(k) <= m + 1
  <2> SUFFICES ASSUME Of(k) > m + 1 PROVE FALSE
    BY <1>1, <1>2, <1>3
  <2>1. PICK q \in RequestEvents : Of(q) = m + 1
    BY <1>1, <1>2, <1>3, <1>6
  <2>2. q < k
    BY <1>1, <1>2, <1>3, <1>4, <2>1
  <2>3. q <= LastCounted
    BY <1>2, <1>3, <2>2, CountedAreBelow DEF Remaining
  <2>4. PICK i \in 1 .. m : eventOf[i] = q
    BY <2>3 DEF TurnInv, Records
  <2>5. Of(q) = i
    BY <2>4 DEF TurnInv, InOrder
  <2> QED
    BY <1>1, <2>1, <2>4, <2>5
<1> QED
  BY <1>1, <1>2, <1>3, <1>7, <1>8

(* A usage event is passed: a record is made of it, or the turn refused.   *)
LEMMA RecordKeepsTurnInv ==
  ASSUME TurnInv, pc = "counting",
         NEW k \in Remaining, \A i \in Remaining : k <= i,
         Countable(UsageOf(stdout[k])),
         requests' = Append(requests, RequestRecord(UsageOf(stdout[k]))),
         eventOf' = Append(eventOf, k),
         UNCHANGED <<pc, outcome, expired, process, code, pipesOpen, stdout, responses,
                     aggregate, added>>
  PROVE  TurnInv'
<1> DEFINE u == UsageOf(stdout[k])
           r == RequestRecord(u)
           m == Len(eventOf)
<1>1. /\ TypeInvariant /\ ProviderOrder /\ Stages /\ Records /\ InOrder /\ Sums
      /\ stdout \in Seq(Event) /\ requests \in Seq(TokenUsage)
      /\ eventOf \in Seq(Nat) /\ m \in Nat /\ Len(requests) = m
      /\ k \in RequestEvents /\ k > LastCounted
  BY CountedAreBelow DEF TurnInv, TypeInvariant, Records, Remaining
<1>2. /\ Results # {} /\ added = 0 /\ aggregate = NoUsage
      /\ outcome = "none" /\ process = "exited" /\ RequestEvents # {}
  BY <1>1 DEF Stages, Parsing
<1>3. k \in Nat /\ u \in Usages
  BY <1>1, UsageOfEvent
<1>4. r \in TokenUsage /\ RecordIsOf(r, u, m + 1)
  BY <1>1, <1>2, <1>3, RecordIsRight
<1>5. requests' = Append(requests, r)
  OBVIOUS
<1> HIDE DEF r, u
<1>6. /\ requests' \in Seq(TokenUsage) /\ Len(requests') = m + 1
      /\ requests'[m + 1] = r /\ \A i \in 1 .. m : requests'[i] = requests[i]
  BY <1>1, <1>4, <1>5, AppendProperties
<1>7. /\ eventOf' \in Seq(Nat) /\ Len(eventOf') = m + 1
      /\ eventOf'[m + 1] = k /\ \A i \in 1 .. m : eventOf'[i] = eventOf[i]
  BY <1>1, <1>3, AppendProperties
<1>8. TypeInvariant'
  BY <1>1, <1>2, <1>6, <1>7 DEF TypeInvariant
<1>9. ProviderOrder'
  BY <1>1, StreamStays
<1>10. Stages'
  BY <1>1, <1>2, StreamStays DEF Stages, Parsing, NoUsage
<1>11. LastCounted' = k
  <2>1. eventOf' # <<>>
    BY <1>1, <1>7, EmptySeq
  <2> QED
    BY <1>1, <1>7, <2>1 DEF LastCounted
<1>12. Records'
  <2>1. \A i \in 1 .. m : /\ eventOf'[i] \in RequestEvents /\ eventOf'[i] < k
                          /\ eventOf'[i] = eventOf[i] /\ requests'[i] = requests[i]
    BY <1>1, <1>3, <1>6, <1>7, CountedAreBelow DEF Records
  <2>2. \A i \in 1 .. m : UsageAt(i)' = UsageAt(i)
    BY <2>1 DEF UsageAt
  <2>3. \A i \in 1 .. m : RecordIsOf(requests[i], UsageAt(i), i)'
    <3> SUFFICES ASSUME NEW i \in 1 .. m
                 PROVE  RecordIsOf(requests[i], UsageAt(i), i)'
      OBVIOUS
    <3>1. RecordIsOf(requests[i], UsageAt(i), i)
      BY <1>1 DEF Records
    <3>2. requests'[i] = requests[i] /\ UsageAt(i)' = UsageAt(i)
      BY <2>1, <2>2
    <3>3. OnlyRequest' = OnlyRequest /\ Result' = Result
      BY StreamStays
    <3> QED
      BY <3>1, <3>2, <3>3 DEF RecordIsOf
  <2>4. \A i \in {m + 1} : RecordIsOf(requests[i], UsageAt(i), i)'
    <3>1. \A i \in {m + 1} : UsageAt(i)' = u
      BY <1>7 DEF UsageAt, u
    <3> QED
      BY <1>4, <1>6, <3>1, StreamStays DEF RecordIsOf
  <2>5. \A i \in 1 .. Len(eventOf') :
          /\ eventOf'[i] \in RequestEvents'
          /\ RecordIsOf(requests[i], UsageAt(i), i)'
    BY <1>1, <1>7, <2>1, <2>3, <2>4, StreamStays
  <2>6. \A i, j \in 1 .. Len(eventOf') : i < j => eventOf'[i] < eventOf'[j]
    <3> SUFFICES ASSUME NEW i \in 1 .. m + 1, NEW j \in 1 .. m + 1, i < j
                 PROVE  eventOf'[i] < eventOf'[j]
      BY <1>7
    <3>1. CASE j = m + 1
      BY <1>1, <1>7, <2>1, <3>1
    <3>2. CASE j # m + 1
      <4>1. i \in 1 .. m /\ j \in 1 .. m
        <5>1. m \in Nat
          BY <1>1
        <5> HIDE DEF m
        <5> QED
          BY <3>2, <5>1
      <4>2. eventOf[i] < eventOf[j]
        BY <1>1, <4>1 DEF Records
      <4> QED
        BY <1>7, <4>1, <4>2
    <3> QED
      BY <3>1, <3>2
  <2>7. \A q \in RequestEvents : q <= k => \E i \in 1 .. m + 1 : eventOf'[i] = q
    <3> SUFFICES ASSUME NEW q \in RequestEvents, q <= k
                 PROVE  \E i \in 1 .. m + 1 : eventOf'[i] = q
      OBVIOUS
    <3>1. q \in Nat /\ LastCounted \in Nat
      BY <1>1, UsageOfEvent, CountedAreBelow
    <3>2. CASE q <= LastCounted
      <4>1. PICK i \in 1 .. m : eventOf[i] = q
        BY <1>1, <3>2 DEF Records
      <4> QED
        BY <1>1, <1>7, <4>1
    <3>3. CASE q > LastCounted
      <4>1. q = k
        BY <1>3, <3>1, <3>3 DEF Remaining
      <4> QED
        BY <1>1, <1>7, <4>1
    <3> QED
      BY <3>1, <3>2, <3>3
  <2> QED
    BY <1>6, <1>7, <1>11, <2>5, <2>6, <2>7, StreamStays DEF Records
<1>13. InOrder'
  <2> SUFFICES ASSUME ReportedOnce
               PROVE  \A i \in 1 .. m + 1 : stdout[eventOf'[i]].of = i
    BY <1>7, StreamStays DEF InOrder
  <2>1. stdout[k].of = m + 1
    BY NextIsInOrder
  <2> QED
    BY <1>1, <1>7, <2>1 DEF InOrder
<1>14. Sums'
  BY <1>2 DEF Sums, NoUsage, SpentAfter
<1> QED
  BY <1>8, <1>9, <1>10, <1>12, <1>13, <1>14 DEF TurnInv

(* A turn that is refused keeps nothing of what it had counted.            *)
LEMMA RefusalKeepsTurnInv ==
  ASSUME TurnInv, pc' = "done", outcome' = "rejected",
         requests' = <<>>, eventOf' = <<>>, aggregate' = NoUsage, added' = 0,
         UNCHANGED <<expired, process, code, pipesOpen, stdout, responses>>
  PROVE  TurnInv'
<1>1. TypeInvariant'
  <2>1. /\ requests' \in Seq(TokenUsage) /\ eventOf' \in Seq(Nat)
        /\ Len(requests') = 0
    OBVIOUS
  <2> QED
    BY <2>1, NoUsageIsUsage DEF TurnInv, TypeInvariant
<1>2. ProviderOrder'
  BY StreamStays DEF TurnInv
<1>3. Stages'
  BY DEF Stages, Parsing, NoUsage
<1>4. (/\ requests = <<>> /\ eventOf = <<>> /\ added = 0 /\ aggregate = NoUsage
       /\ stdout \in Seq(Event))'
  BY <1>1 DEF TypeInvariant, NoUsage
<1>5. (Records /\ InOrder /\ Sums)'
  BY <1>4, NothingCounted, PTL
<1> QED
  BY <1>1, <1>2, <1>3, <1>5 DEF TurnInv

LEMMA CountKeepsTurnInv ==
  ASSUME TurnInv, CountNext
  PROVE  TurnInv'
<1>1. /\ pc = "counting"
      /\ UNCHANGED <<expired, process, code, pipesOpen, stdout, responses, aggregate, added>>
  BY DEF CountNext
<1>2. PICK k \in Remaining :
        /\ \A i \in Remaining : k <= i
        /\ \/ /\ Countable(UsageOf(stdout[k]))
              /\ requests' = Append(requests, RequestRecord(UsageOf(stdout[k])))
              /\ eventOf' = Append(eventOf, k)
              /\ UNCHANGED <<pc, outcome>>
           \/ /\ requests' = <<>> /\ eventOf' = <<>>
              /\ pc' = "done" /\ outcome' = "rejected"
  BY DEF CountNext, Finish
<1>3. CASE UNCHANGED <<pc, outcome>>
  <2>1. pc' # "done"
    BY <1>1, <1>3
  <2> QED
    BY <1>1, <1>2, <1>3, <2>1, RecordKeepsTurnInv
<1>4. CASE /\ requests' = <<>> /\ eventOf' = <<>>
           /\ pc' = "done" /\ outcome' = "rejected"
  <2>1. aggregate' = NoUsage /\ added' = 0
    BY <1>1 DEF TurnInv, Stages, NoUsage
  <2> QED
    BY <1>1, <1>4, <2>1, RefusalKeepsTurnInv
<1> QED
  BY <1>2, <1>3, <1>4

-----------------------------------------------------------------------------
(* Adding the records up.                                                  *)
LEMMA RecordsHaveUsage ==
  ASSUME TurnInv, NEW i \in 1 .. Len(eventOf)
  PROVE  /\ requests[i] \in TokenUsage /\ UsageAt(i) \in Usages
         /\ RecordIsOf(requests[i], UsageAt(i), i)
         /\ ReportedOnce =>
              i \in 1 .. Len(responses) /\ UsageAt(i) = responses[i].usage
<1>1. /\ stdout \in Seq(Event) /\ requests \in Seq(TokenUsage)
      /\ Len(requests) = Len(eventOf) /\ eventOf[i] \in RequestEvents
      /\ RecordIsOf(requests[i], UsageAt(i), i)
  BY DEF TurnInv, TypeInvariant, Records
<1>2. requests[i] \in TokenUsage
  BY <1>1, ElementOfSeq
<1>3. /\ eventOf[i] \in ResponseEvents /\ UsageAt(i) \in Usages
      /\ UsageAt(i) \in stdout[eventOf[i]].usage
  BY <1>1, UsageOfEvent DEF UsageAt
<1>4. /\ stdout[eventOf[i]].of \in 1 .. Len(responses)
      /\ UsageAt(i) = responses[stdout[eventOf[i]].of].usage
  BY <1>3 DEF TurnInv, ProviderOrder
<1>5. ReportedOnce => stdout[eventOf[i]].of = i
  BY DEF TurnInv, InOrder
<1> QED
  BY <1>1, <1>2, <1>3, <1>4, <1>5

(* The cost of one more record: known, or unknown, or the turn's.          *)
LEMMA CostsAddUp ==
  ASSUME TurnInv, added < Len(eventOf), added \in Nat
  PROVE  LET usd == Plus(aggregate.usd, requests[added + 1].usd)
         IN  \/ usd = {}
             \/ \A i \in 1 .. added + 1 : UsageAt(i).cost # {}
             \/ OnlyRequest /\ usd = Result.cost
<1> DEFINE old == aggregate.usd
           own == requests[added + 1].usd
           usd == Plus(old, own)
<1> SUFFICES \/ usd = {}
             \/ \A i \in 1 .. added + 1 : UsageAt(i).cost # {}
             \/ OnlyRequest /\ usd = Result.cost
  OBVIOUS
<1>1. Len(eventOf) \in Nat /\ added + 1 \in 1 .. Len(eventOf)
  BY CountedAreBelow
<1>2. /\ own \in Optional(Nat)
      /\ \/ UsageAt(added + 1).cost # {}
         \/ own = {}
         \/ OnlyRequest /\ own = Result.cost
  BY <1>1, RecordsHaveUsage DEF RecordIsOf, TokenUsage
<1>3. OnlyRequest => added = 0
  <2> SUFFICES ASSUME OnlyRequest, added # 0 PROVE FALSE
    OBVIOUS
  <2>1. 1 \in 1 .. Len(eventOf) /\ 2 \in 1 .. Len(eventOf)
    BY <1>1
  <2>2. /\ eventOf[1] \in RequestEvents /\ eventOf[2] \in RequestEvents
        /\ eventOf[1] < eventOf[2]
    BY <2>1 DEF TurnInv, Records
  <2>3. eventOf[1] = eventOf[2] /\ eventOf[1] \in Nat
    BY <2>1, <2>2, CountedAreBelow DEF OnlyRequest
  <2> QED
    BY <2>2, <2>3
<1>4. CASE added = 0
  <2>1. old = {0}
    BY <1>4 DEF TurnInv, Sums, NoUsage
  <2>2. usd = own
    BY <1>2, <2>1, PlusZero
  <2>3. 1 .. added + 1 = {added + 1}
    BY <1>4
  <2> HIDE DEF usd, own
  <2> QED
    BY <1>2, <2>2, <2>3
<1>5. CASE added # 0
  <2>1. old = {} \/ \A i \in 1 .. added : UsageAt(i).cost # {}
    BY <1>3, <1>5 DEF TurnInv, Sums
  <2>2. own = {} \/ UsageAt(added + 1).cost # {}
    BY <1>2, <1>3, <1>5
  <2>3. 1 .. added + 1 = (1 .. added) \cup {added + 1}
    OBVIOUS
  <2>4. old = {} \/ own = {} => usd = {}
    BY PlusUnknown
  <2> HIDE DEF usd, own, old
  <2> QED
    BY <2>1, <2>2, <2>3, <2>4
<1> QED
  BY <1>4, <1>5

LEMMA AddKeepsTurnInv ==
  ASSUME TurnInv, AddNext
  PROVE  TurnInv'
<1> DEFINE n == added  r == requests[n + 1]  u == UsageAt(n + 1)
<1>1. /\ pc = "aggregating" /\ n < Len(requests)
      /\ aggregate' = Add(aggregate, r) /\ added' = n + 1
      /\ UNCHANGED <<pc, outcome, expired, process, code, pipesOpen, stdout, responses,
                     requests, eventOf>>
  BY DEF AddNext
<1>2. /\ TypeInvariant /\ Stages /\ Records /\ Sums /\ ProviderOrder
      /\ Len(requests) = Len(eventOf)
      /\ n \in Nat /\ Len(eventOf) \in Nat /\ n + 1 \in 1 .. Len(eventOf)
      /\ aggregate \in TokenUsage
  BY <1>1, CountedAreBelow DEF TurnInv, TypeInvariant, Records
<1>3. /\ r \in TokenUsage /\ u \in Usages /\ RecordIsOf(r, u, n + 1)
      /\ ReportedOnce => n + 1 \in 1 .. Len(responses) /\ u = responses[n + 1].usage
  BY <1>2, RecordsHaveUsage
<1>4. u \in Usage /\ TaskTokens \in Nat
  BY TransportAssumption, <1>3
<1>5. aggregate' \in TokenUsage
  BY <1>1, <1>2, <1>3, AddIsUsage
<1>6. TypeInvariant'
  <2>1. added' \in 0 .. Len(requests')
    BY <1>1, <1>2
  <2> QED
    BY <1>1, <1>2, <1>5, <2>1 DEF TypeInvariant
<1>7. ProviderOrder'
  BY <1>1, <1>2, StreamStays
<1>8. Records' /\ InOrder' /\ \A i : UsageAt(i)' = UsageAt(i)
  BY <1>1, RecordsStay
<1>9. Stages'
  BY <1>1, <1>2, StreamStays
     DEF Stages, Parsing, NoUsage, Remaining, LastCounted
<1>10. /\ aggregate'.requests = aggregate.requests + r.requests
       /\ aggregate'.task_tokens = aggregate.task_tokens + r.task_tokens
       /\ aggregate'.context_tokens = aggregate.context_tokens + r.context_tokens
       /\ aggregate'.input_tokens = aggregate.input_tokens + r.input_tokens
       /\ aggregate'.output_tokens = aggregate.output_tokens + r.output_tokens
       /\ aggregate'.usd = Plus(aggregate.usd, r.usd)
  BY <1>1 DEF Add
<1>11. /\ aggregate.requests \in Nat /\ aggregate.task_tokens \in Nat
       /\ aggregate.context_tokens \in Nat /\ aggregate.input_tokens \in Nat
       /\ aggregate.output_tokens \in Nat /\ r.requests \in Nat /\ r.task_tokens \in Nat
       /\ r.context_tokens \in Nat /\ r.input_tokens \in Nat /\ r.output_tokens \in Nat
  BY <1>2, <1>3 DEF TokenUsage
<1>12. aggregate'.requests = added'
  BY <1>1, <1>2, <1>3, <1>10 DEF Sums, RecordIsOf
<1>13. aggregate'.task_tokens = IF added' = 0 THEN 0 ELSE TaskTokens
  <2>1. aggregate.task_tokens = IF n = 0 THEN 0 ELSE TaskTokens
    BY <1>2 DEF Sums
  <2>2. r.task_tokens = IF n + 1 = 1 THEN TaskTokens ELSE 0
    BY <1>3 DEF RecordIsOf
  <2> HIDE DEF r, n
  <2> QED
    BY <1>1, <1>2, <1>4, <1>10, <2>1, <2>2
<1>14. aggregate'.context_tokens + aggregate'.task_tokens = aggregate'.input_tokens
  <2>1. aggregate.context_tokens + aggregate.task_tokens = aggregate.input_tokens
    BY <1>2 DEF Sums
  <2>2. r.context_tokens + r.task_tokens = r.input_tokens
    BY <1>3 DEF RecordIsOf
  <2> HIDE DEF r
  <2> QED
    BY <1>10, <1>11, <2>1, <2>2
<1>15. \/ aggregate'.usd = {}
       \/ \A i \in 1 .. added' : UsageAt(i)'.cost # {}
       \/ OnlyRequest' /\ aggregate'.usd = Result'.cost
  <2>1. \/ Plus(aggregate.usd, r.usd) = {}
        \/ \A i \in 1 .. n + 1 : UsageAt(i).cost # {}
        \/ OnlyRequest /\ Plus(aggregate.usd, r.usd) = Result.cost
    BY <1>1, <1>2, CostsAddUp
  <2> QED
    BY <1>1, <1>8, <1>10, <2>1, StreamStays
<1>16. ReportedOnce' =>
         aggregate'.input_tokens + aggregate'.output_tokens = SpentAfter(added)'
  <2> SUFFICES ASSUME ReportedOnce
               PROVE  aggregate'.input_tokens + aggregate'.output_tokens
                        = SpentAfter(added)'
    BY <1>1, StreamStays
  <2>1. SpentAfter(added)' = responses[n + 1].spent
    BY <1>1, <1>2 DEF SpentAfter
  <2>2. responses[n + 1].spent = SpentAfter(n) + TokensOf(u)
    <3>1. n + 1 - 1 = n
      BY <1>2
    <3> QED
      BY <1>2, <1>3, <3>1 DEF ProviderOrder
  <2>3. aggregate.input_tokens + aggregate.output_tokens = SpentAfter(n)
    BY <1>2 DEF Sums
  <2>4. r.input_tokens + r.output_tokens = TokensOf(u)
    BY <1>3, <1>4, UsageCounts DEF RecordIsOf
  <2> HIDE DEF r, u, n
  <2> QED
    BY <1>10, <1>11, <2>1, <2>2, <2>3, <2>4
<1>17. Sums'
  <2>1. added' # 0
    BY <1>1, <1>2
  <2> QED
    BY <1>12, <1>13, <1>14, <1>15, <1>16, <2>1 DEF Sums
<1> QED
  BY <1>6, <1>7, <1>8, <1>9, <1>17 DEF TurnInv

LEMMA TurnInvHolds == TurnSpec => []TurnInv
<1>1. TurnInit => TurnInv
  BY InitEstablishesTurnInv
<1>2. TurnInv /\ [TurnNext]_turnVars => TurnInv'
  <2> SUFFICES ASSUME TurnInv, [TurnNext]_turnVars PROVE TurnInv'
    OBVIOUS
  <2>1. CASE \/ Starts \/ Responds \/ Continues
             \/ WritesGarbage \/ WritesResult
    BY <2>1, ProviderWrites, WritingKeepsTurnInv
  <2>2. CASE CountNext
    BY <2>2, CountKeepsTurnInv
  <2>3. CASE AddNext
    BY <2>3, AddKeepsTurnInv
  <2>4. CASE MissesSession
    BY <2>4, RefusalKeepsTurnInv DEF MissesSession, Finish
  <2>5. CASE \/ Spawn \/ Communicate \/ TimesOut \/ CollectKilled
             \/ CheckStream \/ AllCounted \/ Return \/ Expire
             \/ Exits \/ ChildClosesPipes \/ UNCHANGED turnVars
    BY <2>5, QuietActions
  <2> QED
    BY <2>1, <2>2, <2>3, <2>4, <2>5
       DEF TurnNext, Client, Provider, Finished
<1> QED
  BY <1>1, <1>2, PTL DEF TurnSpec

(* Every variable of a Claude Code turn stays in its type: no record and no *)
(* sum counts less than nothing, and no task token is attributed to a       *)
(* request that had fewer.                                                  *)
THEOREM TurnTypeCorrect == TurnSpec => []TypeInvariant
<1>1. TurnInv => TypeInvariant
  BY DEF TurnInv
<1> QED
  BY <1>1, TurnInvHolds, PTL

LEMMA CountedOnce == TurnInv => UsageIsCountedOnce
<1> SUFFICES ASSUME TurnInv, Returned PROVE UsageIsCountedOnce
  BY DEF UsageIsCountedOnce, OneRecordPerUsageEvent,
         ReportedOnceMeansCountedOnce, TurnTotalsAreCountedOnce
<1> DEFINE m == Len(eventOf)
<1>1. /\ Remaining = {} /\ added = m /\ Len(requests) = m /\ m \in Nat
      /\ RequestEvents # {} /\ LastCounted \in Nat
      /\ Len(responses) \in Nat /\ Records /\ Sums
  BY CountedAreBelow
     DEF TurnInv, TypeInvariant, Stages, Parsing, Records, Returned
<1>2. \A k \in RequestEvents : \E i \in 1 .. m : eventOf[i] = k
  <2> SUFFICES ASSUME NEW k \in RequestEvents
               PROVE  \E i \in 1 .. m : eventOf[i] = k
    OBVIOUS
  <2>1. k \in Nat
    BY DEF RequestEvents
  <2>2. k <= LastCounted
    BY <1>1, <2>1 DEF Remaining
  <2> QED
    BY <1>1, <2>2 DEF Records
<1>3. m # 0
  BY <1>1, <1>2
<1>4. OneRecordPerUsageEvent
  <2>1. {eventOf[i] : i \in 1 .. m} = RequestEvents
    BY <1>1, <1>2 DEF Records
  <2>2. \A i \in 1 .. m :
          requests[i].input_tokens = NormalizedInput(UsageAt(i))
    BY RecordsHaveUsage DEF RecordIsOf
  <2> QED
    BY <1>1, <2>1, <2>2 DEF OneRecordPerUsageEvent, Records, UsageAt
<1>5. ReportedOnceMeansCountedOnce
  <2> SUFFICES ASSUME ReportedOnce
               PROVE  /\ Len(requests) = Len(responses)
                      /\ \A j \in 1 .. Len(responses) :
                           requests[j].input_tokens = NormalizedInput(responses[j].usage)
                      /\ aggregate.requests = Len(responses)
                      /\ aggregate.input_tokens + aggregate.output_tokens
                           = SpentAfter(Len(responses))
    BY DEF ReportedOnceMeansCountedOnce
  <2>1. m <= Len(responses)
    <3>1. m \in 1 .. m
      BY <1>1, <1>3
    <3> QED
      BY <1>1, <3>1, RecordsHaveUsage
  <2>2. Len(responses) <= m
    <3> SUFFICES ASSUME Len(responses) # 0 PROVE Len(responses) <= m
      BY <1>1
    <3>1. Len(responses) \in 1 .. Len(responses)
      BY <1>1
    <3>2. PICK k \in RequestEvents : stdout[k].of = Len(responses)
      BY <3>1 DEF ReportedOnce, ReportsOf
    <3>3. PICK i \in 1 .. m : eventOf[i] = k
      BY <1>2
    <3>4. stdout[k].of = i
      BY <3>3 DEF TurnInv, InOrder
    <3> QED
      BY <1>1, <3>2, <3>3, <3>4
  <2>3. m = Len(responses)
    BY <1>1, <2>1, <2>2
  <2>4. \A j \in 1 .. m :
          requests[j].input_tokens = NormalizedInput(responses[j].usage)
    BY RecordsHaveUsage DEF RecordIsOf
  <2> QED
    BY <1>1, <2>3, <2>4 DEF Sums
<1>6. TurnTotalsAreCountedOnce
  <2>1. aggregate.task_tokens = TaskTokens
    BY <1>1, <1>3 DEF Sums
  <2>2. aggregate.context_tokens + TaskTokens = aggregate.input_tokens
    BY <1>1, <2>1 DEF Sums
  <2>3. \/ aggregate.usd = {} \/ aggregate.usd = Result.cost
        \/ \A i \in 1 .. m : UsageAt(i).cost # {}
    BY <1>1 DEF Sums
  <2>4. (\A i \in 1 .. m : UsageAt(i).cost # {}) =>
          \A k \in RequestEvents : UsageOf(stdout[k]).cost # {}
    BY <1>2 DEF UsageAt
  <2> QED
    BY <2>1, <2>2, <2>3, <2>4 DEF TurnTotalsAreCountedOnce
<1> QED
  BY <1>4, <1>5, <1>6 DEF UsageIsCountedOnce

(* What a returned Claude Code turn reports of tokens and cost: one record  *)
(* per usage event, the prompt's tokens and the cost of the turn once, and, *)
(* if every response is reported in one event, the tokens of all responses. *)
THEOREM TurnCountsUsageOnce == TurnSpec => []UsageIsCountedOnce
BY CountedOnce, TurnInvHolds, PTL
=============================================================================
