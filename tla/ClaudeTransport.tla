-------------------------- MODULE ClaudeTransport --------------------------
(***************************************************************************)
(* One turn through Claude Code: ClaudeCodeTransport.run of                *)
(* benchmarks/harness/transport.py.  The prompt goes to the process's      *)
(* stdin; communicate() collects stdout and stderr until both are closed   *)
(* and the process has exited, or until the time limit.  Everything else   *)
(* happens afterwards, on the whole list of stream events: refuse what is  *)
(* not a clean, complete stream of the right model, make one request       *)
(* record of every event that carries usage, and add the records up.  The  *)
(* two loops take one step per event and per record.                       *)
(*                                                                         *)
(* A field the provider may leave out is a set: {} or {value}.  The        *)
(* provider (outside this repository) reports each response it makes in    *)
(* one or more events, each of which may or may not repeat the usage.      *)
(*                                                                         *)
(* The specification is TurnSpec, not Spec, and so on: CommandLineProofs   *)
(* extends this module beside another component.                           *)
(***************************************************************************)
EXTENDS Integers, Sequences, FiniteSets

CONSTANTS
  Usages,          \* the usage a response may report
  TotalCosts,      \* total_cost_usd of the result event: sets of at most one
  TaskTokens,      \* task_token_count(prompt)
  MaxResponses,    \* bound: responses of the provider
  MaxBlocks        \* bound: events that report one response

Optional(S) == {o \in SUBSET S : \A x, y \in o : x = y}

(* usage of an event, as Anthropic reports it: input excludes the cache.   *)
Usage == [input : Optional(Nat), output : Optional(Nat), cacheRead : Optional(Nat),
          cacheWrite : Optional(Nat), cost : Optional(Nat)]

ASSUME TransportAssumption ==
  /\ \A u \in Usages : u \in Usage
  /\ \A t \in TotalCosts : t \in Optional(Nat)
  /\ TaskTokens \in Nat /\ MaxResponses \in Nat /\ MaxBlocks \in Nat \ {0}

VARIABLES
  pc,          \* "spawn", "communicate", "killed", "collected", "counting",
               \* "aggregating" or "done"
  outcome,     \* how run() ended
  expired,     \* timeout_seconds have passed
  process,     \* "unborn", "running" or "exited"
  code,        \* its exit status is zero
  pipesOpen,   \* somebody holds the write end of stdout or stderr
  stdout,      \* the events written
  responses,   \* history: each response the provider made, and the tokens it
               \* had used by then
  requests,    \* the request records
  eventOf,     \* the event each record was made of (event_index of raw_usage)
  aggregate,   \* the sum of the first records
  added        \* how many of them it is the sum of

records == <<requests, eventOf, aggregate, added>>

turnVars == <<pc, outcome, expired, process, code, pipesOpen, stdout, responses, records>>

(* What _event_model makes of an event: the model asked for, another one,   *)
(* or none named.                                                          *)
Models == {"expected", "other", "unnamed"}

Event ==
  [type : {"system", "garbage"}, model : Models]
    \cup [type : {"response"}, of : 1 .. MaxResponses, model : Models,
          usage : Optional(Usages), tools : 0 .. 1]
    \cup [type : {"result"}, model : Models, success : BOOLEAN, cost : TotalCosts]

TokenUsage ==
  [input_tokens : Nat, output_tokens : Nat, context_tokens : Nat, task_tokens : Nat,
   requests : Nat, usd : Optional(Nat), cached_input_tokens : Optional(Nat),
   cache_write_input_tokens : Optional(Nat), cache_adjusted_input_tokens : Nat,
   tool_calls : Nat]

NoUsage ==
  [input_tokens |-> 0, output_tokens |-> 0, context_tokens |-> 0, task_tokens |-> 0,
   requests |-> 0, usd |-> {0}, cached_input_tokens |-> {0},
   cache_write_input_tokens |-> {0}, cache_adjusted_input_tokens |-> 0,
   tool_calls |-> 0]

TypeInvariant ==
  /\ pc \in {"spawn", "communicate", "killed", "collected", "counting", "aggregating",
             "done"}
  /\ outcome \in {"none", "no_process", "timed_out", "rejected", "returned"}
  /\ expired \in BOOLEAN
  /\ process \in {"unborn", "running", "exited"}
  /\ code \in BOOLEAN
  /\ pipesOpen \in BOOLEAN
  /\ stdout \in Seq(Event)
  /\ responses \in Seq([usage : Usages, spent : Nat])
  /\ requests \in Seq(TokenUsage)
  /\ eventOf \in Seq(Nat)
  /\ aggregate \in TokenUsage
  /\ added \in 0 .. Len(requests)

TurnInit ==
  /\ pc = "spawn"
  /\ outcome = "none"
  /\ expired = FALSE
  /\ process = "unborn"
  /\ code = TRUE
  /\ pipesOpen = FALSE
  /\ stdout = <<>>
  /\ responses = <<>>
  /\ requests = <<>>
  /\ eventOf = <<>>
  /\ aggregate = NoUsage
  /\ added = 0

-----------------------------------------------------------------------------
(* From events to request records.                                         *)

OrZero(option) == IF option = {} THEN 0 ELSE CHOOSE x \in option : TRUE

(* A sum with an unknown term is unknown.                                  *)
Plus(a, b) == {x + y : x \in a, y \in b}

CarriesUsage(e) == e.type = "response" /\ e.usage # {}

RequestEvents == {k \in 1 .. Len(stdout) : CarriesUsage(stdout[k])}

UsageOf(e) == CHOOSE u \in e.usage : TRUE

Results == {k \in 1 .. Len(stdout) : stdout[k].type = "result"}

Result == stdout[CHOOSE k \in Results : \A i \in Results : i <= k]

(* _tool_count, over all the events.                                       *)
ToolCount ==
  Cardinality({k \in 1 .. Len(stdout) : stdout[k].type = "response" /\ stdout[k].tools = 1})

NormalizedInput(u) == OrZero(u.input) + OrZero(u.cacheRead) + OrZero(u.cacheWrite)

(* The prompt is attributed to the record made first.                      *)
RequestTaskTokens == IF requests = <<>> THEN TaskTokens ELSE 0

CostOfEach(u) == IF u.cost = {} THEN Result.cost ELSE u.cost

(* The cost of the result belongs to a request only if there is just one.  *)
CostOf(u) ==
  IF u.cost = {} /\ (\A i, k \in RequestEvents : i = k) THEN Result.cost ELSE u.cost

RequestRecord(u) ==
  [input_tokens |-> NormalizedInput(u),
   output_tokens |-> OrZero(u.output),
   context_tokens |-> NormalizedInput(u) - RequestTaskTokens,
   task_tokens |-> RequestTaskTokens,
   requests |-> 1,
   usd |-> CostOf(u),
   cached_input_tokens |-> {OrZero(u.cacheRead)},
   cache_write_input_tokens |-> {OrZero(u.cacheWrite)},
   cache_adjusted_input_tokens |-> OrZero(u.input),
   tool_calls |-> ToolCount]

(* TokenUsage.__add__.                                                     *)
Add(a, b) ==
  [input_tokens |-> a.input_tokens + b.input_tokens,
   output_tokens |-> a.output_tokens + b.output_tokens,
   context_tokens |-> a.context_tokens + b.context_tokens,
   task_tokens |-> a.task_tokens + b.task_tokens,
   requests |-> a.requests + b.requests,
   usd |-> Plus(a.usd, b.usd),
   cached_input_tokens |-> Plus(a.cached_input_tokens, b.cached_input_tokens),
   cache_write_input_tokens |-> Plus(a.cache_write_input_tokens, b.cache_write_input_tokens),
   cache_adjusted_input_tokens |-> a.cache_adjusted_input_tokens + b.cache_adjusted_input_tokens,
   tool_calls |-> a.tool_calls + b.tool_calls]

Clean ==
  /\ \A i \in 1 .. Len(stdout) : stdout[i].type # "garbage"
  /\ Results # {}
  /\ code
  /\ Result.success

(* Some event, of whatever type, names a model, and none names another.    *)
OnlyExpectedModel ==
  LET reported == {stdout[i].model : i \in 1 .. Len(stdout)} \ {"unnamed"}
  IN  reported = {"expected"}

Reported(u) == u.input # {} /\ u.output # {}

CountableAnyway(u) == Reported(u)

Countable(u) == Reported(u) /\ RequestTaskTokens <= NormalizedInput(u)

(* The usage events of which no record has been made yet.                  *)
LastCounted == IF eventOf = <<>> THEN 0 ELSE eventOf[Len(eventOf)]

Remaining == {k \in RequestEvents : k > LastCounted}

-----------------------------------------------------------------------------
(* run().                                                                  *)

Finish(how) ==
  /\ pc' = "done"
  /\ outcome' = how

Spawn ==
  /\ pc = "spawn"
  /\ \/ /\ pc' = "communicate"
        /\ process' = "running"
        /\ pipesOpen' = TRUE
        /\ UNCHANGED outcome
     \/ /\ Finish("no_process")
        /\ UNCHANGED <<process, pipesOpen>>
  /\ UNCHANGED <<expired, code, stdout, responses, records>>

(* communicate() returns once the pipes are closed and the process exited. *)
AllCollected == ~ pipesOpen /\ process = "exited"

Communicate ==
  /\ pc = "communicate"
  /\ AllCollected
  /\ pc' = "collected"
  /\ UNCHANGED <<outcome, expired, process, code, pipesOpen, stdout, responses, records>>

TimeOutAtLeisure ==
  /\ pc = "communicate"
  /\ expired
  /\ stdout # <<>>
  /\ pc' = "killed"
  /\ UNCHANGED <<outcome, expired, process, code, pipesOpen, stdout, responses, records>>

TimesOut ==
  /\ pc = "communicate"
  /\ expired
  /\ pc' = "killed"
  /\ UNCHANGED <<outcome, expired, process, code, pipesOpen, stdout, responses, records>>

(* The second communicate(), without a time limit.                         *)
CollectKilled ==
  /\ pc = "killed"
  /\ AllCollected
  /\ Finish("timed_out")
  /\ UNCHANGED <<expired, process, code, pipesOpen, stdout, responses, records>>

(* Before a record is made: the whole stream is refused, or none of it.    *)
CheckStream ==
  /\ pc = "collected"
  /\ IF Clean /\ OnlyExpectedModel /\ RequestEvents # {}
     THEN /\ pc' = "counting"
          /\ UNCHANGED outcome
     ELSE Finish("rejected")
  /\ UNCHANGED <<expired, process, code, pipesOpen, stdout, responses, records>>

(* A record of the next usage event; a refused one drops those before it.  *)
CountNext ==
  /\ pc = "counting"
  /\ \E k \in Remaining : LET u == UsageOf(stdout[k])
     IN  /\ \A i \in Remaining : k <= i
         /\ \/ /\ Countable(u)
               /\ requests' = Append(requests, RequestRecord(u))
               /\ eventOf' = Append(eventOf, k)
               /\ UNCHANGED <<pc, outcome>>
            \/ /\ ~ Countable(u)
               /\ requests' = <<>>
               /\ eventOf' = <<>>
               /\ Finish("rejected")
  /\ UNCHANGED <<expired, process, code, pipesOpen, stdout, responses, aggregate, added>>

AllCounted ==
  /\ pc = "counting"
  /\ Remaining = {}
  /\ pc' = "aggregating"
  /\ UNCHANGED <<outcome, expired, process, code, pipesOpen, stdout, responses, records>>

(* aggregate_telemetry.                                                    *)
AddNext ==
  /\ pc = "aggregating"
  /\ added < Len(requests)
  /\ aggregate' = Add(aggregate, requests[added + 1])
  /\ added' = added + 1
  /\ UNCHANGED <<pc, outcome, expired, process, code, pipesOpen, stdout, responses,
                 requests, eventOf>>

(* _session_id: no event, nor the result, names the session.               *)
MissesSession ==
  /\ pc = "aggregating"
  /\ added = Len(requests)
  /\ requests' = <<>>
  /\ eventOf' = <<>>
  /\ aggregate' = NoUsage
  /\ added' = 0
  /\ Finish("rejected")
  /\ UNCHANGED <<expired, process, code, pipesOpen, stdout, responses>>

Return ==
  /\ pc = "aggregating"
  /\ added = Len(requests)
  /\ Finish("returned")
  /\ UNCHANGED <<expired, process, code, pipesOpen, stdout, responses, records>>

Client ==
  \/ Spawn \/ Communicate \/ TimesOut \/ CollectKilled
  \/ CheckStream \/ CountNext \/ AllCounted \/ AddNext
  \/ MissesSession \/ Return

Expire ==
  /\ pc = "communicate" /\ ~ expired
  /\ expired' = TRUE
  /\ UNCHANGED <<pc, outcome, process, code, pipesOpen, stdout, responses, records>>

-----------------------------------------------------------------------------
(* The provider's process.                                                 *)

(* What follows a line the client refuses, or the result, is left out.     *)
Refused(e) == e.type = "garbage" \/ e.model = "other"

Emit(e) ==
  /\ process = "running"
  /\ Results = {}
  /\ \A i \in 1 .. Len(stdout) : ~ Refused(stdout[i])
  /\ stdout' = Append(stdout, e)
  /\ UNCHANGED <<pc, outcome, expired, process, code, pipesOpen, records>>

Blocks(j) ==
  Cardinality({k \in 1 .. Len(stdout) : stdout[k].type = "response" /\ stdout[k].of = j})

(* The tokens used so far, and by a response.                              *)
SpentAfter(j) == IF j = 0 THEN 0 ELSE responses[j].spent

TokensOf(u) == NormalizedInput(u) + OrZero(u.output)

(* A block without usage is one that calls a tool; a model left out comes   *)
(* with usage, and what follows another model is left out.                 *)
BlockOf(j, u) ==
  LET Block(model, usage, tools) ==
        [type : {"response"}, of : {j}, model : model, usage : usage, tools : tools]
  IN  Block({"expected"}, {{}}, {1}) \cup Block({"expected"}, {{u}}, 0 .. 1)
        \cup Block({"other", "unnamed"}, {{u}}, {0})

Starts ==
  /\ stdout = <<>>
  /\ \E m \in {"expected", "other"} : Emit([type |-> "system", model |-> m])
  /\ UNCHANGED responses

Responds ==
  /\ Len(responses) < MaxResponses
  /\ \E u \in Usages :
       /\ responses' = Append(responses,
            [usage |-> u, spent |-> SpentAfter(Len(responses)) + TokensOf(u)])
       /\ \E e \in BlockOf(Len(responses) + 1, u) : Emit(e)

(* Another content block of the response under way.                        *)
Continues ==
  /\ responses # <<>>
  /\ Blocks(Len(responses)) < MaxBlocks
  /\ \E e \in BlockOf(Len(responses), responses[Len(responses)].usage) : Emit(e)
  /\ UNCHANGED responses

WritesGarbage ==
  /\ Emit([type |-> "garbage", model |-> "unnamed"])
  /\ UNCHANGED responses

WritesResult ==
  /\ \E s \in BOOLEAN, t \in TotalCosts :
       Emit([type |-> "result", model |-> "unnamed", success |-> s, cost |-> t])
  /\ UNCHANGED responses

(* By itself, or because it was killed; a child may keep the pipes open.   *)
Exits ==
  /\ process = "running"
  /\ process' = "exited"
  /\ code' \in IF pc = "killed" THEN {FALSE} ELSE BOOLEAN
  /\ pipesOpen' \in BOOLEAN
  /\ UNCHANGED <<pc, outcome, expired, stdout, responses, records>>

ChildClosesPipes ==
  /\ process = "exited" /\ pipesOpen
  /\ pipesOpen' = FALSE
  /\ UNCHANGED <<pc, outcome, expired, process, code, stdout, responses, records>>

Provider ==
  \/ Starts \/ Responds \/ Continues \/ WritesGarbage \/ WritesResult
  \/ Exits \/ ChildClosesPipes

Finished == pc = "done" /\ UNCHANGED turnVars

TurnNext == Client \/ Expire \/ Provider \/ Finished

TurnSpec == TurnInit /\ [][TurnNext]_turnVars

(* The client's thread is scheduled, time passes, and a killed process     *)
(* dies; nothing else is assumed of it, nor of its children.               *)
FairTurnSpec ==
  TurnSpec /\ WF_turnVars(Client) /\ WF_turnVars(Expire) /\ WF_turnVars(pc = "killed" /\ Exits)

-----------------------------------------------------------------------------
Returned == outcome = "returned"

ReportsOf(j) == {k \in RequestEvents : stdout[k].of = j}

(* "One normalized request record per assistant/message usage event", in   *)
(* the order of the stream, with the event's own input count.              *)
OneRecordPerUsageEvent ==
  Returned =>
    /\ Len(requests) = Len(eventOf)
    /\ {eventOf[i] : i \in 1 .. Len(eventOf)} = RequestEvents
    /\ \A i, k \in 1 .. Len(eventOf) : i < k => eventOf[i] < eventOf[k]
    /\ \A i \in 1 .. Len(requests) :
         requests[i].input_tokens = NormalizedInput(UsageOf(stdout[eventOf[i]]))

(* If the provider reports the usage of each response in one event only,   *)
(* the records are the responses, in order, and the aggregate adds up to   *)
(* the tokens the provider used, cache included.                           *)
ReportedOnce ==
  \A j \in 1 .. Len(responses) : \E k \in RequestEvents : ReportsOf(j) = {k}

ReportedOnceMeansCountedOnce ==
  Returned /\ ReportedOnce
    => /\ Len(requests) = Len(responses)
       /\ \A j \in 1 .. Len(responses) :
            requests[j].input_tokens = NormalizedInput(responses[j].usage)
       /\ aggregate.requests = Len(responses)
       /\ aggregate.input_tokens + aggregate.output_tokens = SpentAfter(Len(responses))

(* What is known only for the whole turn is counted once.  The tokens of   *)
(* the prompt are attributed once, and never more of them than the request *)
(* that carries them has.  "A result-level cost cannot be allocated across *)
(* several response messages without inventing a split": the cost of a     *)
(* turn is the provider's sum, or unknown, never one sum per request.      *)
TurnTotalsAreCountedOnce ==
  Returned =>
    /\ aggregate.task_tokens = TaskTokens
    /\ aggregate.context_tokens + TaskTokens = aggregate.input_tokens
    /\ \/ aggregate.usd = {}
       \/ aggregate.usd = Result.cost
       \/ \A k \in RequestEvents : UsageOf(stdout[k]).cost # {}

(* The tokens, the prompt and the cost of a returned turn are counted once, *)
(* from one record per usage event.  Tool calls are not: each record has    *)
(* the count of the whole turn, so that the sum multiplies it; and of a     *)
(* response reported in two events with usage there are two records.        *)
UsageIsCountedOnce ==
  OneRecordPerUsageEvent /\ ReportedOnceMeansCountedOnce /\ TurnTotalsAreCountedOnce

(* The time limit ends every turn, with no process left, unless a child of *)
(* the process holds its pipes open for ever: what collects a killed       *)
(* process has no time limit.                                              *)
EveryTurnEnds ==
  <>(pc = "done" /\ process # "running") \/ <>[](process = "exited" /\ pipesOpen)
=============================================================================
