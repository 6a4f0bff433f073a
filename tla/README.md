# A TLA+ model of the RepoPact proving ground

The repository governs a small unit converter (`unitconv.py`) with RepoPact and,
above all, holds the benchmark harness (`benchmarks/`) with which RepoPact is compared to other
regimes: a client that drives a coding agent through one *turn*, the ledger that
turns the agent's usage notifications into per-request telemetry, the executor
that turns a turn into evidence, and the studies S1 to S6 built on them. The
harness says of itself that it *fails closed*: a run is accepted only with
complete telemetry, a proven shutdown, a capture, and no invented number. What
can go wrong there is order and time: notifications repeated or lost, a server
that does not exit, a file still locked after a turn, two workers at once, a
process that dies between two writes. That is what is modelled here, and of the
converter the one thing its tests do not reach: what chains of calls do to a value.

All paths below are relative to the repository; `harness/` is
`benchmarks/harness/`.

## 1. Inventory

| Component | State it keeps | Operations | Interacts with | Hard behaviour | What makes it correct |
|---|---|---|---|---|---|
| `harness/codex_usage.py` usage ledger | last accepted total, accepted records | `accept`, `accept_notification` | called by the app-server client for each notification | repeated, lost, reordered notifications; counters that restart | accepted = the first requests served, in order; records add up |
| `harness/codex_app_server.py` client | the session, deadline, ledger, events, refused requests, output, owned process | `run` with `_send`, `_read`, `_await_response`, its `finally` | a server process, its stdout/stderr/stdin, its commands | reader threads, deadline, a server that does not exit, commands that outlive it | no process left, usage attributed, output whole, every approval refused, the run ends |
| `harness/workspace_io.py` bounded reads | attempt counter, recorded lock failures | `read_bytes_after_quiescence` | S2, S3, S6 snapshots and graders | the file changes between the read, its classification and the retry | only locks retried, evidence complete, deadline respected |
| `harness/empirical.py` executor | captures on disk, the turn | `run`, `validate`, `to_envelope` | a transport, the workspace check, the file system | captures written in place, crash in mid-write, shared names | an accepted turn has its capture |
| `harness/transport.py` | one subprocess | `run` of the Codex and Claude transports | executor | streams of events, time limit | one record per response |
| `harness/empirical_workspace.py` | a directory with access rules | `allocate`, `validate_for_inference`, `prepare_existing_child`, `close` | executor, S3 | clean-up failing while an exception is under way | nothing is removed while used |
| `harness/execution.py`, `model.py`, `capture.py`, `registry.py` | none (records) | validation, sums, serialisation | everything | none | sums agree |
| `harness/codex_real_runner_v2.py`, `pactbench/materialize.py` smoke adapter | a work directory, a capture | preflight, materialise, one turn, grade, capture | the app-server client | calls that race, die, are killed or repeated; one work directory and one capture name per task | one turn per work directory; what is returned was captured |
| `harness/codex_real_runner.py` | as above, older | | | | historical |
| `harness/runners.py`, `graders.py`, `grader_v2.py`, `report.py`, `run.py` | results | run, grade, report | PactBench tasks | none (sequential) | errored cells count in the denominators |
| `harness/ac3_*.py`, `admission_probe.py` | a manifest and a report on disk | phases of the preflight | all studies with fake turns | publication by a fixed temporary name; partial reports | 543 cells accounted for |
| `s2/materialize.py` | a content-addressed tree and a manifest | materialise, verify, resume | network, git, the registration | crash between writes; a newer registration | what was materialised verifies, and goes on verifying |
| `s2/provision.py`, `s2/empirical.py`, `s2/driver.py` | two checkouts | clone, apply, resume | git, executor | crash between clone and patch; two provisioners; edits | nothing half made is accepted, nothing edited overwritten |
| `s3/empirical.py`, `s3/driver.py` | two workspaces, two turns | `run_case` | executor, thread pool | two workers at once; one fails | own results, workspaces outlive workers |
| `s4/*`, `s5/adapter.py`, `s6a/empirical.py`, `s6b/*`, `drift/harness.py` | per-case observations | render, run, score | executor | none (sequential) | numbers agree with the turn |
| `unitconv.py` converter | none; the value travels from call to call in print | `convert_temperature`, `convert_length`, `main` | shell scripts | rounding to four decimals at every call, units of very different size | a value comes back unchanged, a chain does not wander off |
| `scripts/`, fixtures, evidence, schemas, governance | | | | | no logic of the program |

Interactions: a study calls `EmpiricalExecutor.run`; the executor validates the
workspace, calls a transport, writes the capture and returns a turn; the Codex
transport calls `CodexAppServer.run`, which owns the server process and feeds the
usage ledger; the study then reads the workspace through the bounded reads,
grades it and wraps the turn into an envelope. Two executors run at once only in
S3. State is shared through three media: the pipes to the agent process, the
workspace (edited by the agent and by whatever the agent started), and the
capture directory.

## 2. Modules

| Module | What it is | Extends / instantiates |
|---|---|---|
| `UsageLedger` | the pure ledger of `codex_usage.py`: parsing, `Subtract`, `Verdict`, `Advance` | |
| `RequestAttribution` | abstract specification: requests are recorded once each, in order, until the record is closed or failed | |
| `UsageStream` | the ledger fed by a provider whose notifications are lost, repeated, reordered, malformed, and whose counters may restart | `UsageLedger`, instance of `RequestAttribution` |
| `UsageStreamProofs` | theorems about the ledger and the stream | `UsageStream` |
| `AppServer` | one turn: client, server, operating system | `UsageLedger`, instances of `UsageStream` and `RequestAttribution` |
| `AppServerProofs` | theorems about it | `AppServer`, instance of `UsageStreamProofs` |
| `ClaudeTransport` | one turn through Claude Code | |
| `WorkspaceIO` | a bounded read of a file that changes under it | |
| `WorkspaceIOProofs` | theorems about it | `WorkspaceIO` |
| `S2Materialize` | the files of one S2 bed, a materialiser that may die, and a registration that changes | |
| `S2Provision` | the checkouts of the bed's tasks, provisioners and editors | `S2Materialize` |
| `S2ProvisionProofs` | theorems about the material and the checkouts | `S2Provision` |
| `EmpiricalExecutor` | runs of the executor over one capture directory | |
| `EmpiricalExecutorProofs` | theorems about it | `EmpiricalExecutor` |
| `SmokeAdapter` | calls of `RealRunnerV2` for one PactBench task, and the adapter each of them starts | |
| `CommandLineProofs` | theorems about it and about `ClaudeTransport`: both turns start a program from a command line and read what it has printed | `SmokeAdapter`, `ClaudeTransport` |
| `S3Coordination` | two workers, the main thread, two executors | instance of `EmpiricalExecutor` |
| `S3CoordinationProofs` | theorems about it | `S3Coordination` |
| `Converter` | chains of calls of the converter | |
| `ConverterProofs` | theorems about it | `Converter` |
| `MC*` | the small instances TLC checks | the module of that name |

Some definitions come in a pair: `AttemptsWithoutSpare` next to `MaxAttempts`,
`IgnoringSecrets` next to `Writable`. The first of a pair is a plausible mistake,
used nowhere; putting it in place of the second must break the property it
belongs to (`mutants` in PROJECT.json), which shows that the property depends on
that line of the code.

### How state and actions correspond to the code

**UsageLedger, UsageStream** (`harness/codex_usage.py`). A `UsageBreakdown` is a
function from the five counters to numbers; `WellFormed` is
`from_app_server`; `ledger` holds `_last_total` and the accepted list. `Verdict`
names the branch `accept` takes (duplicate, the three ways to fail, accepted);
`AcceptNotification` is `accept_notification`. The provider keeps `served`, what
it really did, against which the ledger is compared. The turn of `AppServer`
implements this stream (`ReadsTheStream`), and both implement `RequestAttribution`.

**AppServer** (`harness/codex_app_server.py`). `pc` is the place in `run`: the
three reading loops (`initialize`, `thread`, `turn`), `draining` (end of file seen,
stderr being read), and the steps of the `finally` block. Both reading loops,
`_await_response` and the turn loop, are the action `Receive` with one action for
each kind of message; the reader thread with its queue is the cursor into
`stdout`. `expired` is the deadline. The lifecycle record is built exactly from
what `finally` looks at. Server actions (answers, asks, notifications, streamed
text, commands, garbage, exits) are the environment. `writing` is the line that `_send`
is putting into the server's stdin, which may have to wait until the server reads
(`RequestIsWritten`, `RefusalIsWritten`) and fails once it has exited (`WriteFails`). In
`finally` the operating system may refuse to terminate or to kill the process
(`TerminateFails`, `KillFails`): the code looks again (`PollAgain`) and raises if the
process still runs. `signals` is history: what was sent to it. What a server does in one
behaviour is its *side* of the protocol, chosen once from the constant `Sides`: which
items, commands and requests it may use, whether somebody else may hold stderr, and
how many messages, requests and pieces of text it sends.

**ClaudeTransport** (`harness/transport.py`, 205-447). `communicate()` returns when
the pipes are closed and the process is gone, so everything after it
works on the whole of `stdout`: `CheckStream` refuses the stream or none of it (an event
of any type may name a model; some must name the right one and none another),
`CountNext` makes the record of one more usage event (or drops them all), `AddNext`
adds one more record to the aggregate, and `Return` ends, unless no event names a
session (`MissesSession`). `eventOf` is the `event_index` the code keeps with each
record. `responses` is history: what the provider used for each response, and by
then in all, against which the records are compared. Values of the wrong kind, such as
a negative count, are left out. An optional field is a set with at most one element, which makes
`TokenUsage.__add__` (an unknown term makes an unknown sum) one line.

**WorkspaceIO** (`harness/workspace_io.py`). The attempt (`Read`), the
classification, which looks at the file a second time (`HandleFailure`), and the
sleep are separate steps; `FileChanges` may come between any two. Time is in ticks;
a read takes up to `MaxDelay`, a sleep overruns by up to `MaxDelay`.

**EmpiricalExecutor** (`harness/empirical.py`, 298-430). A turn is the set of its
flaws. `Open` empties the capture file and `Write` fills it, because
`Path.write_text` does; with a shared name the content may be either run's or a
mixture. `Validate` comes last, as in the code. `Report` is the one place where the
transports differ: Codex looks for the commands of the turn (in `AppServer` this is
`ClearedRunLeavesNoCommand`), Claude Code reports that there are none. `Proving` is
the set of the runs whose transport looks.

**S3Coordination** (`s3/empirical.py`, `s3/driver.py`). `main` is the main thread,
`at` the place of each worker's thread; a worker's turn is one step at a time of its
executor (`Executor!Executor(w)`). `Fail` stands for every exception a thread may
raise outside the executor. The agent edits `root` while its turn runs, and the
command it left behind for as long as that runs.

**SmokeAdapter** (`harness/codex_real_runner_v2.py`, `pactbench/materialize.py`,
`harness/runners.py` 345-371). `at[c]` is the place of the adapter of call `c` in
`_main`, one action for each stretch between two effects that another call could
see; `runner[c]` is the thread in `RealRunnerV2.run`. The work directory and the
capture are single variables because their names depend on the task alone. `Raise`
is the last handler, which any exception that `_main` does not list reaches
(`Unguarded` are the places that can raise one); `Die` may end the process anywhere.
`TimeOut` kills the shell: the adapter goes with it or not. A report is the class of
the failure and the number of requests in the telemetry, `served` is what the agent
really used.

**S2Materialize** (`s2/materialize.py`, beds downloaded over HTTPS). A file is the set
of its contents, empty if there is none. Each write is one step, because every file
is put in place by `os.replace`; a crash may come between any two. The registration
is an index into `Registrations`, the successive contents of `task-set.json`, which
`FindBed` and `LoadTaskSet` read separately, as `main` and `materialize_bed` do.

**S2Provision** (`s2/provision.py`). One action for each git command that changes a
checkout, one for each group of checks. A checkout is what the code can ask git
about it: whether it exists, its origin, its HEAD, the paths that differ. `git clone`
and `git apply` are not over at once; the other commands are. `git apply` refuses an
empty patch, as it does outside the model. `settled` remembers that a call returned and
nothing was edited or registered since; each call notes it as it begins, and forgets it
with the next edit or registration.

**Converter** (`unitconv.py`). What a call prints has four decimals, so the value in
hand is the number of ten-thousandths in it (`reading`), and the caller of the next
call enters that. The two tables are `ToCelsius`, `FromCelsius` and `MetresPer`, in
pivot units small enough (ninths of 0.0001 degrees, 0.00000008 metres) that every
reading is a whole number of them; `Printed` is the format, which gives the nearest
reading and either neighbour at a tie, because the binary result may lie on either
side. Up to 100 000 units, in any unit of the chain, this agrees with double
precision. `MainRefuses` is every way to end with status 2. Not a number, infinities,
and how `argparse` reads the number are left out. `origin`, `last` and `known` record
the chain for the properties.

## 3. Runs

| Run | Shows | Distinct states |
|---|---|---|
| `usage` | whatever is lost, repeated, reordered or malformed, the ledger holds exactly the first requests served until a counter restarts, and its records add up to the total even then; in-order delivery is never refused; it implements `RequestAttribution` until the first restart | 1 604 |
| `turn` | each accepted usage points at its own notification; a returned turn is complete when its notifications were; the text of a finished turn is one whole message; a turn leaves the server behind only by raising, without a record, and every record tells truly how it ended, refused signals included; a returned turn has refused every request of the server in order, and clears the commands only if they are gone; the client implements `UsageStream` and `RequestAttribution` | 2 622 750 |
| `turn_ends` | every turn ends, unless somebody holds stderr for ever after stdout is closed, or the server never takes what is written to it | 128 150 |
| `claude` | a Claude turn has one record per usage event, the tokens of the prompt and the cost once, and tokens that add up; a timed-out process is gone; every turn ends, unless somebody holds its pipes for ever | 2 232 079 |
| `bounded_read` | with or without a Windows error code: only locks are retried, every retry is recorded, a read is given up at its deadline and neither before nor long after, every read ends | 1 173 |
| `captures` | accepted turns have their captures, nothing unfit reaches the disk, no command outlives an accepted turn of a transport that looks, crashes included | 195 507 |
| `coordination` | a result is of both workers, nobody works in a removed workspace, the score is of the final copies, no conflict exactly if they merge, no collision exactly if each worker kept to its scope, every case ends | 161 212 |
| `smoke` | a turn has a work directory of its own; what is returned is in a whole capture of the same call and invents no request; every call ends, unless Windows waits for an adapter whose turn does not | 464 633 |
| `smoke_zero` | *violation*: a turn that made requests and failed is accepted with telemetry of zero | |
| `s2_provision` | a bed verifies after materialisation and goes on doing so until it is registered anew; provisioning accepts nothing half made, makes evaluator checkouts with nothing but the test patch, overwrites nothing edited, and accepts again what it once accepted | 1 207 765 |
| `s2_only_the_patch` | *violation*: an evaluator checkout that is found is returned with more than the test patch | |
| `converter` | however many calls lie between, a value that comes back to a unit is unchanged if it went through none with coarser decimals, and no chain goes further from its beginning than one and a half of the coarsest last decimals | 3 314 |

### Bounds, and why they are enough

- *Ledger*: two request sizes that differ in every relation the code compares
  (one larger in one counter, smaller in another), three requests (first, middle,
  last), one malformed breakdown of each kind; a fourth request when counters may
  restart, so that there is one before, at, and after the restart.
- *App server*: `MaxRequests` bounds the requests a server serves (two, one in
  `turn_ends`), each side of `Sides` its own messages, requests and pieces. `run` treats usage, text and shutdown independently, so each
  behaviour has one side of the protocol open, and `Sides` holds one server for
  each. Six messages, or eight where text is streamed, are enough for the three
  responses, `turn/completed`, and every order of the messages under study; two commands
  and two request ids let one be handled and the other missed. One of these ids is that of
  the first request of the client, the other, 0, is that of none.
- *Claude*: two responses of two events each: one event more than responses, one
  response more than the special case of a single request. Four usages: with and
  without a cache, one with less input than the prompt and a cost of its own, one
  without an input count.
- *Bounded read*: a deadline of five ticks and an interval of two do not divide
  each other, so the last pause is a shortened one and the attempt limit rounds up.
- *Executor*: three runs, two of them sharing a name, so that a run has both a
  rival and a bystander, and one over a transport that does not look for commands.
  *S3*: two files, each the scope of one worker; original, edited and deleted are
  all the contents that two copies can disagree in.
- *Smoke adapter*: two calls, which may race for one directory, or follow each other
  with the directory cleared or left behind; a third would meet only states that one
  of them already left. Two requests, so that telemetry may be complete, partial or
  empty.
- *S2*: two tasks, one with an empty test patch; two registrations, of which the
  second changes the patch of one task and the commit of the other; a patch with a
  file that exists and one that does not, since git lists them differently; one path
  that is edited. Two provisioners race for the same checkouts; a third would meet
  only states that one of the two already left.
- *Converter*: every unit is a place to begin, with zero, the freezing point, values on
  both sides of them, and values that make a tie in the next unit (625 readings in
  feet, 500 in metres, 2640 feet in miles); chains have no bound, because the readings
  that are reached are few. The theorems hold for every entry.

### Fairness

`FairSpec` in `AppServer` and `WorkspaceIO`, and `FairTurnSpec` in `ClaudeTransport`, assume that the
client's own thread is scheduled (`WF` of its steps, taken together) and that time
passes; nothing is assumed of the server, the provider or the file. That a server takes
what is written to its stdin is not assumed either (`Writes` is not part of `Client`). In
`ClaudeTransport` a killed process dies. In `S3Coordination` the main thread and
each worker's thread are scheduled, and a transport ends every turn: that is
`EveryRunEnds` and `EveryTurnEnds` of the transports, which except the case that
somebody keeps a pipe of the turn open for ever. In `SmokeAdapter` each adapter and
each waiting runner is scheduled, and the runner's 1800 seconds pass; that a turn
ends is not assumed. The S2 modules promise nothing
about progress: after a crash in the wrong place the code refuses until a person
removes the checkout.

## 4. Theorems

Proved with TLAPS for every value of the constants:

- `UsageStreamProofs`. The inductive invariant is `TypeOK`, together with: served
  usages are well formed; the running totals add up and grow strictly; until a
  counter restarts, the accepted usages are a prefix of the served ones, and the
  ledger's total is the running total at its end. Strict growth is what makes it
  inductive: an old or repeated total is recognised because it is not larger, and a
  skipped request because the difference is not the last usage.
  `AttributionIsExact`, `LedgerAttributesInOrder` (the refinement of
  `RequestAttribution`, until the first restart) and `TypeCorrect` follow; so does
  `InOrderNeverFails`, because of all the notifications about requests served the next
  one is accepted and the last accepted one is a repetition (`NextIsAccepted`,
  `RepetitionIsIgnored`). `RecordsAddUp` needs none of this and holds across restarts.
- `WorkspaceIOProofs`. The invariant relates the clock to the attempt: unless the
  deadline has passed, at least one interval has passed per attempt (`Elapsed`).
  With `(MaxAttempts - 1) * RetryInterval >= Deadline` this gives the lower half of
  `DeadlineIsRespected`, and `Paced` the upper one; `Recorded` and `LockSeen` give
  `EvidenceIsComplete` and `RetriesNeedALock`.
- `CommandLineProofs`, the smoke adapter. While a call works, the directory is there and is its own
  (`Owned`), and no turn has begun in one that is not there or not yet committed
  (`Untouched`): two calls never work at once, because only one finds no directory,
  and nobody clears it while an adapter lives. From that, the capture a call has
  written stays its own until the directory is made anew (`CapturesStay`), since
  only the maker of the directory gets as far as writing. `TurnsAreIsolated` and
  `ReturnsAreCaptured` follow, for any number of calls. What they rest on is that nobody
  removes the directory of a living adapter (the guard of `ClearWork`): a call that
  timed out may leave one, which must be ended by hand first.
- `CommandLineProofs`, Claude Code. The records are compared with the stream while it is
  being counted. `ProviderOrder` says of the stream that its events are of the responses
  in the order they were made and carry their usage. `Stages` says what is there at each
  place in `run`: no record before the process is gone, no sum before the last
  record. `Records`: the records made so far are of the first usage events, in order, with
  their counts, and the prompt's tokens and the cost of the turn are in the first, or the
  only, one. `InOrder`: if each response is reported once, the n-th record is of the n-th
  response, because between two consecutive usage events of such a stream no
  response can lie (`NextIsInOrder`). `Sums` is then a step-by-step
  comparison that needs no induction over the list: the sum of the first n records is
  what the provider had used after n responses, it has the prompt's tokens once, and its
  cost is unknown unless each event names its own, or there is one event and the result
  names it. `TurnTypeCorrect` (no count is negative: a record
  never has more task tokens than input) and `TurnCountsUsageOnce` follow, for every
  stream, every number of responses and every way to split them into events.
- `EmpiricalExecutorProofs`. `Captured` says what the file of a run with a name of
  its own holds while it is written; `CheckedFirst`, that nobody writes before the
  checks; `Cleared`, that the report of the commands stays true, because commands
  only start during the turn. `AcceptedIsCaptured`, `DiskHoldsFitTurns` and, for the
  runs in `Proving`, `AcceptedIsQuiet` follow, for any number of concurrent runs.

- `AppServerProofs`. `Typed` is `TypeOK` with what the place in `run` says of the
  outcome, the requests sent and the process (`Phases`). `NoProcessIsLeft` also needs that `termination` never says less than
  was done (`SignalsAreTold`). The other properties compare what the client holds with what the
  server did, and rest on one argument: stdout only grows and is read in order
  (`OutputGrows`, `ReadStays`); what belongs to a turn is written before its
  `turn/completed` (`TurnIsOver`); a returned run has read that far
  (`CompletedIsRead`). So what it has read of the turn is all there is. For the
  commands this is `CommandsAreNamed`; for the output, `StreamIsWritten` and
  `ItemIsLast` (a message is complete once its `item/completed` is there) and
  `AnswersAreRead` (an answer that was completed is whole and has no piece beside
  it). `AsksAreRefused` needs
  `AsksAreAnswered`: every request of the server that was read is answered, or the
  answer is being written (`Due`), or it could not be and the run failed; ids play no part
  in it, so they may be any. For usage, `TurnReadsTheStream` is the
  refinement of `UsageStream`: the messages of a turn that are not usage leave the ledger
  alone, and a read of usage is a delivery. What `UsageStreamProofs` proves of the stream
  is then used as it stands (`TurnIsExact`). `NotifiedInOrder` says that the newest
  notification is of the newest request, `ReadIsCounted` that none was read without being
  counted, and `EventsMatch` ties each record to its event: `UsageIsRight`.
  `TurnAttributesInOrder` is the refinement of `RequestAttribution`.
- `S2ProvisionProofs`. `BedInv` is the inductive invariant, in five parts over the types.
  `CheckoutInv`: a checkout has one writer at a time, because only one finds it absent
  (`OneFetches`, `OneClones`), and what each place in `provision_bed` may assume of it;
  `NoWorkIsLost` needs no more, nor does `FreshIsOnlyPatched`, because a checkout that is
  being patched has only paths of the patch. `MaterialInv`: what a materialiser has written at each
  place, and that a manifest names a version no newer than the registration and no newer
  than that of a materialiser still at work (`Dated`). `ReadInv`: what a call has verified
  goes on being so while the asset of its manifest is registered, although materialisers
  go on writing, since they write the same contents. `AcceptedInv`: a task that a call has
  let pass is still provisioned when the call returns (`ReturnsProvisioned`).
  `SettledInv`: a settled bed passes every check of a later call, so such a call never
  reaches a command that changes anything (`SettledIsAccepted`).
  The last three rest on two hypotheses, and TLC finds a violation without each:
  `RegistrationsMoveOn`, that no version and no asset comes back once another has replaced
  it (otherwise a materialiser that began under the old one replaces files that verify),
  and `PatchesAgree`, that a task has a test patch in every asset or in none (otherwise of
  two calls that began under different registrations one applies a patch in a checkout
  that the other has inspected and found clean, as its empty patch demands).
  `BedsKeepVerifying` needs the first, the other two both.
- `S3CoordinationProofs`. `ExecutorsAreRuns` shows that the two executors of a case
  are two runs of `EmpiricalExecutor`, so that the theorems of
  `EmpiricalExecutorProofs` hold of them and are used as they stand. `Phases` relates
  the main thread to the workers' threads (`NobodyWorksInVain`), `CollectedInOrder`
  says that only finished threads are collected (`ResultsAreJoint`). `Snapshots` says
  of each thread that past its second snapshot nobody edits the copy any more; it needs
  the transports to look for commands, so `EditsAreFinal` and `ScoresAreTrue` are stated
  under `Proving = Workers`. `ScoresAreTrue` adds the algebra of the score: two copies of
  one repository merge exactly if no path changed in both to different contents.
- `ConverterProofs`. The obvious bound on the drift is not inductive, because it would
  grow with each call. What is: the readings of a chain, from the coarsest to the one
  in hand, are linked (`LinksAreShort`), each at most `Slack` away from the next coarser
  one, and the coarsest at most `Shift` from the origin. The slack of a unit is always
  below the last decimal of the next coarser unit, so that the way back rounds to the
  old reading and nothing gathers up. `ComesBackUnchanged` and `DriftIsBounded` follow for
  every entry and every length of the chain.

Assumptions: those named in the modules (`...Assumption`), which state the types of
the constants, and that two breakdowns in `Lasts` are well formed and not zero.

Only model-checked: everything about liveness (`EveryRunEnds`, `EveryTurnEnds`,
`EveryCallReturns`, `EveryReadEnds`, `EveryCaseEnds`), because the provers do not treat
fairness and `ENABLED`. Every invariant and every action property that a passing run
checks is a theorem.

## 5. Where code and documentation disagree

Each finding in PROJECT.json is shown by a run marked *violation* above:

- a PactBench turn that fails after inference is reported with telemetry of zero, which
  the response parser requires;
- an S2 evaluator checkout "has only the registered test patch applied"
  (`s2/provision.py` 5-6; the comment at 136 and `harness/README.md` 121-123 say so too),
  but one that is found is accepted when the patch can be reversed, whatever else has
  changed in it: an edit, or what an older registration patched beside it.

Two more were met while modelling the Claude Code transport and need no run to be seen:

- `transport.py` 331 turns a cache-read count that was not exposed into 0, and 372-373
  put it into the record, while `harness/README.md` 64-65 says that unavailable fields
  remain `null` and are never silently converted to zero;
- `harness/README.md` 62-63 says that usage is "normalized per response", while the code
  makes a record of each event with usage (lines 297-303 and 322), so that a response
  reported in two of them is counted twice. `UsageIsCountedOnce` excludes it.

Other weak places are no contradiction of a document, or are excluded by a condition
of the property that would show them; they are kept with the hazards of PROJECT.json:

- the adapter of a timed-out PactBench call may live on and must be ended before its
  work directory is cleared;
- a counter restart whose first total equals the last one is taken for a repetition;
- a lock released before the second look of the lock probe is reported as denied for good;
- reading stderr, collecting a killed process, or writing to a server that does not read
  has no time limit;
- a server request with the right id can be taken for a response;
- each record of a Claude Code turn has the tool calls of the whole turn (`transport.py`
  380), so that their sum is multiplied, which no property looks at; and the transport
  vouches for commands nobody looked for;
- the capture paths of S3 workers are separate only if the caller makes them so;
- a test patch that only adds files is applied and then refused;
- a task with an empty test patch fails when its evaluator checkout is made, because
  `git apply` refuses an empty patch; a second call finds the checkout and returns;
- a registration that goes back to an earlier version or asset while a materialiser of
  that time is at work, and a test patch that is empty in one asset only, are not excluded
  by the code (the hypotheses of `S2ProvisionProofs`);
- the AC-3 preflight computes its status from the cells' study phases and the queue. A
  failure of the clean-up, recorded as a blocked `workspace_security` phase, or a
  manifest that differs from its generator leaves a report READY.

## 6. Not modelled

- *AC-3 preflight and manifest*: one thread runs one phase after another with fake turns.
  Its one question of order is answered by a single expression (above).
- *PactBench runners, graders, reports*: simulated runners, rule lookups and averages,
  one cell after another; nothing is kept between two cells.
- *S2 execution, S4, S5, S6 and the drift study*: each case is one call of the executor
  (`EmpiricalExecutor`) or one replay of a scenario, between a deterministic preparation
  and a score. S4 renders its context from files that nobody else writes.
- *Execution records* (`execution.py`, `model.py`, `capture.py`, `registry.py`): immutable
  values that validate their own fields.
- *Of modelled components*: the acquisition of a bed kept in a Git repository and the
  normalisation of rows (`s2/materialize.py`); duplicated work and scope patterns
  (`s3/driver.py`); the contents of access rules (`empirical_workspace.py`), which are
  calls of operating system tools; decoding (`workspace_io.py`); the verdicts of single
  checks and the redaction of captures (`codex_real_runner_v2.py`).
- *No logic of the program*: the first adapter `codex_real_runner.py`, kept for its
  evidence; the access-rule measurement script; fixtures, recorded evidence, schemas and
  governance files.
