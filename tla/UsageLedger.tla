---------------------------- MODULE UsageLedger ----------------------------
(***************************************************************************)
(* The request-level usage ledger of benchmarks/harness/codex_usage.py as  *)
(* operators: what a usage breakdown is, when a notification is well       *)
(* formed, and what UsageLedger.accept makes of it.  A breakdown is a      *)
(* function from the six counters to Nat; the raw JSON object a            *)
(* notification carries is a function on a SUBSET of the counters (a       *)
(* counter outside its domain is missing), with a negative value standing  *)
(* for one that is negative or not an integer at all.                      *)
(***************************************************************************)
EXTENDS Integers, Sequences

Fields == {"inputTokens", "cachedInputTokens", "cacheWriteInputTokens",
           "outputTokens", "reasoningOutputTokens", "totalTokens"}

UsageBreakdown == [Fields -> Nat]

Zero == [f \in Fields |-> 0]

(* Only cacheWriteInputTokens has a default; any other missing counter, an *)
(* ill-typed one, or more cached than input tokens is a UsageLedgerError.  *)
WellFormed(raw) ==
  /\ Fields \ {"cacheWriteInputTokens"} \subseteq DOMAIN raw
  /\ \A f \in Fields \cap DOMAIN raw : raw[f] >= 0
  /\ raw["cachedInputTokens"] <= raw["inputTokens"]

FromAppServer(raw) ==
  [f \in Fields |-> IF f \in DOMAIN raw THEN raw[f] ELSE 0]

Plus(a, b) == [f \in Fields |-> a[f] + b[f]]

Subtract(a, b) == [f \in Fields |-> a[f] - b[f]]

NotAhead(total, previous) ==
  \E f \in Fields : total[f] <= previous[f]

MovedBackwards(total, previous) ==
  \E f \in Fields : total[f] < previous[f]

IsZero(b) == \A f \in Fields : b[f] = 0

AcceptedUsage == [last : UsageBreakdown, total : UsageBreakdown, sequence : Nat]

Ledger == [total : UsageBreakdown, sequence : Nat, accepted : Seq(AcceptedUsage)]

(* "_total or UsageBreakdown(0, ...)": no total yet counts as zero.        *)
EmptyLedger == [total |-> Zero, sequence |-> 0, accepted |-> <<>>]

VerdictIgnoringLast(ledger, last, total) ==
  IF MovedBackwards(total, ledger.total) THEN "error"
  ELSE IF total = ledger.total           THEN "duplicate"
  ELSE "advance"

(* What accept does with a (last, total) pair: "error" (it raises),        *)
(* "duplicate" (returns None, last is not looked at) or "advance".         *)
Verdict(ledger, last, total) ==
  LET delta == Subtract(total, ledger.total)
  IN  IF MovedBackwards(total, ledger.total) THEN "error"
      ELSE IF IsZero(delta)                  THEN "duplicate"
      ELSE IF delta = last                   THEN "advance"
      ELSE "error"

Advance(ledger, last, total) ==
  [total    |-> total,
   sequence |-> ledger.sequence + 1,
   accepted |-> Append(ledger.accepted,
                       [last |-> last, total |-> total,
                        sequence |-> ledger.sequence + 1])]

(* accept_notification on the raw last and total of one notification: both *)
(* are parsed before the ledger looks at them.                             *)
NotificationVerdict(ledger, rawLast, rawTotal) ==
  IF WellFormed(rawLast) /\ WellFormed(rawTotal)
  THEN Verdict(ledger, FromAppServer(rawLast), FromAppServer(rawTotal))
  ELSE "error"

AcceptNotification(ledger, rawLast, rawTotal) ==
  IF NotificationVerdict(ledger, rawLast, rawTotal) = "advance"
  THEN Advance(ledger, FromAppServer(rawLast), FromAppServer(rawTotal))
  ELSE ledger
=============================================================================
