---------------------------- MODULE UsageStream ----------------------------
(***************************************************************************)
(* The ledger of UsageLedger.tla reading the notifications of a provider   *)
(* that may lose, repeat, delay and reorder them: a notification about any *)
(* request served so far may arrive at any time.  The provider's cumulative*)
(* counters may also be reset once.  A raised UsageLedgerError ends the    *)
(* reading (CodexAppServer.run turns it into a failed run).                *)
(***************************************************************************)
EXTENDS UsageLedger

CONSTANTS
  Lasts,         \* the usage a single request may report
  MalformedRaws, \* raw breakdowns the parser must refuse
  MaxRequests,   \* bound: requests the provider serves
  MayReset       \* whether the provider may reset its cumulative counters

ASSUME LastsAssumption ==
  \A u \in Lasts : u \in UsageBreakdown /\ WellFormed(u) /\ ~ IsZero(u)

ASSUME MalformedAssumption ==
  \A raw \in MalformedRaws :
    /\ ~ WellFormed(raw)
    /\ \A f \in Fields \cap DOMAIN raw : raw[f] \in Int

ASSUME BoundsAssumption == MaxRequests \in Nat /\ MayReset \in BOOLEAN

VARIABLES
  served,        \* the requests served, each with its own usage and the total
  base,          \* how many were served before the last counter reset
  ledger,        \* the client's UsageLedger
  status         \* "open", "failed" (a UsageLedgerError) or "closed"

vars == <<served, base, ledger, status>>

Request == [last : UsageBreakdown, total : UsageBreakdown]

(* The provider's running total, zero again after a reset.                 *)
RunningTotal == IF Len(served) > base THEN served[Len(served)].total ELSE Zero

TypeOK ==
  /\ served \in Seq(Request)
  /\ base \in 0 .. Len(served)
  /\ ledger \in Ledger
  /\ ledger.sequence = Len(ledger.accepted)
  /\ status \in {"open", "failed", "closed"}

Init ==
  /\ served = <<>>
  /\ base = 0
  /\ ledger = EmptyLedger
  /\ status = "open"

ServeRequest ==
  /\ Len(served) < MaxRequests
  /\ \E u \in Lasts :
       served' = Append(served, [last |-> u, total |-> Plus(RunningTotal, u)])
  /\ UNCHANGED <<base, ledger, status>>

ResetCounters ==
  /\ MayReset
  /\ base = 0
  /\ base' = Len(served)
  /\ UNCHANGED <<served, ledger, status>>

Consume(rawLast, rawTotal) ==
  /\ ledger' = AcceptNotification(ledger, rawLast, rawTotal)
  /\ status' = IF NotificationVerdict(ledger, rawLast, rawTotal) = "error"
               THEN "failed" ELSE "open"

Deliver ==
  /\ status = "open"
  /\ \E j \in 1 .. Len(served) : Consume(served[j].last, served[j].total)
  /\ UNCHANGED <<served, base>>

DeliverMalformed ==
  /\ status = "open"
  /\ \E j \in 1 .. Len(served), raw \in MalformedRaws :
       \/ Consume(raw, served[j].total)
       \/ Consume(served[j].last, raw)
  /\ UNCHANGED <<served, base>>

StopReading ==
  /\ status = "open"
  /\ status' = "closed"
  /\ UNCHANGED <<served, base, ledger>>

Next ==
  \/ ServeRequest
  \/ ResetCounters
  \/ Deliver
  \/ DeliverMalformed
  \/ StopReading

Spec == Init /\ [][Next]_vars

-----------------------------------------------------------------------------
(* The records are the first requests served, in order, numbered from one, *)
(* with the totals the provider had at the time.                           *)
ServedPrefix ==
  /\ Len(ledger.accepted) <= Len(served)
  /\ \A i \in 1 .. Len(ledger.accepted) :
       /\ ledger.accepted[i].last = served[i].last
       /\ ledger.accepted[i].total = served[i].total
       /\ ledger.accepted[i].sequence = i

(* The ledger of codex_usage.py never guesses: whatever was lost, repeated *)
(* or reordered on the way, what it has accepted is exactly the first      *)
(* requests the provider served, until the provider resets its counters.   *)
AcceptedIsServedPrefix == base = 0 => ServedPrefix

(* What AC-2 sums over: every accepted total is the one before it plus the *)
(* usage attributed to that request, so the accepted records always add up *)
(* to the ledger's total, even when the provider resets its counters.      *)
AcceptedTotalsAddUp ==
  LET total(i) == IF i = 0 THEN Zero ELSE ledger.accepted[i].total
      n        == Len(ledger.accepted)
  IN  /\ \A i \in 1 .. n :
           ledger.accepted[i].total = Plus(total(i - 1), ledger.accepted[i].last)
      /\ ledger.total = total(n)

(* Refusing to guess is not refusing everything: without a reset, the      *)
(* notification that is next in order and a repetition of the last         *)
(* accepted one never fail a run (UsageLedger.accept raises only where     *)
(* attribution is ambiguous).                                              *)
InOrderDeliveryNeverFails ==
  LET n == Len(ledger.accepted)
  IN  base = 0 =>
        \A j \in {n, n + 1} \cap (1 .. Len(served)) :
          NotificationVerdict(ledger, served[j].last, served[j].total) # "error"

(* The requests as the abstract specification sees them.                   *)
Attributed ==
  [i \in 1 .. Len(ledger.accepted) |->
     [last |-> ledger.accepted[i].last, total |-> ledger.accepted[i].total]]

(* Until a reset the ledger implements request attribution: every step is  *)
(* the next served request recorded once, or nothing, or the end of it.    *)
Attribution == INSTANCE RequestAttribution
                 WITH Requests <- Request, attributed <- Attributed

AttributesInOrder ==
  /\ Attribution!Init
  /\ [][base' = 0 => [Attribution!Next]_(Attribution!vars)]_vars
=============================================================================
