------------------------- MODULE UsageStreamProofs -------------------------
(***************************************************************************)
(* The ledger attributes usage to requests without guessing, for any usage *)
(* values, any number of requests and any loss, repetition or reordering   *)
(* of notifications.  The argument: the provider's running totals grow     *)
(* strictly, so a notification whose own usage equals its distance from    *)
(* the ledger's total can only be the one about the next request.          *)
(***************************************************************************)
EXTENDS UsageStream, TLAPS

-----------------------------------------------------------------------------
(* Usage breakdowns, and the verdict on one notification.                  *)

(* One total lies strictly below another.                                  *)
Below(a, b) ==
  /\ \A f \in Fields : a[f] <= b[f]
  /\ \E f \in Fields : a[f] < b[f]

LEMMA ZeroIsBreakdown == Zero \in UsageBreakdown
BY DEF Zero, UsageBreakdown

LEMMA PlusIsBreakdown ==
  ASSUME NEW a \in UsageBreakdown, NEW b \in UsageBreakdown
  PROVE  Plus(a, b) \in UsageBreakdown
BY DEF Plus, UsageBreakdown

(* A parsed breakdown is a breakdown; a complete one is parsed as itself.  *)
LEMMA ParsedIsBreakdown ==
  ASSUME NEW raw, WellFormed(raw), \A f \in Fields \cap DOMAIN raw : raw[f] \in Int
  PROVE  FromAppServer(raw) \in UsageBreakdown
BY DEF FromAppServer, UsageBreakdown, WellFormed

LEMMA ParsedIsItself ==
  ASSUME NEW b \in UsageBreakdown
  PROVE  FromAppServer(b) = b
BY DEF FromAppServer, UsageBreakdown

LEMMA PlusKeepsWellFormed ==
  ASSUME NEW a \in UsageBreakdown, NEW b \in UsageBreakdown,
         WellFormed(a), WellFormed(b)
  PROVE  WellFormed(Plus(a, b))
<1>1. DOMAIN Plus(a, b) = Fields
  BY DEF Plus
<1>2. \A f \in Fields : Plus(a, b)[f] = a[f] + b[f] /\ a[f] \in Nat /\ b[f] \in Nat
  BY DEF Plus, UsageBreakdown
<1>3. {"cachedInputTokens", "inputTokens"} \subseteq Fields
  BY DEF Fields
<1> QED BY <1>1, <1>2, <1>3 DEF WellFormed

LEMMA ZeroIsWellFormed == WellFormed(Zero)
<1>1. {"cachedInputTokens", "inputTokens"} \subseteq Fields
  BY DEF Fields
<1> QED BY <1>1 DEF WellFormed, Zero

(* Adding a non-zero usage moves a total strictly upwards.                 *)
LEMMA PlusGrows ==
  ASSUME NEW a \in UsageBreakdown, NEW b \in UsageBreakdown, ~ IsZero(b)
  PROVE  Below(a, Plus(a, b))
BY DEF Below, Plus, UsageBreakdown, IsZero

LEMMA BelowIsTransitive ==
  ASSUME NEW a \in UsageBreakdown, NEW b \in UsageBreakdown,
         NEW c \in UsageBreakdown, Below(a, b), Below(b, c)
  PROVE  Below(a, c)
BY DEF Below, UsageBreakdown

(* An accepted pair is the distance from the ledger's total to its own.    *)
LEMMA AdvanceMeansDelta ==
  ASSUME NEW l, NEW last, NEW total, Verdict(l, last, total) = "advance"
  PROVE  /\ ~ MovedBackwards(total, l.total)
         /\ ~ IsZero(Subtract(total, l.total))
         /\ Subtract(total, l.total) = last
BY DEF Verdict

LEMMA CancelPlus ==
  ASSUME NEW a \in UsageBreakdown, NEW b \in UsageBreakdown,
         NEW c \in UsageBreakdown, Subtract(Plus(a, c), b) = c
  PROVE  a = b
<1>1. \A f \in Fields : a[f] \in Nat /\ b[f] \in Nat /\ c[f] \in Nat
  BY DEF UsageBreakdown
<1>2. \A f \in Fields : Plus(a, c)[f] = a[f] + c[f]
  BY DEF Plus
<1>3. \A f \in Fields : Subtract(Plus(a, c), b)[f] = Plus(a, c)[f] - b[f]
  BY DEF Subtract
<1>4. \A f \in Fields : c[f] = Plus(a, c)[f] - b[f]
  BY <1>3
<1>5. \A f \in Fields : a[f] = b[f]
  <2> TAKE f \in Fields
  <2>1. a[f] \in Nat /\ b[f] \in Nat /\ c[f] \in Nat
    BY <1>1
  <2>2. c[f] = a[f] + c[f] - b[f]
    BY <2>1, <1>2, <1>4
  <2> QED BY <2>1, <2>2
<1>6. a = [f \in Fields |-> a[f]] /\ b = [f \in Fields |-> b[f]]
  BY DEF UsageBreakdown
<1> QED BY <1>5, <1>6

(* The notification that is next in order is accepted.                     *)
LEMMA NextInOrderAdvances ==
  ASSUME NEW l, NEW last \in UsageBreakdown, l.total \in UsageBreakdown,
         WellFormed(last), WellFormed(Plus(l.total, last)), ~ IsZero(last)
  PROVE  NotificationVerdict(l, last, Plus(l.total, last)) = "advance"
<1> DEFINE total == Plus(l.total, last)
<1>1. total \in UsageBreakdown
  BY PlusIsBreakdown
<1>2. \A f \in Fields : total[f] = l.total[f] + last[f] /\ l.total[f] \in Nat /\ last[f] \in Nat
  BY DEF Plus, UsageBreakdown
<1>3. ~ MovedBackwards(total, l.total)
  BY <1>2 DEF MovedBackwards
<1>4. Subtract(total, l.total) = last
  <2>1. last = [f \in Fields |-> last[f]]
    BY DEF UsageBreakdown
  <2>2. \A f \in Fields : total[f] - l.total[f] = last[f]
    <3> TAKE f \in Fields
    <3> HIDE DEF total
    <3>1. total[f] = l.total[f] + last[f] /\ l.total[f] \in Nat /\ last[f] \in Nat
      BY <1>2
    <3> QED BY <3>1
  <2>3. Subtract(total, l.total) = [f \in Fields |-> total[f] - l.total[f]]
    BY DEF Subtract
  <2>4. [f \in Fields |-> total[f] - l.total[f]] = [f \in Fields |-> last[f]]
    BY <2>2
  <2> HIDE DEF total
  <2> QED BY <2>1, <2>3, <2>4
<1>5. FromAppServer(last) = last /\ FromAppServer(total) = total
  BY <1>1, ParsedIsItself
<1> QED
  BY <1>3, <1>4, <1>5 DEF NotificationVerdict, Verdict

-----------------------------------------------------------------------------

(* The provider's total after its first i requests.                        *)
TotalAfter(i) == IF i = 0 THEN Zero ELSE served[i].total

WellFormedServed ==
  \A i \in 1 .. Len(served) :
    /\ ~ IsZero(served[i].last)
    /\ WellFormed(served[i].last)
    /\ WellFormed(served[i].total)

TotalsAccumulate ==
  \A i \in 1 .. Len(served) :
    served[i].total = Plus(TotalAfter(i - 1), served[i].last)

TotalsGrow ==
  \A i, j \in 0 .. Len(served) : i < j => Below(TotalAfter(i), TotalAfter(j))

(* The inductive invariant behind AcceptedIsServedPrefix, while base = 0. *)
IInv ==
  /\ TypeOK
  /\ base = 0
  /\ WellFormedServed
  /\ TotalsAccumulate
  /\ TotalsGrow
  /\ ServedPrefix
  /\ ledger.total = TotalAfter(Len(ledger.accepted))

-----------------------------------------------------------------------------
(* What the ledger makes of the notification about one served request: a   *)
(* repetition or nothing new leaves it alone, and an advance appends the   *)
(* very next request.                                                      *)
LEMMA AdvanceIsNextRequest ==
  ASSUME IInv, NEW j \in 1 .. Len(served),
         NotificationVerdict(ledger, served[j].last, served[j].total) = "advance"
  PROVE  /\ j = Len(ledger.accepted) + 1
         /\ AcceptNotification(ledger, served[j].last, served[j].total)
              = Advance(ledger, served[j].last, served[j].total)
<1> DEFINE n == Len(ledger.accepted)
<1>1. served[j] \in Request /\ served[j].last \in UsageBreakdown
      /\ served[j].total \in UsageBreakdown
  <2>1. served \in Seq(Request)
    BY DEF IInv, TypeOK
  <2>2. served[j] \in Request
    BY <2>1
  <2> QED BY <2>2 DEF Request
<1>2. n \in Nat /\ n <= Len(served) /\ Len(served) \in Nat
  BY DEF IInv, TypeOK, ServedPrefix, Ledger
<1>3. FromAppServer(served[j].last) = served[j].last
      /\ FromAppServer(served[j].total) = served[j].total
  BY <1>1, ParsedIsItself
<1>4. Verdict(ledger, served[j].last, served[j].total) = "advance"
  BY <1>3 DEF NotificationVerdict
<1>5. Subtract(served[j].total, TotalAfter(n)) = served[j].last
  BY <1>4, AdvanceMeansDelta DEF IInv
<1>6. \A i \in 0 .. Len(served) : TotalAfter(i) \in UsageBreakdown
  <2>1. \A i \in 1 .. Len(served) : served[i] \in Request
    BY DEF IInv, TypeOK
  <2>2. \A i \in 1 .. Len(served) : served[i].total \in UsageBreakdown
    BY <2>1 DEF Request
  <2> QED BY <2>2, ZeroIsBreakdown DEF TotalAfter
<1>7. TotalAfter(j - 1) = TotalAfter(n)
  <2>1. served[j].total = Plus(TotalAfter(j - 1), served[j].last)
    BY DEF IInv, TotalsAccumulate
  <2>2. TotalAfter(j - 1) \in UsageBreakdown /\ TotalAfter(n) \in UsageBreakdown
    BY <1>2, <1>6
  <2> QED BY <1>1, <1>5, <2>1, <2>2, CancelPlus
<1>8. ~ Below(TotalAfter(n), TotalAfter(n))
  BY <1>2, <1>6 DEF Below, UsageBreakdown
<1>9. ~ (j - 1 < n) /\ ~ (n < j - 1)
  <2>1. j - 1 \in 0 .. Len(served) /\ n \in 0 .. Len(served)
    BY <1>2
  <2> QED BY <1>7, <1>8, <2>1 DEF IInv, TotalsGrow
<1>10. j = n + 1
  BY <1>2, <1>9
<1> QED BY <1>3, <1>10 DEF AcceptNotification

-----------------------------------------------------------------------------
(* Type correctness does not depend on resets.                             *)
LEMMA AcceptKeepsType ==
  ASSUME NEW l \in Ledger, l.sequence = Len(l.accepted),
         NEW rawLast, NEW rawTotal,
         \A f \in Fields \cap DOMAIN rawLast : rawLast[f] \in Int,
         \A f \in Fields \cap DOMAIN rawTotal : rawTotal[f] \in Int
  PROVE  /\ AcceptNotification(l, rawLast, rawTotal) \in Ledger
         /\ AcceptNotification(l, rawLast, rawTotal).sequence
              = Len(AcceptNotification(l, rawLast, rawTotal).accepted)
<1>1. CASE NotificationVerdict(l, rawLast, rawTotal) = "advance"
  <2> DEFINE last == FromAppServer(rawLast)
             total == FromAppServer(rawTotal)
             entry == [last |-> last, total |-> total, sequence |-> l.sequence + 1]
  <2>1. WellFormed(rawLast) /\ WellFormed(rawTotal)
    BY <1>1 DEF NotificationVerdict
  <2>2. last \in UsageBreakdown /\ total \in UsageBreakdown
    BY <2>1, ParsedIsBreakdown
  <2>3. l.sequence \in Nat /\ l.accepted \in Seq(AcceptedUsage)
    BY DEF Ledger
  <2>4. entry \in AcceptedUsage
    BY <2>2, <2>3 DEF AcceptedUsage
  <2>5. Append(l.accepted, entry) \in Seq(AcceptedUsage)
        /\ Len(Append(l.accepted, entry)) = Len(l.accepted) + 1
    BY <2>3, <2>4
  <2>6. AcceptNotification(l, rawLast, rawTotal)
          = [total |-> total, sequence |-> l.sequence + 1,
             accepted |-> Append(l.accepted, entry)]
    BY <1>1 DEF AcceptNotification, Advance
  <2> HIDE DEF last, total, entry
  <2> QED BY <2>2, <2>3, <2>5, <2>6 DEF Ledger
<1>2. CASE NotificationVerdict(l, rawLast, rawTotal) # "advance"
  BY <1>2 DEF AcceptNotification
<1> QED BY <1>1, <1>2

LEMMA ServedIsTyped ==
  ASSUME TypeOK, NEW j \in 1 .. Len(served)
  PROVE  /\ served[j].last \in UsageBreakdown
         /\ served[j].total \in UsageBreakdown
<1>1. served \in Seq(Request)
  BY DEF TypeOK
<1>2. served[j] \in Request
  BY <1>1
<1> QED BY <1>2 DEF Request

LEMMA RunningTotalIsTyped ==
  ASSUME TypeOK
  PROVE  RunningTotal \in UsageBreakdown
<1>1. base \in Nat /\ Len(served) \in Nat
  BY DEF TypeOK
<1>2. CASE Len(served) > base
  <2>1. Len(served) \in 1 .. Len(served)
    BY <1>1, <1>2
  <2> QED BY <2>1, <1>2, ServedIsTyped DEF RunningTotal
<1>3. CASE ~ (Len(served) > base)
  BY <1>3, ZeroIsBreakdown DEF RunningTotal
<1> QED BY <1>2, <1>3

LEMMA ConsumeKeepsType ==
  ASSUME TypeOK, NEW rawLast, NEW rawTotal, Consume(rawLast, rawTotal),
         \A f \in Fields \cap DOMAIN rawLast : rawLast[f] \in Int,
         \A f \in Fields \cap DOMAIN rawTotal : rawTotal[f] \in Int
  PROVE  /\ ledger' \in Ledger
         /\ ledger'.sequence = Len(ledger'.accepted)
         /\ status' \in {"open", "failed", "closed"}
<1>1. ledger \in Ledger /\ ledger.sequence = Len(ledger.accepted)
  BY DEF TypeOK
<1> QED BY <1>1, AcceptKeepsType DEF Consume

LEMMA BreakdownIsRaw ==
  ASSUME NEW b \in UsageBreakdown
  PROVE  \A f \in Fields \cap DOMAIN b : b[f] \in Int
BY DEF UsageBreakdown

(* Type correctness of the stream, resets included: the ledger only ever   *)
(* holds non-negative counters and its sequence numbers count its records. *)
THEOREM TypeCorrect == Spec => []TypeOK
<1>1. Init => TypeOK
  <2> SUFFICES ASSUME Init PROVE TypeOK
    OBVIOUS
  <2>1. EmptyLedger \in Ledger /\ EmptyLedger.sequence = Len(EmptyLedger.accepted)
    BY ZeroIsBreakdown DEF EmptyLedger, Ledger
  <2> QED BY <2>1 DEF Init, TypeOK
<1>2. TypeOK /\ [Next]_vars => TypeOK'
  <2> SUFFICES ASSUME TypeOK, [Next]_vars PROVE TypeOK'
    OBVIOUS
  <2>0. served \in Seq(Request) /\ base \in 0 .. Len(served)
    BY DEF TypeOK
  <2>1. CASE ServeRequest
    <3>1. PICK u \in Lasts :
            served' = Append(served, [last |-> u, total |-> Plus(RunningTotal, u)])
      BY <2>1 DEF ServeRequest
    <3>2. u \in UsageBreakdown
      BY LastsAssumption
    <3>3. [last |-> u, total |-> Plus(RunningTotal, u)] \in Request
      BY <3>2, RunningTotalIsTyped, PlusIsBreakdown DEF Request
    <3>4. served' \in Seq(Request) /\ Len(served') = Len(served) + 1
      BY <2>0, <3>1, <3>3
    <3> QED BY <2>0, <2>1, <3>4 DEF ServeRequest, TypeOK
  <2>2. CASE ResetCounters
    BY <2>0, <2>2 DEF ResetCounters, TypeOK
  <2>3. CASE Deliver
    <3>1. PICK j \in 1 .. Len(served) : Consume(served[j].last, served[j].total)
      BY <2>3 DEF Deliver
    <3>2. /\ ledger' \in Ledger
          /\ ledger'.sequence = Len(ledger'.accepted)
          /\ status' \in {"open", "failed", "closed"}
      BY <3>1, ServedIsTyped, BreakdownIsRaw, ConsumeKeepsType
    <3> QED BY <2>0, <2>3, <3>1, <3>2 DEF Deliver, TypeOK
  <2>4. CASE DeliverMalformed
    <3>1. PICK j \in 1 .. Len(served), raw \in MalformedRaws :
            \/ Consume(raw, served[j].total)
            \/ Consume(served[j].last, raw)
      BY <2>4 DEF DeliverMalformed
    <3>2. /\ \A f \in Fields \cap DOMAIN raw : raw[f] \in Int
          /\ \A f \in Fields \cap DOMAIN served[j].total : served[j].total[f] \in Int
          /\ \A f \in Fields \cap DOMAIN served[j].last : served[j].last[f] \in Int
      BY <3>1, ServedIsTyped, BreakdownIsRaw, MalformedAssumption
    <3>3. /\ ledger' \in Ledger
          /\ ledger'.sequence = Len(ledger'.accepted)
          /\ status' \in {"open", "failed", "closed"}
      BY <3>1, <3>2, ConsumeKeepsType
    <3> QED BY <2>0, <2>4, <3>3 DEF DeliverMalformed, TypeOK
  <2>5. CASE StopReading
    BY <2>5 DEF StopReading, TypeOK
  <2>6. CASE UNCHANGED vars
    BY <2>6 DEF vars, TypeOK
  <2> QED BY <2>1, <2>2, <2>3, <2>4, <2>5, <2>6 DEF Next
<1> QED BY <1>1, <1>2, PTL DEF Spec

-----------------------------------------------------------------------------
(* Serving one more request keeps the provider's side of the invariant.    *)
LEMMA ServeKeepsTotals ==
  ASSUME IInv, TypeOK', ServeRequest
  PROVE  /\ WellFormedServed'
         /\ TotalsAccumulate'
         /\ TotalsGrow'
         /\ \A i \in 1 .. Len(served) : served'[i] = served[i]
         /\ Len(served') = Len(served) + 1
<1> DEFINE m == Len(served)
           NewTotal(i) == IF i = 0 THEN Zero ELSE served'[i].total
<1>0. served \in Seq(Request) /\ m \in Nat /\ base = 0
  BY DEF IInv, TypeOK
<1>1. PICK u \in Lasts :
        served' = Append(served, [last |-> u, total |-> Plus(RunningTotal, u)])
  BY DEF ServeRequest
<1>2. u \in UsageBreakdown /\ WellFormed(u) /\ ~ IsZero(u)
  BY LastsAssumption
<1>3. /\ Len(served') = m + 1
      /\ \A i \in 1 .. m : served'[i] = served[i]
      /\ served'[m + 1] = [last |-> u, total |-> Plus(RunningTotal, u)]
  BY <1>0, <1>1
<1>4. RunningTotal = TotalAfter(m)
  BY <1>0 DEF RunningTotal, TotalAfter
<1>5. RunningTotal \in UsageBreakdown
  BY RunningTotalIsTyped DEF IInv
<1>6. WellFormed(RunningTotal)
  BY <1>0, <1>4, ZeroIsWellFormed DEF TotalAfter, IInv, WellFormedServed
<1>7. served'[m + 1].last = u /\ served'[m + 1].total = Plus(RunningTotal, u)
  BY <1>3
<1>8. WellFormedServed'
  <2> SUFFICES ASSUME NEW i \in 1 .. Len(served')
               PROVE  /\ ~ IsZero(served'[i].last)
                      /\ WellFormed(served'[i].last)
                      /\ WellFormed(served'[i].total)
    BY DEF WellFormedServed
  <2>1. CASE i = m + 1
    BY <2>1, <1>2, <1>5, <1>6, <1>7, PlusKeepsWellFormed
  <2>2. CASE i # m + 1
    <3>1. i \in 1 .. m
      BY <2>2, <1>0, <1>3
    <3> QED BY <3>1, <1>3 DEF IInv, WellFormedServed
  <2> QED BY <2>1, <2>2
<1>9. /\ \A i \in 0 .. m : NewTotal(i) = TotalAfter(i)
      /\ NewTotal(m + 1) = Plus(TotalAfter(m), u)
  BY <1>0, <1>3, <1>4, <1>7 DEF TotalAfter
<1>10. TotalsAccumulate'
  <2> SUFFICES ASSUME NEW i \in 1 .. Len(served')
               PROVE  served'[i].total = Plus(NewTotal(i - 1), served'[i].last)
    BY DEF TotalsAccumulate, TotalAfter
  <2>1. CASE i = m + 1
    BY <2>1, <1>0, <1>4, <1>7, <1>9
  <2>2. CASE i # m + 1
    <3>1. i \in 1 .. m /\ i - 1 \in 0 .. m
      BY <2>2, <1>0, <1>3
    <3> QED BY <3>1, <1>3, <1>9 DEF IInv, TotalsAccumulate
  <2> QED BY <2>1, <2>2
<1>11. TotalsGrow'
  <2> SUFFICES ASSUME NEW i \in 0 .. Len(served'), NEW j \in 0 .. Len(served'), i < j
               PROVE  Below(NewTotal(i), NewTotal(j))
    BY DEF TotalsGrow, TotalAfter, Below
  <2>0. \A k \in 0 .. m : TotalAfter(k) \in UsageBreakdown
    <3>1. \A k \in 1 .. m : served[k].total \in UsageBreakdown
      BY ServedIsTyped DEF IInv
    <3> QED BY <3>1, ZeroIsBreakdown DEF TotalAfter
  <2>1. CASE j = m + 1
    <3>1. i \in 0 .. m /\ m \in 0 .. m
      BY <2>1, <1>0, <1>3
    <3>2. Below(TotalAfter(m), Plus(TotalAfter(m), u))
      BY <3>1, <2>0, <1>2, PlusGrows
    <3>3. CASE i = m
      BY <3>1, <3>2, <3>3, <2>1, <1>9
    <3>4. CASE i # m
      <4>1. Below(TotalAfter(i), TotalAfter(m))
        BY <3>1, <3>4, <1>0 DEF IInv, TotalsGrow
      <4>2. Plus(TotalAfter(m), u) \in UsageBreakdown
        BY <2>0, <3>1, <1>2, PlusIsBreakdown
      <4>3. Below(TotalAfter(i), Plus(TotalAfter(m), u))
        BY <4>1, <4>2, <3>1, <3>2, <2>0, BelowIsTransitive
      <4> QED BY <4>3, <3>1, <2>1, <1>9
    <3> QED BY <3>3, <3>4
  <2>2. CASE j # m + 1
    <3>1. i \in 0 .. m /\ j \in 0 .. m
      BY <2>2, <1>0, <1>3
    <3> QED BY <3>1, <1>9 DEF IInv, TotalsGrow
  <2> QED BY <2>1, <2>2
<1> QED BY <1>3, <1>8, <1>10, <1>11

(* A delivery either leaves the records alone or appends the next request. *)
LEMMA DeliverKeepsPrefix ==
  ASSUME IInv, TypeOK', NEW j \in 1 .. Len(served),
         Consume(served[j].last, served[j].total), UNCHANGED served
  PROVE  /\ ServedPrefix'
         /\ ledger'.total = TotalAfter(Len(ledger'.accepted))
<1> DEFINE n == Len(ledger.accepted)
<1>1. CASE NotificationVerdict(ledger, served[j].last, served[j].total) = "advance"
  <2>1. j = n + 1 /\ ledger' = Advance(ledger, FromAppServer(served[j].last),
                                               FromAppServer(served[j].total))
    BY <1>1, AdvanceIsNextRequest DEF Consume, AcceptNotification
  <2>2. /\ FromAppServer(served[j].last) = served[j].last
        /\ FromAppServer(served[j].total) = served[j].total
    BY ServedIsTyped, ParsedIsItself DEF IInv
  <2>3. ledger \in Ledger /\ ledger.sequence = n
    BY DEF IInv, TypeOK
  <2>4. ledger.accepted \in Seq(AcceptedUsage) /\ n \in Nat
    BY <2>3 DEF Ledger
  <2> DEFINE entry == [last |-> served[j].last, total |-> served[j].total,
                       sequence |-> n + 1]
  <2>5. /\ ledger'.accepted = Append(ledger.accepted, entry)
        /\ ledger'.total = served[j].total
    BY <2>1, <2>2, <2>3 DEF Advance
  <2>6. /\ Len(ledger'.accepted) = n + 1
        /\ \A i \in 1 .. n : ledger'.accepted[i] = ledger.accepted[i]
        /\ ledger'.accepted[n + 1] = entry
    BY <2>4, <2>5
  <2>7. \A i \in 1 .. n + 1 :
          /\ ledger'.accepted[i].last = served[i].last
          /\ ledger'.accepted[i].total = served[i].total
          /\ ledger'.accepted[i].sequence = i
    <3> TAKE i \in 1 .. n + 1
    <3>1. CASE i = n + 1
      BY <3>1, <2>1, <2>6
    <3>2. CASE i # n + 1
      <4>1. i \in 1 .. n
        BY <3>2, <2>4
      <4>2. ledger'.accepted[i] = ledger.accepted[i]
        BY <4>1, <2>6
      <4> QED BY <4>1, <4>2 DEF IInv, ServedPrefix
    <3> QED BY <3>1, <3>2
  <2>8. n + 1 <= Len(served)
    BY <2>1
  <2>9. ServedPrefix'
    BY <2>6, <2>7, <2>8 DEF ServedPrefix
  <2>10. TotalAfter(n + 1) = served[n + 1].total
    BY <2>4 DEF TotalAfter
  <2>11. ledger'.total = served[n + 1].total
    BY <2>1, <2>5
  <2> QED BY <2>6, <2>9, <2>10, <2>11
<1>2. CASE NotificationVerdict(ledger, served[j].last, served[j].total) # "advance"
  BY <1>2 DEF Consume, AcceptNotification, IInv, ServedPrefix
<1> QED BY <1>1, <1>2

LEMMA MalformedIsIgnored ==
  ASSUME NEW rawLast, NEW rawTotal, Consume(rawLast, rawTotal),
         ~ WellFormed(rawLast) \/ ~ WellFormed(rawTotal)
  PROVE  ledger' = ledger /\ status' = "failed"
BY DEF Consume, AcceptNotification, NotificationVerdict

LEMMA InitEstablishesIInv == Init => IInv
<1> SUFFICES ASSUME Init PROVE IInv
  OBVIOUS
<1>1. EmptyLedger \in Ledger /\ EmptyLedger.sequence = Len(EmptyLedger.accepted)
  BY ZeroIsBreakdown DEF EmptyLedger, Ledger
<1>2. TypeOK
  BY <1>1 DEF Init, TypeOK
<1>3. Len(served) = 0 /\ Len(ledger.accepted) = 0 /\ ledger.total = Zero
  BY DEF Init, EmptyLedger
<1> QED BY <1>2, <1>3 DEF Init, IInv, WellFormedServed, TotalsAccumulate,
             TotalsGrow, ServedPrefix, TotalAfter

LEMMA NextKeepsIInv ==
  ASSUME IInv, TypeOK', base' = 0, [Next]_vars
  PROVE  IInv'
<1>0. Len(served) \in Nat /\ Len(ledger.accepted) \in Nat
      /\ Len(ledger.accepted) <= Len(served)
  BY DEF IInv, TypeOK, Ledger, ServedPrefix
<1>1. CASE ServeRequest
  <2>1. /\ WellFormedServed' /\ TotalsAccumulate' /\ TotalsGrow'
        /\ \A i \in 1 .. Len(served) : served'[i] = served[i]
        /\ Len(served') = Len(served) + 1
    BY <1>1, ServeKeepsTotals
  <2>2. ledger' = ledger /\ base' = base
    BY <1>1 DEF ServeRequest
  <2>3. ServedPrefix'
    BY <1>0, <2>1, <2>2 DEF IInv, ServedPrefix
  <2>4. ledger'.total = TotalAfter(Len(ledger.accepted))'
    BY <1>0, <2>1, <2>2 DEF IInv, TotalAfter
  <2> QED BY <2>1, <2>2, <2>3, <2>4 DEF IInv
<1>2. CASE ResetCounters
  <2>1. served' = served /\ ledger' = ledger
    BY <1>2 DEF ResetCounters
  <2> QED BY <2>1 DEF IInv, WellFormedServed, TotalsAccumulate, TotalsGrow,
               TotalAfter, ServedPrefix
<1>3. CASE Deliver
  <2>1. PICK j \in 1 .. Len(served) : Consume(served[j].last, served[j].total)
    BY <1>3 DEF Deliver
  <2>2. served' = served /\ base' = base
    BY <1>3 DEF Deliver
  <2>3. /\ ServedPrefix'
        /\ ledger'.total = TotalAfter(Len(ledger'.accepted))
    BY <2>1, <2>2, DeliverKeepsPrefix
  <2> QED BY <2>2, <2>3 DEF IInv, WellFormedServed, TotalsAccumulate, TotalsGrow,
               TotalAfter
<1>4. CASE DeliverMalformed
  <2>1. PICK j \in 1 .. Len(served), raw \in MalformedRaws :
          Consume(raw, served[j].total) \/ Consume(served[j].last, raw)
    BY <1>4 DEF DeliverMalformed
  <2>2. ~ WellFormed(raw)
    BY MalformedAssumption
  <2>3. ledger' = ledger
    BY <2>1, <2>2, MalformedIsIgnored
  <2>4. served' = served /\ base' = base
    BY <1>4 DEF DeliverMalformed
  <2> QED BY <2>3, <2>4 DEF IInv, WellFormedServed, TotalsAccumulate, TotalsGrow,
               TotalAfter, ServedPrefix
<1>5. CASE StopReading \/ UNCHANGED vars
  <2>1. served' = served /\ base' = base /\ ledger' = ledger
    BY <1>5 DEF StopReading, vars
  <2> QED BY <2>1 DEF IInv, WellFormedServed, TotalsAccumulate, TotalsGrow,
               TotalAfter, ServedPrefix
<1> QED BY <1>1, <1>2, <1>3, <1>4, <1>5 DEF Next

LEMMA ResetsStay ==
  ASSUME TypeOK, [Next]_vars, base' = 0
  PROVE  base = 0
<1>1. CASE ResetCounters
  BY <1>1 DEF ResetCounters
<1>2. CASE ~ ResetCounters
  BY <1>2 DEF Next, vars, ServeRequest, Deliver, DeliverMalformed, StopReading
<1> QED BY <1>1, <1>2

LEMMA InvariantHolds == Spec => [](base = 0 => IInv)
<1> DEFINE Inv == base = 0 => IInv
<1>1. Init => Inv
  BY InitEstablishesIInv
<1>2. Inv /\ TypeOK /\ TypeOK' /\ [Next]_vars => Inv'
  BY NextKeepsIInv, ResetsStay
<1> QED BY <1>1, <1>2, TypeCorrect, PTL DEF Spec

(* Until the provider resets its counters, the ledger's records are the    *)
(* first requests served, in order and with their totals.                  *)
THEOREM AttributionIsExact == Spec => []AcceptedIsServedPrefix
<1>1. (base = 0 => IInv) => AcceptedIsServedPrefix
  BY DEF IInv, AcceptedIsServedPrefix
<1> QED BY <1>1, InvariantHolds, PTL

-----------------------------------------------------------------------------
(* What is next in order is accepted, and a repetition of what was         *)
(* accepted last is ignored.                                               *)
LEMMA NextIsAccepted ==
  ASSUME IInv, NEW j \in 1 .. Len(served), j = Len(ledger.accepted) + 1
  PROVE  NotificationVerdict(ledger, served[j].last, served[j].total) = "advance"
<1>1. served[j].last \in UsageBreakdown /\ ledger.total \in UsageBreakdown
  BY ServedIsTyped DEF IInv, TypeOK, Ledger
<1>2. /\ WellFormed(served[j].last) /\ WellFormed(served[j].total)
      /\ ~ IsZero(served[j].last)
  BY DEF IInv, WellFormedServed
<1>3. Len(ledger.accepted) \in Nat /\ ledger.total = TotalAfter(Len(ledger.accepted))
  BY DEF IInv, TypeOK, Ledger
<1>4. served[j].total = Plus(ledger.total, served[j].last)
  BY <1>3 DEF IInv, TotalsAccumulate
<1> QED BY <1>1, <1>2, <1>4, NextInOrderAdvances

LEMMA RepetitionIsIgnored ==
  ASSUME IInv, NEW j \in 1 .. Len(served), j = Len(ledger.accepted)
  PROVE  NotificationVerdict(ledger, served[j].last, served[j].total) = "duplicate"
<1> DEFINE last == served[j].last
           total == served[j].total
<1>1. last \in UsageBreakdown /\ total \in UsageBreakdown /\ ledger.total \in UsageBreakdown
  BY ServedIsTyped DEF IInv, TypeOK, Ledger
<1>2. WellFormed(last) /\ WellFormed(total)
  BY DEF IInv, WellFormedServed
<1>3. total = ledger.total
  BY DEF IInv, TotalAfter
<1>4. \A f \in Fields : total[f] \in Nat /\ ledger.total[f] \in Nat
  BY <1>1 DEF UsageBreakdown
<1>5. ~ MovedBackwards(total, ledger.total) /\ IsZero(Subtract(total, ledger.total))
  BY <1>3, <1>4 DEF MovedBackwards, IsZero, Subtract
<1>6. FromAppServer(last) = last /\ FromAppServer(total) = total
  BY <1>1, ParsedIsItself
<1> QED BY <1>2, <1>5, <1>6 DEF NotificationVerdict, Verdict

(* Without a reset, no notification that is next in order or a repetition  *)
(* of the last accepted one is refused: the ledger is not stricter than    *)
(* exactness requires.                                                     *)
THEOREM InOrderNeverFails == Spec => []InOrderDeliveryNeverFails
<1>1. (base = 0 => IInv) => InOrderDeliveryNeverFails
  BY NextIsAccepted, RepetitionIsIgnored DEF InOrderDeliveryNeverFails
<1> QED BY <1>1, InvariantHolds, PTL

-----------------------------------------------------------------------------
(* A step that advances the ledger appends a record whose total is the old *)
(* total plus its own usage, whatever the notification was about.          *)
LEMMA AdvanceAddsUp ==
  ASSUME NEW l \in Ledger, NEW rawLast, NEW rawTotal,
         \A f \in Fields \cap DOMAIN rawLast : rawLast[f] \in Int,
         \A f \in Fields \cap DOMAIN rawTotal : rawTotal[f] \in Int,
         NotificationVerdict(l, rawLast, rawTotal) = "advance"
  PROVE  FromAppServer(rawTotal) = Plus(l.total, FromAppServer(rawLast))
<1> DEFINE last == FromAppServer(rawLast)
           total == FromAppServer(rawTotal)
<1>1. WellFormed(rawLast) /\ WellFormed(rawTotal)
  BY DEF NotificationVerdict
<1>2. last \in UsageBreakdown /\ total \in UsageBreakdown
  BY <1>1, ParsedIsBreakdown
<1>3. l.total \in UsageBreakdown
  BY DEF Ledger
<1>4. Subtract(total, l.total) = last
  BY <1>1, AdvanceMeansDelta DEF NotificationVerdict
<1> HIDE DEF last, total
<1>5. \A f \in Fields : /\ total[f] \in Nat /\ l.total[f] \in Nat
                         /\ last[f] = total[f] - l.total[f]
  <2>1. \A f \in Fields : Subtract(total, l.total)[f] = total[f] - l.total[f]
    BY DEF Subtract
  <2>2. \A f \in Fields : last[f] = total[f] - l.total[f]
    BY <2>1, <1>4
  <2> QED BY <1>2, <1>3, <2>2 DEF UsageBreakdown
<1>6. \A f \in Fields : total[f] = l.total[f] + last[f]
  <2> TAKE f \in Fields
  <2>1. total[f] \in Nat /\ l.total[f] \in Nat
    BY <1>5
  <2>2. last[f] = total[f] - l.total[f]
    BY <1>5
  <2> QED BY <2>1, <2>2
<1>7. total = [f \in Fields |-> total[f]]
  BY <1>2 DEF UsageBreakdown
<1>8. total = Plus(l.total, last)
  BY <1>6, <1>7 DEF Plus
<1> QED BY <1>8 DEF last, total

LEMMA ConsumeAddsUp ==
  ASSUME TypeOK, AcceptedTotalsAddUp, NEW rawLast, NEW rawTotal,
         Consume(rawLast, rawTotal),
         \A f \in Fields \cap DOMAIN rawLast : rawLast[f] \in Int,
         \A f \in Fields \cap DOMAIN rawTotal : rawTotal[f] \in Int
  PROVE  AcceptedTotalsAddUp'
<1> DEFINE n == Len(ledger.accepted)
<1>0. ledger \in Ledger /\ ledger.accepted \in Seq(AcceptedUsage) /\ n \in Nat
  BY DEF TypeOK, Ledger
<1>1. CASE NotificationVerdict(ledger, rawLast, rawTotal) = "advance"
  <2> DEFINE last == FromAppServer(rawLast)
             total == FromAppServer(rawTotal)
             entry == [last |-> last, total |-> total,
                       sequence |-> ledger.sequence + 1]
  <2>1. total = Plus(ledger.total, last)
    BY <1>0, <1>1, AdvanceAddsUp
  <2>2. ledger'.total = total /\ ledger'.accepted = Append(ledger.accepted, entry)
    BY <1>1 DEF Consume, AcceptNotification, Advance
  <2>3. entry.last = last /\ entry.total = total
    OBVIOUS
  <2> HIDE DEF last, total, entry
  <2>4. /\ Len(ledger'.accepted) = n + 1
        /\ \A i \in 1 .. n : ledger'.accepted[i] = ledger.accepted[i]
        /\ ledger'.accepted[n + 1] = entry
    BY <1>0, <2>2
  <2>5. ledger.total = IF n = 0 THEN Zero ELSE ledger.accepted[n].total
    BY DEF AcceptedTotalsAddUp
  <2>6. ASSUME NEW i \in 1 .. n + 1
        PROVE  ledger'.accepted[i].total
                 = Plus(IF i - 1 = 0 THEN Zero ELSE ledger'.accepted[i - 1].total,
                        ledger'.accepted[i].last)
    <3>1. CASE i = n + 1
      <4>1. ledger.total = IF i - 1 = 0 THEN Zero ELSE ledger'.accepted[i - 1].total
        BY <3>1, <1>0, <2>4, <2>5
      <4> QED BY <3>1, <4>1, <2>1, <2>3, <2>4
    <3>2. CASE i # n + 1
      <4>1. i \in 1 .. n /\ i - 1 \in 0 .. n /\ (i - 1 = 0 \/ i - 1 \in 1 .. n)
        BY <3>2, <1>0
      <4>2. ledger.accepted[i].total
              = Plus(IF i - 1 = 0 THEN Zero ELSE ledger.accepted[i - 1].total,
                     ledger.accepted[i].last)
        BY <4>1 DEF AcceptedTotalsAddUp
      <4> QED BY <4>1, <4>2, <2>4
    <3> QED BY <3>1, <3>2
  <2>7. ledger'.total = IF n + 1 = 0 THEN Zero ELSE ledger'.accepted[n + 1].total
    BY <1>0, <2>2, <2>3, <2>4
  <2> QED BY <2>4, <2>6, <2>7 DEF AcceptedTotalsAddUp
<1>2. CASE NotificationVerdict(ledger, rawLast, rawTotal) # "advance"
  BY <1>2 DEF Consume, AcceptNotification, AcceptedTotalsAddUp
<1> QED BY <1>1, <1>2

(* The accepted records always add up to the ledger's total, even when the *)
(* provider resets its counters.                                           *)
THEOREM RecordsAddUp == Spec => []AcceptedTotalsAddUp
<1>1. Init => AcceptedTotalsAddUp
  BY DEF Init, EmptyLedger, AcceptedTotalsAddUp
<1>2. TypeOK /\ AcceptedTotalsAddUp /\ [Next]_vars => AcceptedTotalsAddUp'
  <2> SUFFICES ASSUME TypeOK, AcceptedTotalsAddUp, [Next]_vars
               PROVE  AcceptedTotalsAddUp'
    OBVIOUS
  <2>1. CASE ServeRequest \/ ResetCounters \/ StopReading \/ UNCHANGED vars
    <3>1. ledger' = ledger
      BY <2>1 DEF ServeRequest, ResetCounters, StopReading, vars
    <3> QED BY <3>1 DEF AcceptedTotalsAddUp
  <2>2. CASE Deliver
    <3>1. PICK j \in 1 .. Len(served) : Consume(served[j].last, served[j].total)
      BY <2>2 DEF Deliver
    <3> QED BY <3>1, ServedIsTyped, BreakdownIsRaw, ConsumeAddsUp
  <2>3. CASE DeliverMalformed
    <3>1. PICK j \in 1 .. Len(served), raw \in MalformedRaws :
            Consume(raw, served[j].total) \/ Consume(served[j].last, raw)
      BY <2>3 DEF DeliverMalformed
    <3>2. ledger' = ledger
      BY <3>1, MalformedAssumption, MalformedIsIgnored
    <3> QED BY <3>2 DEF AcceptedTotalsAddUp
  <2> QED BY <2>1, <2>2, <2>3 DEF Next
<1> QED BY <1>1, <1>2, TypeCorrect, PTL DEF Spec

-----------------------------------------------------------------------------
(* Refinement: every step of the ledger is a step of request attribution.  *)
LEMMA AttributedOfPrefix ==
  ASSUME IInv
  PROVE  /\ Len(Attributed) = Len(ledger.accepted)
         /\ Attributed = [i \in 1 .. Len(ledger.accepted) |->
                           [last |-> served[i].last, total |-> served[i].total]]
<1>1. Len(ledger.accepted) \in Nat
  BY DEF IInv, TypeOK, Ledger
<1>2. \A i \in 1 .. Len(ledger.accepted) :
        /\ ledger.accepted[i].last = served[i].last
        /\ ledger.accepted[i].total = served[i].total
  BY DEF IInv, ServedPrefix
<1> QED BY <1>1, <1>2 DEF Attributed

LEMMA AdvanceAttributes ==
  ASSUME IInv, IInv', served' = served,
         Len(ledger'.accepted) = Len(ledger.accepted) + 1
  PROVE  /\ Len(Attributed) < Len(served)
         /\ Attributed' = Append(Attributed, served[Len(Attributed) + 1])
<1> DEFINE n == Len(ledger.accepted)
           r(i) == [last |-> served[i].last, total |-> served[i].total]
<1>1. n \in Nat /\ Len(served) \in Nat /\ n + 1 <= Len(served)
  BY DEF IInv, TypeOK, Ledger, ServedPrefix
<1>2. \A i \in 1 .. Len(served) : r(i) = served[i]
  <2> TAKE i \in 1 .. Len(served)
  <2>1. served \in Seq(Request)
    BY DEF IInv, TypeOK
  <2>2. served[i] \in Request
    BY <2>1
  <2> QED BY <2>2 DEF Request
<1>3. Attributed = [i \in 1 .. n |-> r(i)] /\ Len(Attributed) = n
  BY AttributedOfPrefix
<1>4. Attributed' = [i \in 1 .. n + 1 |-> r(i)]
  <2>1. \A i \in 1 .. n + 1 :
          /\ ledger'.accepted[i].last = served[i].last
          /\ ledger'.accepted[i].total = served[i].total
    BY DEF IInv, ServedPrefix
  <2> QED BY <2>1 DEF Attributed
<1>5. r(n + 1) = served[n + 1]
  <2>1. n + 1 \in 1 .. Len(served)
    BY <1>1
  <2> HIDE DEF r, n
  <2> QED BY <2>1, <1>2
<1> HIDE DEF r
<1>6. Append([i \in 1 .. n |-> r(i)], r(n + 1)) = [i \in 1 .. n + 1 |-> r(i)]
  BY <1>1
<1> QED BY <1>1, <1>3, <1>4, <1>5, <1>6

(* Until the provider resets its counters, the ledger implements request   *)
(* attribution: each served request is recorded once and in order until    *)
(* the reading stops or fails.                                             *)
THEOREM LedgerAttributesInOrder == Spec => AttributesInOrder
<1> DEFINE Inv == base = 0 => IInv
<1>1. Init => Attribution!Init
  BY DEF Init, Attribution!Init, Attributed, EmptyLedger
<1>2. ASSUME IInv, IInv', TypeOK, TypeOK', [Next]_vars
      PROVE  [Attribution!Next]_(Attribution!vars)
  <2>1. CASE ServeRequest
    <3>1. PICK u \in Lasts :
            served' = Append(served, [last |-> u, total |-> Plus(RunningTotal, u)])
      BY <2>1 DEF ServeRequest
    <3>2. served \in Seq(Request) /\ served' \in Seq(Request)
      BY <1>2 DEF TypeOK
    <3>3. /\ Len(served') = Len(served) + 1
          /\ served'[Len(served')] = [last |-> u, total |-> Plus(RunningTotal, u)]
      BY <3>1, <3>2
    <3>4. served'[Len(served')] \in Request
      BY <3>2, <3>3
    <3>5. Attributed' = Attributed /\ status' = status
      BY <2>1 DEF ServeRequest, Attributed
    <3> QED BY <3>1, <3>3, <3>4, <3>5 DEF Attribution!Next, Attribution!Serve
  <2>2. CASE ResetCounters
    <3>1. served' = served /\ ledger' = ledger /\ status' = status
      BY <2>2 DEF ResetCounters
    <3> QED BY <3>1 DEF Attribution!vars, Attributed
  <2>3. CASE Deliver
    <3>1. PICK j \in 1 .. Len(served) : Consume(served[j].last, served[j].total)
      BY <2>3 DEF Deliver
    <3>2. served' = served /\ status = "open"
      BY <2>3 DEF Deliver
    <3> DEFINE verdict == NotificationVerdict(ledger, served[j].last, served[j].total)
    <3>3. CASE verdict = "advance"
      <4>1. ledger' = Advance(ledger, FromAppServer(served[j].last),
                                      FromAppServer(served[j].total))
        BY <3>1, <3>3 DEF Consume, AcceptNotification
      <4>2. Len(ledger'.accepted) = Len(ledger.accepted) + 1
        BY <4>1 DEF Advance, TypeOK, Ledger
      <4>3. status' = "open"
        BY <3>1, <3>3 DEF Consume
      <4>4. /\ Len(Attributed) < Len(served)
            /\ Attributed' = Append(Attributed, served[Len(Attributed) + 1])
        BY <4>2, <3>2, <1>2, AdvanceAttributes
      <4> QED BY <3>2, <4>3, <4>4 DEF Attribution!Next, Attribution!Attribute
    <3>4. CASE verdict # "advance"
      <4>1. ledger' = ledger /\ status' \in {"open", "failed"}
        BY <3>1, <3>4 DEF Consume, AcceptNotification
      <4> QED BY <3>2, <4>1 DEF Attribution!Next, Attribution!Stop,
                   Attribution!vars, Attributed
    <3> QED BY <3>3, <3>4
  <2>4. CASE DeliverMalformed
    <3>1. PICK j \in 1 .. Len(served), raw \in MalformedRaws :
            Consume(raw, served[j].total) \/ Consume(served[j].last, raw)
      BY <2>4 DEF DeliverMalformed
    <3>2. ledger' = ledger /\ status' = "failed"
      BY <3>1, MalformedAssumption, MalformedIsIgnored
    <3>3. served' = served /\ status = "open"
      BY <2>4 DEF DeliverMalformed
    <3> QED BY <3>2, <3>3 DEF Attribution!Next, Attribution!Stop, Attributed
  <2>5. CASE StopReading
    <3>1. served' = served /\ ledger' = ledger
          /\ status = "open" /\ status' = "closed"
      BY <2>5 DEF StopReading
    <3> QED BY <3>1 DEF Attribution!Next, Attribution!Stop, Attributed
  <2>6. CASE UNCHANGED vars
    BY <2>6 DEF vars, Attribution!vars, Attributed
  <2> QED BY <1>2, <2>1, <2>2, <2>3, <2>4, <2>5, <2>6 DEF Next
<1>3. Inv /\ Inv' /\ TypeOK /\ TypeOK' /\ [Next]_vars
        => [base' = 0 => [Attribution!Next]_(Attribution!vars)]_vars
  BY <1>2, ResetsStay
<1> QED BY <1>1, <1>3, InvariantHolds, TypeCorrect, PTL DEF Spec, AttributesInOrder
=============================================================================
