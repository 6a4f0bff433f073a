-------------------------- MODULE ConverterProofs --------------------------
(* Proofs that a chain of conversions neither forgets a coarser reading nor   *)
(* wanders off, for every set of entries and every length of the chain.       *)
EXTENDS Converter, TLAPS

(* The inductive invariant.  A reading printed from a coarser one is at most  *)
(* half its own last decimal away; one printed from a finer reading inherits  *)
(* what that one had gathered below the next coarser unit.  Both sums stay    *)
(* below the last decimal of the next unit, which is why nothing gathers up.  *)

\* How far apart, in half pivot units, two readings of one chain can be when
\* the finer one, of the given unit, was printed after the coarser one and no
\* unit between the two is known.
Slack == [ft |-> 381, m |-> 381 + 1250, km |-> 2 * 381 + 1250 + 1250000,
          mi |-> 0, F |-> 5, C |-> 0, K |-> 0]

\* How far, in half pivot units, the coarsest reading can be from the origin.
Shift == [ft |-> 0, m |-> 1250, km |-> 381 + 1250 + 1250000,
          mi |-> 3 * 381 + 2 * 1250 + 1250000 + 2011680,
          F |-> 0, C |-> 9, K |-> 9]

LastPivot(u) == Pivot(u, last[u])

\* No known unit is of a size between those of u and the finer v.
Adjacent(u, v) ==
  /\ Grain[v] <= Grain[u]
  /\ \A w \in known : Grain[w] <= Grain[v] \/ Grain[u] <= Grain[w]

OneKind == known \subseteq Temperatures \/ known \subseteq Lengths

InHandIsFinest ==
  unit \in known /\ reading = last[unit] /\ \A u \in known : Grain[unit] <= Grain[u]

LinksAreShort ==
  \A u, v \in known : Adjacent(u, v) => Close(LastPivot(u), LastPivot(v), Slack[v])

OriginIsClose == \A c \in known : Coarsest(c) => Close(LastPivot(c), origin, Shift[c])

\* The inductive invariant behind both properties.
ChainInvariant ==
  TypeOK /\ OneKind /\ InHandIsFinest /\ LinksAreShort /\ OriginIsClose

----------------------------------------------------------------------------

\* One call moves the quantity by at most half the last decimal of the new unit.
LEMMA PrintedIsNear ==
  ASSUME NEW n \in Int, NEW d \in Nat \ {0}, NEW r \in Printed(n, d)
  PROVE  r \in Int /\ 2 * (d * r - n) <= d /\ 2 * (n - d * r) <= d
  BY DEF Printed

LEMMA PivotIsInt == ASSUME NEW u \in Units, NEW n \in Int PROVE Pivot(u, n) \in Int
  BY DEF Pivot, Units, Temperatures, Lengths, ToCelsius, MetresPer

LEMMA LengthIsNear ==
  ASSUME NEW frm \in Lengths, NEW to \in Lengths, NEW n \in Int,
         NEW r \in ConvertLength(n, frm, to)
  PROVE  r \in Int /\ Close(Pivot(to, r), Pivot(frm, n), Grain[to])
<1> DEFINE g == MetresPer[to]  q == n * MetresPer[frm]
<1>1. g \in Nat \ {0} /\ q \in Int
  BY DEF Lengths, MetresPer
<1>2. r \in Int /\ 2 * (g * r - q) <= g /\ 2 * (q - g * r) <= g
  <2>1. r \in Printed(q, g)
    BY DEF ConvertLength
  <2> HIDE DEF g, q
  <2> QED  BY <1>1, <2>1, PrintedIsNear
<1>3. g = Grain[to] /\ Pivot(to, r) = r * g /\ Pivot(frm, n) = q
  BY DEF Pivot, Temperatures, Lengths, MetresPer, Grain
<1> HIDE DEF g, q
<1>4. r * g = g * r
  BY <1>1, <1>2
<1> QED  BY <1>1, <1>2, <1>3, <1>4 DEF Close

LEMMA TemperatureIsNear ==
  ASSUME NEW frm \in Temperatures, NEW to \in Temperatures, NEW n \in Int,
         NEW r \in ConvertTemperature(n, frm, to)
  PROVE  r \in Int /\ Close(Pivot(to, r), Pivot(frm, n), Grain[to])
<1> DEFINE c == ToCelsius(frm, n)
<1>1. c \in Int /\ Pivot(frm, n) = c
  BY DEF Temperatures, ToCelsius, Pivot
<1>2. r \in FromCelsius(to, c)
  BY DEF ConvertTemperature
<1> HIDE DEF c
<1>3. CASE to = "C"
  <2>1. r \in Printed(c, 9)
    BY <1>2, <1>3 DEF FromCelsius
  <2>2. r \in Int /\ 2 * (9 * r - c) <= 9 /\ 2 * (c - 9 * r) <= 9
    BY <1>1, <2>1, PrintedIsNear
  <2> QED  BY <1>1, <1>3, <2>2 DEF Close, Pivot, Temperatures, ToCelsius, Grain
<1>4. CASE to = "F"
  <2>1. r \in Printed(c + 5 * 320000, 5)
    BY <1>2, <1>4 DEF FromCelsius
  <2>2. r \in Int /\ 2 * (5 * r - (c + 5 * 320000)) <= 5 /\ 2 * ((c + 5 * 320000) - 5 * r) <= 5
    BY <1>1, <2>1, PrintedIsNear
  <2> QED  BY <1>1, <1>4, <2>2 DEF Close, Pivot, Temperatures, ToCelsius, Grain
<1>5. CASE to = "K"
  <2>1. r \in Printed(c + 9 * 2731500, 9)
    BY <1>2, <1>5 DEF FromCelsius
  <2>2. r \in Int /\ 2 * (9 * r - (c + 9 * 2731500)) <= 9 /\ 2 * ((c + 9 * 2731500) - 9 * r) <= 9
    BY <1>1, <2>1, PrintedIsNear
  <2> QED  BY <1>1, <1>5, <2>2 DEF Close, Pivot, Temperatures, ToCelsius, Grain
<1> QED  BY <1>3, <1>4, <1>5 DEF Temperatures

----------------------------------------------------------------------------
(* The invariant written out for lengths, about the pivots p of the readings. *)

LengthLinks(K, p) ==
  /\ {"ft", "m"} \subseteq K => Close(p["m"], p["ft"], 381)
  /\ {"ft", "km"} \subseteq K /\ "m" \notin K => Close(p["km"], p["ft"], 381)
  /\ {"ft", "mi"} \subseteq K /\ "m" \notin K /\ "km" \notin K => Close(p["mi"], p["ft"], 381)
  /\ {"m", "km"} \subseteq K => Close(p["km"], p["m"], 1631)
  /\ {"m", "mi"} \subseteq K /\ "km" \notin K => Close(p["mi"], p["m"], 1631)
  /\ {"km", "mi"} \subseteq K => Close(p["mi"], p["km"], 1252012)

LengthOrigin(K, p, o) ==
  /\ "mi" \in K => Close(p["mi"], o, 3265323)
  /\ "km" \in K /\ "mi" \notin K => Close(p["km"], o, 1251631)
  /\ "m" \in K /\ "mi" \notin K /\ "km" \notin K => Close(p["m"], o, 1250)
  /\ "ft" \in K /\ "mi" \notin K /\ "km" \notin K /\ "m" \notin K => Close(p["ft"], o, 0)

LEMMA LengthChain ==
  TypeOK /\ known \subseteq Lengths =>
    ((LinksAreShort /\ OriginIsClose)
       <=> (LengthLinks(known, [u \in Lengths |-> LastPivot(u)])
             /\ LengthOrigin(known, [u \in Lengths |-> LastPivot(u)], origin)))
<1> SUFFICES ASSUME TypeOK, known \subseteq Lengths
    PROVE  (LinksAreShort /\ OriginIsClose)
             <=> (LengthLinks(known, [u \in Lengths |-> LastPivot(u)])
                   /\ LengthOrigin(known, [u \in Lengths |-> LastPivot(u)], origin))
  OBVIOUS
<1> DEFINE p == [u \in Lengths |-> LastPivot(u)]
<1>1. p \in [Lengths -> Int] /\ \A u \in Lengths : LastPivot(u) = p[u]
  BY PivotIsInt DEF TypeOK, LastPivot, Units
<1> HIDE DEF p
<1>2. LinksAreShort <=> LengthLinks(known, p)
  BY <1>1 DEF LinksAreShort, LengthLinks, Adjacent, Close, Grain, Slack, Lengths
<1>3. OriginIsClose <=> LengthOrigin(known, p, origin)
  BY <1>1 DEF OriginIsClose, LengthOrigin, Coarsest, Close, Grain, Shift, Lengths, TypeOK
<1> QED  BY <1>2, <1>3 DEF p

\* A call that prints a quantity q in the unit to, near the quantity in hand,
\* keeps the links; a unit that was known gets the quantity it had.
LEMMA LengthStep ==
  ASSUME NEW K \in SUBSET Lengths, NEW p \in [Lengths -> Int], NEW u \in K,
         NEW to \in Lengths, NEW q \in Int, NEW o \in Int,
         \A v \in K : Grain[u] <= Grain[v],
         LengthLinks(K, p), LengthOrigin(K, p, o), Close(q, p[u], Grain[to])
  PROVE  /\ to \in K => 2 * (q - p[to]) < 2 * Grain[to] /\ 2 * (p[to] - q) < 2 * Grain[to]
         /\ (to \in K => q = p[to]) =>
              LET L == {v \in K : Grain[v] >= Grain[to]} \union {to}
                  r == [p EXCEPT ![to] = q]
              IN  LengthLinks(L, r) /\ LengthOrigin(L, r, o)
<1> DEFINE L == {v \in K : Grain[v] >= Grain[to]} \union {to}
           r == [p EXCEPT ![to] = q]
<1>1. to \in K => 2 * (q - p[to]) < 2 * Grain[to] /\ 2 * (p[to] - q) < 2 * Grain[to]
  BY DEF LengthLinks, Close, Grain, Lengths
<1>2. ASSUME to \in K => q = p[to]
      PROVE  LengthLinks(L, r)
  BY <1>2 DEF LengthLinks, Close, Grain, Lengths
<1>3. ASSUME to \in K => q = p[to]
      PROVE  LengthOrigin(L, r, o)
  BY <1>3 DEF LengthLinks, LengthOrigin, Close, Grain, Lengths
<1> QED  BY <1>1, <1>2, <1>3

LEMMA MainLengthKeeps ==
  ASSUME ChainInvariant, NEW to \in Lengths, MainLength(to)
  PROVE  ChainInvariant' /\ (to \in known => reading' = last[to])
<1> DEFINE P == [u \in Lengths |-> LastPivot(u)]
<1>1. PICK r \in ConvertLength(reading, unit, to) : Print4(to, r)
  BY DEF MainLength
<1>2. unit \in Lengths /\ reading \in Int /\ known \subseteq Lengths
  BY DEF MainLength, ChainInvariant, OneKind, InHandIsFinest, TypeOK, Temperatures, Lengths
<1> DEFINE q == Pivot(to, r)
<1>3. r \in Int /\ q \in Int /\ Close(q, P[unit], Grain[to])
  <2>1. r \in Int /\ Close(q, Pivot(unit, reading), Grain[to])
    BY <1>1, <1>2, LengthIsNear
  <2>2. q \in Int
    BY <2>1, PivotIsInt DEF Units
  <2>3. P[unit] = Pivot(unit, reading)
    BY <1>2 DEF ChainInvariant, InHandIsFinest, LastPivot
  <2> QED  BY <2>1, <2>2, <2>3
<1>4. P \in [Lengths -> Int]
  BY PivotIsInt DEF ChainInvariant, TypeOK, LastPivot, Units
<1>5. LengthLinks(known, P) /\ LengthOrigin(known, P, origin)
  BY <1>2, LengthChain DEF ChainInvariant
<1>6. TypeOK' /\ known' \subseteq Lengths
  BY <1>1, <1>2, <1>3 DEF ChainInvariant, TypeOK, Print4, Units
<1>7. P' = [P EXCEPT ![to] = q]
  <2>1. \A u \in Lengths : LastPivot(u)' = IF u = to THEN q ELSE LastPivot(u)
    BY <1>1, <1>3 DEF Print4, LastPivot, ChainInvariant, TypeOK, Units
  <2> QED  BY <2>1
<1>8. to \in known => r = last[to]
  <2> SUFFICES ASSUME to \in known PROVE r = last[to]
    OBVIOUS
  <2>1. 2 * (q - P[to]) < 2 * Grain[to] /\ 2 * (P[to] - q) < 2 * Grain[to]
    <3> HIDE DEF P, q
    <3> QED  BY <1>2, <1>3, <1>4, <1>5, LengthStep DEF ChainInvariant, InHandIsFinest, TypeOK
  <2>2. P[to] = last[to] * Grain[to] /\ q = r * Grain[to] /\ last[to] \in Int
    BY DEF LastPivot, Pivot, Temperatures, Lengths, MetresPer, Grain, ChainInvariant, TypeOK, Units
  <2> HIDE DEF P, q
  <2> QED  BY <1>3, <2>1, <2>2 DEF Lengths, Grain
<1>9. to \in known => q = P[to]
  BY <1>8 DEF LastPivot
<1>10. LengthLinks(known', P') /\ LengthOrigin(known', P', origin')
  <2>1. known' = {v \in known : Grain[v] >= Grain[to]} \union {to} /\ origin' = origin
    BY <1>1 DEF Print4
  <2> HIDE DEF P, q
  <2> QED  BY <1>2, <1>3, <1>4, <1>5, <1>7, <1>9, <2>1, LengthStep
             DEF ChainInvariant, InHandIsFinest, TypeOK
<1>11. (LinksAreShort /\ OriginIsClose)'
  <2>1. (LengthLinks(known, P) /\ LengthOrigin(known, P, origin))'
    BY <1>10
  <2>2. (TypeOK /\ known \subseteq Lengths)'
    BY <1>6
  <2> QED  BY <2>1, <2>2, LengthChain, PTL
<1>12. InHandIsFinest'
  BY <1>1, <1>2 DEF InHandIsFinest, Print4, ChainInvariant, TypeOK, Units, Grain, Lengths
<1> QED  BY <1>1, <1>6, <1>8, <1>11, <1>12 DEF ChainInvariant, OneKind, Print4

----------------------------------------------------------------------------
(* The same for temperatures, of which Celsius and Kelvin share their grid.   *)

LEMMA MainTemperatureKeeps ==
  ASSUME ChainInvariant, NEW to \in Temperatures, MainTemperature(to)
  PROVE  ChainInvariant' /\ (to \in known => reading' = last[to])
<1>1. PICK r \in ConvertTemperature(reading, unit, to) : Print4(to, r)
  BY DEF MainTemperature
<1>2. unit \in Temperatures /\ reading \in Int /\ known \subseteq Temperatures /\ origin \in Int
  BY DEF MainTemperature, ChainInvariant, OneKind, InHandIsFinest, TypeOK, Temperatures, Lengths
<1>3. r \in Int /\ Close(Pivot(to, r), LastPivot(unit), Grain[to])
  BY <1>1, <1>2, TemperatureIsNear DEF ChainInvariant, InHandIsFinest, LastPivot
<1>4. /\ Pivot("C", last["C"]) = 9 * last["C"] /\ last["C"] \in Int
      /\ Pivot("F", last["F"]) = 5 * (last["F"] - 320000) /\ last["F"] \in Int
      /\ Pivot("K", last["K"]) = 9 * (last["K"] - 2731500) /\ last["K"] \in Int
  BY DEF Pivot, Temperatures, ToCelsius, ChainInvariant, TypeOK, Units
<1>5. /\ to = "C" => Pivot(to, r) = 9 * r
      /\ to = "F" => Pivot(to, r) = 5 * (r - 320000)
      /\ to = "K" => Pivot(to, r) = 9 * (r - 2731500)
  BY DEF Pivot, Temperatures, ToCelsius
<1>6. TypeOK' /\ known' \subseteq Temperatures
  BY <1>1, <1>2, <1>3 DEF ChainInvariant, TypeOK, Print4, Units
<1>7. \A u \in Temperatures : LastPivot(u)' = IF u = to THEN Pivot(to, r) ELSE LastPivot(u)
  BY <1>1, <1>3 DEF Print4, LastPivot, ChainInvariant, TypeOK, Units
<1>8. known' = {v \in known : Grain[v] >= Grain[to]} \union {to} /\ origin' = origin
  BY <1>1 DEF Print4
<1>9. LinksAreShort /\ OriginIsClose /\ InHandIsFinest
  BY DEF ChainInvariant
<1>10. to \in known => r = last[to]
  BY <1>2, <1>3, <1>4, <1>5, <1>9
     DEF LinksAreShort, InHandIsFinest, Adjacent, Close, Grain, Slack, LastPivot, Temperatures
<1>11. LinksAreShort'
  BY <1>2, <1>3, <1>4, <1>5, <1>7, <1>8, <1>9, <1>10
     DEF LinksAreShort, InHandIsFinest, Adjacent, Close, Grain, Slack, LastPivot, Temperatures
<1>12. OriginIsClose'
  BY <1>2, <1>3, <1>4, <1>5, <1>7, <1>8, <1>9, <1>10
     DEF LinksAreShort, OriginIsClose, InHandIsFinest, Adjacent, Coarsest, Close, Grain, Slack, Shift,
         LastPivot, Temperatures
<1>13. InHandIsFinest'
  BY <1>1, <1>2 DEF InHandIsFinest, Print4, ChainInvariant, TypeOK, Units, Grain, Temperatures
<1> QED  BY <1>1, <1>6, <1>10, <1>11, <1>12, <1>13 DEF ChainInvariant, OneKind, Print4

----------------------------------------------------------------------------

LEMMA InitHolds == Init => ChainInvariant
<1> SUFFICES ASSUME Init PROVE ChainInvariant
  OBVIOUS
<1>1. unit \in Units /\ reading \in Int
  BY EntriesAssumption DEF EntriesAssumption, Init
<1>2. TypeOK /\ known = {unit} /\ LastPivot(unit) = origin /\ origin \in Int
  BY <1>1, PivotIsInt DEF Init, TypeOK, LastPivot
<1>3. InHandIsFinest /\ OneKind
  BY <1>1, <1>2 DEF InHandIsFinest, OneKind, Init, Units, Grain, Temperatures, Lengths
<1>4. LinksAreShort /\ OriginIsClose
  BY <1>1, <1>2 DEF LinksAreShort, OriginIsClose, Close, Slack, Shift, Units, Temperatures, Lengths
<1> QED  BY <1>2, <1>3, <1>4 DEF ChainInvariant

LEMMA StepKeeps ==
  ChainInvariant /\ [Next]_vars
    => ChainInvariant' /\ \A u \in known : unit' = u /\ Next => reading' = last[u]
<1> SUFFICES ASSUME ChainInvariant, [Next]_vars
    PROVE  ChainInvariant' /\ \A u \in known : unit' = u /\ Next => reading' = last[u]
  OBVIOUS
<1>1. CASE \E to \in Temperatures : MainTemperature(to)
  BY <1>1, MainTemperatureKeeps DEF MainTemperature, Print4
<1>2. CASE \E to \in Lengths : MainLength(to)
  BY <1>2, MainLengthKeeps DEF MainLength, Print4
<1>3. CASE (\E kind \in {"temp", "length", "mass"}, to \in Units \union {"parsec"} :
              MainRefuses(kind, to)) \/ UNCHANGED vars
  <2>1. UNCHANGED <<unit, reading, origin, last, known>> /\ status' \in {0, 2}
    BY <1>3 DEF MainRefuses, vars, ChainInvariant, TypeOK
  <2> QED  BY <2>1 DEF ChainInvariant, TypeOK, OneKind, InHandIsFinest, LinksAreShort,
                       OriginIsClose, Adjacent, Coarsest, LastPivot
<1> QED  BY <1>1, <1>2, <1>3 DEF Next

THEOREM InvariantHolds == Spec => []ChainInvariant
  BY InitHolds, StepKeeps, PTL DEF Spec

\* A value that comes back to a unit is the value it had there, after any number
\* of conversions none of which printed it in a coarser unit (unitconv.py 29-58).
THEOREM ComesBackUnchanged == Spec => ReturnsUnchanged
<1>1. ChainInvariant /\ [Next]_vars
        => [\A u \in known : unit' = u => reading' = last[u]]_vars
  BY StepKeeps DEF vars
<1> QED  BY <1>1, InvariantHolds, PTL DEF Spec, ReturnsUnchanged

LEMMA HandIsClose == ChainInvariant => StaysWhereItBegan
<1> SUFFICES ASSUME ChainInvariant, NEW c \in known, Coarsest(c)
    PROVE  Close(Pivot(unit, reading), origin, 3 * Grain[c])
  BY DEF StaysWhereItBegan
<1>1. Pivot(unit, reading) = LastPivot(unit) /\ origin \in Int
  BY DEF ChainInvariant, InHandIsFinest, LastPivot, TypeOK
<1>2. CASE known \subseteq Lengths
  <2> DEFINE P == [u \in Lengths |-> LastPivot(u)]
  <2>1. P \in [Lengths -> Int] /\ \A u \in Lengths : LastPivot(u) = P[u]
    BY PivotIsInt DEF ChainInvariant, TypeOK, LastPivot, Units
  <2>2. LengthLinks(known, P) /\ LengthOrigin(known, P, origin)
    BY <1>2, LengthChain DEF ChainInvariant
  <2>3. unit \in known /\ \A v \in known : Grain[unit] <= Grain[v]
    BY DEF ChainInvariant, InHandIsFinest
  <2> HIDE DEF P
  <2> QED  BY <1>1, <1>2, <2>1, <2>2, <2>3
             DEF LengthLinks, LengthOrigin, Close, Coarsest, Grain, Lengths
<1>3. CASE known \subseteq Temperatures
  <2>1. \A u \in Temperatures : LastPivot(u) \in Int
    BY PivotIsInt DEF ChainInvariant, TypeOK, LastPivot, Units
  <2> QED  BY <1>1, <1>3, <2>1
             DEF ChainInvariant, InHandIsFinest, LinksAreShort, OriginIsClose, Adjacent, Coarsest,
                 Close, Grain, Slack, Shift, Temperatures
<1> QED  BY <1>2, <1>3 DEF ChainInvariant, OneKind

\* However long a chain of calls is, the quantity it holds stays within one and a
\* half last decimals of the coarsest unit on its way, from any entry.
THEOREM DriftIsBounded == Spec => []StaysWhereItBegan
  BY InvariantHolds, HandIsClose, PTL
=============================================================================
