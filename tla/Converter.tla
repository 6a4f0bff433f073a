----------------------------- MODULE Converter -----------------------------
(* The unit converter (unitconv.py), used the way a shell script uses a       *)
(* command: the line one call prints is the value of the next call.           *)
(*                                                                            *)
(* The functions compute in floating point, the program prints four decimals, *)
(* so a chain of calls walks over readings that are multiples of 0.0001.  A   *)
(* reading is the number of those multiples.  The conversion is computed      *)
(* exactly here: up to 100000 units its error in double precision is smaller  *)
(* than the distance of the exact result from the middle of two readings,     *)
(* unless it lies in the middle, where either neighbour may be printed.       *)
EXTENDS Integers

CONSTANT Entries     \* for each unit, the readings a chain may begin with

VARIABLES
  unit,      \* the unit of the value in hand
  reading,   \* the value in hand, as it was entered or printed
  status,    \* the exit status of the last call
  \* history, which the program does not keep:
  origin,    \* the quantity the chain began with, in the pivot unit
  last,      \* what was last entered or printed in each unit
  known      \* the units in hand since a coarser one was printed

vars == <<unit, reading, status, origin, last, known>>

Temperatures == {"C", "F", "K"}

Lengths == {"m", "km", "ft", "mi"}

Units == Temperatures \union Lengths

EntriesAssumption == Entries \in [Units -> SUBSET Int]
ASSUME EntriesAssumption

----------------------------------------------------------------------------
(* The two tables.  A temperature in the pivot unit is counted in ninths of   *)
(* 0.0001 degrees Celsius, a length in 0.00000008 metres, so that every       *)
(* reading is a whole number of them.                                         *)

\* Fahrenheit taken to begin where Celsius does.
ToCelsiusNoOffset(frm, t) ==
  CASE frm = "C" -> 9 * t
    [] frm = "F" -> 5 * t
    [] frm = "K" -> 9 * (t - 2731500)

ToCelsius(frm, t) ==
  CASE frm = "C" -> 9 * t
    [] frm = "F" -> 5 * (t - 320000)
    [] frm = "K" -> 9 * (t - 2731500)

MetresPer == [m |-> 1250, km |-> 1250000, ft |-> 381, mi |-> 2011680]

\* The printed form of the quotient n / d cut off after four decimals.
PrintedDown(n, d) == {n \div d}

\* The printed form of the quotient n / d: the nearest reading, either of the
\* two when they are equally near.
Printed(n, d) ==
  {r \in {n \div d, n \div d + 1} : 2 * (d * r - n) <= d /\ 2 * (n - d * r) <= d}

FromCelsius(to, c) ==
  CASE to = "C" -> Printed(c, 9)
    [] to = "F" -> Printed(c + 5 * 320000, 5)
    [] to = "K" -> Printed(c + 9 * 2731500, 9)

ConvertTemperature(value, frm, to) == FromCelsius(to, ToCelsius(frm, value))

ConvertLength(value, frm, to) ==
  Printed(value * MetresPer[frm], MetresPer[to])

\* The quantity a reading stands for, and the distance of two readings, in
\* pivot units.
Pivot(u, n) == IF u \in Temperatures THEN ToCelsius(u, n) ELSE n * MetresPer[u]

Grain == [m |-> 1250, km |-> 1250000, ft |-> 381, mi |-> 2011680,
          C |-> 9, F |-> 5, K |-> 9]

----------------------------------------------------------------------------

Init ==
  /\ unit \in Units
  /\ reading \in Entries[unit]
  /\ status = 0
  /\ origin = Pivot(unit, reading)
  /\ last = [u \in Units |-> IF u = unit THEN reading ELSE 0]
  /\ known = {unit}

\* A call prints r and ends with status 0; the caller goes on with r.
Print4(to, r) ==
  /\ unit' = to
  /\ reading' = r
  /\ status' = 0
  /\ last' = [last EXCEPT ![to] = r]
  /\ known' = {u \in known : Grain[u] >= Grain[to]} \union {to}
  /\ UNCHANGED origin

MainTemperature(to) ==
  /\ unit \in Temperatures /\ to \in Temperatures
  /\ \E r \in ConvertTemperature(reading, unit, to) : Print4(to, r)

MainLength(to) ==
  /\ unit \in Lengths /\ to \in Lengths
  /\ \E r \in ConvertLength(reading, unit, to) : Print4(to, r)

\* A kind the parser does not offer, or a ValueError: one of the two units is not
\* in the table of the kind.  Nothing is printed, and the caller still has the
\* old value.
MainRefuses(kind, to) ==
  /\ kind = "temp" => {unit, to} \intersect Temperatures # {unit, to}
  /\ kind = "length" => {unit, to} \intersect Lengths # {unit, to}
  /\ status' = 2
  /\ UNCHANGED <<unit, reading, origin, last, known>>

Next ==
  \/ \E to \in Temperatures : MainTemperature(to)
  \/ \E to \in Lengths : MainLength(to)
  \/ \E kind \in {"temp", "length", "mass"}, to \in Units \union {"parsec"} :
       MainRefuses(kind, to)

Spec == Init /\ [][Next]_vars

----------------------------------------------------------------------------
(* Properties *)

TypeOK ==
  /\ unit \in Units
  /\ reading \in Int
  /\ status \in {0, 2}
  /\ origin \in Int
  /\ last \in [Units -> Int]
  /\ known \in SUBSET Units

Close(p, q, bound) == 2 * (p - q) <= bound /\ 2 * (q - p) <= bound

Coarsest(u) == \A w \in known : Grain[w] <= Grain[u]

\* However many conversions lie between, a value that comes back to a unit is
\* printed as it was printed there before, unless it went through a unit whose
\* four decimals are coarser: a quantity in miles may go through kilometres,
\* feet and metres, back and forth, and is the same number of miles again.
ReturnsUnchanged ==
  [][\A u \in known : unit' = u => reading' = last[u]]_vars

\* A chain of any length does not wander off: it stays within one and a half
\* times the coarsest last decimal it went through, of where it began.
StaysWhereItBegan ==
  \A c \in known : Coarsest(c) => Close(Pivot(unit, reading), origin, 3 * Grain[c])
=============================================================================
