---------------------------- MODULE MCConverter ----------------------------
EXTENDS Converter

\* Readings around zero and the freezing point, some below zero, and some that
\* lie in the middle of two readings of a coarser unit: 625 feet-readings of two
\* in metres, 500 metre-readings of two in kilometres, 2640 feet-readings and
\* 100584 metre-readings of two in miles.
MCEntries ==
  [ft |-> 0..6 \union {625, 2640, 50001},
   m  |-> 0..4 \union {-3, 500, 100584},
   km |-> {-1, 0, 1, 2, 7},
   mi |-> {-1, 0, 1, 2, 7},
   C  |-> {-177778, -1, 0, 1, 2, 3, 370000},
   F  |-> (320000..320009) \union {-4596700, -1, 0},
   K  |-> {0, 2, 2731500}]
=============================================================================
