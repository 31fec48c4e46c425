--------------------------- MODULE MCLiveSources ---------------------------
(* An instance of LiveSources for TLC: the sources' times, scaled down. *)
EXTENDS LiveSources, TLC

CONSTANTS w1, w2

Lives == [forecast |-> 2, soil |-> 1, satellite |-> 1, discharge |-> 2, gauges |-> 2,
          rainfall |-> 2, altimetry |-> 0, proxy |-> 0]
Windows == [forecast |-> 0, soil |-> 3, satellite |-> 1, discharge |-> 0, gauges |-> 9,
            rainfall |-> 2, altimetry |-> 9, proxy |-> 9]
\* No image, or one of the other direction or of both directions' ages.
OldImages == {{}, {<<0 - 2, "ascending">>}, {<<0 - 1, "ascending">>, <<0 - 2, "descending">>}}
Flags == [forecast |-> 9, soil |-> 1, satellite |-> 9, discharge |-> 9, gauges |-> 9,
          rainfall |-> 2, altimetry |-> 3, proxy |-> 9]
Grades == [s \in Source |-> IF s = "altimetry" THEN 2 ELSE Flags[s]]
Sym == Permutations(Worker)
=============================================================================
