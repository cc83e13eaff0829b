---------------------------- MODULE MCIRIGBCodec ----------------------------
(***************************************************************************)
(* Model values for IRIGBCodec.  Around the spec's example 14:30:45, day  *)
(* 123, year 24, each field takes every value that differs from the       *)
(* example in one decimal digit only, and its least and greatest value.   *)
(* FromBCD sums one nibble per digit, so this generates and decodes every *)
(* value of every digit of every field; the fields use disjoint slots.    *)
(* The corrupting widths are one of each band of the main script's        *)
(* thresholds (220, 550, 880) plus one past them.                          *)
(***************************************************************************)
EXTENDS IRIGBCodec

Base == [second |-> 45, minute |-> 30, hour |-> 14, day |-> 123, year |-> 24]

\* For each field, every value one decimal digit away from Base and the
\* field's least and greatest value, in increasing order.
FieldValues ==
    [second |-> <<0, 5, 15, 25, 35, 40, 41, 42, 43, 44, 45, 46, 47, 48, 49, 55, 59>>,
     minute |-> <<0, 10, 20, 30, 31, 32, 33, 34, 35, 36, 37, 38, 39, 40, 50, 59>>,
     hour   |-> <<0, 4, 10, 11, 12, 13, 14, 15, 16, 17, 18, 19, 23>>,
     day    |-> <<1, 23, 103, 113, 120, 121, 122, 123, 124, 125, 126, 127, 128,
                  129, 133, 143, 153, 163, 173, 183, 193, 223, 323, 366>>,
     year   |-> <<0, 4, 14, 20, 21, 22, 23, 24, 25, 26, 27, 28, 29, 34, 44, 54,
                  64, 74, 84, 94, 99>>]

\* The times with field f set to each of its values in turn.
FieldSweep(f) == [i \in DOMAIN FieldValues[f] |-> [Base EXCEPT ![f] = FieldValues[f][i]]]

MCTimes == FieldSweep("second") \o FieldSweep("minute") \o FieldSweep("hour")
             \o FieldSweep("day") \o FieldSweep("year")

MCCorruptWidths == {PULSE_WIDTH_0, PULSE_WIDTH_1, PULSE_WIDTH_REF, 900}
=============================================================================
