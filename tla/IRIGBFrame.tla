----------------------------- MODULE IRIGBFrame -----------------------------
(***************************************************************************)
(* The stateless parts of src/tests/le_IRIGB.py: the frame symbols, the    *)
(* pulse classifier DecodeFrame and its thresholds, the field decoder      *)
(* DecodeFrames with FromBCD, and the test signal generator                *)
(* generate_irigb_signal with to_bcd.  Symbols keep the integer values of  *)
(* le_IRIGB_Frame because FromBCD does arithmetic on them.                 *)
(***************************************************************************)
EXTENDS Integers, Functions, TLC

SIGNAL_LEN == 100
Slots == 0 .. SIGNAL_LEN - 1

BIT_0 == 0
BIT_1 == 1
FRAME_REF == 10
FRAME_INVALID == -1
FrameValues == {BIT_0, BIT_1, FRAME_REF, FRAME_INVALID}

\* Pulse widths written by the test generator, in timer ticks.
PULSE_WIDTH_0 == 200
PULSE_WIDTH_1 == 500
PULSE_WIDTH_REF == 800

(***************************************************************************)
(* SetFrameCountTolerances: int(0.00k * freq * (1.0 + tolerance)).  The   *)
(* tolerance is given in percent, so the product is the exact rational    *)
(* k * freq * (100 + pct) / 100000 and int() truncates it toward zero.     *)
(***************************************************************************)
Trunc(n, d) == IF n >= 0 THEN n \div d ELSE -((-n) \div d)

SetFrameCountTolerances(timerFreq, tolPct) ==
    [uBit0Max |-> Trunc(2 * timerFreq * (100 + tolPct), 100000),
     uBit1Max |-> Trunc(5 * timerFreq * (100 + tolPct), 100000),
     uRefMax  |-> Trunc(8 * timerFreq * (100 + tolPct), 100000)]

\* DecodeFrame: the bands are tried in order, each bound is strict.
DecodeFrame(frame, thr) ==
    IF frame < thr.uBit0Max THEN BIT_0
    ELSE IF frame < thr.uBit1Max THEN BIT_1
    ELSE IF frame < thr.uRefMax THEN FRAME_REF
    ELSE FRAME_INVALID

\* Mutant of FromBCD: the loop stops one slot early.
FromBCDShort(buffer, start, stop, multiplier) ==
    LET RECURSIVE Acc(_)
        Acc(i) == IF i >= stop THEN 0
                  ELSE buffer[i] * 2^(i - start) + Acc(i + 1)
    IN  Acc(start) * multiplier

(***************************************************************************)
(* FromBCD: tmp += buffer[i] << (i - start) for i in start..stop.  A      *)
(* Python shift of any integer, negative ones included, is a product with *)
(* a power of two.                                                          *)
(***************************************************************************)
FromBCD(buffer, start, stop, multiplier) ==
    LET RECURSIVE Acc(_)
        Acc(i) == IF i > stop THEN 0
                  ELSE buffer[i] * 2^(i - start) + Acc(i + 1)
    IN  Acc(start) * multiplier

(***************************************************************************)
(* The marker slots DecodeFrames checks, one function per field group, in *)
(* the order of the checks, and the BCD digit ranges of each field.        *)
(***************************************************************************)
\* Mutant of Markers: the seconds group does not check frames[9].
MarkersNoSlot9 ==
    << (0 :> FRAME_REF) @@ (5 :> BIT_0),
       (14 :> BIT_0) @@ (18 :> BIT_0) @@ (19 :> FRAME_REF),
       (24 :> BIT_0) @@ (27 :> BIT_0) @@ (28 :> BIT_0) @@ (29 :> FRAME_REF),
       (34 :> BIT_0) @@ (39 :> FRAME_REF) @@ [p \in 42 .. 48 |-> BIT_0]
                     @@ (49 :> FRAME_REF),
       (54 :> BIT_0) @@ (59 :> FRAME_REF) >>

Markers ==
    << (0 :> FRAME_REF) @@ (5 :> BIT_0) @@ (9 :> FRAME_REF),
       (14 :> BIT_0) @@ (18 :> BIT_0) @@ (19 :> FRAME_REF),
       (24 :> BIT_0) @@ (27 :> BIT_0) @@ (28 :> BIT_0) @@ (29 :> FRAME_REF),
       (34 :> BIT_0) @@ (39 :> FRAME_REF) @@ [p \in 42 .. 48 |-> BIT_0]
                     @@ (49 :> FRAME_REF),
       (54 :> BIT_0) @@ (59 :> FRAME_REF) >>


GroupOK(frames, g) == \A p \in DOMAIN Markers[g] : frames[p] = Markers[g][p]

(***************************************************************************)
(* DecodeFrames: the set of decoded times, empty when a marker check fails *)
(* (the code then calls InvalidateIRIG and returns before Align).  A      *)
(* later group is only checked when the earlier ones passed, and nothing   *)
(* but the final Align has an effect, so the checks are one conjunction.   *)
(***************************************************************************)
DecodeFrames(frames) ==
    IF \A g \in DOMAIN Markers : GroupOK(frames, g)
    THEN {[second |-> FromBCD(frames, 1, 4, 1) + FromBCD(frames, 6, 8, 10),
           minute |-> FromBCD(frames, 10, 13, 1) + FromBCD(frames, 15, 17, 10),
           hour   |-> FromBCD(frames, 20, 23, 1) + FromBCD(frames, 25, 26, 10),
           day    |-> FromBCD(frames, 30, 33, 1) + FromBCD(frames, 35, 38, 10)
                        + FromBCD(frames, 40, 41, 100),
           year   |-> FromBCD(frames, 50, 53, 1) + FromBCD(frames, 55, 58, 10)]}
    ELSE {}

\* The value slots FromBCD reads, field by field.
ValueSlots == (1 .. 4) \cup (6 .. 8) \cup (10 .. 13) \cup (15 .. 17)
              \cup (20 .. 23) \cup (25 .. 26) \cup (30 .. 33) \cup (35 .. 38)
              \cup (40 .. 41) \cup (50 .. 53) \cup (55 .. 58)

(***************************************************************************)
(* The test generator.  to_bcd packs the decimal digits in nibbles;       *)
(* generate_irigb_signal fills every slot with PULSE_WIDTH_0, puts a       *)
(* reference at slot 0 and at 9, 19, ..., 99, and writes bit i of each    *)
(* field's BCD value to the i-th slot of that field's slot list.  A time  *)
(* record's year is already tm_year % 100.                                 *)
(***************************************************************************)
to_bcd(value) ==
    (value \div 1000) * 2^12 + ((value \div 100) % 10) * 2^8
      + ((value \div 10) % 10) * 2^4 + (value % 10)

BitOf(x, i) == (x \div 2^i) % 2

EncodedSlots ==
    [second |-> <<1, 2, 3, 4, 6, 7, 8>>,
     minute |-> <<10, 11, 12, 13, 15, 16, 17>>,
     hour   |-> <<20, 21, 22, 23, 25, 26>>,
     day    |-> <<30, 31, 32, 33, 35, 36, 37, 38, 40, 41>>,
     year   |-> <<50, 51, 52, 53, 55, 56, 57, 58>>]

\* The field and bit index each encoded slot carries.
SlotBit ==
    LET Encoded == {p \in Slots : \E f \in DOMAIN EncodedSlots : p \in Range(EncodedSlots[f])}
    IN  [p \in Encoded |->
            LET f == CHOOSE f \in DOMAIN EncodedSlots : p \in Range(EncodedSlots[f])
            IN  [field |-> f, bit |-> (CHOOSE i \in DOMAIN EncodedSlots[f] : EncodedSlots[f][i] = p) - 1]]

SlotWidth(t, p) ==
    IF p = 0 \/ p % 10 = 9 THEN PULSE_WIDTH_REF
    ELSE IF p \in DOMAIN SlotBit /\ BitOf(to_bcd(t[SlotBit[p].field]), SlotBit[p].bit) = 1
         THEN PULSE_WIDTH_1
         ELSE PULSE_WIDTH_0

generate_irigb_signal(t) == [p \in Slots |-> SlotWidth(t, p)]

\* The time record DecodeFrames produces and le_Time holds.
TimeFields == {"second", "minute", "hour", "day", "year"}
=============================================================================
