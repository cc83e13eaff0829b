--------------------------- MODULE MCIRIGBDecoder ---------------------------
(***************************************************************************)
(* Model values for IRIGBDecoder.  Four consecutive seconds across a      *)
(* year rollover, as time.localtime() may give them to the driver's        *)
(* passes, so that consecutive seconds differ in every field.              *)
(***************************************************************************)
EXTENDS IRIGBDecoder

MCTxTimes ==
    << [second |-> 57, minute |-> 59, hour |-> 23, day |-> 366, year |-> 23],
       [second |-> 58, minute |-> 59, hour |-> 23, day |-> 366, year |-> 23],
       [second |-> 59, minute |-> 59, hour |-> 23, day |-> 366, year |-> 23],
       [second |-> 0, minute |-> 0, hour |-> 0, day |-> 1, year |-> 24] >>

(***************************************************************************)
(* The channel may misbehave at every slot that carries no value bit.  A  *)
(* mismeasured value bit changes the time that is sent, which IRIG-B has  *)
(* no means to detect, so it is left out.                                  *)
(***************************************************************************)
MCFaultSlots == Slots \ ValueSlots

MCAlterWidths == {PULSE_WIDTH_0, PULSE_WIDTH_1, PULSE_WIDTH_REF, 900}
=============================================================================
