----------------------------- MODULE IRIGBCodec -----------------------------
(***************************************************************************)
(* One IRIG-B second end to end, without the streaming buffers: the test   *)
(* driver of src/tests/le_IRIGB.py generates the pulse widths of a time    *)
(* (generate_irigb_signal), may overwrite one slot as it does on pass 3    *)
(* ("Inserting invalid frame"), and the widths are classified by           *)
(* DecodeFrame and decoded by DecodeFrames.                                *)
(***************************************************************************)
EXTENDS IRIGBFrame, Sequences

CONSTANTS
    Times,          \* the times time.localtime() returns on successive passes
    CorruptWidths,  \* the widths the driver may write over one slot
    TimerFreq,      \* irig_timer_freq of the decoder
    TolPct          \* irig_frame_tolerance, in percent

ASSUME TimerFreq \in Nat \ {0} /\ TolPct \in Nat

ASSUME Times \in Seq([TimeFields -> Nat]) /\ Times # <<>>

VARIABLES
    pass, \* the pass j of the driver's loop, as an index into Times
    hit   \* the slots overwritten in irigb_signal, with their widths

vars == <<pass, hit>>

\* current_time of the driver's loop
now == Times[pass]

Thresholds == SetFrameCountTolerances(TimerFreq, TolPct)

\* The widths the decoder receives and the frame values it classifies.
Received == hit @@ generate_irigb_signal(now)
Frames == [p \in Slots |-> DecodeFrame(Received[p], Thresholds)]

Init ==
    /\ pass = 1
    /\ hit = [p \in {} |-> PULSE_WIDTH_0]

\* One pass of the driver loop: a new time and a freshly generated signal.
NewSecond ==
    /\ pass' = (pass % Len(Times)) + 1
    /\ hit' = [p \in {} |-> PULSE_WIDTH_0]

\* irigb_signal[0] = PULSE_WIDTH_0 on pass 3, for any one slot and width.
InsertInvalidFrame ==
    /\ DOMAIN hit = {}
    /\ \E p \in Slots, w \in CorruptWidths : hit' = (p :> w)
    /\ UNCHANGED pass

Next == NewSecond \/ InsertInvalidFrame

Spec == Init /\ [][Next]_vars

(***************************************************************************)
(* Round trip: an untouched second generated by the test driver decodes   *)
(* to exactly the time it was generated from (generate_irigb_signal and   *)
(* DecodeFrames agree on every slot, bit order and digit weight).          *)
(***************************************************************************)
RoundTrip == DOMAIN hit = {} => DecodeFrames(Frames) = {now}

(***************************************************************************)
(* A corrupted marker slot always rejects the second (spec section 8,     *)
(* corruption handling): DecodeFrames must not emit a time when a slot of *)
(* the table of spec section 4.3 holds anything but its required symbol.  *)
(* The table is restated here so that it does not depend on Markers.       *)
(***************************************************************************)
SpecRequired ==
    [p \in {0, 9, 19, 29, 39, 49, 59} |-> FRAME_REF]
    @@ [p \in {5, 14, 18, 24, 27, 28, 34, 54} \cup (42 .. 48) |-> BIT_0]

MarkerCorruptionRejected ==
    (\E p \in DOMAIN SpecRequired : Frames[p] # SpecRequired[p])
        => DecodeFrames(Frames) = {}

(***************************************************************************)
(* Spec section 4.3: a reference marker or an invalid pulse in a value    *)
(* slot counts as a 0 bit in FromBCD.  The code shifts the symbol's own    *)
(* integer value (10 or -1) instead.                                       *)
(***************************************************************************)
NonBitValueSlotReadAsZero ==
    \A p \in DOMAIN hit :
        (p \in ValueSlots /\ Frames[p] \in {FRAME_REF, FRAME_INVALID})
            => DecodeFrames(Frames) = DecodeFrames([Frames EXCEPT ![p] = BIT_0])
=============================================================================
