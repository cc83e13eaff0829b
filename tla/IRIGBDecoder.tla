---------------------------- MODULE IRIGBDecoder ----------------------------
(***************************************************************************)
(* The streaming IRIG-B decoder le_IRIGB of src/tests/le_IRIGB.py, with    *)
(* its le_Time clock, fed by a transmitter and a measuring channel.        *)
(*                                                                         *)
(* The transmitter sends the pulse widths of generate_irigb_signal for the *)
(* times TxTimes, one slot per step, and then keeps sending the last one, *)
(* as the driver's passes read time.localtime() within the same second.   *)
(* The channel puts each                                                    *)
(* width in the buffer the driver hands to Decode; it may lose a pulse,    *)
(* measure one twice or mismeasure one, at most MaxFaults times and only   *)
(* at the slots FaultSlots.  Decode runs the per-sample loop of le_IRIGB   *)
(* over the whole buffer.                                                   *)
(***************************************************************************)
EXTENDS IRIGBFrame, Sequences, SequencesExt, FiniteSets

CONSTANTS
    TxTimes,        \* the times the transmitter sends, second after second,
                    \* in the order time.localtime() gives them
    FirstSlot,      \* the slot of TxTimes[1] the transmitter starts with
    TimerFreq,      \* irig_timer_freq
    TolPct,         \* irig_frame_tolerance, in percent
    MaxChunk,       \* the longest buffer the driver hands to Decode
    MaxFaults,      \* how many pulses the channel may lose, double or alter
    FaultKinds,     \* a subset of {"lose", "double", "alter"}
    FaultSlots,     \* the slots at which the channel may misbehave
    AlterWidths     \* the widths a mismeasured pulse may have

ASSUME /\ TxTimes \in Seq([TimeFields -> Nat]) /\ Len(TxTimes) >= 2
       /\ FirstSlot \in Slots
       /\ MaxChunk \in Nat \ {0}
       /\ MaxFaults \in Nat
       /\ FaultKinds \subseteq {"lose", "double", "alter"}
       /\ FaultSlots \subseteq Slots

VARIABLES
    irig,     \* the fields of the le_IRIGB object, le_Time's included
    txSec,    \* how many seconds have been started, up to Len(TxTimes) + 1
    txSlot,   \* the slot being transmitted
    pending,  \* the measured widths not yet handed to Decode
    faults    \* the channel faults so far

vars == <<irig, txSec, txSlot, pending, faults>>

Thresholds == SetFrameCountTolerances(TimerFreq, TolPct)

TimeOf(t) == [second |-> t.uSecond, minute |-> t.uMinute, hour |-> t.uHour,
              day |-> t.uDay, year |-> t.uYear]

\* The time le_Time holds.
Clock == TimeOf(irig)

\* le_IRIGB.__init__, with le_Time.__init__(update_timer_freq, 0, ..., 0).
InitIRIGB ==
    [uSubSecondFraction |-> 1, uSubSecond |-> 0, uSecond |-> 0, uMinute |-> 0,
     uHour |-> 0, uDay |-> 0, uYear |-> 0,
     irigFrameIn |-> [i \in Slots |-> FRAME_INVALID],
     irigFrameOut |-> [i \in 0 .. 2 * SIGNAL_LEN - 1 |-> FRAME_INVALID],
     uSignalStart |-> -1, uFrameDecodeWrite |-> 0, uFrameWrite |-> 0,
     bValidSignal |-> FALSE, bBufferFlip |-> FALSE, iDrift |-> 0]

\* le_Time.Align: overwrite the clock, report a drift of 0.
Align(s, subSecond, t) ==
    [s EXCEPT !.uSubSecond = subSecond, !.uSecond = t.second, !.uMinute = t.minute,
              !.uHour = t.hour, !.uDay = t.day, !.uYear = t.year, !.iDrift = 0]

\* InvalidateIRIG: the resynchronisation lines are commented out.
InvalidateIRIG(s) == [s EXCEPT !.uFrameDecodeWrite = 0]

\* le_IRIGB.DecodeFrames applied to one half of the output buffer.
DecodeFramesStep(s, frames) ==
    LET decodedTimes == DecodeFrames(frames)
    IN  IF decodedTimes = {} THEN InvalidateIRIG(s)
        ELSE Align(s, 0, CHOOSE t \in decodedTimes : TRUE)

(***************************************************************************)
(* Store the classified frame; two references in a row mark the second's  *)
(* start.  The previous slot is read after the store, but it is another   *)
(* slot of the 100, so the value read is the one before the store.        *)
(***************************************************************************)
\* Mutant of AcquireStart: the start is only taken while unsynchronised.
AcquireStartOnce(s, decoded) ==
    LET last == s.irigFrameIn[(s.uFrameWrite - 1 + SIGNAL_LEN) % SIGNAL_LEN]
        found == decoded = FRAME_REF /\ last = FRAME_REF /\ ~s.bValidSignal
    IN  [s EXCEPT !.irigFrameIn[s.uFrameWrite] = decoded,
                  !.uSignalStart = IF found THEN s.uFrameWrite ELSE @,
                  !.bValidSignal = found \/ @]

AcquireStart(s, decoded) ==
    LET last == s.irigFrameIn[(s.uFrameWrite - 1 + SIGNAL_LEN) % SIGNAL_LEN]
        found == decoded = FRAME_REF /\ last = FRAME_REF
    IN  [s EXCEPT !.irigFrameIn[s.uFrameWrite] = decoded,
                  !.uSignalStart = IF found THEN s.uFrameWrite ELSE @,
                  !.bValidSignal = found \/ @]

\* The slot of the output double buffer the aligned frame goes to.
OutIndex(s) ==
    LET aligned == (s.uFrameWrite - s.uSignalStart + SIGNAL_LEN) % SIGNAL_LEN
    IN  IF s.bBufferFlip THEN aligned ELSE aligned + SIGNAL_LEN

\* Mutant of CompleteSecond: a second is taken as complete one slot early.
CompleteSecondEarly(s) ==
    IF s.uFrameDecodeWrite = SIGNAL_LEN - 2
    THEN [DecodeFramesStep(s, [i \in Slots |->
                 s.irigFrameOut[IF s.bBufferFlip THEN SIGNAL_LEN + i ELSE i]])
            EXCEPT !.bBufferFlip = ~@, !.uFrameDecodeWrite = 0]
    ELSE [s EXCEPT !.uFrameDecodeWrite = @ + 1]

\* After the 100th write, decode the half selected by bBufferFlip and flip.
CompleteSecond(s) ==
    IF s.uFrameDecodeWrite = SIGNAL_LEN - 1
    THEN [DecodeFramesStep(s, [i \in Slots |->
                 s.irigFrameOut[IF s.bBufferFlip THEN SIGNAL_LEN + i ELSE i]])
            EXCEPT !.bBufferFlip = ~@, !.uFrameDecodeWrite = 0]
    ELSE [s EXCEPT !.uFrameDecodeWrite = @ + 1]

CopyToOutput(s, decoded) ==
    IF s.bValidSignal
    THEN CompleteSecond([s EXCEPT !.irigFrameOut[OutIndex(s)] = decoded])
    ELSE s

\* Mutant of AdvanceWrite: the write cursor is not wrapped.
AdvanceWriteNoWrap(s) == [s EXCEPT !.uFrameWrite = @ + 1]

AdvanceWrite(s) == [s EXCEPT !.uFrameWrite = (@ + 1) % SIGNAL_LEN]

(***************************************************************************)
(* One iteration of the loop of le_IRIGB.Decode for the width `frame`.    *)
(***************************************************************************)
DecodeSample(s, frame) ==
    LET decoded == DecodeFrame(frame, Thresholds)
    IN  AdvanceWrite(CopyToOutput(AcquireStart(s, decoded), decoded))

\* le_IRIGB.Decode(buffer, length): the loop over the buffer, in order.
RECURSIVE DecodeBuffer(_, _)
DecodeBuffer(s, buffer) ==
    IF buffer = <<>> THEN s
    ELSE DecodeBuffer(DecodeSample(s, Head(buffer)), Tail(buffer))

----------------------------------------------------------------------------
\* The transmitter and the channel.

\* The time sent in the k-th second: after TxTimes, its last time again.
TxAt(k) == TxTimes[IF k > Len(TxTimes) THEN Len(TxTimes) ELSE k]

Width == SlotWidth(TxAt(txSec), txSlot)

NextSlot ==
    /\ txSlot' = (txSlot + 1) % SIGNAL_LEN
    /\ txSec' = IF txSlot = SIGNAL_LEN - 1 /\ txSec <= Len(TxTimes) THEN txSec + 1 ELSE txSec

Init ==
    /\ irig = InitIRIGB
    /\ txSec = 1
    /\ txSlot = FirstSlot
    /\ pending = <<>>
    /\ faults = 0

\* The pulse is measured correctly.
Transmit ==
    /\ Len(pending) < MaxChunk
    /\ pending' = Append(pending, Width)
    /\ NextSlot
    /\ UNCHANGED <<irig, faults>>

ChannelFault(kind) ==
    /\ kind \in FaultKinds
    /\ faults < MaxFaults
    /\ txSlot \in FaultSlots
    /\ faults' = faults + 1
    /\ NextSlot
    /\ UNCHANGED irig

\* The pulse is not measured at all.
LosePulse ==
    /\ ChannelFault("lose")
    /\ UNCHANGED pending

\* A glitch splits the pulse and it is measured twice.
DoublePulse ==
    /\ ChannelFault("double")
    /\ Len(pending) + 2 <= MaxChunk
    /\ pending' = pending \o <<Width, Width>>

\* The pulse is measured with a wrong width.
AlterPulse ==
    /\ ChannelFault("alter")
    /\ Len(pending) < MaxChunk
    /\ \E w \in AlterWidths \ {Width} : pending' = Append(pending, w)

\* The driver hands the measured widths to le_IRIGB.Decode.
Decode ==
    /\ pending # <<>>
    /\ irig' = DecodeBuffer(irig, pending)
    /\ pending' = <<>>
    /\ UNCHANGED <<txSec, txSlot, faults>>

Next == Transmit \/ LosePulse \/ DoublePulse \/ AlterPulse \/ Decode

\* The transmitter and the driver never stop; the channel need not fail.
Spec == Init /\ [][Next]_vars /\ WF_vars(Next)

----------------------------------------------------------------------------

TypeOK ==
    /\ irig.irigFrameIn \in [Slots -> FrameValues]
    /\ irig.irigFrameOut \in [0 .. 2 * SIGNAL_LEN - 1 -> FrameValues]
    /\ irig.uSignalStart \in Slots \cup {-1}
    /\ irig.uFrameDecodeWrite \in Slots
    /\ irig.uFrameWrite \in Slots
    /\ irig.bValidSignal \in BOOLEAN /\ irig.bBufferFlip \in BOOLEAN
    /\ Clock \in [TimeFields -> Int]
    /\ txSec \in 1 .. Len(TxTimes) + 1 /\ txSlot \in Slots
    /\ pending \in Seq(Nat) /\ Len(pending) <= MaxChunk
    /\ faults \in 0 .. MaxFaults

\* The time le_Time held before any second was decoded.
InitialTime == TimeOf(InitIRIGB)

(***************************************************************************)
(* The clock only ever shows a time the transmitter sent: le_IRIGB never  *)
(* aligns le_Time to a second assembled from the slots of two different   *)
(* transmitted seconds.                                                    *)
(***************************************************************************)
ClockIsTransmitted == Clock \in {InitialTime} \cup Range(TxTimes)

(***************************************************************************)
(* The decoder recovers: whatever the channel did, once it behaves the    *)
(* clock comes to show the time being sent and keeps showing it.  After a *)
(* lost or doubled pulse only a new REF-REF acquisition (line 70) puts    *)
(* the second's start back in place; InvalidateIRIG keeps the old one.    *)
(***************************************************************************)
ShowsSentTime == <>[](Clock = TxTimes[Len(TxTimes)])

(***************************************************************************)
(* Spec section 4.2, step 5: when the 100th slot of a second has been     *)
(* accepted, the just-completed half is decoded.  On a clean channel,      *)
(* whenever a second has just been consumed in full while synchronised    *)
(* and some second has been decoded, the clock shows the second just      *)
(* consumed.                                                              *)
(***************************************************************************)
LatestSecondDecoded ==
    (faults = 0 /\ pending = <<>> /\ txSlot = 0 /\ txSec > 1 /\ irig.bValidSignal
     /\ Clock # InitialTime)
        => Clock = TxAt(txSec - 1)
=============================================================================
