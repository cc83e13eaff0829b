---------------------------- MODULE IRIGBConfig -----------------------------
(***************************************************************************)
(* Configuration of le_IRIGB: the constructor derives the three pulse      *)
(* width thresholds from irig_timer_freq and irig_frame_tolerance through  *)
(* SetFrameCountTolerances, and nothing changes them afterwards.  The     *)
(* tolerance is a whole number of percent.                                 *)
(***************************************************************************)
EXTENDS IRIGBFrame

CONSTANTS
    Freqs,  \* the irig_timer_freq values a caller may pass
    Tols    \* the irig_frame_tolerance values, in percent

ASSUME Freqs \subseteq Nat /\ Tols \subseteq Int

VARIABLE thr  \* uBit0Max, uBit1Max and uRefMax of the constructed decoder

\* le_IRIGB.__init__: any accepted pair of arguments configures the decoder.
Init == \E f \in Freqs, t \in Tols : thr = SetFrameCountTolerances(f, t)

\* Streaming never touches the thresholds.
Next == UNCHANGED thr

Spec == Init /\ [][Next]_thr

(***************************************************************************)
(* Spec sections 2, 7 and 8: every configuration the decoder accepts has  *)
(* thresholds 0 < bit0Max < bit1Max < refMax; one that does not must be   *)
(* rejected before streaming.  The constructor accepts every argument.    *)
(***************************************************************************)
ThresholdsStrictlyIncreasing ==
    0 < thr.uBit0Max /\ thr.uBit0Max < thr.uBit1Max /\ thr.uBit1Max < thr.uRefMax
=============================================================================
