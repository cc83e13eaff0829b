--------------------------- MODULE Analog1PWinding --------------------------
(***************************************************************************)
(* le_Analog1PWinding of src/tests/filter_test.py: a one-cycle cosine      *)
(* filter over a circular buffer of raw samples, and the phasor read from  *)
(* the filtered buffer now and a quarter cycle earlier.  Both buffers are  *)
(* written at uWrite, which moves backwards one slot per Update.           *)
(*                                                                         *)
(* The coefficients are left symbolic: a filter sum                        *)
(*     sum_i rawValues[pos_i] * coefficients[i]                            *)
(* is represented by the vector [i |-> rawValues[pos_i]] of the samples    *)
(* each coefficient multiplies, which fixes the sum for every choice of    *)
(* coefficients.  A buffer of zeros holds the all-zero vector.             *)
(***************************************************************************)
EXTENDS Integers, Sequences

CONSTANTS
    SamplesPerCycle,  \* samples_per_cycle
    Inputs,           \* the sample values SetValue may receive
    NoInput,          \* input_value before the first SetValue
    MaxUpdates        \* the number of samples the driver feeds

ASSUME SamplesPerCycle \in Nat \ {0} /\ MaxUpdates \in Nat
ASSUME Inputs \subseteq Int /\ NoInput \notin Inputs

N == SamplesPerCycle
Idx == 0 .. N - 1

VARIABLES
    uWrite, uQuarterCycle,         \* the write and quarter-cycle indices
    rawValues, rawFilteredValues,  \* _rawValues and _rawFilteredValues
    input_value,                   \* the value of the last SetValue
    phasor,                        \* what the last Update returned
    hist                           \* the samples filtered so far, oldest first

vars == <<uWrite, uQuarterCycle, rawValues, rawFilteredValues, input_value, phasor, hist>>

ZeroSum == [i \in Idx |-> 0]

\* A Python index: a negative one counts from the end of the buffer.
PyIndex(k) == IF k < 0 THEN k + N ELSE k

\* Mutant of InitQuarterCycle: the -1 is left out.
QuarterCycleNoMinus1 == (N \div 4)

\* int(samples_per_cycle / 4.0) - 1
InitQuarterCycle == (N \div 4) - 1

Init ==
    /\ uWrite = N - 1
    /\ uQuarterCycle = InitQuarterCycle
    /\ rawValues = [k \in Idx |-> 0]
    /\ rawFilteredValues = [k \in Idx |-> ZeroSum]
    /\ input_value = NoInput
    /\ phasor = [real |-> ZeroSum, imag |-> ZeroSum]
    /\ hist = <<>>

SetValue ==
    /\ \E v \in Inputs : input_value' = v
    /\ UNCHANGED <<uWrite, uQuarterCycle, rawValues, rawFilteredValues, phasor, hist>>

ApplyCosineFilter ==
    LET raw == [rawValues EXCEPT ![uWrite] = input_value]
    IN  /\ rawValues' = raw
        /\ rawFilteredValues' =
              [rawFilteredValues EXCEPT ![uWrite] = [i \in Idx |-> raw[(uWrite + i) % N]]]

\* Mutant of Decrement: the index is not wrapped.
DecrementNoWrap(k) == k - 1

\* (index - 1 + uSamplesPerCycle) % uSamplesPerCycle
Decrement(k) == (k - 1 + N) % N

CalculatePhasor(filtered) ==
    [real |-> filtered[uWrite], imag |-> filtered[PyIndex(uQuarterCycle)]]

(***************************************************************************)
(* Update: filter, read the phasor, then move both indices back one slot. *)
(* Without a SetValue before it, input_value does not exist and Python     *)
(* raises AttributeError, so Update is not enabled.                       *)
(***************************************************************************)
Update ==
    /\ input_value # NoInput
    /\ Len(hist) < MaxUpdates
    /\ ApplyCosineFilter
    /\ phasor' = CalculatePhasor(rawFilteredValues')
    /\ uWrite' = Decrement(uWrite)
    /\ uQuarterCycle' = Decrement(uQuarterCycle)
    /\ hist' = Append(hist, input_value)
    /\ UNCHANGED input_value

Next == SetValue \/ Update

Spec == Init /\ [][Next]_vars

----------------------------------------------------------------------------

TypeOK ==
    /\ uWrite \in Idx /\ uQuarterCycle \in Idx \cup {-1}
    /\ rawValues \in [Idx -> Inputs \cup {0}]
    /\ rawFilteredValues \in [Idx -> [Idx -> Inputs \cup {0}]]
    /\ input_value \in Inputs \cup {NoInput}
    /\ hist \in Seq(Inputs) /\ Len(hist) <= MaxUpdates

\* The reference filter: coefficient i multiplies the sample i steps back,
\* and samples before the first count as 0.
Conv(h) == [i \in Idx |-> IF i < Len(h) THEN h[Len(h) - i] ELSE 0]

\* The first m samples of h (none when m <= 0).
Prefix(h, m) == IF m <= 0 THEN <<>> ELSE SubSeq(h, 1, m)

PhasorQuadrature ==
    hist # <<>> =>
        phasor = [real |-> Conv(hist), imag |-> Conv(Prefix(hist, Len(hist) - N \div 4))]
=============================================================================
