# TLA+ models of LogicElements' IRIG-B decoder, cosine filter and manifest generator

This directory holds TLA+ specifications of the Python reference code under
`src/`, the TLC configurations that check them, and `PROJECT.json`. That file
lists the components, the runs, the mutants, the mapping from each definition
to source lines, the findings and the hazards.

## 1. Inventory

### Components

| Component | Source | State | Operations |
|---|---|---|---|
| Pulse classifier | `le_IRIGB.DecodeFrame`, `SetFrameCountTolerances` (le_IRIGB.py 105-113, 182-186) | the thresholds `uBit0Max < uBit1Max < uRefMax` | classify one width; derive thresholds in the constructor |
| Frame synchronizer and double buffer | `le_IRIGB.Decode`, `InvalidateIRIG` (60-100, 188-192) | `_irigFrameIn[100]`, `_irigFrameOut[200]`, `uFrameWrite`, `uSignalStart`, `uFrameDecodeWrite`, `bValidSignal`, `bBufferFlip` | per sample: store, acquire on REF-REF, aligned copy, complete the second, flip, advance |
| Field decoder | `DecodeFrames`, `FromBCD` (115-180) | none | marker checks of 5 groups, then BCD |
| Clock | `le_Time.Align` (17-24) | second, minute, hour, day, year, sub-second | overwrite; the drift returned is always 0 |
| Test generator and driver | `to_bcd`, `generate_irigb_signal`, `__main__` (199-298) | the pass, the signal | build a second, corrupt slot 0 on pass 3, feed 10 chunks of 10 |
| Cosine filter | `le_Analog1PWinding` (filter_test.py 5-50) | `uWrite`, `uQuarterCycle`, `_rawValues[N]`, `_rawFilteredValues[N]`, `input_value` | `SetValue`, `Update` = `ApplyCosineFilter` + `CalculatePhasor` + both indices decremented |
| Filter test signal and plots | filter_test.py 52-118 | NumPy arrays | not modelled: float synthesis and plotting |
| Manifest generator | `tools/manifest/generate_manifest.py` (18-479) | `element_info`, the loop position, `elements`, the manifest, main's exit | parse the enum; per element: skip Invalid, find files, extract ports and constructor arguments, categorize, append; sort by id; statistics; write or exit 1 |

### How the parts interact

The driver turns a time into 100 pulse widths. `Decode` classifies each width
and stores it in the circular input window. The decoder declares a new second
when it sees two consecutive references: the reference at slot 99 followed by
the one at slot 0. After that, it copies every frame into the output half that
`bBufferFlip` does not select, at the position relative to `uSignalStart`.
After 100 copies it decodes the other half with `DecodeFrames`, which aligns
`le_Time`, then flips.

A rejected second only resets `uFrameDecodeWrite`. The lines that would resync
are commented out.

The code is single-threaded. What makes it hard is the channel:
- the order and loss of pulses;
- re-acquisition in the middle of a second;
- the one-second lag of the double buffer;
- arithmetic on symbol values;
- truncation at the edges of the thresholds.

The manifest generator is separate from the decoder and the filter. It runs
once at build time. It reads the `ElementType` enum of `le_Element.hpp`. For
each element, it then reads the element's `.hpp` and `.cpp` files and collects:
- the ports added with `AddInputPort<T>(...)` and `AddOutputPort<T>(...)`;
- the constructor's arguments and their `///<` comments.

It writes one JSON manifest. It is sequential. What makes it hard:
- counters and regular expressions running over text they were not written for (comment markers, comparisons, nested templates);
- files found twice;
- ranges and replacements applied in an order where one hides another.

### Properties worth checking

| Component | Properties |
|---|---|
| Classifier and configuration | 0 < bit0Max < bit1Max < refMax for every accepted configuration (spec §7) |
| Field decoder | round trip of every value of every field; every corrupted marker rejects the second; a non-bit symbol in a value slot reads as 0 (spec §4.3) |
| Synchronizer | the clock only ever shows a transmitted time, whatever pulses are lost, doubled or mismeasured; decoding continues forever after a fault; the just-completed second is the one decoded (spec §4.2) |
| Filter | the stored outputs are the one-cycle convolution of the inputs; the phasor pairs the newest output with the output a quarter cycle earlier |
| Manifest generator | the loop-and-sort implementation refines the one-step specification (every element but Invalid, once, in stable id order, with its statistics); every enumerator listed; every declared port listed once, whatever its type; loop-created ports noted; constructor arguments as declared |

## 2. Modules

| Module | Models | Composed of |
|---|---|---|
| `IRIGBFrame` | the stateless operators: symbols, `SetFrameCountTolerances`, `DecodeFrame`, `FromBCD`, `Markers`, `DecodeFrames`, `to_bcd`, `generate_irigb_signal` | — |
| `IRIGBCodec` | the driver's passes (`NewSecond`) and the pass-3 corruption (`InsertInvalidFrame`, any slot and width), decoded without the streaming buffers | `IRIGBFrame` |
| `IRIGBDecoder` | the whole `le_IRIGB` object as the record `irig`, fed by a transmitter and a faulty channel | `IRIGBFrame` |
| `IRIGBConfig` | the constructor's thresholds | `IRIGBFrame` |
| `Analog1PWinding` | `le_Analog1PWinding` | — |
| `ManifestParse` | the generator's functions as operators: `parse_element_enum` after its regular expressions, `find_element_files`, `parse_element_ports`, `parse_constructor_arguments`, `deduplicate_ports`, `simplify_type`, `categorize_element` | — |
| `ManifestText` | `parse_constructor_arguments` applied to every parameter list of a small grammar | `ManifestParse` |
| `ManifestSpec` | what `generate_manifest` and `main` promise, as one step from the inputs to the failed or the built and then written manifest | `ManifestParse` |
| `Manifest` | `generate_manifest` and `main` as a state machine over a chosen enum and source tree, with the refinement mapping to `ManifestSpec` | `ManifestParse`, `ManifestSpec` (INSTANCE) |

The MC modules (`MCIRIGBCodec`, `MCIRIGBDecoder`, `MCIRIGBConfig`, `MCManifestText`, `MCManifest`) give
constant values that a `.cfg` cannot express.

### Correspondence with the code

The `IRIGBDecoder` record `irig` has one field per attribute of the object.
`Decode` is one action: the recursive `DecodeBuffer` applies `DecodeSample`
to each width of the pending buffer in order, so a call to `le_IRIGB.Decode`
is atomic, as it is in the program. `DecodeSample` is the loop body, composed
in the code's order:
1. `AcquireStart` (lines 63-74);
2. `CopyToOutput`, with `OutIndex` and `CompleteSecond` (lines 76-98);
3. `AdvanceWrite` (line 100).

The decode inside `CompleteSecond` is `DecodeFramesStep`, which either calls
`InvalidateIRIG` or calls `Align`.

The environment is modelled by three kinds of action:
- `Transmit`: the transmitter sends the seconds of `TxTimes` in order, one slot per step, starting at `FirstSlot`, and then keeps sending the last one. This is the driver's pass loop (lines 274-276): each pass reads `time.localtime()`, which never goes backward and mostly stays in the same second. `TxAt` is the time of the k-th second sent.
- `LosePulse`, `DoublePulse`, `AlterPulse`: channel faults, at most `MaxFaults` of them, only at `FaultSlots`.
- `Decode`: the driver hands over any buffer of 1..`MaxChunk` widths. The spec says batch boundaries carry no meaning, and the driver's fixed 10-sample chunks are one case of this.

In `Analog1PWinding` the float coefficients are not modelled. A filter sum
is the vector of the samples each coefficient multiplies. That vector
determines the sum for every coefficient set, so a property of the vectors
holds for the real filter.

The manifest modules abstract text to what the code's loops and regular
expressions distinguish:
- **Constructor arguments.** They are a sequence of tokens: type, name, `=`, default, `,`, the `///<` marker, comment word, newline. A comment word `(2-8)` stands for a comment holding a `)`, which ends the constructor patterns' `[^)]*` (`HasParen`). Each token carries what the split loop counts in it: `///<` opens a bracket, a default `a>b` closes one, and `std::complex<float>` does both.
  - `SplitArgs` is that loop.
  - `ParseArg` is the per-part code: the last-line `///<` search and removal, then the type-and-name match.
- **Source files.** A file is `[stem, ext, decls, ctors, readable]`; `readable` is FALSE for a file `open().read()` fails on (not UTF-8), which `Readable` leaves out of the content (lines 157-164).
  - `decls` are its `AddXPort` calls in text order, each with a direction, a naming form (literal, indexed, math, prefix, or inside a `for` body), a C++ type and an argument.
  - `ctors` are its constructor heads, of the three kinds the code's patterns match.
- **The tree.** It is the `os.walk` order of the directories.
- **Enum entries.** They are the enumerators `[name, id, desc, valued, documented]`; `Matches` is the enum pattern, which needs both `= N` and a `///< ` comment (line 36). A description is a sequence of symbols: `H` for the word HETEROGENEOUS, `w` for any other word, and space, `[`, `]`, `!`.

In `Manifest`, `ParseEnum` is lines 336-341. It ends in `failed`, main's exit
code 1, when the enum is empty. The loop body is split on the skip test:
`SkipInvalid` handles Invalid and `ProcessElement` handles every other element,
one step per iteration; its body is `ElementEntry` in `ManifestParse`.
`Finish` is the in-place stable sort and the statistics. `Write` is `main`
writing the manifest and returning 0 (lines 460-475), and `Terminating` the
stuttering step of the ended script (`sys.exit`).
The library, features and configuration sections only copy command-line
arguments and constants, so they are left out, except for
`configuration.portNaming`, which the port property uses as its reference.

**Refinement.** `ManifestSpec` has the inputs and two variables: `status`
(running, failed, built, written) and `result` (empty, or the manifest). Its
`Generate` step goes from the inputs straight to the manifest `Expected`,
defined declaratively: the element list is indexed by each entry's rank (the
number of entries with a smaller id, or an equal id earlier in the enum), and
the statistics count the entries, not the list. `Manifest` instantiates it as
`Abstract` with `status` mapped from `pc` (start and loop are running, done is
built) and `result` the manifest once built. The loop steps are stuttering
steps of the abstract spec; `Finish` is its `Generate` (or `ParseEnum` is, on
an empty enum), and `Write` is its `Write`. `ImplementsManifestSpec` checks
`Abstract!Spec` as a temporal property.

`ManifestParse` also holds `Layout` and `Declared`, which are not code: a
declared parameter list, its text, and what the manifest should say of it.
`MCManifest` lays out its constructor heads with `Layout`, so the
`ConstructorArgsAsDeclared` property checks the whole path a declaration takes:
constructor search, then split, then per-argument parse.

The model was checked against the real generator:
- On a file tree written out for one of `MCManifest`'s trees, the generator's JSON equals the model's final manifest.
- On an enum with `OR = 11,` (no comment) and `NOT, ///< w` (no value), `parse_element_enum` returns Invalid, AND and Gain only; for a header `AND(uint16_t n ///< Doc n (2-8)\n);` `parse_element_ports` returns no constructor arguments. The model gives the same.
- The argument parser was run on every parameter list of up to three parameters, documented as in `args_brackets` or laid out as in `manifest`. It fails on exactly the lists the model gets wrong: 80 of 84 fully documented lists, 416 of 584 lists with `a>b` defaults, and none of the others.

## 3. Runs

| Run | Expect | What it shows |
|---|---|---|
| `codec` | pass | 91 times: every value of every decimal digit of every field, and its limits. Each generated second decodes to its own time, and any width at any marker slot that changes the marker's symbol makes `DecodeFrames` reject the second. |
| `codec_bcd` | violation | `FromBCD` shifts the symbol's value: a REF in a value slot adds 10·2^k (finding 1). |
| `decoder_slip` | pass | One lost or doubled pulse anywhere, in buffers of 1-2 widths: the clock only shows transmitted times. |
| `decoder_recover` | pass | After one lost, doubled or altered pulse at any non-value slot, the clock comes to show the time being sent and keeps showing it (`ShowsSentTime`, under weak fairness). A lost or doubled pulse shifts the second's start, and only a new REF-REF acquisition puts it back. |
| `decoder_latest` | violation | Clean channel: after a second completes, the clock shows the previous second (finding 2). |
| `decoder_double2` | violation | Two doubled pulses at non-value slots of one second: a doubled position reference is a false mid-second acquisition, the true one follows, and the decode counter, never reset, completes a half mid-second with a never-transmitted time (finding 3). |
| `decoder_alter` | violation | One pulse mismeasured as REF next to a position reference gives a never-transmitted time (finding 4). |
| `config_thresholds` | violation | `irig_timer_freq = 100` gives thresholds 0, 0, 0, and the constructor accepts them (finding 5). |
| `winding` | pass | For N = 8 and 12 updates, the filter is the convolution and the phasor is in quadrature. |
| `manifest` | pass | 1,764 trees × 3 enums. The state machine refines `ManifestSpec` (`ImplementsManifestSpec`): every element but Invalid is listed once, in stable id order, with statistics of that list, and only then written. Every plain-typed port is listed once, under the `portNaming` name, although each file is read twice. `constructor_args` are the parameters of the constructor head named after the element, for 145 lists (up to two parameters of four types, with or without a default, a comment on the last one at most). |
| `args_brackets` | violation | Parameter lists of up to three parameters, all commented as in the docstring's example or with a default `a>b`. The split loop's bracket count shifts or merges parameters (findings 6 and 7). |
| `manifest_sources` | violation | `ManifestDescribesSources`: the manifest misses what the sources declare. Enumerators without a value or comment are dropped, `std::complex<float>` ports are never matched, loop-created inputs next to a selector get no note, a `)` in a constructor comment loses the constructor arguments, and a file that cannot be read loses all it declares (findings 8-12). The run adds to the `manifest` constants an enum with two such enumerators, a header with such a comment, and trees whose `le_Gain.cpp` cannot be read. |

Every property of a passing run has a mutant in `PROJECT.json`: a plausible
bug in a mapped definition that TLC shows the property catches.

### Bounds

- **Codec.** Around 14:30:45 day 123 year 24, each field takes every value one decimal digit away, and its limits. `FromBCD` sums one nibble per digit, so every BCD bit of every field is exercised. The corrupting widths are one width in each classifier band, plus one beyond `uRefMax`.
- **Decoder.** Four consecutive seconds across a year rollover, 23:59:57 day 366 year 23 to 00:00:00 day 1 year 24, so that adjacent seconds differ in every field. Transmission starts at slot 95 so that acquisition happens quickly.
  - One fault shows the single-fault guarantees.
  - A false acquisition takes either one altered pulse beside a position reference, or two doubled pulses (the reference and the slot before it). `decoder_double2` allows doubles only at non-value slots. A lost pulse and a doubled one inside the same marker group shift value bits between two correctly placed markers. IRIG-B cannot detect that, just as it cannot detect a mismeasured value bit, so those faults are not part of that run. Two losses at the same slot in two seconds only leave the clock one second off, on a time that was sent.
  - The liveness run uses buffers of one width to keep TLC's fairness check fast. Chunking does not change the decoder's result, because each `Decode` call only iterates the per-sample step.
- **Winding.** 12 updates exceed one full wrap of both indices at N = 8, the driver's value. Inputs {1, 2} keep samples distinct from the initial zeros.
- **Manifest.** The enum has Invalid, an element with no file (Node), a Mux specialization and two ordinary elements, listed out of id order, with each heterogeneous marker form. In the second enum Node has Gain's id and comes after it, so the order of equal ids, which only the stability of `list.sort` keeps, is checked (an insertion that puts an element before an equal id breaks `ImplementsManifestSpec`). A third enum is empty. The tree gives each of AND, Gain and Mux every port-naming form, both port type kinds, loop-created ports with and without another port, and a constructor head with the element's name, the class's name, or none. Two parameters are enough for the passing constructor property: every parameter after the first follows a comma. `args_brackets` uses three so that a comma can fall inside a bracket count that has drifted twice. The four types cover the type table and the template case. Every run of the state machine is at most nine steps, so the refinement is checked over whole runs.
- **Config.** The frequencies 100, 1000 and 100000 and the tolerances -100 %, 0 % and 10 % cover the main script's configuration and the degenerate ones.

### Fairness

`ShowsSentTime` assumes `WF_vars(Next)`: the driver keeps measuring pulses
and calling `Decode`. Faults are bounded by `MaxFaults`, so after the last
fault every step is a correct transmission or a decode. No fairness is
assumed for faults.

The manifest runs assume no fairness. The generator is a straight-line
script that ends when the manifest is written or the enum is empty; the
`Terminating` step lets that end state stutter, so deadlock checking is on
and shows that no other state gets stuck. Termination under weak fairness
is not checked: TLC evaluates `ENABLED ProcessElement` by recomputing every
LET definition of `parse_element_ports` at each use, about 30 seconds per
state, so `ManifestSpec` states safety only.

## 4. Findings

1. **Spec §4.3 divergence.** `FromBCD` (le_IRIGB.py:177) adds `REF << k` = 10·2^k and `INVALID << k` = -2^k, instead of treating these symbols as a 0 bit.
2. **Spec §4.2 divergence.** The code decodes the half it is not writing (lines 80, 89-92). The clock lags one second, and the first completion decodes the all-INVALID initial half.
3. **Code bug.** Acquisition (line 72) moves `uSignalStart` without resetting `uFrameDecodeWrite`. After a false acquisition mid-second and a true one, the half is declared complete mid-second, passes the marker checks, and shows 23:59:00 day 366 year 23, which was never sent. With the counter reset on acquisition, the same run passes.
4. **Code bug.** Acquisition is accepted while already synchronised (line 70). A single REF-valued glitch next to a position reference re-aligns mid-second and gives an untransmitted time.
5. **Spec gap.** `SetFrameCountTolerances` (line 183) validates nothing. Spec §7 requires a `ConfigurationError`.

Findings 6-12 are in `generate_manifest.py`:

6. **Code bug (line 106).** The `<` of each `///<` comment raises the template depth. The parameters after it shift or merge: for example, `Doc` becomes a name of type `///<`.
7. **Code bug (line 108).** A `>` in a default takes the depth below zero, so later commas do not split.
8. **Code bug (line 195).** `<([^>]+)>\s*\(` cannot match a template port type, so complex ports are silently dropped.
9. **Code bug (line 273).** A dynamic-ports note is written only when no other port of that direction was found.
10. **Code bug (line 36).** The enum pattern needs `= N` and `///< ` on each enumerator; one without either is silently left out of the manifest.
11. **Code bug (line 173).** The constructor patterns stop the arguments at the first `)`. A `)` inside a parameter comment means no constructor is found, and `constructor_args` is empty.
12. **Code bug (line 163).** A file that cannot be read is skipped with a warning only. The element is listed without what that file declares, and `main` still reports `[OK]` and returns 0.

Two more defects of the generator are plain to see and need no model
checker, so no run is spent on them:
- **Description cleaning (line 46).** It removes `HETEROGENEOUS!` before `[HETEROGENEOUS!`, so a description marked `[HETEROGENEOUS!]` keeps `[]`.
- **Categories (lines 323-326).** `categorize_element`'s two `power` branches sit behind the overlapping ranges 60-68 and 80-83, so they are dead.

The model computes both faithfully: `CleanDescription` and `categorize_element`.

## 5. Not modelled

- **IEEE double rounding in `SetFrameCountTolerances`.** The model uses the exact rational product, which TLC can compute. Compared in Python, `int()` of the double product equals the exact value for the tolerances 0, 5, 10 and 20 % at every frequency up to 200,000. It differs in 382 cases for other whole percents up to 100,000 Hz: for example, 5000 Hz at 16 % gives `uBit1Max` 28, not 29.
- **`PrintShortTime` and the `print` calls.** They are output only.
- **The filter's float coefficients and the test signal.** The model keeps them symbolic, as described in section 2.
- **`generate_manifest.py`: I/O.** `main`'s argparse, JSON writing and printing are I/O, and the copied command-line fields of the manifest are data. The regular expression that finds the enum block and the file reading are replaced by their results.
