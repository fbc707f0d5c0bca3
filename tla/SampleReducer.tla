----------------------------- MODULE SampleReducer -----------------------------
(***************************************************************************)
(* The reduction Analyzer (src/utils/analyzer.py) applies to one series    *)
(* before plotting it: draw_trace strides a long trace series with         *)
(* sample() and rescales its sizes, draw_m3i reduces a long m3i series     *)
(* with median_sample(), and bandwidth() turns the (reduced) positions and *)
(* sizes into the sliding-window rate it plots.  The three helpers are     *)
(* operators; the module steps through one draw of one series.            *)
(*                                                                         *)
(* A rate is kept as the pair (data in the window, span of the window):    *)
(* the code divides the two (floor division for the integer cycles of an   *)
(* m3i file, true division for the float times of a trace), and so does    *)
(* the specification; the comparison is made before that division.        *)
(***************************************************************************)
EXTENDS Integers, SequencesExt

CONSTANTS
  MaxSamples,   \* Analyzer.max_samples
  MaxLen,       \* longest series parsed
  Positions,    \* values of the times / cycles
  Sizes,        \* values of the sizes
  Windows       \* values of Analyzer.bw_window

(* Series a parser can produce: positions never decrease. *)
Series(L) ==
  { s \in [1..L -> Positions] : \A i \in 1..L-1 : s[i] <= s[i + 1] }

VARIABLES
  kind,    \* "trace" (draw_trace) or "m3i" (draw_m3i)
  x,       \* the positions plotted: times or cycles
  y,       \* the sizes the bandwidth sums (bw_sizes for a trace)
  window,  \* Analyzer.bw_window
  mean_y,  \* the series bandwidth() plots
  pc,      \* "parsed", "reduced", "plotted" or "raised"
  x0, y0   \* the parsed series, kept for the properties

vars == << kind, x, y, window, mean_y, pc, x0, y0 >>

SumSeq(s) == FoldLeft(+, 0, s)

(* y[from..to] in the code's 0-based, end-exclusive slicing y[from:to]. *)
Slice(s, from, to) == SubSeq(s, from + 1, to)

(* sample(): n = len(arr) / max_samples; x.take(arange(0, len(arr), n)). *)
SampleStride(L) == L \div MaxSamples

Sample(arr) ==
  LET n == SampleStride(Len(arr))
  IN [k \in 1..((Len(arr) - 1) \div n + 1) |-> arr[(k - 1) * n + 1]]

(* median_sample(): n = len(arr) / max_samples, made odd; the first       *)
(* n * (len / n) elements reshaped into rows of n; the median of each     *)
(* row (an element, n being odd).                                          *)
MedianBlockEven(L) == L \div MaxSamples

MedianBlock(L) ==
  LET n == L \div MaxSamples IN IF n % 2 = 0 THEN n + 1 ELSE n

MedianSample(arr) ==
  LET n == MedianBlock(Len(arr))
      row(k) == SortSeq(Slice(arr, (k - 1) * n, k * n), <)
  IN [k \in 1..(Len(arr) \div n) |-> row(k)[(n + 1) \div 2]]

(* The window bandwidth() uses: min(bw_window, len(x) - 1), stored back. *)
ClampWindow(w, L) == IF w <= L - 1 THEN w ELSE L - 1

(* One window: sum(y[prev_i:i]) over (x[i] - x[prev_i]) or 1. *)
WindowRateUnguarded(xs, ys, prev, i) ==
  [data |-> SumSeq(Slice(ys, prev, i)), span |-> xs[i + 1] - xs[prev + 1]]

WindowRateLastSample(xs, ys, prev, i) ==
  LET span == xs[i] - xs[prev + 1]
  IN [data |-> SumSeq(Slice(ys, prev, i)), span |-> IF span = 0 THEN 1 ELSE span]

WindowRate(xs, ys, prev, i) ==
  LET span == xs[i + 1] - xs[prev + 1]
  IN [data |-> SumSeq(Slice(ys, prev, i)), span |-> IF span = 0 THEN 1 ELSE span]

(* for i in xrange(w, len(x), w): w copies of the window's rate. *)
RECURSIVE WindowLoop(_, _, _, _, _)
WindowLoop(xs, ys, w, i, acc) ==
  IF i >= Len(xs) THEN acc
  ELSE WindowLoop(xs, ys, w, i + w,
                  acc \o [j \in 1..w |-> WindowRate(xs, ys, i - w, i)])

(* The loop, then the last rate repeated up to len(x). *)
Bandwidth(xs, ys, w) ==
  LET acc == WindowLoop(xs, ys, w, w, << >>)
  IN acc \o [k \in 1..(Len(xs) - Len(acc)) |-> acc[Len(acc)]]

(* The reduction draw_trace / draw_m3i apply: only above max_samples.    *)
(* A trace's sizes are multiplied by len / max_samples for the bandwidth. *)
ReducedPositions(k, s) ==
  IF Len(s) <= MaxSamples THEN s
  ELSE IF k = "trace" THEN Sample(s) ELSE MedianSample(s)

ReducedSizes(k, s) ==
  IF Len(s) <= MaxSamples THEN s
  ELSE IF k = "trace"
       THEN [i \in DOMAIN Sample(s) |-> Sample(s)[i] * SampleStride(Len(s))]
       ELSE MedianSample(s)

Init ==
  /\ kind \in {"trace", "m3i"}
  /\ \E L \in 1..MaxLen : x0 \in Series(L) /\ y0 \in [1..L -> Sizes]
  /\ window \in Windows
  /\ x = x0 /\ y = y0
  /\ mean_y = << >>
  /\ pc = "parsed"

Reduce ==
  /\ pc = "parsed"
  /\ x' = ReducedPositions(kind, x)
  /\ y' = ReducedSizes(kind, y)
  /\ pc' = "reduced"
  /\ UNCHANGED << kind, window, mean_y, x0, y0 >>

(* bandwidth() with the clamped window stored back into bw_window. *)
PlotBandwidth ==
  /\ pc = "reduced"
  /\ window' = ClampWindow(window, Len(x))
  /\ window' > 0
  /\ mean_y' = Bandwidth(x, y, window')
  /\ pc' = "plotted"
  /\ UNCHANGED << kind, x, y, x0, y0 >>

(* A single-sample series clamps the window to 0: xrange raises          *)
(* ValueError (which draw() catches).                                     *)
PlotBandwidthFails ==
  /\ pc = "reduced"
  /\ window' = ClampWindow(window, Len(x))
  /\ window' <= 0
  /\ pc' = "raised"
  /\ UNCHANGED << kind, x, y, mean_y, x0, y0 >>

Next == Reduce \/ PlotBandwidth \/ PlotBandwidthFails

Spec == Init /\ [][Next]_vars

(***************************************************************************)
(* The Sample Reducer of the specification (section 4.6), written from    *)
(* its words.                                                              *)
(***************************************************************************)

(* Uniform stride: unchanged up to M elements, else every (L // M)-th    *)
(* element from index 0.                                                  *)
SpecStrideFactor(L) == IF L <= MaxSamples THEN 1 ELSE L \div MaxSamples

SpecStride(s) ==
  LET n == SpecStrideFactor(Len(s))
      kept == SetToSortSeq({ i \in DOMAIN s : (i - 1) % n = 0 }, <)
  IN [k \in DOMAIN kept |-> s[kept[k]]]

(* Median blocks: block size L // M made odd, the full blocks of the      *)
(* prefix, the median of each: the element with at most (n-1)/2 elements *)
(* of its block below it and at most (n-1)/2 above it.                    *)
IsMedianOf(m, b) ==
  LET half == (Len(b) - 1) \div 2
  IN /\ Cardinality({ i \in DOMAIN b : b[i] < m }) <= half
     /\ Cardinality({ i \in DOMAIN b : b[i] > m }) <= half

SpecMedian(s) ==
  LET n0 == Len(s) \div MaxSamples
      n == IF n0 % 2 = 0 THEN n0 + 1 ELSE n0
      block(k) == SubSeq(s, (k - 1) * n + 1, k * n)
  IN IF Len(s) <= MaxSamples THEN s
     ELSE [k \in 1..(Len(s) \div n) |->
             CHOOSE m \in ToSet(block(k)) : IsMedianOf(m, block(k))]

(* Sliding window of W samples: window k spans positions kW to (k+1)W    *)
(* and sums the sizes of its W samples; the per-window rates, each       *)
(* covering its W indices, the last one repeated to the end.             *)
SpecBandwidth(xs, ys, w) ==
  LET windows == (Len(xs) - 1) \div w
      rate(k) == LET span == xs[(k + 1) * w + 1] - xs[k * w + 1]
                 IN [data |-> SumSeq(SubSeq(ys, k * w + 1, (k + 1) * w)),
                     span |-> IF span = 0 THEN 1 ELSE span]
      last(j) == IF (j - 1) \div w < windows THEN (j - 1) \div w ELSE windows - 1
  IN [j \in DOMAIN xs |-> rate(last(j))]

(***************************************************************************)
(* Properties.                                                             *)
(***************************************************************************)

TypeOK ==
  /\ kind \in {"trace", "m3i"}
  /\ x \in Seq(Positions) /\ y \in Seq(Nat)
  /\ window \in Int
  /\ mean_y \in Seq([data : Nat, span : Nat \ {0}])
  /\ pc \in {"parsed", "reduced", "plotted", "raised"}

(* What draw_trace and draw_m3i plot is the specification's reduction of *)
(* the parsed series: a long trace strided with its sizes rescaled by the *)
(* stride factor, a long m3i series reduced to its block medians.         *)
ReductionFollowsSpec ==
  pc # "parsed" =>
    IF kind = "trace"
    THEN /\ x = SpecStride(x0)
         /\ y = [i \in DOMAIN SpecStride(y0) |->
                   SpecStride(y0)[i] * SpecStrideFactor(Len(y0))]
    ELSE x = SpecMedian(x0) /\ y = SpecMedian(y0)

(* The series bandwidth() plots is the specification's sliding-window     *)
(* rate of the reduced series, one value per sample.                      *)
BandwidthFollowsSpec ==
  pc = "plotted" =>
    /\ Len(mean_y) = Len(x)
    /\ mean_y = SpecBandwidth(x, y, window)

====
