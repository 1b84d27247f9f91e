--------------------------- MODULE AudioAnalysis ---------------------------
(***************************************************************************)
(* What the decode pass measures of sample frames                          *)
(* (crates/tpt-app-media-qc-decode/src/audio.rs, loudness.rs) and what the *)
(* correct command does with it (correct.rs).  A frame has its samples in  *)
(* tenths of full scale, one for each channel, the energy that the         *)
(* K-weighting filters leave of it, and reach, the largest value that the  *)
(* oversampling filter reconstructs next to it.  The filters themselves    *)
(* are left out.                                                           *)
(***************************************************************************)
EXTENDS Values, FiniteSets

CONSTANTS Rate,          \* sample frames per second
          Quiet,         \* the silence threshold, in tenths of full scale
          MinSilence,    \* silence_min_duration_ms
          MaxRanges,     \* max_silence_ranges
          Block, Step,   \* frames of a gating block and of a step
          Window,        \* steps of a short-term window
          Taps,          \* frames that the oversampling filter needs
          Gate           \* the energy of -70 LUFS

ASSUME AudioAssumption ==
  /\ Rate \in Nat \ {0} /\ Quiet \in Nat /\ MinSilence \in Nat /\ MaxRanges \in Nat
  /\ Step \in Nat \ {0} /\ Block \in Nat \ {0} /\ Window \in Nat \ {0} /\ Taps \in Nat \ {0}
  /\ Gate \in Nat

FullScale   == 10
MaxChannels == 64

Magnitude(x) == IF x < 0 THEN -x ELSE x
LevelOf(q)   == FoldLeft(Greatest, 0, q)

\* The time of a frame in ms, rounded.
At(frame) == (1000 * frame + Rate \div 2) \div Rate

-----------------------------------------------------------------------------
(* The meter: frame sums go through a window of Block frames.              *)

NewMeter == [recent |-> <<>>, seen |-> 0, since |-> 0, blocks |-> <<>>, steps |-> <<>>, step |-> 0, filled |-> 0]

\* A block is taken every Step frames once the window is full, a step sum every Step frames.
MeterPush(m, energy) ==
  LET recent == IF Len(m.recent) < Block THEN Append(m.recent, energy) ELSE Append(Tail(m.recent), energy)
      seen   == m.seen + 1
      emits  == seen >= Block /\ m.since + 1 >= Step
      closes == m.filled + 1 >= Step
  IN  [recent |-> recent, seen |-> seen,
       since  |-> IF emits THEN 0 ELSE m.since + 1,
       blocks |-> IF emits THEN Append(m.blocks, SumOf(recent) \div Block) ELSE m.blocks,
       steps  |-> IF closes THEN Append(m.steps, m.step + energy) ELSE m.steps,
       step   |-> IF closes THEN 0 ELSE m.step + energy,
       filled |-> IF closes THEN 0 ELSE m.filled + 1]

MeanOf(q) == SumOf(q) \div Len(q)
Above(q, limit) == SelectSeq(q, LAMBDA e : e > limit)

\* The mean energy of the blocks above the absolute gate and above a tenth of their mean.
Integrated(m) ==
  LET loud  == Above(m.blocks, Gate)
      gated == Above(loud, Greatest(Gate, MeanOf(loud) \div 10))
  IN  IF loud = <<>> THEN {} ELSE {IF gated = <<>> THEN MeanOf(loud) ELSE MeanOf(gated)}

\* The energies of the short-term windows that are above a hundredth of their mean:
\* the percentiles of the loudness range.
ShortTerm(m) ==
  [i \in 1 .. Greatest(0, Len(m.steps) - Window + 1) |-> SumOf(SubSeq(m.steps, i, i + Window - 1)) \div (Window * Step)]

LoudnessRange(m) ==
  LET loud  == Above(ShortTerm(m), Gate)
      gated == SortSeq(Above(loud, MeanOf(loud) \div 100), LAMBDA a, b : a < b)
      rank(percent) == 1 + ((Len(gated) - 1) * percent + 50) \div 100
  IN  IF loud = <<>> \/ gated = <<>> THEN {} ELSE {<<gated[rank(10)], gated[rank(95)]>>}

-----------------------------------------------------------------------------
(* The analyzer.                                                           *)

NewAudio == [count |-> 0, samples |-> 0, sum |-> 0, peak |-> 0, reach |-> 0, clipping |-> 0, channels |-> 0,
             cross |-> 0, left |-> 0, right |-> 0,
             start |-> {}, silence |-> <<>>, truncated |-> FALSE, meter |-> NewMeter]

\* Closes the silence that is open, at a frame.
FlushSilence(a, frame) ==
  LET ranges == {<<At(s), At(frame)>> : s \in a.start}
      long   == {r \in ranges : r[2] - r[1] >= MinSilence}
      room   == Len(a.silence) < MaxRanges
  IN  [a EXCEPT !.start = {},
                !.silence = IF long # {} /\ room THEN Append(@, CHOOSE r \in long : TRUE) ELSE @,
                !.truncated = @ \/ (long # {} /\ ~room)]

AudioPush(a, frame) ==
  LET s      == frame.samples
      loud   == [i \in DOMAIN s |-> Magnitude(s[i])]
      silent == LevelOf(loud) <= Quiet
      b      == IF silent THEN [a EXCEPT !.start = IF @ = {} THEN {a.count} ELSE @] ELSE FlushSilence(a, a.count)
      pair   == Len(s) = 2
  IN  [b EXCEPT !.count = @ + 1, !.samples = @ + Len(s), !.channels = Len(s),
                !.peak = Greatest(@, LevelOf(loud)),
                !.reach = IF a.count + 1 >= Taps THEN Greatest(@, frame.reach) ELSE @,
                !.clipping = @ + Len(SelectSeq(loud, LAMBDA v : v >= FullScale)),
                !.sum = @ + SumOf(s),
                !.cross = IF pair THEN @ + s[1] * s[2] ELSE @,
                !.left = IF pair THEN @ + s[1] * s[1] ELSE @,
                !.right = IF pair THEN @ + s[2] * s[2] ELSE @,
                !.meter = MeterPush(@, frame.energy)]

\* The correlation of two channels, squared and with its sign, in hundredths.
Correlation(a) ==
  IF a.left * a.right = 0 THEN {}
  ELSE {(IF a.cross < 0 THEN -1 ELSE 1) * ((100 * a.cross * a.cross) \div (a.left * a.right))}

AudioFinish(a) ==
  LET b == FlushSilence(a, a.count)
      ranges == b.silence
  IN  [stream |-> 0, frames |-> {b.count}, errors |-> 0, silenceRanges |-> ranges,
       silence |-> {ranges[i][2] - ranges[i][1] : i \in DOMAIN ranges}, truncated |-> b.truncated,
       clipping |-> b.clipping, peak |-> {b.peak},
       truePeak |-> IF b.reach > 0 THEN {b.reach} ELSE {},
       loudness |-> Integrated(b.meter), range |-> LoudnessRange(b.meter),
       phase |-> Correlation(b),
       dcOffset |-> IF b.samples = 0 THEN {} ELSE {b.sum \div b.samples}]

-----------------------------------------------------------------------------
(* Correction.  Levels and gains are in tenths of a decibel, dc is the     *)
(* largest offset of a channel and offset the request to remove it.        *)

MinGain == 1        \* 0.05 dB, rounded up to the unit
MinDc   == 5        \* of full scale, in ten thousandths

\* request: target (optional), ceiling, offset.
PlanCorrection(before, request) ==
  LET wanted == {t - l : t \in request.target, l \in before.loudness}
      safe   == {g \in wanted : \A p \in before.truePeak : p + g <= request.ceiling}
      useful == {g \in wanted : Magnitude(g) >= MinGain}
  IN  [offset  |-> request.offset /\ before.dc >= MinDc,
       gain    |-> IF before.truePeak = {} THEN {} ELSE safe \cap useful,
       refused |-> \/ request.target # {} /\ (wanted = {} \/ before.truePeak = {})
                   \/ useful \ safe # {}]

\* What apply does to the output and to the staged file beside it: "none" or whose it is.
ApplyCorrection(plan, output, decodes) ==
  IF plan.gain = {} /\ ~plan.offset THEN [result |-> "unsupported", output |-> output, staged |-> "none"]
  ELSE IF output # "none" THEN [result |-> "unsupported", output |-> output, staged |-> "none"]
  ELSE IF ~decodes THEN [result |-> "error", output |-> "none", staged |-> "none"]
  ELSE [result |-> "ok", output |-> "corrected", staged |-> "none"]
=============================================================================
