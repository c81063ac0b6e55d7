----------------------------- MODULE SoundBands -----------------------------
(***************************************************************************)
(* What the detector of speech hears of a sound: WebRtcVad_Downsampling    *)
(* and WebRtcVad_CalculateFeatures, which split a frame into six bands by  *)
(* all-pass filters of 16 bits and give the logarithm of each band's       *)
(* energy.  The filters run through a whole recording, with what is left   *)
(* of earlier sounds in their states.                                      *)
(*                                                                         *)
(* A sound is a square wave of some level, for some frames; level 0 is     *)
(* silence, and a long half of a wave is a constant.  A shift right is a   *)
(* division that rounds down; casts to 16 bits wrap around.  A state that  *)
(* the code has shifted left by one (state32) is here a half of it, which  *)
(* makes no difference to what is left of it.  Samples of -32768 only, of  *)
(* which the code's sum of squares overflows, are left out.                *)
(***************************************************************************)
EXTENDS Integers, Sequences

CONSTANTS
  Sounds,     \* levels of 16 bits, and samples of half a wave
  Length,     \* frames of a sound
  MaxFrames,  \* of a behaviour
  FrameSize   \* samples at 16000 per second, 160 in the code

BandsAssumption ==
  /\ \A s \in Sounds : s.level \in 0 .. 32767 /\ s.half \in Nat \ {0}
  /\ Length \in Nat \ {0} /\ MaxFrames \in Nat /\ FrameSize \in {160, 320, 480}

VARIABLES
  sound,     \* of the last frame
  filters,   \* downsampling_filter_states, upper_state, lower_state, hp_filter_state
  features,  \* of the last frame, and its total energy
  frames

bandVars == <<sound, filters, features, frames>>

kOffsetVector == <<368, 368, 272, 176, 176, 176>>
kMinEnergy == 10

Init ==
  /\ sound = [level |-> 0, half |-> 1] /\ frames = 0
  /\ filters = [down |-> <<0, 0>>, upper |-> <<0, 0, 0, 0, 0>>, lower |-> <<0, 0, 0, 0, 0>>,
                high |-> <<0, 0, 0, 0>>]
  /\ features = [bands |-> kOffsetVector, total |-> 0]

Int16(v) == LET r == v % 65536 IN IF r < 32768 THEN r ELSE r - 65536

-----------------------------------------------------------------------------
(* Two all-pass filters, on the odd and the even samples, whose sum is half *)
(* as many samples.                                                        *)
RECURSIVE Downsampled(_, _, _, _)
Downsampled(in, i, state, out) ==
  IF i > Len(in) THEN [out |-> out, state |-> state]
  ELSE LET first  == Int16(state[1] \div 2 + (5243 * in[i]) \div 2^14)
           second == Int16(state[2] \div 2 + (1392 * in[i + 1]) \div 2^14)
       IN  Downsampled(in, i + 2,
             <<in[i] - (5243 * first) \div 2^12, in[i + 1] - (1392 * second) \div 2^12>>,
             Append(out, Int16(first + second)))

(* SplitFilter, with the two calls of AllPassFilter: a sample and half of  *)
(* the next state of a branch.                                             *)
Passed(coefficient, half, x) == Int16((half + (coefficient * x) \div 2) \div 2^15)
NextState(coefficient, x, y) == x * 2^14 - coefficient * y

RECURSIVE SplitFrom(_, _, _, _, _, _)
SplitFrom(in, i, upper, lower, hp, lp) ==
  IF i > Len(in) THEN [hp |-> hp, lp |-> lp, upper |-> Int16(upper \div 2^15), lower |-> Int16(lower \div 2^15)]
  ELSE LET u == Passed(20972, upper, in[i])
           l == Passed(5571, lower, in[i + 1])
       IN  SplitFrom(in, i + 2, NextState(20972, in[i], u), NextState(5571, in[i + 1], l),
                     Append(hp, Int16(u - l)), Append(lp, Int16(u + l)))

SplitFilter(in, band, f) ==
  SplitFrom(in, 1, f.upper[band] * 2^15, f.lower[band] * 2^15, <<>>, <<>>)

(* The filter that removes what is below 80 Hz.                            *)
RECURSIVE HighPassFilter(_, _, _, _)
HighPassFilter(in, i, s, out) ==
  IF i > Len(in) THEN [out |-> out, state |-> s]
  ELSE LET y == Int16((6631 * in[i] - 13262 * s[1] + 6631 * s[2] + 7756 * s[3] - 5620 * s[4]) \div 2^14)
       IN  HighPassFilter(in, i + 1, <<in[i], s[1], y, s[3]>>, Append(out, y))

-----------------------------------------------------------------------------
(* The highest bit of n, and WebRtcSpl_GetSizeInBits.                      *)
HighBit(n) == CHOOSE b \in 0 .. 30 : n \div 2^b = 1
SizeInBits(n) == HighBit(n) + 1

(* The shift that makes the sum of the squares a number of 31 bits, by the *)
(* largest sample; the negative of -32768 is not large.                    *)
Loudest(in) ==
  LET sizes == {Int16(IF in[i] > 0 THEN in[i] ELSE -in[i]) : i \in 1 .. Len(in)} \cup {-1}
  IN  CHOOSE s \in sizes : \A t \in sizes : t <= s

ScalingSquare(in) ==
  LET smax  == Loudest(in)
      spare == 30 - HighBit(smax * smax)
  IN  IF smax = 0 \/ spare > SizeInBits(Len(in)) THEN 0 ELSE SizeInBits(Len(in)) - spare

RECURSIVE EnergyFrom(_, _, _)
EnergyFrom(in, i, scaling) ==
  IF i > Len(in) THEN 0 ELSE (in[i] * in[i]) \div 2^scaling + EnergyFrom(in, i + 1, scaling)

(* The logarithm, Q4, from the 14 bits below the highest one.              *)
Logarithm(energy, scaling, offset) ==
  LET normalizing == HighBit(energy) - 14
      normal      == IF normalizing < 0 THEN energy * 2^(-normalizing) ELSE energy \div 2^normalizing
      log2        == 14336 + (normal % 2^14) \div 16
      log         == Int16((24660 * log2) \div 2^19 + ((scaling + normalizing) * 24660) \div 2^9)
  IN  (IF log < 0 THEN 0 ELSE log) + offset

LogOfEnergy(in, offset, total) ==
  LET scaling == ScalingSquare(in)
      energy  == EnergyFrom(in, 1, scaling)
      shifts  == scaling + HighBit(energy) - 14
  IN  IF energy = 0 THEN [log |-> offset, total |-> total]
      ELSE [log |-> Logarithm(energy, scaling, offset),
            total |-> IF total > kMinEnergy THEN total
                      ELSE IF shifts >= 0 THEN total + kMinEnergy + 1
                      ELSE Int16(total + energy * 2^scaling)]

(* From 4000 Hz down: the upper half in two bands, the lower one in four.  *)
CalculateFeatures(f, in) ==
  LET narrow  == Downsampled(in, 1, f.down, <<>>)
      at2000  == SplitFilter(narrow.out, 1, f)
      at3000  == SplitFilter(at2000.hp, 2, f)
      at1000  == SplitFilter(at2000.lp, 3, f)
      at500   == SplitFilter(at1000.lp, 4, f)
      at250   == SplitFilter(at500.lp, 5, f)
      lowest  == HighPassFilter(at250.lp, 1, f.high, <<>>)
      splits  == <<at2000, at3000, at1000, at500, at250>>
      e5      == LogOfEnergy(at3000.hp, kOffsetVector[6], 0)
      e4      == LogOfEnergy(at3000.lp, kOffsetVector[5], e5.total)
      e3      == LogOfEnergy(at1000.hp, kOffsetVector[4], e4.total)
      e2      == LogOfEnergy(at500.hp, kOffsetVector[3], e3.total)
      e1      == LogOfEnergy(at250.hp, kOffsetVector[2], e2.total)
      e0      == LogOfEnergy(lowest.out, kOffsetVector[1], e1.total)
  IN  [filters |-> [down |-> narrow.state,
                    upper |-> <<splits[1].upper, splits[2].upper, splits[3].upper, splits[4].upper, splits[5].upper>>,
                    lower |-> <<splits[1].lower, splits[2].lower, splits[3].lower, splits[4].lower, splits[5].lower>>,
                    high |-> lowest.state],
       features |-> [bands |-> <<e0.log, e1.log, e2.log, e3.log, e4.log, e5.log>>, total |-> e0.total]]

(* WebRtcVad_CalcVad16khz of the next frame.                               *)
Sample(s, n) == IF (n \div s.half) % 2 = 0 THEN s.level ELSE -s.level

Frame(s) ==
  /\ frames < MaxFrames
  /\ LET heard == CalculateFeatures(filters, [i \in 1 .. FrameSize |-> Sample(s, frames * FrameSize + i - 1)])
     IN  filters' = heard.filters /\ features' = heard.features
  /\ sound' = s
  /\ frames' = frames + 1

Next == \E s \in Sounds : (frames % Length # 0 => s = sound) /\ Frame(s)

Spec == Init /\ [][Next]_bandVars

-----------------------------------------------------------------------------
Bands == 1 .. 6

TypeOK ==
  /\ frames \in 0 .. MaxFrames
  /\ features.total \in 0 .. 32767 /\ \A b \in Bands : features.bands[b] \in 0 .. 2047
  /\ \A i \in 1 .. 4 : filters.high[i] \in -32768 .. 32767
  /\ \A i \in 1 .. 5 : {filters.upper[i], filters.lower[i]} \subseteq -32768 .. 32767

(* The frame is at least the n-th of its sound.                            *)
Since(n) == frames > 0 /\ (frames - 1) % Length >= n - 1

(* A tone in the middle of a band is loudest there, whatever was heard     *)
(* before, sounds included that wrap around in the filters.  The two bands *)
(* above 2000 Hz change places, because the samples that are dropped       *)
(* mirror them (the comments of CalculateFeatures have it the other way).  *)
Middle == [half \in {80, 20, 10, 5, 3} |->
             CASE half = 80 -> 1 [] half = 20 -> 2 [] half = 10 -> 3 [] half = 5 -> 4 [] half = 3 -> 6]
ToneInItsBand ==
  sound.level = 1000 /\ sound.half \in DOMAIN Middle /\ Since(3) =>
    \A b \in Bands \ {Middle[sound.half]} : features.bands[b] < features.bands[Middle[sound.half]]

(* Sixty milliseconds after any sound nothing is left of it but what the   *)
(* rounding of the filters keeps up, 19 dB above nothing: a band does not  *)
(* hear it for ever.                                                       *)
SoundsFade ==
  sound.level = 0 /\ Since(6) => \A b \in Bands : features.bands[b] <= kOffsetVector[b] + 304

=============================================================================
