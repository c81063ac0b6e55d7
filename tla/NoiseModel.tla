----------------------------- MODULE NoiseModel -----------------------------
(***************************************************************************)
(* The model of noise and speech that the detector of speech learns while  *)
(* it hears: for each channel two Gaussians of noise and two of speech,    *)
(* in fixed-point numbers of 16 bits (GmmProbability and vad_gmm.c).       *)
(* The recorder does not reset it within a recording, so that ten minutes  *)
(* of any sound must leave a model that can still tell speech from noise.  *)
(*                                                                         *)
(* One channel, and sounds that last a number of like frames.  The         *)
(* channel's feature and the small value that NoiseFloor keeps of it are   *)
(* inputs, and so is whether another channel or the sum over the channels  *)
(* calls the frame speech.  Numbers are the code's: a cast to 16 bits wraps around, and so *)
(* does a product of 32 bits, as the recorder's compiler has it; a right   *)
(* shift by n is a division by 2^n that rounds down.                       *)
(***************************************************************************)
EXTENDS Integers, Sequences

CONSTANTS
  Channels,      \* a subset of 0 .. 5
  Features,      \* the logarithm of a channel's energy, Q4
  Medians,       \* small values of the feature (NoiseFloor), Q4
  Length,        \* frames of a sound
  MaxFrames      \* of a behaviour

ModelAssumption ==
  /\ Channels \subseteq 0 .. 5 /\ Features \subseteq 0 .. 2047 /\ Medians \subseteq 0 .. 2047
  /\ Length \in Nat \ {0} /\ MaxFrames \in Nat

VARIABLES
  channel,    \* of the behaviour
  model,      \* two of each: the means of noise and speech, Q7, and their deviations, Q7
  mean_value, \* the smoothed median, Q4
  sound,      \* the inputs of the last frame
  frames      \* heard so far

modelVars == <<channel, model, mean_value, sound, frames>>

Gaussians == 1 .. 2
Both(Of(_)) == <<Of(1), Of(2)>>

(* The tables, for one channel.                                            *)
kNoiseDataWeights(c) ==
  << <<34, 62, 72, 66, 53, 25>>[c + 1], <<94, 66, 56, 62, 75, 103>>[c + 1] >>
kSpeechDataWeights(c) ==
  << <<48, 82, 45, 87, 50, 47>>[c + 1], <<80, 46, 83, 41, 78, 81>>[c + 1] >>
kMinimumDifference(c) == IF c < 2 THEN 544 ELSE 576
kMaximumSpeech(c) == IF c < 2 THEN 11392 ELSE 11520
kMaximumNoise(c) == <<9216, 9088, 8960, 8832, 8704, 8576>>[c + 1]
kMinimumMean == <<640, 768>>
kMinStd == 384
kLocalThreshold == 82

(* The start of a recording: WebRtcVad_InitCore copies the tables.          *)
Start(c) ==
  [noise  |-> << <<6738, 4892, 7065, 6715, 6771, 3369>>[c + 1],
                 <<7646, 3863, 7820, 7266, 5020, 4362>>[c + 1] >>,
   nstd   |-> << <<378, 1064, 493, 582, 688, 593>>[c + 1], <<474, 697, 475, 688, 421, 455>>[c + 1] >>,
   speech |-> << <<8306, 10085, 10078, 11823, 11843, 6309>>[c + 1],
                 <<9473, 9571, 10879, 7581, 8180, 7483>>[c + 1] >>,
   sstd   |-> << <<555, 505, 567, 524, 585, 1231>>[c + 1], <<509, 828, 492, 1540, 1079, 850>>[c + 1] >>]

Sounds == {s \in [feature : Features, median : Medians, others : BOOLEAN] : s.median <= s.feature}

Init == /\ channel \in Channels /\ model = Start(channel) /\ mean_value = 1600
        /\ sound = (CHOOSE s \in Sounds : TRUE) /\ frames = 0

-----------------------------------------------------------------------------
(* Arithmetic: the wrap of n bits, C's division, and a product of a number *)
(* below 2^15 and one of 24 bits, modulo 2^32 and shifted right by n.      *)
Wrapped(v, n) == LET r == v % (2^n) IN IF r < 2^(n - 1) THEN r ELSE r - 2^n
Int16(v) == Wrapped(v, 16)
Abs(v) == IF v < 0 THEN -v ELSE v
Quotient(num, den) == (IF (num < 0) = (den < 0) THEN 1 ELSE -1) * (Abs(num) \div Abs(den))
Product(a, b, n) ==
  LET low  == a * (b % 4096)
      high == Wrapped(a * (b \div 4096) + low \div 4096, 20)
  IN  IF n < 12 THEN high * 2^(12 - n) + (low % 4096) \div 2^n ELSE high \div 2^(n - 12)
Clipped(v, low, high) == IF high < v \/ high < low THEN high ELSE IF v < low THEN low ELSE v

(* The number of shifts that bring the highest bit to bit 30.              *)
NormW32(h) == IF h = 0 THEN 31 ELSE 30 - CHOOSE n \in 0 .. 30 : h \div 2^n = 1

WeightedAverage(means, weights) == means[1] * weights[1] + means[2] * weights[2]

(* The density of one Gaussian at x, Q20, and (x - m) / s^2, Q11.          *)
GaussianProbability(x, mean, std) ==
  LET inv_std  == (131072 + std \div 2) \div std
      inv_std2 == ((inv_std \div 4) * (inv_std \div 4)) \div 4
      distance == Int16(8 * x - mean)
      delta    == Int16((inv_std2 * distance) \div 1024)
      exponent == (delta * distance) \div 512
      log2     == (5909 * exponent) \div 4096
      halvings == (log2 - 1) \div 1024 + 1
      exp      == IF halvings > 10 THEN 0 ELSE (1024 + ((-log2) % 1024)) \div 2^halvings
  IN  [delta |-> delta, p |-> IF exponent < 22005 THEN inv_std * exp ELSE 0]

(* Both Gaussians of a kind at x, weighted.                                *)
Densities(x, means, stds, weights) ==
  LET one(k) ==
        LET g == GaussianProbability(x, means[k], stds[k])
        IN  [delta |-> g.delta, p |-> weights[k] * g.p]
  IN  Both(one)
Noise(m, c, x) == Densities(x, m.noise, m.nstd, kNoiseDataWeights(c))
Speech(m, c, x) == Densities(x, m.speech, m.sstd, kSpeechDataWeights(c))
Total(g) == g[1].p + g[2].p

(* How many bits speech is more likely than noise; the channel's decision. *)
LogLikelihoodRatio(noise, speech) == NormW32(Total(noise)) - NormW32(Total(speech))
Local(noise, speech) == 4 * LogLikelihoodRatio(noise, speech) > kLocalThreshold

(* The share of each Gaussian in the density, Q14; without any, that of    *)
(* noise goes to the first.                                                *)
Shares(g, without) ==
  LET h     == Int16(Total(g) \div 4096)
      first == Int16(Quotient((g[1].p \div 4096) * 16384, h))
  IN  IF h > 0 THEN <<first, 16384 - first>> ELSE without

-----------------------------------------------------------------------------
(* A frame of noise moves the noise's means; every frame corrects them by  *)
(* the long-term minimum.                                                  *)
NoiseMeans(m, c, g, minimum, vadflag) ==
  LET share  == Shares(g, <<16384, 0>>)
      global == Int16(WeightedAverage(m.noise, kNoiseDataWeights(c)) \div 64)
      back   == (Int16(16 * minimum - global) * 154) \div 512
      towards(k) == IF vadflag THEN 0 ELSE (Int16((share[k] * g[k].delta) \div 2048) * 655) \div 2^22
      moved(k) == Clipped(m.noise[k] + towards(k) + back, (k + 4) * 128, (71 + k - c) * 128)
  IN  Both(moved)

(* A frame of speech moves the speech's means; their limit is that of the  *)
(* channel before.                                                         *)
SpeechMeans(m, c, g) ==
  LET share == Shares(g, <<0, 0>>)
      limit == (IF c = 0 THEN 12800 ELSE kMaximumSpeech(c - 1)) + 640
      towards(k) == ((Int16((share[k] * g[k].delta) \div 2048) * 6554) \div 2^21 + 1) \div 2
      moved(k) == Clipped(m.speech[k] + towards(k), kMinimumMean[k], limit)
  IN  Both(moved)

(* The deviations follow the distance, by a quotient that C rounds to zero *)
(* and cuts to 16 bits; never below the smallest.                          *)
Larger(a, b) == IF a < b THEN b ELSE a
Step(scaled, den) == IF scaled > 0 THEN Int16(Quotient(scaled, den)) ELSE -Int16(Quotient(-scaled, den))

NoiseStds(m, x, g) ==
  LET share == Shares(g, <<16384, 0>>)
      scaled(k) ==
        Product((share[k] + 2) \div 4, (g[k].delta * (x - m.noise[k] \div 8)) \div 8 - 4096, 14)
      wider(k) == Larger(m.nstd[k] + (Int16(Step(scaled(k), m.nstd[k]) + 32)) \div 64, kMinStd)
  IN  Both(wider)

SpeechStds(m, x, g) ==
  LET share == Shares(g, <<0, 0>>)
      scaled(k) ==
        Product(share[k] \div 4, (g[k].delta * (x - (m.speech[k] + 4) \div 8)) \div 8 - 4096, 4)
      wider(k) ==
        Larger(m.sstd[k] + (Int16(Step(scaled(k), Int16(10 * m.sstd[k])) + 128)) \div 256, kMinStd)
  IN  Both(wider)

(* Models that are too close are moved apart, by four fifths and one fifth *)
(* of what is missing.                                                     *)
Moved(means, by) == <<means[1] + by, means[2] + by>>
Difference(m, c) ==
  WeightedAverage(m.speech, kSpeechDataWeights(c)) \div 512
    - WeightedAverage(m.noise, kNoiseDataWeights(c)) \div 512

Separated(m, c) ==
  LET missing == kMinimumDifference(c) - Difference(m, c)
  IN  IF missing <= 0 THEN m
      ELSE [m EXCEPT !.speech = Moved(@, (13 * missing) \div 4), !.noise = Moved(@, -((3 * missing) \div 4))]

(* The weighted means stay within the channel's limits.                    *)
Lowered(means, weights, limit) ==
  Moved(means, -Larger(WeightedAverage(means, weights) \div 128 - limit, 0))
Limited(m, c) ==
  [m EXCEPT !.speech = Lowered(@, kSpeechDataWeights(c), kMaximumSpeech(c)),
            !.noise = Lowered(@, kNoiseDataWeights(c), kMaximumNoise(c))]

(* A loud frame: the decision of all channels, then the update.            *)
Learned(m, c, x, minimum, others) ==
  LET noise   == Noise(m, c, x)
      speech  == Speech(m, c, x)
      vadflag == others \/ Local(noise, speech)
      means   == [m EXCEPT !.noise = NoiseMeans(m, c, noise, minimum, vadflag)]
      updated == IF vadflag THEN [means EXCEPT !.speech = SpeechMeans(m, c, speech),
                                               !.sstd = SpeechStds(m, x, speech)]
                 ELSE [means EXCEPT !.nstd = NoiseStds(m, x, noise)]
  IN  Limited(Separated(updated, c), c)

(* The minimum falls fast and rises slowly; the first frame leaves it.     *)
Smoothed(mean, median, first) ==
  LET alpha == IF first THEN 0 ELSE IF median < mean THEN 6553 ELSE 32439
  IN  ((alpha + 1) * mean + (32767 - alpha) * (IF first THEN 1600 ELSE median) + 16384) \div 32768

GmmProbability(next) ==
  /\ frames < MaxFrames
  /\ frames' = frames + 1
  /\ sound' = next
  /\ mean_value' = Smoothed(mean_value, next.median, frames = 0)
  /\ model' = Learned(model, channel, next.feature, mean_value', next.others)
  /\ UNCHANGED channel

Next == \E next \in Sounds : (frames % Length # 0 => next = sound) /\ GmmProbability(next)

Spec == Init /\ [][Next]_modelVars

-----------------------------------------------------------------------------
TypeOK ==
  /\ channel \in Channels /\ mean_value \in 0 .. 2047 /\ sound \in Sounds /\ frames \in 0 .. MaxFrames
  /\ \A k \in Gaussians : model.noise[k] \in 0 .. 2^14 /\ model.speech[k] \in 0 .. 2^14

(* The deviations never get so large that ten times one, the divisor of    *)
(* SpeechStds, is no number of 16 bits, nor smaller than at the start.     *)
DeviationsFit == \A k \in Gaussians : model.nstd[k] \in 378 .. 3276 /\ model.sstd[k] \in 378 .. 3276

(* After any sounds the models of speech and noise are still apart, but    *)
(* for one unit that the roundings may take, and the middle of the noise   *)
(* is not more likely speech, nor the middle of speech noise: neither the  *)
(* wraps nor the limits make the channel deaf.                             *)
Middle(means, weights) == WeightedAverage(means, weights) \div 1024
RatioAt(x) == LogLikelihoodRatio(Noise(model, channel, x), Speech(model, channel, x))

StillTells ==
  /\ frames > 0 => Difference(model, channel) >= kMinimumDifference(channel) - 1
  /\ RatioAt(Middle(model.noise, kNoiseDataWeights(channel))) <= 0
  /\ RatioAt(Middle(model.speech, kSpeechDataWeights(channel))) >= 0

=============================================================================
