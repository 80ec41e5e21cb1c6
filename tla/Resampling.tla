------------------------------- MODULE Resampling ------------------------------
(***************************************************************************)
(* How the particle filter frameworks choose the number of copies of each  *)
(* sample.  Weights are natural numbers, which stand for floating point    *)
(* numbers in the same proportion; a cumulative distribution is scaled by  *)
(* the sum of the weights.                                                 *)
(*                                                                         *)
(* Floating point shows at two places.  A number that random.uniform(0, 1) *)
(* returns may be 0, or above the last cumulative weight, which is a       *)
(* rounded sum; and nrSamples * weight, where it is a whole number, may be *)
(* rounded to just below it.                                               *)
(***************************************************************************)
EXTENDS Naturals, Sequences, SequencesExt

Total(w) == FoldLeft(LAMBDA a, b : a + b, 0, w)

\* ParticleFilterFramework._normaliseWeights: without any weight all are equal.
NormaliseWeights(w) == IF Total(w) = 0 THEN [s \in DOMAIN w |-> 1] ELSE w

\* ParticleFilterFramework._cumulativeWeights.
CumulativeWeights(w) == [s \in DOMAIN w |-> Total(SubSeq(w, 1, s))]

\* Mutant: the lower bound is taken too.
DrawnInclusive(cdf, u) ==
  {j \in DOMAIN cdf : u >= (IF j = 1 THEN 0 ELSE cdf[j - 1]) /\ u <= cdf[j]}

\* The samples that are drawn by u, which stands for (u - 1, u] or exactly 0.
Drawn(cdf, u) ==
  {j \in DOMAIN cdf : u > (IF j = 1 THEN 0 ELSE cdf[j - 1]) /\ u <= cdf[j]}

\* What a draw can be: a sample, or nobody where u is 0 or above the last.
Draws(cdf) == {Drawn(cdf, u) : u \in 0..(cdf[Len(cdf)] + 1)}

\* math.floor(nrSamples * weight) of each sample.
Floor(w, s) == (Len(w) * w[s]) \div Total(w)
IsWhole(w, s) == (Len(w) * w[s]) % Total(w) = 0 /\ w[s] > 0

\* Mutant: the weights are not multiplied by their number.
FloorsUnscaled(w) == {[s \in DOMAIN w |-> w[s] \div Total(w)]}

\* The whole copies of each sample, as they may come out.
Floors(w) ==
  {[s \in DOMAIN w |-> IF s \in low THEN Floor(w, s) - 1 ELSE Floor(w, s)] :
     low \in SUBSET {s \in DOMAIN w : IsWhole(w, s)}}

\* ResidualResamplingFramework._samplesToClone: the rest of each weight.
ResidualWeights(w, k) == [s \in DOMAIN w |-> Len(w) * w[s] - k[s] * Total(w)]

-------------------------------------------------------------------------------
(* ParticleFilterFramework._cloneData: the last dead sample is replaced    *)
(* first, in the order of the samples that are copied.                     *)

Dead(clones) ==
  FoldLeftDomain(LAMBDA dead, s : IF clones[s] = 0 THEN Append(dead, s) ELSE dead,
                 <<>>, clones)

\* A sample, as often as it is copied.
Copies(clones, s) == [j \in 1..(IF clones[s] > 1 THEN clones[s] - 1 ELSE 0) |-> s]

Copied(clones) ==
  FoldLeftDomain(LAMBDA copied, s : copied \o Copies(clones, s), <<>>, clones)

\* The sample whose state a sample has after the cloning.
Source(clones, s) ==
  IF clones[s] > 0 THEN s
  ELSE LET dead == Dead(clones)
           k == CHOOSE n \in DOMAIN dead : dead[n] = s
       IN Copied(clones)[Len(dead) + 1 - k]
================================================================================
