------------------------------- MODULE Biquad -------------------------------
(***************************************************************************)
(* The filters of audio-dsp/Biquad.cpp: how a type and its parameters      *)
(* become coefficients, and a sample is filtered.                          *)
(*                                                                         *)
(* Sines, square roots and powers are not computed: a parameter record p   *)
(* holds A, the amplitude, an integer, and as multiples of 1 / p.one the   *)
(* cosine c of the frequency, alpha and beta, which the q, the bandwidth   *)
(* or the slope give, and k, the tangent of half the frequency; slope is 0 *)
(* when the configuration has none.  Every coefficient is multiplied by    *)
(* p.one, and by what the code divides all six by: normalizeCoEffs divides *)
(* by a0 at last, which here stays the common denominator.  A denominator  *)
(* of 0 stands for coefficients of which some are not numbers.             *)
(***************************************************************************)
EXTENDS Integers, FiniteSets

CONSTANT Parameters         (* records of one, A, c, alpha, beta, k, slope  *)

(* Those of a frequency below half the sample rate and a positive q, slope *)
(* or bandwidth.                                                           *)
ASSUME ParametersAssumption ==
  \A p \in Parameters :
    /\ {p.one, p.A, p.alpha, p.beta, p.k} \subseteq Nat \ {0}
    /\ p.c \in Int /\ -p.one < p.c /\ p.c < p.one /\ p.slope \in Nat

VARIABLE filter             (* the last configured: type, p and coeffs      *)

(* coeffs[0..4], and the a0 they are to be divided by.                     *)
normalizeCoEffs(a0, a1, a2, b0, b1, b2) ==
  [b0 |-> b0, b1 |-> b1, b2 |-> b2, a1 |-> a1, a2 |-> a2, a0 |-> a0]

NotNumbers == normalizeCoEffs(0, 0, 0, 0, 0, 0)

highPassCoEffs(p) ==        (* doubled *)
  LET one == p.one  c == p.c  alpha == p.alpha
  IN  normalizeCoEffs(2 * (one + alpha), -4 * c, 2 * (one - alpha),
                      one + c, -2 * (one + c), one + c)

highPassFOCoEffs(p) ==
  normalizeCoEffs(p.one + p.k, -(p.one - p.k), 0, p.one, -p.one, 0)

lowPassCoEffs(p) ==         (* doubled *)
  LET one == p.one  c == p.c  alpha == p.alpha
  IN  normalizeCoEffs(2 * (one + alpha), -4 * c, 2 * (one - alpha),
                      one - c, 2 * (one - c), one - c)

lowPassFOCoEffs(p) ==
  normalizeCoEffs(p.one + p.k, -(p.one - p.k), 0, p.k, p.k, 0)

(* The amplitude multiplies alpha above and divides it below.              *)
peakCoEffs(p) ==
  LET one == p.one * p.A  c == p.c * p.A  up == p.alpha * p.A * p.A  down == p.alpha
  IN  normalizeCoEffs(one + down, -2 * c, one - down, one + up, -2 * c, one - up)

(* A slope's beta is a square root: of this, but for positive factors.     *)
Root(p) == (p.A * p.A + 1) * (12 - p.slope) + 2 * p.A * p.slope

HasRoot(p) == p.slope = 0 \/ Root(p) >= 0
Beta(p) == IF p.slope > 0 /\ Root(p) = 0 THEN 0 ELSE p.beta

(* Mutant: beta's sign.                                                    *)
highShelfCoEffs_Sign(p) ==
  LET A == p.A  one == p.one  c == p.c  beta == Beta(p)
  IN  IF ~HasRoot(p) THEN NotNumbers ELSE
      normalizeCoEffs((A + 1) * one - (A - 1) * c - beta,
                      2 * ((A - 1) * one - (A + 1) * c),
                      (A + 1) * one - (A - 1) * c + beta,
                      A * ((A + 1) * one + (A - 1) * c + beta),
                      -2 * A * ((A - 1) * one + (A + 1) * c),
                      A * ((A + 1) * one + (A - 1) * c - beta))

highShelfCoEffs(p) ==
  LET A == p.A  one == p.one  c == p.c  beta == Beta(p)
  IN  IF ~HasRoot(p) THEN NotNumbers ELSE
      normalizeCoEffs((A + 1) * one - (A - 1) * c + beta,
                      2 * ((A - 1) * one - (A + 1) * c),
                      (A + 1) * one - (A - 1) * c - beta,
                      A * ((A + 1) * one + (A - 1) * c + beta),
                      -2 * A * ((A - 1) * one + (A + 1) * c),
                      A * ((A + 1) * one + (A - 1) * c - beta))

highShelfFOCoEffs(p) ==
  LET A == p.A
  IN  normalizeCoEffs(A * p.k + p.one, A * p.k - p.one, 0,
                      A * p.k + A * A * p.one, A * p.k - A * A * p.one, 0)

lowShelfCoEffs(p) ==
  LET A == p.A  one == p.one  c == p.c  beta == Beta(p)
  IN  IF ~HasRoot(p) THEN NotNumbers ELSE
      normalizeCoEffs((A + 1) * one + (A - 1) * c + beta,
                      -2 * ((A - 1) * one + (A + 1) * c),
                      (A + 1) * one + (A - 1) * c - beta,
                      A * ((A + 1) * one - (A - 1) * c + beta),
                      2 * A * ((A - 1) * one - (A + 1) * c),
                      A * ((A + 1) * one - (A - 1) * c - beta))

lowShelfFOCoEffs(p) ==
  LET A == p.A
  IN  normalizeCoEffs(p.k + A * p.one, p.k - A * p.one, 0,
                      A * A * p.k + A * p.one, A * A * p.k - A * p.one, 0)

notchCoEffs(p) ==
  normalizeCoEffs(p.one + p.alpha, -2 * p.c, p.one - p.alpha, p.one, -2 * p.c, p.one)

bandPassCoEffs(p) ==
  normalizeCoEffs(p.one + p.alpha, -2 * p.c, p.one - p.alpha, p.alpha, 0, -p.alpha)

allPassCoEffs(p) ==
  normalizeCoEffs(p.one + p.alpha, -2 * p.c, p.one - p.alpha,
                  p.one - p.alpha, -2 * p.c, p.one + p.alpha)

(* Its alpha, a quotient, is infinite where the tangent is one; otherwise  *)
(* all are multiplied by its denominator.                                  *)
allPassFOCoEffs(p) ==
  IF p.k = p.one THEN NotNumbers
  ELSE normalizeCoEffs(p.k + p.one, p.k - p.one, 0, p.k - p.one, p.k + p.one, 0)

Type == {"Highpass", "HighpassFO", "Lowpass", "LowpassFO", "Peaking", "Highshelf", "HighshelfFO",
         "Lowshelf", "LowshelfFO", "Notch", "Bandpass", "Allpass", "AllpassFO"}

(* The generators of a q, a bandwidth and a slope differ in alpha and beta *)
(* alone.                                                                  *)
Coefficients(type, p) ==
  CASE type = "Highpass"    -> highPassCoEffs(p)
    [] type = "HighpassFO"  -> highPassFOCoEffs(p)
    [] type = "Lowpass"     -> lowPassCoEffs(p)
    [] type = "LowpassFO"   -> lowPassFOCoEffs(p)
    [] type = "Peaking"     -> peakCoEffs(p)
    [] type = "Highshelf"   -> highShelfCoEffs(p)
    [] type = "HighshelfFO" -> highShelfFOCoEffs(p)
    [] type = "Lowshelf"    -> lowShelfCoEffs(p)
    [] type = "LowshelfFO"  -> lowShelfFOCoEffs(p)
    [] type = "Notch"       -> notchCoEffs(p)
    [] type = "Bandpass"    -> bandPassCoEffs(p)
    [] type = "Allpass"     -> allPassCoEffs(p)
    [] type = "AllpassFO"   -> allPassFOCoEffs(p)

(* Type::Free: the coefficients go where process has the others' b0 ...    *)
FreeCoefficients(a1, a2, b0, b1, b2) == normalizeCoEffs(1, b1, b2, a1, a2, b0)

strMapType ==
  [highpass |-> "Highpass", lowpass |-> "Lowpass", highpass_fo |-> "HighpassFO",
   lowpass_fo |-> "LowpassFO", peaking |-> "Peaking", highshelf |-> "Highshelf",
   highshelf_fo |-> "HighpassFO", lowshelf |-> "Lowshelf", lowshelf_fo |-> "LowpassFO",
   notch |-> "Notch", bandpass |-> "Bandpass", allpass |-> "Allpass", allpass_fo |-> "AllpassFO"]

FilterInit ==
  filter \in {[type |-> t, p |-> p, coeffs |-> Coefficients(t, p)] : t \in Type, p \in Parameters}

configure(type) == filter' = [filter EXCEPT !.type = type, !.coeffs = Coefficients(type, filter.p)]

FilterNext == \E type \in Type : configure(type)

(* A sample of process, solved for the input that makes the next d0; in    *)
(* and out have a0 as their denominator.                                   *)
Filtered(k, w, d0) ==
  [in |-> k.a0 * d0 + k.a1 * w[1] + k.a2 * w[2],
   out |-> k.b0 * d0 + k.b1 * w[1] + k.b2 * w[2],
   w |-> <<d0, w[1]>>]

(***************************************************************************)
(* Properties.                                                             *)
(***************************************************************************)
(* Two samples of a wave whose cosine is cc / one are amplified by num/den.*)
Amplifies(num, den, w, cc, one) ==
  LET k == filter.coeffs
      next(v) == 2 * cc * v[1] - one * v[2]
      first == Filtered(k, <<one * w[1], one * w[2]>>, next(w))
      second == Filtered(k, first.w, (next(first.w)) \div one)
  IN  first.out * den = first.in * num /\ second.out * den = second.in * num

AtDC(num) == Amplifies(num, 1, <<1, 1>>, 1, 1)
AtNyquist(num) == Amplifies(num, 1, <<1, -1>>, -1, 1)

AtFrequency(num) ==
  \A w \in {<<1, 0>>, <<0, 1>>} :
    Amplifies(num, 1, <<filter.p.one * w[1], filter.p.one * w[2]>>, filter.p.c, filter.p.one)

(* Each type filters as its name says, whatever the parameters: it passes  *)
(* or blocks a constant signal, the highest frequency and its own one, and *)
(* a shelf or peak amplifies by the square of A, which is the gain.        *)
FilterShapes ==
  LET gain == filter.p.A * filter.p.A
  IN  CASE filter.type \in {"Highpass", "HighpassFO"} -> AtDC(0) /\ AtNyquist(1)
        [] filter.type \in {"Lowpass", "LowpassFO"}   -> AtDC(1) /\ AtNyquist(0)
        [] filter.type \in {"Highshelf", "HighshelfFO"} -> AtDC(1) /\ AtNyquist(gain)
        [] filter.type \in {"Lowshelf", "LowshelfFO"}   -> AtDC(gain) /\ AtNyquist(1)
        [] filter.type = "Peaking"  -> AtDC(1) /\ AtNyquist(1) /\ AtFrequency(gain)
        [] filter.type = "Notch"    -> AtDC(1) /\ AtNyquist(1) /\ AtFrequency(0)
        [] filter.type = "Bandpass" -> AtDC(0) /\ AtNyquist(0) /\ AtFrequency(1)
        [] filter.type = "Allpass"  -> AtDC(1) /\ AtNyquist(1)
        [] OTHER                    -> AtDC(1) /\ AtNyquist(-1)

(* No filter feeds back more than it decays: the conditions for the poles  *)
(* to lie inside the unit circle.                                          *)
Stable ==
  LET k == filter.coeffs
  IN  /\ k.a0 > 0
      /\ -k.a0 < k.a2 /\ k.a2 < k.a0
      /\ -(k.a0 + k.a2) < k.a1 /\ k.a1 < k.a0 + k.a2

(* What a type cannot do: a first order all-pass at a quarter of the       *)
(* sample rate, and a shelf whose slope is too steep for its gain.         *)
Impossible(type, p) ==
  \/ type = "AllpassFO" /\ p.k = p.one
  \/ type \in {"Highshelf", "Lowshelf"} /\ p.slope > 0 /\ Root(p) <= 0

(* Each type that computes its coefficients is the filter of its name,     *)
(* with these exceptions, for which nothing is checked when it is          *)
(* configured.                                                             *)
FiltersAsNamed == Impossible(filter.type, filter.p) \/ (FilterShapes /\ Stable)

(* Not so, for these exceptions: no sample after is a number.              *)
AlwaysNumbers == filter.coeffs.a0 # 0

(* A name chooses its own type.  Not so of two shelves, which become       *)
(* passes.                                                                 *)
NamesChooseTypes == Cardinality({strMapType[n] : n \in DOMAIN strMapType}) = Cardinality(Type)

(* The free filter uses its coefficients as named.  Not so: they are in    *)
(* another order than process reads them.                                  *)
FreeAsGiven == FreeCoefficients(1, 2, 3, 4, 5) = normalizeCoEffs(1, 1, 2, 3, 4, 5)
=============================================================================
