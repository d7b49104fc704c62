----------------------------- MODULE Aggregator -----------------------------
(***************************************************************************)
(* The running statistics of a window (sampling_engine/aggregator.c), by   *)
(* Welford's method, and what they are statistics of.  Doubles are         *)
(* modelled by integers: the values fed in are multiples of a number that  *)
(* every count up to the largest divides, so that the quotients are exact; *)
(* StatisticsOf would tell if they were not.                               *)
(***************************************************************************)
EXTENDS Integers, Sequences, FiniteSetsExt, SequencesExt

aggregator_reset ==
    [count |-> 0, mean |-> 0, m2 |-> 0, min |-> 0, max |-> 0, last_raw |-> 0, has_data |-> FALSE]

\* Mutant of aggregator_add_sample: the first sample is no special case.
AddToZero(a, value) ==
    LET count == a.count + 1
        delta == value - a.mean
        mean  == a.mean + delta \div count
    IN  [count |-> count, mean |-> mean, m2 |-> a.m2 + delta * (value - mean),
         min |-> IF a.min < value THEN a.min ELSE value,
         max |-> IF a.max > value THEN a.max ELSE value,
         last_raw |-> value, has_data |-> TRUE]

aggregator_add_sample(a, value) ==
    LET count == a.count + 1
        delta == value - a.mean
        mean  == a.mean + delta \div count
    IN  [count |-> count, mean |-> mean, m2 |-> a.m2 + delta * (value - mean),
         min |-> IF a.has_data /\ a.min < value THEN a.min ELSE value,
         max |-> IF a.has_data /\ a.max > value THEN a.max ELSE value,
         last_raw |-> value, has_data |-> TRUE]

\* aggregator_stddev before its square root, as a numerator and a denominator.
aggregator_variance(a) ==
    IF a.count < 2 THEN <<0, 1>> ELSE <<a.m2, a.count - 1>>

-----------------------------------------------------------------------------
(* The reference: statistics of a sequence of samples *)

SumOf(s) ==
    LET sum[i \in 0..Len(s)] == IF i = 0 THEN 0 ELSE sum[i - 1] + s[i]
    IN  sum[Len(s)]

SumOfSquares(s) == SumOf([i \in 1..Len(s) |-> s[i] * s[i]])

\* The accumulator a holds the count, mean, extremes and last of the samples s,
\* and its variance is their sample variance: the sum of the squared distances
\* from the mean over Len(s) - 1, or 0 for a single sample.
StatisticsOf(a, s) ==
    LET n == Len(s)
        v == aggregator_variance(a)
    IN  /\ a.count = n
        /\ n > 0 => /\ a.mean * n = SumOf(s)
                    /\ a.min = Min(ToSet(s)) /\ a.max = Max(ToSet(s))
                    /\ a.last_raw = Last(s)
        /\ IF n < 2 THEN v[1] = 0
           ELSE n * (n - 1) * v[1] = v[2] * (n * SumOfSquares(s) - SumOf(s) * SumOf(s))
=============================================================================
