---------------------------- MODULE RollingStats ----------------------------
(* Mean and variance over a sliding window, updated in constant time          *)
(* (include/nexus/quant/rolling_stats.hpp): Welford's update while the window *)
(* fills, an exchange of the oldest value for the new one afterwards.  Exact  *)
(* rationals for doubles, so the drift of long runs is not seen here.         *)
EXTENDS Rational, Sequences

CONSTANTS
    WindowSize,
    Sample      \* the values added, integers

ASSUME WindowAssumption == WindowSize \in Nat \ {0} /\ Sample \subseteq Int

VARIABLES
    values, index, count, mean, m2,
    recent  \* history: the last values added, WindowSize of them at most

statsVars == <<values, index, count, mean, m2, recent>>

StatsInit ==
    /\ values = [i \in 0 .. WindowSize - 1 |-> 0]
    /\ index = 0 /\ count = 0 /\ mean = Whole(0) /\ m2 = Whole(0)
    /\ recent = <<>>

NotBelowZero(a) == IF a.num < 0 THEN Whole(0) ELSE a

FillWindow(value) ==
    /\ count < WindowSize /\ count' = count + 1
    /\ LET delta == Whole(value) -- mean
       IN  /\ mean' = mean ++ (delta // (count + 1))
           /\ m2'   = m2 ++ (delta ** (Whole(value) -- mean'))

SlideWindowMeanTwice(value, old) ==   \* mistaken: the updated mean on both sides
    /\ count = WindowSize /\ UNCHANGED count
    /\ mean' = mean ++ (Whole(value - old) // WindowSize)
    /\ m2'   = NotBelowZero((m2 ++ ((Whole(value) -- mean') ** (Whole(value) -- mean')))
                                -- ((Whole(old) -- mean') ** (Whole(old) -- mean')))
SlideWindow(value, old) ==
    /\ count = WindowSize /\ UNCHANGED count
    /\ mean' = mean ++ (Whole(value - old) // WindowSize)
    /\ m2'   = NotBelowZero((m2 ++ ((Whole(value) -- mean) ** (Whole(value) -- mean')))
                                -- ((Whole(old) -- mean) ** (Whole(old) -- mean')))

add(value) ==
    /\ FillWindow(value) \/ SlideWindow(value, values[index])
    /\ values' = [values EXCEPT ![index] = value]
    /\ index'  = (index + 1) % WindowSize
    /\ recent' = Append(IF count < WindowSize THEN recent ELSE Tail(recent), value)

StatsNext == \E value \in Sample : add(value)

variance == IF count < 2 THEN Whole(0) ELSE m2 // (count - 1)
is_ready == count = WindowSize

StatsTypeOK ==
    /\ values \in [0 .. WindowSize - 1 -> Sample \cup {0}]
    /\ index \in 0 .. WindowSize - 1 /\ count \in 0 .. WindowSize
    /\ m2.num >= 0

(* The incremental moments are those of the last values: n times the mean is  *)
(* their sum, and n(n-1) times the variance is n times the sum of their       *)
(* squares less the square of their sum, also after the ring of values has    *)
(* gone round any number of times.                                            *)
MomentsOfWindow ==
    LET n   == Len(recent)
        sum == MapThenSumSet(LAMBDA i : recent[i], 1 .. n)
        squares == MapThenSumSet(LAMBDA i : recent[i] * recent[i], 1 .. n)
    IN  /\ n = count /\ (is_ready <=> n = WindowSize)
        /\ mean ** Whole(n) = Whole(sum)
        /\ n > 1 => variance ** Whole(n * (n - 1)) = Whole(n * squares - sum * sum)
=============================================================================
