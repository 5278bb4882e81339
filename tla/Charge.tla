-------------------------------- MODULE Charge --------------------------------
(***************************************************************************)
(* customerChargeJPY: what a customer is charged for a cost in yen, the    *)
(* cost divided by 1 - rate / 100 and rounded. The code divides float64    *)
(* numbers. For costs up to MaxCost (and far beyond) the rounding of the   *)
(* division matters only where the exact quotient ends in one half: the    *)
(* double of 1 - rate / 100 is a little more or less than it should be,    *)
(* and a quotient that comes out just below the half is rounded down.      *)
(***************************************************************************)
EXTENDS Integers

Rates == 0..99

\* No cost of a day is more: generateMetrics has at most 39599 impressions, 1134 clicks
\* of these, and 228.85 yen for a click.
MaxCost == 260000

\* The double that 1 - rate / 100 gives, rounded after the division and again after the
\* subtraction, less the exact number, in hundredths of 2^-53, for the rates at which a
\* quotient can end in one half: those with 100 - rate divisible by 8.
Excess(rate) ==
    CASE rate = 4 -> -32
      [] rate = 12 -> 4
      [] rate = 20 -> 40
      [] rate = 28 -> -24
      [] rate = 36 -> 12
      [] rate = 44 -> 48
      [] rate = 52 -> -16
      [] rate = 60 -> 20
      [] rate = 68 -> -44
      [] rate = 76 -> -8
      [] rate = 84 -> 28
      [] rate = 92 -> -36
      [] OTHER -> 0

\* The nearest integer, a half upwards, of cost / (share / 100).
RoundHalfUp(cost, share) == (200 * cost + share) \div (2 * share)

\* The quotient ends in one half.
IsTie(cost, share) == (200 * cost) % (2 * share) = share

PowersOfTwo ==
    {1, 2, 4, 8, 16, 32, 64, 128, 256, 512, 1024, 2048, 4096, 8192, 16384, 32768, 65536,
     131072, 262144, 524288, 1048576, 2097152, 4194304, 8388608, 16777216}

\* The largest power of two up to n: the scale of the doubles around n.
Scale(n) == CHOOSE p \in PowersOfTwo : p <= n /\ n < 2 * p

\* The double that stands for a quotient of n and one half is less than that, because
\* the excess of the divisor is more than half the distance between two doubles.
FallsShort(n, rate) == (2 * n + 1) * Excess(rate) > 2 * (100 - rate) * Scale(n)

\* Mutant: the quotient is converted without being rounded.
CustomerChargeTruncated(cost, rate) ==
    IF rate = 0 THEN cost ELSE (100 * cost) \div (100 - rate)

\* Mutant: a half goes to the even number.
CustomerChargeToEven(cost, rate) ==
    LET share == 100 - rate
        half == (100 * cost) \div share
    IN  IF rate = 0 THEN cost
        ELSE IF IsTie(cost, share) /\ (half % 2 = 0 \/ FallsShort(half, rate)) THEN half
        ELSE RoundHalfUp(cost, share)

\* customerChargeJPY, for a rate that it accepts.
CustomerCharge(cost, rate) ==
    LET share == 100 - rate
        half == (100 * cost) \div share
    IN  IF rate = 0 THEN cost
        ELSE IF IsTie(cost, share) /\ FallsShort(half, rate) THEN half
        ELSE RoundHalfUp(cost, share)

=============================================================================
