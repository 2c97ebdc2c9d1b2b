------------------------------- MODULE Shares -------------------------------
(***************************************************************************)
(* Shares of a card's memory, in whole percent: the arithmetic by which    *)
(* ModelRunner grants a model its share and by which a retry lowers or     *)
(* raises it (runner.py: _free_share, _lower_fraction, _bigger_fraction).  *)
(* The code rounds every share it derives down to 0.01, so a whole percent *)
(* is its own grain.                                                       *)
(***************************************************************************)
EXTENDS Integers, FiniteSets

Full == 100               \* 1.0: the whole card
MinFraction == 5          \* _MIN_FRACTION
Ladder == {100, 95, 92, 90}   \* _FRACTION_LADDER
NoShare == 0              \* the None of _lower_fraction and _bigger_fraction

Lesser(a, b) == IF a <= b THEN a ELSE b

\* What is left of a card: mem is the share telemetry says is free (slack
\* taken off), used the sum of the active models' shares, limit the ceiling.
FreeShare(mem, used, limit) ==
  LET least == Lesser(mem, Lesser(Full - used, limit))
  IN  IF least > 0 THEN least ELSE 0

\* The next rung of the ladder below the current share.
LowerFraction(current) ==
  LET below == {f \in Ladder : f < current}
  IN  IF below = {} THEN NoShare
      ELSE CHOOSE f \in below : \A g \in below : g <= f

\* Twice the share, within what is free; only if that is more.
BiggerFraction(current, free) ==
  LET bigger == Lesser(2 * current, free)
  IN  IF bigger > current THEN bigger ELSE NoShare

\* The sum of the shares, counted: a share f of a model is f hundredths of the
\* card, and no two models hold the same hundredth.
Hundredths(shares) == UNION {{n} \X (1..shares[n]) : n \in DOMAIN shares}

Total(shares) == Cardinality(Hundredths(shares))
=============================================================================
