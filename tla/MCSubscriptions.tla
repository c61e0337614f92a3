--------------------------- MODULE MCSubscriptions ---------------------------
(* Subscriptions for TLC: the ends of short, long and leap months, the turn  *)
(* of a year and days in between.                                            *)
EXTENDS Subscriptions

On(y, m, d) == [year |-> y, month |-> m, day |-> d]

ShortMonths ==
  {On(2023, 12, 31), On(2024, 1, 30), On(2024, 2, 29), On(2024, 3, 1), On(2024, 3, 31)}
=============================================================================
