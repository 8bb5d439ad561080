------------------------------- MODULE Ranges -------------------------------
(***************************************************************************)
(* The generated columns that number the price, size and rent of a row, as *)
(* 0_Schema.sql defines them, and the ranges of the condition files the    *)
(* reference implementations compare a row with.                           *)
(***************************************************************************)
EXTENDS Integers, Sequences

(* The columns price_range, height_range, width_range, depth_range, and    *)
(* rent_range of the estates.                                              *)
(* Mutant: a chair for 3000 belongs to the first range. *)
PriceRangeInclusive(v) ==
  CASE v <= 3000 -> 0
    [] 3000 < v /\ v < 6000 -> 1
    [] 6000 <= v /\ v < 9000 -> 2
    [] 9000 <= v /\ v < 12000 -> 3
    [] 12000 <= v /\ v < 15000 -> 4
    [] 15000 <= v -> 5
PriceRange(v) ==
  CASE v < 3000 -> 0
    [] 3000 <= v /\ v < 6000 -> 1
    [] 6000 <= v /\ v < 9000 -> 2
    [] 9000 <= v /\ v < 12000 -> 3
    [] 12000 <= v /\ v < 15000 -> 4
    [] 15000 <= v -> 5
SizeRange(v) ==
  CASE v < 80 -> 0
    [] 80 <= v /\ v < 110 -> 1
    [] 110 <= v /\ v < 150 -> 2
    [] 150 <= v -> 3
RentRange(v) ==
  CASE v < 50000 -> 0
    [] 50000 <= v /\ v < 100000 -> 1
    [] 100000 <= v /\ v < 150000 -> 2
    [] 150000 <= v -> 3

-----------------------------------------------------------------------------
(* The ranges of the condition files, an inclusive minimum and an exclusive *)
(* maximum, -1 for none, as generate_ranges_from_SEPARATORS writes them.    *)
PriceSeparators == <<3000, 6000, 9000, 12000, 15000>>
SizeSeparators == <<80, 110, 150>>
RentSeparators == <<50000, 100000, 150000>>
RangeOf(seps, i) ==
  [min |-> IF i = 0 THEN -1 ELSE seps[i],
   max |-> IF i = Len(seps) THEN -1 ELSE seps[i + 1]]
Within(r, v) == (r.min # -1 => v >= r.min) /\ (r.max # -1 => v < r.max)
=============================================================================
