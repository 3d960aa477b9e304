----------------------------- MODULE MCRentBilling -----------------------------
(* A small instance of RentBilling for TLC: one run of the billing at a     *)
(* time.                                                                    *)
EXTENDS RentBilling, TLC

CONSTANTS l1, l2

(* The first month has a first and a later day, the others a first day only. *)
(* The calendar is longer than the clock runs, so that a quarter opened in    *)
(* the last month still ends in it.                                           *)
ShortMonths == [m \in 1..12 |-> IF m = 1 THEN 2 ELSE 1]

(* A monthly lease from the first of month 1; a quarterly one from the middle *)
(* of it.                                                                     *)
Starts == l1 :> 1 @@ l2 :> 2
Terms == l1 :> 1 @@ l2 :> 2

Symmetry == Permutations(Workers)
=============================================================================
