-------------------------------- MODULE Sums --------------------------------
(***************************************************************************)
(* Sums of sequences of numbers.                                           *)
(***************************************************************************)
EXTENDS Integers, Sequences

(* Sum(w)[n] is the sum of the first n members of w. *)
Sum(w) ==
    LET sum[n \in 0 .. Len(w)] == IF n = 0 THEN 0 ELSE sum[n - 1] + w[n]
    IN  sum
=============================================================================
