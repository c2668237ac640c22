------------------------------ MODULE Selection ------------------------------
(***************************************************************************)
(* List comprehensions and sums: the elements of a list that are wanted, in its   *)
(* order, and the sum of a list of numbers.  Written as recursive functions, about *)
(* which theorems can be proved.                                              *)
(***************************************************************************)
EXTENDS Integers, Sequences

ChosenUpTo(sequence, wanted) ==
    LET chosen[n \in 0 .. Len(sequence)] ==
            IF n = 0 THEN <<>>
            ELSE IF sequence[n] \in wanted THEN Append(chosen[n - 1], sequence[n]) ELSE chosen[n - 1]
    IN  chosen
Chosen(sequence, wanted) == ChosenUpTo(sequence, wanted)[Len(sequence)]

SumUpTo(values) ==
    LET sum[n \in 0 .. Len(values)] == IF n = 0 THEN 0 ELSE sum[n - 1] + values[n]
    IN  sum
Sum(values) == SumUpTo(values)[Len(values)]
=============================================================================
