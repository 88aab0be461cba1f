-------------------------------- MODULE Sums --------------------------------
(***************************************************************************)
(* The sum of a sequence of numbers, as the function of its partial sums.  *)
(***************************************************************************)
EXTENDS Integers, Sequences

PartialSums(numbers) ==
    LET sum[k \in 0 .. Len(numbers)] == IF k = 0 THEN 0 ELSE sum[k - 1] + numbers[k]
    IN sum
SumOf(numbers) == PartialSums(numbers)[Len(numbers)]
=============================================================================
