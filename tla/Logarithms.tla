------------------------------- MODULE Logarithms -------------------------------
(* Powers of 2 and logarithms, as uclib/uclib.h computes them. *)
EXTENDS Integers

Pow2[k \in Nat] == IF k = 0 THEN 1 ELSE 2 * Pow2[k - 1]

\* max_log2: rounded up.
MaxLog2(x) == CHOOSE k \in 0 .. x : Pow2[k] >= x /\ (k = 0 \/ Pow2[k - 1] < x)

=================================================================================
