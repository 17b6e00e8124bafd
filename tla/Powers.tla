-------------------------------- MODULE Powers --------------------------------
(***************************************************************************)
(* Powers of two, by which the blocks of streams and of arrays grow.       *)
(***************************************************************************)
EXTENDS Integers

TwoTo[k \in Nat] == IF k = 0 THEN 1 ELSE 2 * TwoTo[k - 1]

\* How often a size has to be doubled to reach what is needed.
Doublings(size, need) ==
    CHOOSE k \in 0..need : need <= size * TwoTo[k] /\ \A m \in 0..(k - 1) : size * TwoTo[m] < need
==============================================================================
