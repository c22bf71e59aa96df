----------------------------- MODULE MCBignum -----------------------------
(* Small instances of Bignum: the constants that are not model values.      *)
EXTENDS Bignum, TLC

MCPower == [r \in Radixes \cup {Base} |-> [n \in 0..MaxPower |-> r^n]]

\* What the library does next does not depend on the call it did last.
View == <<obj, size, mem, ret>>

\* Blocks and objects are interchangeable.
Symmetry == Permutations(Objs) \cup Permutations(Bufs)
============================================================================
