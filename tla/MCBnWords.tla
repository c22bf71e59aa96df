----------------------------- MODULE MCBnWords -----------------------------
(* Small instances of BnWords: words of three values, short arrays.         *)
EXTENDS BnWords, TLC

MCPower == [r \in Radixes \cup {Base} |-> [n \in 0..MaxPower |-> r^n]]
============================================================================
