---- MODULE MCMachine ----
(* Instances of Machine for TLC. *)
EXTENDS Machine, TLC
CONSTANTS t1, t2
TokenSymmetry == Permutations(Tokens)
====
