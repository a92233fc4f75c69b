---- MODULE MCCapture ----
(***************************************************************************)
(* Instances of Capture for TLC.                                           *)
(***************************************************************************)
EXTENDS Capture, TLC

CONSTANTS a, b, u1, u2

\* Calls and users are interchangeable in every action and property.
Interchangeable == Permutations({a, b}) \cup Permutations({u1, u2})
====
