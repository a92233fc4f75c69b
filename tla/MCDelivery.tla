---- MODULE MCDelivery ----
(***************************************************************************)
(* Instances of Delivery for TLC.                                          *)
(***************************************************************************)
EXTENDS Delivery

CONSTANTS a, x, r, p1, g1, far, amount
====
