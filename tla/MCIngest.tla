---- MODULE MCIngest ----
(***************************************************************************)
(* Instances of Ingest for TLC.                                            *)
(***************************************************************************)
EXTENDS Ingest, TLC

CONSTANTS a, b, u1, u2, k1, k2

\* Slots and users are interchangeable in every action and property.
Interchangeable == Permutations({k1, k2}) \cup Permutations({u1, u2})

AllFaults == {"ensure", "store", "finish", "evict", "crash", "drop", "restart", "revoke"}
====
