----------------------------- MODULE MCDiskStore -----------------------------
(* A small instance of DiskStore for TLC: two records, three saves that    *)
(* overlap.  The properties are checked with fairness.                     *)
EXTENDS DiskStore, TLC
=============================================================================
