----------------------------- MODULE MCAmendment -----------------------------
(* A small instance of Amendment for TLC: requests that change one field   *)
(* to one value or to another, or both fields, or the second field only    *)
(* with a blank value for the first.                                       *)
EXTENDS Amendment, TLC

CONSTANTS old, new, newer, f1, f2

MCInitial == [f \in Fields |-> old]
MCChangeChoices ==
    {f1 :> new, (f1 :> newer) @@ (f2 :> new), (f1 :> Blank) @@ (f2 :> newer)}

Symmetric == Permutations(Reviews) \cup Permutations(Requests)
=============================================================================
