---------------------------- MODULE DurableStore ----------------------------
(***************************************************************************)
(* What a store that is kept in memory and saved now and then promises to  *)
(* its users: a start finds the records as one save left them, all         *)
(* together, and a save takes every record as it is committed at that      *)
(* instant, or as the change being made to it will leave it.  Saves look   *)
(* atomic, however long they take and however they overlap.                *)
(*                                                                         *)
(* This is the contract DiskStore implements (SaveToFile, LoadFromFile).   *)
(***************************************************************************)
EXTENDS Naturals

CONSTANTS Records,
          NoFile   \* the value of safe before the first save

VARIABLES up,    \* the store is in use
          view,  \* view[k]: the committed version of the record k
          safe   \* what the last save left, or NoFile

dvars == <<up, view, safe>>

\* A new store has every record in its first version.
New == [k \in Records |-> 1]

Init ==
    /\ ~up
    /\ view = New
    /\ safe = NoFile

\* A start brings back what was saved ...
Recover ==
    /\ ~up /\ up'
    /\ safe # NoFile /\ view' = safe
    /\ UNCHANGED safe

\* ... or begins anew: nothing was saved, or it cannot be read.
Begin ==
    /\ ~up /\ up'
    /\ view' = New
    /\ UNCHANGED safe

Commit(k) ==
    /\ up
    /\ view' = [view EXCEPT ![k] = @ + 1]
    /\ UNCHANGED <<up, safe>>

Save ==
    /\ up
    /\ safe' \in [Records -> Nat]
    /\ \A k \in Records : safe'[k] \in {view[k], view[k] + 1}
    /\ UNCHANGED <<up, view>>

\* What was not saved is gone.
Halt ==
    /\ up /\ ~up'
    /\ view' = New
    /\ UNCHANGED safe

Next ==
    \/ Recover
    \/ Begin
    \/ \E k \in Records : Commit(k)
    \/ Save
    \/ Halt

Spec == Init /\ [][Next]_dvars
=============================================================================
