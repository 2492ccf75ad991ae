--------------------------- MODULE MCRegistration ---------------------------
(* A small instance of Registration for TLC. *)
EXTENDS Registration, TLC

CONSTANTS f1, f2

\* Two embeddings of one face.
MCFaces == {f1, f2}
MCSimilarity == [p \in MCFaces \X MCFaces |-> IF p[1] = p[2] THEN 100 ELSE 85]

\* Of these profiles, the first two share a phone and a date of birth (score
\* 75), the last two a name and a date of birth (55: candidates, no duplicates),
\* the first and the last a face and a date of birth (109, capped to 99).
MCProfileChoices ==
    {[name |-> "n1", dob |-> "d1", phone |-> "p1", photo |-> None, face |-> f1],
     [name |-> "n2", dob |-> "d1", phone |-> "p1", photo |-> None, face |-> None],
     [name |-> "n2", dob |-> "d1", phone |-> None, photo |-> None, face |-> f2]}

Symmetric == Permutations(Regs) \cup Permutations(Emails) \cup Permutations(EkaIDs)
=============================================================================
