--------------------------- MODULE DuplicateScore ---------------------------
(***************************************************************************)
(* The similarity of two profiles, as DeduplicationService.                *)
(* calculateSimilarity computes it, and the candidates the repositories'   *)
(* FindPotentialDuplicates select for it.                                  *)
(*                                                                         *)
(* Scores are whole percents.  The cosine similarity of two face           *)
(* embeddings is a parameter (in percent); it is symmetric, as the code's  *)
(* is.  An absent field (an empty string, no embedding) is None.  Letter   *)
(* case does not matter: names and emails stand for their folded form.     *)
(***************************************************************************)
EXTENDS Integers

CONSTANTS
    Faces,       \* the face embeddings
    Similarity,  \* Similarity[f, g]: their cosine similarity, in percent
    None         \* an absent field

ASSUME SimilarityAssumption ==
    /\ None \notin Faces
    /\ Similarity \in [Faces \X Faces -> -100 .. 100]
    /\ \A f, g \in Faces : Similarity[f, g] = Similarity[g, f]

Threshold == 70

\* Two fields match when both are present and equal.
SameField(x, y) == x # None /\ x = y

Points(matches, n) == IF matches THEN n ELSE 0

\* Embeddings decide alone when both profiles have one; portraits otherwise.
BioScore(p, q) ==
    IF p.face # None /\ q.face # None
      THEN IF Similarity[p.face, q.face] < 80 THEN 0
           ELSE LET scaled == 80 + ((Similarity[p.face, q.face] - 80) * 95) \div 100
                IN  IF scaled > 99 THEN 99 ELSE scaled
      ELSE Points(SameField(p.photo, q.photo), 95)

\* Legal names are compared even when they are empty.
Score(p, q) ==
    LET total == BioScore(p, q)
                   + Points(SameField(p.phone, q.phone), 50)
                   + Points(SameField(p.email, q.email), 45)
                   + Points(p.name = q.name, 30)
                   + Points(SameField(p.dob, q.dob), 25)
    IN  IF total > 100 THEN 99 ELSE total

Duplicates(p, q) == Score(p, q) >= Threshold

\* The confidence of docs/ARCHITECTURE.md (2.4), which knows no biometrics.
DocumentedScore(p, q) ==
    Points(SameField(p.phone, q.phone), 50)
      + Points(SameField(p.email, q.email), 45)
      + Points(p.name = q.name /\ SameField(p.dob, q.dob), 55)

\* Mutation: the profiles with a face or a portrait are not selected.
CandidateContactsOnly(p, q) ==
    \/ SameField(p.phone, q.phone)
    \/ SameField(p.email, q.email)
    \/ p.name = q.name /\ p.dob = q.dob

\* FindPotentialDuplicates selects the stored profile q for the profile p.
Candidate(p, q) ==
    \/ SameField(p.phone, q.phone)
    \/ SameField(p.email, q.email)
    \/ p.name = q.name /\ p.dob = q.dob
    \/ q.photo # None
    \/ q.face # None
=============================================================================
