---------------------------- MODULE MCAdminReview ----------------------------
(* The console with an amendment that waits for a review, and the steps of *)
(* a review, which Clients leaves out because no button leads to them.     *)
EXTENDS Clients

MCOpenings ==
    {[page |-> "admin", stored |-> Officer, uses |-> {"console"}, clicks |-> 1, moves |-> 1,
      others |-> 1, faults |-> 1, gender |-> "MALE", backlog |-> TRUE]}

Reviewing ==
    /\ booted
    /\ \/ /\ RejectionDialog \/ HandleReviewAmendment
          /\ opening.clicks > 0
          /\ opening' = [opening EXCEPT !.clicks = @ - 1]
       \/ /\ \E c \in DOMAIN calls :
                 \/ calls[c] # NoCall /\ HandleReviewAmendmentResumes(c)
                 \/ calls[c] # NoCall /\ AdminReviewAmendment(c) /\ UNCHANGED <<feed, web>>
          /\ UNCHANGED opening
    /\ UNCHANGED desk

ReviewSpec == Init /\ [][Next \/ Reviewing]_vars
=============================================================================
