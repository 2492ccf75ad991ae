------------------------- MODULE DashboardAmendments -------------------------
(***************************************************************************)
(* The amendments and the document vault of the dashboard                  *)
(* (app/dashboard/page.tsx), and what the dashboard as a whole promises.   *)
(***************************************************************************)
EXTENDS DashboardPage

OpenAmendmentModal ==
    /\ On("dashboard")
    /\ ui.identity # None /\ ~ui.modal
    /\ Clicked([ui EXCEPT !.modal = TRUE])

CloseAmendmentModal == On("dashboard") /\ ui.modal /\ Clicked([ui EXCEPT !.modal = FALSE])

\* The modal offers every document listed for attachment.
HandleToggleDocSelection ==
    /\ On("dashboard")
    /\ ui.modal
    /\ \E d \in ui.documents :
           Clicked([ui EXCEPT !.selected = IF d \in @ THEN @ \ {d} ELSE @ \cup {d}])

EditForm ==
    /\ On("dashboard")
    /\ ui.modal
    /\ \E field \in Fields :
           /\ ui.form[field] # "other"
           /\ Clicked([ui EXCEPT !.form[field] = "other", !.edited = @ \cup {field}])

\* The fields that differ from the profile, with what the form has for them.
RequestedChanges ==
    [field \in {f \in Fields : ui.form[f] # "" /\ ui.form[f] # ui.profile[f]} |-> ui.form[field]]

\* disabled={submittingAmendment}
SubmitEnabled == ui.modal /\ ~ui.submitting

\* The call records what was typed, whether the profile has a gender and whether
\* there is a profile (history).
HandleSubmitAmendment ==
    /\ On("dashboard")
    /\ SubmitEnabled
    /\ \/ /\ DOMAIN RequestedChanges = {}
          /\ Clicked([ui EXCEPT !.error = TRUE])
       \/ /\ DOMAIN RequestedChanges # {}
          /\ Calls("amend", [changes |-> RequestedChanges, documents |-> ui.selected,
                             edited |-> ui.edited, genderless |-> ui.profile.gender = "",
                             profileless |-> ui.profile = NullProfile],
                   "createAmendmentRequest", [ui EXCEPT !.submitting = TRUE, !.error = FALSE])

HandleSubmitAmendmentResumes(c) ==
    /\ Resumes(c, "amend")
    /\ Sets1(c, IF Fulfilled(c, "createAmendmentRequest")
                THEN LET id == Value(c, "createAmendmentRequest") IN
                     Succeeds([ui EXCEPT !.amendments = @ \cup {id}, !.modal = FALSE,
                                         !.submitting = FALSE],
                              [about |-> "amendment", id |-> id])
                ELSE [ui EXCEPT !.error = TRUE, !.submitting = FALSE])

\* disabled={uploadingDoc}, in the vault and in the modal.
UploadEnabled == ~ui.uploading

\* The file chosen is read first.
HandleFileUpload ==
    /\ On("dashboard")
    /\ Shown
    /\ UploadEnabled
    /\ stored # None
    /\ \E d \in Documents \ world.documents : Await("read", d, stored, {})
    /\ ui' = [ui EXCEPT !.uploading = TRUE]
    /\ SameSession
    /\ UNCHANGED <<world, feed>>

\* reader.onload, on whatever page.  There is no reader.onerror: of a file that
\* cannot be read nothing is heard, and the upload stays under way.
FileRead(c) ==
    /\ Resumes(c, "read")
    /\ AwaitNext(c, "upload", {"uploadIdentityDocument"}) \/ End(c)
    /\ SameSession
    /\ UNCHANGED <<world, feed, ui>>

HandleFileUploadResumes(c) ==
    /\ Resumes(c, "upload")
    /\ Sets1(c, IF Fulfilled(c, "uploadIdentityDocument")
                THEN LET d == Value(c, "uploadIdentityDocument") IN
                     Succeeds([ui EXCEPT !.documents = @ \cup {d}, !.selected = @ \cup {d},
                                         !.uploading = FALSE],
                              [about |-> "document", id |-> d])
                ELSE [ui EXCEPT !.error = TRUE, !.uploading = FALSE])

-----------------------------------------------------------------------------
\* A message of success is true of what the API has stored: the answer to the
\* request was recorded, the amendment was submitted, one was approved, the
\* document is in the vault, although answers get lost and events cross the
\* calls.  It need not be the last word: an answer that overlaps may be recorded
\* over it, and an approved amendment be rejected in another review.
SuccessIsTrue ==
    On("dashboard") =>
        CASE ui.success.about = "consent" -> ui.success.answer \in world.recorded
          [] ui.success.about = "amendment" -> ui.success.id \in DOMAIN world.amendments
          [] ui.success.about = "approval" -> world.approved # {}
          [] ui.success.about = "document" -> ui.success.id \in world.documents
          [] OTHER -> TRUE

\* An amendment asks for the fields the holder typed in and no others, also
\* when an approval changed the profile while the page was open: only the
\* gender that the form proposes for a profile without one slips in.  While the
\* page has no profile to compare with, every field of the form is sent.
OnlyEditedFieldsRequested ==
    \A c \in DOMAIN calls :
        calls[c].by = "amend" /\ ~calls[c].arg.profileless =>
            DOMAIN calls[c].arg.changes \subseteq
                calls[c].arg.edited \cup (IF calls[c].arg.genderless THEN {"gender"} ELSE {})
=============================================================================
