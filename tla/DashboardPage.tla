---------------------------- MODULE DashboardPage ----------------------------
(***************************************************************************)
(* The dashboard of an identity holder (app/dashboard/page.tsx).  Loading  *)
(* it is a chain of calls, which an event about an amendment starts again; *)
(* an event about a new request fetches the list of requests, so that      *)
(* several handlers may be under way and their answers cross.  While a     *)
(* load is under way the page is a spinner.                                *)
(*                                                                         *)
(* Left out: the tabs, the download and clipboard buttons.                 *)
(***************************************************************************)
EXTENDS AuthSession

NoMessage == [about |-> "nothing"]

\* An amendment form not filled yet.
BlankForm == [field \in Fields |-> ""]

DashboardState(token) ==
    [page |-> "dashboard", mounted |-> TRUE,
     closure |-> token,        \* the token of the context when it was mounted
     loading |-> TRUE, error |-> FALSE, identity |-> None,
     profile |-> BlankForm,
     form |-> BlankForm,
     edited |-> {},            \* fields typed in since the form was filled (history)
     requests |-> {}, amendments |-> {}, documents |-> {}, selected |-> {},
     qr |-> None, scopes |-> "default", duration |-> 15,
     connected |-> FALSE, alert |-> FALSE,
     success |-> NoMessage,
     timer |-> FALSE,          \* whether a timer may still clear the message
     generating |-> FALSE, uploading |-> FALSE, submitting |-> FALSE,
     loadingVC |-> FALSE, vc |-> FALSE, loadingDID |-> FALSE, did |-> FALSE,
     modal |-> FALSE]

Succeeds(state, message) == [state EXCEPT !.success = message, !.timer = TRUE]

\* The page shows its tabs.
Shown == On("dashboard") /\ ~ui.loading /\ (ui.identity # None \/ ~ui.error)

\* A click that changes the state of the page alone.
Clicked(state) ==
    /\ Shown
    /\ ui' = state
    /\ SameSession
    /\ UNCHANGED <<world, feed, calls>>

\* A handler starts, with the token in localStorage.
Calls(by, arg, f, state) ==
    /\ Shown
    /\ stored # None
    /\ Await(by, arg, stored, {f})
    /\ ui' = state
    /\ SameSession
    /\ UNCHANGED <<world, feed>>

\* The handler c ends and sets the state of the page.
Sets1(c, state) ==
    /\ End(c)
    /\ Sets(c, state)
    /\ SameSession
    /\ UNCHANGED <<world, feed>>

\* The handler c sets the state of the page and goes on.
SetsThen(c, state, by, functions) ==
    /\ AwaitNext(c, by, functions)
    /\ Sets(c, state)
    /\ SameSession
    /\ UNCHANGED <<world, feed>>

-----------------------------------------------------------------------------
(* loadDashboardData *)

\* The start of a load in the page state given: the token is that of the first
\* render, or else the one in localStorage.
Loading(state) == [state EXCEPT !.loading = TRUE, !.error = FALSE]

DashboardMount ==
    /\ ui = Opening("dashboard")
    /\ \/ /\ ActiveToken = None
          /\ Push("login", calls)
       \/ /\ ActiveToken # None
          /\ ui' = Loading(DashboardState(session))
          /\ Await("load identity", None, ActiveToken, {"getMyIdentity"})
          /\ feed' = IF stored # None THEN Connecting(stored, None) ELSE NoFeed
    /\ SameSession
    /\ UNCHANGED world

ShowIdentityFormOnce(answer) ==
    [ui EXCEPT !.identity = answer.account, !.profile = answer.profile,
               !.form = IF ui.form = BlankForm THEN answer.profile ELSE @]

\* The profile and the form are filled together; without a profile the form
\* stays as it is.
ShowIdentity(answer) ==
    IF answer.profile = NullProfile
    THEN [ui EXCEPT !.identity = answer.account, !.profile = NullProfile]
    ELSE [ui EXCEPT !.identity = answer.account,
                    !.profile = answer.profile,
                    !.form = [answer.profile EXCEPT !.gender = IF @ = "" THEN "MALE" ELSE @],
                    !.edited = {}]

LoadIdentityNoFinally(c) ==
    /\ Resumes(c, "load identity")
    /\ IF Fulfilled(c, "getMyIdentity")
       THEN SetsThen(c, ShowIdentity(Value(c, "getMyIdentity")),
                     "load requests", {"getPendingVerificationRequests"})
       ELSE Sets1(c, [ui EXCEPT !.error = TRUE])

\* Without an identity nothing else is loaded.
LoadIdentityResumes(c) ==
    /\ Resumes(c, "load identity")
    /\ IF Fulfilled(c, "getMyIdentity")
       THEN SetsThen(c, ShowIdentity(Value(c, "getMyIdentity")),
                     "load requests", {"getPendingVerificationRequests"})
       ELSE Sets1(c, [ui EXCEPT !.error = TRUE, !.loading = FALSE])

\* The scopes and the lifetime of the QR code that is loaded with the page.
DefaultQR == <<"default", 15>>

\* Each of the others may fail without consequence.
LoadRequestsResumes(c) ==
    /\ Resumes(c, "load requests")
    /\ SetsThen(c, IF Fulfilled(c, "getPendingVerificationRequests")
                   THEN [ui EXCEPT !.requests = Value(c, "getPendingVerificationRequests")]
                   ELSE ui,
                "load history", {"listMyAmendments", "listMyDocuments"})

LoadHistoryResumes(c) ==
    /\ Resumes(c, "load history")
    /\ calls' = [calls EXCEPT ![c].by = "load qr", ![c].arg = DefaultQR,
                              ![c].got = [f \in {"generateQRToken"} |-> Waiting]]
    /\ Sets(c, IF Fulfilled(c, "listMyAmendments") /\ Fulfilled(c, "listMyDocuments")
               THEN [ui EXCEPT !.amendments = Value(c, "listMyAmendments"),
                               !.documents = Value(c, "listMyDocuments")]
               ELSE ui)
    /\ SameSession
    /\ UNCHANGED <<world, feed>>

LoadQRResumes(c) ==
    /\ Resumes(c, "load qr")
    /\ Sets1(c, IF Fulfilled(c, "generateQRToken")
                THEN [ui EXCEPT !.qr = Value(c, "generateQRToken"), !.loading = FALSE]
                ELSE [ui EXCEPT !.loading = FALSE])

\* The page could not be loaded.
ReturnToSignIn ==
    /\ On("dashboard")
    /\ ~ui.loading /\ ui.error /\ ui.identity = None
    /\ Logout
    /\ Push("login", calls)
    /\ UNCHANGED world

-----------------------------------------------------------------------------
(* The event stream. *)

DashboardFeedOpens ==
    /\ On("dashboard")
    /\ FeedOpens
    /\ ui' = [ui EXCEPT !.connected = TRUE]
    /\ SameSession
    /\ UNCHANGED <<world, calls>>

DashboardFeedBreaks ==
    /\ On("dashboard")
    /\ FeedBreaks
    /\ ui' = [ui EXCEPT !.connected = FALSE]
    /\ SameSession
    /\ UNCHANGED <<world, calls>>

\* The event comes on both topics and is handled twice.
ConsentRequestCreated ==
    /\ On("dashboard")
    /\ \E topic \in DOMAIN feed.queue : Delivered(topic, "CONSENT_REQUEST_CREATED")
    /\ ui' = [ui EXCEPT !.alert = TRUE]
    /\ Await("refresh", None, feed.as, {"getPendingVerificationRequests"})
    /\ SameSession
    /\ UNCHANGED world

RefreshResumes(c) ==
    /\ Resumes(c, "refresh")
    /\ Sets1(c, IF Fulfilled(c, "getPendingVerificationRequests")
                THEN [ui EXCEPT !.requests = Value(c, "getPendingVerificationRequests")]
                ELSE ui)

StatusShownAsApproval(event) == [ui EXCEPT !.success = [about |-> "approval"]]

\* What the event says is shown; of a rejection nothing remains, since the load
\* that follows clears the error first.
StatusShown(event) ==
    IF event = "AMENDMENT_APPROVED" THEN [ui EXCEPT !.success = [about |-> "approval"]]
    ELSE [ui EXCEPT !.error = TRUE]

AmendmentStatusChanged ==
    /\ On("dashboard")
    /\ \E topic \in DOMAIN feed.queue, event \in {"AMENDMENT_APPROVED", "AMENDMENT_REJECTED"} :
           /\ Delivered(topic, event)
           /\ ui' = Loading(StatusShown(event))
    /\ Await("load identity", None, IF ui.closure # None THEN ui.closure ELSE stored,
             {"getMyIdentity"})
    /\ SameSession
    /\ UNCHANGED world

-----------------------------------------------------------------------------
(* Messages and consent. *)

ReviewNow == ui.alert /\ Clicked([ui EXCEPT !.alert = FALSE])

\* A timer of a message clears the message there is by then.
MessageTimeout ==
    /\ On("dashboard")
    /\ ui.timer
    /\ ui' = [ui EXCEPT !.success = NoMessage, !.timer = FALSE]
    /\ SameSession
    /\ UNCHANGED <<world, feed, calls>>

\* Every request listed has its buttons, whatever its status.
ConsentButtons(r) == r \in ui.requests

HandleConsent ==
    /\ On("dashboard")
    /\ \E r \in Requests, approved \in BOOLEAN :
           /\ ConsentButtons(r)
           /\ Calls("consent", [request |-> r, approved |-> approved],
                    "respondVerificationRequest", ui)

HandleConsentResumes(c) ==
    /\ Resumes(c, "consent")
    /\ IF Fulfilled(c, "respondVerificationRequest")
       THEN SetsThen(c, [ui EXCEPT !.success = [about |-> "consent", answer |-> calls[c].arg]],
                     "consent refresh", {"getPendingVerificationRequests"})
       ELSE Sets1(c, [ui EXCEPT !.error = TRUE])

\* The timer of the message is set last; when the list cannot be fetched, the
\* message stays, next to an error.
ConsentRefreshResumes(c) ==
    /\ Resumes(c, "consent refresh")
    /\ Sets1(c, IF Fulfilled(c, "getPendingVerificationRequests")
                THEN [ui EXCEPT !.requests = Value(c, "getPendingVerificationRequests"),
                                !.timer = TRUE]
                ELSE [ui EXCEPT !.error = TRUE])

-----------------------------------------------------------------------------
(* The QR studio, the credentials and the DID document. *)

ToggleScope ==
    /\ On("dashboard")
    /\ Clicked([ui EXCEPT !.scopes = IF @ = "default" THEN "custom" ELSE "default"])

\* Two of the three windows that are offered (5, 15 and 60 minutes).
SetQrDuration ==
    /\ On("dashboard")
    /\ \E minutes \in {5, 15} \ {ui.duration} : Clicked([ui EXCEPT !.duration = minutes])

\* disabled={qrGenerating}
HandleGenerateCustomQR ==
    /\ On("dashboard")
    /\ ~ui.generating
    /\ Calls("qr", <<ui.scopes, ui.duration>>, "generateQRToken", [ui EXCEPT !.generating = TRUE])

HandleGenerateCustomQRResumes(c) ==
    /\ Resumes(c, "qr")
    /\ Sets1(c, IF Fulfilled(c, "generateQRToken")
                THEN Succeeds([ui EXCEPT !.qr = Value(c, "generateQRToken"), !.generating = FALSE],
                              [about |-> "qr"])
                ELSE [ui EXCEPT !.error = TRUE, !.generating = FALSE])

HandleInspectW3C ==
    /\ On("dashboard")
    /\ ui.identity # None
    /\ Calls("vc", None, "getCredentialW3C", [ui EXCEPT !.loadingVC = TRUE])

HandleInspectW3CResumes(c) ==
    /\ Resumes(c, "vc")
    /\ Sets1(c, IF Fulfilled(c, "getCredentialW3C")
                THEN [ui EXCEPT !.vc = TRUE, !.loadingVC = FALSE]
                ELSE [ui EXCEPT !.error = TRUE, !.loadingVC = FALSE])

HandleViewDID ==
    /\ On("dashboard")
    /\ ui.identity # None
    /\ Calls("did", None, "getDIDDocument", [ui EXCEPT !.loadingDID = TRUE])

HandleViewDIDResumes(c) ==
    /\ Resumes(c, "did")
    /\ Sets1(c, IF Fulfilled(c, "getDIDDocument")
                THEN [ui EXCEPT !.did = TRUE, !.loadingDID = FALSE]
                ELSE [ui EXCEPT !.error = TRUE, !.loadingDID = FALSE])

CloseVC == On("dashboard") /\ ui.vc /\ Clicked([ui EXCEPT !.vc = FALSE])
CloseDID == On("dashboard") /\ ui.did /\ Clicked([ui EXCEPT !.did = FALSE])
=============================================================================
