-------------------------------- MODULE Clients --------------------------------
(***************************************************************************)
(* The clients of EKA ID: the web client in a browser, with its pages, its *)
(* session and its calls to the API; and the desktop shell that carries    *)
(* the web client and the backend.                                         *)
(*                                                                         *)
(* A behaviour begins with an opening: which of the two programs it is,    *)
(* the page first opened, the session localStorage holds, which controls   *)
(* the person uses and how often.  What happens by itself is not bounded.  *)
(***************************************************************************)
EXTENDS RegisterPage, VerifyPage, OrgPage, DashboardAmendments, AdminPage, DesktopShell

CONSTANTS Openings

VARIABLES opening  \* the opening, with the clicks, moves, acts of others
                   \* and failed calls left

vars == <<world, feed, calls, ui, stored, session, booted, desk, opening>>

Controls == {"sign in", "register", "verify", "organization", "consent", "qr", "credentials",
             "amendments", "documents", "console"}

\* What is stored is the session of an account the API has, if any, and nothing
\* while the shell alone is looked at.
OpeningsOK ==
    {o \in [page : Routes \cup {"desktop"}, stored : (Accounts \ {Newcomer}) \cup {None},
            uses : SUBSET Controls,
            clicks : Nat, moves : Nat, others : Nat, faults : Nat,  \* bounds
            gender : {"", "MALE"}, backlog : BOOLEAN] :             \* see FirstWorld
        o.page = "desktop" => o.stored = None}

ASSUME OpeningsAssumption == \A o \in Openings : o \in OpeningsOK

\* No page of the web client is open while the shell alone is looked at.
Init ==
    /\ opening \in Openings
    /\ world = FirstWorld(opening.gender, opening.backlog)
    /\ feed = NoFeed
    /\ calls = [c \in 1 .. MaxCalls |-> NoCall]
    /\ ui = Opening(opening.page)
    /\ stored = opening.stored
    /\ session = None
    /\ booted = (opening.page = "desktop")
    /\ desk \in IF opening.page = "desktop" THEN DeskStates ELSE {Absent}

-----------------------------------------------------------------------------
(* What the web client does by itself. *)

Mounts ==
    HomeMount \/ LoginMount \/ RegisterMount \/ VerifyMount \/ OrgMount \/ DashboardMount \/ AdminMount

\* The API settles what a call awaits.
Settled ==
    \E c \in DOMAIN calls :
        /\ Settles(c)
        /\ Fault(c) => opening.faults > 0
        /\ opening' = [opening EXCEPT !.faults = IF Fault(c) THEN @ - 1 ELSE @]
        /\ UNCHANGED <<feed, web>>

\* A handler goes on after an await.
Resumed ==
    \E c \in DOMAIN calls :
        /\ calls[c] # NoCall
        /\ \/ HandleSubmitResumes(c)
           \/ HandleRequestOtpResumes(c) \/ HandleFinalSubmitResumes(c)
           \/ HandleVerifyResumes(c)
           \/ HandleDemoRecruiterAuthResumes(c) \/ HandleCreateRequestResumes(c)
           \/ LoadIdentityResumes(c) \/ LoadRequestsResumes(c)
           \/ LoadHistoryResumes(c) \/ LoadQRResumes(c)
           \/ RefreshResumes(c) \/ HandleConsentResumes(c) \/ ConsentRefreshResumes(c)
           \/ HandleGenerateCustomQRResumes(c)
           \/ HandleInspectW3CResumes(c) \/ HandleViewDIDResumes(c)
           \/ HandleSubmitAmendmentResumes(c) \/ FileRead(c) \/ HandleFileUploadResumes(c)
           \/ LoadAdminDataResumes(c) \/ HandleAdminLoginSubmitResumes(c)
           \/ HandleStatusChangeResumes(c)
           \/ HandleSuspendAndResolveResumes(c) \/ HandleResolveDuplicateResumes(c)

\* The API goes on with an answer to a request.
Answered ==
    /\ \/ AnswerStored /\ UNCHANGED calls
       \/ AnswersNobody
       \/ \E c \in DOMAIN calls : calls[c] # NoCall /\ AnswersCall(c)
    /\ UNCHANGED web

\* What the event loop of the browser and the API owe the page.
Progress ==
    /\ \/ Restore /\ UNCHANGED <<world, feed, calls, opening>>
       \/ Mounts /\ UNCHANGED opening
       \/ booted /\ Settled
       \/ booted /\ (Resumed \/ Subscribe \/ Answered) /\ UNCHANGED opening
    /\ UNCHANGED desk

\* What happens to the page.
OrgFeedOpens == On("org") /\ FeedOpens /\ UNCHANGED <<world, calls, web>>
OrgFeedBreaks == On("org") /\ FeedBreaks /\ UNCHANGED <<world, calls, web>>

Happens ==
    /\ booted
    /\ \/ OrgFeedOpens \/ OrgFeedBreaks \/ ConsentRequestResponded
       \/ DashboardFeedOpens \/ DashboardFeedBreaks
       \/ ConsentRequestCreated \/ AmendmentStatusChanged
       \/ MessageTimeout
    /\ UNCHANGED <<desk, opening>>

-----------------------------------------------------------------------------
(* What the person does. *)

Clicks ==
    /\ booted
    /\ opening.clicks > 0
    /\ opening' = [opening EXCEPT !.clicks = @ - 1]
    /\ \/ "sign in" \in opening.uses /\ (HandleSubmit \/ ReturnToSignIn)
       \/ /\ "register" \in opening.uses
          /\ ContinueToContact \/ SetEmail \/ SetOtpCode \/ Back
             \/ HandleRequestOtp \/ HandleFinalSubmit
       \/ "verify" \in opening.uses /\ (SubmitToken \/ EditToken)
       \/ "organization" \in opening.uses /\ (HandleDemoRecruiterAuth \/ HandleCreateRequest)
       \/ "consent" \in opening.uses /\ (HandleConsent \/ (On("dashboard") /\ ReviewNow))
       \/ "qr" \in opening.uses /\ (ToggleScope \/ SetQrDuration \/ HandleGenerateCustomQR)
       \/ "credentials" \in opening.uses /\ (HandleInspectW3C \/ HandleViewDID \/ CloseVC \/ CloseDID)
       \/ /\ "amendments" \in opening.uses
          /\ OpenAmendmentModal \/ CloseAmendmentModal \/ EditForm \/ HandleSubmitAmendment
       \/ "documents" \in opening.uses /\ (HandleFileUpload \/ HandleToggleDocSelection)
       \/ /\ "console" \in opening.uses
          /\ HandleAdminLoginSubmit \/ RefreshRecords \/ HandleStatusChange
             \/ HandleResolveDuplicate \/ HandleSuspendAndResolve
             \/ OpenDbModal \/ CloseDbModal \/ HandleSaveDbConfig
    /\ UNCHANGED desk

Moves ==
    /\ booted
    /\ opening.moves > 0
    /\ opening' = [opening EXCEPT !.moves = @ - 1]
    /\ Navigate \/ LinkChanges \/ HandleLogout
    /\ UNCHANGED desk

OthersAct ==
    /\ booted
    /\ opening.others > 0
    /\ opening' = [opening EXCEPT !.others = @ - 1]
    /\ Others
    /\ UNCHANGED <<calls, web, desk>>

Desktop ==
    /\ desk # Absent
    /\ DesktopNext
    /\ UNCHANGED <<world, feed, calls, web, opening>>

Next == Progress \/ Happens \/ Clicks \/ Moves \/ OthersAct \/ Desktop

\* A fetch settles, a handler goes on once it has, a page that was navigated to
\* is mounted; a health check of the shell is given up after a second.
Fairness ==
    /\ WF_vars(Progress)
    /\ WF_vars(desk # Absent /\ ShellSteps /\ UNCHANGED <<world, feed, calls, web, opening>>)

Spec == Init /\ [][Next]_vars /\ Fairness

-----------------------------------------------------------------------------
TypeOK ==
    /\ opening \in OpeningsOK
    /\ world.accounts \subseteq Accounts
    /\ world.codes \subseteq {Holder, Newcomer}
    /\ world.profile \in [Fields -> {"", "given", "MALE", "other"}]
    /\ world.recorded \subseteq [request : Requests, approved : BOOLEAN]
    /\ world.approved \subseteq Nat
    /\ world.consent \in [Requests -> {"NONE", "PENDING", "APPROVED", "REJECTED"}]
    /\ world.amendments \in Amendments
    /\ world.documents \subseteq Documents
    /\ world.spent \subseteq QRTokens
    /\ world.status \in {"ACTIVE", "SUSPENDED"}
    /\ world.flag \in {"PENDING_REVIEW", "RESOLVED_FALSE_POSITIVE", "RESOLVED_DUPLICATE"}
    /\ feed.state \in {"closed", "connecting", "open", "refused"}
    /\ feed.state # "closed" => feed.as \in Accounts /\ On(ui.page)
    /\ ui.page \in Routes \cup {"desktop"}
    /\ {stored, session} \subseteq Accounts \cup {None}
    /\ booted \in BOOLEAN

\* The context and localStorage hold one session, whichever handler signed in
\* or out last, and on whatever page; and it is that of an account the API has.
SessionAgrees ==
    /\ booted => session = stored
    /\ stored # None => stored \in world.accounts

\* A form of the mounted page has one call under way at most: however often the
\* person clicks, an account is not created, a consent not requested and a
\* token not verified twice.  Only a link that changes while the token of the
\* verify page is under way sends another one beside it.
Submissions == {"login", "otp", "register", "verify", "recruiter", "create"}

OneSubmissionAtATime ==
    \/ On("verify") /\ ui.overlapped
    \/ Cardinality({c \in DOMAIN calls : calls[c].mounted /\ calls[c].by \in Submissions}) <= 1

\* The states of a page that show a wait, each with the calls whose end clears it.
Spinners ==
    [loading |-> Submissions \cup {"load identity", "load requests", "load history", "load qr",
                                   "lists", "admin login"},
     generating |-> {"qr"}, submitting |-> {"amend"}, loadingVC |-> {"vc"}, loadingDID |-> {"did"}]

\* Behind every wait that the page shows is a call of that page which is under
\* way and whose end clears it, however many loads and answers cross: no error
\* path, early return or reload forgets the spinner it leaves behind.
SpinnersHaveCalls ==
    \A s \in DOMAIN ui \cap DOMAIN Spinners :
        ui[s] => \E c \in DOMAIN calls : calls[c].mounted /\ calls[c].by \in Spinners[s]

\* What the page shows as under way.
Busy == \E s \in DOMAIN ui \cap DOMAIN Spinners : ui[s]

\* No spinner turns for ever, and no button stays disabled: whatever fails, the
\* page is told, or it is left.  (Except for an upload whose file cannot be
\* read.)
WaitsEnd == Busy ~> ~Busy
=============================================================================
