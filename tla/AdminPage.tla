------------------------------ MODULE AdminPage ------------------------------
(***************************************************************************)
(* The console of the administrator (app/admin/page.tsx): four lists that  *)
(* are loaded together, and the actions on their entries, each followed by *)
(* another load.  Nothing but the sign-in button is disabled while calls   *)
(* are under way.                                                          *)
(***************************************************************************)
EXTENDS AuthSession

Lists == {"adminListIdentities", "adminListDuplicates", "adminListAudit", "adminListAmendments"}

\* What the lists show: the status of the suspected duplicate, whether its
\* flag is open, the status of every amendment.
AdminState ==
    [page |-> "admin", mounted |-> TRUE, loading |-> TRUE, needsAdminAuth |-> FALSE,
     error |-> FALSE, success |-> FALSE, status |-> None, flagged |-> FALSE,
     amendments |-> <<>>, rejecting |-> None, database |-> FALSE]

NeedsAuthStillLoading(state) == [state EXCEPT !.needsAdminAuth = TRUE]
NeedsAuth(state) == [state EXCEPT !.needsAdminAuth = TRUE, !.loading = FALSE]
LoadingLists(state) ==
    [state EXCEPT !.loading = TRUE, !.error = FALSE, !.needsAdminAuth = FALSE]

\* loadAdminData, from the page state given.
LoadAdminData(state) ==
    IF stored = Officer
    THEN ui' = LoadingLists(state) /\ Await("lists", None, stored, Lists)
    ELSE ui' = NeedsAuth(state) /\ UNCHANGED calls

\* The same at the end of the handler c.
ReloadAdminData(c, state) ==
    IF stored = Officer
    THEN /\ Sets(c, LoadingLists(state))
         /\ calls' = [calls EXCEPT ![c].by = "lists", ![c].token = stored,
                                   ![c].got = [f \in Lists |-> Waiting]]
    ELSE Sets(c, NeedsAuth(state)) /\ End(c)

AdminMount ==
    /\ ui = Opening("admin")
    /\ LoadAdminData(AdminState)
    /\ SameSession
    /\ UNCHANGED <<world, feed>>

RefreshRecords ==
    /\ On("admin")
    /\ LoadAdminData(ui)
    /\ SameSession
    /\ UNCHANGED <<world, feed>>

\* Every list that arrived is shown; without any, one has to sign in.
LoadedLists(c) ==
    LET shown == [ui EXCEPT
            !.loading = FALSE,
            !.status = IF Fulfilled(c, "adminListIdentities")
                       THEN Value(c, "adminListIdentities") ELSE @,
            !.flagged = IF Fulfilled(c, "adminListDuplicates")
                        THEN Value(c, "adminListDuplicates") ELSE @,
            !.amendments = IF Fulfilled(c, "adminListAmendments")
                           THEN Value(c, "adminListAmendments") ELSE @]
    IN IF \E f \in Lists : Fulfilled(c, f) THEN shown
       ELSE [shown EXCEPT !.needsAdminAuth = TRUE, !.error = TRUE]

LoadAdminDataResumes(c) ==
    /\ Resumes(c, "lists")
    /\ Sets(c, LoadedLists(c))
    /\ End(c)
    /\ SameSession
    /\ UNCHANGED <<world, feed>>

\* The button of the form is disabled={loading}.
HandleAdminLoginSubmit ==
    /\ On("admin")
    /\ ui.needsAdminAuth /\ ~ui.loading
    /\ \E account \in {Holder, Officer} : Await("admin login", account, None, {"loginUser"})
    /\ ui' = [ui EXCEPT !.loading = TRUE, !.error = FALSE]
    /\ SameSession
    /\ UNCHANGED <<world, feed>>

\* Only an administrator is signed in.
IsSystemAdmin(account) == account = Officer

HandleAdminLoginSubmitResumes(c) ==
    /\ Resumes(c, "admin login")
    /\ \/ /\ Fulfilled(c, "loginUser")
          /\ IsSystemAdmin(Value(c, "loginUser"))
          /\ Login(Value(c, "loginUser"))
          /\ Sets(c, LoadingLists([ui EXCEPT !.success = TRUE]))
          /\ calls' = [calls EXCEPT ![c].by = "lists", ![c].token = Value(c, "loginUser"),
                                    ![c].got = [f \in Lists |-> Waiting]]
       \/ /\ Fulfilled(c, "loginUser") => ~IsSystemAdmin(Value(c, "loginUser"))
          /\ Sets(c, [ui EXCEPT !.error = TRUE, !.loading = FALSE])
          /\ End(c)
          /\ SameSession
    /\ UNCHANGED <<world, feed>>

-----------------------------------------------------------------------------
(* Actions on the entries. *)

\* A click that changes the state of the page alone.
AdminClicked(state) ==
    /\ ui' = state
    /\ SameSession
    /\ UNCHANGED <<world, feed, calls>>

\* A handler that calls the API with the token in localStorage.
AdminCalls(by, arg, f) ==
    /\ Await(by, arg, stored, {f})
    /\ SameSession
    /\ UNCHANGED <<world, feed, ui>>

\* An action that succeeded is reported and the lists are loaded again.
AdminResumes(c, by, f, done) ==
    /\ Resumes(c, by)
    /\ \/ Fulfilled(c, f) /\ ReloadAdminData(c, done)
       \/ ~Fulfilled(c, f) /\ Sets(c, [ui EXCEPT !.error = TRUE]) /\ End(c)
    /\ SameSession
    /\ UNCHANGED <<world, feed>>

\* An active identity may be suspended, any other restored.
HandleStatusChange ==
    /\ On("admin")
    /\ ui.status # None
    /\ AdminCalls("status", [status |-> IF ui.status = "ACTIVE" THEN "SUSPENDED" ELSE "ACTIVE"],
                  "adminUpdateStatus")

HandleStatusChangeResumes(c) ==
    AdminResumes(c, "status", "adminUpdateStatus", [ui EXCEPT !.success = TRUE])

HandleResolveDuplicate ==
    /\ On("admin")
    /\ ui.flagged
    /\ AdminCalls("resolve", [resolution |-> "RESOLVED_FALSE_POSITIVE"], "adminResolveDuplicate")

HandleSuspendAndResolve ==
    /\ On("admin")
    /\ ui.flagged
    /\ AdminCalls("suspend", [status |-> "SUSPENDED", resolution |-> "RESOLVED_DUPLICATE"],
                  "adminUpdateStatus")

SuspendAndResolveRegardless(c) ==
    /\ Resumes(c, "suspend")
    /\ AwaitNext(c, "resolve", {"adminResolveDuplicate"})
    /\ SameSession
    /\ UNCHANGED <<world, feed, ui>>

\* The flag is resolved once the identity is suspended.
HandleSuspendAndResolveResumes(c) ==
    /\ Resumes(c, "suspend")
    /\ \/ /\ Fulfilled(c, "adminUpdateStatus")
          /\ AwaitNext(c, "resolve", {"adminResolveDuplicate"})
          /\ UNCHANGED ui
       \/ /\ ~Fulfilled(c, "adminUpdateStatus")
          /\ Sets(c, [ui EXCEPT !.error = TRUE])
          /\ End(c)
    /\ SameSession
    /\ UNCHANGED <<world, feed>>

HandleResolveDuplicateResumes(c) ==
    AdminResumes(c, "resolve", "adminResolveDuplicate", [ui EXCEPT !.success = TRUE])

OpenDbModal ==
    /\ On("admin")
    /\ ~ui.database
    /\ AdminClicked([ui EXCEPT !.database = TRUE])

\* Cancel, or the cross; saving does not close the dialog.
CloseDbModal ==
    /\ On("admin")
    /\ ui.database
    /\ AdminClicked([ui EXCEPT !.database = FALSE])

\* Saving the database settings sends them nowhere.
HandleSaveDbConfig ==
    /\ On("admin")
    /\ ui.database
    /\ LoadAdminData(ui)
    /\ SameSession
    /\ UNCHANGED <<world, feed>>

-----------------------------------------------------------------------------
(* The review of amendments. *)

\* The buttons of an amendment on the list.
ReviewButtons(i) == i \in DOMAIN ui.amendments /\ ui.amendments[i] = "PENDING"

\* A rejection goes through a dialog for its reason, which may be cancelled.
RejectionDialog ==
    /\ On("admin")
    /\ \/ /\ ui.rejecting = None
          /\ \E i \in DOMAIN ui.amendments :
                 ReviewButtons(i) /\ AdminClicked([ui EXCEPT !.rejecting = i])
       \/ /\ ui.rejecting # None
          /\ AdminClicked([ui EXCEPT !.rejecting = None])

\* "Approve & Update Identity", or the button of the dialog.
HandleReviewAmendment ==
    /\ On("admin")
    /\ \/ \E i \in DOMAIN ui.amendments :
              /\ ReviewButtons(i)
              /\ AdminCalls("review", [id |-> i, approved |-> TRUE], "adminReviewAmendment")
       \/ /\ ui.rejecting # None
          /\ AdminCalls("review", [id |-> ui.rejecting, approved |-> FALSE], "adminReviewAmendment")

HandleReviewAmendmentResumes(c) ==
    AdminResumes(c, "review", "adminReviewAmendment",
                 [ui EXCEPT !.success = TRUE, !.rejecting = None])

-----------------------------------------------------------------------------
\* A flag confirmed as a duplicate has its suspect suspended first, whichever
\* of the two calls of "Confirm & Suspend Clone" fails or loses its answer.
ConfirmedWasSuspended ==
    world.flag = "RESOLVED_DUPLICATE" => world.suspended

\* An amendment that the console lists as awaiting a review can be reviewed
\* there: "approve updates with 1-click".
PendingAmendmentsReviewable ==
    On("admin") =>
        \A i \in DOMAIN ui.amendments : ui.amendments[i] = "PENDING_REVIEW" => ReviewButtons(i)
=============================================================================
