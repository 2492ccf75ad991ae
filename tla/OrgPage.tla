------------------------------- MODULE OrgPage -------------------------------
(***************************************************************************)
(* The page of an organization (app/org/page.tsx): it asks a holder for    *)
(* consent and waits for the answer on an event stream whose topic is the  *)
(* request.                                                                *)
(***************************************************************************)
EXTENDS AuthSession

OrgMount ==
    /\ ui = Opening("org")
    /\ ui' = [page |-> "org", mounted |-> TRUE, loading |-> FALSE, error |-> FALSE,
              submitted |-> None, live |-> None]
    /\ SameSession
    /\ UNCHANGED <<world, feed, calls>>

\* Both buttons are disabled={loading}.
OrgEnabled == ~ui.loading

HandleDemoRecruiterAuth ==
    /\ On("org")
    /\ ~IsAuthenticated
    /\ OrgEnabled
    /\ Await("recruiter", Recruiter, None, {"loginUser"})
    /\ ui' = [ui EXCEPT !.loading = TRUE, !.error = FALSE]
    /\ SameSession
    /\ UNCHANGED <<world, feed>>

\* When the recruiter cannot sign in, the administrator does.
HandleDemoRecruiterAuthResumes(c) ==
    /\ Resumes(c, "recruiter")
    /\ \/ /\ Fulfilled(c, "loginUser")
          /\ Login(Value(c, "loginUser"))
          /\ Sets(c, [ui EXCEPT !.loading = FALSE])
          /\ End(c)
       \/ /\ ~Fulfilled(c, "loginUser")
          /\ calls[c].arg = Recruiter
          /\ calls' = [calls EXCEPT ![c].arg = Officer, ![c].got = [f \in {"loginUser"} |-> Waiting]]
          /\ SameSession
          /\ UNCHANGED ui
       \/ /\ ~Fulfilled(c, "loginUser")
          /\ calls[c].arg = Officer
          /\ Sets(c, [ui EXCEPT !.loading = FALSE, !.error = TRUE])
          /\ End(c)
          /\ SameSession
    /\ UNCHANGED <<world, feed>>

NewRequestKeepsAnswer ==
    [ui EXCEPT !.error = FALSE, !.submitted = None, !.loading = TRUE]

\* The result of the request before, and its stream, are gone at once.
NewRequest == [ui EXCEPT !.error = FALSE, !.submitted = None, !.live = None, !.loading = TRUE]

HandleCreateRequest ==
    /\ On("org")
    /\ OrgEnabled
    /\ feed' = NoFeed
    /\ \/ /\ ActiveToken = None
          /\ ui' = [NewRequest EXCEPT !.error = TRUE, !.loading = FALSE]
          /\ UNCHANGED calls
       \/ /\ ActiveToken # None
          /\ ui' = NewRequest
          /\ Await("create", None, ActiveToken, {"createVerificationRequest"})
    /\ SameSession
    /\ UNCHANGED world

HandleCreateRequestResumes(c) ==
    /\ Resumes(c, "create")
    /\ Sets(c, IF Fulfilled(c, "createVerificationRequest")
               THEN [ui EXCEPT !.loading = FALSE,
                               !.submitted = Value(c, "createVerificationRequest")]
               ELSE [ui EXCEPT !.loading = FALSE, !.error = TRUE])
    /\ End(c)
    /\ SameSession
    /\ UNCHANGED <<world, feed>>

\* The effect that depends on the request and on the token: by the time it
\* runs, the answer may have come and gone.
Subscribe ==
    /\ On("org")
    /\ ui.submitted # None
    /\ ActiveToken # None
    /\ feed # NoFeed => feed.as # ActiveToken
    /\ feed' = Connecting(ActiveToken, ui.submitted)
    /\ SameSession
    /\ UNCHANGED <<world, calls, ui>>

\* The stream delivers the answer to the request.
ConsentRequestResponded ==
    /\ On("org")
    /\ \E answer \in [request : Requests, approved : BOOLEAN] :
           /\ Delivered("request", answer)
           /\ answer.request = ui.submitted
           /\ ui' = [ui EXCEPT !.live = answer]
    /\ SameSession
    /\ UNCHANGED <<world, calls>>

-----------------------------------------------------------------------------
\* "LIVE CONSENT GRANTED" and "CONSENT REJECTED" are about the request that the
\* page shows, and an answer of the holder that the API stored, though the
\* organization may have sent another one, the stream may have broken and the
\* answer may be late.  It need not be the answer that is stored in the end: two
\* answers that overlap may both be stored (see ConsentFlow).
LiveResponseMatches ==
    On("org") /\ ui.live # None =>
        /\ ui.submitted = ui.live.request
        /\ ui.live \in world.recorded
=============================================================================
