----------------------------- MODULE RegisterPage -----------------------------
(***************************************************************************)
(* The registration wizard (app/(auth)/register/page.tsx): the person, the *)
(* contact, the code and password, the EKA ID.  The buttons that call the  *)
(* API are disabled while a call is under way; the Back buttons and the    *)
(* fields are not.                                                         *)
(***************************************************************************)
EXTENDS AuthSession

RegisterMount ==
    /\ ui = Opening("register")
    /\ ui' = [page |-> "register", mounted |-> TRUE, step |-> 1, loading |-> FALSE,
              error |-> FALSE, email |-> None, otp |-> None, createdFor |-> None]
    /\ SameSession
    /\ UNCHANGED <<world, feed, calls>>

\* A click or an entry that concerns the wizard alone.
Wizard(step, state) ==
    /\ On("register")
    /\ ui.step = step
    /\ ui' = state
    /\ SameSession
    /\ UNCHANGED <<world, feed, calls>>

\* Step 1: legal name and date of birth are required.
ContinueToContact ==
    \E filled \in BOOLEAN :
        Wizard(1, IF filled THEN [ui EXCEPT !.error = FALSE, !.step = 2]
                  ELSE [ui EXCEPT !.error = TRUE])

\* Step 2: the person types an email and a phone number.
SetEmail ==
    /\ On("register")
    /\ \E email \in {Holder, Newcomer} \ {ui.email} : Wizard(2, [ui EXCEPT !.email = email])

\* Step 3: the person types a code that was received.
SetOtpCode ==
    /\ On("register")
    /\ \E code \in world.codes \ {ui.otp} : Wizard(3, [ui EXCEPT !.otp = code])

Back == \E step \in {2, 3} : Wizard(step, [ui EXCEPT !.step = step - 1])

\* Both buttons that call the API are disabled={loading}.
WizardEnabled == ~ui.loading

HandleRequestOtp ==
    /\ On("register")
    /\ ui.step = 2
    /\ WizardEnabled
    /\ \/ /\ ui.email = None
          /\ ui' = [ui EXCEPT !.error = TRUE]
          /\ UNCHANGED calls
       \/ /\ ui.email # None
          /\ Await("otp", [email |-> ui.email], None, {"requestOTP"})
          /\ ui' = [ui EXCEPT !.error = FALSE, !.loading = TRUE]
    /\ SameSession
    /\ UNCHANGED <<world, feed>>

\* The wizard moves to step 3, whatever step is shown by then.
HandleRequestOtpResumes(c) ==
    /\ Resumes(c, "otp")
    /\ Sets(c, IF Fulfilled(c, "requestOTP")
               THEN [ui EXCEPT !.loading = FALSE, !.otp = None, !.step = 3]
               ELSE [ui EXCEPT !.loading = FALSE, !.error = TRUE])
    /\ End(c)
    /\ SameSession
    /\ UNCHANGED <<world, feed>>

HandleFinalSubmit ==
    /\ On("register")
    /\ ui.step = 3
    /\ WizardEnabled
    /\ \/ /\ ui' = [ui EXCEPT !.error = TRUE]  \* the password or the code is too short
          /\ UNCHANGED calls
       \/ /\ ui.otp # None
          /\ Await("register", [email |-> ui.email, otp |-> ui.otp], None, {"registerUser"})
          /\ ui' = [ui EXCEPT !.error = FALSE, !.loading = TRUE]
    /\ SameSession
    /\ UNCHANGED <<world, feed>>

FinalSubmitOptimistic(c) ==
    /\ Resumes(c, "register")
    /\ Login(calls[c].arg.email)
    /\ Sets(c, [ui EXCEPT !.createdFor = calls[c].arg.email, !.step = 4, !.loading = FALSE])
    /\ End(c)
    /\ UNCHANGED <<world, feed>>

\* Registered, the person is signed in, on whatever page.
HandleFinalSubmitResumes(c) ==
    /\ Resumes(c, "register")
    /\ \/ /\ Fulfilled(c, "registerUser")
          /\ Login(Value(c, "registerUser"))
          /\ Sets(c, [ui EXCEPT !.createdFor = Value(c, "registerUser"), !.step = 4,
                                !.loading = FALSE])
       \/ /\ ~Fulfilled(c, "registerUser")
          /\ Sets(c, [ui EXCEPT !.error = TRUE, !.loading = FALSE])
          /\ SameSession
    /\ End(c)
    /\ UNCHANGED <<world, feed>>

-----------------------------------------------------------------------------
\* The wizard shows "Your EKA ID is Active!" only for an account that the API
\* registered, however the person went back and changed the fields while the
\* answer was on its way; and nothing under way takes the person from there.
WizardTellsTruth ==
    On("register") /\ ui.step = 4 =>
        /\ ui.createdFor \in world.accounts
        /\ \A c \in DOMAIN calls : calls[c].mounted => calls[c].by \notin {"otp", "register"}
=============================================================================
