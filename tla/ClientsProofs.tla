----------------------------- MODULE ClientsProofs -----------------------------
(***************************************************************************)
(* Every step of the clients preserves ClientInv, page by page, and what   *)
(* follows from it about whole behaviours.                                 *)
(***************************************************************************)
EXTENDS ClientsInvariant, DesktopShellProofs, FiniteSetTheorems

\* The state of a page is of the page's type.
LEMMA PageStates ==
    ASSUME UiInv
    PROVE  /\ On("login") => ui \in LoginState
           /\ On("register") => ui \in RegisterState
           /\ On("verify") => ui \in VerifyStates
           /\ On("org") => ui \in OrgState
           /\ On("dashboard") => ui \in DashboardStates /\ FormOK(ui)
           /\ On("admin") => ui \in AdminStates
           /\ ui.page \in Routes \cup {"desktop"} /\ ui.mounted \in BOOLEAN
<1>1. /\ ui \in LoginState => ui.page = "login" /\ ui.mounted
      /\ ui \in RegisterState => ui.page = "register" /\ ui.mounted
      /\ ui \in VerifyStates => ui.page = "verify" /\ ui.mounted
      /\ ui \in OrgState => ui.page = "org" /\ ui.mounted
      /\ ui \in DashboardStates => ui.page = "dashboard" /\ ui.mounted
      /\ ui \in AdminStates => ui.page = "admin" /\ ui.mounted
  BY DEF LoginState, RegisterState, VerifyStates, OrgState, DashboardStates, AdminStates
<1>0. ui = [page |-> "home", mounted |-> TRUE] => ui.page = "home" /\ ui.mounted
  OBVIOUS
<1>2. /\ ui \in [page : Routes \cup {"desktop"}, mounted : {FALSE}] =>
             ui.page \in Routes \cup {"desktop"} /\ ~ui.mounted /\ ui.mounted \in BOOLEAN
  OBVIOUS
<1> QED
  BY <1>0, <1>1, <1>2 DEF UiInv, On, Routes

\* Without a mounted form no call is pending, and nothing is shown by one.
LEMMA NoForm ==
    ASSUME CallsInv, ~ui.mounted \/ ui.page \in {"home", "dashboard", "admin"}
    PROVE  FormInv /\ WizardInv /\ VerifyInv /\ OrgInv
<1>1. ASSUME NEW c \in 1 .. MaxCalls, Pending(c)
      PROVE  FALSE
  <2>1. calls[c] # NoCall
    BY <1>1 DEF Pending, NoCall
  <2>2. ui.mounted /\ calls[c].by \in Handlers(ui.page)
    BY <1>1, <2>1 DEF CallsInv, Pending
  <2> QED
    BY <1>1, <2>2 DEF Pending, Submissions, Handlers
<1>2. ~On("register") /\ ~On("verify") /\ ~On("org")
  BY DEF On
<1> QED
  BY <1>1, <1>2 DEF FormInv, WizardInv, VerifyInv, OrgInv

\* The same of the state that follows.
LEMMA NoFormNext ==
    ASSUME CallsInv', ~ui'.mounted \/ ui'.page \in {"home", "dashboard", "admin"}
    PROVE  FormInv' /\ WizardInv' /\ VerifyInv' /\ OrgInv'
<1>1. ASSUME NEW c \in 1 .. MaxCalls, Pending(c)'
      PROVE  FALSE
  <2>1. calls'[c] # NoCall
    BY <1>1 DEF Pending, NoCall
  <2>2. ui'.mounted /\ calls'[c].by \in Handlers(ui'.page)
    BY <1>1, <2>1 DEF CallsInv, Pending
  <2> QED
    BY <1>1, <2>2 DEF Pending, Submissions, Handlers
<1>2. ~On("register")' /\ ~On("verify")' /\ ~On("org")'
  BY DEF On
<1> QED
  BY <1>1, <1>2 DEF FormInv, WizardInv, VerifyInv, OrgInv

\* The event stream goes on, or stays closed.
LEMMA FeedStays ==
    ASSUME FeedInv, feed' = feed, world' = world,
           ui.mounted => ui'.page = ui.page /\ ui'.mounted
    PROVE  FeedInv'
  BY DEF FeedInv, On, NoticesTrue, AnswersTrue, Approved

\* The session stays as it is.
LEMMA SessionStays ==
    ASSUME SessionInv, SameSession, world' = world
    PROVE  SessionInv'
  BY DEF SessionInv, SameSession

\* An account signs in, or the person signs out.
LEMMA SignsIn ==
    ASSUME SessionInv, NEW account \in world.accounts, WorldOK(world), Login(account), world' = world
    PROVE  SessionInv'
  BY DEF SessionInv, Login, WorldOK, WorldType, AccountOrNone

\* Signing out leaves no session.
LEMMA SignsOut ==
    ASSUME SessionInv, Logout, world' = world
    PROVE  SessionInv'
  BY DEF SessionInv, Logout, AccountOrNone

\* A page is left.
LEMMA PushKeeps ==
    ASSUME ClientInv, NEW route \in Routes,
           Push(route, calls) \/ \E c \in DOMAIN calls : Push(route, Ended(c)),
           world' = world, SessionInv'
    PROVE  ClientInv'
<1>1. ui' = [page |-> route, mounted |-> FALSE] /\ feed' = NoFeed
  BY DEF Push, Opening
<1>2. CallsInv'
  BY LeaveKeeps DEF ClientInv, Push
<1>3. ~ui'.mounted
  BY <1>1
<1>4. UiInv' /\ FeedInv'
  BY <1>1 DEF UiInv, FeedInv
<1>5. PagesInv'
  BY <1>2, <1>3, NoFormNext DEF PagesInv, SuccessIsTrue, On
<1> QED
  BY <1>2, <1>4, <1>5 DEF ClientInv

\* A handler of a page that was left, or that its page need not hear of, goes on.
LEMMA BackgroundKeeps ==
    ASSUME ClientInv, ui' = ui, world' = world, feed' = feed, SessionInv', CallsInv',
           \A c \in 1 .. MaxCalls : Pending(c)' =>
               /\ Pending(c) /\ calls'[c].by = calls[c].by
               /\ On("verify") => calls'[c].arg = calls[c].arg
    PROVE  ClientInv'
<1>1. UiInv' /\ FeedInv'
  BY FeedStays DEF UiInv, ClientInv
<1>2. FormInv'
  BY DEF FormInv, ClientInv, PagesInv, Overlapped, On
<1>3. WizardInv' /\ VerifyInv' /\ OrgInv'
  BY DEF WizardInv, VerifyInv, OrgInv, ClientInv, PagesInv, On
<1>4. SuccessIsTrue'
  BY DEF SuccessIsTrue, ClientInv, PagesInv, On
<1> QED
  BY <1>1, <1>2, <1>3, <1>4 DEF ClientInv, PagesInv

-----------------------------------------------------------------------------
(* Moving between the pages, and the sign-in page. *)

\* Following a link leaves the page.
LEMMA NavigateKeeps ==
    ASSUME ClientInv, Navigate
    PROVE  ClientInv'
<1>1. PICK route \in BarLinks \cup PageLinks : Push(route, calls)
  BY DEF Navigate
<1>2. route \in Routes
  BY DEF BarLinks, PageLinks, Routes
<1>3. SessionInv'
  BY SessionStays DEF ClientInv, Navigate
<1> QED
  BY <1>1, <1>2, <1>3, PushKeeps DEF Navigate

\* So do signing out and the return to the sign-in page.
LEMMA LogoutKeeps ==
    ASSUME ClientInv, HandleLogout \/ ReturnToSignIn
    PROVE  ClientInv'
<1>1. Push("home", calls) \/ Push("login", calls)
  BY DEF HandleLogout, ReturnToSignIn
<1>2. SessionInv' /\ world' = world
  BY SignsOut DEF ClientInv, HandleLogout, ReturnToSignIn
<1> QED
  BY <1>1, <1>2, PushKeeps DEF Routes

\* The stored session is restored.
LEMMA RestoreKeeps ==
    ASSUME ClientInv, Restore, world' = world, calls' = calls, feed' = feed
    PROVE  ClientInv'
<1>1. SessionInv'
  BY DEF SessionInv, Restore, ClientInv, WorldOK, WorldType, AccountOrNone
<1>2. ui' = ui
  BY DEF Restore
<1>3. CallsInv'
  BY <1>2 DEF CallsInv, ClientInv
<1> QED
  BY <1>1, <1>2, <1>3, BackgroundKeeps DEF Pending

\* A page is mounted that calls nothing.
LEMMA QuietMount ==
    ASSUME ClientInv, ~ui.mounted, ui'.mounted, calls' = calls, world' = world, feed' = feed,
           SameSession, UiInv',
           ui'.page \in {"home", "login", "register", "verify", "org", "admin"},
           ui'.page = "register" => ui'.step = 1,
           ui'.page = "verify" => ui'.result = None,
           ui'.page = "org" => ui'.live = None
    PROVE  ClientInv'
<1>1. CallsInv' /\ FeedInv' /\ SessionInv'
  BY SameCallsKeep, FeedStays, SessionStays DEF ClientInv, SamePage
<1>2. \A c \in 1 .. MaxCalls : ~Pending(c)'
  BY NoForm DEF ClientInv, CallsInv, Pending, NoCall
<1>3. PagesInv'
  BY <1>2 DEF PagesInv, FormInv, WizardInv, VerifyInv, OrgInv, SuccessIsTrue, On
<1> QED
  BY <1>1, <1>3 DEF ClientInv

\* The home page is mounted.
LEMMA HomeMountKeeps ==
    ASSUME ClientInv, HomeMount
    PROVE  ClientInv'
<1>1. ~ui.mounted
  BY DEF HomeMount, Opening
<1>2. ui' = [page |-> "home", mounted |-> TRUE]
  BY DEF HomeMount
<1>3. ui'.page = "home" /\ ui'.mounted
  BY <1>2
<1>4. UiInv'
  BY <1>2 DEF UiInv
<1> QED
  BY <1>1, <1>3, <1>4, QuietMount DEF HomeMount

\* The sign-in page is mounted.
LEMMA LoginMountKeeps ==
    ASSUME ClientInv, LoginMount
    PROVE  ClientInv'
<1>1. ~ui.mounted
  BY DEF LoginMount, Opening
<1>2. ui' \in LoginState
  BY DEF LoginMount, LoginState
<1>3. ui'.page = "login" /\ ui'.mounted
  BY <1>2 DEF LoginState
<1>4. UiInv'
  BY <1>2 DEF UiInv
<1> QED
  BY <1>1, <1>3, <1>4, QuietMount DEF LoginMount

\* A form that is not loading has no call pending.
LEMMA NothingPending ==
    ASSUME ClientInv, ~Overlapped, ~ui.loading, NEW c \in 1 .. MaxCalls
    PROVE  ~Pending(c)
  BY DEF ClientInv, PagesInv, FormInv

\* A form that had no call pending calls the API.
LEMMA FormCalls ==
    ASSUME CallsInv, \A c \in 1 .. MaxCalls : ~Pending(c),
           NEW by, NEW arg, NEW token, NEW functions, Await(by, arg, token, functions),
           ui'.loading
    PROVE  /\ FormInv'
           /\ \A c \in 1 .. MaxCalls : Pending(c)' => calls'[c].by = by /\ calls'[c].arg = arg
<1>1. PICK c \in 1 .. MaxCalls : calls' = [calls EXCEPT ![c] = Call(by, arg, token, functions)]
  BY DEF Await, Free, CallsInv
<1>2. \A d \in 1 .. MaxCalls : calls'[d] = IF d = c THEN Call(by, arg, token, functions) ELSE calls[d]
  BY <1>1 DEF CallsInv
<1>3. \A d \in 1 .. MaxCalls : Pending(d)' => d = c
  BY <1>2 DEF Pending
<1> QED
  BY <1>2, <1>3 DEF FormInv, Call

\* The pending call ends.
LEMMA FormEnds ==
    ASSUME ClientInv, ~Overlapped, NEW c \in DOMAIN calls, calls[c].mounted,
           calls[c].by \in Submissions, End(c)
    PROVE  \A d \in 1 .. MaxCalls : ~Pending(d)'
<1>1. c \in 1 .. MaxCalls /\ \A d \in 1 .. MaxCalls : calls'[d] = IF d = c THEN NoCall ELSE calls[d]
  BY DEF End, Ended, ClientInv, CallsInv
<1>2. \A d \in 1 .. MaxCalls : Pending(d) => d = c
  BY <1>1 DEF Pending, ClientInv, PagesInv, FormInv
<1> QED
  BY <1>1, <1>2 DEF Pending, NoCall

\* A handler ends whose page was left.
LEMMA LateEnds ==
    ASSUME ClientInv, NEW c \in DOMAIN calls, ~calls[c].mounted, End(c),
           ui' = ui, world' = world, feed' = feed, SessionInv'
    PROVE  ClientInv'
<1>1. CallsInv'
  BY EndKeeps DEF ClientInv
<1>2. \A d \in 1 .. MaxCalls : calls'[d] = IF d = c THEN NoCall ELSE calls[d]
  BY DEF End, Ended, ClientInv, CallsInv
<1> QED
  BY <1>1, <1>2, BackgroundKeeps DEF Pending, NoCall

\* What a handler that resumes was answered.
LEMMA Resumed1 ==
    ASSUME ClientInv, NEW c \in DOMAIN calls, calls[c] # NoCall, NEW by, Resumes(c, by),
           NEW f \in DOMAIN calls[c].got, Fulfilled(c, f)
    PROVE  ArgumentOK(calls[c].arg, f, world) /\ Promised(calls[c].arg, f, Value(c, f), world)
<1>1. CallOK(calls[c], world)
  BY DEF ClientInv, CallsInv
<1> QED
  BY <1>1 DEF CallOK, AnswerOK, Resumes, Fulfilled, Value

\* A handler of a page that is mounted runs on that page.
LEMMA RunsOn ==
    ASSUME ClientInv, NEW c \in DOMAIN calls, calls[c] # NoCall
    PROVE  /\ CallOK(calls[c], world)
           /\ calls[c].mounted => ui.mounted /\ calls[c].by \in Handlers(ui.page)
  BY DEF ClientInv, CallsInv

\* A form with no call pending, and what it shows.
Quiet(state, w) ==
    \/ state \in LoginState
    \/ state \in RegisterState /\ (state.step = 4 => state.createdFor \in w.accounts)
    \/ /\ state \in VerifyStates
       /\ state.result # None => VerdictOK(state, state.result)
    \/ /\ state \in OrgState
       /\ state.live # None =>
              /\ state.submitted = state.live.request
              /\ state.live \in w.recorded

\* The form keeps the invariant.
LEMMA QuietForm ==
    ASSUME Quiet(ui', world), WorldOK(world), world' = world, FeedInv', CallsInv', SessionInv',
           \A d \in 1 .. MaxCalls : ~Pending(d)'
    PROVE  ClientInv'
<1>1. UiInv'
  BY DEF Quiet, UiInv
<1>2. /\ ui' \in LoginState => ui'.page = "login"
      /\ ui' \in RegisterState => ui'.page = "register"
      /\ ui' \in VerifyStates => ui'.page = "verify"
      /\ ui' \in OrgState => ui'.page = "org"
  BY DEF LoginState, RegisterState, VerifyStates, OrgState
<1>3. PagesInv'
  BY <1>2 DEF PagesInv, FormInv, WizardInv, VerifyInv, OrgInv, SuccessIsTrue, On, Quiet
<1> QED
  BY <1>1, <1>3 DEF ClientInv

\* The call of a form ends, and the form, if it is still there, shows it.
LEMMA FormSets ==
    ASSUME ClientInv, NEW c \in DOMAIN calls, calls[c] # NoCall,
           calls[c].by \in Submissions \ {"verify"},
           NEW state, Sets(c, state), End(c),
           calls[c].mounted => Quiet(state, world) /\ state.page = ui.page /\ state.mounted = TRUE,
           world' = world, feed' = feed, SessionInv'
    PROVE  ClientInv'
<1>1. CASE ~calls[c].mounted
  BY <1>1, LateEnds DEF Sets
<1>2. CASE calls[c].mounted
  <2>1. ui.mounted /\ ui'.page = ui.page /\ ui'.mounted = TRUE /\ Quiet(ui', world)
    BY <1>2, RunsOn DEF Sets
  <2>2. ui.mounted = TRUE
    BY <2>1, PageStates DEF ClientInv
  <2>3. CallsInv'
    BY <2>1, <2>2, EndKeeps DEF ClientInv
  <2>4. FeedInv'
    BY <2>1, FeedStays DEF ClientInv
  <2>5. ~Overlapped
    <3>1. calls[c].by \notin Handlers("verify")
      BY DEF Handlers
    <3> QED
      BY <1>2, <3>1, RunsOn DEF Overlapped, On
  <2> QED
    BY <1>2, <2>1, <2>3, <2>4, <2>5, FormEnds, QuietForm DEF ClientInv
<1> QED
  BY <1>1, <1>2

\* The person signs in.
LEMMA LoginCalls ==
    ASSUME ClientInv, HandleSubmit
    PROVE  ClientInv'
<1>1. PICK account \in Accounts : Await("login", account, None, {"loginUser"})
  BY DEF HandleSubmit
<1>2. On("login") /\ ui \in LoginState /\ ~ui.loading
  BY PageStates DEF ClientInv, HandleSubmit, SignInEnabled
<1>3. ui' \in LoginState /\ ui'.loading /\ ui'.page = "login" /\ ui'.mounted
  BY <1>2 DEF HandleSubmit, LoginState
<1>4. CallsInv'
  <2>1. /\ "login" \in Handlers(ui'.page)
        /\ "login" \in UNION {Handlers(page) : page \in Routes}
    BY <1>3 DEF Handlers, Routes
  <2>2. /\ AwaitsOK("login", {"loginUser"}) /\ KeepsOK("login", account)
        /\ \A f \in {"loginUser"} : ArgumentOK(account, f, world)
    BY DEF AwaitsOK, KeepsOK, ArgumentOK
  <2> QED
    BY <1>1, <1>2, <1>3, <2>1, <2>2, AwaitKeeps DEF HandleSubmit, ClientInv, SamePage, On
<1>5. FormInv'
  BY <1>1, <1>2, <1>3, NothingPending, FormCalls DEF ClientInv, Overlapped, On
<1>6. PagesInv'
  BY <1>3, <1>5 DEF PagesInv, WizardInv, VerifyInv, OrgInv, SuccessIsTrue, On
<1>7. UiInv' /\ FeedInv' /\ SessionInv'
  BY <1>2, <1>3, FeedStays, SessionStays DEF HandleSubmit, ClientInv, UiInv, On
<1> QED
  BY <1>4, <1>6, <1>7 DEF ClientInv, HandleSubmit

\* The sign-in is answered.
LEMMA LoginResumes ==
    ASSUME ClientInv, NEW c \in DOMAIN calls, calls[c] # NoCall, HandleSubmitResumes(c)
    PROVE  ClientInv'
<1>1. calls[c].by = "login" /\ Resumes(c, "login") /\ world' = world
  BY DEF HandleSubmitResumes, Resumes
<1>2. DOMAIN calls[c].got = {"loginUser"}
  BY <1>1, RunsOn DEF CallOK, AwaitsOK
<1>3. CASE Fulfilled(c, "loginUser") /\ Login(Value(c, "loginUser"))
           /\ Push(IF Value(c, "loginUser") = Officer THEN "admin" ELSE "dashboard", Ended(c))
  <2>1. Value(c, "loginUser") \in world.accounts
    BY <1>1, <1>2, <1>3, Resumed1 DEF Promised
  <2>2. SessionInv'
    BY <1>1, <1>3, <2>1, SignsIn DEF ClientInv
  <2> QED
    BY <1>1, <1>3, <2>2, PushKeeps DEF Routes
<1>4. CASE ~Fulfilled(c, "loginUser") /\ End(c) /\ SameSession /\ feed' = feed
           /\ Sets(c, [ui EXCEPT !.loading = FALSE, !.error = TRUE])
  <2> DEFINE state == [ui EXCEPT !.loading = FALSE, !.error = TRUE]
  <2>1. SessionInv'
    BY <1>1, <1>4, SessionStays DEF ClientInv
  <2>2. ASSUME calls[c].mounted
        PROVE  state \in LoginState /\ state.page = ui.page /\ state.mounted = TRUE
    <3>1. On("login")
      BY <1>1, <2>2, RunsOn DEF Handlers, On
    <3>2. ui \in LoginState
      BY <3>1, PageStates DEF ClientInv
    <3> QED
      BY <3>2 DEF LoginState
  <2> HIDE DEF state
  <2> QED
    BY <1>1, <1>4, <2>1, <2>2, FormSets DEF Submissions, Quiet, state
<1> QED
  BY <1>3, <1>4 DEF HandleSubmitResumes

-----------------------------------------------------------------------------
(* The registration wizard. *)

\* The wizard is mounted.
LEMMA RegisterMountKeeps ==
    ASSUME ClientInv, RegisterMount
    PROVE  ClientInv'
<1>1. ~ui.mounted
  BY DEF RegisterMount, Opening
<1>2. ui' \in RegisterState /\ ui'.step = 1
  BY DEF RegisterMount, RegisterState, EmailOrNone, AccountOrNone
<1>3. ui'.page = "register" /\ ui'.mounted
  BY <1>2 DEF RegisterState
<1>4. UiInv'
  BY <1>2 DEF UiInv
<1> QED
  BY <1>1, <1>2, <1>3, <1>4, QuietMount DEF RegisterMount

\* The wizard changes by itself, which takes it to no fourth step.
LEMMA WizardKeeps ==
    ASSUME ClientInv, NEW step, NEW state, Wizard(step, state), state \in RegisterState,
           state.loading = ui.loading, state.step # 4
    PROVE  ClientInv'
<1>1. On("register") /\ ui \in RegisterState /\ ui' = state /\ calls' = calls
      /\ world' = world /\ feed' = feed /\ SameSession
  BY PageStates DEF Wizard, ClientInv
<1>2. ui'.page = "register" /\ ui'.mounted
  BY <1>1 DEF RegisterState
<1>3. CallsInv' /\ FeedInv' /\ SessionInv'
  BY <1>1, <1>2, SameCallsKeep, FeedStays, SessionStays DEF ClientInv, SamePage, On
<1>4. FormInv'
  BY <1>1 DEF ClientInv, PagesInv, FormInv, Pending, Overlapped, On
<1>5. PagesInv'
  BY <1>1, <1>2, <1>4 DEF PagesInv, WizardInv, VerifyInv, OrgInv, SuccessIsTrue, On
<1>6. UiInv'
  BY <1>1 DEF UiInv
<1> QED
  BY <1>1, <1>3, <1>5, <1>6 DEF ClientInv

\* What the person enters in the wizard, and its Back buttons.
LEMMA WizardEntries ==
    ASSUME ClientInv, ContinueToContact \/ SetEmail \/ SetOtpCode \/ Back
    PROVE  ClientInv'
<1>1. ui \in RegisterState
  BY PageStates DEF ContinueToContact, SetEmail, SetOtpCode, Back, Wizard, ClientInv
<1> DEFINE error == [ui EXCEPT !.error = TRUE]
           contact == [ui EXCEPT !.error = FALSE, !.step = 2]
           emailed(email) == [ui EXCEPT !.email = email]
           coded(code) == [ui EXCEPT !.otp = code]
           at(step) == [ui EXCEPT !.step = step]
<1>2. /\ error \in RegisterState /\ error.loading = ui.loading /\ error.step = ui.step
      /\ contact \in RegisterState /\ contact.loading = ui.loading /\ contact.step = 2
      /\ \A x \in EmailOrNone :
             /\ emailed(x) \in RegisterState
             /\ emailed(x).loading = ui.loading /\ emailed(x).step = ui.step
             /\ coded(x) \in RegisterState
             /\ coded(x).loading = ui.loading /\ coded(x).step = ui.step
      /\ \A x \in {1, 2, 3, 4} :
             at(x) \in RegisterState /\ at(x).loading = ui.loading /\ at(x).step = x
  BY <1>1 DEF RegisterState
<1> HIDE DEF error, contact, emailed, coded, at
<1>3. CASE ContinueToContact
  <2>1. \/ Wizard(1, error)
        \/ Wizard(1, contact)
    BY <1>3 DEF ContinueToContact, error, contact
  <2>2. ui.step = 1
    BY <2>1 DEF Wizard
  <2> QED
    BY <1>2, <2>1, <2>2, WizardKeeps
<1>4. CASE SetEmail
  <2>1. PICK email \in {Holder, Newcomer} : Wizard(2, emailed(email))
    BY <1>4 DEF SetEmail, emailed
  <2>2. ui.step = 2 /\ email \in EmailOrNone
    BY <2>1 DEF Wizard, EmailOrNone
  <2> QED
    BY <1>2, <2>1, <2>2, WizardKeeps
<1>5. CASE SetOtpCode
  <2>1. PICK code \in world.codes : Wizard(3, coded(code))
    BY <1>5 DEF SetOtpCode, coded
  <2>2. ui.step = 3 /\ code \in EmailOrNone
    BY <2>1 DEF Wizard, ClientInv, WorldOK, WorldType, EmailOrNone
  <2> QED
    BY <1>2, <2>1, <2>2, WizardKeeps
<1>6. CASE Back
  <2>1. PICK step \in {2, 3} : Wizard(step, at(step - 1))
    BY <1>6 DEF Back, at
  <2>2. step - 1 \in {1, 2, 3, 4} /\ step - 1 # 4
    OBVIOUS
  <2> QED
    BY <1>2, <2>1, <2>2, WizardKeeps
<1> QED
  BY <1>3, <1>4, <1>5, <1>6

\* The wizard, which waits for nothing, reports what is missing, or calls the API.
LEMMA WizardCalls ==
    ASSUME ClientInv, HandleRequestOtp \/ HandleFinalSubmit
    PROVE  ClientInv'
<1>0. ui.step \in {2, 3}
  BY DEF HandleRequestOtp, HandleFinalSubmit
<1>1. On("register") /\ ui \in RegisterState /\ ~ui.loading
      /\ SameSession /\ world' = world /\ feed' = feed
  BY PageStates DEF HandleRequestOtp, HandleFinalSubmit, WizardEnabled, ClientInv
<1>2. \A c \in 1 .. MaxCalls : ~Pending(c)
  BY <1>1, NothingPending DEF Overlapped, On
<1>3. SessionInv'
  BY <1>1, SessionStays DEF ClientInv
<1>4. CASE ui' = [ui EXCEPT !.error = TRUE] /\ calls' = calls
  <2>0. ui' \in RegisterState /\ ui'.step = ui.step
    BY <1>1, <1>4 DEF RegisterState
  <2>1. ui' \in RegisterState /\ ui'.step # 4 /\ ui'.page = "register" /\ ui'.mounted
    <3>1. ui'.step # 4
      BY <1>0, <2>0
    <3> QED
      BY <2>0, <3>1 DEF RegisterState
  <2>2. CallsInv' /\ FeedInv'
    BY <1>1, <1>4, <2>1, SameCallsKeep, FeedStays DEF ClientInv, SamePage, On
  <2> QED
    BY <1>1, <1>2, <1>3, <1>4, <2>1, <2>2, QuietForm DEF Quiet, Pending, ClientInv
<1>5. ASSUME NEW by, NEW arg, NEW f,
             \/ by = "otp" /\ f = "requestOTP" /\ arg = [email |-> ui.email] /\ ui.email # None
             \/ /\ by = "register" /\ f = "registerUser"
                /\ arg = [email |-> ui.email, otp |-> ui.otp],
             Await(by, arg, None, {f}), ui' = [ui EXCEPT !.error = FALSE, !.loading = TRUE]
      PROVE  ClientInv'
  <2>0. ui' \in RegisterState /\ ui'.step = ui.step /\ ui'.loading
    BY <1>1, <1>5 DEF RegisterState
  <2>1. ui' \in RegisterState /\ ui'.step # 4 /\ ui'.page = "register" /\ ui'.mounted /\ ui'.loading
    <3>1. ui'.step # 4
      BY <1>0, <2>0
    <3> QED
      BY <2>0, <3>1 DEF RegisterState
  <2>2. /\ by \in Handlers(ui'.page)
        /\ by \in UNION {Handlers(page) : page \in Routes}
    <3>1. by \in Handlers("register") /\ "register" \in Routes
      BY <1>5 DEF Handlers, Routes
    <3> QED
      BY <2>1, <3>1
  <2>3. f = "requestOTP" => arg.email \in {Holder, Newcomer}
    BY <1>1, <1>5 DEF RegisterState, EmailOrNone
  <2>4. AwaitsOK(by, {f}) /\ KeepsOK(by, arg)
    BY <1>5 DEF AwaitsOK, KeepsOK
  <2>5. \A g \in {f} : ArgumentOK(arg, g, world)
    BY <1>5, <2>3 DEF ArgumentOK
  <2>6. CallsInv'
    BY <1>1, <1>5, <2>1, <2>2, <2>4, <2>5, AwaitKeeps DEF ClientInv, SamePage, On
  <2>7. FormInv'
    BY <1>2, <1>5, <2>1, FormCalls DEF ClientInv
  <2>8. PagesInv'
    BY <2>1, <2>7 DEF PagesInv, WizardInv, VerifyInv, OrgInv, SuccessIsTrue, On
  <2>9. UiInv' /\ FeedInv'
    BY <1>1, <2>1, FeedStays DEF ClientInv, UiInv, On
  <2> QED
    BY <1>1, <1>3, <2>6, <2>8, <2>9 DEF ClientInv
<1>6. CASE HandleRequestOtp
  <2>1. CASE ui.email = None /\ ui' = [ui EXCEPT !.error = TRUE] /\ calls' = calls
    BY <1>4, <2>1
  <2>2. CASE /\ ui.email # None /\ Await("otp", [email |-> ui.email], None, {"requestOTP"})
             /\ ui' = [ui EXCEPT !.error = FALSE, !.loading = TRUE]
    BY <1>5, <2>2
  <2> QED
    BY <1>6, <2>1, <2>2 DEF HandleRequestOtp
<1>7. CASE HandleFinalSubmit
  <2>1. CASE ui' = [ui EXCEPT !.error = TRUE] /\ calls' = calls
    BY <1>4, <2>1
  <2>2. CASE /\ Await("register", [email |-> ui.email, otp |-> ui.otp], None, {"registerUser"})
             /\ ui' = [ui EXCEPT !.error = FALSE, !.loading = TRUE]
    BY <1>5, <2>2
  <2> QED
    BY <1>7, <2>1, <2>2 DEF HandleFinalSubmit
<1> QED
  BY <1>6, <1>7

\* A call of the wizard is answered.
LEMMA WizardResumes ==
    ASSUME ClientInv, NEW c \in DOMAIN calls, calls[c] # NoCall,
           HandleRequestOtpResumes(c) \/ HandleFinalSubmitResumes(c)
    PROVE  ClientInv'
<1>1. /\ calls[c].by \in {"otp", "register"} /\ End(c) /\ world' = world /\ feed' = feed
      /\ CallOK(calls[c], world)
  BY RunsOn DEF HandleRequestOtpResumes, HandleFinalSubmitResumes, Resumes
<1>2. ASSUME calls[c].mounted
      PROVE  ui \in RegisterState
  <2>1. On("register")
    BY <1>1, <1>2, RunsOn DEF Handlers, On
  <2> QED
    BY <2>1, PageStates DEF ClientInv
<1>3. ASSUME NEW state, Sets(c, state), SessionInv',
             calls[c].mounted => state \in RegisterState /\ (state.step = 4 => state.createdFor \in world.accounts)
      PROVE  ClientInv'
  <2>1. calls[c].mounted => state.page = ui.page /\ state.mounted = TRUE
    BY <1>2, <1>3 DEF RegisterState
  <2> QED
    BY <1>1, <1>3, <2>1, FormSets DEF Submissions, Quiet
<1>4. \A b \in BOOLEAN :
          calls[c].mounted =>
              LET state == [ui EXCEPT !.error = b, !.loading = FALSE] IN
              state \in RegisterState /\ state.step = ui.step /\ state.createdFor = ui.createdFor
  BY <1>2 DEF RegisterState
<1>5. calls[c].mounted => (ui.step = 4 => ui.createdFor \in world.accounts)
  <2>1. calls[c].mounted => On("register")
    BY <1>1, RunsOn DEF Handlers, On
  <2> QED
    BY <2>1 DEF ClientInv, PagesInv, WizardInv
<1>6. CASE HandleRequestOtpResumes(c)
  <2>1. SessionInv'
    BY <1>6, SessionStays DEF HandleRequestOtpResumes, ClientInv
  <2>2. CASE Sets(c, [ui EXCEPT !.loading = FALSE, !.otp = None, !.step = 3])
    <3> DEFINE state == [ui EXCEPT !.loading = FALSE, !.otp = None, !.step = 3]
    <3>1. calls[c].mounted => state \in RegisterState /\ state.step = 3
      BY <1>2 DEF RegisterState, EmailOrNone
    <3>2. Sets(c, state)
      BY <2>2
    <3> HIDE DEF state
    <3> QED
      BY <1>3, <2>1, <3>1, <3>2
  <2>3. CASE Sets(c, [ui EXCEPT !.loading = FALSE, !.error = TRUE])
    <3>1. calls[c].mounted =>
              LET state == [ui EXCEPT !.loading = FALSE, !.error = TRUE] IN
              state \in RegisterState /\ state.step = ui.step /\ state.createdFor = ui.createdFor
      BY <1>2 DEF RegisterState
    <3> QED
      BY <1>3, <1>5, <2>1, <2>3, <3>1
  <2> QED
    BY <1>6, <2>2, <2>3 DEF HandleRequestOtpResumes
<1>7. CASE HandleFinalSubmitResumes(c)
  <2>1. CASE /\ Fulfilled(c, "registerUser") /\ Login(Value(c, "registerUser"))
             /\ Sets(c, [ui EXCEPT !.createdFor = Value(c, "registerUser"), !.step = 4,
                                   !.loading = FALSE])
    <3> DEFINE account == Value(c, "registerUser")
    <3>1. account \in world.accounts
      <4>1. Resumes(c, "register") /\ calls[c].by = "register"
        BY <1>7 DEF HandleFinalSubmitResumes, Resumes
      <4>2. DOMAIN calls[c].got = {"registerUser"}
        BY <1>1, <4>1 DEF CallOK, AwaitsOK
      <4> QED
        BY <2>1, <4>1, <4>2, Resumed1 DEF Promised
    <3>2. SessionInv'
      BY <1>1, <2>1, <3>1, SignsIn DEF ClientInv
    <3>3. account \in AccountOrNone
      BY <3>1 DEF ClientInv, WorldOK, WorldType, AccountOrNone
    <3> HIDE DEF account
    <3>4. calls[c].mounted =>
              LET state == [ui EXCEPT !.createdFor = account, !.step = 4, !.loading = FALSE] IN
              state \in RegisterState /\ state.createdFor = account
      BY <1>2, <3>3 DEF RegisterState
    <3> QED
      BY <1>3, <2>1, <3>1, <3>2, <3>4 DEF account
  <2>2. CASE Sets(c, [ui EXCEPT !.error = TRUE, !.loading = FALSE]) /\ SameSession
    <3>1. SessionInv'
      BY <1>1, <2>2, SessionStays DEF ClientInv
    <3> QED
      BY <1>3, <1>4, <1>5, <2>2, <3>1
  <2> QED
    BY <1>7, <2>1, <2>2 DEF HandleFinalSubmitResumes
<1> QED
  BY <1>6, <1>7

-----------------------------------------------------------------------------
(* The page of a verifier. *)

\* A token is sent by the page: while another is under way only from a link.
LEMMA VerifyCalls ==
    ASSUME ClientInv, NEW page \in VerifyStates, NEW token \in QRTokens,
           ~ui.mounted \/ On("verify"),
           On("verify") => /\ page.sent = ui.sent
                           /\ ui.loading \/ ui.overlapped => page.overlapped,
           HandleVerify(page, token), SameSession, world' = world, feed' = feed
    PROVE  ClientInv'
<1>1. /\ ui' \in VerifyStates /\ ui'.loading /\ ui'.result = None /\ ui'.asked = token
      /\ token \in ui'.sent /\ page.sent \subseteq ui'.sent /\ ui'.overlapped = page.overlapped
  BY DEF HandleVerify, Sent, VerifyStates
<1>2. ui'.page = "verify" /\ ui'.mounted
  BY <1>1 DEF VerifyStates
<1>3. Await("verify", token, None, {"verifyQRToken"})
  BY DEF HandleVerify
<1>4. CallsInv'
  <2>1. /\ "verify" \in Handlers(ui'.page)
        /\ "verify" \in UNION {Handlers(route) : route \in Routes}
    BY <1>2 DEF Handlers, Routes
  <2>2. /\ AwaitsOK("verify", {"verifyQRToken"}) /\ KeepsOK("verify", token)
        /\ \A f \in {"verifyQRToken"} : ArgumentOK(token, f, world)
    BY DEF AwaitsOK, KeepsOK, ArgumentOK
  <2> QED
    BY <1>2, <1>3, <2>1, <2>2, AwaitKeeps DEF ClientInv, SamePage, On
<1>5. ~page.overlapped => \A c \in 1 .. MaxCalls : ~Pending(c)
  BY NothingPending, NoForm DEF ClientInv, CallsInv, Pending, NoCall, Overlapped
<1>6. FormInv'
  <2>1. CASE page.overlapped
    BY <1>1, <1>2, <2>1 DEF FormInv, Overlapped, On
  <2>2. CASE ~page.overlapped
    BY <1>1, <1>3, <1>5, <2>2, FormCalls DEF ClientInv
  <2> QED
    BY <2>1, <2>2
<1>7. VerifyInv'
  <2>1. ASSUME NEW c \in 1 .. MaxCalls, Pending(c)'
        PROVE  VerdictOK(ui', calls'[c].arg)
    <3>1. CASE calls'[c].arg = token
      BY <1>1, <3>1 DEF VerdictOK
    <3>2. CASE calls'[c] = calls[c]
      <4>1. Pending(c)
        BY <2>1, <3>2 DEF Pending
      <4>2. On("verify")
        BY <4>1 DEF ClientInv, CallsInv, Pending, NoCall
      <4>3. VerdictOK(ui, calls[c].arg) /\ page.overlapped
        BY <1>5, <4>1, <4>2 DEF ClientInv, PagesInv, VerifyInv
      <4> QED
        BY <1>1, <3>2, <4>2, <4>3 DEF VerdictOK
    <3>3. calls'[c].arg = token \/ calls'[c] = calls[c]
      BY <1>3 DEF Await, Free, Call, ClientInv, CallsInv
    <3> QED
      BY <3>1, <3>2, <3>3
  <2> QED
    BY <1>1, <2>1 DEF VerifyInv
<1>8. PagesInv'
  BY <1>2, <1>6, <1>7 DEF PagesInv, WizardInv, OrgInv, SuccessIsTrue, On
<1>9. UiInv' /\ FeedInv' /\ SessionInv'
  BY <1>1, <1>2, FeedStays, SessionStays DEF ClientInv, UiInv, On
<1> QED
  BY <1>4, <1>8, <1>9 DEF ClientInv

\* The verify page changes and sends nothing.
LEMMA VerifyMoves ==
    ASSUME ClientInv, On("verify"), ui' \in VerifyStates,
           ui'.result = ui.result, ui'.asked = ui.asked, ui'.sent = ui.sent,
           ui'.overlapped = ui.overlapped, ui'.loading = ui.loading,
           calls' = calls, SameSession, world' = world, feed' = feed
    PROVE  ClientInv'
<1>1. ui'.page = "verify" /\ ui'.mounted
  BY DEF VerifyStates
<1>2. CallsInv' /\ FeedInv' /\ SessionInv'
  BY <1>1, SameCallsKeep, FeedStays, SessionStays DEF ClientInv, SamePage, On
<1>3. FormInv' /\ VerifyInv'
  BY <1>1 DEF ClientInv, PagesInv, FormInv, VerifyInv, VerdictOK, Pending, Overlapped, On
<1>4. PagesInv' /\ UiInv'
  BY <1>1, <1>3 DEF PagesInv, WizardInv, OrgInv, SuccessIsTrue, On, UiInv
<1> QED
  BY <1>2, <1>4 DEF ClientInv

\* The verify page is mounted, and sends the token of its address.
LEMMA VerifyMountKeeps ==
    ASSUME ClientInv, VerifyMount
    PROVE  ClientInv'
<1>1. ~ui.mounted
  BY DEF VerifyMount, Opening
<1>2. \A token \in QRTokens \cup {None} :
          VerifyState(token) \in VerifyStates /\ VerifyState(token).result = None
  BY DEF VerifyState, VerifyStates
<1>3. CASE ui' = VerifyState(None) /\ calls' = calls
  <2>1. ui' \in VerifyStates /\ ui'.result = None
    BY <1>2, <1>3
  <2>2. ui'.page = "verify" /\ ui'.mounted /\ UiInv'
    BY <2>1 DEF VerifyStates, UiInv
  <2> QED
    BY <1>1, <1>3, <2>1, <2>2, QuietMount DEF VerifyMount
<1>4. ASSUME NEW token \in QRTokens, HandleVerify(VerifyState(token), token)
      PROVE  ClientInv'
  <2>1. ~On("verify")
    BY <1>1 DEF On
  <2> QED
    BY <1>1, <1>2, <1>4, <2>1, VerifyCalls DEF VerifyMount
<1> QED
  BY <1>3, <1>4 DEF VerifyMount

\* The link changes, and its token is sent.
LEMMA LinkKeeps ==
    ASSUME ClientInv, LinkChanges
    PROVE  ClientInv'
<1>1. On("verify") /\ ui \in VerifyStates /\ SameSession /\ world' = world /\ feed' = feed
  BY PageStates DEF LinkChanges, ClientInv
<1>2. CASE ui' = [ui EXCEPT !.link = None] /\ calls' = calls
  <2>1. /\ ui' \in VerifyStates /\ ui'.result = ui.result /\ ui'.asked = ui.asked
        /\ ui'.sent = ui.sent /\ ui'.overlapped = ui.overlapped /\ ui'.loading = ui.loading
    BY <1>1, <1>2 DEF VerifyStates
  <2> QED
    BY <1>1, <1>2, <2>1, VerifyMoves
<1>3. ASSUME NEW token \in QRTokens,
             HandleVerify([ui EXCEPT !.link = token, !.overlapped = @ \/ ui.loading], token)
      PROVE  ClientInv'
  <2> DEFINE page == [ui EXCEPT !.link = token, !.overlapped = @ \/ ui.loading]
  <2>1. /\ page \in VerifyStates /\ page.sent = ui.sent
        /\ page.overlapped = (ui.overlapped \/ ui.loading)
    BY <1>1 DEF VerifyStates
  <2> HIDE DEF page
  <2> QED
    BY <1>1, <1>3, <2>1, VerifyCalls DEF page
<1> QED
  BY <1>2, <1>3 DEF LinkChanges

\* The token in the field is sent, or another is typed in.
LEMMA VerifySubmits ==
    ASSUME ClientInv, SubmitToken \/ EditToken
    PROVE  ClientInv'
<1>1. On("verify") /\ ui \in VerifyStates /\ SameSession /\ world' = world /\ feed' = feed
  BY PageStates DEF SubmitToken, EditToken, ClientInv
<1>2. CASE calls' = calls /\ \/ ui' = [ui EXCEPT !.error = TRUE]
                             \/ \E token \in QRTokens \cup {None} : ui' = [ui EXCEPT !.input = token]
  <2>1. /\ ui' \in VerifyStates /\ ui'.result = ui.result /\ ui'.asked = ui.asked
        /\ ui'.sent = ui.sent /\ ui'.overlapped = ui.overlapped /\ ui'.loading = ui.loading
    BY <1>1, <1>2 DEF VerifyStates
  <2> QED
    BY <1>1, <1>2, <2>1, VerifyMoves
<1>3. CASE ui.input # None /\ HandleVerify(ui, ui.input) /\ ~ui.loading
  <2>1. ui.input \in QRTokens
    BY <1>1, <1>3 DEF VerifyStates
  <2> QED
    BY <1>1, <1>3, <2>1, VerifyCalls
<1> QED
  BY <1>2, <1>3 DEF SubmitToken, EditToken, VerifyEnabled

\* The verdict arrives.
LEMMA VerifyResumes ==
    ASSUME ClientInv, NEW c \in DOMAIN calls, calls[c] # NoCall, HandleVerifyResumes(c)
    PROVE  ClientInv'
<1>1. /\ calls[c].by = "verify" /\ Resumes(c, "verify") /\ End(c) /\ world' = world
      /\ feed' = feed /\ SameSession /\ CallOK(calls[c], world)
  BY RunsOn DEF HandleVerifyResumes, Resumes
<1>2. SessionInv'
  BY <1>1, SessionStays DEF ClientInv
<1>3. CASE ~calls[c].mounted
  BY <1>1, <1>2, <1>3, LateEnds DEF HandleVerifyResumes, Sets
<1>4. CASE calls[c].mounted
  <2>1. On("verify") /\ ui \in VerifyStates
    <3>1. On("verify")
      BY <1>1, <1>4, RunsOn DEF Handlers, On
    <3> QED
      BY <3>1, PageStates DEF ClientInv
  <2>2. Pending(c) /\ c \in 1 .. MaxCalls
    BY <1>1, <1>4 DEF Pending, Submissions, ClientInv, CallsInv
  <2>3. VerdictOK(ui, calls[c].arg)
    BY <2>1, <2>2 DEF ClientInv, PagesInv, VerifyInv
  <2>4. /\ ui' \in VerifyStates /\ ui'.asked = ui.asked /\ ui'.sent = ui.sent
        /\ ui'.overlapped = ui.overlapped
        /\ ui'.result = ui.result \/ ui'.result = calls[c].arg
    <3>1. DOMAIN calls[c].got = {"verifyQRToken"}
      BY <1>1 DEF CallOK, AwaitsOK
    <3>2. CASE Fulfilled(c, "verifyQRToken")
      <4> DEFINE value == Value(c, "verifyQRToken")
      <4>1. value \in QRTokens /\ value = calls[c].arg
        BY <1>1, <3>1, <3>2, Resumed1 DEF Promised, ArgumentOK
      <4>2. ui' = [ui EXCEPT !.loading = FALSE, !.result = value]
        BY <1>4, <3>2 DEF HandleVerifyResumes, Sets
      <4> HIDE DEF value
      <4> QED
        BY <2>1, <4>1, <4>2 DEF VerifyStates
    <3>3. CASE ~Fulfilled(c, "verifyQRToken")
      <4>1. ui' = [ui EXCEPT !.loading = FALSE, !.error = TRUE]
        BY <1>4, <3>3 DEF HandleVerifyResumes, Sets
      <4> QED
        BY <2>1, <4>1 DEF VerifyStates
    <3> QED
      BY <3>2, <3>3
  <2>5. ui'.page = "verify" /\ ui'.mounted /\ ui'.mounted = ui.mounted /\ ui'.page = ui.page
    BY <2>1, <2>4 DEF VerifyStates
  <2>6. CallsInv' /\ FeedInv'
    BY <1>1, <2>5, EndKeeps, FeedStays DEF ClientInv
  <2>7. \A d \in 1 .. MaxCalls : calls'[d] = IF d = c THEN NoCall ELSE calls[d]
    BY <1>1 DEF End, Ended, ClientInv, CallsInv
  <2>8. FormInv'
    <3>1. CASE Overlapped
      BY <2>1, <2>4, <2>5, <3>1 DEF FormInv, Overlapped, On
    <3>2. CASE ~Overlapped
      <4>1. \A d \in 1 .. MaxCalls : ~Pending(d)'
        BY <1>1, <1>4, <3>2, FormEnds DEF Submissions
      <4> QED
        BY <4>1 DEF FormInv
    <3> QED
      BY <3>1, <3>2
  <2>9. VerifyInv'
    <3>1. ui'.result # None => VerdictOK(ui', ui'.result)
      BY <2>1, <2>3, <2>4 DEF VerdictOK, ClientInv, PagesInv, VerifyInv
    <3>2. ASSUME NEW d \in 1 .. MaxCalls, Pending(d)'
          PROVE  VerdictOK(ui', calls'[d].arg)
      <4>1. calls'[d] = calls[d] /\ Pending(d)
        BY <2>7, <3>2 DEF Pending, NoCall
      <4> QED
        BY <2>1, <2>4, <4>1 DEF VerdictOK, ClientInv, PagesInv, VerifyInv
    <3> QED
      BY <3>1, <3>2 DEF VerifyInv
  <2>10. PagesInv' /\ UiInv'
    BY <2>4, <2>5, <2>8, <2>9 DEF PagesInv, WizardInv, OrgInv, SuccessIsTrue, On, UiInv
  <2> QED
    BY <1>1, <1>2, <2>6, <2>10 DEF ClientInv
<1> QED
  BY <1>3, <1>4

-----------------------------------------------------------------------------
(* The page of an organization. *)

\* The organization page is mounted.
LEMMA OrgMountKeeps ==
    ASSUME ClientInv, OrgMount
    PROVE  ClientInv'
<1>1. ~ui.mounted
  BY DEF OrgMount, Opening
<1>2. ui' \in OrgState /\ ui'.live = None
  BY DEF OrgMount, OrgState
<1>3. ui'.page = "org" /\ ui'.mounted
  BY <1>2 DEF OrgState
<1>4. UiInv'
  BY <1>2 DEF UiInv
<1> QED
  BY <1>1, <1>2, <1>3, <1>4, QuietMount DEF OrgMount

\* The organization signs in, or asks for consent.
LEMMA OrgCalls ==
    ASSUME ClientInv, HandleDemoRecruiterAuth \/ HandleCreateRequest
    PROVE  ClientInv'
<1>1. On("org") /\ ui \in OrgState /\ ~ui.loading /\ SameSession /\ world' = world
  BY PageStates DEF HandleDemoRecruiterAuth, HandleCreateRequest, OrgEnabled, ClientInv
<1>2. \A c \in 1 .. MaxCalls : ~Pending(c)
  BY <1>1, NothingPending DEF Overlapped, On
<1>3. SessionInv'
  BY <1>1, SessionStays DEF ClientInv
<1>4. ASSUME NEW by, NEW arg, NEW token, NEW f,
             \/ by = "recruiter" /\ f = "loginUser"
             \/ /\ by = "create" /\ f = "createVerificationRequest"
                /\ ui'.submitted = None /\ ui'.live = None,
             Await(by, arg, token, {f}), ui' \in OrgState, ui'.loading,
             ui'.live # None => ui'.live = ui.live /\ ui'.submitted = ui.submitted,
             FeedInv'
      PROVE  ClientInv'
  <2>1. ui'.page = "org" /\ ui'.mounted
    BY <1>4 DEF OrgState
  <2>2. /\ by \in Handlers(ui'.page)
        /\ by \in UNION {Handlers(page) : page \in Routes}
    <3>1. by \in Handlers("org") /\ "org" \in Routes
      BY <1>4 DEF Handlers, Routes
    <3> QED
      BY <2>1, <3>1
  <2>3. AwaitsOK(by, {f}) /\ KeepsOK(by, arg)
    BY <1>4 DEF AwaitsOK, KeepsOK
  <2>4. \A g \in {f} : ArgumentOK(arg, g, world)
    BY <1>4 DEF ArgumentOK
  <2>5. CallsInv'
    BY <1>1, <1>4, <2>1, <2>2, <2>3, <2>4, AwaitKeeps DEF ClientInv, SamePage, On
  <2>6. FormInv' /\ \A c \in 1 .. MaxCalls : Pending(c)' => calls'[c].by = by
    BY <1>2, <1>4, FormCalls DEF ClientInv
  <2>7. OrgInv'
    <3>1. ui'.live # None =>
              /\ ui'.submitted = ui'.live.request
              /\ ui'.live \in world'.recorded
      BY <1>1, <1>4 DEF ClientInv, PagesInv, OrgInv
    <3>2. \A c \in 1 .. MaxCalls : Pending(c)' /\ calls'[c].by = "create" =>
              ui'.submitted = None /\ ui'.live = None
      BY <1>4, <2>6
    <3> QED
      BY <3>1, <3>2 DEF OrgInv
  <2>8. PagesInv'
    BY <2>1, <2>6, <2>7 DEF PagesInv, WizardInv, VerifyInv, SuccessIsTrue, On
  <2>9. UiInv'
    BY <1>4 DEF UiInv
  <2> QED
    BY <1>1, <1>3, <1>4, <2>5, <2>8, <2>9 DEF ClientInv
<1>5. CASE HandleDemoRecruiterAuth
  <2>1. ui' = [ui EXCEPT !.loading = TRUE, !.error = FALSE] /\ feed' = feed
    BY <1>5 DEF HandleDemoRecruiterAuth
  <2>2. ui' \in OrgState /\ ui'.loading /\ ui'.live = ui.live /\ ui'.submitted = ui.submitted
    BY <1>1, <2>1 DEF OrgState
  <2>3. FeedInv'
    <3>1. ui'.page = "org" /\ ui.page = "org" /\ ui'.mounted
      BY <1>1, <2>2 DEF OrgState
    <3> QED
      BY <1>1, <2>1, <3>1, FeedStays DEF ClientInv
  <2> QED
    BY <1>4, <1>5, <2>2, <2>3 DEF HandleDemoRecruiterAuth
<1>6. CASE HandleCreateRequest
  <2>1. FeedInv'
    BY <1>6 DEF HandleCreateRequest, FeedInv
  <2>2. CASE ui' = [NewRequest EXCEPT !.error = TRUE, !.loading = FALSE] /\ calls' = calls
    <3>0. NewRequest \in OrgState /\ NewRequest.live = None
      BY <1>1 DEF NewRequest, OrgState
    <3>1. ui' \in OrgState /\ ui'.live = None
      BY <2>2, <3>0 DEF OrgState
    <3>2. ui'.page = "org" /\ ui'.mounted
      BY <3>1 DEF OrgState
    <3>3. CallsInv'
      BY <1>1, <2>2, <3>2, SameCallsKeep DEF ClientInv, SamePage, On
    <3>4. \A d \in 1 .. MaxCalls : ~Pending(d)'
      BY <1>2, <2>2 DEF Pending
    <3> QED
      BY <1>1, <1>3, <2>1, <3>1, <3>3, <3>4, QuietForm DEF Quiet, ClientInv
  <2>3. CASE ui' = NewRequest /\ Await("create", None, ActiveToken, {"createVerificationRequest"})
    <3>1. ui' \in OrgState /\ ui'.loading /\ ui'.live = None /\ ui'.submitted = None
      BY <1>1, <2>3 DEF NewRequest, OrgState
    <3> QED
      BY <1>4, <2>1, <2>3, <3>1
  <2> QED
    BY <1>6, <2>2, <2>3 DEF HandleCreateRequest
<1> QED
  BY <1>5, <1>6

\* A call of the organization is answered.
LEMMA OrgResumes ==
    ASSUME ClientInv, NEW c \in DOMAIN calls, calls[c] # NoCall,
           HandleDemoRecruiterAuthResumes(c) \/ HandleCreateRequestResumes(c)
    PROVE  ClientInv'
<1>1. /\ calls[c].by \in {"recruiter", "create"} /\ world' = world /\ feed' = feed
      /\ CallOK(calls[c], world)
  BY RunsOn DEF HandleDemoRecruiterAuthResumes, HandleCreateRequestResumes, Resumes
<1>2. ASSUME calls[c].mounted
      PROVE  On("org") /\ ui \in OrgState
  <2>1. On("org")
    BY <1>1, <1>2, RunsOn DEF Handlers, On
  <2> QED
    BY <2>1, PageStates DEF ClientInv
<1>3. ASSUME NEW state, Sets(c, state), End(c), SessionInv',
             calls[c].mounted =>
                 /\ state \in OrgState
                 /\ state.live # None =>
                        /\ state.submitted = state.live.request
                        /\ state.live \in world.recorded
      PROVE  ClientInv'
  <2>1. calls[c].mounted => state.page = ui.page /\ state.mounted = TRUE
    BY <1>2, <1>3 DEF OrgState
  <2> QED
    BY <1>1, <1>3, <2>1, FormSets DEF Submissions, Quiet
<1>4. calls[c].mounted =>
          (ui.live # None =>
               /\ ui.submitted = ui.live.request
               /\ ui.live \in world.recorded)
  BY <1>2 DEF ClientInv, PagesInv, OrgInv
<1> DEFINE done == [ui EXCEPT !.loading = FALSE]
           failed == [ui EXCEPT !.loading = FALSE, !.error = TRUE]
<1>5. calls[c].mounted =>
          /\ done \in OrgState /\ done.live = ui.live /\ done.submitted = ui.submitted
          /\ failed \in OrgState /\ failed.live = ui.live /\ failed.submitted = ui.submitted
  BY <1>2 DEF OrgState
<1> HIDE DEF done, failed
<1>6. CASE HandleDemoRecruiterAuthResumes(c)
  <2>0. calls[c].by = "recruiter" /\ Resumes(c, "recruiter")
    BY <1>6 DEF HandleDemoRecruiterAuthResumes, Resumes
  <2>1. CASE /\ Fulfilled(c, "loginUser") /\ Login(Value(c, "loginUser"))
             /\ Sets(c, done) /\ End(c)
    <3>1. DOMAIN calls[c].got = {"loginUser"}
      BY <1>1, <2>0 DEF CallOK, AwaitsOK
    <3>2. Value(c, "loginUser") \in world.accounts
      BY <2>0, <2>1, <3>1, Resumed1 DEF Promised
    <3>3. SessionInv'
      BY <1>1, <2>1, <3>2, SignsIn DEF ClientInv
    <3> QED
      BY <1>3, <1>4, <1>5, <2>1, <3>3
  <2>2. CASE /\ calls' = [calls EXCEPT ![c].arg = Officer,
                                       ![c].got = [f \in {"loginUser"} |-> Waiting]]
             /\ SameSession /\ ui' = ui
    <3> DEFINE next == [calls[c] EXCEPT !.arg = Officer, !.got = [f \in {"loginUser"} |-> Waiting]]
    <3>1. /\ DOMAIN next = CallFields /\ next.mounted = calls[c].mounted
          /\ next.got = [f \in {"loginUser"} |-> Waiting] /\ next.by = calls[c].by
      BY <1>1 DEF CallOK, CallFields
    <3>2. calls' = [calls EXCEPT ![c] = next]
      BY <2>2
    <3> HIDE DEF next
    <3>3. /\ next.by \in UNION {Handlers(page) : page \in Routes}
          /\ calls[c].mounted => next.by \in Handlers(ui.page)
      BY <3>1, RunsOn DEF CallOK
    <3>4. /\ AwaitsOK(next.by, {"loginUser"}) /\ KeepsOK(next.by, next.arg)
          /\ \A f \in {"loginUser"} : ArgumentOK(next.arg, f, world)
      BY <2>0, <3>1 DEF AwaitsOK, KeepsOK, ArgumentOK
    <3>5. CallsInv'
      BY <1>1, <2>2, <3>1, <3>2, <3>3, <3>4, GoesOn DEF ClientInv
    <3>6. SessionInv'
      BY <1>1, <2>2, SessionStays DEF ClientInv
    <3>7. \A d \in 1 .. MaxCalls : calls'[d] = IF d = c THEN next ELSE calls[d]
      BY <3>2 DEF ClientInv, CallsInv
    <3>8. calls[c].mounted => ~On("verify")
      BY <1>2 DEF On
    <3> QED
      BY <1>1, <2>2, <3>1, <3>5, <3>6, <3>7, <3>8, BackgroundKeeps DEF Pending
  <2>3. CASE Sets(c, failed) /\ End(c) /\ SameSession
    <3>1. SessionInv'
      BY <1>1, <2>3, SessionStays DEF ClientInv
    <3> QED
      BY <1>3, <1>4, <1>5, <2>3, <3>1
  <2> QED
    BY <1>6, <2>1, <2>2, <2>3 DEF HandleDemoRecruiterAuthResumes, done, failed
<1>7. CASE HandleCreateRequestResumes(c)
  <2>0. calls[c].by = "create" /\ Resumes(c, "create") /\ End(c)
    BY <1>7 DEF HandleCreateRequestResumes, Resumes
  <2>1. SessionInv'
    BY <1>7, SessionStays DEF HandleCreateRequestResumes, ClientInv
  <2>2. CASE Sets(c, failed)
    BY <1>3, <1>4, <1>5, <2>0, <2>1, <2>2
  <2>3. CASE /\ Fulfilled(c, "createVerificationRequest")
             /\ Sets(c, [ui EXCEPT !.loading = FALSE,
                                   !.submitted = Value(c, "createVerificationRequest")])
    <3> DEFINE request == Value(c, "createVerificationRequest")
               state == [ui EXCEPT !.loading = FALSE, !.submitted = request]
    <3>1. DOMAIN calls[c].got = {"createVerificationRequest"}
      BY <1>1, <2>0 DEF CallOK, AwaitsOK
    <3>2. request \in Requests
      BY <2>0, <2>3, <3>1, Resumed1 DEF Promised
    <3>3. calls[c].mounted => ui.live = None
      <4>1. calls[c].mounted => Pending(c) /\ c \in 1 .. MaxCalls
        BY <2>0 DEF Pending, Submissions, ClientInv, CallsInv
      <4> QED
        BY <1>2, <2>0, <4>1 DEF ClientInv, PagesInv, OrgInv
    <3> HIDE DEF request
    <3>4. calls[c].mounted => state \in OrgState /\ state.live = ui.live
      BY <1>2, <3>2 DEF OrgState
    <3>5. Sets(c, state)
      BY <2>3 DEF request
    <3> HIDE DEF state
    <3> QED
      BY <1>3, <2>0, <2>1, <3>3, <3>4, <3>5
  <2> QED
    BY <1>7, <2>2, <2>3 DEF HandleCreateRequestResumes, failed
<1> QED
  BY <1>6, <1>7

-----------------------------------------------------------------------------
(* The event stream. *)

\* The record of a stream.
LEMMA StreamRecord ==
    ASSUME NEW A, NEW R, NEW Q, NEW as \in A, NEW r \in R, NEW queue \in Q, NEW stream,
           stream = [state |-> "connecting", as |-> as, about |-> r, queue |-> queue]
    PROVE  stream \in [state : {"connecting", "open", "refused"}, as : A, about : R, queue : Q]
  OBVIOUS

\* The stream of the organization with other events under way.
LEMMA AnswerQueued ==
    ASSUME NEW stream \in RequestFeed, NEW queue \in [{"request"} -> Seq(Answers)], NEW next,
           next = [stream EXCEPT !.queue = queue]
    PROVE  next \in RequestFeed
<1> DEFINE Q == [{"request"} -> Seq(Answers)]
<1>1. queue \in Q
  OBVIOUS
<1>2. stream \in [state : {"connecting", "open", "refused"}, as : Accounts, about : Requests, queue : Q]
  BY DEF RequestFeed
<1> HIDE DEF Q
<1>3. next \in [state : {"connecting", "open", "refused"}, as : Accounts, about : Requests, queue : Q]
  BY <1>1, <1>2
<1> QED
  BY <1>3 DEF RequestFeed, Q

\* A stream that connects has nothing queued.
LEMMA ConnectingStates ==
    ASSUME NEW as \in Accounts
    PROVE  /\ Connecting(as, None) \in HolderFeed /\ NoticesTrue(Connecting(as, None), world)
           /\ \A r \in Requests :
                  /\ Connecting(as, r) \in RequestFeed
                  /\ AnswersTrue(Connecting(as, r), world)
<1>1. /\ Connecting(as, None) =
             [state |-> "connecting", as |-> as, about |-> None,
              queue |-> [topic \in {"identity", "eka_id"} |-> <<>>]]
      /\ \A r \in Requests :
             Connecting(as, r) = [state |-> "connecting", as |-> as, about |-> r,
                                  queue |-> [topic \in {"request"} |-> <<>>]]
  BY WebBackendAssumption DEF Connecting
<1>2. ASSUME NEW S, NEW topics
      PROVE  [topic \in topics |-> <<>>] \in [topics -> Seq(S)]
  OBVIOUS
<1>3. Connecting(as, None) \in HolderFeed
  BY <1>1, <1>2, ZenonT(30) DEF HolderFeed
<1>4. ASSUME NEW r \in Requests
      PROVE  Connecting(as, r) \in RequestFeed
  <2> DEFINE queue == [topic \in {"request"} |-> <<>>]
  <2>1. queue \in [{"request"} -> Seq(Answers)]
    BY <1>2
  <2>2. Connecting(as, r) = [state |-> "connecting", as |-> as, about |-> r, queue |-> queue]
    BY <1>1
  <2> HIDE DEF queue
  <2> QED
    BY <2>1, <2>2, StreamRecord DEF RequestFeed
<1>5. NoticesTrue(Connecting(as, None), world)
  BY <1>1 DEF NoticesTrue
<1>6. ASSUME NEW r \in Requests
      PROVE  AnswersTrue(Connecting(as, r), world)
  <2> DEFINE stream == Connecting(as, r)
  <2>3. stream = [state |-> "connecting", as |-> as, about |-> r,
                  queue |-> [topic \in {"request"} |-> <<>>]]
    BY <1>1
  <2> HIDE DEF stream
  <2>0. stream.queue = [topic \in {"request"} |-> <<>>]
    BY <2>3
  <2>1. stream.queue["request"] = <<>>
    BY <2>0
  <2>2. DOMAIN stream.queue["request"] = {}
    BY <2>1
  <2> QED
    BY <2>2 DEF AnswersTrue, stream
<1> QED
  BY <1>3, <1>4, <1>5, <1>6

\* The stream of a page, by what it is about.
LEMMA FeedKinds ==
    ASSUME FeedInv
    PROVE  /\ feed # NoFeed =>
                  feed.as \in Accounts /\ feed.about \in Requests \cup {None}
           /\ feed.state # "closed" => feed # NoFeed
           /\ On("dashboard") /\ feed # NoFeed => feed \in HolderFeed /\ NoticesTrue(feed, world)
           /\ On("org") /\ feed # NoFeed => feed \in RequestFeed /\ AnswersTrue(feed, world)
<1>1. /\ feed \in HolderFeed => feed.as \in Accounts /\ feed.about = None
      /\ feed \in RequestFeed => feed.as \in Accounts /\ feed.about \in Requests
  BY DEF HolderFeed, RequestFeed
<1>2. feed.state # "closed" => feed # NoFeed
  BY DEF NoFeed
<1> QED
  BY <1>1, <1>2 DEF FeedInv, On

\* It opens, or breaks.
LEMMA FeedMoves ==
    ASSUME FeedInv, FeedOpens \/ FeedBreaks, world' = world,
           ui.mounted, ui'.page = ui.page, ui'.mounted
    PROVE  FeedInv'
<1>1. feed # NoFeed
  BY DEF FeedOpens, FeedBreaks, NoFeed
<1>2. CASE FeedOpens
  <2>1. PICK state \in {"open", "refused"} : feed' = [feed EXCEPT !.state = state]
    BY <1>2 DEF FeedOpens
  <2>2. CASE feed \in HolderFeed /\ On("dashboard") /\ NoticesTrue(feed, world)
    <3>1. feed' \in HolderFeed /\ feed'.queue = feed.queue
      BY <2>1, <2>2 DEF HolderFeed
    <3>2. On("dashboard")' /\ NoticesTrue(feed', world')
      BY <2>2, <3>1 DEF On, NoticesTrue, Approved
    <3> QED
      BY <3>1, <3>2 DEF FeedInv
  <2>3. CASE feed \in RequestFeed /\ On("org") /\ AnswersTrue(feed, world)
    <3>1. feed' \in RequestFeed /\ feed'.queue = feed.queue
      BY <2>1, <2>3 DEF RequestFeed
    <3>2. On("org")' /\ AnswersTrue(feed', world')
      BY <2>3, <3>1 DEF On, AnswersTrue
    <3> QED
      BY <3>1, <3>2 DEF FeedInv
  <2> QED
    BY <1>1, <2>2, <2>3 DEF FeedInv
<1>3. CASE FeedBreaks
  <2>1. feed' = Connecting(feed.as, feed.about)
    BY <1>3 DEF FeedBreaks
  <2>2. CASE feed \in HolderFeed /\ On("dashboard")
    <3>1. feed.as \in Accounts /\ feed.about = None
      BY <2>2 DEF HolderFeed
    <3>2. feed' \in HolderFeed /\ NoticesTrue(feed', world')
      BY <2>1, <3>1, ConnectingStates
    <3> QED
      BY <2>2, <3>2 DEF FeedInv, On
  <2>3. CASE feed \in RequestFeed /\ On("org")
    <3>1. feed.as \in Accounts /\ feed.about \in Requests
      BY <2>3 DEF RequestFeed
    <3>2. feed' \in RequestFeed /\ AnswersTrue(feed', world')
      BY <2>1, <3>1, ConnectingStates
    <3> QED
      BY <2>3, <3>2 DEF FeedInv, On
  <2> QED
    BY <1>1, <2>2, <2>3 DEF FeedInv
<1> QED
  BY <1>2, <1>3

\* What is left of a queue, and what is taken from it.
LEMMA Rest ==
    ASSUME NEW S, NEW q \in Seq(S), q # <<>>
    PROVE  /\ Tail(q) \in Seq(S)
           /\ 1 \in DOMAIN q /\ Head(q) = q[1] /\ Head(q) \in S
           /\ \A i \in DOMAIN Tail(q) : i + 1 \in DOMAIN q /\ Tail(q)[i] = q[i + 1]
  OBVIOUS

\* The dashboard is told something.
LEMMA HolderTold ==
    ASSUME FeedInv, NEW topic, NEW event, Delivered(topic, event), world' = world,
           On("dashboard"), ui'.page = ui.page, ui'.mounted
    PROVE  FeedInv' /\ event \in Notices /\ (event = "AMENDMENT_APPROVED" => Approved(world))
<1>1. feed \in HolderFeed /\ NoticesTrue(feed, world) /\ topic \in {"identity", "eka_id"}
  BY FeedKinds DEF Delivered, HolderFeed
<1> DEFINE q == feed.queue[topic]
           rest == [feed.queue EXCEPT ![topic] = Tail(q)]
<1>2. /\ feed.queue \in [{"identity", "eka_id"} -> Seq(Notices)]
      /\ q \in Seq(Notices) /\ q # <<>>
  BY <1>1 DEF HolderFeed, Delivered
<1>3. /\ Tail(q) \in Seq(Notices)
      /\ 1 \in DOMAIN q /\ event = q[1] /\ event \in Notices
      /\ \A i \in DOMAIN Tail(q) : i + 1 \in DOMAIN q /\ Tail(q)[i] = q[i + 1]
  BY <1>2, Rest DEF Delivered
<1>4. event = "AMENDMENT_APPROVED" => Approved(world)
  BY <1>1, <1>3 DEF NoticesTrue
<1>5. feed' = [feed EXCEPT !.queue = rest]
  BY DEF Delivered
<1>6. /\ rest \in [{"identity", "eka_id"} -> Seq(Notices)]
      /\ \A t \in {"identity", "eka_id"} : rest[t] = IF t = topic THEN Tail(q) ELSE feed.queue[t]
  BY <1>1, <1>2, <1>3
<1>7. \A t \in {"identity", "eka_id"} : \A i \in DOMAIN rest[t] :
          rest[t][i] = "AMENDMENT_APPROVED" => Approved(world)
  BY <1>1, <1>3, <1>6 DEF NoticesTrue
<1> HIDE DEF rest
<1>8. feed' \in HolderFeed /\ feed'.queue = rest
  BY <1>1, <1>5, <1>6 DEF HolderFeed
<1>9. NoticesTrue(feed', world') /\ On("dashboard")'
  BY <1>7, <1>8 DEF NoticesTrue, On, Approved
<1> QED
  BY <1>3, <1>4, <1>8, <1>9 DEF FeedInv

\* The organization is told an answer.
LEMMA OrganizationTold ==
    ASSUME FeedInv, NEW answer, Delivered("request", answer), world' = world,
           On("org"), ui'.page = ui.page, ui'.mounted
    PROVE  /\ FeedInv' /\ answer \in Answers
           /\ answer \in world.recorded
<1>1. feed \in RequestFeed /\ AnswersTrue(feed, world)
  BY FeedKinds DEF Delivered
<1> DEFINE q == feed.queue["request"]
           rest == [feed.queue EXCEPT !["request"] = Tail(q)]
<1>2. /\ feed.queue \in [{"request"} -> Seq(Answers)]
      /\ q \in Seq(Answers) /\ q # <<>>
  BY <1>1 DEF RequestFeed, Delivered
<1>3. /\ Tail(q) \in Seq(Answers)
      /\ 1 \in DOMAIN q /\ answer = q[1] /\ answer \in Answers
      /\ \A i \in DOMAIN Tail(q) : i + 1 \in DOMAIN q /\ Tail(q)[i] = q[i + 1]
  BY <1>2, Rest DEF Delivered
<1>4. answer \in world.recorded
  BY <1>1, <1>3 DEF AnswersTrue
<1>5. feed' = [feed EXCEPT !.queue = rest]
  BY DEF Delivered
<1>6. rest \in [{"request"} -> Seq(Answers)] /\ rest["request"] = Tail(q)
  BY <1>2, <1>3
<1> HIDE DEF rest
<1>7. feed'.queue = rest
  BY <1>1, <1>5 DEF RequestFeed
<1>8. feed' \in RequestFeed
  <2>1. rest \in [{"request"} -> Seq(Answers)] /\ feed \in RequestFeed
    BY <1>1, <1>6
  <2> QED
    BY <2>1, <1>5, AnswerQueued
<1>9. AnswersTrue(feed', world') /\ On("org")'
  <2>1. \A i \in DOMAIN Tail(q) : Tail(q)[i] \in world.recorded
    BY <1>1, <1>3 DEF AnswersTrue
  <2>2. feed'.queue["request"] = Tail(q)
    BY <1>6, <1>7
  <2> QED
    BY <2>1, <2>2 DEF AnswersTrue, On
<1> QED
  BY <1>3, <1>4, <1>8, <1>9 DEF FeedInv

\* The organization page goes on with the calls it has under way.
LEMMA OrgMoves ==
    ASSUME ClientInv, On("org"), ui' \in OrgState, ui'.loading = ui.loading,
           ui'.submitted = ui.submitted,
           ui'.live # None =>
               /\ ui'.submitted # None /\ ui'.submitted = ui'.live.request
               /\ ui'.live \in world.recorded,
           calls' = calls, world' = world, FeedInv', SameSession
    PROVE  ClientInv'
<1>1. ui'.page = "org" /\ ui'.mounted
  BY DEF OrgState
<1>2. CallsInv' /\ SessionInv'
  BY <1>1, SameCallsKeep, SessionStays DEF ClientInv, SamePage, On
<1>3. FormInv'
  BY <1>1 DEF ClientInv, PagesInv, FormInv, Pending, Overlapped, On
<1>4. OrgInv'
  <2>1. ASSUME NEW c \in 1 .. MaxCalls, Pending(c)', calls'[c].by = "create"
        PROVE  ui'.submitted = None /\ ui'.live = None
    <3>1. ui.submitted = None
      BY <2>1 DEF ClientInv, PagesInv, OrgInv, Pending
    <3> QED
      BY <3>1
  <2> QED
    BY <2>1 DEF OrgInv
<1>5. PagesInv'
  BY <1>1, <1>3, <1>4 DEF PagesInv, WizardInv, VerifyInv, SuccessIsTrue, On
<1>6. UiInv'
  BY DEF UiInv
<1> QED
  BY <1>2, <1>5, <1>6 DEF ClientInv

\* The organization page and its stream.
LEMMA OrgListens ==
    ASSUME ClientInv, Subscribe \/ OrgFeedOpens \/ OrgFeedBreaks \/ ConsentRequestResponded
    PROVE  ClientInv'
<1>1. On("org") /\ ui \in OrgState /\ SameSession /\ world' = world /\ calls' = calls
  BY PageStates DEF ClientInv, Subscribe, OrgFeedOpens, OrgFeedBreaks, ConsentRequestResponded,
                    web, SameSession
<1>2. ui.live # None =>
          /\ ui.submitted # None /\ ui.submitted = ui.live.request
          /\ ui.live \in world.recorded
  BY <1>1, WebBackendAssumption DEF ClientInv, PagesInv, OrgInv, OrgState, Answers
<1>3. CASE Subscribe
  <2>1. ActiveToken \in Accounts
    BY <1>3 DEF Subscribe, ActiveToken, ClientInv, SessionInv, WorldOK, WorldType, AccountOrNone
  <2>2. ui.submitted \in Requests
    BY <1>1, <1>3 DEF Subscribe, OrgState
  <2>3. feed' \in RequestFeed /\ AnswersTrue(feed', world') /\ ui' = ui
    BY <1>1, <1>3, <2>1, <2>2, ConnectingStates DEF Subscribe
  <2>4. FeedInv'
    BY <1>1, <2>3 DEF FeedInv, On
  <2> QED
    BY <1>1, <1>2, <2>3, <2>4, OrgMoves
<1>4. CASE OrgFeedOpens \/ OrgFeedBreaks
  <2>1. ui' = ui /\ (FeedOpens \/ FeedBreaks)
    BY <1>4 DEF OrgFeedOpens, OrgFeedBreaks, web
  <2>2. FeedInv'
    BY <1>1, <2>1, FeedMoves DEF ClientInv, On
  <2> QED
    BY <1>1, <1>2, <2>1, <2>2, OrgMoves
<1>5. CASE ConsentRequestResponded
  <2>1. PICK answer \in Answers :
            /\ Delivered("request", answer)
            /\ answer.request = ui.submitted
            /\ ui' = [ui EXCEPT !.live = answer]
    BY <1>5 DEF ConsentRequestResponded, Answers
  <2>2. /\ ui' \in OrgState /\ ui'.live = answer
        /\ ui'.loading = ui.loading /\ ui'.submitted = ui.submitted
    BY <1>1, <2>1 DEF OrgState
  <2>3. ui'.page = "org" /\ ui'.mounted /\ ui.page = "org"
    BY <1>1, <2>2 DEF OrgState
  <2>4. FeedInv' /\ answer \in world.recorded
    BY <1>1, <2>1, <2>3, OrganizationTold DEF ClientInv
  <2>5. answer.request \in Requests /\ answer.request # None
    <3>1. None \notin Requests
      BY WebBackendAssumption
    <3>2. answer.request \in Requests
      BY <2>1 DEF Answers
    <3> QED
      BY <3>1, <3>2
  <2> QED
    BY <1>1, <2>1, <2>2, <2>4, <2>5, OrgMoves
<1> QED
  BY <1>3, <1>4, <1>5

-----------------------------------------------------------------------------
(* The dashboard. *)

\* A message of success is true of what the server has stored.
MessageTrue(message, w) ==
    /\ message.about = "consent" => message.answer \in w.recorded
    /\ message.about = "amendment" => message.id \in DOMAIN w.amendments
    /\ message.about = "approval" => Approved(w)
    /\ message.about = "document" => message.id \in w.documents

Dashboard(state, w) ==
    /\ state \in DashboardStates
    /\ FormOK(state)
    /\ MessageTrue(state.success, w)

\* The invariant is one of the dashboard.
LEMMA OnDashboard ==
    ASSUME ClientInv, On("dashboard")
    PROVE  Dashboard(ui, world) /\ ui.page = "dashboard" /\ ui.mounted = TRUE
<1>1. ui \in DashboardStates /\ FormOK(ui)
  BY PageStates DEF ClientInv
<1>2. ui.page = "dashboard" /\ ui.mounted = TRUE
  BY <1>1 DEF DashboardStates
<1>3. MessageTrue(ui.success, world)
  BY DEF ClientInv, PagesInv, SuccessIsTrue, MessageTrue, Approved
<1> QED
  BY <1>1, <1>2, <1>3 DEF Dashboard

\* A state with the same form.
Similar(next, state) ==
    /\ next \in DashboardStates
    /\ next.form = state.form /\ next.profile = state.profile /\ next.edited = state.edited

\* It needs a true message only.
LEMMA SimilarDashboard ==
    ASSUME NEW w, NEW state, Dashboard(state, w), NEW next, Similar(next, state),
           next.success = state.success \/ MessageTrue(next.success, w)
    PROVE  Dashboard(next, w)
  BY DEF Similar, Dashboard, FormOK

\* What the dashboard and its handlers do keeps the invariant.
LEMMA DashboardKeeps ==
    ASSUME WorldOK(world'), CallsInv', FeedInv', SessionInv', Dashboard(ui', world')
    PROVE  ClientInv'
<1>1. ui'.page = "dashboard" /\ ui'.mounted /\ UiInv'
  BY DEF Dashboard, UiInv, DashboardStates
<1>2. SuccessIsTrue'
  <2>1. MessageTrue(ui'.success, world')
    BY DEF Dashboard
  <2> QED
    BY <2>1 DEF SuccessIsTrue, MessageTrue, Approved
<1>3. PagesInv'
  BY <1>1, <1>2, NoFormNext DEF PagesInv
<1> QED
  BY <1>1, <1>3 DEF ClientInv

\* A click that changes the page alone.
LEMMA DashboardMoves ==
    ASSUME ClientInv, On("dashboard"), Dashboard(ui', world), calls' = calls, world' = world,
           feed' = feed, SameSession
    PROVE  ClientInv'
<1>1. ui.page = "dashboard" /\ ui'.page = "dashboard" /\ ui'.mounted
  BY OnDashboard DEF Dashboard, DashboardStates
<1>2. CallsInv' /\ FeedInv' /\ SessionInv'
  BY <1>1, SameCallsKeep, FeedStays, SessionStays DEF ClientInv, SamePage
<1> QED
  BY <1>2, DashboardKeeps DEF ClientInv

\* A handler of the dashboard starts.
LEMMA DashboardAwaits ==
    ASSUME ClientInv, ~ui.mounted \/ On("dashboard"), Dashboard(ui', world), FeedInv',
           world' = world, SameSession,
           NEW by, NEW arg, NEW token, NEW functions, Await(by, arg, token, functions),
           by \in Handlers("dashboard"), AwaitsOK(by, functions), KeepsOK(by, arg),
           \A f \in functions : ArgumentOK(arg, f, world)
    PROVE  ClientInv'
<1>1. ui'.page = "dashboard" /\ ui'.mounted
  BY DEF Dashboard, DashboardStates
<1>2. by \in Handlers(ui'.page) /\ by \in UNION {Handlers(page) : page \in Routes}
  BY <1>1 DEF Routes
<1>3. SamePage
  BY <1>1 DEF SamePage, On
<1>4. CallsInv' /\ SessionInv'
  BY <1>2, <1>3, AwaitKeeps, SessionStays DEF ClientInv
<1> QED
  BY <1>4, DashboardKeeps DEF ClientInv

\* A handler of the dashboard goes on or ends, and sets the state of its page.
LEMMA DashboardSets ==
    ASSUME ClientInv, NEW c \in DOMAIN calls, calls[c] # NoCall,
           calls[c].by \in Handlers("dashboard"),
           NEW state, Sets(c, state), calls[c].mounted => Dashboard(state, world),
           world' = world, feed' = feed, SameSession,
           ui'.page = ui.page /\ ui'.mounted = ui.mounted => CallsInv',
           \A d \in 1 .. MaxCalls : d # c => calls'[d] = calls[d],
           ~Pending(c)'
    PROVE  ClientInv'
<1>1. SessionInv'
  BY SessionStays DEF ClientInv
<1>2. CASE ~calls[c].mounted
  <2>1. ui' = ui
    BY <1>2 DEF Sets
  <2> QED
    BY <1>1, <2>1, BackgroundKeeps DEF Pending
<1>3. CASE calls[c].mounted
  <2>1. ui.mounted /\ calls[c].by \in Handlers(ui.page)
    BY <1>3, RunsOn
  <2>2. On("dashboard")
    BY <2>1, PageStates DEF On, Handlers, Routes, ClientInv
  <2>3. Dashboard(ui', world') /\ ui'.page = ui.page /\ ui'.mounted = ui.mounted
    BY <1>3, <2>2, OnDashboard DEF Sets, Dashboard, DashboardStates
  <2>4. FeedInv'
    BY <2>3, FeedStays DEF ClientInv
  <2> QED
    BY <1>1, <2>3, <2>4, DashboardKeeps DEF ClientInv
<1> QED
  BY <1>2, <1>3

\* It ends.
LEMMA DashboardEnds ==
    ASSUME ClientInv, NEW c \in DOMAIN calls, calls[c] # NoCall,
           calls[c].by \in Handlers("dashboard"),
           NEW state, Sets1(c, state), calls[c].mounted => Dashboard(state, world)
    PROVE  ClientInv'
<1>1. \A d \in 1 .. MaxCalls : calls'[d] = IF d = c THEN NoCall ELSE calls[d]
  BY DEF Sets1, End, Ended, ClientInv, CallsInv
<1>2. ~Pending(c)' /\ c \in 1 .. MaxCalls
  BY <1>1 DEF Pending, NoCall, ClientInv, CallsInv
<1>3. ui'.page = ui.page /\ ui'.mounted = ui.mounted => CallsInv'
  BY EndKeeps DEF Sets1, ClientInv
<1> QED
  BY <1>1, <1>2, <1>3, DashboardSets DEF Sets1

\* It goes on with another call.
LEMMA DashboardGoesOn ==
    ASSUME ClientInv, NEW c \in DOMAIN calls, calls[c] # NoCall,
           calls[c].by \in Handlers("dashboard"),
           NEW state, NEW by, NEW functions, SetsThen(c, state, by, functions),
           calls[c].mounted => Dashboard(state, world),
           by \in Handlers("dashboard"), AwaitsOK(by, functions), KeepsOK(by, calls[c].arg),
           \A f \in functions : ArgumentOK(calls[c].arg, f, world)
    PROVE  ClientInv'
<1>1. calls[c].mounted => ui.page = "dashboard"
  BY RunsOn, PageStates DEF Handlers, Routes, ClientInv
<1>2. by \in UNION {Handlers(page) : page \in Routes}
  BY DEF Routes
<1>3. ui'.page = ui.page /\ ui'.mounted = ui.mounted => CallsInv'
  BY <1>1, <1>2, NextKeeps DEF SetsThen, ClientInv
<1>4. CallOK(calls[c], world) /\ c \in 1 .. MaxCalls
  BY RunsOn DEF ClientInv, CallsInv
<1>5. calls'[c].by = by /\ \A d \in 1 .. MaxCalls : d # c => calls'[d] = calls[d]
  <2> DEFINE next == [calls[c] EXCEPT !.by = by, !.got = [f \in functions |-> Waiting]]
  <2>1. calls' = [calls EXCEPT ![c] = next]
    BY DEF SetsThen, AwaitNext
  <2>2. next.by = by
    BY <1>4, NextCall DEF CallOK
  <2> HIDE DEF next
  <2> QED
    BY <1>4, <2>1, <2>2 DEF ClientInv, CallsInv
<1>6. ~Pending(c)'
  BY <1>5 DEF Pending, Submissions, Handlers
<1> QED
  BY <1>3, <1>5, <1>6, DashboardSets DEF SetsThen

\* What a click on the dashboard changes.
LEMMA ClickStates ==
    ASSUME NEW state \in DashboardStates
    PROVE  LET Like(next) == Similar(next, state) /\ next.success = state.success IN
           /\ Like([state EXCEPT !.alert = FALSE])
           /\ \A x \in {"default", "custom"} : Like([state EXCEPT !.scopes = x])
           /\ \A x \in {5, 15} : Like([state EXCEPT !.duration = x])
           /\ Like([state EXCEPT !.vc = FALSE])
           /\ Like([state EXCEPT !.did = FALSE])
           /\ \A x \in BOOLEAN : Like([state EXCEPT !.modal = x])
           /\ \A x \in SUBSET Documents : Like([state EXCEPT !.selected = x])
           /\ Like([state EXCEPT !.error = TRUE])
           /\ Like([state EXCEPT !.uploading = TRUE])
<1> USE DEF DashboardStates, Similar
<1> DEFINE Like(next) == Similar(next, state) /\ next.success = state.success
<1>1. Like([state EXCEPT !.alert = FALSE])
  BY ZenonT(30)
<1>2. \A x \in {"default", "custom"} : Like([state EXCEPT !.scopes = x])
  BY ZenonT(30)
<1>3. \A x \in {5, 15} : Like([state EXCEPT !.duration = x])
  BY ZenonT(30)
<1>4. Like([state EXCEPT !.vc = FALSE])
  BY ZenonT(30)
<1>5. Like([state EXCEPT !.did = FALSE])
  BY ZenonT(30)
<1>6. \A x \in BOOLEAN : Like([state EXCEPT !.modal = x])
  BY ZenonT(90)
<1>7. \A x \in SUBSET Documents : Like([state EXCEPT !.selected = x])
  BY ZenonT(30)
<1>8. Like([state EXCEPT !.error = TRUE])
  BY ZenonT(30)
<1>9. Like([state EXCEPT !.uploading = TRUE])
  BY ZenonT(30)
<1> HIDE DEF DashboardStates, Similar, Like
<1> QED
  BY <1>1, <1>2, <1>3, <1>4, <1>5, <1>6, <1>7, <1>8, <1>9 DEF Like

\* The form is filled in.
Filled(state, form, edited) == [state EXCEPT !.form = form, !.edited = edited]

\* Nothing else changes.
LEMMA FilledState ==
    ASSUME NEW state \in DashboardStates, NEW form \in [Fields -> Values],
           NEW edited \in SUBSET Fields
    PROVE  LET next == Filled(state, form, edited) IN
           /\ next \in DashboardStates /\ next.form = form /\ next.edited = edited
           /\ next.profile = state.profile /\ next.success = state.success
<1> DEFINE next == Filled(state, form, edited)
<1>1. next \in DashboardStates
  BY ZenonT(30) DEF DashboardStates, Filled
<1>2. /\ next.form = form /\ next.edited = edited
      /\ next.profile = state.profile /\ next.success = state.success
  BY DEF DashboardStates, Filled
<1> QED
  BY <1>1, <1>2

\* A form field is edited.
LEMMA EditedState ==
    ASSUME NEW w, NEW state, Dashboard(state, w), NEW field \in Fields,
           NEW form \in [Fields -> Values],
           \A f \in Fields : form[f] = IF f = field THEN "other" ELSE state.form[f],
           NEW edited \in SUBSET Fields, field \in edited, state.edited \subseteq edited,
           NEW next, next = Filled(state, form, edited)
    PROVE  Dashboard(next, w)
<1>1. /\ next \in DashboardStates /\ next.form = form /\ next.edited = edited
      /\ next.profile = state.profile /\ next.success = state.success
  BY FilledState DEF Dashboard
<1>2. \A f \in Fields : f # field => next.form[f] = state.form[f]
  BY <1>1
<1>3. next.form[field] = "other"
  BY <1>1
<1>4. FormOK(state) /\ MessageTrue(state.success, w)
  BY DEF Dashboard
<1>5. FormOK(next)
  BY <1>1, <1>2, <1>3, <1>4, ZenonT(30) DEF FormOK
<1> QED
  BY <1>1, <1>4, <1>5 DEF Dashboard

\* The clicks that change the page alone.
LEMMA DashboardClicks ==
    ASSUME ClientInv,
           \/ On("dashboard") /\ ReviewNow
           \/ ToggleScope \/ SetQrDuration \/ CloseVC \/ CloseDID
           \/ OpenAmendmentModal \/ CloseAmendmentModal \/ EditForm \/ HandleToggleDocSelection
    PROVE  ClientInv'
<1>1. On("dashboard") /\ Dashboard(ui, world) /\ ui \in DashboardStates
  <2>1. On("dashboard")
    BY DEF ToggleScope, SetQrDuration, CloseVC, CloseDID, OpenAmendmentModal,
           CloseAmendmentModal, EditForm, HandleToggleDocSelection
  <2> QED
    BY <2>1, OnDashboard DEF Dashboard
<1>2. ASSUME NEW state, Clicked(state), Dashboard(state, world)
      PROVE  ClientInv'
  BY <1>1, <1>2, DashboardMoves DEF Clicked
<1>3. ASSUME NEW state, Clicked(state), Similar(state, ui), state.success = ui.success
      PROVE  ClientInv'
  BY <1>1, <1>2, <1>3, SimilarDashboard
<1>4. CASE ReviewNow
  BY <1>1, <1>3, <1>4, ClickStates DEF ReviewNow
<1>5. CASE ToggleScope
  BY <1>1, <1>3, <1>5, ClickStates DEF ToggleScope
<1>6. CASE SetQrDuration
  BY <1>1, <1>3, <1>6, ClickStates DEF SetQrDuration
<1>7. CASE CloseVC \/ CloseDID
  BY <1>1, <1>3, <1>7, ClickStates DEF CloseVC, CloseDID
<1>8. CASE OpenAmendmentModal \/ CloseAmendmentModal
  BY <1>1, <1>3, <1>8, ClickStates DEF OpenAmendmentModal, CloseAmendmentModal
<1>9. CASE EditForm
  <2>1. PICK field \in Fields :
            Clicked([ui EXCEPT !.form[field] = "other", !.edited = @ \cup {field}])
    BY <1>9 DEF EditForm
  <2> DEFINE form == [ui.form EXCEPT ![field] = "other"]
             edited == ui.edited \cup {field}
             state == [ui EXCEPT !.form = form, !.edited = edited]
  <2>2. Clicked(state)
    BY <2>1
  <2>3. ui.form \in [Fields -> Values] /\ ui.edited \in SUBSET Fields
    BY <1>1 DEF DashboardStates
  <2>4. /\ form \in [Fields -> Values] /\ edited \in SUBSET Fields
        /\ \A f \in Fields : form[f] = IF f = field THEN "other" ELSE ui.form[f]
        /\ field \in edited /\ ui.edited \subseteq edited
    BY <2>3 DEF Values
  <2> HIDE DEF form, edited
  <2>5. Dashboard(state, world)
    BY <1>1, <2>4, EditedState DEF Filled
  <2> HIDE DEF state
  <2> QED
    BY <1>2, <2>2, <2>5
<1>10. CASE HandleToggleDocSelection
  <2>1. PICK selected \in SUBSET Documents : Clicked([ui EXCEPT !.selected = selected])
    <3>1. ui.documents \in SUBSET Documents /\ ui.selected \in SUBSET Documents
      BY <1>1 DEF DashboardStates
    <3>2. PICK d \in ui.documents :
              Clicked([ui EXCEPT !.selected = IF d \in @ THEN @ \ {d} ELSE @ \cup {d}])
      BY <1>10 DEF HandleToggleDocSelection
    <3>3. (IF d \in ui.selected THEN ui.selected \ {d} ELSE ui.selected \cup {d}) \in SUBSET Documents
      BY <3>1
    <3> QED
      BY <3>2, <3>3
  <2> QED
    BY <1>1, <1>3, <2>1, ClickStates
<1> QED
  BY <1>4, <1>5, <1>6, <1>7, <1>8, <1>9, <1>10

\* What a handler of the dashboard that starts changes.
LEMMA CallStates ==
    ASSUME NEW state \in DashboardStates
    PROVE  LET Like(next) == Similar(next, state) /\ next.success = state.success IN
           /\ Like(state)
           /\ Like([state EXCEPT !.generating = TRUE])
           /\ Like([state EXCEPT !.loadingVC = TRUE])
           /\ Like([state EXCEPT !.loadingDID = TRUE])
           /\ Like([state EXCEPT !.submitting = TRUE, !.error = FALSE])
           /\ Like([state EXCEPT !.uploading = TRUE])
           /\ Like([state EXCEPT !.alert = TRUE])
           /\ \A x \in BOOLEAN : Like([state EXCEPT !.connected = x])
<1> USE DEF DashboardStates, Similar
<1> DEFINE Like(next) == Similar(next, state) /\ next.success = state.success
<1>1. Like(state)
  OBVIOUS
<1>2. Like([state EXCEPT !.generating = TRUE])
  BY ZenonT(30)
<1>3. Like([state EXCEPT !.loadingVC = TRUE])
  BY ZenonT(30)
<1>4. Like([state EXCEPT !.loadingDID = TRUE])
  BY ZenonT(30)
<1>5. Like([state EXCEPT !.submitting = TRUE, !.error = FALSE])
  BY ZenonT(30)
<1>6. Like([state EXCEPT !.uploading = TRUE])
  BY ZenonT(30)
<1>7. Like([state EXCEPT !.alert = TRUE])
  BY ZenonT(30)
<1>8. \A x \in BOOLEAN : Like([state EXCEPT !.connected = x])
  BY ZenonT(90)
<1> HIDE DEF DashboardStates, Similar, Like
<1> QED
  BY <1>1, <1>2, <1>3, <1>4, <1>5, <1>6, <1>7, <1>8 DEF Like

\* The amendment that the form asks for is about what was typed.
LEMMA ChangesRequested ==
    ASSUME Dashboard(ui, world)
    PROVE  /\ RequestedChanges \in Changes
           /\ ui.profile # NullProfile =>
                  DOMAIN RequestedChanges \subseteq
                      ui.edited \cup (IF ui.profile.gender = "" THEN {"gender"} ELSE {})
           /\ ui.selected \subseteq Documents
<1>1. ui \in DashboardStates /\ FormOK(ui)
  BY DEF Dashboard
<1>2. ui.form \in [Fields -> Values] /\ ui.selected \in SUBSET Documents
  BY <1>1 DEF DashboardStates
<1>3. \A field \in DOMAIN RequestedChanges :
          /\ field \in Fields
          /\ RequestedChanges[field] \in {"given", "MALE", "other"}
          /\ \/ ui.profile = NullProfile
             \/ field \in ui.edited
             \/ field = "gender" /\ ui.profile.gender = ""
  BY <1>1, <1>2 DEF RequestedChanges, FormOK, Values
<1>4. /\ DOMAIN RequestedChanges \in SUBSET Fields
      /\ RequestedChanges \in [DOMAIN RequestedChanges -> {"given", "MALE", "other"}]
  BY <1>3 DEF RequestedChanges
<1>5. RequestedChanges \in Changes
  <2> DEFINE changes == RequestedChanges
  <2>1. /\ DOMAIN changes \in SUBSET Fields
        /\ changes \in [DOMAIN changes -> {"given", "MALE", "other"}]
    BY <1>4
  <2> HIDE DEF changes
  <2>2. changes \in Changes
    BY <2>1 DEF Changes
  <2> QED
    BY <2>2 DEF changes
<1> QED
  BY <1>2, <1>3, <1>5

\* The person has the dashboard call the API.
LEMMA DashboardCalls ==
    ASSUME ClientInv,
           \/ HandleConsent \/ HandleGenerateCustomQR \/ HandleInspectW3C \/ HandleViewDID
           \/ HandleSubmitAmendment \/ HandleFileUpload
    PROVE  ClientInv'
<1>1. On("dashboard") /\ Dashboard(ui, world) /\ ui \in DashboardStates
  <2>1. On("dashboard")
    BY DEF HandleConsent, HandleGenerateCustomQR, HandleInspectW3C, HandleViewDID,
           HandleSubmitAmendment, HandleFileUpload
  <2> QED
    BY <2>1, OnDashboard DEF Dashboard
<1>2. ASSUME NEW by, NEW arg, NEW f, NEW state, Calls(by, arg, f, state),
             Similar(state, ui), state.success = ui.success,
             by \in Handlers("dashboard"), AwaitsOK(by, {f}), KeepsOK(by, arg),
             ArgumentOK(arg, f, world)
      PROVE  ClientInv'
  <2>1. Dashboard(ui', world)
    BY <1>1, <1>2, SimilarDashboard DEF Calls
  <2>2. FeedInv'
    <3>1. ui.page = "dashboard" /\ ui'.page = "dashboard" /\ ui'.mounted
      BY <1>1, <2>1 DEF On, Dashboard, DashboardStates
    <3> QED
      BY <1>2, <3>1, FeedStays DEF Calls, ClientInv
  <2> QED
    BY <1>1, <1>2, <2>1, <2>2, DashboardAwaits DEF Calls
<1>3. CASE HandleConsent
  <2>1. PICK r \in Requests, approved \in BOOLEAN :
            Calls("consent", [request |-> r, approved |-> approved],
                  "respondVerificationRequest", ui)
    BY <1>3 DEF HandleConsent
  <2> DEFINE arg == [request |-> r, approved |-> approved]
  <2>2. arg \in Answers
    BY DEF Answers
  <2> HIDE DEF arg
  <2>3. /\ "consent" \in Handlers("dashboard")
        /\ AwaitsOK("consent", {"respondVerificationRequest"}) /\ KeepsOK("consent", arg)
        /\ ArgumentOK(arg, "respondVerificationRequest", world)
    BY <2>2 DEF Handlers, AwaitsOK, KeepsOK, ArgumentOK
  <2>4. Calls("consent", arg, "respondVerificationRequest", ui)
    BY <2>1 DEF arg
  <2> QED
    BY <1>1, <1>2, <2>3, <2>4, CallStates
<1>4. CASE HandleGenerateCustomQR
  <2> DEFINE arg == <<ui.scopes, ui.duration>>
  <2>1. arg \in {"default", "custom"} \X {5, 15}
    <3>1. ui.scopes \in {"default", "custom"} /\ ui.duration \in {5, 15}
      BY <1>1 DEF DashboardStates
    <3> QED
      BY <3>1
  <2>2. Calls("qr", arg, "generateQRToken", [ui EXCEPT !.generating = TRUE])
    BY <1>4 DEF HandleGenerateCustomQR
  <2> HIDE DEF arg
  <2>3. /\ "qr" \in Handlers("dashboard")
        /\ AwaitsOK("qr", {"generateQRToken"}) /\ KeepsOK("qr", arg)
        /\ ArgumentOK(arg, "generateQRToken", world)
    BY <2>1 DEF Handlers, AwaitsOK, KeepsOK, ArgumentOK
  <2> QED
    BY <1>1, <1>2, <2>2, <2>3, CallStates
<1>5. CASE HandleInspectW3C
  <2>1. Calls("vc", None, "getCredentialW3C", [ui EXCEPT !.loadingVC = TRUE])
    BY <1>5 DEF HandleInspectW3C
  <2>2. /\ "vc" \in Handlers("dashboard")
        /\ AwaitsOK("vc", {"getCredentialW3C"}) /\ KeepsOK("vc", None)
        /\ ArgumentOK(None, "getCredentialW3C", world)
    BY DEF Handlers, AwaitsOK, KeepsOK, ArgumentOK
  <2> QED
    BY <1>1, <1>2, <2>1, <2>2, CallStates
<1>6. CASE HandleViewDID
  <2>1. Calls("did", None, "getDIDDocument", [ui EXCEPT !.loadingDID = TRUE])
    BY <1>6 DEF HandleViewDID
  <2>2. /\ "did" \in Handlers("dashboard")
        /\ AwaitsOK("did", {"getDIDDocument"}) /\ KeepsOK("did", None)
        /\ ArgumentOK(None, "getDIDDocument", world)
    BY DEF Handlers, AwaitsOK, KeepsOK, ArgumentOK
  <2> QED
    BY <1>1, <1>2, <2>1, <2>2, CallStates
<1>7. CASE HandleSubmitAmendment
  <2>1. CASE Clicked([ui EXCEPT !.error = TRUE])
    <3>1. Dashboard(ui', world)
      BY <1>1, <2>1, ClickStates, SimilarDashboard DEF Clicked
    <3> QED
      BY <1>1, <2>1, <3>1, DashboardMoves DEF Clicked
  <2> DEFINE arg == [changes |-> RequestedChanges, documents |-> ui.selected,
                     edited |-> ui.edited, genderless |-> ui.profile.gender = "",
                     profileless |-> ui.profile = NullProfile]
  <2>2. CASE Calls("amend", arg, "createAmendmentRequest",
                   [ui EXCEPT !.submitting = TRUE, !.error = FALSE])
    <3>1. /\ arg.changes = RequestedChanges /\ arg.documents = ui.selected
          /\ arg.edited = ui.edited /\ arg.genderless = (ui.profile.gender = "")
          /\ arg.profileless = (ui.profile = NullProfile)
      OBVIOUS
    <3> HIDE DEF arg
    <3>2. /\ "amend" \in Handlers("dashboard")
          /\ AwaitsOK("amend", {"createAmendmentRequest"})
      BY DEF Handlers, AwaitsOK
    <3>3. KeepsOK("amend", arg) /\ ArgumentOK(arg, "createAmendmentRequest", world)
      BY <1>1, <3>1, ChangesRequested DEF KeepsOK, ArgumentOK
    <3> QED
      BY <1>1, <1>2, <2>2, <3>2, <3>3, CallStates
  <2> QED
    BY <1>7, <2>1, <2>2 DEF HandleSubmitAmendment
<1>8. CASE HandleFileUpload
  <2>1. PICK d \in Documents : Await("read", d, stored, {})
    BY <1>8 DEF HandleFileUpload
  <2>2. Dashboard(ui', world)
    BY <1>1, <1>8, CallStates, SimilarDashboard DEF HandleFileUpload
  <2>3. FeedInv'
    <3>1. ui.page = "dashboard" /\ ui'.page = "dashboard" /\ ui'.mounted
      BY <1>1, <2>2 DEF On, Dashboard, DashboardStates
    <3> QED
      BY <1>8, <3>1, FeedStays DEF HandleFileUpload, ClientInv
  <2>4. "read" \in Handlers("dashboard") /\ AwaitsOK("read", {}) /\ KeepsOK("read", d)
    BY DEF Handlers, AwaitsOK, KeepsOK
  <2> QED
    BY <1>1, <1>8, <2>1, <2>2, <2>3, <2>4, DashboardAwaits DEF HandleFileUpload
<1> QED
  BY <1>3, <1>4, <1>5, <1>6, <1>7, <1>8

\* The dashboard before anything is loaded.
LEMMA FirstDashboard ==
    ASSUME NEW w, NEW token \in AccountOrNone
    PROVE  Dashboard(DashboardState(token), w)
<1> DEFINE state == DashboardState(token)
<1>1. BlankForm \in [Fields -> Values] /\ BlankForm \in Profiles /\ NoMessage \in Messages
  BY DEF BlankForm, Values, Messages, Profiles
<1>2. /\ state.form = BlankForm /\ state.profile = BlankForm /\ state.success = NoMessage
      /\ state.edited = {}
  BY DEF DashboardState
<1>3. state \in DashboardStates
  BY <1>1 DEF DashboardState, DashboardStates, AccountOrNone
<1>4. MessageTrue(NoMessage, w)
  BY DEF MessageTrue, NoMessage
<1>5. MessageTrue(state.success, w)
  BY <1>2, <1>4
<1> HIDE DEF state
<1>6. FormOK(state)
  BY <1>2 DEF FormOK
<1> QED
  BY <1>3, <1>5, <1>6 DEF Dashboard, state

\* Nothing else changes when it is loaded again.
LEMMA LoadingState ==
    ASSUME NEW state \in DashboardStates
    PROVE  Similar(Loading(state), state) /\ Loading(state).success = state.success
  BY ZenonT(30) DEF Loading, DashboardStates, Similar

\* The calls of a load begin with that of the identity.
LEMMA LoadBegins ==
    ASSUME NEW functions, functions = {"getMyIdentity"}
    PROVE  /\ "load identity" \in Handlers("dashboard")
           /\ AwaitsOK("load identity", functions) /\ KeepsOK("load identity", None)
           /\ \A f \in functions : ArgumentOK(None, f, world)
  BY DEF Handlers, AwaitsOK, KeepsOK, ArgumentOK

\* The dashboard is mounted.
LEMMA DashboardMountKeeps ==
    ASSUME ClientInv, DashboardMount
    PROVE  ClientInv'
<1>1. ~ui.mounted /\ world' = world /\ SameSession
  BY DEF DashboardMount, Opening
<1>2. CASE Push("login", calls)
  <2>1. SessionInv'
    BY <1>1, SessionStays DEF ClientInv
  <2> QED
    BY <1>1, <1>2, <2>1, PushKeeps DEF Routes
<1>3. CASE /\ ui' = Loading(DashboardState(session))
           /\ Await("load identity", None, ActiveToken, {"getMyIdentity"})
           /\ feed' = IF stored # None THEN Connecting(stored, None) ELSE NoFeed
  <2>1. Dashboard(DashboardState(session), world)
    BY FirstDashboard DEF ClientInv, SessionInv
  <2>2. Dashboard(ui', world)
    BY <1>3, <2>1, LoadingState, SimilarDashboard DEF Dashboard
  <2>3. On("dashboard")'
    BY <2>2 DEF Dashboard, DashboardStates, On
  <2>4. stored \in Accounts \/ stored = None
    BY DEF ClientInv, SessionInv, WorldOK, WorldType
  <2>5. FeedInv'
    BY <1>1, <1>3, <2>3, <2>4, ConnectingStates DEF FeedInv
  <2>6. PICK token, functions : Await("load identity", None, token, functions)
                                /\ functions = {"getMyIdentity"}
    BY <1>3
  <2> QED
    BY <1>1, <2>2, <2>5, <2>6, LoadBegins, DashboardAwaits
<1> QED
  BY <1>2, <1>3 DEF DashboardMount

\* The state that an event about an amendment leads to.
LEMMA StatusStates ==
    ASSUME NEW state \in DashboardStates
    PROVE  LET approved == [state EXCEPT !.success = [about |-> "approval"]]
               rejected == [state EXCEPT !.error = TRUE] IN
           /\ Similar(approved, state) /\ approved.success = [about |-> "approval"]
           /\ Similar(rejected, state) /\ rejected.success = state.success
<1> DEFINE message == [about |-> "approval"]
<1>1. message \in Messages
  BY DEF Messages
<1> HIDE DEF message
<1>2. LET approved == [state EXCEPT !.success = message] IN
      Similar(approved, state) /\ approved.success = message
  BY <1>1, ZenonT(30) DEF DashboardStates, Similar
<1>3. LET rejected == [state EXCEPT !.error = TRUE] IN
      Similar(rejected, state) /\ rejected.success = state.success
  BY ZenonT(30) DEF DashboardStates, Similar
<1> QED
  BY <1>2, <1>3 DEF message

\* What the dashboard hears of the stream.
LEMMA DashboardListens ==
    ASSUME ClientInv,
           \/ DashboardFeedOpens \/ DashboardFeedBreaks \/ ConsentRequestCreated
           \/ AmendmentStatusChanged
    PROVE  ClientInv'
<1>1. /\ On("dashboard") /\ Dashboard(ui, world) /\ ui \in DashboardStates
      /\ ui.page = "dashboard" /\ ui.mounted = TRUE /\ world' = world /\ SameSession
  BY OnDashboard DEF Dashboard, DashboardFeedOpens, DashboardFeedBreaks, ConsentRequestCreated,
                     AmendmentStatusChanged
<1>2. ASSUME Dashboard(ui', world)
      PROVE  ui'.page = ui.page /\ ui'.mounted
  BY <1>1, <1>2 DEF Dashboard, DashboardStates
<1>3. CASE DashboardFeedOpens \/ DashboardFeedBreaks
  <2>1. PICK connected \in BOOLEAN : ui' = [ui EXCEPT !.connected = connected]
    BY <1>3 DEF DashboardFeedOpens, DashboardFeedBreaks
  <2>2. Dashboard(ui', world)
    BY <1>1, <2>1, CallStates, SimilarDashboard
  <2>3. FeedInv' /\ calls' = calls
    BY <1>1, <1>2, <1>3, <2>2, FeedMoves DEF DashboardFeedOpens, DashboardFeedBreaks, ClientInv
  <2>4. CallsInv' /\ SessionInv'
    BY <1>1, <1>2, <2>2, <2>3, SameCallsKeep, SessionStays DEF ClientInv, SamePage
  <2> QED
    BY <1>1, <2>2, <2>3, <2>4, DashboardKeeps DEF ClientInv
<1>4. CASE ConsentRequestCreated
  <2>1. PICK topic : Delivered(topic, "CONSENT_REQUEST_CREATED")
    BY <1>4 DEF ConsentRequestCreated
  <2>2. Dashboard(ui', world)
    BY <1>1, <1>4, CallStates, SimilarDashboard DEF ConsentRequestCreated
  <2>3. FeedInv'
    BY <1>1, <1>2, <2>1, <2>2, HolderTold DEF ClientInv
  <2>4. /\ "refresh" \in Handlers("dashboard")
        /\ AwaitsOK("refresh", {"getPendingVerificationRequests"}) /\ KeepsOK("refresh", None)
        /\ ArgumentOK(None, "getPendingVerificationRequests", world)
    BY DEF Handlers, AwaitsOK, KeepsOK, ArgumentOK
  <2> QED
    BY <1>1, <1>4, <2>2, <2>3, <2>4, DashboardAwaits DEF ConsentRequestCreated
<1>5. CASE AmendmentStatusChanged
  <2>1. PICK topic \in DOMAIN feed.queue, event \in {"AMENDMENT_APPROVED", "AMENDMENT_REJECTED"} :
            Delivered(topic, event) /\ ui' = Loading(StatusShown(event))
    BY <1>5 DEF AmendmentStatusChanged
  <2> DEFINE shown == StatusShown(event)
  <2>2. /\ Similar(shown, ui)
        /\ \/ shown.success = ui.success
           \/ event = "AMENDMENT_APPROVED" /\ shown.success = [about |-> "approval"]
    BY <1>1, <2>1, StatusStates DEF StatusShown
  <2> HIDE DEF shown
  <2>3. /\ Similar(Loading(shown), shown) /\ Loading(shown).success = shown.success
        /\ ui' = Loading(shown)
    BY <2>1, <2>2, LoadingState DEF Similar, shown
  <2>4. ui'.page = ui.page /\ ui'.mounted
    BY <1>1, <2>3 DEF Similar, DashboardStates
  <2>5. FeedInv' /\ (event = "AMENDMENT_APPROVED" => Approved(world))
    BY <1>1, <2>1, <2>4, HolderTold DEF ClientInv
  <2>6. shown.success = ui.success \/ MessageTrue(shown.success, world)
    BY <2>2, <2>5 DEF MessageTrue
  <2>7. Dashboard(shown, world)
    BY <1>1, <2>2, <2>6, SimilarDashboard
  <2>8. Dashboard(ui', world)
    BY <2>3, <2>7, SimilarDashboard
  <2>9. PICK token, functions : Await("load identity", None, token, functions)
                                /\ functions = {"getMyIdentity"}
    BY <1>5 DEF AmendmentStatusChanged
  <2> QED
    BY <1>1, <2>5, <2>8, <2>9, LoadBegins, DashboardAwaits
<1> QED
  BY <1>3, <1>4, <1>5

\* A timer clears the message there is.
LEMMA MessageTimeoutKeeps ==
    ASSUME ClientInv, MessageTimeout
    PROVE  ClientInv'
<1>1. On("dashboard") /\ Dashboard(ui, world) /\ ui \in DashboardStates
  BY OnDashboard DEF MessageTimeout, Dashboard
<1> DEFINE message == NoMessage
           state == [ui EXCEPT !.success = message, !.timer = FALSE]
<1>2. message \in Messages /\ MessageTrue(message, world)
  BY DEF Messages, MessageTrue, NoMessage
<1> HIDE DEF message
<1>3. Similar(state, ui) /\ state.success = message
  BY <1>1, <1>2, ZenonT(30) DEF DashboardStates, Similar
<1>4. ui' = state
  BY DEF MessageTimeout, message
<1> HIDE DEF state
<1>5. Dashboard(ui', world)
  BY <1>1, <1>2, <1>3, <1>4, SimilarDashboard
<1> QED
  BY <1>1, <1>5, DashboardMoves DEF MessageTimeout

\* What the answer to a handler of the dashboard changes.
LEMMA AnswerStates ==
    ASSUME NEW state \in DashboardStates
    PROVE  LET Like(next) == Similar(next, state) /\ next.success = state.success IN
           /\ Like([state EXCEPT !.error = TRUE, !.loading = FALSE])
           /\ \A x \in SUBSET Requests : Like([state EXCEPT !.requests = x])
           /\ \A x \in SUBSET Requests : Like([state EXCEPT !.requests = x, !.timer = TRUE])
           /\ \A x \in {"default", "custom"} \X {5, 15} :
                  Like([state EXCEPT !.qr = x, !.loading = FALSE])
           /\ Like([state EXCEPT !.loading = FALSE])
           /\ Like([state EXCEPT !.error = TRUE])
           /\ Like([state EXCEPT !.error = TRUE, !.generating = FALSE])
           /\ Like([state EXCEPT !.vc = TRUE, !.loadingVC = FALSE])
           /\ Like([state EXCEPT !.error = TRUE, !.loadingVC = FALSE])
           /\ Like([state EXCEPT !.did = TRUE, !.loadingDID = FALSE])
           /\ Like([state EXCEPT !.error = TRUE, !.loadingDID = FALSE])
           /\ Like([state EXCEPT !.error = TRUE, !.submitting = FALSE])
           /\ Like([state EXCEPT !.error = TRUE, !.uploading = FALSE])
<1> USE DEF DashboardStates, Similar
<1> DEFINE Like(next) == Similar(next, state) /\ next.success = state.success
<1>1. Like([state EXCEPT !.error = TRUE, !.loading = FALSE])
  BY ZenonT(30)
<1>2. \A x \in SUBSET Requests : Like([state EXCEPT !.requests = x])
  BY ZenonT(30)
<1>3. \A x \in SUBSET Requests : Like([state EXCEPT !.requests = x, !.timer = TRUE])
  BY ZenonT(30)
<1>4. ASSUME NEW x \in {"default", "custom"} \X {5, 15}
      PROVE  Like([state EXCEPT !.qr = x, !.loading = FALSE])
  <2> DEFINE Codes == {"default", "custom"} \X {5, 15}
  <2> HIDE DEF Codes
  <2> QED
    BY ZenonT(30) DEF Codes
<1>5. Like([state EXCEPT !.loading = FALSE])
  BY ZenonT(30)
<1>6. Like([state EXCEPT !.error = TRUE])
  BY ZenonT(30)
<1>7. Like([state EXCEPT !.error = TRUE, !.generating = FALSE])
  BY ZenonT(30)
<1>8. Like([state EXCEPT !.vc = TRUE, !.loadingVC = FALSE])
  BY ZenonT(30)
<1>9. Like([state EXCEPT !.error = TRUE, !.loadingVC = FALSE])
  BY ZenonT(30)
<1>10. Like([state EXCEPT !.did = TRUE, !.loadingDID = FALSE])
  BY ZenonT(30)
<1>11. Like([state EXCEPT !.error = TRUE, !.loadingDID = FALSE])
  BY ZenonT(30)
<1>12. Like([state EXCEPT !.error = TRUE, !.submitting = FALSE])
  BY ZenonT(30)
<1>13. Like([state EXCEPT !.error = TRUE, !.uploading = FALSE])
  BY ZenonT(30)
<1> HIDE DEF DashboardStates, Similar, Like
<1> QED
  BY <1>1, <1>2, <1>3, <1>4, <1>5, <1>6, <1>7, <1>8, <1>9, <1>10, <1>11, <1>12, <1>13 DEF Like

\* A message of success is set, along with what it is about.
LEMMA MessageStates ==
    ASSUME NEW w, NEW state, Dashboard(state, w), NEW message \in Messages, MessageTrue(message, w)
    PROVE  /\ Dashboard([state EXCEPT !.success = message], w)
           /\ \A x \in {"default", "custom"} \X {5, 15} :
                  Dashboard(Succeeds([state EXCEPT !.qr = x, !.generating = FALSE], message), w)
           /\ \A x \in SUBSET Nat :
                  Dashboard(Succeeds([state EXCEPT !.amendments = x, !.modal = FALSE,
                                                   !.submitting = FALSE], message), w)
           /\ \A x \in SUBSET Documents, y \in SUBSET Documents :
                  Dashboard(Succeeds([state EXCEPT !.documents = x, !.selected = y,
                                                   !.uploading = FALSE], message), w)
<1> DEFINE Codes == {"default", "custom"} \X {5, 15}
<1>0. state \in DashboardStates
  BY DEF Dashboard
<1>1. ASSUME NEW next \in DashboardStates
      PROVE  Similar(Succeeds(next, message), next) /\ Succeeds(next, message).success = message
  BY ZenonT(30) DEF Succeeds, DashboardStates, Similar
<1>2. ASSUME NEW next, Dashboard(next, w)
      PROVE  Dashboard(Succeeds(next, message), w)
  BY <1>1, <1>2, SimilarDashboard DEF Dashboard
<1>3. \A x \in Codes :
          LET next == [state EXCEPT !.qr = x, !.generating = FALSE] IN
          Similar(next, state) /\ next.success = state.success
  BY <1>0, ZenonT(90) DEF DashboardStates, Similar
<1>4. \A x \in SUBSET Nat :
          LET next == [state EXCEPT !.amendments = x, !.modal = FALSE, !.submitting = FALSE] IN
          Similar(next, state) /\ next.success = state.success
  BY <1>0, ZenonT(90) DEF DashboardStates, Similar
<1>5. \A x \in SUBSET Documents, y \in SUBSET Documents :
          LET next == [state EXCEPT !.documents = x, !.selected = y, !.uploading = FALSE] IN
          Similar(next, state) /\ next.success = state.success
  BY <1>0, ZenonT(90) DEF DashboardStates, Similar
<1>6. \A next : Similar(next, state) /\ next.success = state.success =>
                    Dashboard(Succeeds(next, message), w)
  BY <1>2, SimilarDashboard
<1>7. Dashboard([state EXCEPT !.success = message], w)
  <2> DEFINE next == [state EXCEPT !.success = message]
  <2>1. Similar(next, state) /\ next.success = message
    BY <1>0, ZenonT(30) DEF DashboardStates, Similar
  <2> HIDE DEF next
  <2>2. Dashboard(next, w)
    BY <2>1, SimilarDashboard
  <2> QED
    BY <2>2 DEF next
<1> QED
  BY <1>3, <1>4, <1>5, <1>6, <1>7

\* A handler of the dashboard, if its page is mounted, runs on the dashboard.
LEMMA DashboardRuns ==
    ASSUME ClientInv, NEW c \in DOMAIN calls, calls[c] # NoCall,
           calls[c].by \in Handlers("dashboard")
    PROVE  /\ CallOK(calls[c], world)
           /\ calls[c].mounted => Dashboard(ui, world) /\ ui \in DashboardStates
<1>1. calls[c].mounted => On("dashboard")
  BY RunsOn, PageStates DEF On, Handlers, Routes, ClientInv
<1> QED
  BY <1>1, RunsOn, OnDashboard DEF Dashboard

\* The identity that was loaded is shown.
LEMMA IdentityShown ==
    ASSUME Dashboard(ui, world), NEW answer \in [account : Accounts, profile : Profiles]
    PROVE  Dashboard(ShowIdentity(answer), world)
<1> DEFINE profile == answer.profile
           account == answer.account
           next == ShowIdentity(answer)
<1>1. profile \in Profiles /\ account \in AccountOrNone
  BY DEF AccountOrNone
<1>2. ui \in DashboardStates /\ FormOK(ui) /\ MessageTrue(ui.success, world)
  BY DEF Dashboard
<1>3. CASE profile = NullProfile
  <2>1. next = [ui EXCEPT !.identity = account, !.profile = profile]
    BY <1>3 DEF ShowIdentity
  <2> HIDE DEF profile, account, next
  <2>2. next \in DashboardStates
    BY <1>1, <1>2, <2>1, ZenonT(30) DEF DashboardStates
  <2>3. next.profile = profile /\ next.success = ui.success
    BY <1>2, <2>1 DEF DashboardStates
  <2> QED
    BY <1>2, <1>3, <2>2, <2>3 DEF Dashboard, FormOK, next
<1>4. CASE profile # NullProfile
  <2> DEFINE form == [profile EXCEPT !.gender = IF @ = "" THEN "MALE" ELSE @]
  <2>1. profile \in [Fields -> Values]
    BY <1>1, <1>4 DEF Profiles
  <2>2. form \in [Fields -> Values]
    BY <2>1 DEF Values, Fields
  <2>3. \A field \in Fields :
            form[field] = profile[field] \/ (field = "gender" /\ profile.gender = "" /\ form[field] = "MALE")
    BY <2>1 DEF Fields
  <2>4. next = [ui EXCEPT !.identity = account, !.profile = profile, !.form = form, !.edited = {}]
    BY <1>4 DEF ShowIdentity
  <2> HIDE DEF form, profile, account, next
  <2>5. next \in DashboardStates
    BY <1>1, <1>2, <2>2, <2>4, ZenonT(30) DEF DashboardStates
  <2>6. next.form = form /\ next.profile = profile /\ next.success = ui.success
    BY <1>2, <2>4 DEF DashboardStates
  <2>7. FormOK(next)
    BY <2>3, <2>6 DEF FormOK
  <2> QED
    BY <1>2, <2>5, <2>6, <2>7 DEF Dashboard, next
<1> QED
  BY <1>3, <1>4

\* A load goes on.
LEMMA LoadResumes ==
    ASSUME ClientInv, NEW c \in DOMAIN calls, calls[c] # NoCall,
           LoadIdentityResumes(c) \/ LoadRequestsResumes(c)
    PROVE  ClientInv'
<1>1. CASE LoadIdentityResumes(c)
  <2>1. /\ calls[c].by = "load identity" /\ Resumes(c, "load identity")
        /\ calls[c].by \in Handlers("dashboard")
    BY <1>1 DEF LoadIdentityResumes, Resumes, Handlers
  <2>2. /\ DOMAIN calls[c].got = {"getMyIdentity"}
        /\ calls[c].mounted => Dashboard(ui, world) /\ ui \in DashboardStates
    BY <2>1, DashboardRuns DEF CallOK, AwaitsOK
  <2>3. CASE /\ Fulfilled(c, "getMyIdentity")
             /\ SetsThen(c, ShowIdentity(Value(c, "getMyIdentity")),
                         "load requests", {"getPendingVerificationRequests"})
    <3>1. Value(c, "getMyIdentity") \in [account : Accounts, profile : Profiles]
      BY <2>1, <2>2, <2>3, Resumed1 DEF Promised
    <3>2. /\ "load requests" \in Handlers("dashboard")
          /\ AwaitsOK("load requests", {"getPendingVerificationRequests"})
          /\ KeepsOK("load requests", calls[c].arg)
          /\ \A f \in {"getPendingVerificationRequests"} : ArgumentOK(calls[c].arg, f, world)
      BY DEF Handlers, AwaitsOK, KeepsOK, ArgumentOK
    <3> DEFINE state == ShowIdentity(Value(c, "getMyIdentity"))
    <3>3. calls[c].mounted => Dashboard(state, world)
      BY <2>2, <3>1, IdentityShown
    <3>4. SetsThen(c, state, "load requests", {"getPendingVerificationRequests"})
      BY <2>3
    <3> HIDE DEF state
    <3> QED
      BY <2>1, <3>2, <3>3, <3>4, DashboardGoesOn
  <2>4. CASE Sets1(c, [ui EXCEPT !.error = TRUE, !.loading = FALSE])
    <3>1. calls[c].mounted => Dashboard([ui EXCEPT !.error = TRUE, !.loading = FALSE], world)
      BY <2>2, AnswerStates, SimilarDashboard
    <3> QED
      BY <2>1, <2>4, <3>1, DashboardEnds
  <2> QED
    BY <1>1, <2>3, <2>4 DEF LoadIdentityResumes
<1>2. CASE LoadRequestsResumes(c)
  <2>1. /\ calls[c].by = "load requests" /\ Resumes(c, "load requests")
        /\ calls[c].by \in Handlers("dashboard")
    BY <1>2 DEF LoadRequestsResumes, Resumes, Handlers
  <2>2. /\ DOMAIN calls[c].got = {"getPendingVerificationRequests"}
        /\ calls[c].mounted => Dashboard(ui, world) /\ ui \in DashboardStates
    BY <2>1, DashboardRuns DEF CallOK, AwaitsOK
  <2> DEFINE requests == Value(c, "getPendingVerificationRequests")
             state == IF Fulfilled(c, "getPendingVerificationRequests")
                      THEN [ui EXCEPT !.requests = requests] ELSE ui
  <2>3. Fulfilled(c, "getPendingVerificationRequests") => requests \in SUBSET Requests
    BY <2>1, <2>2, Resumed1 DEF Promised
  <2>4. SetsThen(c, state, "load history", {"listMyAmendments", "listMyDocuments"})
    BY <1>2 DEF LoadRequestsResumes
  <2> HIDE DEF requests
  <2>5. calls[c].mounted => Dashboard(state, world)
    BY <2>2, <2>3, AnswerStates, SimilarDashboard
  <2> HIDE DEF state
  <2>6. /\ "load history" \in Handlers("dashboard")
        /\ AwaitsOK("load history", {"listMyAmendments", "listMyDocuments"})
        /\ KeepsOK("load history", calls[c].arg)
        /\ \A f \in {"listMyAmendments", "listMyDocuments"} : ArgumentOK(calls[c].arg, f, world)
    BY DEF Handlers, AwaitsOK, KeepsOK, ArgumentOK
  <2> QED
    BY <2>1, <2>4, <2>5, <2>6, DashboardGoesOn
<1> QED
  BY <1>1, <1>2

\* The history was loaded: the QR code is next.
LEMMA HistoryResumes ==
    ASSUME ClientInv, NEW c \in DOMAIN calls, calls[c] # NoCall, LoadHistoryResumes(c)
    PROVE  ClientInv'
<1>1. /\ calls[c].by = "load history" /\ Resumes(c, "load history")
      /\ calls[c].by \in Handlers("dashboard")
      /\ world' = world /\ feed' = feed /\ SameSession
  BY DEF LoadHistoryResumes, Resumes, Handlers
<1>2. /\ DOMAIN calls[c].got = {"listMyAmendments", "listMyDocuments"}
      /\ calls[c].mounted => Dashboard(ui, world) /\ ui \in DashboardStates
      /\ CallOK(calls[c], world)
  BY <1>1, DashboardRuns DEF CallOK, AwaitsOK
<1> DEFINE amendments == Value(c, "listMyAmendments")
           documents == Value(c, "listMyDocuments")
           both == Fulfilled(c, "listMyAmendments") /\ Fulfilled(c, "listMyDocuments")
           state == IF both THEN [ui EXCEPT !.amendments = amendments, !.documents = documents]
                    ELSE ui
           next == [calls[c] EXCEPT !.by = "load qr", !.arg = DefaultQR,
                                    !.got = [f \in {"generateQRToken"} |-> Waiting]]
<1>3. both => amendments \in SUBSET Nat /\ documents \in SUBSET Documents
  BY <1>1, <1>2, Resumed1 DEF Promised
<1>4. Sets(c, state) /\ calls' = [calls EXCEPT ![c] = next]
  BY DEF LoadHistoryResumes
<1> HIDE DEF amendments, documents, both
<1>5. ASSUME calls[c].mounted
      PROVE  Dashboard(state, world)
  <2>1. CASE both
    <3> DEFINE shown == [ui EXCEPT !.amendments = amendments, !.documents = documents]
    <3>1. Similar(shown, ui) /\ shown.success = ui.success
      <4>1. /\ ui \in DashboardStates
            /\ amendments \in SUBSET Nat /\ documents \in SUBSET Documents
        BY <1>2, <1>3, <1>5, <2>1
      <4> QED
        BY <4>1, ZenonT(30) DEF DashboardStates, Similar
    <3>2. state = shown
      BY <2>1
    <3> HIDE DEF shown, state
    <3> QED
      BY <1>2, <1>5, <3>1, <3>2, SimilarDashboard
  <2>2. CASE ~both
    BY <1>2, <1>5, <2>2
  <2> QED
    BY <2>1, <2>2
<1>6. /\ DOMAIN next = CallFields /\ next.by = "load qr" /\ next.arg = DefaultQR
      /\ next.mounted = calls[c].mounted /\ next.got = [f \in {"generateQRToken"} |-> Waiting]
  BY <1>2 DEF CallOK, CallFields
<1> HIDE DEF state, next
<1>7. /\ "load qr" \in Handlers("dashboard") /\ "dashboard" \in Routes
      /\ AwaitsOK("load qr", {"generateQRToken"})
      /\ KeepsOK("load qr", DefaultQR) /\ ArgumentOK(DefaultQR, "generateQRToken", world)
  BY DEF Handlers, AwaitsOK, KeepsOK, ArgumentOK, DefaultQR, Routes
<1>8. calls[c].mounted => ui.page = "dashboard"
  BY <1>2 DEF DashboardStates
<1>9. "load qr" \in UNION {Handlers(page) : page \in Routes}
  BY <1>7
<1>10. ui'.page = ui.page /\ ui'.mounted = ui.mounted => CallsInv'
  BY <1>1, <1>4, <1>6, <1>7, <1>8, <1>9, GoesOn, ZenonT(30) DEF ClientInv
<1>11. /\ c \in 1 .. MaxCalls /\ calls'[c] = next
       /\ \A d \in 1 .. MaxCalls : d # c => calls'[d] = calls[d]
  BY <1>4 DEF ClientInv, CallsInv
<1>12. ~Pending(c)'
  BY <1>6, <1>11 DEF Pending, Submissions
<1> QED
  BY <1>1, <1>4, <1>5, <1>10, <1>11, <1>12, DashboardSets

\* A handler of the dashboard that waits for one function ends.
LEMMA DashboardAnswered ==
    ASSUME ClientInv, NEW c \in DOMAIN calls, calls[c] # NoCall, NEW by, NEW f, Resumes(c, by),
           by \in Handlers("dashboard"), AwaitsOK(by, DOMAIN calls[c].got) => DOMAIN calls[c].got = {f}
    PROVE  /\ calls[c].by \in Handlers("dashboard")
           /\ CallOK(calls[c], world)
           /\ calls[c].mounted => Dashboard(ui, world) /\ ui \in DashboardStates
           /\ Fulfilled(c, f) => Promised(calls[c].arg, f, Value(c, f), world)
<1>1. calls[c].by = by
  BY DEF Resumes
<1>2. CallOK(calls[c], world) /\ (calls[c].mounted => Dashboard(ui, world) /\ ui \in DashboardStates)
  BY <1>1, DashboardRuns
<1>3. DOMAIN calls[c].got = {f}
  BY <1>1, <1>2 DEF CallOK
<1> QED
  BY <1>1, <1>2, <1>3, Resumed1

\* The calls that end without a message.
LEMMA QuietResumes ==
    ASSUME ClientInv, NEW c \in DOMAIN calls, calls[c] # NoCall,
           \/ LoadQRResumes(c) \/ RefreshResumes(c) \/ ConsentRefreshResumes(c)
           \/ HandleInspectW3CResumes(c) \/ HandleViewDIDResumes(c)
    PROVE  ClientInv'
<1>1. ASSUME NEW state, Sets1(c, state), calls[c].by \in Handlers("dashboard"),
             calls[c].mounted =>
                 Dashboard(ui, world) /\ Similar(state, ui) /\ state.success = ui.success
      PROVE  ClientInv'
  <2>1. calls[c].mounted => Dashboard(state, world)
    BY <1>1, SimilarDashboard
  <2> QED
    BY <1>1, <2>1, DashboardEnds
<1>2. CASE LoadQRResumes(c)
  <2>2. Resumes(c, "load qr") /\ "load qr" \in Handlers("dashboard")
        /\ (AwaitsOK("load qr", DOMAIN calls[c].got) => DOMAIN calls[c].got = {"generateQRToken"})
    BY <1>2 DEF LoadQRResumes, Handlers, AwaitsOK
  <2> DEFINE code == Value(c, "generateQRToken")
             shown == [ui EXCEPT !.qr = code, !.loading = FALSE]
             hidden == [ui EXCEPT !.loading = FALSE]
  <2>3. /\ calls[c].by \in Handlers("dashboard") /\ CallOK(calls[c], world)
        /\ calls[c].mounted => Dashboard(ui, world) /\ ui \in DashboardStates
        /\ Fulfilled(c, "generateQRToken") => Promised(calls[c].arg, "generateQRToken", code, world)
    BY <2>2, DashboardAnswered
  <2>4. Fulfilled(c, "generateQRToken") => code \in {"default", "custom"} \X {5, 15}
    <3>1. calls[c].arg = DefaultQR
      BY <2>2, <2>3 DEF CallOK, KeepsOK, Resumes
    <3> QED
      BY <2>3, <3>1 DEF Promised, DefaultQR
  <2>5. \/ Fulfilled(c, "generateQRToken") /\ Sets1(c, shown)
        \/ Sets1(c, hidden)
    BY <1>2 DEF LoadQRResumes
  <2> HIDE DEF code
  <2>6. calls[c].mounted =>
            /\ Fulfilled(c, "generateQRToken") => Similar(shown, ui) /\ shown.success = ui.success
            /\ Similar(hidden, ui) /\ hidden.success = ui.success
    BY <2>3, <2>4, AnswerStates
  <2> HIDE DEF shown, hidden
  <2> QED
    BY <1>1, <2>3, <2>5, <2>6
<1>3. CASE RefreshResumes(c)
  <2>2. Resumes(c, "refresh") /\ "refresh" \in Handlers("dashboard")
        /\ (AwaitsOK("refresh", DOMAIN calls[c].got) =>
                DOMAIN calls[c].got = {"getPendingVerificationRequests"})
    BY <1>3 DEF RefreshResumes, Handlers, AwaitsOK
  <2> DEFINE requests == Value(c, "getPendingVerificationRequests")
             shown == [ui EXCEPT !.requests = requests]
  <2>3. /\ calls[c].by \in Handlers("dashboard")
        /\ calls[c].mounted => Dashboard(ui, world) /\ ui \in DashboardStates
        /\ Fulfilled(c, "getPendingVerificationRequests") =>
               Promised(calls[c].arg, "getPendingVerificationRequests", requests, world)
    BY <2>2, DashboardAnswered
  <2>4. Fulfilled(c, "getPendingVerificationRequests") => requests \in SUBSET Requests
    BY <2>3 DEF Promised
  <2>5. \/ Fulfilled(c, "getPendingVerificationRequests") /\ Sets1(c, shown)
        \/ Sets1(c, ui)
    BY <1>3 DEF RefreshResumes
  <2> HIDE DEF requests
  <2>6. calls[c].mounted =>
            /\ Fulfilled(c, "getPendingVerificationRequests") =>
                   Similar(shown, ui) /\ shown.success = ui.success
            /\ Similar(ui, ui)
    BY <2>3, <2>4, AnswerStates, CallStates
  <2> HIDE DEF shown
  <2> QED
    BY <1>1, <2>3, <2>5, <2>6
<1>6. CASE ConsentRefreshResumes(c)
  <2>2. Resumes(c, "consent refresh") /\ "consent refresh" \in Handlers("dashboard")
        /\ (AwaitsOK("consent refresh", DOMAIN calls[c].got) =>
                DOMAIN calls[c].got = {"getPendingVerificationRequests"})
    BY <1>6 DEF ConsentRefreshResumes, Handlers, AwaitsOK
  <2> DEFINE requests == Value(c, "getPendingVerificationRequests")
             shown == [ui EXCEPT !.requests = requests, !.timer = TRUE]
  <2>3. /\ calls[c].by \in Handlers("dashboard")
        /\ calls[c].mounted => Dashboard(ui, world) /\ ui \in DashboardStates
        /\ Fulfilled(c, "getPendingVerificationRequests") =>
               Promised(calls[c].arg, "getPendingVerificationRequests", requests, world)
    BY <2>2, DashboardAnswered
  <2>4. Fulfilled(c, "getPendingVerificationRequests") => requests \in SUBSET Requests
    BY <2>3 DEF Promised
  <2>5. \/ Fulfilled(c, "getPendingVerificationRequests") /\ Sets1(c, shown)
        \/ Sets1(c, [ui EXCEPT !.error = TRUE])
    BY <1>6 DEF ConsentRefreshResumes
  <2> HIDE DEF requests
  <2>6. calls[c].mounted =>
            (Fulfilled(c, "getPendingVerificationRequests") =>
                 Similar(shown, ui) /\ shown.success = ui.success)
    BY <2>3, <2>4, AnswerStates
  <2> HIDE DEF shown
  <2> QED
    BY <1>1, <2>3, <2>5, <2>6, AnswerStates
<1>4. CASE HandleInspectW3CResumes(c)
  <2>2. Resumes(c, "vc") /\ "vc" \in Handlers("dashboard")
    BY <1>4 DEF HandleInspectW3CResumes, Handlers
  <2>3. /\ calls[c].by \in Handlers("dashboard")
        /\ calls[c].mounted => Dashboard(ui, world) /\ ui \in DashboardStates
    BY <2>2, DashboardRuns DEF Resumes
  <2>4. \/ Sets1(c, [ui EXCEPT !.vc = TRUE, !.loadingVC = FALSE])
        \/ Sets1(c, [ui EXCEPT !.error = TRUE, !.loadingVC = FALSE])
    BY <1>4 DEF HandleInspectW3CResumes
  <2> QED
    BY <1>1, <2>3, <2>4, AnswerStates
<1>5. CASE HandleViewDIDResumes(c)
  <2>2. Resumes(c, "did") /\ "did" \in Handlers("dashboard")
    BY <1>5 DEF HandleViewDIDResumes, Handlers
  <2>3. /\ calls[c].by \in Handlers("dashboard")
        /\ calls[c].mounted => Dashboard(ui, world) /\ ui \in DashboardStates
    BY <2>2, DashboardRuns DEF Resumes
  <2>4. \/ Sets1(c, [ui EXCEPT !.did = TRUE, !.loadingDID = FALSE])
        \/ Sets1(c, [ui EXCEPT !.error = TRUE, !.loadingDID = FALSE])
    BY <1>5 DEF HandleViewDIDResumes
  <2> QED
    BY <1>1, <2>3, <2>4, AnswerStates
<1> QED
  BY <1>2, <1>3, <1>4, <1>5, <1>6

\* The calls that end with a message, or an error.
LEMMA MessageResumes ==
    ASSUME ClientInv, NEW c \in DOMAIN calls, calls[c] # NoCall,
           \/ HandleConsentResumes(c) \/ HandleGenerateCustomQRResumes(c)
           \/ HandleSubmitAmendmentResumes(c) \/ HandleFileUploadResumes(c)
    PROVE  ClientInv'
<1>1. ASSUME NEW state, Sets1(c, state), calls[c].by \in Handlers("dashboard"),
             calls[c].mounted =>
                 Dashboard(ui, world) /\ Similar(state, ui) /\ state.success = ui.success
      PROVE  ClientInv'
  <2>1. calls[c].mounted => Dashboard(state, world)
    BY <1>1, SimilarDashboard
  <2> QED
    BY <1>1, <2>1, DashboardEnds
<1>2. CASE HandleConsentResumes(c)
  <2> DEFINE f == "respondVerificationRequest"
             message == [about |-> "consent", answer |-> calls[c].arg]
             state == [ui EXCEPT !.success = message]
  <2>1. Resumes(c, "consent") /\ "consent" \in Handlers("dashboard")
        /\ (AwaitsOK("consent", DOMAIN calls[c].got) => DOMAIN calls[c].got = {f})
    BY <1>2 DEF HandleConsentResumes, Handlers, AwaitsOK
  <2>2. /\ calls[c].by \in Handlers("dashboard") /\ CallOK(calls[c], world)
        /\ calls[c].mounted => Dashboard(ui, world) /\ ui \in DashboardStates
        /\ Fulfilled(c, f) => Promised(calls[c].arg, f, Value(c, f), world)
    BY <2>1, DashboardAnswered
  <2>3. calls[c].arg \in Answers
    BY <2>1, <2>2 DEF CallOK, KeepsOK, Resumes
  <2>4. CASE /\ Fulfilled(c, f)
             /\ SetsThen(c, state, "consent refresh", {"getPendingVerificationRequests"})
    <3>1. message \in Messages
      BY <2>3 DEF Messages
    <3>2. calls[c].arg \in world.recorded
      BY <2>2, <2>4 DEF Promised
    <3>3. message.about = "consent" /\ message.answer = calls[c].arg
      OBVIOUS
    <3> HIDE DEF message
    <3>4. MessageTrue(message, world)
      BY <3>2, <3>3 DEF MessageTrue
    <3>5. calls[c].mounted => Dashboard(state, world)
      BY <2>2, <3>1, <3>4, MessageStates
    <3>6. /\ "consent refresh" \in Handlers("dashboard")
          /\ AwaitsOK("consent refresh", {"getPendingVerificationRequests"})
          /\ KeepsOK("consent refresh", calls[c].arg)
          /\ \A g \in {"getPendingVerificationRequests"} : ArgumentOK(calls[c].arg, g, world)
      BY DEF Handlers, AwaitsOK, KeepsOK, ArgumentOK
    <3> HIDE DEF state
    <3> QED
      BY <2>2, <2>4, <3>5, <3>6, DashboardGoesOn
  <2>5. CASE Sets1(c, [ui EXCEPT !.error = TRUE])
    BY <1>1, <2>2, <2>5, AnswerStates
  <2> QED
    BY <1>2, <2>4, <2>5 DEF HandleConsentResumes
<1>3. CASE HandleGenerateCustomQRResumes(c)
  <2> DEFINE f == "generateQRToken"
             code == Value(c, "generateQRToken")
             message == [about |-> "qr"]
             state == Succeeds([ui EXCEPT !.qr = code, !.generating = FALSE], message)
  <2>1. Resumes(c, "qr") /\ "qr" \in Handlers("dashboard")
        /\ (AwaitsOK("qr", DOMAIN calls[c].got) => DOMAIN calls[c].got = {f})
    BY <1>3 DEF HandleGenerateCustomQRResumes, Handlers, AwaitsOK
  <2>2. /\ calls[c].by \in Handlers("dashboard") /\ CallOK(calls[c], world)
        /\ calls[c].mounted => Dashboard(ui, world) /\ ui \in DashboardStates
        /\ Fulfilled(c, f) => Promised(calls[c].arg, f, code, world)
    BY <2>1, DashboardAnswered
  <2>3. CASE Fulfilled(c, f) /\ Sets1(c, state)
    <3>1. code \in {"default", "custom"} \X {5, 15}
      BY <2>1, <2>2, <2>3 DEF Promised, CallOK, KeepsOK, Resumes
    <3>2. message \in Messages /\ MessageTrue(message, world)
      BY DEF Messages, MessageTrue
    <3> HIDE DEF message, code
    <3>3. calls[c].mounted => Dashboard(state, world)
      BY <2>2, <3>1, <3>2, MessageStates
    <3> HIDE DEF state
    <3> QED
      BY <2>2, <2>3, <3>3, DashboardEnds
  <2>4. CASE Sets1(c, [ui EXCEPT !.error = TRUE, !.generating = FALSE])
    BY <1>1, <2>2, <2>4, AnswerStates
  <2> QED
    BY <1>3, <2>3, <2>4 DEF HandleGenerateCustomQRResumes
<1>4. CASE HandleSubmitAmendmentResumes(c)
  <2> DEFINE f == "createAmendmentRequest"
             id == Value(c, "createAmendmentRequest")
             amendments == ui.amendments \cup {id}
             message == [about |-> "amendment", id |-> id]
             state == Succeeds([ui EXCEPT !.amendments = amendments, !.modal = FALSE,
                                          !.submitting = FALSE], message)
  <2>1. Resumes(c, "amend") /\ "amend" \in Handlers("dashboard")
        /\ (AwaitsOK("amend", DOMAIN calls[c].got) => DOMAIN calls[c].got = {f})
    BY <1>4 DEF HandleSubmitAmendmentResumes, Handlers, AwaitsOK
  <2>2. /\ calls[c].by \in Handlers("dashboard") /\ CallOK(calls[c], world)
        /\ calls[c].mounted => Dashboard(ui, world) /\ ui \in DashboardStates
        /\ Fulfilled(c, f) => Promised(calls[c].arg, f, id, world)
    BY <2>1, DashboardAnswered
  <2>3. CASE Fulfilled(c, f) /\ Sets1(c, state)
    <3>1. id \in DOMAIN world.amendments /\ id \in Nat
      <4>1. id \in DOMAIN world.amendments
        BY <2>2, <2>3 DEF Promised
      <4>2. DOMAIN world.amendments \subseteq Nat
        BY DEF ClientInv, WorldOK, WorldType, Amendments
      <4> QED
        BY <4>1, <4>2
    <3>2. message \in Messages
      BY <3>1 DEF Messages
    <3>3. MessageTrue(message, world)
      BY <3>1 DEF MessageTrue
    <3>4. calls[c].mounted => amendments \in SUBSET Nat
      BY <2>2, <3>1 DEF DashboardStates
    <3> HIDE DEF message, amendments, id
    <3>5. calls[c].mounted => Dashboard(state, world)
      BY <2>2, <3>2, <3>3, <3>4, MessageStates
    <3> HIDE DEF state
    <3> QED
      BY <2>2, <2>3, <3>5, DashboardEnds
  <2>4. CASE Sets1(c, [ui EXCEPT !.error = TRUE, !.submitting = FALSE])
    BY <1>1, <2>2, <2>4, AnswerStates
  <2> QED
    BY <1>4, <2>3, <2>4 DEF HandleSubmitAmendmentResumes
<1>5. CASE HandleFileUploadResumes(c)
  <2> DEFINE f == "uploadIdentityDocument"
             d == Value(c, "uploadIdentityDocument")
             documents == ui.documents \cup {d}
             selected == ui.selected \cup {d}
             message == [about |-> "document", id |-> d]
             state == Succeeds([ui EXCEPT !.documents = documents, !.selected = selected,
                                          !.uploading = FALSE], message)
  <2>1. Resumes(c, "upload") /\ "upload" \in Handlers("dashboard")
        /\ (AwaitsOK("upload", DOMAIN calls[c].got) => DOMAIN calls[c].got = {f})
    BY <1>5 DEF HandleFileUploadResumes, Handlers, AwaitsOK
  <2>2. /\ calls[c].by \in Handlers("dashboard") /\ CallOK(calls[c], world)
        /\ calls[c].mounted => Dashboard(ui, world) /\ ui \in DashboardStates
        /\ Fulfilled(c, f) => Promised(calls[c].arg, f, d, world)
    BY <2>1, DashboardAnswered
  <2>3. CASE Fulfilled(c, f) /\ Sets1(c, state)
    <3>1. d \in world.documents /\ d \in Documents
      BY <2>2, <2>3 DEF Promised, ClientInv, WorldOK, WorldType
    <3>2. message \in Messages
      BY <3>1 DEF Messages
    <3>3. MessageTrue(message, world)
      BY <3>1 DEF MessageTrue
    <3>4. calls[c].mounted => documents \in SUBSET Documents /\ selected \in SUBSET Documents
      BY <2>2, <3>1 DEF DashboardStates
    <3> HIDE DEF message, documents, selected, d
    <3>5. calls[c].mounted => Dashboard(state, world)
      BY <2>2, <3>2, <3>3, <3>4, MessageStates
    <3> HIDE DEF state
    <3> QED
      BY <2>2, <2>3, <3>5, DashboardEnds
  <2>4. CASE Sets1(c, [ui EXCEPT !.error = TRUE, !.uploading = FALSE])
    BY <1>1, <2>2, <2>4, AnswerStates
  <2> QED
    BY <1>5, <2>3, <2>4 DEF HandleFileUploadResumes
<1> QED
  BY <1>2, <1>3, <1>4, <1>5

\* The file was read, or could not be.
LEMMA FileReadKeeps ==
    ASSUME ClientInv, NEW c \in DOMAIN calls, calls[c] # NoCall, FileRead(c)
    PROVE  ClientInv'
<1>1. calls[c].by = "read" /\ calls[c].by \in Handlers("dashboard")
  BY DEF FileRead, Resumes, Handlers
<1>2. CallOK(calls[c], world) /\ (calls[c].mounted => Dashboard(ui, world))
  BY <1>1, DashboardRuns
<1>3. Sets(c, ui)
  BY DEF FileRead, Sets
<1>4. CASE End(c)
  BY <1>1, <1>2, <1>3, <1>4, DashboardEnds DEF FileRead, Sets1
<1>5. CASE AwaitNext(c, "upload", {"uploadIdentityDocument"})
  <2>1. calls[c].arg \in Documents
    BY <1>1, <1>2 DEF CallOK, KeepsOK
  <2>2. /\ "upload" \in Handlers("dashboard")
        /\ AwaitsOK("upload", {"uploadIdentityDocument"}) /\ KeepsOK("upload", calls[c].arg)
        /\ \A f \in {"uploadIdentityDocument"} : ArgumentOK(calls[c].arg, f, world)
    BY <2>1 DEF Handlers, AwaitsOK, KeepsOK, ArgumentOK
  <2>3. SetsThen(c, ui, "upload", {"uploadIdentityDocument"})
    BY <1>3, <1>5 DEF FileRead, SetsThen
  <2> QED
    BY <1>1, <1>2, <2>2, <2>3, DashboardGoesOn
<1> QED
  BY <1>4, <1>5 DEF FileRead

-----------------------------------------------------------------------------
(* The console. *)

\* The states of the console that its handlers set.
LEMMA ConsoleStates ==
    /\ AdminState \in AdminStates
    /\ \A state \in AdminStates :
           /\ NeedsAuth(state) \in AdminStates
           /\ LoadingLists(state) \in AdminStates
           /\ [state EXCEPT !.loading = TRUE, !.error = FALSE] \in AdminStates
           /\ [state EXCEPT !.error = TRUE, !.loading = FALSE] \in AdminStates
           /\ [state EXCEPT !.error = TRUE] \in AdminStates
           /\ [state EXCEPT !.success = TRUE] \in AdminStates
           /\ \A x \in BOOLEAN : [state EXCEPT !.database = x] \in AdminStates
<1>1. AdminState \in AdminStates
  BY DEF AdminState, AdminStates
<1>2. ASSUME NEW state \in AdminStates
      PROVE  NeedsAuth(state) \in AdminStates /\ LoadingLists(state) \in AdminStates
  BY DEF NeedsAuth, LoadingLists, AdminStates
<1>3. ASSUME NEW state \in AdminStates
      PROVE  /\ [state EXCEPT !.loading = TRUE, !.error = FALSE] \in AdminStates
             /\ [state EXCEPT !.error = TRUE, !.loading = FALSE] \in AdminStates
             /\ [state EXCEPT !.error = TRUE] \in AdminStates
             /\ [state EXCEPT !.success = TRUE] \in AdminStates
             /\ \A x \in BOOLEAN : [state EXCEPT !.database = x] \in AdminStates
  BY DEF AdminStates
<1> QED
  BY <1>1, <1>2, <1>3

\* The state of the console is the console's.
LEMMA OnAdmin ==
    ASSUME ClientInv, On("admin")
    PROVE  ui \in AdminStates /\ ui.page = "admin" /\ ui.mounted = TRUE
<1>1. ui \in AdminStates
  BY PageStates DEF ClientInv
<1> QED
  BY <1>1 DEF AdminStates

\* What the console and its handlers do keeps the invariant.
LEMMA AdminKeeps ==
    ASSUME WorldOK(world'), CallsInv', FeedInv', SessionInv', ui' \in AdminStates
    PROVE  ClientInv'
<1>1. ui'.page = "admin" /\ ui'.mounted /\ UiInv'
  BY DEF AdminStates, UiInv
<1>2. PagesInv'
  BY <1>1, NoFormNext DEF PagesInv, SuccessIsTrue, On
<1> QED
  BY <1>1, <1>2 DEF ClientInv

\* A click.
LEMMA AdminMoves ==
    ASSUME ClientInv, ~ui.mounted \/ On("admin"), ui' \in AdminStates, world' = world, feed' = feed,
           SameSession, calls' = calls
    PROVE  ClientInv'
<1>1. ui'.page = "admin" /\ ui'.mounted /\ (ui.mounted => ui.page = "admin")
  BY DEF AdminStates, On
<1>2. FeedInv' /\ SessionInv' /\ SamePage
  BY <1>1, FeedStays, SessionStays DEF ClientInv, SamePage
<1> QED
  BY <1>2, SameCallsKeep, AdminKeeps DEF ClientInv

\* A handler starts.
LEMMA AdminAwaits ==
    ASSUME ClientInv, ~ui.mounted \/ On("admin"), ui' \in AdminStates, world' = world, feed' = feed,
           SameSession, NEW by, NEW arg, NEW token, NEW functions, Await(by, arg, token, functions),
           by \in Handlers("admin"), AwaitsOK(by, functions), KeepsOK(by, arg),
           \A f \in functions : ArgumentOK(arg, f, world)
    PROVE  ClientInv'
<1>1. ui'.page = "admin" /\ ui'.mounted /\ (ui.mounted => ui.page = "admin")
  BY DEF AdminStates, On
<1>2. FeedInv' /\ SessionInv' /\ SamePage
  BY <1>1, FeedStays, SessionStays DEF ClientInv, SamePage
<1>3. by \in Handlers(ui'.page) /\ by \in UNION {Handlers(page) : page \in Routes}
  BY <1>1 DEF Routes
<1>4. CallsInv'
  BY <1>2, <1>3, AwaitKeeps DEF ClientInv
<1> QED
  BY <1>2, <1>4, AdminKeeps DEF ClientInv

\* The calls of a load of the lists.
LEMMA ListsAwaited ==
    ASSUME NEW arg
    PROVE  /\ "lists" \in Handlers("admin") /\ AwaitsOK("lists", Lists) /\ KeepsOK("lists", arg)
           /\ \A f \in Lists : ArgumentOK(arg, f, world)
  BY DEF Handlers, AwaitsOK, KeepsOK, ArgumentOK, Lists

\* The lists are loaded, or the console asks for a sign-in.
LEMMA LoadKeeps ==
    ASSUME ClientInv, ~ui.mounted \/ On("admin"), NEW state \in AdminStates, LoadAdminData(state),
           world' = world, feed' = feed, SameSession
    PROVE  ClientInv'
<1>1. CASE ui' = LoadingLists(state) /\ Await("lists", None, stored, Lists)
  BY <1>1, ConsoleStates, ListsAwaited, AdminAwaits
<1>2. CASE ui' = NeedsAuth(state) /\ calls' = calls
  BY <1>2, ConsoleStates, AdminMoves
<1> QED
  BY <1>1, <1>2 DEF LoadAdminData

\* The console is mounted, refreshed, or told to save the database settings.
LEMMA AdminLoads ==
    ASSUME ClientInv, AdminMount \/ RefreshRecords \/ HandleSaveDbConfig
    PROVE  ClientInv'
<1>1. CASE AdminMount
  <2>1. ~ui.mounted
    BY <1>1 DEF AdminMount, Opening
  <2> QED
    BY <1>1, <2>1, ConsoleStates, LoadKeeps DEF AdminMount
<1>2. CASE RefreshRecords \/ HandleSaveDbConfig
  <2>1. On("admin") /\ LoadAdminData(ui) /\ ui \in AdminStates /\ world' = world /\ feed' = feed
        /\ SameSession
    BY <1>2, OnAdmin DEF RefreshRecords, HandleSaveDbConfig
  <2> QED
    BY <2>1, LoadKeeps
<1> QED
  BY <1>1, <1>2

\* The other buttons of the console.
LEMMA AdminClicks ==
    ASSUME ClientInv,
           \/ HandleAdminLoginSubmit \/ HandleStatusChange \/ HandleResolveDuplicate
           \/ HandleSuspendAndResolve \/ OpenDbModal \/ CloseDbModal
    PROVE  ClientInv'
<1>1. On("admin") /\ ui \in AdminStates
  <2>1. On("admin")
    BY DEF HandleAdminLoginSubmit, HandleStatusChange, HandleResolveDuplicate,
           HandleSuspendAndResolve, OpenDbModal, CloseDbModal
  <2> QED
    BY <2>1, OnAdmin
<1>0. ASSUME NEW by, NEW arg, NEW token, NEW f, Await(by, arg, token, {f}),
             by \in Handlers("admin"), AwaitsOK(by, {f}), KeepsOK(by, arg), ArgumentOK(arg, f, world),
             ui' \in AdminStates, world' = world, feed' = feed, SameSession
      PROVE  ClientInv'
  <2>1. \A g \in {f} : ArgumentOK(arg, g, world)
    BY <1>0
  <2> QED
    BY <1>0, <1>1, <2>1, AdminAwaits
<1>2. ASSUME NEW by, NEW arg, NEW f, AdminCalls(by, arg, f),
             by \in Handlers("admin"), AwaitsOK(by, {f}), KeepsOK(by, arg), ArgumentOK(arg, f, world)
      PROVE  ClientInv'
  BY <1>0, <1>1, <1>2 DEF AdminCalls
<1>3. CASE HandleAdminLoginSubmit
  <2>1. PICK account : Await("admin login", account, None, {"loginUser"})
    BY <1>3 DEF HandleAdminLoginSubmit
  <2>2. /\ "admin login" \in Handlers("admin") /\ AwaitsOK("admin login", {"loginUser"})
        /\ KeepsOK("admin login", account) /\ ArgumentOK(account, "loginUser", world)
    BY DEF Handlers, AwaitsOK, KeepsOK, ArgumentOK
  <2>3. ui' \in AdminStates /\ world' = world /\ feed' = feed /\ SameSession
    BY <1>1, <1>3, ConsoleStates DEF HandleAdminLoginSubmit
  <2> QED
    BY <1>0, <2>1, <2>2, <2>3
<1>4. CASE HandleStatusChange
  <2> DEFINE arg == [status |-> IF ui.status = "ACTIVE" THEN "SUSPENDED" ELSE "ACTIVE"]
  <2>1. AdminCalls("status", arg, "adminUpdateStatus") /\ arg.status \in Statuses
    BY <1>4 DEF HandleStatusChange, Statuses
  <2> HIDE DEF arg
  <2>2. /\ "status" \in Handlers("admin") /\ AwaitsOK("status", {"adminUpdateStatus"})
        /\ KeepsOK("status", arg) /\ ArgumentOK(arg, "adminUpdateStatus", world)
    BY <2>1 DEF Handlers, AwaitsOK, KeepsOK, ArgumentOK
  <2> QED
    BY <1>2, <2>1, <2>2
<1>5. CASE HandleResolveDuplicate
  <2> DEFINE arg == [resolution |-> "RESOLVED_FALSE_POSITIVE"]
  <2>1. AdminCalls("resolve", arg, "adminResolveDuplicate")
        /\ arg.resolution = "RESOLVED_FALSE_POSITIVE"
    BY <1>5 DEF HandleResolveDuplicate
  <2> HIDE DEF arg
  <2>2. /\ "resolve" \in Handlers("admin") /\ AwaitsOK("resolve", {"adminResolveDuplicate"})
        /\ KeepsOK("resolve", arg) /\ ArgumentOK(arg, "adminResolveDuplicate", world)
    BY <2>1 DEF Handlers, AwaitsOK, KeepsOK, ArgumentOK, Resolutions
  <2> QED
    BY <1>2, <2>1, <2>2
<1>6. CASE HandleSuspendAndResolve
  <2> DEFINE arg == [status |-> "SUSPENDED", resolution |-> "RESOLVED_DUPLICATE"]
  <2>1. AdminCalls("suspend", arg, "adminUpdateStatus") /\ arg.status \in Statuses
    BY <1>6 DEF HandleSuspendAndResolve, Statuses
  <2>2. /\ "suspend" \in Handlers("admin") /\ AwaitsOK("suspend", {"adminUpdateStatus"})
        /\ KeepsOK("suspend", arg)
    BY DEF Handlers, AwaitsOK, KeepsOK
  <2> HIDE DEF arg
  <2>3. ArgumentOK(arg, "adminUpdateStatus", world)
    BY <2>1 DEF ArgumentOK
  <2> QED
    BY <1>2, <2>1, <2>2, <2>3
<1>7. CASE OpenDbModal \/ CloseDbModal
  <2>1. ui' \in AdminStates /\ world' = world /\ feed' = feed /\ SameSession /\ calls' = calls
    BY <1>1, <1>7, ConsoleStates DEF OpenDbModal, CloseDbModal, AdminClicked
  <2> QED
    BY <1>1, <2>1, AdminMoves
<1> QED
  BY <1>3, <1>4, <1>5, <1>6, <1>7

\* A handler of the console, if its page is mounted, runs on the console.
LEMMA AdminRuns ==
    ASSUME ClientInv, NEW c \in DOMAIN calls, calls[c] # NoCall, calls[c].by \in Handlers("admin")
    PROVE  /\ CallOK(calls[c], world)
           /\ calls[c].mounted => On("admin") /\ ui \in AdminStates
<1>1. calls[c].mounted => On("admin")
  BY RunsOn, PageStates DEF On, Handlers, Routes, ClientInv
<1> QED
  BY <1>1, RunsOn, OnAdmin

\* It goes on or ends, and sets the state of its page.
LEMMA AdminSets ==
    ASSUME ClientInv, NEW c \in DOMAIN calls, calls[c] # NoCall, calls[c].by \in Handlers("admin"),
           NEW state, Sets(c, state), calls[c].mounted => state \in AdminStates,
           world' = world, feed' = feed, SessionInv',
           ui'.page = ui.page /\ ui'.mounted = ui.mounted => CallsInv',
           \A d \in 1 .. MaxCalls : d # c => calls'[d] = calls[d],
           ~Pending(c)'
    PROVE  ClientInv'
<1>1. CASE ~calls[c].mounted
  <2>1. ui' = ui
    BY <1>1 DEF Sets
  <2> QED
    BY <1>1, <2>1, BackgroundKeeps DEF Pending
<1>2. CASE calls[c].mounted
  <2>1. On("admin") /\ ui.page = "admin" /\ ui.mounted = TRUE
    BY <1>2, AdminRuns, OnAdmin
  <2>2. ui' \in AdminStates /\ ui'.page = ui.page /\ ui'.mounted = ui.mounted
    BY <1>2, <2>1 DEF Sets, AdminStates
  <2>3. FeedInv'
    BY <2>1, <2>2, FeedStays DEF ClientInv
  <2> QED
    BY <2>2, <2>3, AdminKeeps DEF ClientInv
<1> QED
  BY <1>1, <1>2

\* It ends.
LEMMA AdminEnds ==
    ASSUME ClientInv, NEW c \in DOMAIN calls, calls[c] # NoCall, calls[c].by \in Handlers("admin"),
           NEW state, Sets(c, state), calls[c].mounted => state \in AdminStates, End(c),
           world' = world, feed' = feed, SessionInv'
    PROVE  ClientInv'
<1>1. \A d \in 1 .. MaxCalls : calls'[d] = IF d = c THEN NoCall ELSE calls[d]
  BY DEF End, Ended, ClientInv, CallsInv
<1>2. ~Pending(c)' /\ c \in 1 .. MaxCalls
  BY <1>1 DEF Pending, NoCall, ClientInv, CallsInv
<1>3. ui'.page = ui.page /\ ui'.mounted = ui.mounted => CallsInv'
  BY EndKeeps DEF ClientInv
<1> QED
  BY <1>1, <1>2, <1>3, AdminSets

\* A handler that goes on with another token.
LEMMA TokenCall ==
    ASSUME NEW call, DOMAIN call = CallFields, NEW by, NEW token, NEW got
    PROVE  LET next == [call EXCEPT !.by = by, !.token = token, !.got = got] IN
           /\ DOMAIN next = CallFields
           /\ next.by = by /\ next.got = got
           /\ next.arg = call.arg /\ next.mounted = call.mounted
  BY DEF CallFields

\* It goes on with another call.
LEMMA AdminGoesOn ==
    ASSUME ClientInv, NEW c \in DOMAIN calls, calls[c] # NoCall, calls[c].by \in Handlers("admin"),
           NEW state, Sets(c, state), calls[c].mounted => state \in AdminStates,
           NEW next, NEW functions, calls' = [calls EXCEPT ![c] = next],
           DOMAIN next = CallFields, next.arg = calls[c].arg, next.mounted = calls[c].mounted,
           next.got = [f \in functions |-> Waiting],
           world' = world, feed' = feed, SessionInv',
           next.by \in Handlers("admin"), AwaitsOK(next.by, functions), KeepsOK(next.by, next.arg),
           \A f \in functions : ArgumentOK(next.arg, f, world)
    PROVE  ClientInv'
<1>1. CallOK(calls[c], world) /\ c \in 1 .. MaxCalls
  BY RunsOn DEF ClientInv, CallsInv
<1>2. calls[c].mounted => ui.page = "admin"
  BY AdminRuns, OnAdmin
<1>3. next.by \in UNION {Handlers(page) : page \in Routes}
  BY DEF Routes
<1>4. ui'.page = ui.page /\ ui'.mounted = ui.mounted => CallsInv'
  BY <1>2, <1>3, GoesOn DEF ClientInv
<1>5. calls'[c] = next /\ \A d \in 1 .. MaxCalls : d # c => calls'[d] = calls[d]
  BY <1>1 DEF ClientInv, CallsInv
<1>6. ~Pending(c)'
  BY <1>5 DEF Pending, Submissions, Handlers
<1> QED
  BY <1>4, <1>5, <1>6, AdminSets

\* It loads the lists.
LEMMA ListsNext ==
    ASSUME ClientInv, NEW c \in DOMAIN calls, calls[c] # NoCall, calls[c].by \in Handlers("admin"),
           NEW state, Sets(c, state), calls[c].mounted => state \in AdminStates, NEW token,
           calls' = [calls EXCEPT ![c].by = "lists", ![c].token = token,
                                  ![c].got = [f \in Lists |-> Waiting]],
           world' = world, feed' = feed, SessionInv'
    PROVE  ClientInv'
<1> DEFINE got == [f \in Lists |-> Waiting]
           next == [calls[c] EXCEPT !.by = "lists", !.token = token, !.got = got]
<1>1. DOMAIN calls[c] = CallFields
  BY RunsOn DEF CallOK
<1>2. calls' = [calls EXCEPT ![c] = next]
  OBVIOUS
<1> HIDE DEF got
<1>3. /\ DOMAIN next = CallFields /\ next.by = "lists" /\ next.got = got
      /\ next.arg = calls[c].arg /\ next.mounted = calls[c].mounted
  BY <1>1, TokenCall
<1> HIDE DEF next
<1>4. next.by \in Handlers("admin") /\ AwaitsOK(next.by, Lists) /\ KeepsOK(next.by, next.arg)
      /\ \A f \in Lists : ArgumentOK(next.arg, f, world)
  BY <1>3, ListsAwaited
<1>5. next.got = [f \in Lists |-> Waiting]
  BY <1>3 DEF got
<1> QED
  BY <1>2, <1>3, <1>4, <1>5, AdminGoesOn

\* It reloads the lists, or ends with a sign-in.
LEMMA ReloadKeeps ==
    ASSUME ClientInv, NEW c \in DOMAIN calls, calls[c] # NoCall, calls[c].by \in Handlers("admin"),
           NEW state, calls[c].mounted => state \in AdminStates, ReloadAdminData(c, state),
           world' = world, feed' = feed, SessionInv'
    PROVE  ClientInv'
<1>1. CASE /\ Sets(c, LoadingLists(state))
           /\ calls' = [calls EXCEPT ![c].by = "lists", ![c].token = stored,
                                     ![c].got = [f \in Lists |-> Waiting]]
  <2>1. calls[c].mounted => LoadingLists(state) \in AdminStates
    BY ConsoleStates
  <2> QED
    BY <1>1, <2>1, ListsNext
<1>2. CASE Sets(c, NeedsAuth(state)) /\ End(c)
  BY <1>2, ConsoleStates, AdminEnds
<1> QED
  BY <1>1, <1>2 DEF ReloadAdminData

\* The lists that arrived are shown.
LEMMA ListsShown ==
    ASSUME ui \in AdminStates, NEW c \in DOMAIN calls, CallOK(calls[c], world), Resumes(c, "lists"),
           ClientInv, calls[c] # NoCall
    PROVE  LoadedLists(c) \in AdminStates
<1> DEFINE status == IF Fulfilled(c, "adminListIdentities")
                     THEN Value(c, "adminListIdentities") ELSE ui.status
           flagged == IF Fulfilled(c, "adminListDuplicates")
                      THEN Value(c, "adminListDuplicates") ELSE ui.flagged
           amendments == IF Fulfilled(c, "adminListAmendments")
                         THEN Value(c, "adminListAmendments") ELSE ui.amendments
           shown == [ui EXCEPT !.loading = FALSE, !.status = status, !.flagged = flagged,
                               !.amendments = amendments]
           alone == [shown EXCEPT !.needsAdminAuth = TRUE, !.error = TRUE]
<1>1. DOMAIN calls[c].got = Lists
  BY DEF Resumes, CallOK, AwaitsOK
<1>2. ui.status \in Statuses \cup {None} /\ ui.flagged \in BOOLEAN
      /\ ui.amendments \in Seq(ReviewStatuses)
  BY DEF AdminStates
<1>3. status \in Statuses \cup {None}
  BY <1>1, <1>2, Resumed1 DEF Lists, Promised
<1>4. flagged \in BOOLEAN
  BY <1>1, <1>2, Resumed1 DEF Lists, Promised
<1>5. amendments \in Seq(ReviewStatuses)
  BY <1>1, <1>2, Resumed1 DEF Lists, Promised
<1>6. LoadedLists(c) = shown \/ LoadedLists(c) = alone
  BY DEF LoadedLists
<1> HIDE DEF status, flagged, amendments
<1>7. shown \in AdminStates
  BY <1>3, <1>4, <1>5 DEF AdminStates
<1> HIDE DEF shown
<1>8. alone \in AdminStates
  BY <1>7 DEF AdminStates
<1> QED
  BY <1>6, <1>7, <1>8

\* A handler of the console goes on.
LEMMA AdminResume ==
    ASSUME ClientInv, NEW c \in DOMAIN calls, calls[c] # NoCall,
           \/ LoadAdminDataResumes(c) \/ HandleStatusChangeResumes(c)
           \/ HandleResolveDuplicateResumes(c)
    PROVE  ClientInv'
<1>1. world' = world /\ feed' = feed /\ SameSession
  BY DEF LoadAdminDataResumes, HandleStatusChangeResumes, HandleResolveDuplicateResumes,
         AdminResumes
<1>2. SessionInv'
  BY <1>1, SessionStays DEF ClientInv
<1>3. CASE LoadAdminDataResumes(c)
  <2>1. Resumes(c, "lists") /\ calls[c].by \in Handlers("admin")
    BY <1>3 DEF LoadAdminDataResumes, Resumes, Handlers
  <2>2. calls[c].mounted => LoadedLists(c) \in AdminStates
    BY <2>1, AdminRuns, ListsShown
  <2> QED
    BY <1>1, <1>2, <1>3, <2>1, <2>2, AdminEnds DEF LoadAdminDataResumes
<1>4. ASSUME NEW by, NEW f, AdminResumes(c, by, f, [ui EXCEPT !.success = TRUE]),
             by \in Handlers("admin")
      PROVE  ClientInv'
  <2>1. calls[c].by \in Handlers("admin")
    BY <1>4 DEF AdminResumes, Resumes
  <2>2. calls[c].mounted =>
            [ui EXCEPT !.success = TRUE] \in AdminStates /\ [ui EXCEPT !.error = TRUE] \in AdminStates
    BY <2>1, AdminRuns, ConsoleStates
  <2>3. CASE ReloadAdminData(c, [ui EXCEPT !.success = TRUE])
    BY <1>1, <1>2, <2>1, <2>2, <2>3, ReloadKeeps
  <2>4. CASE Sets(c, [ui EXCEPT !.error = TRUE]) /\ End(c)
    BY <1>1, <1>2, <2>1, <2>2, <2>4, AdminEnds
  <2> QED
    BY <1>4, <2>3, <2>4 DEF AdminResumes
<1>5. CASE HandleStatusChangeResumes(c)
  <2>1. "status" \in Handlers("admin")
    BY DEF Handlers
  <2> QED
    BY <1>4, <1>5, <2>1 DEF HandleStatusChangeResumes
<1>6. CASE HandleResolveDuplicateResumes(c)
  <2>1. "resolve" \in Handlers("admin")
    BY DEF Handlers
  <2> QED
    BY <1>4, <1>6, <2>1 DEF HandleResolveDuplicateResumes
<1> QED
  BY <1>3, <1>5, <1>6

\* An administrator signs in at the console, or does not.
LEMMA AdminSignsIn ==
    ASSUME ClientInv, NEW c \in DOMAIN calls, calls[c] # NoCall, HandleAdminLoginSubmitResumes(c)
    PROVE  ClientInv'
<1>1. /\ Resumes(c, "admin login") /\ calls[c].by = "admin login"
      /\ calls[c].by \in Handlers("admin") /\ world' = world /\ feed' = feed
  BY DEF HandleAdminLoginSubmitResumes, Resumes, Handlers
<1>2. DOMAIN calls[c].got = {"loginUser"} /\ (calls[c].mounted => ui \in AdminStates)
  BY <1>1, AdminRuns DEF CallOK, AwaitsOK
<1>3. CASE /\ Fulfilled(c, "loginUser")
           /\ Login(Value(c, "loginUser"))
           /\ Sets(c, LoadingLists([ui EXCEPT !.success = TRUE]))
           /\ calls' = [calls EXCEPT ![c].by = "lists", ![c].token = Value(c, "loginUser"),
                                     ![c].got = [f \in Lists |-> Waiting]]
  <2>1. Value(c, "loginUser") \in world.accounts
    BY <1>1, <1>2, <1>3, Resumed1 DEF Promised
  <2>2. SessionInv'
    BY <1>1, <1>3, <2>1, SignsIn DEF ClientInv
  <2>3. calls[c].mounted => LoadingLists([ui EXCEPT !.success = TRUE]) \in AdminStates
    BY <1>2, ConsoleStates
  <2> QED
    BY <1>1, <1>3, <2>2, <2>3, ListsNext
<1>4. CASE Sets(c, [ui EXCEPT !.error = TRUE, !.loading = FALSE]) /\ End(c) /\ SameSession
  <2>1. SessionInv'
    BY <1>1, <1>4, SessionStays DEF ClientInv
  <2>2. calls[c].mounted => [ui EXCEPT !.error = TRUE, !.loading = FALSE] \in AdminStates
    BY <1>2, ConsoleStates
  <2> QED
    BY <1>1, <1>4, <2>1, <2>2, AdminEnds
<1> QED
  BY <1>3, <1>4 DEF HandleAdminLoginSubmitResumes

\* The suspect was suspended, and the flag is resolved next.
LEMMA SuspendResumes ==
    ASSUME ClientInv, NEW c \in DOMAIN calls, calls[c] # NoCall, HandleSuspendAndResolveResumes(c)
    PROVE  ClientInv'
<1>1. /\ Resumes(c, "suspend") /\ calls[c].by = "suspend" /\ calls[c].by \in Handlers("admin")
      /\ world' = world /\ feed' = feed /\ SameSession
  BY DEF HandleSuspendAndResolveResumes, Resumes, Handlers
<1>2. /\ DOMAIN calls[c].got = {"adminUpdateStatus"} /\ DOMAIN calls[c] = CallFields
      /\ calls[c].arg = [status |-> "SUSPENDED", resolution |-> "RESOLVED_DUPLICATE"]
      /\ calls[c].mounted => ui \in AdminStates
  BY <1>1, AdminRuns DEF CallOK, AwaitsOK, KeepsOK
<1>3. SessionInv'
  BY <1>1, SessionStays DEF ClientInv
<1>4. CASE /\ Fulfilled(c, "adminUpdateStatus")
           /\ AwaitNext(c, "resolve", {"adminResolveDuplicate"})
           /\ ui' = ui
  <2>1. world.suspended
    <3>1. Promised(calls[c].arg, "adminUpdateStatus", Value(c, "adminUpdateStatus"), world)
      BY <1>1, <1>2, <1>4, Resumed1
    <3>2. calls[c].arg.status = "SUSPENDED"
      BY <1>2
    <3> QED
      BY <3>1, <3>2 DEF Promised
  <2> DEFINE got == [f \in {"adminResolveDuplicate"} |-> Waiting]
             next == [calls[c] EXCEPT !.by = "resolve", !.got = got]
  <2>2. calls' = [calls EXCEPT ![c] = next]
    BY <1>4 DEF AwaitNext
  <2> HIDE DEF got
  <2>3. /\ DOMAIN next = CallFields /\ next.by = "resolve" /\ next.got = got
        /\ next.arg = calls[c].arg /\ next.mounted = calls[c].mounted
    BY <1>2, NextCall
  <2> HIDE DEF next
  <2>4. calls[c].arg.resolution \in Resolutions
    BY <1>2 DEF Resolutions
  <2>5. /\ next.by \in Handlers("admin") /\ AwaitsOK(next.by, {"adminResolveDuplicate"})
        /\ KeepsOK(next.by, next.arg)
        /\ \A f \in {"adminResolveDuplicate"} : ArgumentOK(next.arg, f, world)
    BY <2>1, <2>3, <2>4 DEF Handlers, AwaitsOK, KeepsOK, ArgumentOK
  <2>6. Sets(c, ui) /\ next.got = [f \in {"adminResolveDuplicate"} |-> Waiting]
    BY <1>4, <2>3 DEF Sets, got
  <2> QED
    BY <1>1, <1>2, <1>3, <2>2, <2>3, <2>5, <2>6, AdminGoesOn
<1>5. CASE Sets(c, [ui EXCEPT !.error = TRUE]) /\ End(c)
  <2>1. calls[c].mounted => [ui EXCEPT !.error = TRUE] \in AdminStates
    BY <1>2, ConsoleStates
  <2> QED
    BY <1>1, <1>3, <1>5, <2>1, AdminEnds
<1> QED
  BY <1>4, <1>5 DEF HandleSuspendAndResolveResumes

-----------------------------------------------------------------------------
(* The server: calls are settled, and others act. *)

\* What the pages show stays true of what the server has stored.
LEMMA WorldFollows ==
    ASSUME ClientInv, Follows(world, world'), ui' = ui, SameSession, CallsInv', FeedInv',
           SameHandlers
    PROVE  ClientInv'
<1>1. Grown(world, world') /\ WorldOK(world')
  BY DEF Follows
<1>2. SessionInv' /\ UiInv'
  BY <1>1 DEF ClientInv, SessionInv, UiInv, SameSession, Grown
<1>3. \A c \in 1 .. MaxCalls : Pending(c)' =>
          Pending(c) /\ calls'[c].arg = calls[c].arg /\ calls'[c].by = calls[c].by
  <2>1. ASSUME NEW c \in 1 .. MaxCalls, Pending(c)'
        PROVE  Pending(c) /\ calls[c] # NoCall
    BY <2>1 DEF SameHandlers, Pending, NoCall
  <2> QED
    BY <2>1 DEF SameHandlers
<1>4. FormInv'
  BY <1>3 DEF ClientInv, PagesInv, FormInv, Overlapped, On
<1>5. WizardInv' /\ VerifyInv'
  BY <1>1, <1>3 DEF ClientInv, PagesInv, WizardInv, VerifyInv, VerdictOK, On, Grown
<1>6. OrgInv'
  BY <1>1, <1>3 DEF ClientInv, PagesInv, OrgInv, On, Grown
<1>7. SuccessIsTrue'
  <2>1. ASSUME On("dashboard")
        PROVE  MessageTrue(ui.success, world')
    <3>1. MessageTrue(ui.success, world) /\ ui.success \in Messages
      BY <2>1, OnDashboard DEF Dashboard, DashboardStates
    <3>2. Approved(world) => Approved(world')
      BY <1>1 DEF Approved, Grown
    <3> QED
      BY <1>1, <3>1, <3>2 DEF MessageTrue, Approved, Grown
  <2> QED
    BY <2>1 DEF SuccessIsTrue, MessageTrue, Approved, On
<1> QED
  BY <1>1, <1>2, <1>4, <1>5, <1>6, <1>7 DEF ClientInv, PagesInv

\* So does what is queued.
LEMMA FeedFollows ==
    ASSUME FeedInv, WorldOK(world), Follows(world, world'), feed' = feed, ui' = ui
    PROVE  FeedInv'
<1>1. Grown(world, world')
  BY DEF Follows
<1>2. Approved(world) => Approved(world')
  BY <1>1 DEF Approved, Grown
<1>3. NoticesTrue(feed, world) => NoticesTrue(feed', world')
  BY <1>2 DEF NoticesTrue
<1>4. feed \in RequestFeed /\ AnswersTrue(feed, world) => AnswersTrue(feed', world')
  BY <1>1 DEF AnswersTrue, Grown
<1> QED
  BY <1>3, <1>4 DEF FeedInv, On

\* A call is settled.
LEMMA SettledKeeps ==
    ASSUME ClientInv, NEW c \in DOMAIN calls, Settles(c), feed' = feed, UNCHANGED web
    PROVE  ClientInv'
<1>1. ui' = ui /\ SameSession
  BY DEF web, SameSession
<1>2. Follows(world, world') /\ CallsInv' /\ SameHandlers
  BY <1>1, SettleKeeps DEF ClientInv
<1> QED
  BY <1>1, <1>2, FeedFollows, WorldFollows DEF ClientInv

\* A queue that was appended to.
LEMMA Appended ==
    ASSUME NEW S, NEW q \in Seq(S), NEW event \in S
    PROVE  /\ Append(q, event) \in Seq(S)
           /\ \A i \in DOMAIN Append(q, event) :
                  \/ i \in DOMAIN q /\ Append(q, event)[i] = q[i]
                  \/ Append(q, event)[i] = event
  OBVIOUS

\* A notice is published to the stream of the dashboard.
LEMMA NoticePublished ==
    ASSUME FeedInv, WorldOK(world), Follows(world, world'), ui' = ui,
           NEW topics, "request" \notin topics, NEW event \in Notices,
           event = "AMENDMENT_APPROVED" => Approved(world'),
           feed' = Published(topics, event)
    PROVE  FeedInv'
<1>1. CASE feed.state # "open"
  BY <1>1, FeedFollows DEF Published
<1> DEFINE queue == [t \in DOMAIN feed.queue |-> IF t \in topics THEN Append(feed.queue[t], event)
                                                 ELSE feed.queue[t]]
<1>2. feed.state = "open" => feed' = [feed EXCEPT !.queue = queue]
  BY DEF Published
<1>3. Grown(world, world') /\ (Approved(world) => Approved(world'))
  BY DEF Follows, Grown, Approved
<1>4. CASE feed.state = "open" /\ feed \in HolderFeed /\ On("dashboard") /\ NoticesTrue(feed, world)
  <2>1. feed.queue \in [{"identity", "eka_id"} -> Seq(Notices)]
    BY <1>4 DEF HolderFeed
  <2>2. ASSUME NEW t \in {"identity", "eka_id"}
        PROVE  /\ queue[t] \in Seq(Notices)
               /\ \A i \in DOMAIN queue[t] : queue[t][i] = "AMENDMENT_APPROVED" => Approved(world')
    <3>1. feed.queue[t] \in Seq(Notices) /\ t \in DOMAIN feed.queue
      BY <2>1
    <3>2. \A i \in DOMAIN feed.queue[t] :
              feed.queue[t][i] = "AMENDMENT_APPROVED" => Approved(world')
      BY <1>3, <1>4 DEF NoticesTrue
    <3>3. CASE t \in topics
      <4>1. queue[t] = Append(feed.queue[t], event)
        BY <3>1, <3>3
      <4> DEFINE q == feed.queue[t]
                 longer == Append(q, event)
      <4>2. /\ longer \in Seq(Notices)
            /\ \A i \in DOMAIN longer :
                   (i \in DOMAIN q /\ longer[i] = q[i]) \/ longer[i] = event
        BY <3>1, Appended
      <4> HIDE DEF queue, longer
      <4> QED
        BY <3>2, <4>1, <4>2 DEF longer
    <3>4. CASE t \notin topics
      <4>1. queue[t] = feed.queue[t]
        BY <3>1, <3>4
      <4> HIDE DEF queue
      <4> QED
        BY <3>1, <3>2, <4>1
    <3> QED
      BY <3>3, <3>4
  <2>3. queue \in [{"identity", "eka_id"} -> Seq(Notices)]
    BY <2>1, <2>2
  <2> HIDE DEF queue
  <2>4. feed' \in HolderFeed /\ feed'.queue = queue
    BY <1>2, <1>4, <2>3 DEF HolderFeed
  <2>5. NoticesTrue(feed', world')
    BY <2>2, <2>4 DEF NoticesTrue
  <2> QED
    BY <1>4, <2>4, <2>5 DEF FeedInv, On
<1>5. CASE feed.state = "open" /\ feed \in RequestFeed /\ On("org") /\ AnswersTrue(feed, world)
  <2>1. feed.queue \in [{"request"} -> Seq(Answers)]
    BY <1>5 DEF RequestFeed
  <2>2. queue = feed.queue
    BY <2>1
  <2> HIDE DEF queue
  <2>3. feed' = feed
    BY <1>2, <1>5, <2>2 DEF RequestFeed
  <2> QED
    BY <2>3, FeedFollows
<1>6. feed = NoFeed => feed.state # "open"
  BY DEF NoFeed
<1> QED
  BY <1>1, <1>4, <1>5, <1>6 DEF FeedInv

\* An answer is published to the stream of the organization.
LEMMA AnswerForwarded ==
    ASSUME FeedInv, WorldOK(world), Follows(world, world'), ui' = ui,
           NEW answer \in Answers, answer \in world'.recorded,
           feed.state = "open", feed.about = answer.request,
           feed' = Published({"request"}, answer)
    PROVE  FeedInv'
<1>1. feed # NoFeed /\ feed \notin HolderFeed
  <2>1. answer.request \in Requests
    BY DEF Answers
  <2>2. None \notin Requests
    BY WebBackendAssumption
  <2> QED
    BY <2>1, <2>2 DEF NoFeed, HolderFeed
<1>2. feed \in RequestFeed /\ On("org") /\ AnswersTrue(feed, world)
  BY <1>1 DEF FeedInv
<1> DEFINE q == feed.queue["request"]
           longer == Append(q, answer)
           queue == [t \in DOMAIN feed.queue |-> IF t \in {"request"} THEN Append(feed.queue[t], answer)
                                                 ELSE feed.queue[t]]
<1>3. feed' = [feed EXCEPT !.queue = queue]
  BY DEF Published
<1>4. feed.queue \in [{"request"} -> Seq(Answers)] /\ q \in Seq(Answers)
  BY <1>2 DEF RequestFeed
<1>5. queue["request"] = longer /\ DOMAIN queue = {"request"}
  BY <1>4
<1>6. /\ longer \in Seq(Answers)
      /\ \A i \in DOMAIN longer : (i \in DOMAIN q /\ longer[i] = q[i]) \/ longer[i] = answer
  BY <1>4, Appended
<1>7. queue \in [{"request"} -> Seq(Answers)]
  BY <1>4, <1>5, <1>6
<1> HIDE DEF queue
<1>8. feed' \in RequestFeed
  BY <1>2, <1>3, <1>7, AnswerQueued
<1>9. feed'.queue = queue
  BY <1>2, <1>3 DEF RequestFeed
<1>10. \A i \in DOMAIN q : q[i] \in world'.recorded
  BY <1>2 DEF AnswersTrue, Follows, Grown
<1>11. \A i \in DOMAIN longer : longer[i] \in world'.recorded
  BY <1>6, <1>10
<1> HIDE DEF longer
<1>12. AnswersTrue(feed', world')
  BY <1>5, <1>9, <1>11 DEF AnswersTrue
<1> QED
  BY <1>2, <1>8, <1>12 DEF FeedInv, On

\* The API has published an answer that it stored.
LEMMA AnswerFed ==
    ASSUME FeedInv, WorldOK(world), ui' = ui, NEW x \in world.answering, AnswerPublished(x)
    PROVE  FeedInv'
<1>1. Follows(world, world') /\ Said(x) \in world.recorded
  BY AnswerDone
<1>2. Said(x) \in world'.recorded
  BY <1>1 DEF Follows, Grown
<1>3. Said(x) \in Answers /\ Said(x).request = x.request
  BY <1>1 DEF Said, WorldOK, WorldType
<1>4. feed' = IF feed.state = "open" /\ feed.about = x.request THEN Published({"request"}, Said(x))
              ELSE feed
  BY DEF AnswerPublished, Said
<1>5. CASE feed.state = "open" /\ feed.about = x.request
  BY <1>1, <1>2, <1>3, <1>4, <1>5, AnswerForwarded
<1>6. CASE ~(feed.state = "open" /\ feed.about = x.request)
  BY <1>1, <1>4, <1>6, FeedFollows
<1> QED
  BY <1>5, <1>6

\* The API goes on with an answer.
LEMMA AnsweredKeepsClients ==
    ASSUME ClientInv, Answered
    PROVE  ClientInv'
<1>1. ui' = ui /\ SameSession
  BY DEF Answered, web, SameSession
<1>2. Follows(world, world') /\ CallsInv' /\ SameHandlers
  BY AnsweredKeeps DEF ClientInv
<1>3. FeedInv'
  <2>1. CASE AnswerStored
    BY <1>1, <1>2, <2>1, FeedFollows DEF AnswerStored, ClientInv
  <2>2. ASSUME NEW x \in world.answering, AnswerPublished(x)
        PROVE  FeedInv'
    BY <1>1, <2>2, AnswerFed DEF ClientInv
  <2>3. CASE AnswersNobody
    BY <2>2, <2>3 DEF AnswersNobody, AnsweringFor
  <2>4. CASE \E c \in DOMAIN calls : AnswersCall(c)
    BY <2>2, <2>4 DEF AnswersCall
  <2> QED
    BY <2>1, <2>3, <2>4 DEF Answered
<1> QED
  BY <1>1, <1>2, <1>3, WorldFollows

\* The others act.
LEMMA OthersKeep ==
    ASSUME ClientInv, Others, UNCHANGED <<calls, web>>
    PROVE  ClientInv'
<1>1. ui' = ui /\ calls' = calls /\ SameSession /\ SameHandlers
  BY DEF web, SameSession, SameHandlers
<1>2. ASSUME Follows(world, world'), FeedInv'
      PROVE  ClientInv'
  <2>1. CallsInv'
    BY <1>1, <1>2, WorldKeeps DEF Follows, WorldOK, ClientInv
  <2> QED
    BY <1>1, <1>2, <2>1, WorldFollows
<1>3. CASE OrganizationAsks
  <2>1. NextRequest \in Requests /\ world.consent[NextRequest] = "NONE"
    BY <1>3 DEF OrganizationAsks, NextRequest, Unused
  <2>2. Follows(world, world')
    BY <1>3, <2>1, ConsentUpdates DEF OrganizationAsks, Created, ClientInv
  <2>3. FeedInv'
    BY <1>1, <1>3, <2>2, NoticePublished DEF OrganizationAsks, Notices, ClientInv
  <2> QED
    BY <1>2, <2>2, <2>3
<1>4. CASE HolderAnswers
  <2>1. PICK r \in Requests, approved \in BOOLEAN : Tested(0, r, approved) /\ feed' = feed
    BY <1>4 DEF HolderAnswers
  <2>2. Follows(world, world')
    BY <2>1, AnswerTested DEF ClientInv
  <2>3. FeedInv'
    BY <1>1, <2>1, <2>2, FeedFollows DEF ClientInv
  <2> QED
    BY <1>2, <2>2, <2>3
<1>5. CASE AdministratorReviews
  <2>1. PICK i \in DOMAIN world.amendments, approved \in BOOLEAN :
            /\ world' = Reviewed(i, approved)
            /\ feed' = IF approved THEN Published({"identity", "eka_id"}, "AMENDMENT_APPROVED")
                       ELSE Published({"identity"}, "AMENDMENT_REJECTED")
    BY <1>5 DEF AdministratorReviews
  <2>2. Follows(world, world') /\ (approved => Approved(world'))
    BY <2>1, AmendmentReviewed DEF ClientInv
  <2>3. FeedInv'
    BY <1>1, <2>1, <2>2, NoticePublished DEF Notices, ClientInv
  <2> QED
    BY <1>2, <2>2, <2>3
<1> QED
  BY <1>3, <1>4, <1>5 DEF Others

-----------------------------------------------------------------------------
(* Whole behaviours. *)

\* The clients, the shell and the opening are as they should be.
SystemInv ==
    /\ ClientInv
    /\ desk = Absent \/ KnownInv
    /\ opening \in OpeningsOK

\* What is left of an opening is an opening.
LEMMA OpeningStates ==
    ASSUME NEW o \in OpeningsOK, NEW n \in Nat
    PROVE  /\ [o EXCEPT !.clicks = n] \in OpeningsOK
           /\ [o EXCEPT !.moves = n] \in OpeningsOK
           /\ [o EXCEPT !.others = n] \in OpeningsOK
           /\ [o EXCEPT !.faults = n] \in OpeningsOK
<1> USE DEF OpeningsOK
<1>1. [o EXCEPT !.clicks = n] \in OpeningsOK
  OBVIOUS
<1>2. [o EXCEPT !.moves = n] \in OpeningsOK
  OBVIOUS
<1>3. [o EXCEPT !.others = n] \in OpeningsOK
  OBVIOUS
<1>4. [o EXCEPT !.faults = n] \in OpeningsOK
  OBVIOUS
<1> QED
  BY <1>1, <1>2, <1>3, <1>4

\* A counter that is not used up.
LEMMA Less == ASSUME NEW n \in Nat, n > 0 PROVE n - 1 \in Nat
  OBVIOUS

\* The counters of an opening.
LEMMA OpeningCounts ==
    ASSUME NEW o \in OpeningsOK
    PROVE  /\ o.clicks \in Nat /\ o.moves \in Nat /\ o.others \in Nat /\ o.faults \in Nat
           /\ o.page \in Routes \cup {"desktop"} /\ o.stored \in (Accounts \ {Newcomer}) \cup {None}
           /\ o.gender \in {"", "MALE"} /\ o.backlog \in BOOLEAN
           /\ o.page = "desktop" => o.stored = None
  BY DEF OpeningsOK

\* A function given field by field.
LEMMA FirstProfile ==
    ASSUME NEW gender \in {"", "MALE"}
    PROVE  [legal_name |-> "given", gender |-> gender] \in [Fields -> Values]
<1> DEFINE profile == [legal_name |-> "given", gender |-> gender]
<1>1. DOMAIN profile = Fields
  BY DEF Fields
<1>2. profile["legal_name"] = "given" /\ profile["gender"] = gender
  OBVIOUS
<1>3. profile = [f \in DOMAIN profile |-> profile[f]]
  OBVIOUS
<1> HIDE DEF profile
<1>4. profile \in [Fields -> Values]
  BY <1>1, <1>2, <1>3 DEF Fields, Values
<1> QED
  BY <1>4 DEF profile

\* The amendment that waits at the start.
LEMMA FirstChanges == [legal_name |-> "other"] \in Changes
<1> DEFINE changes == [legal_name |-> "other"]
<1>1. DOMAIN changes = {"legal_name"}
  OBVIOUS
<1>2. changes["legal_name"] = "other"
  OBVIOUS
<1>3. changes = [f \in DOMAIN changes |-> changes[f]]
  OBVIOUS
<1> HIDE DEF changes
<1>4. changes \in [{"legal_name"} -> {"given", "MALE", "other"}]
  BY <1>1, <1>2, <1>3
<1>5. {"legal_name"} \in SUBSET Fields
  BY DEF Fields
<1>6. changes \in Changes
  BY <1>4, <1>5 DEF Changes
<1> QED
  BY <1>6 DEF changes

\* The facts at the start are of their type.
LEMMA FirstFacts ==
    ASSUME NEW w, NEW profile \in [Fields -> Values],
           NEW consent \in [Requests -> {"NONE", "PENDING", "APPROVED", "REJECTED"}],
           NEW amendments \in Amendments, NEW accounts \in SUBSET Accounts,
           w = [accounts |-> accounts, codes |-> {}, profile |-> profile, consent |-> consent,
                answering |-> {}, recorded |-> {}, amendments |-> amendments, approved |-> {},
                documents |-> {}, spent |-> {}, status |-> "ACTIVE",
                suspended |-> FALSE, flag |-> "PENDING_REVIEW"]
    PROVE  WorldOK(w) /\ w.accounts = accounts
<1>1. /\ {} \in SUBSET {Holder, Newcomer} /\ {} \in SUBSET Documents /\ {} \in SUBSET QRTokens
      /\ {} \in SUBSET Answerings /\ {} \in SUBSET Answers /\ {} \in SUBSET Nat
  OBVIOUS
<1>2. /\ "ACTIVE" \in Statuses /\ FALSE \in BOOLEAN
      /\ "PENDING_REVIEW" \in {"PENDING_REVIEW"} \cup Resolutions
  BY DEF Statuses
<1>3. w \in WorldType
  BY <1>1, <1>2 DEF WorldType
<1> QED
  BY <1>3 DEF WorldOK

\* The shortest sequences over a set.
LEMMA ShortSequences ==
    ASSUME NEW S, NEW w \in S
    PROVE  <<w>> \in Seq(S) /\ <<>> \in Seq(S)
<1>1. <<w>> \in Seq(S)
  OBVIOUS
<1>2. <<>> \in Seq(S)
  OBVIOUS
<1> QED
  BY <1>1, <1>2

\* The server starts as it should.
LEMMA FirstWorldOK ==
    ASSUME NEW gender \in {"", "MALE"}, NEW backlog \in BOOLEAN
    PROVE  /\ WorldOK(FirstWorld(gender, backlog))
           /\ FirstWorld(gender, backlog).accounts = Accounts \ {Newcomer}
<1> DEFINE profile == [legal_name |-> "given", gender |-> gender]
           consent == [r \in Requests |-> IF backlog /\ r = 1 THEN "PENDING" ELSE "NONE"]
           waiting == PendingAmendment([legal_name |-> "other"], {})
           amendments == IF backlog THEN <<waiting>> ELSE <<>>
           accounts == Accounts \ {Newcomer}
<1>1. profile \in [Fields -> Values]
  BY FirstProfile
<1>2. consent \in [Requests -> {"NONE", "PENDING", "APPROVED", "REJECTED"}]
  OBVIOUS
<1>3. amendments \in Amendments
  <2>1. waiting \in [changes : Changes, documents : SUBSET Documents,
                     status : {"PENDING_REVIEW", "APPROVED", "REJECTED"}]
    <3>1. \A changes \in Changes : PendingAmendment(changes, {}) \in
              [changes : Changes, documents : SUBSET Documents,
               status : {"PENDING_REVIEW", "APPROVED", "REJECTED"}]
      BY DEF PendingAmendment
    <3> QED
      BY <3>1, FirstChanges
  <2> HIDE DEF waiting
  <2>2. <<waiting>> \in Amendments /\ <<>> \in Amendments
    BY <2>1, ShortSequences, Zenon DEF Amendments
  <2> QED
    BY <2>2
<1>4. FirstWorld(gender, backlog) =
          [accounts |-> accounts, codes |-> {}, profile |-> profile, consent |-> consent,
           answering |-> {}, recorded |-> {}, amendments |-> amendments, approved |-> {},
           documents |-> {}, spent |-> {}, status |-> "ACTIVE",
           suspended |-> FALSE, flag |-> "PENDING_REVIEW"]
  BY DEF FirstWorld
<1>5. accounts \in SUBSET Accounts
  OBVIOUS
<1> HIDE DEF profile, consent, amendments, accounts
<1>6. /\ WorldOK(FirstWorld(gender, backlog))
      /\ FirstWorld(gender, backlog).accounts = accounts
  BY <1>1, <1>2, <1>3, <1>4, <1>5, FirstFacts
<1> QED
  BY <1>6 DEF accounts

\* No page is mounted at the start and no handler is under way.
LEMMA InitialClients ==
    ASSUME Init
    PROVE  SystemInv
<1>1. opening \in OpeningsOK
  BY OpeningsAssumption DEF Init
<1> DEFINE page == opening.page
<1>2. /\ page \in Routes \cup {"desktop"}
      /\ opening.stored \in (Accounts \ {Newcomer}) \cup {None}
      /\ opening.gender \in {"", "MALE"} /\ opening.backlog \in BOOLEAN
      /\ page = "desktop" => opening.stored = None
  BY <1>1, OpeningCounts
<1>3. WorldOK(world) /\ world.accounts = Accounts \ {Newcomer}
  BY <1>2, FirstWorldOK DEF Init
<1>4. FeedInv
  BY DEF Init, FeedInv
<1>5. CallsInv
  BY DEF Init, CallsInv
<1>6. UiInv /\ ~ui.mounted
  <2>1. ui = [page |-> page, mounted |-> FALSE]
    BY DEF Init, Opening
  <2> HIDE DEF page
  <2> QED
    BY <1>2, <2>1 DEF UiInv
<1>7. SessionInv
  <2>1. stored = opening.stored /\ session = None /\ booted = (page = "desktop")
    BY DEF Init
  <2> HIDE DEF page
  <2> QED
    BY <1>2, <1>3, <2>1 DEF SessionInv, AccountOrNone
<1>8. PagesInv
  BY <1>5, <1>6, NoForm DEF PagesInv, SuccessIsTrue, On
<1>9. desk = Absent \/ KnownInv
  BY InitialDesk DEF Init
<1> QED
  BY <1>1, <1>3, <1>4, <1>5, <1>6, <1>7, <1>8, <1>9 DEF SystemInv, ClientInv

\* A handler that goes on keeps what the clients keep true.
LEMMA ResumedKeeps ==
    ASSUME ClientInv, Resumed
    PROVE  ClientInv'
<1>1. PICK c \in DOMAIN calls :
          /\ calls[c] # NoCall
          /\ \/ HandleSubmitResumes(c)
             \/ HandleRequestOtpResumes(c) \/ HandleFinalSubmitResumes(c)
             \/ HandleVerifyResumes(c)
             \/ HandleDemoRecruiterAuthResumes(c) \/ HandleCreateRequestResumes(c)
             \/ LoadIdentityResumes(c) \/ LoadRequestsResumes(c)
             \/ LoadHistoryResumes(c) \/ LoadQRResumes(c)
             \/ RefreshResumes(c) \/ HandleConsentResumes(c) \/ ConsentRefreshResumes(c)
             \/ HandleGenerateCustomQRResumes(c)
             \/ HandleInspectW3CResumes(c) \/ HandleViewDIDResumes(c)
             \/ HandleSubmitAmendmentResumes(c) \/ FileRead(c) \/ HandleFileUploadResumes(c)
             \/ LoadAdminDataResumes(c) \/ HandleAdminLoginSubmitResumes(c)
             \/ HandleStatusChangeResumes(c)
             \/ HandleSuspendAndResolveResumes(c) \/ HandleResolveDuplicateResumes(c)
  BY DEF Resumed
<1>2. CASE HandleSubmitResumes(c)
  BY <1>1, <1>2, LoginResumes
<1>3. CASE HandleRequestOtpResumes(c) \/ HandleFinalSubmitResumes(c)
  BY <1>1, <1>3, WizardResumes
<1>4. CASE HandleVerifyResumes(c)
  BY <1>1, <1>4, VerifyResumes
<1>5. CASE HandleDemoRecruiterAuthResumes(c) \/ HandleCreateRequestResumes(c)
  BY <1>1, <1>5, OrgResumes
<1>6. CASE LoadIdentityResumes(c) \/ LoadRequestsResumes(c)
  BY <1>1, <1>6, LoadResumes
<1>7. CASE LoadHistoryResumes(c)
  BY <1>1, <1>7, HistoryResumes
<1>8. CASE \/ LoadQRResumes(c) \/ RefreshResumes(c) \/ ConsentRefreshResumes(c)
           \/ HandleInspectW3CResumes(c) \/ HandleViewDIDResumes(c)
  BY <1>1, <1>8, QuietResumes
<1>9. CASE \/ HandleConsentResumes(c) \/ HandleGenerateCustomQRResumes(c)
           \/ HandleSubmitAmendmentResumes(c) \/ HandleFileUploadResumes(c)
  BY <1>1, <1>9, MessageResumes
<1>10. CASE \/ LoadAdminDataResumes(c) \/ HandleStatusChangeResumes(c)
            \/ HandleResolveDuplicateResumes(c)
  BY <1>1, <1>10, AdminResume
<1>11. CASE HandleAdminLoginSubmitResumes(c)
  BY <1>1, <1>11, AdminSignsIn
<1>12. CASE HandleSuspendAndResolveResumes(c)
  BY <1>1, <1>12, SuspendResumes
<1>13. CASE FileRead(c)
  BY <1>1, <1>13, FileReadKeeps
<1> QED
  BY <1>1, <1>2, <1>3, <1>4, <1>5, <1>6, <1>7, <1>8, <1>9, <1>10, <1>11, <1>12, <1>13

\* What the web client does by itself keeps it.
LEMMA ProgressKeeps ==
    ASSUME ClientInv, opening \in OpeningsOK, Progress
    PROVE  ClientInv' /\ opening' \in OpeningsOK
<1>1. CASE Restore /\ UNCHANGED <<world, feed, calls, opening>>
  BY <1>1, RestoreKeeps
<1>2. CASE Mounts /\ UNCHANGED opening
  BY <1>2, HomeMountKeeps, LoginMountKeeps, RegisterMountKeeps, VerifyMountKeeps, OrgMountKeeps,
     DashboardMountKeeps, AdminLoads DEF Mounts
<1>3. CASE Settled
  <2>1. PICK c \in DOMAIN calls :
            /\ Settles(c)
            /\ Fault(c) => opening.faults > 0
            /\ opening' = [opening EXCEPT !.faults = IF Fault(c) THEN @ - 1 ELSE @]
            /\ UNCHANGED <<feed, web>>
    BY <1>3 DEF Settled
  <2>2. ClientInv'
    BY <2>1, SettledKeeps
  <2>3. CASE Fault(c)
    <3>1. opening' = [opening EXCEPT !.faults = opening.faults - 1] /\ opening.faults > 0
      BY <2>1, <2>3
    <3>2. opening.faults - 1 \in Nat
      BY <3>1, OpeningCounts, Less
    <3> QED
      BY <2>2, <3>1, <3>2, OpeningStates
  <2>4. CASE ~Fault(c)
    <3>1. opening' = [opening EXCEPT !.faults = opening.faults]
      BY <2>1, <2>4
    <3>2. opening.faults \in Nat
      BY OpeningCounts
    <3> QED
      BY <2>2, <3>1, <3>2, OpeningStates
  <2> QED
    BY <2>3, <2>4
<1>4. CASE (Resumed \/ Subscribe \/ Answered) /\ UNCHANGED opening
  BY <1>4, ResumedKeeps, OrgListens, AnsweredKeepsClients
<1> QED
  BY <1>1, <1>2, <1>3, <1>4 DEF Progress

\* What happens to the page keeps it.
LEMMA HappensKeeps ==
    ASSUME ClientInv, Happens
    PROVE  ClientInv'
  BY OrgListens, DashboardListens, MessageTimeoutKeeps DEF Happens

\* What the person does keeps it.
LEMMA ClicksKeep ==
    ASSUME ClientInv, opening \in OpeningsOK, Clicks
    PROVE  ClientInv' /\ opening' \in OpeningsOK
<1>1. opening' \in OpeningsOK
  <2>1. opening' = [opening EXCEPT !.clicks = opening.clicks - 1] /\ opening.clicks > 0
    BY DEF Clicks
  <2>2. opening.clicks - 1 \in Nat
    BY <2>1, OpeningCounts, Less
  <2> QED
    BY <2>1, <2>2, OpeningStates
<1>2. CASE HandleSubmit \/ ReturnToSignIn
  BY <1>1, <1>2, LoginCalls, LogoutKeeps
<1>3. CASE \/ ContinueToContact \/ SetEmail \/ SetOtpCode \/ Back
           \/ HandleRequestOtp \/ HandleFinalSubmit
  BY <1>1, <1>3, WizardEntries, WizardCalls
<1>4. CASE SubmitToken \/ EditToken
  BY <1>1, <1>4, VerifySubmits
<1>5. CASE HandleDemoRecruiterAuth \/ HandleCreateRequest
  BY <1>1, <1>5, OrgCalls
<1>6. CASE \/ On("dashboard") /\ ReviewNow
           \/ ToggleScope \/ SetQrDuration \/ CloseVC \/ CloseDID
           \/ OpenAmendmentModal \/ CloseAmendmentModal \/ EditForm \/ HandleToggleDocSelection
  BY <1>1, <1>6, DashboardClicks
<1>7. CASE \/ HandleConsent \/ HandleGenerateCustomQR \/ HandleInspectW3C \/ HandleViewDID
           \/ HandleSubmitAmendment \/ HandleFileUpload
  BY <1>1, <1>7, DashboardCalls
<1>8. CASE RefreshRecords \/ HandleSaveDbConfig
  BY <1>1, <1>8, AdminLoads
<1>9. CASE \/ HandleAdminLoginSubmit \/ HandleStatusChange \/ HandleResolveDuplicate
           \/ HandleSuspendAndResolve \/ OpenDbModal \/ CloseDbModal
  BY <1>1, <1>9, AdminClicks
<1> QED
  BY <1>1, <1>2, <1>3, <1>4, <1>5, <1>6, <1>7, <1>8, <1>9 DEF Clicks

\* Moving to another page keeps it.
LEMMA MovesKeep ==
    ASSUME ClientInv, opening \in OpeningsOK, Moves
    PROVE  ClientInv' /\ opening' \in OpeningsOK
<1>1. opening' = [opening EXCEPT !.moves = opening.moves - 1] /\ opening.moves > 0
  BY DEF Moves
<1>2. opening.moves - 1 \in Nat
  BY <1>1, OpeningCounts, Less
<1>3. opening' \in OpeningsOK
  BY <1>1, <1>2, OpeningStates
<1> QED
  BY <1>3, NavigateKeeps, LinkKeeps, LogoutKeeps DEF Moves

\* So do the others, and the shell, which the pages do not depend on.
LEMMA OthersActKeeps ==
    ASSUME ClientInv, opening \in OpeningsOK, OthersAct
    PROVE  ClientInv' /\ opening' \in OpeningsOK
<1>1. opening' = [opening EXCEPT !.others = opening.others - 1] /\ opening.others > 0
  BY DEF OthersAct
<1>2. opening.others - 1 \in Nat
  BY <1>1, OpeningCounts, Less
<1>3. opening' \in OpeningsOK
  BY <1>1, <1>2, OpeningStates
<1> QED
  BY <1>3, OthersKeep DEF OthersAct

\* Nothing changes for the pages.
LEMMA NothingKeeps ==
    ASSUME ClientInv, UNCHANGED <<world, feed, calls, web>>
    PROVE  ClientInv'
<1>1. FeedInv' /\ CallsInv' /\ UiInv'
  BY DEF ClientInv, FeedInv, CallsInv, UiInv, web, On
<1>2. SessionInv' /\ WorldOK(world)'
  BY DEF ClientInv, SessionInv, web, WorldOK
<1>3. PagesInv'
  BY DEF ClientInv, PagesInv, FormInv, WizardInv, VerifyInv, OrgInv, SuccessIsTrue, Pending,
         Overlapped, VerdictOK, On, web
<1> QED
  BY <1>1, <1>2, <1>3 DEF ClientInv

\* Every step keeps what the clients, the shell and the opening are.
LEMMA Step ==
    ASSUME SystemInv, [Next]_vars
    PROVE  SystemInv'
<1> USE DEF SystemInv
<1>1. CASE Progress
  <2>1. desk' = desk
    BY <1>1 DEF Progress
  <2> QED
    BY <1>1, <2>1, ProgressKeeps DEF KnownInv, AtMostOneSpawned
<1>2. CASE Happens
  <2>1. desk' = desk /\ opening' = opening
    BY <1>2 DEF Happens
  <2> QED
    BY <1>2, <2>1, HappensKeeps DEF KnownInv, AtMostOneSpawned
<1>3. CASE Clicks
  <2>1. desk' = desk
    BY <1>3 DEF Clicks
  <2> QED
    BY <1>3, <2>1, ClicksKeep DEF KnownInv, AtMostOneSpawned
<1>4. CASE Moves
  <2>1. desk' = desk
    BY <1>4 DEF Moves
  <2> QED
    BY <1>4, <2>1, MovesKeep DEF KnownInv, AtMostOneSpawned
<1>5. CASE OthersAct
  <2>1. desk' = desk
    BY <1>5 DEF OthersAct
  <2> QED
    BY <1>5, <2>1, OthersActKeeps DEF KnownInv, AtMostOneSpawned
<1>6. CASE Desktop
  <2>1. KnownInv' /\ opening' = opening
    BY <1>6, DesktopStep DEF Desktop
  <2> QED
    BY <1>6, <2>1, NothingKeeps DEF Desktop
<1>7. CASE UNCHANGED vars
  <2>1. desk' = desk /\ opening' = opening /\ UNCHANGED <<world, feed, calls, web>>
    BY <1>7 DEF vars, web
  <2> QED
    BY <2>1, NothingKeeps DEF KnownInv, AtMostOneSpawned
<1> QED
  BY <1>1, <1>2, <1>3, <1>4, <1>5, <1>6, <1>7 DEF Next

\* Every state of every behaviour is as it should be: the invariant the
\* theorems below rest on.
THEOREM Invariance == Spec => []SystemInv
<1>1. Init => SystemInv
  BY InitialClients
<1>2. SystemInv /\ [Next]_vars => SystemInv'
  BY Step
<1> QED
  BY <1>1, <1>2, PTL DEF Spec

\* The pages, the event stream, the session and the server's facts keep their
\* types, whoever acts and whatever fails (TypeOK).
THEOREM TypeCorrect == Spec => []TypeOK
<1>1. SystemInv => TypeOK
  <2> SUFFICES ASSUME SystemInv
               PROVE  TypeOK
    OBVIOUS
  <2>1. ClientInv /\ opening \in OpeningsOK
    BY DEF SystemInv
  <2>2. /\ world.accounts \subseteq Accounts
        /\ world.codes \subseteq {Holder, Newcomer}
        /\ world.profile \in [Fields -> {"", "given", "MALE", "other"}]
        /\ world.recorded \subseteq [request : Requests, approved : BOOLEAN]
        /\ world.approved \subseteq Nat
        /\ world.consent \in [Requests -> {"NONE", "PENDING", "APPROVED", "REJECTED"}]
        /\ world.amendments \in Amendments
        /\ world.documents \subseteq Documents
        /\ world.spent \subseteq QRTokens
        /\ world.status \in {"ACTIVE", "SUSPENDED"}
        /\ world.flag \in {"PENDING_REVIEW", "RESOLVED_FALSE_POSITIVE", "RESOLVED_DUPLICATE"}
    <3>1. world \in WorldType
      BY <2>1 DEF ClientInv, WorldOK
    <3> QED
      BY <3>1 DEF WorldType, Values, Statuses, Resolutions, Answers
  <2>3. /\ feed.state \in {"closed", "connecting", "open", "refused"}
        /\ feed.state # "closed" => feed.as \in Accounts /\ On(ui.page)
    <3>1. FeedInv
      BY <2>1 DEF ClientInv
    <3>2. CASE feed = NoFeed
      BY <3>2 DEF NoFeed
    <3>3. CASE feed \in HolderFeed /\ On("dashboard")
      BY <3>3 DEF HolderFeed, On
    <3>4. CASE feed \in RequestFeed /\ On("org")
      BY <3>4 DEF RequestFeed, On
    <3> QED
      BY <3>1, <3>2, <3>3, <3>4 DEF FeedInv
  <2>4. ui.page \in Routes \cup {"desktop"}
    BY <2>1, PageStates DEF ClientInv
  <2>5. {stored, session} \subseteq Accounts \cup {None} /\ booted \in BOOLEAN
    BY <2>1, <2>2 DEF ClientInv, SessionInv, AccountOrNone
  <2> QED
    BY <2>1, <2>2, <2>3, <2>4, <2>5 DEF TypeOK
<1> QED
  BY <1>1, Invariance, PTL

\* Once the provider has read localStorage, the context and localStorage hold
\* the same session, of an account the API has (SessionAgrees).
THEOREM SessionsAgree == Spec => []SessionAgrees
<1>1. SystemInv => SessionAgrees
  BY WebBackendAssumption DEF SystemInv, ClientInv, SessionInv, SessionAgrees
<1> QED
  BY <1>1, Invariance, PTL

\* However often the person clicks, a form of the mounted page has one call
\* under way at most; only a link that changes under a verification sends
\* another one beside it (OneSubmissionAtATime).
THEOREM OneSubmission == Spec => []OneSubmissionAtATime
<1>1. SystemInv => OneSubmissionAtATime
  <2> SUFFICES ASSUME SystemInv
               PROVE  OneSubmissionAtATime
    OBVIOUS
  <2>0. CASE Overlapped
    BY <2>0 DEF Overlapped, OneSubmissionAtATime
  <2> SUFFICES ASSUME ~Overlapped
               PROVE  OneSubmissionAtATime
    BY <2>0
  <2> DEFINE pending == {c \in DOMAIN calls : calls[c].mounted /\ calls[c].by \in Submissions}
  <2>1. DOMAIN calls = 1 .. MaxCalls /\ FormInv
    BY DEF SystemInv, ClientInv, CallsInv, PagesInv
  <2>2. pending = {} \/ \E c : pending = {c}
    <3>1. \A c, d \in pending : c = d
      BY <2>1 DEF FormInv, Pending
    <3> HIDE DEF pending
    <3> QED
      BY <3>1
  <2>3. CASE pending = {}
    BY <2>3, FS_EmptySet DEF OneSubmissionAtATime
  <2>4. ASSUME NEW c, pending = {c}
        PROVE  OneSubmissionAtATime
    BY <2>4, FS_Singleton DEF OneSubmissionAtATime
  <2> QED
    BY <2>2, <2>3, <2>4
<1> QED
  BY <1>1, Invariance, PTL

\* Behind every wait that the page shows is a call of that page which is under
\* way and whose end clears it (SpinnersHaveCalls): what the liveness of the
\* waits rests on, whatever fails and whichever answers cross.
THEOREM WaitsAreOwed == Spec => []SpinnersHaveCalls
<1>1. Init => SystemInv /\ SpinInv
  <2> SUFFICES ASSUME Init
               PROVE  SystemInv /\ SpinInv
    OBVIOUS
  <2>1. \A s \in DOMAIN Spinners : ~Turns(ui, s)
    BY SpinnerNames DEF Init, Opening, Turns
  <2> QED
    BY <2>1, InitialClients DEF SpinInv
<1>2. (SystemInv /\ SpinInv) /\ [Next]_vars => (SystemInv /\ SpinInv)'
  BY Step, SpinStep DEF SystemInv, ClientInv
<1>3. SystemInv /\ SpinInv => SpinnersHaveCalls
  BY DEF SystemInv, ClientInv, CallsInv, SpinInv, Behind, Turns, SpinnersHaveCalls
<1> QED
  BY <1>1, <1>2, <1>3, PTL DEF Spec

\* The last step of the wizard shows an account the API has created, and
\* nothing of the wizard is under way behind it (WizardTellsTruth).
THEOREM WizardIsTrue == Spec => []WizardTellsTruth
<1>1. SystemInv => WizardTellsTruth
  <2> SUFFICES ASSUME SystemInv, On("register"), ui.step = 4
               PROVE  /\ ui.createdFor \in world.accounts
                      /\ \A c \in DOMAIN calls :
                             calls[c].mounted => calls[c].by \notin {"otp", "register"}
    BY DEF WizardTellsTruth
  <2>1. DOMAIN calls = 1 .. MaxCalls /\ WizardInv
    BY DEF SystemInv, ClientInv, CallsInv, PagesInv
  <2> QED
    BY <2>1 DEF WizardInv, Pending, Submissions
<1> QED
  BY <1>1, Invariance, PTL

\* The verdict on the verify page is of the token last sent, and the API has
\* spent it (VerdictIsOfTheToken).
THEOREM VerdictIsTrue == Spec => []VerdictIsOfTheToken
<1>1. SystemInv => VerdictIsOfTheToken
  BY DEF SystemInv, ClientInv, PagesInv, VerifyInv, VerdictOK, VerdictIsOfTheToken
<1> QED
  BY <1>1, Invariance, PTL

\* The answer the organization sees is of the request it shows, and is what
\* the API has recorded (LiveResponseMatches).
THEOREM LiveResponseIsTrue == Spec => []LiveResponseMatches
<1>1. SystemInv => LiveResponseMatches
  BY DEF SystemInv, ClientInv, PagesInv, OrgInv, LiveResponseMatches
<1> QED
  BY <1>1, Invariance, PTL

\* What the dashboard claims to have succeeded has (SuccessIsTrue).
THEOREM SuccessesAreTrue == Spec => []SuccessIsTrue
<1>1. SystemInv => SuccessIsTrue
  BY DEF SystemInv, ClientInv, PagesInv
<1> QED
  BY <1>1, Invariance, PTL

\* An amendment asks for the fields the holder typed in, and for a gender only
\* where the profile had none (OnlyEditedFieldsRequested).
THEOREM OnlyEditedRequested == Spec => []OnlyEditedFieldsRequested
<1>1. SystemInv => OnlyEditedFieldsRequested
  <2> SUFFICES ASSUME SystemInv, NEW c \in DOMAIN calls, calls[c].by = "amend",
                      ~calls[c].arg.profileless
               PROVE  DOMAIN calls[c].arg.changes \subseteq
                          calls[c].arg.edited \cup (IF calls[c].arg.genderless THEN {"gender"} ELSE {})
    BY DEF OnlyEditedFieldsRequested
  <2>1. c \in 1 .. MaxCalls /\ calls[c] # NoCall
    BY DEF SystemInv, ClientInv, CallsInv, NoCall
  <2>2. CallOK(calls[c], world)
    BY <2>1 DEF SystemInv, ClientInv, CallsInv
  <2> QED
    BY <2>2 DEF CallOK, KeepsOK
<1> QED
  BY <1>1, Invariance, PTL

\* A flag is resolved as a duplicate only after its suspect was suspended
\* (ConfirmedWasSuspended).
THEOREM ConfirmedSuspended == Spec => []ConfirmedWasSuspended
<1>1. SystemInv => ConfirmedWasSuspended
  BY DEF SystemInv, ClientInv, WorldOK, ConfirmedWasSuspended
<1> QED
  BY <1>1, Invariance, PTL

\* A shell that is quit after a start and without a saved configuration leaves
\* no backend behind that it has not told to stop (NoBackendOutlivesShell).
THEOREM NoBackendLeft == Spec => []NoBackendOutlivesShell
<1>1. SystemInv => NoBackendOutlivesShell
  BY DEF SystemInv, KnownInv, Absent, NoBackendOutlivesShell
<1> QED
  BY <1>1, Invariance, PTL

\* Each of its own steps brings the start of the shell nearer to its end, and
\* nothing else sets it back (StartGoesForward): the start ends within
\* MaxChecks + 2 steps, whatever processes die and configurations are saved.
THEOREM StartIsBounded == Spec => StartGoesForward
<1>1. Init => SystemInv /\ (desk # Absent => StartInv)
  BY InitialClients, InitialStart DEF Init
<1>2. SystemInv /\ (desk # Absent => StartInv) /\ [Next]_vars =>
          /\ (SystemInv /\ (desk # Absent => StartInv))'
          /\ [desk # Absent =>
                 IF BootSteps THEN StartRank(desk') < StartRank(desk)
                 ELSE StartRank(desk') = StartRank(desk)]_desk
  <2> SUFFICES ASSUME SystemInv, desk # Absent => StartInv, [Next]_vars
               PROVE  /\ (SystemInv /\ (desk # Absent => StartInv))'
                      /\ [desk # Absent =>
                             IF BootSteps THEN StartRank(desk') < StartRank(desk)
                             ELSE StartRank(desk') = StartRank(desk)]_desk
    OBVIOUS
  <2>1. SystemInv'
    BY Step
  <2>2. CASE Desktop
    BY <2>1, <2>2, StartMoves DEF Desktop, SystemInv
  <2>3. CASE desk' = desk
    BY <2>1, <2>3 DEF StartInv
  <2> QED
    BY <2>2, <2>3 DEF Next, Progress, Happens, Clicks, Moves, OthersAct, vars
<1> QED
  BY <1>1, <1>2, PTL DEF Spec, StartGoesForward
===============================================================================
